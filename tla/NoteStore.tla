------------------------------ MODULE NoteStore ------------------------------
(***************************************************************************)
(* The writes of the note store (notes/store.ts) on one vault: creating,   *)
(* editing, renaming, trashing, restoring and purging notes by path, and   *)
(* the rewriting of links that follows a rename.  A write holds the        *)
(* process's key lock of each path (key-lock.ts), reads, and writes in one *)
(* transaction under the note's Postgres lock (store-tx.ts).  What editors *)
(* type meanwhile is NoteCrdt's subject.                                   *)
(***************************************************************************)
EXTENDS Integers, Sequences, FiniteSets

CONSTANTS
  Notes,        \* note ids
  Paths,        \* positive numbers, by their sort order
  Clients,      \* callers, one call at a time each
  Servers,      \* server processes that may run on the database; each also runs the projector's jobs
  Calls,        \* what callers may ask for: [op, path, to, note]
  Start,        \* the notes at the start
  WriteRounds,  \* WRITE_ROUNDS
  RelinkRounds, \* RELINK_ROUNDS
  MaxCalls, MaxFaults  \* bounds: calls; failed transactions and process deaths together

Ats == {"none", "live", "trash", "gone"}
Links == [to : Paths, of : Notes \cup {"none"}]
Row == [at : Ats, path : Paths \cup {0}, seq : Nat, links : SUBSET Links]
ByPath == {"create", "edit", "rename", "delete"}
ById == {"restore", "purge"}

ASSUME PathsAssumption == Paths \subseteq Nat \ {0} /\ IsFiniteSet(Paths)
ASSUME NamesAssumption == "none" \notin Notes /\ Clients \cap Servers = {} /\ IsFiniteSet(Servers)
\* A rename goes to another path.
ASSUME CallsAssumption ==
  /\ Calls \subseteq [op : ByPath \cup ById, path : Paths \cup {0}, to : Paths \cup {0}, note : Notes \cup {"none"}]
  /\ \A k \in Calls : /\ k.op \in ByPath => k.path \in Paths
                      /\ k.op \in {"edit", "rename"} => k.to \in Paths
                      /\ k.op = "rename" => k.to # k.path
                      /\ k.op \in ById => k.note \in Notes
ASSUME StartAssumption ==
  /\ Start \in [Notes -> Row]
  /\ \A n \in Notes : Start[n].path = 0 <=> Start[n].at = "none"
  /\ \A n, m \in Notes : Start[n].at = "live" /\ Start[m].at = "live" /\ Start[n].path = Start[m].path => n = m
\* A link that is known to mean a note names its path.
ASSUME LinksAssumption ==
  \A r \in Notes : \A l \in Start[r].links :
    l.of # "none" => Start[l.of].at # "none" /\ (Start[l.of].at # "gone" => l.to = Start[l.of].path)
ASSUME StoreBounds == {WriteRounds, RelinkRounds, MaxCalls, MaxFaults} \subseteq Nat

VARIABLES
  rows,     \* notes: at, path, seq, and the links of the body: where to, and (ghost) which note is meant
  queue,    \* tails of each process: who holds and waits for a path's key
  act,      \* where each caller's work and each process's job runner is
  jobs,     \* open store_rename_refactor jobs
  fleet,    \* the processes that run
  host,     \* the process each client talks to
  call, reply, could, homes,  \* ghosts: see NoteDirectory
  calls, faults

vars == <<rows, queue, act, jobs, fleet, host, call, reply, could, homes, calls, faults>>

Actors == Clients \cup Servers
Server(a) == IF a \in Clients THEN host[a] ELSE a

Live(n) == rows[n].at = "live"
LiveAt(n, p) == Live(n) /\ rows[n].path = p
Taken(p) == \E n \in Notes : LiveAt(n, p)
NoteAt(p) == IF Taken(p) THEN CHOOSE n \in Notes : LiveAt(n, p) ELSE "none"

NoCall == [op |-> "none", path |-> 0, to |-> 0, note |-> "none"]
Idle == [at |-> "idle", op |-> "none", path |-> 0, to |-> 0, note |-> "none", keys |-> <<>>, seen |-> "none",
         seq |-> 0, tries |-> 0, job |-> <<>>, from |-> 0, refs |-> {}, ref |-> "none", linked |-> 0, rounds |-> 0,
         own |-> FALSE]
At(a, at) == act[a].at = at
Op(a, ops) == act[a].op \in ops

\* The promise this module implements; a rename is applied once its move is committed.
Seen(table) == [n \in Notes |-> [at |-> table[n].at, path |-> table[n].path, links |-> {l.to : l \in table[n].links}]]
Vault == Seen(rows)
StartVault == Seen(Start)
Applied == {c \in Clients : Op(c, {"relink"})}
Directory == INSTANCE NoteDirectory WITH vault <- Vault, Start <- StartVault, applied <- Applied

Init ==
  /\ rows = Start /\ queue = [s \in Servers |-> [p \in Paths |-> <<>>]]
  /\ act = [a \in Actors |-> Idle] /\ jobs = {} /\ fleet \in SUBSET Servers \ {{}} /\ host \in [Clients -> fleet]
  /\ call = [c \in Clients |-> NoCall] /\ reply = [c \in Clients |-> "none"] /\ could = [c \in Clients |-> {}]
  /\ homes = [n \in Notes |-> IF rows[n].at = "none" THEN {} ELSE {rows[n].path}]
  /\ calls = 0 /\ faults = 0
-----------------------------------------------------------------------------
(* Key locks: first come, first served, within one process *)

Enqueued(q, a, p) == [q EXCEPT ![Server(a)][p] = Append(@, a)]
Holds(a, p) == LET q == queue[Server(a)][p] IN q # <<>> /\ Head(q) = a
Released(a) == [queue EXCEPT ![Server(a)] = [p \in Paths |-> IF Holds(a, p) THEN Tail(@[p]) ELSE @[p]]]
Waits(a, p) == LET q == queue[Server(a)][p] IN \E i \in 2 .. Len(q) : q[i] = a
HoldsAll(a) == \A i \in DOMAIN act[a].keys : Holds(a, act[a].keys[i])

\* Mutant: the keys are taken in the order they are named.
AsNamed(from, to) == <<from, to>>
\* withKeyLocks: in sorted order.
Sorted(from, to) == IF from < to THEN <<from, to>> ELSE <<to, from>>
KeysOf(k) == IF k.op = "rename" THEN Sorted(k.path, k.to) ELSE <<k.path>>

\* The first key is held: ask for the second.
SecondKey(a) ==
  /\ At(a, "lock") /\ Len(act[a].keys) = 2 /\ Holds(a, act[a].keys[1])
  /\ ~Holds(a, act[a].keys[2]) /\ ~Waits(a, act[a].keys[2])
  /\ queue' = Enqueued(queue, a, act[a].keys[2])
  /\ UNCHANGED <<rows, act, jobs, fleet, host, call, reply, homes, calls, faults>>
-----------------------------------------------------------------------------
(* Calls and answers *)

\* Bound: as many creates as there are ids left.
Ids == Cardinality({n \in Notes : rows[n].at = "none"}) - Cardinality({c \in Clients : Op(c, {"create"})})

Call(c, k) ==
  /\ At(c, "idle") /\ calls < MaxCalls /\ calls' = calls + 1 /\ (k.op = "create" => Ids > 0)
  /\ LET byId == k.op \in ById
         task == [Idle EXCEPT !.at = IF byId THEN "seek" ELSE "lock", !.op = k.op, !.path = k.path, !.to = k.to,
                              !.note = k.note, !.keys = IF byId THEN <<>> ELSE KeysOf(k)]
     IN act' = [act EXCEPT ![c] = task] /\ queue' = IF byId THEN queue ELSE Enqueued(queue, c, task.keys[1])
  /\ call' = [call EXCEPT ![c] = k] /\ reply' = [reply EXCEPT ![c] = "none"]
  /\ UNCHANGED <<rows, jobs, fleet, host, homes, faults>>

Answer(c, answer) ==
  /\ call' = [call EXCEPT ![c] = NoCall] /\ reply' = [reply EXCEPT ![c] = answer]
  /\ act' = [act EXCEPT ![c] = Idle]

\* The work ends and the keys are released: a call is answered, a job is taken up again after its backoff.
Ends(a, answer) ==
  /\ queue' = Released(a)
  /\ IF a \in Clients THEN Answer(a, answer) ELSE act' = [act EXCEPT ![a] = Idle] /\ UNCHANGED <<call, reply>>

\* A referrer's write ends without the referrer: the next round looks for it again.
\* own, a ghost: the link it looks for is one that this run wrote.
NextRound(a, linked) ==
  /\ queue' = Released(a)
  /\ act' = [act EXCEPT ![a].at = "relink", ![a].linked = linked, ![a].rounds = @ + 1, ![a].own = @ \/ At(a, "settle"),
                        ![a].keys = <<>>, ![a].path = 0, ![a].to = 0, ![a].seen = "none", ![a].seq = 0, ![a].tries = 0]
  /\ UNCHANGED <<call, reply>>

\* writeNote and the others return null.
NoNote(a) == IF Op(a, {"relink"}) THEN NextRound(a, act[a].linked) ELSE Ends(a, "missing")

\* withTrashedNote, before the lock.
Seek(c) ==
  /\ At(c, "seek")
  /\ LET n == act[c].note IN
     IF rows[n].at = "trash"
     THEN /\ act' = [act EXCEPT ![c].at = "lock", ![c].path = rows[n].path, ![c].keys = <<rows[n].path>>]
          /\ queue' = Enqueued(queue, c, rows[n].path) /\ UNCHANGED <<call, reply>>
     ELSE Ends(c, "missing")
  /\ UNCHANGED <<rows, jobs, fleet, host, homes, calls, faults>>
-----------------------------------------------------------------------------
(* The read under the key lock *)

Saw(a, n) == act' = [act EXCEPT ![a].at = "tx", ![a].seen = n, ![a].seq = rows[n].seq] /\ UNCHANGED <<queue, call, reply>>

\* readStored by path (and, for a rename, getLiveNote at the new one); a trashed note is read again by id.
Read(a) ==
  /\ At(a, "lock") /\ HoldsAll(a) /\ Op(a, {"edit", "rename", "delete", "relink", "restore", "purge"})
  /\ LET n == IF Op(a, ById) THEN act[a].note ELSE NoteAt(act[a].path)
         found == IF Op(a, ById) THEN rows[n].at = "trash" /\ rows[n].path = act[a].path ELSE n # "none"
     IN CASE ~found -> NoNote(a)
          [] found /\ Op(a, {"rename"}) /\ Taken(act[a].to) -> Ends(a, "exists")
          [] found /\ Op(a, {"restore"}) /\ Taken(act[a].path) -> Ends(a, "exists")
          [] OTHER -> Saw(a, n)
  /\ UNCHANGED <<rows, jobs, fleet, host, homes, calls, faults>>
-----------------------------------------------------------------------------
(* The transactions *)

\* A rename holds its note's advisory lock from its look for referrers to its commit.
Locked(n) == \E a \in Actors : At(a, "found") /\ act[a].seen = n

\* applyRowChange: the same content is no new version.
Change(n, new) == rows' = [rows EXCEPT ![n] = IF new = @ THEN @ ELSE [new EXCEPT !.seq = @ + 1]]

\* Ghost: what a link means is known unless the note it names is being renamed and its links were looked for.
Meaning(p) == IF Taken(p) /\ ~Locked(NoteAt(p)) THEN NoteAt(p) ELSE "none"
Link(p, n) == [to |-> p, of |-> n]

\* refactorWikilinks; ghost: only a link to the renamed note keeps its meaning.
Refactored(links, n, from, to) ==
  {IF l.to = from THEN Link(to, IF l.of = n THEN n ELSE "none") ELSE l : l \in links}

\* Mutant: no unique index.
NoIndex(p) == FALSE
\* The unique index on live paths (notes_vault_path_live).
Clashes(p) == Taken(p)

Create(c, n) ==
  /\ At(c, "lock") /\ HoldsAll(c) /\ Op(c, {"create"}) /\ rows[n].at = "none"
  /\ IF Clashes(act[c].path)
     THEN Ends(c, "exists") /\ UNCHANGED <<rows, homes>>
     ELSE /\ Change(n, [at |-> "live", path |-> act[c].path, seq |-> 0, links |-> {}])
          /\ homes' = [homes EXCEPT ![n] = {act[c].path}] /\ Ends(c, "done")
  /\ UNCHANGED <<jobs, fleet, host, calls, faults>>

\* Mutant: a note that moved since the read is written all the same.
StillLive(a) == Live(act[a].seen)
\* lockedNote: the note is still live and where the read found it; and nobody wrote it since.
Stands(a) == LiveAt(act[a].seen, act[a].path)
SeenAgain(a) == rows[act[a].seen].seq = act[a].seq

\* Ghost: these links, <<note, link>>, are left as they are; nobody says they follow.
Left(now, left) ==
  [r \in Notes |-> [now[r] EXCEPT !.links = {IF <<r, l>> \in left THEN Link(l.to, "none") ELSE l : l \in @}]]

\* Ghost: links written and not yet found settled; a job that is resumed looks for the first path only.
Unsettled(actors) ==
  {<<act[a].ref, Link(IF At(a, "settle") THEN act[a].to ELSE act[a].linked, act[a].note)>> :
    a \in {b \in actors : At(b, "settle") \/ act[b].own}}

\* writeNote: another round when the note was written since the read.
Edit(a) ==
  LET n == act[a].seen
      task == act[a]
      rewritten == Refactored(rows[n].links, IF n = task.ref THEN task.note ELSE "none", task.linked, task.to)
  IN
  /\ At(a, "tx") /\ Op(a, {"edit", "relink"}) /\ ~Locked(n)
  /\ \/ ~Stands(a) /\ NoNote(a) /\ UNCHANGED rows
     \/ /\ Stands(a) /\ ~SeenAgain(a) /\ task.tries + 1 < WriteRounds
        /\ act' = [act EXCEPT ![a].at = "lock", ![a].tries = @ + 1, ![a].seen = "none", ![a].seq = 0]
        /\ UNCHANGED <<rows, queue, call, reply>>
     \/ /\ Stands(a) /\ ~SeenAgain(a) /\ task.tries + 1 >= WriteRounds
        /\ Ends(a, "busy") /\ rows' = Left(rows, Unsettled({a}))
     \/ /\ Stands(a) /\ SeenAgain(a)
        /\ IF Op(a, {"edit"})
           THEN Change(n, [rows[n] EXCEPT !.links = @ \cup {Link(task.to, Meaning(task.to))}]) /\ Ends(a, "done")
           ELSE /\ Change(n, [rows[n] EXCEPT !.links = rewritten])
                /\ IF n = task.ref
                   THEN /\ act' = [act EXCEPT ![a].at = "settle", ![a].keys = <<task.to>>, ![a].path = 0]
                        /\ queue' = Enqueued(Released(a), a, task.to) /\ UNCHANGED <<call, reply>>
                   ELSE NextRound(a, task.linked)
  /\ UNCHANGED <<jobs, fleet, host, homes, calls, faults>>

\* linkReferrers: live notes that link to the old path now.
Referrers(n, p) == {r \in Notes \ {n} : Live(r) /\ \E l \in rows[r].links : l.to = p}

\* moveNote up to its writes.
Find(c) ==
  /\ At(c, "tx") /\ Op(c, {"rename"}) /\ ~Locked(act[c].seen)
  /\ IF Stands(c)
     THEN /\ act' = [act EXCEPT ![c].at = "found", ![c].refs = Referrers(act[c].seen, act[c].path)]
          /\ UNCHANGED <<queue, call, reply>>
     ELSE Ends(c, "missing")
  /\ UNCHANGED <<rows, jobs, fleet, host, homes, calls, faults>>

\* The move and the job that names the referrers, in one transaction.
Move(c) ==
  LET n == act[c].seen
      task == act[c]
      moved == [rows[n] EXCEPT !.path = task.to, !.seq = @ + 1, !.links = Refactored(@, n, task.path, task.to)]
      job == [id |-> <<n, moved.seq>>, note |-> n, from |-> task.path, refs |-> task.refs, lease |-> "held"]
  IN
  /\ At(c, "found")
  /\ IF Clashes(task.to)
     THEN Ends(c, "exists") /\ UNCHANGED <<rows, homes, jobs>>
     ELSE /\ rows' = Left([rows EXCEPT ![n] = moved],
                          {<<r, Link(task.path, n)>> : r \in {m \in Notes \ {n} : rows[m].at = "trash"}})
          /\ homes' = [homes EXCEPT ![n] = @ \cup {task.to}]
          /\ IF task.refs = {}
             THEN Ends(c, "done") /\ UNCHANGED jobs
             ELSE /\ jobs' = jobs \cup {job} /\ queue' = Released(c) /\ UNCHANGED <<call, reply>>
                  /\ act' = [act EXCEPT ![c] = [Idle EXCEPT !.at = "relink", !.op = "relink", !.note = n, !.job = job.id,
                                                            !.from = task.path, !.refs = task.refs]]
  /\ UNCHANGED <<fleet, host, calls, faults>>

SoftDelete(c) ==
  /\ At(c, "tx") /\ Op(c, {"delete"}) /\ ~Locked(act[c].seen)
  /\ IF Stands(c)
     THEN Change(act[c].seen, [rows[act[c].seen] EXCEPT !.at = "trash"]) /\ Ends(c, "done")
     ELSE Ends(c, "missing") /\ UNCHANGED rows
  /\ UNCHANGED <<jobs, fleet, host, homes, calls, faults>>

\* Ghost: a restored note's links to a note whose referrers were looked for meanwhile.
Unsure(links) == {IF l.of # "none" /\ Locked(l.of) THEN Link(l.to, "none") ELSE l : l \in links}

Restore(c) ==
  LET n == act[c].seen IN
  /\ At(c, "tx") /\ Op(c, {"restore"})
  /\ CASE rows[n].at # "trash" -> Ends(c, "missing") /\ UNCHANGED rows
       [] rows[n].at = "trash" /\ Clashes(rows[n].path) -> Ends(c, "exists") /\ UNCHANGED rows
       [] OTHER -> Change(n, [rows[n] EXCEPT !.at = "live", !.links = Unsure(@)]) /\ Ends(c, "done")
  /\ UNCHANGED <<jobs, fleet, host, homes, calls, faults>>

Purge(c) ==
  LET n == act[c].seen IN
  /\ At(c, "tx") /\ Op(c, {"purge"})
  /\ IF rows[n].at = "trash"
     THEN Change(n, [rows[n] EXCEPT !.at = "gone"]) /\ Ends(c, "done")
     ELSE Ends(c, "missing") /\ UNCHANGED rows
  /\ UNCHANGED <<jobs, fleet, host, homes, calls, faults>>
-----------------------------------------------------------------------------
(* runRenameRefactor: the links to the path a note was renamed from, one referrer after the other *)

NextReferrer(a, refs) ==
  /\ queue' = Released(a)
  /\ act' = [act EXCEPT ![a] = [Idle EXCEPT !.at = "relink", !.op = "relink", !.note = act[a].note, !.job = act[a].job,
                                            !.from = act[a].from, !.refs = refs]]
  /\ UNCHANGED <<call, reply>>

\* A round of relinkReferrer: both notes by id, then the referrer's write under its key.
Look(a, r) ==
  LET n == act[a].note
      first == act[a].ref = "none"
      p == IF first THEN act[a].from ELSE act[a].linked
      task == [act[a] EXCEPT !.ref = r, !.linked = p, !.refs = @ \ {r}]
      nothingToDo == \/ rows[n].at = "gone" \/ rows[n].path = p \/ ~Live(r)
                     \/ \A l \in rows[r].links : l.to # p
  IN
  /\ At(a, "relink") /\ IF first THEN r \in act[a].refs ELSE r = act[a].ref
  /\ IF nothingToDo \/ task.rounds = RelinkRounds
     THEN /\ NextReferrer(a, task.refs)
          /\ rows' = IF ~Live(r) \/ task.rounds = RelinkRounds THEN Left(rows, {<<r, Link(p, n)>>}) ELSE rows
     ELSE /\ act' = [act EXCEPT ![a] = [task EXCEPT !.at = "lock", !.path = rows[r].path, !.to = rows[n].path,
                                                    !.keys = <<rows[r].path>>]]
          /\ queue' = Enqueued(queue, a, rows[r].path) /\ UNCHANGED <<rows, call, reply>>
  /\ UNCHANGED <<jobs, fleet, host, homes, calls, faults>>

\* Mutant: the rewritten link is not looked at again.
NeverMoved(a) == TRUE
StillThere(a) == rows[act[a].note].at # "gone" /\ rows[act[a].note].path = act[a].to

\* Under the key of the note's new path: a rename that looked for referrers before the write has committed.
Settle(a) ==
  /\ At(a, "settle") /\ HoldsAll(a)
  /\ IF StillThere(a) THEN NextReferrer(a, act[a].refs) ELSE NextRound(a, act[a].to)
  /\ UNCHANGED <<rows, jobs, fleet, host, homes, calls, faults>>

\* The referrer would grow past the size cap: it keeps the old link.
TooLarge(a) ==
  /\ At(a, "tx") /\ Op(a, {"relink"}) /\ ~Locked(act[a].seen) /\ Stands(a)
  /\ faults < MaxFaults /\ faults' = faults + 1
  /\ NextReferrer(a, act[a].refs) /\ rows' = Left(rows, {<<act[a].ref, Link(act[a].linked, act[a].note)>>})
  /\ UNCHANGED <<jobs, fleet, host, homes, calls>>

\* completeJob, by id.
Complete(a) ==
  /\ At(a, "relink") /\ act[a].ref = "none" /\ act[a].refs = {}
  /\ jobs' = {j \in jobs : j.id # act[a].job} /\ Ends(a, "done")
  /\ UNCHANGED <<rows, fleet, host, homes, calls, faults>>

\* The lease of a rename, or the backoff of a failed run, is over; one that ends under a run counts as a fault.
LeaseEnds(j) ==
  /\ j \in jobs /\ j.lease = "held"
  /\ jobs' = (jobs \ {j}) \cup {[j EXCEPT !.lease = "past"]}
  /\ IF \E a \in Actors : act[a].job = j.id THEN faults < MaxFaults /\ faults' = faults + 1 ELSE UNCHANGED faults
  /\ UNCHANGED <<rows, queue, act, fleet, host, call, reply, homes, calls>>

\* The projector of a process takes the job over.
Resume(s, j) ==
  /\ s \in fleet /\ At(s, "idle") /\ j \in jobs /\ j.lease = "past"
  /\ jobs' = (jobs \ {j}) \cup {[j EXCEPT !.lease = "held"]}
  /\ act' = [act EXCEPT ![s] = [Idle EXCEPT !.at = "relink", !.op = "relink", !.note = j.note, !.job = j.id,
                                            !.from = j.from, !.refs = j.refs]]
  /\ UNCHANGED <<rows, queue, fleet, host, call, reply, homes, calls, faults>>
-----------------------------------------------------------------------------
(* Failures *)

\* A lock timeout, a maintenance lock or a lost connection: the transaction, or the read, throws.
Busy(a) ==
  /\ ~At(a, "idle") /\ HoldsAll(a) /\ faults < MaxFaults /\ faults' = faults + 1
  /\ Ends(a, "busy") /\ rows' = Left(rows, Unsettled({a}))
  /\ UNCHANGED <<jobs, fleet, host, homes, calls>>

\* A process dies: its transactions roll back, its locks and callers are gone.
Crash(s) ==
  LET dead == {a \in Actors : Server(a) = s} IN
  /\ faults < MaxFaults /\ faults' = faults + 1
  /\ act' = [a \in Actors |-> IF a \in dead THEN Idle ELSE act[a]]
  /\ queue' = [queue EXCEPT ![s] = [p \in Paths |-> <<>>]]
  /\ call' = [c \in Clients |-> IF c \in dead THEN NoCall ELSE call[c]]
  /\ reply' = [c \in Clients |-> IF c \in dead /\ ~At(c, "idle") THEN "lost" ELSE reply[c]]
  /\ rows' = Left(rows, Unsettled(dead))
  /\ UNCHANGED <<jobs, fleet, host, homes, calls>>
-----------------------------------------------------------------------------
Write(a) ==
  \/ SecondKey(a) \/ Read(a) \/ Edit(a) \/ Settle(a) \/ TooLarge(a) \/ Complete(a)
  \/ \E r \in Notes : Look(a, r)

Operation(c) ==
  \/ Seek(c) \/ Find(c) \/ Move(c) \/ SoftDelete(c) \/ Restore(c) \/ Purge(c)
  \/ \E n \in Notes : Create(c, n)

Quiet == jobs = {} /\ \A a \in Actors : At(a, "idle")
\* Not an action of the store: when all calls are used up the instance stops here.
Finished == Quiet /\ calls = MaxCalls /\ UNCHANGED vars

Steps ==
  \/ \E c \in Clients : Operation(c) \/ \E k \in Calls : Call(c, k)
  \/ \E a \in Actors : Write(a) \/ Busy(a)
  \/ \E j \in jobs : LeaseEnds(j) \/ \E s \in Servers : Resume(s, j)
  \/ \E s \in fleet : Crash(s)

Next == (Steps /\ Directory!Watch) \/ Finished

Spec == Init /\ [][Next]_vars
-----------------------------------------------------------------------------
(* Properties *)

\* The types; at most one live note has a path, and every key's queue names an actor of its process once.
TypeOK ==
  /\ \A n \in Notes : rows[n].at \in Ats /\ rows[n].seq \in Nat /\ rows[n].links \subseteq Links
                      /\ rows[n].path \in IF rows[n].at = "none" THEN {0} ELSE Paths
  /\ \A n, m \in Notes : Live(n) /\ LiveAt(m, rows[n].path) => n = m
  /\ \A s \in Servers, p \in Paths : LET q == queue[s][p] IN
       \A i, k \in DOMAIN q : q[i] \in Actors /\ Server(q[i]) = s /\ (q[i] = q[k] => i = k)
  /\ \A a \in Actors : act[a].at \in {"idle", "seek", "lock", "tx", "found", "relink", "settle"}
  /\ \A j \in jobs : j.note \in Notes /\ j.from \in Paths /\ j.refs \subseteq Notes /\ j.lease \in {"held", "past"}

\* Every call takes effect at one moment or not at all, with two processes on the database too.
Linearizable == Directory!Spec

\* Key locks never form a cycle, although a rename holds two and its links are rewritten under a third:
\* in every set of waiters one waits for somebody outside it.
NoWaitCycle ==
  \A waiting \in SUBSET {a \in Actors : \E p \in Paths : Waits(a, p)} :
    waiting # {} => \E a \in waiting : \E p \in Paths : Waits(a, p) /\ Head(queue[Server(a)][p]) \notin waiting

\* "nothing was written, retry the write" (StoreBusyError): a call answered so has not moved its note.
BusyWroteNothing ==
  [][\A c \in Clients : call[c] # NoCall /\ call'[c] = NoCall /\ reply'[c] = "busy" => ~Op(c, {"relink"})]_vars

\* A link to a note that has had one path only is not turned to another path: "a note later created at the old path
\* never has its incoming links re-targeted".
NotRetargeted ==
  [][\A r \in Notes : Live(r) => \A l \in rows[r].links :
       l.of # "none" /\ Live(l.of) /\ homes[l.of] = {l.to} /\ homes'[l.of] = {l.to} =>
         l.to \in {k.to : k \in rows'[r].links}]_vars

\* Once everything is quiet, each link that was known to mean a note names its path, however often the note and
\* the linking note were renamed meanwhile and whatever was interrupted: with one process.
LinksFollow ==
  Quiet /\ Cardinality(fleet) = 1 =>
    \A r \in Notes : Live(r) => \A l \in rows[r].links : l.of # "none" /\ Live(l.of) => l.to = rows[l.of].path
=============================================================================
