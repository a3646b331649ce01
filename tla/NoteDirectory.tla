---------------------------- MODULE NoteDirectory ----------------------------
(***************************************************************************)
(* What the note store promises its callers: each call takes effect at one *)
(* moment, on the vault as it is then, or not at all; a refusal was right  *)
(* at some moment of the call.  Links follow a renamed note step by step.  *)
(***************************************************************************)
CONSTANTS
  Notes,    \* note ids
  Paths,    \* positive numbers, in their order
  Clients,  \* callers
  Calls,    \* what they may ask for: [op, path, to, note]
  Start     \* the vault at the start

VARIABLES
  vault,    \* each note: at (none, live, trash, gone), path, the paths its body links to
  homes,    \* the paths each note has had
  call,     \* each client's call, or NoCall
  applied,  \* clients whose rename has moved the note and now rewrites links
  could,    \* the refusals that were right at some moment of the call
  reply     \* the answer to each client's last call

vars == <<vault, homes, call, applied, could, reply>>

NoCall == [op |-> "none", path |-> 0, to |-> 0, note |-> "none"]
Occupied(v, p) == \E n \in Notes : v[n].at = "live" /\ v[n].path = p

\* null (404) for what is not there, 409 for a path that is taken.
Missing(k, v) ==
  \/ k.op \in {"edit", "rename", "delete"} /\ ~Occupied(v, k.path)
  \/ k.op \in {"restore", "purge"} /\ v[k.note].at # "trash"
Exists(k, v) ==
  \/ k.op = "create" /\ Occupied(v, k.path)
  \/ k.op = "rename" /\ Occupied(v, k.to)
  \/ k.op = "restore" /\ Occupied(v, v[k.note].path)
Refusals(k, v) == {why \in {"missing", "exists"} : IF why = "missing" THEN Missing(k, v) ELSE Exists(k, v)}

\* A refusal may be given for any moment since the call.
Watch == could' = [c \in Clients |-> IF call'[c] = NoCall THEN {} ELSE could[c] \cup Refusals(call'[c], vault')]

Init ==
  /\ vault = Start /\ homes = [n \in Notes |-> IF Start[n].at = "none" THEN {} ELSE {Start[n].path}]
  /\ call = [c \in Clients |-> NoCall] /\ applied = {} /\ could = [c \in Clients |-> {}]
  /\ reply = [c \in Clients |-> "none"]
-----------------------------------------------------------------------------
Call(c, k) ==
  /\ call[c] = NoCall /\ call' = [call EXCEPT ![c] = k] /\ reply' = [reply EXCEPT ![c] = "none"]
  /\ UNCHANGED <<vault, homes, applied>>

Answer(c, answer) == call' = [call EXCEPT ![c] = NoCall] /\ reply' = [reply EXCEPT ![c] = answer]

LiveAt(n, p) == vault[n].at = "live" /\ vault[n].path = p
Taken(p) == Occupied(vault, p)
Rewritten(links, from, to) == {IF l = from THEN to ELSE l : l \in links}

\* The effect of a call on note n.
Effect(k, n) ==
  \/ /\ k.op = "create" /\ vault[n].at = "none" /\ ~Taken(k.path)
     /\ vault' = [vault EXCEPT ![n] = [at |-> "live", path |-> k.path, links |-> {}]]
  \/ /\ k.op = "edit" /\ LiveAt(n, k.path)
     /\ vault' = [vault EXCEPT ![n].links = @ \cup {k.to}]
  \/ /\ k.op = "rename" /\ LiveAt(n, k.path) /\ ~Taken(k.to)
     /\ vault' = [vault EXCEPT ![n] = [@ EXCEPT !.path = k.to, !.links = Rewritten(vault[n].links, k.path, k.to)]]
  \/ /\ k.op = "delete" /\ LiveAt(n, k.path)
     /\ vault' = [vault EXCEPT ![n].at = "trash"]
  \/ /\ k.op = "restore" /\ n = k.note /\ vault[n].at = "trash" /\ ~Taken(vault[n].path)
     /\ vault' = [vault EXCEPT ![n].at = "live"]
  \/ /\ k.op = "purge" /\ n = k.note /\ vault[n].at = "trash"
     /\ vault' = [vault EXCEPT ![n].at = "gone"]

\* The call takes effect; a rename may answer once the links are rewritten.
Perform(c) ==
  /\ call[c] # NoCall /\ c \notin applied
  /\ \E n \in Notes : Effect(call[c], n) /\ homes' = [homes EXCEPT ![n] = @ \cup {vault'[n].path}]
  /\ \/ Answer(c, "done") /\ UNCHANGED applied
     \/ call[c].op = "rename" /\ applied' = applied \cup {c} /\ UNCHANGED <<call, reply>>

\* Nothing was written.
Refuse(c) ==
  /\ call[c] # NoCall /\ c \notin applied
  /\ \E why \in could[c] \cup {"busy"} : Answer(c, why)
  /\ UNCHANGED <<vault, homes, applied>>

\* The rename answers; it says "busy" when a link could not be rewritten yet.
Finish(c) ==
  /\ c \in applied /\ applied' = applied \ {c} /\ \E answer \in {"done", "busy"} : Answer(c, answer)
  /\ UNCHANGED <<vault, homes>>

\* A link in a live note is rewritten from one path a note has had to another.
Relink(r, n) ==
  /\ vault[r].at = "live"
  /\ \E from, to \in homes[n] : vault' = [vault EXCEPT ![r].links = Rewritten(@, from, to)]
  /\ UNCHANGED <<homes, call, applied, reply>>

\* A process dies: its callers hear nothing.
Lose(lost) ==
  /\ call' = [c \in Clients |-> IF c \in lost THEN NoCall ELSE call[c]]
  /\ reply' = [c \in Clients |-> IF c \in lost THEN "lost" ELSE reply[c]]
  /\ applied' = applied \ lost
  /\ UNCHANGED <<vault, homes>>

Next ==
  /\ \/ \E c \in Clients : Perform(c) \/ Refuse(c) \/ Finish(c) \/ \E k \in Calls : Call(c, k)
     \/ \E r, n \in Notes : Relink(r, n)
     \/ \E lost \in SUBSET Clients : Lose(lost)
  /\ Watch

Spec == Init /\ [][Next]_vars
=============================================================================
