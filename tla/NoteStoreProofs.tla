--------------------------- MODULE NoteStoreProofs ---------------------------
(***************************************************************************)
(* What NoteStore keeps, for every set of notes, paths, callers and        *)
(* processes: the types with the unique index on live paths, the order of  *)
(* the key locks, that the store implements NoteDirectory (every call      *)
(* takes effect at one moment or not at all), and that the links to a note *)
(* follow it when it is renamed.                                           *)
(*                                                                         *)
(* IInv is inductive.  An actor is in the queue of a path only while the   *)
(* path is one of its keys, it asks for the second key once it holds the   *)
(* first, and a transaction runs with every key held; so a release takes   *)
(* the actor out of every queue it is in.                                  *)
(*                                                                         *)
(* LinkedInv is what makes links follow: a link that is not right yet is   *)
(* looked for by the run that wrote it, or a job has its note among the    *)
(* referrers and no run of the job is past it; and a rename that has found *)
(* its referrers has missed no link but one that is still to be settled.   *)
(***************************************************************************)
EXTENDS NoteStore, FiniteSetTheorems, WellFoundedInduction, TLAPS

Phases == {"idle", "seek", "lock", "tx", "found", "relink", "settle"}
Keyed == {"lock", "tx", "found", "settle"}
Keys == {ks \in Seq(Paths) : Len(ks) <= 2 /\ (Len(ks) = 2 => ks[1] < ks[2])}
Task ==
  [at : Phases, op : ByPath \cup ById \cup {"relink", "none"}, path : Paths \cup {0}, to : Paths \cup {0},
   note : Notes \cup {"none"}, keys : Keys, seen : Notes \cup {"none"}, seq : Nat, tries : Nat,
   job : {<<>>} \cup (Notes \X Nat), from : Paths \cup {0}, refs : SUBSET Notes, ref : Notes \cup {"none"},
   linked : Paths \cup {0}, rounds : Nat, own : BOOLEAN]
Job == [id : Notes \X Nat, note : Notes, from : Paths, refs : SUBSET Notes, lease : {"held", "past"}]

Written(n) == n \in Notes /\ rows[n].at # "none"

\* The notes; a path is the path of one live note at most.
RowsOK ==
  /\ rows \in [Notes -> Row]
  /\ \A n \in Notes : rows[n].path = 0 <=> rows[n].at = "none"
  /\ \A n, m \in Notes : Live(n) /\ Live(m) /\ rows[n].path = rows[m].path => n = m

\* What actor a carries from phase to phase in its task t.
TaskShape(a, t) ==
  /\ t.at = "idle" <=> t.op = "none"
  /\ t.at \in {"idle", "seek", "relink"} => t.keys = <<>>
  /\ t.at \in {"seek", "found"} \/ t.op \in ByPath \cup ById => a \in Clients
  /\ t.at = "seek" => t.op \in ById
  /\ t.at = "found" => t.op = "rename"
  /\ t.at \in {"relink", "settle"} => t.op = "relink"
  /\ t.op \in ById => t.note \in Notes
  /\ t.at \in {"lock", "tx", "found"} => t.path \in Paths /\ t.keys = IF t.op = "rename" THEN KeysOf(t) ELSE <<t.path>>
  /\ t.op = "rename" => t.to \in Paths /\ t.to # t.path
  /\ t.op = "edit" => t.to \in Paths
  /\ t.at = "settle" => t.keys = <<t.to>> /\ t.to \in Paths
  /\ t.at \in {"tx", "found"} => t.op # "create"
  /\ t.op = "relink" => t.from \in Paths /\ (t.ref # "none" => t.linked \in Paths)
  /\ t.op = "relink" /\ t.at \in {"lock", "tx", "settle"} => t.ref \in Notes /\ t.to \in Paths
\* The notes it names exist.
TaskNames(t) ==
  /\ t.at \in {"tx", "found"} => Written(t.seen)
  /\ t.op = "relink" => Written(t.note)
TaskOK(a, t) == TaskShape(a, t) /\ TaskNames(t)

TasksOK == act \in [Actors -> Task] /\ \A a \in Actors : TaskOK(a, act[a])
JobsOK == jobs \subseteq Job /\ \A j \in jobs : Written(j.note)

\* The queues q name actors of their process, once each.
Served(q) ==
  /\ q \in [Servers -> [Paths -> Seq(Actors)]]
  /\ \A s \in Servers, p \in Paths : \A i, k \in DOMAIN q[s][p] :
       Server(q[s][p][i]) = s /\ (q[s][p][i] = q[s][p][k] => i = k)
In(q, a, p) == \E i \in DOMAIN q[Server(a)][p] : q[Server(a)][p][i] = a
First(q, a, p) == q[Server(a)][p] # <<>> /\ Head(q[Server(a)][p]) = a
\* An actor with keys ks, in phase at, is where it asked to be.
Ordered(q, a, ks, at) ==
  /\ \A p \in Paths : In(q, a, p) => \E i \in DOMAIN ks : ks[i] = p
  /\ Len(ks) = 2 /\ In(q, a, ks[2]) => First(q, a, ks[1])
  /\ at \in {"tx", "found"} => \A i \in DOMAIN ks : First(q, a, ks[i])

QueuesOK == Served(queue) /\ \A a \in Actors : Ordered(queue, a, act[a].keys, act[a].at)

RunsOK == fleet \in SUBSET Servers /\ host \in [Clients -> Servers]

IInv == RunsOK /\ RowsOK /\ TasksOK /\ JobsOK /\ QueuesOK

\* What ties a call to the work on it.
AskedOK ==
  /\ call \in [Clients -> Calls \cup {NoCall}]
  /\ \A c \in Clients : call[c] = NoCall <=> At(c, "idle")
  /\ \A c \in Clients : act[c].op \in ByPath \cup ById =>
       /\ call[c].op = act[c].op /\ call[c].note = act[c].note
       /\ act[c].op \in ByPath => call[c].path = act[c].path /\ call[c].to = act[c].to
\* What the read found stands, or the refusal that says otherwise was right since.
StandsOK ==
  /\ \A c \in Clients : act[c].at = "found" => LiveAt(act[c].seen, act[c].path)
  /\ \A c, d \in Clients : act[c].at = "found" /\ act[d].at = "found" /\ act[c].seen = act[d].seen => c = d
  /\ \A c \in Clients : act[c].at = "tx" /\ act[c].op \in ByPath =>
       LiveAt(act[c].seen, act[c].path) \/ "missing" \in could[c]
  /\ \A c \in Clients : act[c].at = "tx" /\ act[c].op \in ById => act[c].seen = act[c].note
  /\ \A c \in Clients : act[c].at \in {"lock", "tx"} /\ act[c].op \in ById =>
       (rows[act[c].note].at = "trash" /\ rows[act[c].note].path = act[c].path) \/ "missing" \in could[c]
\* Every refusal that is right now has been noticed.
CouldOK ==
  /\ could \in [Clients -> SUBSET {"missing", "exists"}]
  /\ \A c \in Clients : IF call[c] = NoCall THEN could[c] = {} ELSE Directory!Refusals(call[c], Vault) \subseteq could[c]
\* The paths a note has had.
HomesOK ==
  /\ homes \in [Notes -> SUBSET Paths]
  /\ \A n \in Notes : IF rows[n].at = "none" THEN homes[n] = {} ELSE rows[n].path \in homes[n]
  /\ \A a \in Actors : act[a].op = "relink" =>
       /\ act[a].from \in homes[act[a].note]
       /\ act[a].ref # "none" => act[a].linked \in homes[act[a].note]
       /\ act[a].at \in {"lock", "tx", "settle"} => act[a].to \in homes[act[a].note]
  /\ \A j \in jobs : j.from \in homes[j.note]
RepliesOK == reply \in [Clients -> {"none", "missing", "exists", "done", "busy", "lost"}]

LInv == IInv /\ AskedOK /\ StandsOK /\ CouldOK /\ HomesOK /\ RepliesOK
-----------------------------------------------------------------------------
(* Numbers and sequences *)

LEMMA Less ==
  ASSUME NEW n \in Nat, NEW m \in Nat, n < m
  PROVE  <<n, m>> \in OpToRel(<, Nat)
BY DEF OpToRel

\* A set of numbers has a least one.
LEMMA Least ==
  ASSUME NEW S \in SUBSET Nat, S # {}
  PROVE  \E m \in S : \A n \in S : m <= n
<1>1. PICK m \in S : \A n \in S : ~(<<n, m>> \in OpToRel(<, Nat))
  BY NatLessThanWellFounded, WFMin
<1>2. ASSUME NEW n \in S, ~(m <= n) PROVE FALSE
  <2>1. n < m
    BY <1>2
  <2> QED
    BY <1>1, <2>1, Less
<1> QED
  BY <1>2

\* A finite set of numbers has a greatest one.
LEMMA Greatest ==
  ASSUME NEW S \in SUBSET Nat, IsFiniteSet(S), S # {}
  PROVE  \E m \in S : \A n \in S : n <= m
<1> DEFINE Sizes == {Cardinality(T) : T \in {U \in SUBSET S : U # {} /\ ~\E m \in U : \A n \in U : n <= m}}
<1>1. \A T \in SUBSET S : IsFiniteSet(T) /\ Cardinality(T) \in Nat
  BY FS_Subset, FS_CardinalityType
<1>2. SUFFICES ASSUME Sizes # {} PROVE FALSE
  OBVIOUS
<1>3. Sizes \in SUBSET Nat
  BY <1>1
<1>4. PICK least \in Sizes : \A other \in Sizes : least <= other
  BY <1>2, <1>3, Least
<1>5. PICK T \in SUBSET S : /\ T # {} /\ ~\E m \in T : \A n \in T : n <= m
                            /\ Cardinality(T) = least
  OBVIOUS
<1>6. PICK x \in T : TRUE
  BY <1>5
<1> DEFINE R == T \ {x}
<1>7. R \in SUBSET S /\ Cardinality(R) = Cardinality(T) - 1
  BY <1>1, FS_RemoveElement
<1>8. R # {}
  BY <1>5
<1>9. Cardinality(R) < least /\ Cardinality(R) \in Nat
  BY <1>1, <1>5, <1>7
<1>10. Cardinality(R) \notin Sizes
  BY <1>1, <1>3, <1>4, <1>9
<1>11. PICK m \in R : \A n \in R : n <= m
  BY <1>7, <1>8, <1>10
<1>12. m \in Nat /\ x \in Nat
  OBVIOUS
<1>13. CASE x <= m
  BY <1>5, <1>11, <1>13
<1>14. CASE m <= x
  <2>1. \A n \in T : n <= x
    BY <1>11, <1>12, <1>14
  <2> QED
    BY <1>5, <2>1
<1> QED
  BY <1>12, <1>13, <1>14

LEMMA TailOf ==
  ASSUME NEW S, NEW q \in Seq(S), q # <<>>
  PROVE  /\ Tail(q) \in Seq(S) /\ Len(Tail(q)) = Len(q) - 1 /\ Len(q) \in Nat \ {0}
         /\ \A i \in 1 .. Len(q) - 1 : Tail(q)[i] = q[i + 1]
         /\ Head(q) = q[1]
OBVIOUS

LEMMA AppendOf ==
  ASSUME NEW S, NEW q \in Seq(S), NEW x \in S
  PROVE  /\ Append(q, x) \in Seq(S) /\ Len(Append(q, x)) = Len(q) + 1 /\ Append(q, x) # <<>>
         /\ \A i \in 1 .. Len(q) : Append(q, x)[i] = q[i]
         /\ Append(q, x)[Len(q) + 1] = x
         /\ Head(Append(q, x)) = IF q = <<>> THEN x ELSE Head(q)
OBVIOUS
-----------------------------------------------------------------------------
(* The queues of the keys *)

LEMMA ServerIs ==
  ASSUME RunsOK, NEW a \in Actors
  PROVE  Server(a) \in Servers
BY DEF RunsOK, Server, Actors

\* A release takes an actor that holds all its keys out of every queue and moves nobody else back.
LEMMA ReleaseServes ==
  ASSUME RunsOK, Served(queue), NEW a \in Actors, \A p \in Paths : In(queue, a, p) => First(queue, a, p)
  PROVE  /\ Served(Released(a))
         /\ \A p \in Paths : ~In(Released(a), a, p)
         /\ \A b \in Actors \ {a}, p \in Paths :
              /\ In(Released(a), b, p) <=> In(queue, b, p)
              /\ First(queue, b, p) => First(Released(a), b, p)
<1> DEFINE r == Released(a)
<1>1. Server(a) \in Servers
  BY ServerIs
<1>2. queue \in [Servers -> [Paths -> Seq(Actors)]]
  BY DEF Served
<1>3. ASSUME NEW s \in Servers, NEW p \in Paths
      PROVE  r[s][p] = IF s = Server(a) /\ First(queue, a, p) THEN Tail(queue[s][p]) ELSE queue[s][p]
  BY <1>1, <1>2 DEF Released, Holds, First
<1>4. r \in [Servers -> [Paths -> Seq(Actors)]]
  <2>1. r = [queue EXCEPT ![Server(a)] = [p \in Paths |-> IF Holds(a, p) THEN Tail(queue[Server(a)][p])
                                                          ELSE queue[Server(a)][p]]]
    BY <1>1, <1>2 DEF Released
  <2>2. ASSUME NEW p \in Paths
        PROVE  (IF Holds(a, p) THEN Tail(queue[Server(a)][p]) ELSE queue[Server(a)][p]) \in Seq(Actors)
    BY <1>1, <1>2, TailOf DEF Holds
  <2> HIDE DEF r
  <2> QED
    BY <1>1, <1>2, <2>1, <2>2
<1> HIDE DEF r
<1>5. ASSUME NEW s \in Servers, NEW p \in Paths, s = Server(a), First(queue, a, p)
      PROVE  /\ r[s][p] \in Seq(Actors) /\ Len(r[s][p]) = Len(queue[s][p]) - 1 /\ Len(queue[s][p]) \in Nat \ {0}
             /\ \A i \in 1 .. Len(queue[s][p]) - 1 : r[s][p][i] = queue[s][p][i + 1]
             /\ queue[s][p][1] = a
  <2>1. queue[s][p] \in Seq(Actors) /\ queue[s][p] # <<>> /\ Head(queue[s][p]) = a
    BY <1>2, <1>5 DEF First
  <2>2. r[s][p] = Tail(queue[s][p])
    BY <1>3, <1>5
  <2> QED
    BY <2>1, <2>2, TailOf
<1>6. Served(r)
  <2> SUFFICES ASSUME NEW s \in Servers, NEW p \in Paths, NEW i \in DOMAIN r[s][p], NEW k \in DOMAIN r[s][p]
               PROVE  Server(r[s][p][i]) = s /\ (r[s][p][i] = r[s][p][k] => i = k)
    BY <1>4 DEF Served
  <2>1. CASE s = Server(a) /\ First(queue, a, p)
    <3>1. /\ i \in 1 .. Len(queue[s][p]) - 1 /\ k \in 1 .. Len(queue[s][p]) - 1
          /\ i + 1 \in DOMAIN queue[s][p] /\ k + 1 \in DOMAIN queue[s][p]
      BY <1>2, <1>5, <2>1
    <3>2. r[s][p][i] = queue[s][p][i + 1] /\ r[s][p][k] = queue[s][p][k + 1]
      BY <1>5, <2>1, <3>1
    <3> QED
      BY <3>1, <3>2 DEF Served
  <2>2. CASE ~(s = Server(a) /\ First(queue, a, p))
    BY <1>3, <2>2 DEF Served
  <2> QED
    BY <2>1, <2>2
<1>7. ASSUME NEW p \in Paths, In(r, a, p) PROVE FALSE
  <2> DEFINE s == Server(a)
  <2>1. PICK i \in DOMAIN r[s][p] : r[s][p][i] = a
    BY <1>7 DEF In
  <2>2. CASE First(queue, a, p)
    <3>1. i \in 1 .. Len(queue[s][p]) - 1 /\ i + 1 \in DOMAIN queue[s][p] /\ 1 \in DOMAIN queue[s][p]
      BY <1>1, <1>2, <1>5, <2>2
    <3>2. queue[s][p][i + 1] = a /\ queue[s][p][1] = a
      BY <1>1, <1>5, <2>1, <2>2, <3>1
    <3>3. i + 1 = 1
      BY <1>1, <3>1, <3>2 DEF Served
    <3> QED
      BY <3>1, <3>3
  <2>3. CASE ~First(queue, a, p)
    BY <1>1, <1>3, <2>1, <2>3 DEF In
  <2> QED
    BY <2>2, <2>3
<1>8. ASSUME NEW b \in Actors \ {a}, NEW p \in Paths
      PROVE  (In(r, b, p) <=> In(queue, b, p)) /\ (First(queue, b, p) => First(r, b, p))
  <2> DEFINE s == Server(b)
  <2>1. s \in Servers
    BY ServerIs
  <2>2. CASE s = Server(a) /\ First(queue, a, p)
    <3>1. ASSUME In(r, b, p) PROVE In(queue, b, p)
      <4>1. PICK i \in DOMAIN r[s][p] : r[s][p][i] = b
        BY <3>1 DEF In
      <4>2. i \in 1 .. Len(queue[s][p]) - 1 /\ i + 1 \in DOMAIN queue[s][p]
        BY <1>2, <1>5, <2>1, <2>2
      <4>3. queue[s][p][i + 1] = b
        BY <1>5, <2>1, <2>2, <4>1, <4>2
      <4> QED
        BY <4>2, <4>3 DEF In
    <3>2. ASSUME In(queue, b, p) PROVE In(r, b, p)
      <4>1. PICK i \in DOMAIN queue[s][p] : queue[s][p][i] = b
        BY <3>2 DEF In
      <4>2. i \in 1 .. Len(queue[s][p]) /\ i # 1
        BY <1>2, <1>5, <2>1, <2>2, <4>1
      <4>3. i - 1 \in 1 .. Len(queue[s][p]) - 1 /\ i - 1 \in DOMAIN r[s][p]
        BY <1>5, <2>1, <2>2, <4>2
      <4>4. r[s][p][i - 1] = queue[s][p][i - 1 + 1] /\ i - 1 + 1 = i
        BY <1>5, <2>1, <2>2, <4>2, <4>3
      <4> QED
        BY <4>1, <4>3, <4>4 DEF In
    <3>3. ~First(queue, b, p)
      BY <2>2 DEF First
    <3> QED
      BY <3>1, <3>2, <3>3
  <2>3. CASE ~(s = Server(a) /\ First(queue, a, p))
    <3>1. r[s][p] = queue[s][p]
      BY <1>3, <2>1, <2>3
    <3> QED
      BY <3>1 DEF In, First
  <2> QED
    BY <2>2, <2>3
<1> QED
  BY <1>6, <1>7, <1>8 DEF r

\* An actor that enters a queue stands last in it; nobody else notices.
LEMMA EnqueueServes ==
  ASSUME RunsOK, NEW q, Served(q), NEW a \in Actors, NEW p \in Paths, ~In(q, a, p)
  PROVE  /\ Served(Enqueued(q, a, p))
         /\ \A r \in Paths : In(Enqueued(q, a, p), a, r) => r = p \/ In(q, a, r)
         /\ \A b \in Actors \ {a}, r \in Paths : In(Enqueued(q, a, p), b, r) <=> In(q, b, r)
         /\ \A b \in Actors, r \in Paths : First(q, b, r) => First(Enqueued(q, a, p), b, r)
<1> DEFINE e == Enqueued(q, a, p)
           s == Server(a)
           l == q[s][p]
<1>1. s \in Servers
  BY ServerIs
<1>2. q \in [Servers -> [Paths -> Seq(Actors)]] /\ l \in Seq(Actors)
  BY <1>1 DEF Served
<1>3. e = [q EXCEPT ![s][p] = Append(l, a)]
  BY <1>1, <1>2 DEF Enqueued
<1>4. ASSUME NEW t \in Servers, NEW r \in Paths
      PROVE  e[t][r] = IF t = s /\ r = p THEN Append(l, a) ELSE q[t][r]
  <2> HIDE DEF e, s, l
  <2> QED
    BY <1>1, <1>2, <1>3
<1>5. e \in [Servers -> [Paths -> Seq(Actors)]]
  <2>1. Append(l, a) \in Seq(Actors)
    BY <1>2
  <2> HIDE DEF e, s, l
  <2> QED
    BY <1>1, <1>2, <1>3, <2>1
<1>6. /\ Append(l, a) \in Seq(Actors) /\ Len(Append(l, a)) = Len(l) + 1 /\ Append(l, a) # <<>>
      /\ \A i \in 1 .. Len(l) : Append(l, a)[i] = l[i]
      /\ Append(l, a)[Len(l) + 1] = a
      /\ Head(Append(l, a)) = IF l = <<>> THEN a ELSE Head(l)
  BY <1>2, AppendOf
<1>7. Len(l) \in Nat /\ DOMAIN l = 1 .. Len(l) /\ DOMAIN Append(l, a) = 1 .. Len(l) + 1
  BY <1>2, <1>6
<1>8. \A i \in DOMAIN l : l[i] # a
  BY DEF In
<1> HIDE DEF e, l
<1>9. Served(e)
  <2> SUFFICES ASSUME NEW t \in Servers, NEW r \in Paths, NEW i \in DOMAIN e[t][r], NEW k \in DOMAIN e[t][r]
               PROVE  Server(e[t][r][i]) = t /\ (e[t][r][i] = e[t][r][k] => i = k)
    BY <1>5 DEF Served
  <2>1. CASE t = s /\ r = p
    <3>1. e[t][r] = Append(l, a) /\ i \in 1 .. Len(l) + 1 /\ k \in 1 .. Len(l) + 1
      BY <1>4, <1>7, <2>1
    <3>2. \A j \in 1 .. Len(l) + 1 : j = Len(l) + 1 \/ (j \in DOMAIN l /\ j # Len(l) + 1)
      BY <1>7
    <3>3. \A j \in DOMAIN l : Append(l, a)[j] = l[j] /\ Server(l[j]) = s /\ l[j] # a
      BY <1>1, <1>6, <1>7, <1>8 DEF Served, l
    <3>4. \A j, m \in DOMAIN l : l[j] = l[m] => j = m
      BY <1>1 DEF Served, l
    <3> QED
      BY <1>6, <2>1, <3>1, <3>2, <3>3, <3>4
  <2>2. CASE ~(t = s /\ r = p)
    BY <1>4, <2>2 DEF Served
  <2> QED
    BY <2>1, <2>2
<1>10. ASSUME NEW b \in Actors, NEW r \in Paths
       PROVE  /\ In(e, b, r) => In(q, b, r) \/ (b = a /\ r = p)
              /\ In(q, b, r) => In(e, b, r)
              /\ First(q, b, r) => First(e, b, r)
  <2>1. Server(b) \in Servers
    BY ServerIs
  <2>2. CASE Server(b) = s /\ r = p
    <3>1. e[Server(b)][r] = Append(l, a) /\ q[Server(b)][r] = l
      BY <1>4, <2>1, <2>2 DEF l
    <3>2. ASSUME In(e, b, r) PROVE In(q, b, r) \/ (b = a /\ r = p)
      <4>1. PICK i \in 1 .. Len(l) + 1 : Append(l, a)[i] = b
        BY <1>7, <3>1, <3>2 DEF In
      <4>2. CASE i = Len(l) + 1
        BY <1>6, <2>2, <4>1, <4>2
      <4>3. CASE i \in 1 .. Len(l)
        BY <1>6, <1>7, <3>1, <4>1, <4>3 DEF In
      <4> QED
        BY <1>7, <4>1, <4>2, <4>3
    <3>3. ASSUME In(q, b, r) PROVE In(e, b, r)
      <4>1. PICK i \in 1 .. Len(l) : l[i] = b
        BY <1>7, <3>1, <3>3 DEF In
      <4>2. i \in DOMAIN Append(l, a) /\ Append(l, a)[i] = b
        BY <1>6, <1>7, <4>1
      <4> QED
        BY <3>1, <4>2 DEF In
    <3>4. First(q, b, r) => First(e, b, r)
      BY <1>6, <3>1 DEF First
    <3> QED
      BY <3>2, <3>3, <3>4
  <2>3. CASE ~(Server(b) = s /\ r = p)
    <3>1. e[Server(b)][r] = q[Server(b)][r]
      BY <1>4, <2>1, <2>3
    <3> QED
      BY <3>1 DEF In, First
  <2> QED
    BY <2>2, <2>3
<1> QED
  BY <1>9, <1>10 DEF e

\* Who waits for a key holds only keys that come before it: in a set of waiters, the one at the head of the queue of
\* the last path waited for waits for nobody of the set.
LEMMA NoCycle ==
  ASSUME IInv
  PROVE  NoWaitCycle
<1> USE PathsAssumption
<1> SUFFICES ASSUME NEW waiting \in SUBSET {a \in Actors : \E p \in Paths : Waits(a, p)}, waiting # {},
                    \A a \in waiting : \A p \in Paths : Waits(a, p) => Head(queue[Server(a)][p]) \in waiting
             PROVE  FALSE
  BY DEF NoWaitCycle
<1> DEFINE Asked == {p \in Paths : \E a \in waiting : Waits(a, p)}
<1>1. PICK p \in Asked : \A r \in Asked : r <= p
  <2>1. Asked # {} /\ Asked \in SUBSET Paths
    OBVIOUS
  <2>2. IsFiniteSet(Asked) /\ Asked \in SUBSET Nat
    BY <2>1, FS_Subset
  <2> QED
    BY <2>1, <2>2, Greatest
<1>2. PICK a \in waiting : Waits(a, p)
  OBVIOUS
<1> DEFINE s == Server(a)
           h == Head(queue[s][p])
<1>3. a \in Actors /\ s \in Servers /\ p \in Paths /\ queue[s][p] \in Seq(Actors)
  BY <1>1, ServerIs DEF IInv, QueuesOK, Served
<1>4. queue[s][p] # <<>> /\ 1 \in DOMAIN queue[s][p] /\ h = queue[s][p][1]
  BY <1>2, <1>3 DEF Waits
<1>5. h \in waiting /\ h \in Actors
  BY <1>2, <1>3
<1>6. Server(h) = s /\ In(queue, h, p)
  BY <1>3, <1>4 DEF IInv, QueuesOK, Served, In
<1>7. PICK r \in Paths : Waits(h, r)
  BY <1>5
<1>8. r \in Nat /\ p \in Nat /\ r <= p
  BY <1>1, <1>5, <1>7
<1>9. In(queue, h, r) /\ ~First(queue, h, r)
  <2>1. PICK i \in 2 .. Len(queue[s][r]) : queue[s][r][i] = h
    BY <1>6, <1>7 DEF Waits
  <2>2. queue[s][r] \in Seq(Actors) /\ i \in DOMAIN queue[s][r] /\ 1 \in DOMAIN queue[s][r] /\ i # 1
    BY <1>3, <2>1 DEF IInv, QueuesOK, Served
  <2>3. queue[s][r][1] # h
    BY <1>3, <2>1, <2>2 DEF IInv, QueuesOK, Served
  <2> QED
    BY <1>6, <2>1, <2>2, <2>3 DEF In, First
<1>10. First(queue, h, p)
  BY <1>4, <1>6 DEF First
<1> DEFINE ks == act[h].keys
<1>11. ks \in Keys
  BY <1>5 DEF IInv, TasksOK, Task
<1>13. Ordered(queue, h, ks, act[h].at)
  BY <1>5 DEF IInv, QueuesOK
<1> HIDE DEF ks, Asked, h, s
<1>12. ks \in Seq(Paths) /\ Len(ks) \in Nat /\ Len(ks) <= 2 /\ DOMAIN ks = 1 .. Len(ks) /\ (Len(ks) = 2 => ks[1] < ks[2])
  <2>1. ks \in Seq(Paths) /\ Len(ks) <= 2 /\ (Len(ks) = 2 => ks[1] < ks[2])
    BY <1>11 DEF Keys
  <2> QED
    BY <2>1
<1>14. PICK i \in DOMAIN ks : ks[i] = p
  BY <1>3, <1>6, <1>13 DEF Ordered
<1>15. PICK k \in DOMAIN ks : ks[k] = r
  BY <1>9, <1>13 DEF Ordered
<1>16. r # p
  BY <1>9, <1>10
<1>17. i = 2 /\ k = 1 /\ Len(ks) = 2
  BY <1>8, <1>12, <1>14, <1>15, <1>16
<1>18. First(queue, h, r)
  BY <1>6, <1>13, <1>14, <1>15, <1>17 DEF Ordered
<1> QED
  BY <1>9, <1>18
-----------------------------------------------------------------------------
(* The vault, as NoteDirectory sees it *)

LEMMA VaultIs ==
  /\ Vault = [n \in Notes |-> [at |-> rows[n].at, path |-> rows[n].path, links |-> {l.to : l \in rows[n].links}]]
  /\ \A p \in Paths : Directory!Occupied(Vault, p) <=> Taken(p)
  /\ \A p \in Paths : Directory!Taken(p) <=> Taken(p)
  /\ \A n \in Notes, p \in Paths : Directory!LiveAt(n, p) <=> LiveAt(n, p)
<1>1. Vault = [n \in Notes |-> [at |-> rows[n].at, path |-> rows[n].path, links |-> {l.to : l \in rows[n].links}]]
  BY DEF Vault, Seen
<1>2. \A n \in Notes : Vault[n].at = rows[n].at /\ Vault[n].path = rows[n].path
  BY <1>1
<1>3. \A n \in Notes, p \in Paths : Directory!LiveAt(n, p) <=> LiveAt(n, p)
  BY <1>2 DEF Directory!LiveAt, LiveAt, Live
<1>4. \A p \in Paths : Directory!Occupied(Vault, p) <=> Taken(p)
  BY <1>2 DEF Directory!Occupied, Taken, LiveAt, Live
<1>5. \A p \in Paths : Directory!Taken(p) <=> Taken(p)
  BY <1>4 DEF Directory!Taken
<1> QED
  BY <1>1, <1>3, <1>4, <1>5

\* A note of the vault stays where it is.
Rests(n) == rows'[n].at = rows[n].at /\ rows'[n].path = rows[n].path
\* What the effect of call k on note n is for the rows.
Turns(k, n) ==
  /\ \A m \in Notes \ {n} : Rests(m)
  /\ \/ /\ k.op = "create" /\ rows[n].at = "none" /\ ~Taken(k.path)
        /\ rows'[n].at = "live" /\ rows'[n].path = k.path
     \/ k.op = "edit" /\ LiveAt(n, k.path) /\ Rests(n)
     \/ /\ k.op = "rename" /\ LiveAt(n, k.path) /\ ~Taken(k.to)
        /\ rows'[n].at = "live" /\ rows'[n].path = k.to
     \/ k.op = "delete" /\ LiveAt(n, k.path) /\ rows'[n].at = "trash" /\ rows'[n].path = rows[n].path
     \/ /\ k.op = "restore" /\ n = k.note /\ rows[n].at = "trash" /\ ~Taken(rows[n].path)
        /\ rows'[n].at = "live" /\ rows'[n].path = rows[n].path
     \/ k.op = "purge" /\ n = k.note /\ rows[n].at = "trash" /\ rows'[n].at = "gone" /\ rows'[n].path = rows[n].path

LEMMA VaultNext ==
  \A n \in Notes : /\ Vault[n].at = rows[n].at /\ Vault[n].path = rows[n].path
                   /\ Vault'[n].at = rows'[n].at /\ Vault'[n].path = rows'[n].path
BY DEF Vault, Seen

LEMMA EffectTurns ==
  ASSUME RowsOK, NEW k \in Calls, NEW n \in Notes, Directory!Effect(k, n)
  PROVE  Turns(k, n)
<1> USE CallsAssumption DEF ByPath, ById
<1>1. /\ Vault = [m \in Notes |-> [at |-> rows[m].at, path |-> rows[m].path, links |-> {l.to : l \in rows[m].links}]]
      /\ \A p \in Paths : Directory!Taken(p) <=> Taken(p)
      /\ Directory!LiveAt(n, k.path) /\ k.path \in Paths => LiveAt(n, k.path)
  BY VaultIs
<1>2. \A m \in Notes : /\ Vault[m].at = rows[m].at /\ Vault[m].path = rows[m].path
                       /\ Vault'[m].at = rows'[m].at /\ Vault'[m].path = rows'[m].path
  BY VaultNext
<1>3. rows[n].at # "none" => rows[n].path \in Paths
  BY DEF RowsOK, Row, Ats
<1>4. /\ DOMAIN Vault = Notes
      /\ Vault[n] = [at |-> rows[n].at, path |-> rows[n].path, links |-> {l.to : l \in rows[n].links}]
  BY <1>1
<1> DEFINE V == Vault
           W == Vault'
<1> HIDE DEF V, W
<1>5. CASE k.op = "create" /\ Vault[n].at = "none" /\ ~Directory!Taken(k.path)
           /\ Vault' = [Vault EXCEPT ![n] = [at |-> "live", path |-> k.path, links |-> {}]]
  <2>1. k.path \in Paths
    BY <1>5
  <2>2. \A m \in Notes \ {n} : Vault'[m] = Vault[m]
    BY <1>5
  <2>3. Vault'[n].at = "live" /\ Vault'[n].path = k.path
    BY <1>4, <1>5
  <2> QED
    BY <1>1, <1>2, <1>5, <2>1, <2>2, <2>3 DEF Turns, Rests
<1>6. CASE k.op = "edit" /\ Directory!LiveAt(n, k.path)
           /\ Vault' = [Vault EXCEPT ![n].links = @ \cup {k.to}]
  <2>1. \A m \in Notes \ {n} : Vault'[m] = Vault[m]
    BY <1>6
  <2>2. Vault'[n] = [Vault[n] EXCEPT !.links = @ \cup {k.to}]
    BY <1>4, <1>6
  <2>3. Vault'[n].at = Vault[n].at /\ Vault'[n].path = Vault[n].path
    BY <1>4, <2>2
  <2> QED
    BY <1>1, <1>2, <1>6, <2>1, <2>3 DEF Turns, Rests
<1>7. CASE k.op = "rename" /\ Directory!LiveAt(n, k.path) /\ ~Directory!Taken(k.to)
           /\ Vault' = [Vault EXCEPT ![n] = [@ EXCEPT !.path = k.to, !.links = Directory!Rewritten(Vault[n].links, k.path, k.to)]]
  <2> DEFINE links == Directory!Rewritten(Vault[n].links, k.path, k.to)
  <2>1. Vault' = [Vault EXCEPT ![n] = [Vault[n] EXCEPT !.path = k.to, !.links = links]]
    BY <1>7
  <2> HIDE DEF links
  <2>2. \A m \in Notes \ {n} : Vault'[m] = Vault[m]
    BY <1>4, <2>1
  <2>6. Vault'[n] = [Vault[n] EXCEPT !.path = k.to, !.links = links]
    BY <1>4, <2>1
  <2>3. Vault'[n].at = Vault[n].at /\ Vault'[n].path = k.to
    BY <1>4, <2>6
  <2>4. LiveAt(n, k.path) /\ ~Taken(k.to)
    BY <1>1, <1>7
  <2>5. rows[n].at = "live"
    BY <2>4 DEF LiveAt, Live
  <2> QED
    BY <1>2, <1>7, <2>2, <2>3, <2>4, <2>5 DEF Turns, Rests
<1>8. CASE k.op = "delete" /\ Directory!LiveAt(n, k.path) /\ Vault' = [Vault EXCEPT ![n].at = "trash"]
  <2>1. \A m \in Notes \ {n} : Vault'[m] = Vault[m]
    BY <1>8
  <2>2. Vault'[n] = [Vault[n] EXCEPT !.at = "trash"]
    BY <1>4, <1>8
  <2>3. Vault'[n].at = "trash" /\ Vault'[n].path = Vault[n].path
    BY <1>4, <2>2
  <2> QED
    BY <1>1, <1>2, <1>8, <2>1, <2>3 DEF Turns, Rests
<1>9. CASE k.op = "restore" /\ n = k.note /\ Vault[n].at = "trash" /\ ~Directory!Taken(Vault[n].path)
           /\ Vault' = [Vault EXCEPT ![n].at = "live"]
  <2>1. \A m \in Notes \ {n} : Vault'[m] = Vault[m]
    BY <1>9
  <2>2. Vault'[n] = [Vault[n] EXCEPT !.at = "live"]
    BY <1>4, <1>9
  <2>3. Vault'[n].at = "live" /\ Vault'[n].path = Vault[n].path
    BY <1>4, <2>2
  <2>4. rows[n].at = "trash" /\ ~Taken(rows[n].path)
    BY <1>1, <1>2, <1>3, <1>9
  <2> QED
    BY <1>2, <1>9, <2>1, <2>3, <2>4 DEF Turns, Rests
<1>10. CASE k.op = "purge" /\ n = k.note /\ Vault[n].at = "trash" /\ Vault' = [Vault EXCEPT ![n].at = "gone"]
  <2>1. \A m \in Notes \ {n} : Vault'[m] = Vault[m]
    BY <1>10
  <2>2. Vault'[n] = [Vault[n] EXCEPT !.at = "gone"]
    BY <1>4, <1>10
  <2>3. Vault'[n].at = "gone" /\ Vault'[n].path = Vault[n].path
    BY <1>4, <2>2
  <2> QED
    BY <1>2, <1>10, <2>1, <2>3 DEF Turns, Rests
<1> QED
  BY <1>5, <1>6, <1>7, <1>8, <1>9, <1>10 DEF Directory!Effect

\* The three ways a step can change the vault.
VaultStep ==
  /\ rows' \in [Notes -> Row]
  /\ \/ \A n \in Notes : Rests(n)
     \/ \E k \in Calls, n \in Notes : Turns(k, n)

LEMMA RowsStep ==
  ASSUME RowsOK, VaultStep
  PROVE  /\ RowsOK'
         /\ \A n \in Notes : Written(n) => Written(n)'
         /\ \A n \in Notes, p \in Paths : LiveAt(n, p) /\ ~LiveAt(n, p)' => ~Taken(p)'
         /\ \A n \in Notes : rows[n].at = "trash" /\ rows'[n].at = "trash" => rows'[n].path = rows[n].path
<1> USE CallsAssumption DEF ByPath, ById
<1>1. /\ rows \in [Notes -> Row] /\ rows' \in [Notes -> Row]
      /\ \A n \in Notes : rows[n].path = 0 <=> rows[n].at = "none"
      /\ \A n, m \in Notes : rows[n].at = "live" /\ rows[m].at = "live" /\ rows[n].path = rows[m].path => n = m
  BY DEF RowsOK, VaultStep, Live
<1>2. CASE \A n \in Notes : Rests(n)
  BY <1>1, <1>2 DEF Rests, RowsOK, Live, LiveAt, Written
<1>3. CASE \E k \in Calls, n \in Notes : Turns(k, n)
  <2>1. PICK k \in Calls, n \in Notes : Turns(k, n)
    BY <1>3
  <2>2. /\ k.op \in ByPath => k.path \in Paths
        /\ k.op = "rename" => k.to \in Paths
    OBVIOUS
  <2>3. 0 \notin Paths
    BY PathsAssumption
  <2>4. \A m \in Notes \ {n} : rows'[m].at = rows[m].at /\ rows'[m].path = rows[m].path
    BY <2>1 DEF Turns, Rests
  <2>5. \/ /\ rows[n].at = "none" /\ rows'[n].at = "live" /\ rows'[n].path \in Paths
           /\ \A m \in Notes : ~(rows[m].at = "live" /\ rows[m].path = rows'[n].path)
        \/ rows'[n].at = rows[n].at /\ rows'[n].path = rows[n].path
        \/ /\ rows[n].at = "live" /\ rows'[n].at = "live" /\ rows'[n].path \in Paths /\ rows'[n].path # rows[n].path
           /\ \A m \in Notes : ~(rows[m].at = "live" /\ rows[m].path = rows'[n].path)
        \/ rows[n].at = "live" /\ rows'[n].at = "trash" /\ rows'[n].path = rows[n].path
        \/ /\ rows[n].at = "trash" /\ rows'[n].at = "live" /\ rows'[n].path = rows[n].path
           /\ \A m \in Notes : ~(rows[m].at = "live" /\ rows[m].path = rows'[n].path)
        \/ rows[n].at = "trash" /\ rows'[n].at = "gone" /\ rows'[n].path = rows[n].path
    <3> USE DEF Rests, LiveAt, Live, Taken
    <3>1. CASE k.op = "create"
      BY <2>1, <2>2, <3>1 DEF Turns
    <3>2. CASE k.op = "rename"
      BY <2>1, <2>2, <3>2 DEF Turns
    <3>3. CASE k.op \in {"edit", "delete"}
      BY <2>1, <3>3 DEF Turns
    <3>4. CASE k.op \in {"restore", "purge"}
      BY <2>1, <3>4 DEF Turns
    <3> QED
      BY <3>1, <3>2, <3>3, <3>4
  <2>6. \A m \in Notes : rows'[m].path = 0 <=> rows'[m].at = "none"
    BY <1>1, <2>3, <2>4, <2>5
  <2>7. ASSUME NEW m \in Notes, NEW o \in Notes, rows'[m].at = "live", rows'[o].at = "live",
               rows'[m].path = rows'[o].path
        PROVE  m = o
    BY <1>1, <2>4, <2>5, <2>7
  <2>8. ASSUME NEW m \in Notes, NEW p \in Paths, rows[m].at = "live" /\ rows[m].path = p,
               ~(rows'[m].at = "live" /\ rows'[m].path = p),
               NEW o \in Notes, rows'[o].at = "live", rows'[o].path = p
        PROVE  FALSE
    BY <1>1, <2>4, <2>5, <2>8
  <2>9. \A m \in Notes : rows[m].at # "none" => rows'[m].at # "none"
    BY <2>4, <2>5
  <2>10. \A m \in Notes : rows[m].at = "trash" /\ rows'[m].at = "trash" => rows'[m].path = rows[m].path
    BY <2>4, <2>5
  <2>11. RowsOK'
    BY <1>1, <2>6, <2>7 DEF RowsOK, Live
  <2>12. \A m \in Notes, p \in Paths : LiveAt(m, p) /\ ~LiveAt(m, p)' => ~Taken(p)'
    BY <2>8 DEF LiveAt, Live, Taken
  <2> QED
    BY <2>9, <2>10, <2>11, <2>12 DEF Written
<1> QED
  BY <1>2, <1>3 DEF VaultStep

\* The paths that links name.
Targets(links) == {l.to : l \in links}

LEMMA SeenAs ==
  ASSUME NEW table \in [Notes -> Row]
  PROVE  /\ DOMAIN Seen(table) = Notes
         /\ \A n \in Notes : Seen(table)[n] = [at |-> table[n].at, path |-> table[n].path, links |-> Targets(table[n].links)]
BY DEF Seen, Targets

\* Links that are no longer known to mean a note name the same paths.
LEMMA LeftSeen ==
  ASSUME NEW table \in [Notes -> Row], NEW left
  PROVE  Left(table, left) \in [Notes -> Row] /\ Seen(Left(table, left)) = Seen(table)
<1> DEFINE kept(r) == {IF <<r, l>> \in left THEN Link(l.to, "none") ELSE l : l \in table[r].links}
<1>1. ASSUME NEW r \in Notes
      PROVE  /\ table[r] \in Row /\ kept(r) \subseteq Links /\ Targets(kept(r)) = Targets(table[r].links)
             /\ Left(table, left)[r] = [table[r] EXCEPT !.links = kept(r)]
  <2>1. table[r] \in Row /\ table[r].links \subseteq Links
    BY DEF Row
  <2>2. \A l \in table[r].links : l \in Links /\ Link(l.to, "none") \in Links /\ Link(l.to, "none").to = l.to
    BY <2>1 DEF Links, Link
  <2>3. kept(r) \subseteq Links
    BY <2>2
  <2>4. ASSUME NEW p PROVE p \in Targets(kept(r)) <=> p \in Targets(table[r].links)
    BY <2>2 DEF Targets
  <2>5. Left(table, left)[r] = [table[r] EXCEPT !.links = kept(r)]
    BY DEF Left
  <2> QED
    BY <2>1, <2>3, <2>4, <2>5
<1> HIDE DEF kept
<1>2. ASSUME NEW r \in Notes
      PROVE  /\ Left(table, left)[r] \in Row
             /\ Left(table, left)[r].at = table[r].at /\ Left(table, left)[r].path = table[r].path
             /\ Targets(Left(table, left)[r].links) = Targets(table[r].links)
  <2>1. Left(table, left)[r] = [table[r] EXCEPT !.links = kept(r)] /\ table[r] \in Row
    BY <1>1
  <2>2. Left(table, left)[r].links = kept(r)
    BY <2>1 DEF Row
  <2>3. Left(table, left)[r] \in Row
    BY <1>1, <2>1 DEF Row
  <2>4. Left(table, left)[r].at = table[r].at /\ Left(table, left)[r].path = table[r].path
    BY <2>1 DEF Row
  <2> QED
    BY <1>1, <2>2, <2>3, <2>4
<1>3. Left(table, left) = [r \in Notes |-> Left(table, left)[r]]
  BY DEF Left
<1>4. Left(table, left) \in [Notes -> Row]
  BY <1>2, <1>3
<1>5. ASSUME NEW r \in Notes PROVE Seen(Left(table, left))[r] = Seen(table)[r]
  <2> DEFINE new == Left(table, left)
  <2>1. Seen(table)[r] = [at |-> table[r].at, path |-> table[r].path, links |-> Targets(table[r].links)]
    BY SeenAs
  <2>2. Seen(new)[r] = [at |-> new[r].at, path |-> new[r].path, links |-> Targets(new[r].links)]
    BY <1>4, SeenAs
  <2> QED
    BY <1>2, <2>1, <2>2
<1>6. Seen(Left(table, left)) = Seen(table)
  BY <1>5 DEF Seen
<1> QED
  BY <1>4, <1>6

\* A row that is written is what the vault shows of its note.
LEMMA SetSeen ==
  ASSUME rows \in [Notes -> Row], NEW n \in Notes, NEW row \in Row
  PROVE  /\ [rows EXCEPT ![n] = row] \in [Notes -> Row]
         /\ Seen([rows EXCEPT ![n] = row])
              = [Vault EXCEPT ![n] = [at |-> row.at, path |-> row.path, links |-> Targets(row.links)]]
<1> DEFINE table == [rows EXCEPT ![n] = row]
           old == Vault
           seen == Seen(table)
           as == [at |-> row.at, path |-> row.path, links |-> Targets(row.links)]
<1>1. table \in [Notes -> Row] /\ table[n] = row /\ \A m \in Notes \ {n} : table[m] = rows[m]
  OBVIOUS
<1> HIDE DEF table
<1>2. ASSUME NEW m \in Notes PROVE seen[m] = IF m = n THEN as ELSE old[m]
  <2>1. Seen(rows)[m] = [at |-> rows[m].at, path |-> rows[m].path, links |-> Targets(rows[m].links)]
    BY SeenAs
  <2>2. Seen(table)[m] = [at |-> table[m].at, path |-> table[m].path, links |-> Targets(table[m].links)]
    BY <1>1, SeenAs
  <2> QED
    BY <1>1, <2>1, <2>2 DEF Vault
<1>3. old = [m \in Notes |-> old[m]] /\ seen = [m \in Notes |-> seen[m]]
  BY DEF Vault, Seen
<1> HIDE DEF old, seen, as
<1>4. seen = [old EXCEPT ![n] = as]
  BY <1>2, <1>3
<1> QED
  BY <1>1, <1>4 DEF old, seen, as, table

LEMMA ChangeSeen ==
  ASSUME rows \in [Notes -> Row], NEW n \in Notes, NEW new \in Row, Change(n, new)
  PROVE  /\ rows' \in [Notes -> Row]
         /\ Vault' = [Vault EXCEPT ![n] = [at |-> new.at, path |-> new.path, links |-> Targets(new.links)]]
<1> DEFINE row == IF new = rows[n] THEN rows[n] ELSE [new EXCEPT !.seq = new.seq + 1]
<1>1. rows' = [rows EXCEPT ![n] = row]
  BY DEF Change
<1>2. row \in Row /\ row.at = new.at /\ row.path = new.path /\ row.links = new.links
  BY DEF Row
<1> HIDE DEF row
<1>3. Vault' = Seen(rows')
  BY DEF Vault, Seen
<1>4. /\ [rows EXCEPT ![n] = row] \in [Notes -> Row]
      /\ Seen([rows EXCEPT ![n] = row])
           = [Vault EXCEPT ![n] = [at |-> row.at, path |-> row.path, links |-> Targets(row.links)]]
  BY <1>2, SetSeen
<1> QED
  BY <1>1, <1>2, <1>3, <1>4

LEMMA RefactoredTargets ==
  ASSUME NEW links \in SUBSET Links, NEW n \in Notes \cup {"none"}, NEW from, NEW to \in Paths
  PROVE  /\ Refactored(links, n, from, to) \in SUBSET Links
         /\ Targets(Refactored(links, n, from, to)) = Directory!Rewritten(Targets(links), from, to)
<1>1. \A l \in links : l \in Links /\ l.to \in Paths
  BY DEF Links
<1>2. \A o \in Notes \cup {"none"} : Link(to, o) \in Links /\ Link(to, o).to = to
  BY DEF Links, Link
<1>3. Refactored(links, n, from, to) \in SUBSET Links
  BY <1>1, <1>2 DEF Refactored
<1>4. ASSUME NEW p
      PROVE  p \in Targets(Refactored(links, n, from, to)) <=> p \in Directory!Rewritten(Targets(links), from, to)
  <2>1. p \in Directory!Rewritten(Targets(links), from, to) <=> \E l \in links : p = IF l.to = from THEN to ELSE l.to
    BY DEF Directory!Rewritten, Targets
  <2>2. p \in Targets(Refactored(links, n, from, to))
          <=> \E l \in links : p = (IF l.to = from THEN Link(to, IF l.of = n THEN n ELSE "none") ELSE l).to
    BY DEF Refactored, Targets
  <2>3. \A l \in links : (IF l.to = from THEN Link(to, IF l.of = n THEN n ELSE "none") ELSE l).to
                         = IF l.to = from THEN to ELSE l.to
    BY <1>2
  <2> QED
    BY <2>1, <2>2, <2>3
<1> QED
  BY <1>3, <1>4
-----------------------------------------------------------------------------
(* The kinds of steps *)

\* No caller can see a difference.
Keeps == rows' \in [Notes -> Row] /\ Vault' = Vault
\* The effect of client c's call, on a note that no other rename has locked.
Takes(c) ==
  /\ rows' \in [Notes -> Row]
  /\ \E n \in Notes :
       /\ Directory!Effect(call[c], n) /\ homes' = [homes EXCEPT ![n] = @ \cup {Vault'[n].path}]
       /\ Live(n) => \A d \in Clients \ {c} : act[d].at = "found" => act[d].seen # n
\* Actor a's rename has a link rewritten in a live note.
Relinks(a) ==
  /\ rows' \in [Notes -> Row]
  /\ \E r \in Notes : /\ Live(r)
                      /\ \E from, to \in homes[act[a].note] :
                           Vault' = [Vault EXCEPT ![r].links = Directory!Rewritten(@, from, to)]

Others(a) == act' \in [Actors -> Task] /\ \A b \in Actors \ {a} : act'[b] = act[b]
Same == UNCHANGED <<homes, call, reply>>
Lets(a) == HoldsAll(a) /\ queue' = Released(a)
Enters(a) ==
  /\ act[a].keys = <<>> /\ queue' = Enqueued(queue, a, act'[a].keys[1])
  /\ act'[a].at = "lock" /\ act'[a].path \in Paths

\* The work ends without an effect of its own: a refusal that was right, or a rename's links are done.
Refused(a) ==
  /\ ~At(a, "idle") /\ Lets(a) /\ Others(a) /\ act'[a] = Idle /\ Keeps /\ homes' = homes /\ jobs' \subseteq jobs
  /\ IF a \in Clients
     THEN \E why \in IF act[a].op = "relink" THEN {"done", "busy"} ELSE could[a] \cup {"busy"} :
            call' = [call EXCEPT ![a] = NoCall] /\ reply' = [reply EXCEPT ![a] = why]
     ELSE UNCHANGED <<call, reply>>
Performed(c) ==
  /\ c \in Clients /\ act[c].op \in ByPath \cup ById /\ Lets(c) /\ Others(c) /\ act'[c] = Idle /\ Takes(c) /\ jobs' = jobs
  /\ call' = [call EXCEPT ![c] = NoCall] /\ reply' = [reply EXCEPT ![c] = "done"]
Moved(c) ==
  /\ c \in Clients /\ act[c].at = "found" /\ Lets(c) /\ Others(c) /\ Takes(c) /\ UNCHANGED <<call, reply>>
  /\ act'[c].at = "relink" /\ act'[c].op = "relink" /\ act'[c].keys = <<>> /\ act'[c].ref = "none"
  /\ act'[c].note = act[c].seen /\ act'[c].from = act[c].path
  /\ \E j \in Job : jobs' = jobs \cup {j} /\ j.note = act[c].seen /\ j.from = act[c].path
\* A rename goes on with its next referrer, or with the same one again.
Again(a) ==
  /\ act[a].op = "relink" /\ Lets(a) /\ Others(a) /\ Same /\ jobs' = jobs /\ (Keeps \/ Relinks(a))
  /\ act'[a].at = "relink" /\ act'[a].op = "relink" /\ act'[a].keys = <<>>
  /\ act'[a].note = act[a].note /\ act'[a].from = act[a].from
  /\ act'[a].ref # "none" => act'[a].linked \in homes[act[a].note]
Settles(a) ==
  /\ act[a].op = "relink" /\ act[a].at = "tx" /\ HoldsAll(a) /\ queue' = Enqueued(Released(a), a, act[a].to)
  /\ Others(a) /\ Same /\ jobs' = jobs /\ Relinks(a)
  /\ act'[a].at = "settle" /\ act'[a].op = "relink" /\ act'[a].keys = <<act[a].to>> /\ act'[a].to = act[a].to
  /\ act'[a].ref = act[a].ref /\ act'[a].linked = act[a].linked
  /\ act'[a].note = act[a].note /\ act'[a].from = act[a].from
Looked(a) ==
  /\ act[a].at = "relink" /\ Enters(a) /\ Others(a) /\ Same /\ jobs' = jobs /\ Keeps
  /\ act'[a].op = "relink" /\ act'[a].keys = <<act'[a].path>>
  /\ act'[a].ref \in Notes /\ act'[a].linked \in homes[act[a].note] /\ act'[a].to \in homes[act[a].note]
  /\ act'[a].note = act[a].note /\ act'[a].from = act[a].from
Sought(c) ==
  /\ c \in Clients /\ act[c].at = "seek" /\ Enters(c) /\ Others(c) /\ Same /\ jobs' = jobs /\ UNCHANGED rows
  /\ act'[c].op = act[c].op /\ act'[c].note = act[c].note /\ act'[c].keys = <<act'[c].path>>
  /\ rows[act[c].note].at = "trash" /\ rows[act[c].note].path = act'[c].path
Called(c, k) ==
  /\ c \in Clients /\ k \in Calls /\ At(c, "idle") /\ Others(c) /\ UNCHANGED <<rows, homes, jobs>>
  /\ IF k.op \in ById
     THEN act'[c].at = "seek" /\ act'[c].keys = <<>> /\ queue' = queue
     ELSE Enters(c) /\ act'[c].keys = KeysOf(k)
  /\ act'[c].op = k.op /\ act'[c].path = k.path /\ act'[c].to = k.to /\ act'[c].note = k.note
  /\ call' = [call EXCEPT ![c] = k] /\ reply' = [reply EXCEPT ![c] = "none"]
Asks(a) ==
  /\ SecondKey(a) /\ act[a].at = "lock"
\* From the lock to the transaction, back for another round, or on to the writes of a rename.
Stays(a) ==
  /\ HoldsAll(a) /\ queue' = queue /\ Others(a) /\ Same /\ jobs' = jobs /\ UNCHANGED rows
  /\ \A f \in {"op", "path", "to", "note", "keys", "from", "ref", "linked"} : act'[a][f] = act[a][f]
  /\ \/ /\ act[a].at = "lock" /\ act'[a].at = "tx" /\ act[a].op # "create" /\ Written(act'[a].seen)
        /\ act[a].op \in ById => act'[a].seen = act[a].note
        /\ act[a].op \in ByPath => LiveAt(act'[a].seen, act[a].path)
     \/ act[a].at = "tx" /\ act'[a].at = "lock" /\ act[a].op \in {"edit", "relink"}
     \/ /\ act[a].at = "tx" /\ act'[a].at = "found" /\ act[a].op = "rename" /\ act'[a].seen = act[a].seen
        /\ LiveAt(act[a].seen, act[a].path) /\ ~Locked(act[a].seen)
\* A job's lease ends, or the projector of a process takes the job over.
Handed ==
  /\ UNCHANGED <<rows, queue>> /\ Same /\ jobs' \in SUBSET Job
  /\ \A j \in jobs' : \E i \in jobs : i.note = j.note /\ i.from = j.from
  /\ \/ act' = act
     \/ \E s \in Servers : /\ At(s, "idle") /\ Others(s)
                           /\ act'[s].at = "relink" /\ act'[s].op = "relink" /\ act'[s].keys = <<>> /\ act'[s].ref = "none"
                           /\ \E j \in jobs : act'[s].note = j.note /\ act'[s].from = j.from
Died(s) ==
  /\ s \in Servers /\ Crash(s)

Kinds ==
  \/ \E a \in Actors : Refused(a) \/ Again(a) \/ Settles(a) \/ Looked(a) \/ Asks(a) \/ Stays(a)
  \/ \E c \in Clients : Performed(c) \/ Moved(c) \/ Sought(c) \/ \E k \in Calls : Called(c, k)
  \/ Handed
  \/ \E s \in Servers : Died(s)
-----------------------------------------------------------------------------
(* Every step is of one of these kinds *)

LEMMA TaskFields ==
  ASSUME NEW t \in Task
  PROVE  /\ t.at \in Phases /\ t.op \in ByPath \cup ById \cup {"relink", "none"} /\ t.keys \in Keys
         /\ t.path \in Paths \cup {0} /\ t.to \in Paths \cup {0} /\ t.from \in Paths \cup {0} /\ t.linked \in Paths \cup {0}
         /\ t.note \in Notes \cup {"none"} /\ t.seen \in Notes \cup {"none"} /\ t.ref \in Notes \cup {"none"}
         /\ t.seq \in Nat /\ t.tries \in Nat /\ t.rounds \in Nat /\ t.own \in BOOLEAN
         /\ t.job \in {<<>>} \cup (Notes \X Nat) /\ t.refs \in SUBSET Notes
         /\ t = [at |-> t.at, op |-> t.op, path |-> t.path, to |-> t.to, note |-> t.note, keys |-> t.keys, seen |-> t.seen,
                 seq |-> t.seq, tries |-> t.tries, job |-> t.job, from |-> t.from, refs |-> t.refs, ref |-> t.ref,
                 linked |-> t.linked, rounds |-> t.rounds, own |-> t.own]
BY DEF Task

LEMMA Typed ==
  ASSUME LInv
  PROVE  /\ \A a \in Actors : act[a] \in Task /\ TaskOK(a, act[a])
         /\ act \in [Actors -> Task] /\ Idle \in Task
         /\ rows \in [Notes -> Row]
         /\ \A n \in Notes : rows[n] \in Row /\ (rows[n].at # "none" => rows[n].path \in Paths)
         /\ \A c \in Clients : c \in Actors
         /\ \A s \in Servers : s \in Actors
<1>1. <<>> \in Keys
  BY DEF Keys
<1>2. Idle \in Task
  BY <1>1 DEF Idle, Task, Phases
<1> QED
  BY <1>2 DEF LInv, IInv, TasksOK, RowsOK, Row, Actors

LEMMA Kept ==
  ASSUME LInv, UNCHANGED rows
  PROVE  Keeps
BY Typed DEF Keeps, Vault, Seen

LEMMA KeptLeft ==
  ASSUME LInv, NEW left, rows' = Left(rows, left)
  PROVE  Keeps
BY Typed, LeftSeen DEF Keeps, Vault

\* Work that ends, whatever else happens.
LEMMA EndsIs ==
  ASSUME LInv, NEW a \in Actors, NEW answer, Ends(a, answer)
  PROVE  /\ queue' = Released(a) /\ Others(a) /\ act'[a] = Idle
         /\ IF a \in Clients THEN call' = [call EXCEPT ![a] = NoCall] /\ reply' = [reply EXCEPT ![a] = answer]
                             ELSE UNCHANGED <<call, reply>>
<1>1. act' = [act EXCEPT ![a] = Idle]
  BY DEF Ends, Answer
<1> QED
  BY <1>1, Typed DEF Ends, Answer, Others

LEMMA RefusedIs ==
  ASSUME LInv, NEW a \in Actors, ~At(a, "idle"), HoldsAll(a), NEW why, Ends(a, why),
         a \in Clients => why \in IF act[a].op = "relink" THEN {"done", "busy"} ELSE could[a] \cup {"busy"},
         Keeps, homes' = homes, jobs' \subseteq jobs
  PROVE  Refused(a)
BY EndsIs DEF Refused, Lets

LEMMA RoundIs ==
  ASSUME LInv, NEW a \in Actors, act[a].op = "relink", HoldsAll(a), NEW linked \in homes[act[a].note],
         linked \in Paths, NextRound(a, linked), UNCHANGED <<homes, jobs>>, Keeps \/ Relinks(a)
  PROVE  Again(a)
<1>1. <<>> \in Keys
  BY DEF Keys
<1>2. act[a] \in Task
  BY Typed
<1> DEFINE t == [act[a] EXCEPT !.at = "relink", !.linked = linked, !.rounds = @ + 1, !.own = @ \/ At(a, "settle"), !.keys = <<>>,
                               !.path = 0, !.to = 0, !.seen = "none", !.seq = 0, !.tries = 0]
<1>3. t = [act[a] EXCEPT !.at = "relink", !.linked = linked, !.rounds = @ + 1, !.own = @ \/ At(a, "settle"), !.keys = <<>>,
                         !.path = 0, !.to = 0, !.seen = "none", !.seq = 0, !.tries = 0]
  OBVIOUS
<1>4. act' = [act EXCEPT ![a] = t]
  BY Typed DEF NextRound
<1> HIDE DEF t
<1>7. t = [at |-> "relink", op |-> act[a].op, path |-> 0, to |-> 0, note |-> act[a].note, keys |-> <<>>, seen |-> "none",
           seq |-> 0, tries |-> 0, job |-> act[a].job, from |-> act[a].from, refs |-> act[a].refs, ref |-> act[a].ref,
           linked |-> linked, rounds |-> act[a].rounds + 1,
           own |-> act[a].own \/ At(a, "settle")]
  <2>1. act[a] = [at |-> act[a].at, op |-> act[a].op, path |-> act[a].path, to |-> act[a].to, note |-> act[a].note,
                  keys |-> act[a].keys, seen |-> act[a].seen, seq |-> act[a].seq, tries |-> act[a].tries,
                  job |-> act[a].job, from |-> act[a].from, refs |-> act[a].refs, ref |-> act[a].ref,
                  linked |-> act[a].linked, rounds |-> act[a].rounds, own |-> act[a].own]
    BY <1>2, TaskFields
  <2> QED
    BY <1>3, <2>1, Zenon
<1>8. t \in Task
  BY <1>1, <1>2, <1>7, TaskFields DEF Task, Phases
<1>5. t.at = "relink" /\ t.op = act[a].op /\ t.keys = <<>> /\ t.note = act[a].note /\ t.from = act[a].from
      /\ t.linked = linked
  BY <1>7
<1>6. Others(a) /\ act'[a] = t
  BY <1>4, <1>8, Typed DEF Others
<1> QED
  BY <1>5, <1>6 DEF Again, Lets, Same, NextRound

LEMMA ReferIs ==
  ASSUME LInv, NEW a \in Actors, act[a].op = "relink", HoldsAll(a), NEW refs \in SUBSET Notes,
         NextReferrer(a, refs), UNCHANGED <<homes, jobs>>, Keeps
  PROVE  Again(a)
<1>1. <<>> \in Keys
  BY DEF Keys
<1>2. act[a] \in Task
  BY Typed
<1> DEFINE t == [Idle EXCEPT !.at = "relink", !.op = "relink", !.note = act[a].note, !.job = act[a].job,
                             !.from = act[a].from, !.refs = refs]
<1>3. t = [Idle EXCEPT !.at = "relink", !.op = "relink", !.note = act[a].note, !.job = act[a].job,
                       !.from = act[a].from, !.refs = refs]
  OBVIOUS
<1>4. act' = [act EXCEPT ![a] = t]
  BY DEF NextReferrer
<1> HIDE DEF t
<1>7. t = [at |-> "relink", op |-> "relink", path |-> 0, to |-> 0, note |-> act[a].note, keys |-> <<>>, seen |-> "none",
           seq |-> 0, tries |-> 0, job |-> act[a].job, from |-> act[a].from, refs |-> refs, ref |-> "none",
           linked |-> 0, rounds |-> 0, own |-> FALSE]
  BY <1>3, Zenon DEF Idle
<1>8. t \in Task
  BY <1>1, <1>2, <1>7, TaskFields DEF Task, Phases
<1>5. t.at = "relink" /\ t.op = "relink" /\ t.keys = <<>> /\ t.note = act[a].note /\ t.from = act[a].from
      /\ t.ref = "none"
  BY <1>7
<1>6. Others(a) /\ act'[a] = t
  BY <1>4, <1>8, Typed DEF Others
<1> QED
  BY <1>5, <1>6 DEF Again, Lets, Same, NextReferrer

LEMMA HeldAtWork ==
  ASSUME LInv, NEW a \in Actors
  PROVE  act[a].at \in {"tx", "found"} \/ act[a].keys = <<>> => HoldsAll(a)
BY DEF LInv, IInv, QueuesOK, Ordered, HoldsAll, First, Holds

\* A refusal that is right now may be given.
LEMMA RightNow ==
  ASSUME LInv, NEW c \in Clients, act[c].op \in ByPath \cup ById
  PROVE  /\ call[c] \in Calls /\ call[c].op = act[c].op
         /\ act[c].op \in ById => call[c].note = act[c].note /\ act[c].note \in Notes
         /\ act[c].op \in ByPath => /\ call[c].path = act[c].path /\ call[c].to = act[c].to /\ act[c].path \in Paths
         /\ act[c].op \in {"edit", "rename"} => act[c].to \in Paths
         /\ act[c].op \in {"edit", "rename", "delete"} /\ ~Taken(act[c].path) => "missing" \in could[c]
         /\ act[c].op \in ById /\ rows[act[c].note].at # "trash" => "missing" \in could[c]
         /\ act[c].op = "create" /\ Taken(act[c].path) => "exists" \in could[c]
         /\ act[c].op = "rename" /\ Taken(act[c].to) => "exists" \in could[c]
         /\ act[c].op = "restore" /\ rows[act[c].note].at = "trash" /\ Taken(rows[act[c].note].path) => "exists" \in could[c]
<1> DEFINE k == call[c]
<1>1. act[c] \in Task /\ TaskOK(c, act[c]) /\ c \in Actors
  BY Typed
<1>2. act[c].op # "none" /\ ~At(c, "idle")
  BY <1>1 DEF TaskOK, TaskShape, TaskNames, At, ByPath, ById
<1>3. k # NoCall /\ k \in Calls
  BY <1>2 DEF LInv, AskedOK
<1>4. /\ k.op = act[c].op /\ k.note = act[c].note
      /\ act[c].op \in ByPath => k.path = act[c].path /\ k.to = act[c].to
  BY DEF LInv, AskedOK
<1>5. /\ k.op \in ByPath => k.path \in Paths
      /\ k.op \in {"edit", "rename"} => k.to \in Paths
      /\ k.op \in ById => k.note \in Notes
  BY <1>3, CallsAssumption
<1>6. \A why \in {"missing", "exists"} :
        (IF why = "missing" THEN Directory!Missing(k, Vault) ELSE Directory!Exists(k, Vault)) => why \in could[c]
  BY <1>3 DEF LInv, CouldOK, Directory!Refusals
<1>7. (Directory!Missing(k, Vault) => "missing" \in could[c]) /\ (Directory!Exists(k, Vault) => "exists" \in could[c])
  BY <1>6
<1>8. /\ \A p \in Paths : Directory!Occupied(Vault, p) <=> Taken(p)
      /\ \A n \in Notes : Vault[n].at = rows[n].at /\ Vault[n].path = rows[n].path
      /\ \A n \in Notes : rows[n].at = "trash" => rows[n].path \in Paths
  BY VaultIs, VaultNext, Typed
<1> HIDE DEF k
<1>9. act[c].op \in {"edit", "rename", "delete"} /\ ~Taken(act[c].path) => "missing" \in could[c]
  BY <1>4, <1>5, <1>7, <1>8 DEF Directory!Missing, ByPath
<1>10. act[c].op \in ById /\ rows[act[c].note].at # "trash" => "missing" \in could[c]
  BY <1>4, <1>5, <1>7, <1>8 DEF Directory!Missing, ById
<1>11. act[c].op = "create" /\ Taken(act[c].path) => "exists" \in could[c]
  BY <1>4, <1>5, <1>7, <1>8 DEF Directory!Exists, ByPath
<1>12. act[c].op = "rename" /\ Taken(act[c].to) => "exists" \in could[c]
  BY <1>4, <1>5, <1>7, <1>8 DEF Directory!Exists, ByPath
<1>13. act[c].op = "restore" /\ rows[act[c].note].at = "trash" /\ Taken(rows[act[c].note].path) => "exists" \in could[c]
  BY <1>4, <1>5, <1>7, <1>8 DEF Directory!Exists, ById
<1> QED
  BY <1>3, <1>4, <1>5, <1>9, <1>10, <1>11, <1>12, <1>13 DEF k, ByPath, ById

LEMMA KeysTyped ==
  ASSUME NEW k, k.op \in ByPath => k.path \in Paths, k.op = "rename" => k.to \in Paths /\ k.to # k.path, k.op \in ByPath
  PROVE  /\ KeysOf(k) \in Keys /\ KeysOf(k) # <<>> /\ KeysOf(k)[1] \in Paths
         /\ \A p \in Paths : <<p>> \in Keys
<1>1. \A p \in Paths : <<p>> \in Keys
  BY DEF Keys
<1>2. CASE k.op = "rename"
  <2>1. k.path \in Nat /\ k.to \in Nat /\ k.path \in Paths
    BY <1>2, PathsAssumption
  <2>2. CASE k.path < k.to
    BY <1>2, <2>1, <2>2 DEF KeysOf, Sorted, Keys
  <2>3. CASE ~(k.path < k.to)
    BY <1>2, <2>1, <2>3 DEF KeysOf, Sorted, Keys
  <2> QED
    BY <1>1, <2>2, <2>3
<1>3. CASE k.op # "rename"
  BY <1>1, <1>3 DEF KeysOf
<1> QED
  BY <1>2, <1>3

LEMMA CallKind ==
  ASSUME LInv, NEW c \in Clients, NEW k \in Calls, Call(c, k)
  PROVE  Called(c, k)
<1>1. /\ k.op \in ByPath \cup ById /\ k.path \in Paths \cup {0} /\ k.to \in Paths \cup {0} /\ k.note \in Notes \cup {"none"}
      /\ k.op \in ByPath => k.path \in Paths
      /\ k.op = "rename" => k.to \in Paths /\ k.to # k.path
      /\ k.op \in ById <=> k.op \notin ByPath
  BY CallsAssumption DEF ByPath, ById
<1>2. c \in Actors /\ act \in [Actors -> Task] /\ Idle \in Task /\ <<>> \in Keys /\ act[c].keys = <<>>
  <2>1. At(c, "idle")
    BY DEF Call
  <2>2. <<>> \in Keys
    BY DEF Keys
  <2> QED
    BY <2>1, <2>2, Typed DEF TaskOK, TaskShape, TaskNames, At
<1> DEFINE byId == k.op \in ById
           t == [Idle EXCEPT !.at = IF byId THEN "seek" ELSE "lock", !.op = k.op, !.path = k.path, !.to = k.to,
                             !.note = k.note, !.keys = IF byId THEN <<>> ELSE KeysOf(k)]
           at == IF byId THEN "seek" ELSE "lock"
           keys == IF byId THEN <<>> ELSE KeysOf(k)
<1>3. t = [Idle EXCEPT !.at = at, !.op = k.op, !.path = k.path, !.to = k.to, !.note = k.note, !.keys = keys]
  OBVIOUS
<1>4. act' = [act EXCEPT ![c] = t] /\ queue' = IF byId THEN queue ELSE Enqueued(queue, c, t.keys[1])
  BY DEF Call
<1>5. /\ At(c, "idle") /\ UNCHANGED <<rows, homes, jobs>>
      /\ call' = [call EXCEPT ![c] = k] /\ reply' = [reply EXCEPT ![c] = "none"]
  BY DEF Call
<1>6. keys \in Keys /\ at \in Phases
  BY <1>1, <1>2, KeysTyped DEF Phases
<1> HIDE DEF t
<1>7. t = [at |-> at, op |-> k.op, path |-> k.path, to |-> k.to, note |-> k.note, keys |-> keys, seen |-> "none",
           seq |-> 0, tries |-> 0, job |-> <<>>, from |-> 0, refs |-> {}, ref |-> "none", linked |-> 0, rounds |-> 0, own |-> FALSE]
  <2> HIDE DEF at, keys
  <2> QED
    BY <1>3, Zenon DEF Idle
<1>8. t \in Task
  <2> HIDE DEF at, keys
  <2> QED
    BY <1>1, <1>6, <1>7 DEF Task
<1>9. Others(c) /\ act'[c] = t
  BY <1>2, <1>4, <1>8 DEF Others
<1>10. t.at = at /\ t.op = k.op /\ t.path = k.path /\ t.to = k.to /\ t.note = k.note /\ t.keys = keys
  <2> HIDE DEF at, keys
  <2> QED
    BY <1>7
<1>11. CASE byId
  BY <1>4, <1>5, <1>9, <1>10, <1>11 DEF Called
<1>12. CASE ~byId
  BY <1>1, <1>2, <1>4, <1>5, <1>9, <1>10, <1>12 DEF Called, Enters
<1> QED
  BY <1>11, <1>12

LEMMA SeekKind ==
  ASSUME LInv, NEW c \in Clients, Seek(c)
  PROVE  Sought(c) \/ Refused(c)
<1> DEFINE n == act[c].note
           p == rows[n].path
<1>1. c \in Actors /\ act \in [Actors -> Task] /\ act[c] \in Task /\ TaskOK(c, act[c]) /\ act[c].at = "seek" /\ act[c].keys = <<>>
  BY Typed DEF Seek, At, TaskOK, TaskShape, TaskNames
<1>2. act[c].op \in ById /\ n \in Notes
  BY <1>1 DEF TaskOK, TaskShape, TaskNames
<1>3. UNCHANGED <<rows, jobs, homes>>
  BY DEF Seek
<1>4. CASE rows[n].at = "trash"
  <2> DEFINE t == [act[c] EXCEPT !.at = "lock", !.path = p, !.keys = <<p>>]
  <2>1. p \in Paths /\ <<p>> \in Keys
    BY <1>2, <1>4, Typed DEF Keys
  <2>2. t = [act[c] EXCEPT !.at = "lock", !.path = p, !.keys = <<p>>]
    OBVIOUS
  <2>3. act' = [act EXCEPT ![c] = t] /\ queue' = Enqueued(queue, c, p) /\ UNCHANGED <<call, reply>>
    BY <1>1, <1>4 DEF Seek
  <2> HIDE DEF t
  <2>4. t \in Task /\ t.at = "lock" /\ t.path = p /\ t.keys = <<p>> /\ t.op = act[c].op /\ t.note = act[c].note
    BY <1>1, <2>1, <2>2 DEF Task, Phases
  <2>5. Others(c) /\ act'[c] = t
    BY <1>1, <2>3, <2>4 DEF Others
  <2>6. Enters(c)
    BY <1>1, <2>1, <2>3, <2>4, <2>5 DEF Enters
  <2> QED
    BY <1>1, <1>3, <1>4, <2>3, <2>4, <2>5, <2>6 DEF Sought, Same
<1>5. CASE rows[n].at # "trash"
  <2>1. Ends(c, "missing")
    BY <1>5 DEF Seek
  <2>2. "missing" \in could[c] /\ act[c].op # "relink"
    BY <1>2, <1>5, RightNow DEF ById
  <2> QED
    BY <1>1, <1>3, <2>1, <2>2, HeldAtWork, Kept, RefusedIs DEF At
<1> QED
  BY <1>4, <1>5

\* A call is answered for the effect it had on note n.
LEMMA PerformedIs ==
  ASSUME LInv, NEW c \in Clients, act[c].op \in ByPath \cup ById, HoldsAll(c), Ends(c, "done"), jobs' = jobs, Takes(c)
  PROVE  Performed(c)
BY Typed, EndsIs DEF Performed, Lets

\* A note's path is one it has had.
LEMMA HomesStay ==
  ASSUME LInv, NEW n \in Notes, rows[n].at # "none", Vault'[n].path = rows[n].path, homes' = homes
  PROVE  homes' = [homes EXCEPT ![n] = @ \cup {Vault'[n].path}]
<1>1. homes \in [Notes -> SUBSET Paths] /\ rows[n].path \in homes[n]
  BY DEF LInv, HomesOK
<1>2. homes[n] \cup {Vault'[n].path} = homes[n]
  BY <1>1
<1> QED
  BY <1>1, <1>2

LEMMA ReadKind ==
  ASSUME LInv, NEW a \in Actors, Read(a)
  PROVE  Refused(a) \/ Again(a) \/ Stays(a)
<1> DEFINE byId == act[a].op \in ById
           n == IF byId THEN act[a].note ELSE NoteAt(act[a].path)
           found == IF byId THEN rows[n].at = "trash" /\ rows[n].path = act[a].path ELSE n # "none"
<1>1. /\ act \in [Actors -> Task] /\ act[a] \in Task /\ TaskOK(a, act[a])
      /\ act[a].at = "lock" /\ HoldsAll(a) /\ ~At(a, "idle") /\ act[a].path \in Paths
      /\ act[a].op \in {"edit", "rename", "delete", "relink"} \cup ById
  BY Typed DEF Read, At, Op, TaskOK, TaskShape, TaskNames, ById
<1>2. UNCHANGED <<rows, jobs, homes>> /\ Keeps
  BY Kept DEF Read
<1>3. act[a].op # "relink" => a \in Clients /\ act[a].op \in ByPath \cup ById
  BY <1>1 DEF TaskOK, TaskShape, TaskNames, ByPath
<1>4. ~byId /\ Taken(act[a].path) => n \in Notes /\ LiveAt(n, act[a].path)
  BY DEF NoteAt, Taken
<1>5. ~byId /\ ~found => ~Taken(act[a].path)
  BY <1>4, NamesAssumption
<1>6. CASE ~found
  <2>1. NoNote(a)
    BY <1>6 DEF Read, Op
  <2>2. CASE act[a].op = "relink"
    <3>1. NextRound(a, act[a].linked)
      BY <2>1, <2>2 DEF NoNote, Op
    <3>2. act[a].linked \in homes[act[a].note] /\ act[a].linked \in Paths
      BY <1>1, <2>2, NamesAssumption DEF LInv, HomesOK, TaskOK, TaskShape, TaskNames
    <3> QED
      BY <1>1, <1>2, <2>2, <3>1, <3>2, RoundIs
  <2>3. CASE act[a].op # "relink"
    <3>1. Ends(a, "missing")
      BY <2>1, <2>3 DEF NoNote, Op
    <3>2. "missing" \in could[a]
      <4>1. CASE byId
        BY <1>1, <1>3, <1>6, <2>3, <4>1 DEF LInv, StandsOK
      <4>2. CASE ~byId
        BY <1>1, <1>3, <1>5, <1>6, <2>3, <4>2, RightNow
      <4> QED
        BY <4>1, <4>2
    <3> QED
      BY <1>1, <1>2, <2>3, <3>1, <3>2, RefusedIs
  <2> QED
    BY <2>2, <2>3
<1>7. CASE found /\ act[a].op = "rename" /\ Taken(act[a].to)
  <2>1. Ends(a, "exists")
    BY <1>7 DEF Read, Op
  <2>2. "exists" \in could[a]
    BY <1>3, <1>7, RightNow
  <2> QED
    BY <1>1, <1>2, <1>7, <2>1, <2>2, RefusedIs
<1>8. CASE found /\ act[a].op = "restore" /\ Taken(act[a].path)
  <2>1. Ends(a, "exists")
    BY <1>8 DEF Read, Op
  <2>2. "exists" \in could[a]
    BY <1>3, <1>8, RightNow DEF ById
  <2> QED
    BY <1>1, <1>2, <1>8, <2>1, <2>2, RefusedIs
<1>9. CASE found /\ ~(act[a].op = "rename" /\ Taken(act[a].to)) /\ ~(act[a].op = "restore" /\ Taken(act[a].path))
  <2>1. Saw(a, n)
    BY <1>9 DEF Read, Op
  <2>2. n \in Notes /\ rows[n].at # "none" /\ (~byId => LiveAt(n, act[a].path))
    <3>1. CASE byId
      BY <1>1, <1>9, <3>1 DEF TaskOK, TaskShape, TaskNames
    <3>2. CASE ~byId
      <4>1. Taken(act[a].path)
        BY <1>9, <3>2 DEF NoteAt
      <4> QED
        BY <1>4, <3>2, <4>1 DEF LiveAt, Live
    <3> QED
      BY <3>1, <3>2
  <2> HIDE DEF n
  <2> DEFINE t == [act[a] EXCEPT !.at = "tx", !.seen = n, !.seq = rows[n].seq]
  <2>3. act' = [act EXCEPT ![a] = t] /\ UNCHANGED <<queue, call, reply>>
    BY <1>1, <2>1 DEF Saw
  <2>4. rows[n].seq \in Nat
    BY <2>2, Typed DEF Row
  <2>5. t \in Task /\ t.at = "tx" /\ t.seen = n
        /\ \A f \in {"op", "path", "to", "note", "keys", "from", "ref", "linked"} : t[f] = act[a][f]
    BY <1>1, <2>2, <2>4 DEF Task, Phases
  <2> HIDE DEF t
  <2>6. Others(a) /\ act'[a] = t
    BY <1>1, <2>3, <2>5 DEF Others
  <2>7. act[a].op # "create" /\ Written(n)
    BY <1>1, <2>2 DEF ById, Written
  <2>8. act[a].op \in ByPath => LiveAt(n, act[a].path)
    BY <2>2 DEF ByPath, ById
  <2>9. act[a].op \in ById => n = act[a].note
    BY DEF n
  <2> QED
    BY <1>1, <1>2, <2>3, <2>5, <2>6, <2>7, <2>8, <2>9 DEF Stays, Same
<1> QED
  BY <1>6, <1>7, <1>8, <1>9

LEMMA CreateKind ==
  ASSUME LInv, NEW c \in Clients, NEW n \in Notes, Create(c, n)
  PROVE  Refused(c) \/ Performed(c)
<1> DEFINE p == act[c].path
<1>1. /\ c \in Actors /\ act[c].at = "lock" /\ act[c].op = "create" /\ HoldsAll(c) /\ rows[n].at = "none" /\ jobs' = jobs
      /\ ~At(c, "idle") /\ act[c].op \in ByPath
  BY Typed DEF Create, At, Op, ByPath
<1>2. p \in Paths /\ call[c] \in Calls /\ call[c].op = "create" /\ call[c].path = p
  BY <1>1, RightNow
<1>3. CASE Taken(p)
  <2>1. Ends(c, "exists") /\ UNCHANGED <<rows, homes>>
    BY <1>3 DEF Create, Clashes
  <2>2. "exists" \in could[c]
    BY <1>1, <1>3, RightNow
  <2> QED
    BY <1>1, <2>1, <2>2, Kept, RefusedIs
<1>4. CASE ~Taken(p)
  <2> DEFINE new == [at |-> "live", path |-> p, seq |-> 0, links |-> {}]
  <2>1. Change(n, new) /\ homes' = [homes EXCEPT ![n] = {p}] /\ Ends(c, "done")
    BY <1>4 DEF Create, Clashes
  <2>2. new \in Row /\ Targets(new.links) = {}
    BY <1>2 DEF Row, Ats, Targets
  <2>3. rows' \in [Notes -> Row] /\ Vault' = [Vault EXCEPT ![n] = [at |-> "live", path |-> p, links |-> {}]]
    BY <2>1, <2>2, ChangeSeen, Typed
  <2>4. Vault[n].at = "none" /\ Vault'[n].path = p
    BY <1>1, <2>3, VaultNext DEF Vault, Seen
  <2>5. ~Directory!Taken(p)
    BY <1>2, <1>4, VaultIs
  <2>6. Directory!Effect(call[c], n)
    BY <1>2, <2>3, <2>4, <2>5 DEF Directory!Effect
  <2>7. homes' = [homes EXCEPT ![n] = @ \cup {Vault'[n].path}]
    BY <1>1, <2>1, <2>4 DEF LInv, HomesOK
  <2>8. Takes(c)
    BY <1>1, <2>3, <2>6, <2>7 DEF Takes, Live
  <2> QED
    BY <1>1, <2>1, <2>8, PerformedIs
<1> QED
  BY <1>3, <1>4

LEMMA VaultRow ==
  ASSUME NEW n \in Notes
  PROVE  /\ Vault = [m \in Notes |-> Vault[m]]
         /\ Vault[n] = [at |-> rows[n].at, path |-> rows[n].path, links |-> Targets(rows[n].links)]
         /\ Vault[n].links = Targets(rows[n].links)
BY DEF Vault, Seen, Targets

\* A row of the vault with its links or its state changed.
LEMMA VaultLinks ==
  ASSUME NEW n \in Notes, NEW links
  PROVE  [Vault EXCEPT ![n] = [at |-> rows[n].at, path |-> rows[n].path, links |-> links]] = [Vault EXCEPT ![n].links = links]
<1> DEFINE old == Vault
           before == Vault[n]
           row == [before EXCEPT !.links = links]
<1>1. before = [at |-> rows[n].at, path |-> rows[n].path, links |-> Targets(rows[n].links)]
  BY VaultRow
<1>2. row = [before EXCEPT !.links = links]
  OBVIOUS
<1>5. before = old[n]
  OBVIOUS
<1> HIDE DEF old, before, row
<1>3. row = [at |-> rows[n].at, path |-> rows[n].path, links |-> links]
  BY <1>1, <1>2, Zenon
<1>4. [old EXCEPT ![n] = row] = [old EXCEPT ![n].links = links]
  BY <1>2, <1>5
<1> QED
  BY <1>3, <1>4 DEF old

LEMMA VaultAt ==
  ASSUME NEW n \in Notes, NEW at
  PROVE  [Vault EXCEPT ![n] = [at |-> at, path |-> rows[n].path, links |-> Targets(rows[n].links)]]
           = [Vault EXCEPT ![n].at = at]
<1> DEFINE old == Vault
           before == Vault[n]
           row == [before EXCEPT !.at = at]
<1>1. before = [at |-> rows[n].at, path |-> rows[n].path, links |-> Targets(rows[n].links)]
  BY VaultRow
<1>2. row = [before EXCEPT !.at = at]
  OBVIOUS
<1>5. before = old[n]
  OBVIOUS
<1> HIDE DEF old, before, row
<1>3. row = [at |-> at, path |-> rows[n].path, links |-> Targets(rows[n].links)]
  BY <1>1, <1>2, Zenon
<1>4. [old EXCEPT ![n] = row] = [old EXCEPT ![n].at = at]
  BY <1>2, <1>5
<1> QED
  BY <1>3, <1>4 DEF old

\* Links of a live note are turned from one path the renamed note has had to another.
LEMMA RelinksIs ==
  ASSUME LInv, NEW a \in Actors, NEW n \in Notes, Live(n),
         NEW from \in homes[act[a].note], NEW to \in homes[act[a].note], from \in Paths, to \in Paths,
         NEW who \in Notes \cup {"none"},
         Change(n, [rows[n] EXCEPT !.links = Refactored(rows[n].links, who, from, to)])
  PROVE  Relinks(a)
<1> DEFINE links == Refactored(rows[n].links, who, from, to)
           new == [rows[n] EXCEPT !.links = links]
           as == Directory!Rewritten(Targets(rows[n].links), from, to)
<1>1. rows \in [Notes -> Row] /\ rows[n] \in Row /\ rows[n].links \in SUBSET Links
  BY Typed DEF Row
<1>2. links \in SUBSET Links /\ Targets(links) = as
  BY <1>1, RefactoredTargets
<1> HIDE DEF links, as
<1>3. new \in Row /\ new.at = rows[n].at /\ new.path = rows[n].path /\ new.links = links
  BY <1>1, <1>2 DEF Row
<1>4. Change(n, new)
  BY DEF links
<1> HIDE DEF new
<1>5. /\ rows' \in [Notes -> Row]
      /\ Vault' = [Vault EXCEPT ![n] = [at |-> rows[n].at, path |-> rows[n].path, links |-> as]]
  <2>1. /\ rows' \in [Notes -> Row]
        /\ Vault' = [Vault EXCEPT ![n] = [at |-> new.at, path |-> new.path, links |-> Targets(new.links)]]
    BY <1>1, <1>3, <1>4, ChangeSeen
  <2> QED
    BY <1>2, <1>3, <2>1
<1>6. Vault' = [Vault EXCEPT ![n].links = as]
  BY <1>5, VaultLinks
<1>7. Vault[n].links = Targets(rows[n].links)
  BY VaultRow
<1>9. Vault' = [Vault EXCEPT ![n].links = Directory!Rewritten(@, from, to)]
  BY <1>6, <1>7 DEF as
<1> QED
  BY <1>5, <1>9 DEF Relinks

LEMMA EditKind ==
  ASSUME LInv, NEW a \in Actors, Edit(a)
  PROVE  Refused(a) \/ Again(a) \/ Stays(a) \/ Performed(a) \/ Settles(a)
<1> DEFINE n == act[a].seen
<1>1. /\ act \in [Actors -> Task] /\ act[a] \in Task /\ TaskOK(a, act[a])
      /\ act[a].at = "tx" /\ HoldsAll(a) /\ ~At(a, "idle") /\ act[a].op \in {"edit", "relink"} /\ ~Locked(n)
      /\ act[a].path \in Paths /\ n \in Notes /\ rows[n].at # "none"
  BY Typed, HeldAtWork DEF Edit, At, Op, TaskOK, TaskShape, TaskNames, Written
<1>2. UNCHANGED <<jobs, homes>>
  BY DEF Edit
<1>3. act[a].op = "edit" => a \in Clients /\ act[a].op \in ByPath
  BY <1>1 DEF TaskOK, TaskShape, TaskNames, ByPath
<1>4. act[a].op = "relink" => /\ act[a].linked \in homes[act[a].note] /\ act[a].linked \in Paths
                              /\ act[a].to \in homes[act[a].note] /\ act[a].to \in Paths /\ act[a].note \in Notes
                              /\ act[a].ref \in Notes
  BY <1>1, NamesAssumption DEF LInv, HomesOK, TaskOK, TaskShape, TaskNames, Written
<1>5. CASE ~Stands(a) /\ NoNote(a) /\ UNCHANGED rows
  <2>1. Keeps
    BY <1>5, Kept
  <2>2. CASE act[a].op = "relink"
    <3>1. NextRound(a, act[a].linked)
      BY <1>5, <2>2 DEF NoNote, Op
    <3> QED
      BY <1>1, <1>2, <1>4, <2>1, <2>2, <3>1, RoundIs
  <2>3. CASE act[a].op = "edit"
    <3>1. Ends(a, "missing")
      BY <1>5, <2>3 DEF NoNote, Op
    <3>2. "missing" \in could[a]
      BY <1>1, <1>3, <1>5, <2>3 DEF LInv, StandsOK, Stands
    <3> QED
      BY <1>1, <1>2, <2>1, <2>3, <3>1, <3>2, RefusedIs
  <2> QED
    BY <1>1, <2>2, <2>3
<1>6. CASE /\ act' = [act EXCEPT ![a].at = "lock", ![a].tries = @ + 1, ![a].seen = "none", ![a].seq = 0]
           /\ UNCHANGED <<rows, queue, call, reply>>
  <2> DEFINE tries == act[a].tries + 1
             t == [act[a] EXCEPT !.at = "lock", !.tries = tries, !.seen = "none", !.seq = 0]
  <2>1. act' = [act EXCEPT ![a] = t]
    BY <1>1, <1>6
  <2>4. tries \in Nat
    BY <1>1, TaskFields
  <2> HIDE DEF tries
  <2>2. t \in Task /\ t.at = "lock"
        /\ \A f \in {"op", "path", "to", "note", "keys", "from", "ref", "linked"} : t[f] = act[a][f]
    BY <1>1, <2>4 DEF Task, Phases
  <2> HIDE DEF t
  <2>3. Others(a) /\ act'[a] = t
    BY <1>1, <2>1, <2>2 DEF Others
  <2> QED
    BY <1>1, <1>2, <1>6, <2>2, <2>3 DEF Stays, Same
<1>7. CASE Ends(a, "busy") /\ rows' = Left(rows, Unsettled({a}))
  BY <1>1, <1>2, <1>7, KeptLeft, RefusedIs
<1>8. CASE /\ Stands(a) /\ act[a].op = "edit" /\ Ends(a, "done")
           /\ Change(n, [rows[n] EXCEPT !.links = @ \cup {Link(act[a].to, Meaning(act[a].to))}])
  <2> DEFINE link == Link(act[a].to, Meaning(act[a].to))
             new == [rows[n] EXCEPT !.links = @ \cup {link}]
             k == call[a]
  <2>1. act[a].to \in Paths /\ k \in Calls /\ k.op = "edit" /\ k.path = act[a].path /\ k.to = act[a].to
    BY <1>3, <1>8, RightNow
  <2>2. link \in Links /\ link.to = act[a].to
    <3>1. Meaning(act[a].to) \in Notes \cup {"none"}
      BY DEF Meaning, NoteAt, Taken
    <3> QED
      BY <2>1, <3>1 DEF Link, Links
  <2> HIDE DEF link
  <2>3. /\ new \in Row /\ new.at = rows[n].at /\ new.path = rows[n].path /\ new.links = rows[n].links \cup {link}
    BY <1>1, <2>2, Typed DEF Row
  <2>4. Targets(new.links) = Targets(rows[n].links) \cup {act[a].to}
    BY <2>2, <2>3 DEF Targets
  <2>5. Change(n, new)
    BY <1>8 DEF link
  <2> HIDE DEF new
  <2>6. /\ rows' \in [Notes -> Row]
        /\ Vault' = [Vault EXCEPT ![n] = [at |-> rows[n].at, path |-> rows[n].path,
                                          links |-> Targets(rows[n].links) \cup {act[a].to}]]
    BY <1>1, <2>3, <2>4, <2>5, ChangeSeen, Typed
  <2>7. Vault[n].links = Targets(rows[n].links)
    BY <1>1, VaultRow
  <2>15. Vault' = [Vault EXCEPT ![n].links = Targets(rows[n].links) \cup {act[a].to}]
    BY <1>1, <2>6, VaultLinks
  <2>8. Vault' = [Vault EXCEPT ![n].links = @ \cup {k.to}]
    BY <2>1, <2>7, <2>15
  <2>9. Directory!LiveAt(n, k.path)
    BY <1>1, <1>8, <2>1, VaultIs DEF Stands
  <2>10. Directory!Effect(k, n)
    BY <2>1, <2>8, <2>9 DEF Directory!Effect
  <2>11. Vault'[n].path = rows[n].path
    BY <1>1, <2>6 DEF Vault, Seen
  <2>12. homes' = [homes EXCEPT ![n] = @ \cup {Vault'[n].path}]
    BY <1>1, <1>2, <2>11, HomesStay
  <2>13. \A d \in Clients : act[d].at = "found" => act[d].seen # n
    BY <1>1, Typed DEF Locked, At
  <2>14. Takes(a)
    BY <1>1, <2>6, <2>10, <2>12, <2>13 DEF Takes
  <2> QED
    BY <1>1, <1>2, <1>3, <1>8, <2>14, PerformedIs
<1>9. CASE /\ Stands(a) /\ act[a].op = "relink"
           /\ Change(n, [rows[n] EXCEPT !.links = Refactored(rows[n].links, IF n = act[a].ref THEN act[a].note ELSE "none",
                                                             act[a].linked, act[a].to)])
           /\ IF n = act[a].ref
              THEN /\ act' = [act EXCEPT ![a].at = "settle", ![a].keys = <<act[a].to>>, ![a].path = 0]
                   /\ queue' = Enqueued(Released(a), a, act[a].to) /\ UNCHANGED <<call, reply>>
              ELSE NextRound(a, act[a].linked)
  <2>1. Live(n) /\ (IF n = act[a].ref THEN act[a].note ELSE "none") \in Notes \cup {"none"}
    BY <1>4, <1>9 DEF Stands, LiveAt
  <2>2. Relinks(a)
    BY <1>1, <1>4, <1>9, <2>1, RelinksIs
  <2>3. CASE n # act[a].ref
    BY <1>1, <1>2, <1>4, <1>9, <2>2, <2>3, RoundIs
  <2>4. CASE n = act[a].ref
    <3> DEFINE t == [act[a] EXCEPT !.at = "settle", !.keys = <<act[a].to>>, !.path = 0]
    <3>1. act' = [act EXCEPT ![a] = t]
      BY <1>1, <1>9, <2>4
    <3>2. <<act[a].to>> \in Keys
      BY <1>4, <1>9 DEF Keys
    <3>3. /\ t \in Task /\ t.at = "settle" /\ t.op = "relink" /\ t.keys = <<act[a].to>> /\ t.to = act[a].to
          /\ t.ref = act[a].ref /\ t.linked = act[a].linked /\ t.note = act[a].note /\ t.from = act[a].from
      BY <1>1, <1>9, <3>2 DEF Task, Phases
    <3> HIDE DEF t
    <3>4. Others(a) /\ act'[a] = t
      BY <1>1, <3>1, <3>3 DEF Others
    <3> QED
      BY <1>1, <1>2, <1>9, <2>2, <2>4, <3>3, <3>4 DEF Settles, Same
  <2> QED
    BY <2>3, <2>4
<1> QED
  BY <1>1, <1>5, <1>6, <1>7, <1>8, <1>9 DEF Edit, Op

LEMMA FindKind ==
  ASSUME LInv, NEW c \in Clients, Find(c)
  PROVE  Refused(c) \/ Stays(c)
<1> DEFINE n == act[c].seen
<1>1. /\ c \in Actors /\ act \in [Actors -> Task] /\ act[c] \in Task /\ TaskOK(c, act[c])
      /\ act[c].at = "tx" /\ HoldsAll(c) /\ ~At(c, "idle") /\ act[c].op = "rename" /\ ~Locked(n)
      /\ act[c].op \in ByPath
  BY Typed, HeldAtWork DEF Find, At, Op, ByPath
<1>2. UNCHANGED <<rows, jobs, homes>>
  BY DEF Find
<1>3. CASE Stands(c)
  <2> DEFINE refs == Referrers(n, act[c].path)
             t == [act[c] EXCEPT !.at = "found", !.refs = refs]
  <2>1. act' = [act EXCEPT ![c] = t] /\ UNCHANGED <<queue, call, reply>>
    BY <1>1, <1>3 DEF Find
  <2>2. refs \in SUBSET Notes
    BY DEF Referrers
  <2> HIDE DEF refs
  <2>3. t \in Task /\ t.at = "found" /\ t.seen = act[c].seen
        /\ \A f \in {"op", "path", "to", "note", "keys", "from", "ref", "linked"} : t[f] = act[c][f]
    BY <1>1, <2>2 DEF Task, Phases
  <2> HIDE DEF t
  <2>4. Others(c) /\ act'[c] = t
    BY <1>1, <2>1, <2>3 DEF Others
  <2>5. LiveAt(act[c].seen, act[c].path)
    BY <1>3 DEF Stands
  <2> QED
    BY <1>1, <1>2, <2>1, <2>3, <2>4, <2>5 DEF Stays, Same
<1>4. CASE ~Stands(c)
  <2>1. Ends(c, "missing")
    BY <1>4 DEF Find
  <2>2. "missing" \in could[c]
    BY <1>1, <1>4 DEF LInv, StandsOK, Stands
  <2> QED
    BY <1>1, <1>2, <2>1, <2>2, Kept, RefusedIs
<1> QED
  BY <1>3, <1>4

LEMMA MoveKind ==
  ASSUME LInv, NEW c \in Clients, Move(c)
  PROVE  Refused(c) \/ Performed(c) \/ Moved(c)
<1> DEFINE n == act[c].seen
           to == act[c].to
           path == act[c].path
           links == Refactored(rows[n].links, n, path, to)
           moved == [rows[n] EXCEPT !.path = to, !.seq = @ + 1, !.links = links]
           as == Directory!Rewritten(Targets(rows[n].links), path, to)
           k == call[c]
<1>1. /\ c \in Actors /\ act \in [Actors -> Task] /\ act[c] \in Task /\ TaskOK(c, act[c])
      /\ act[c].at = "found" /\ HoldsAll(c) /\ ~At(c, "idle") /\ act[c].op = "rename" /\ act[c].op \in ByPath
  BY Typed, HeldAtWork DEF Move, At, Op, ByPath, TaskOK, TaskShape, TaskNames
<1>2. /\ n \in Notes /\ LiveAt(n, path) /\ to \in Paths /\ path \in Paths
      /\ k \in Calls /\ k.op = "rename" /\ k.path = path /\ k.to = to
  BY <1>1, RightNow DEF LInv, StandsOK, TaskOK, TaskShape, TaskNames, Written
<1>3. CASE Clashes(to)
  <2>1. Ends(c, "exists") /\ UNCHANGED <<rows, homes, jobs>>
    BY <1>3 DEF Move
  <2>2. "exists" \in could[c]
    BY <1>1, <1>3, RightNow DEF Clashes
  <2> QED
    BY <1>1, <2>1, <2>2, Kept, RefusedIs
<1>4. CASE ~Clashes(to)
  <2> DEFINE left == {<<r, Link(path, n)>> : r \in {m \in Notes \ {n} : rows[m].at = "trash"}}
             job == [id |-> <<n, moved.seq>>, note |-> n, from |-> path, refs |-> act[c].refs, lease |-> "held"]
  <2>1. rows' = Left([rows EXCEPT ![n] = moved], left) /\ homes' = [homes EXCEPT ![n] = @ \cup {to}]
    BY <1>4 DEF Move
  <2>2. /\ rows \in [Notes -> Row] /\ rows[n] \in Row /\ rows[n].links \in SUBSET Links /\ rows[n].seq \in Nat
        /\ rows[n].at = "live"
    BY <1>2, Typed DEF Row, LiveAt, Live
  <2>3. links \in SUBSET Links /\ Targets(links) = as
    BY <1>2, <2>2, RefactoredTargets
  <2>4. /\ moved \in Row /\ moved.at = rows[n].at /\ moved.path = to /\ moved.links = links /\ moved.seq \in Nat
    <3> HIDE DEF links
    <3>1. rows[n].seq + 1 \in Nat
      BY <2>2
    <3> QED
      BY <1>2, <2>2, <2>3, <3>1 DEF Row
  <2> HIDE DEF left, moved, links, as
  <2>5. /\ [rows EXCEPT ![n] = moved] \in [Notes -> Row]
        /\ Seen([rows EXCEPT ![n] = moved]) = [Vault EXCEPT ![n] = [at |-> rows[n].at, path |-> to, links |-> as]]
    <3>1. /\ [rows EXCEPT ![n] = moved] \in [Notes -> Row]
          /\ Seen([rows EXCEPT ![n] = moved])
               = [Vault EXCEPT ![n] = [at |-> moved.at, path |-> moved.path, links |-> Targets(moved.links)]]
      BY <1>2, <2>2, <2>4, SetSeen
    <3> QED
      BY <2>3, <2>4, <3>1
  <2>6. rows' \in [Notes -> Row] /\ Vault' = [Vault EXCEPT ![n] = [at |-> rows[n].at, path |-> to, links |-> as]]
    <3>1. Vault' = Seen(rows')
      BY DEF Vault, Seen
    <3> QED
      BY <2>1, <2>5, <3>1, LeftSeen
  <2>7. Vault'[n].path = to
    BY <1>2, <2>6 DEF Vault, Seen
  <2>8. Vault' = [Vault EXCEPT ![n] = [Vault[n] EXCEPT !.path = to, !.links = as]]
    <3> DEFINE before == Vault[n]
               new == [before EXCEPT !.path = to, !.links = as]
    <3>1. before = [at |-> rows[n].at, path |-> rows[n].path, links |-> Targets(rows[n].links)]
      BY <1>2, VaultRow
    <3>2. new = [before EXCEPT !.path = to, !.links = as]
      OBVIOUS
    <3> HIDE DEF before, new
    <3>3. new = [at |-> rows[n].at, path |-> to, links |-> as]
      BY <3>1, <3>2, Zenon
    <3> QED
      BY <2>6, <3>2, <3>3 DEF before
  <2>9. as = Directory!Rewritten(Vault[n].links, k.path, k.to)
    BY <1>2, VaultRow DEF as
  <2>10. Directory!LiveAt(n, k.path) /\ ~Directory!Taken(k.to)
    BY <1>2, <1>4, VaultIs DEF Clashes
  <2>11. Directory!Effect(k, n)
    BY <1>2, <2>8, <2>9, <2>10 DEF Directory!Effect
  <2>12. homes' = [homes EXCEPT ![n] = @ \cup {Vault'[n].path}]
    BY <2>1, <2>7
  <2>13. \A d \in Clients \ {c} : act[d].at = "found" => act[d].seen # n
    BY <1>1 DEF LInv, StandsOK
  <2>14. Takes(c)
    BY <1>2, <2>6, <2>11, <2>12, <2>13 DEF Takes
  <2>15. CASE act[c].refs = {}
    <3>1. Ends(c, "done") /\ UNCHANGED jobs
      BY <1>4, <2>15 DEF Move
    <3> QED
      BY <1>1, <2>14, <3>1, PerformedIs
  <2>16. CASE act[c].refs # {}
    <3> DEFINE t == [Idle EXCEPT !.at = "relink", !.op = "relink", !.note = n, !.job = job.id,
                                 !.from = path, !.refs = act[c].refs]
    <3>1. job.id = <<n, moved.seq>> /\ job.note = n /\ job.from = path
      OBVIOUS
    <3>2. act[c].refs \in SUBSET Notes /\ job.id \in Notes \X Nat /\ <<>> \in Keys
      BY <1>1, <1>2, <2>4, <3>1, TaskFields DEF Keys
    <3>3. job \in Job
      BY <1>2, <3>2 DEF Job
    <3>4. t = [Idle EXCEPT !.at = "relink", !.op = "relink", !.note = n, !.job = job.id,
                           !.from = path, !.refs = act[c].refs]
      OBVIOUS
    <3>5. jobs' = jobs \cup {job} /\ queue' = Released(c) /\ UNCHANGED <<call, reply>> /\ act' = [act EXCEPT ![c] = t]
      BY <1>4, <2>16 DEF Move, moved, links
    <3> HIDE DEF t, job
    <3>6. t = [at |-> "relink", op |-> "relink", path |-> 0, to |-> 0, note |-> n, keys |-> <<>>, seen |-> "none",
               seq |-> 0, tries |-> 0, job |-> job.id, from |-> path, refs |-> act[c].refs, ref |-> "none",
               linked |-> 0, rounds |-> 0, own |-> FALSE]
      BY <3>4, Zenon DEF Idle
    <3>7. t \in Task
      BY <1>2, <3>2, <3>6 DEF Task, Phases
    <3>8. t.at = "relink" /\ t.op = "relink" /\ t.keys = <<>> /\ t.ref = "none" /\ t.note = n /\ t.from = path
      BY <3>6
    <3>9. Others(c) /\ act'[c] = t
      BY <1>1, <3>5, <3>7 DEF Others
    <3> QED
      BY <1>1, <2>14, <3>1, <3>3, <3>5, <3>8, <3>9 DEF Moved, Lets
  <2> QED
    BY <2>15, <2>16
<1> QED
  BY <1>3, <1>4

LEMMA SoftDeleteKind ==
  ASSUME LInv, NEW c \in Clients, SoftDelete(c)
  PROVE  Refused(c) \/ Performed(c)
<1> DEFINE n == act[c].seen
           k == call[c]
<1>1. /\ c \in Actors /\ TaskOK(c, act[c])
      /\ act[c].at = "tx" /\ HoldsAll(c) /\ ~At(c, "idle") /\ act[c].op = "delete" /\ act[c].op \in ByPath /\ ~Locked(n)
  BY Typed, HeldAtWork DEF SoftDelete, At, Op, ByPath
<1>2. /\ n \in Notes /\ rows[n] \in Row /\ rows[n].at # "none" /\ act[c].path \in Paths
      /\ k \in Calls /\ k.op = "delete" /\ k.path = act[c].path
  BY <1>1, Typed, RightNow DEF TaskOK, TaskShape, TaskNames, Written
<1>3. UNCHANGED <<jobs, homes>>
  BY DEF SoftDelete
<1>4. CASE Stands(c)
  <2> DEFINE new == [rows[n] EXCEPT !.at = "trash"]
  <2>1. Change(n, new) /\ Ends(c, "done")
    BY <1>4 DEF SoftDelete
  <2>2. new \in Row /\ new.at = "trash" /\ new.path = rows[n].path /\ new.links = rows[n].links
    BY <1>2 DEF Row, Ats
  <2> HIDE DEF new
  <2>3. /\ rows' \in [Notes -> Row]
        /\ Vault' = [Vault EXCEPT ![n] = [at |-> "trash", path |-> rows[n].path, links |-> Targets(rows[n].links)]]
    <3>1. /\ rows' \in [Notes -> Row]
          /\ Vault' = [Vault EXCEPT ![n] = [at |-> new.at, path |-> new.path, links |-> Targets(new.links)]]
      BY <1>2, <2>1, <2>2, ChangeSeen, Typed
    <3> QED
      BY <2>2, <3>1
  <2>4. Vault' = [Vault EXCEPT ![n].at = "trash"]
    BY <1>2, <2>3, VaultAt
  <2>5. Directory!LiveAt(n, k.path)
    BY <1>2, <1>4, VaultIs DEF Stands
  <2>6. Directory!Effect(k, n)
    BY <1>2, <2>4, <2>5 DEF Directory!Effect
  <2>7. Vault'[n].path = rows[n].path
    BY <1>2, <2>3 DEF Vault, Seen
  <2>8. homes' = [homes EXCEPT ![n] = @ \cup {Vault'[n].path}]
    BY <1>2, <1>3, <2>7, HomesStay
  <2>9. \A d \in Clients : act[d].at = "found" => act[d].seen # n
    BY <1>1, Typed DEF Locked, At
  <2>10. Takes(c)
    BY <1>2, <2>3, <2>6, <2>8, <2>9 DEF Takes
  <2> QED
    BY <1>1, <1>3, <2>1, <2>10, PerformedIs
<1>5. CASE ~Stands(c)
  <2>1. Ends(c, "missing") /\ UNCHANGED rows
    BY <1>5 DEF SoftDelete
  <2>2. "missing" \in could[c]
    BY <1>1, <1>5 DEF LInv, StandsOK, Stands
  <2> QED
    BY <1>1, <1>3, <2>1, <2>2, Kept, RefusedIs
<1> QED
  BY <1>4, <1>5

LEMMA RestoreKind ==
  ASSUME LInv, NEW c \in Clients, Restore(c)
  PROVE  Refused(c) \/ Performed(c)
<1> DEFINE n == act[c].seen
           k == call[c]
<1>1. /\ c \in Actors /\ TaskOK(c, act[c])
      /\ act[c].at = "tx" /\ HoldsAll(c) /\ ~At(c, "idle") /\ act[c].op = "restore" /\ act[c].op \in ById
  BY Typed, HeldAtWork DEF Restore, At, Op, ById
<1>2. /\ n \in Notes /\ n = act[c].note /\ rows[n] \in Row /\ rows[n].at # "none" /\ rows[n].path \in Paths
      /\ k \in Calls /\ k.op = "restore" /\ k.note = n
  BY <1>1, Typed, RightNow DEF TaskOK, TaskShape, TaskNames, Written, LInv, StandsOK
<1>3. UNCHANGED <<jobs, homes>>
  BY DEF Restore
<1>4. CASE rows[n].at # "trash"
  <2>1. Ends(c, "missing") /\ UNCHANGED rows
    BY <1>4 DEF Restore
  <2>2. "missing" \in could[c]
    BY <1>1, <1>2, <1>4, RightNow
  <2> QED
    BY <1>1, <1>3, <2>1, <2>2, Kept, RefusedIs
<1>5. CASE rows[n].at = "trash" /\ Clashes(rows[n].path)
  <2>1. Ends(c, "exists") /\ UNCHANGED rows
    BY <1>5 DEF Restore
  <2>2. "exists" \in could[c]
    BY <1>1, <1>2, <1>5, RightNow DEF Clashes
  <2> QED
    BY <1>1, <1>3, <2>1, <2>2, Kept, RefusedIs
<1>6. CASE rows[n].at = "trash" /\ ~Clashes(rows[n].path)
  <2> DEFINE links == Unsure(rows[n].links)
             new == [rows[n] EXCEPT !.at = "live", !.links = links]
  <2>1. Change(n, new) /\ Ends(c, "done")
    BY <1>6 DEF Restore
  <2>2. rows[n].links \in SUBSET Links
    BY <1>2 DEF Row
  <2>3. links \in SUBSET Links /\ Targets(links) = Targets(rows[n].links)
    <3>1. \A l \in rows[n].links : l \in Links /\ Link(l.to, "none") \in Links /\ Link(l.to, "none").to = l.to
      BY <2>2 DEF Links, Link
    <3>2. links \in SUBSET Links
      BY <3>1 DEF Unsure
    <3>3. ASSUME NEW p PROVE p \in Targets(links) <=> p \in Targets(rows[n].links)
      BY <3>1 DEF Targets, Unsure
    <3> QED
      BY <3>2, <3>3
  <2> HIDE DEF links
  <2>4. new \in Row /\ new.at = "live" /\ new.path = rows[n].path /\ new.links = links
    BY <1>2, <2>3 DEF Row, Ats
  <2> HIDE DEF new
  <2>5. /\ rows' \in [Notes -> Row]
        /\ Vault' = [Vault EXCEPT ![n] = [at |-> "live", path |-> rows[n].path, links |-> Targets(rows[n].links)]]
    <3>1. /\ rows' \in [Notes -> Row]
          /\ Vault' = [Vault EXCEPT ![n] = [at |-> new.at, path |-> new.path, links |-> Targets(new.links)]]
      BY <1>2, <2>1, <2>4, ChangeSeen, Typed
    <3> QED
      BY <2>3, <2>4, <3>1
  <2>6. Vault' = [Vault EXCEPT ![n].at = "live"]
    BY <1>2, <2>5, VaultAt
  <2>7. Vault[n].at = "trash" /\ Vault[n].path = rows[n].path /\ ~Directory!Taken(rows[n].path)
    BY <1>2, <1>6, VaultIs, VaultRow DEF Clashes
  <2>8. Directory!Effect(k, n)
    BY <1>2, <2>6, <2>7 DEF Directory!Effect
  <2>9. Vault'[n].path = rows[n].path
    BY <1>2, <2>5 DEF Vault, Seen
  <2>10. homes' = [homes EXCEPT ![n] = @ \cup {Vault'[n].path}]
    BY <1>2, <1>3, <2>9, HomesStay
  <2>11. Takes(c)
    BY <1>2, <1>6, <2>5, <2>8, <2>10 DEF Takes, Live
  <2> QED
    BY <1>1, <1>3, <2>1, <2>11, PerformedIs
<1> QED
  BY <1>4, <1>5, <1>6

LEMMA PurgeKind ==
  ASSUME LInv, NEW c \in Clients, Purge(c)
  PROVE  Refused(c) \/ Performed(c)
<1> DEFINE n == act[c].seen
           k == call[c]
<1>1. /\ c \in Actors /\ TaskOK(c, act[c])
      /\ act[c].at = "tx" /\ HoldsAll(c) /\ ~At(c, "idle") /\ act[c].op = "purge" /\ act[c].op \in ById
  BY Typed, HeldAtWork DEF Purge, At, Op, ById
<1>2. /\ n \in Notes /\ n = act[c].note /\ rows[n] \in Row /\ rows[n].at # "none"
      /\ k \in Calls /\ k.op = "purge" /\ k.note = n
  BY <1>1, Typed, RightNow DEF TaskOK, TaskShape, TaskNames, Written, LInv, StandsOK
<1>3. UNCHANGED <<jobs, homes>>
  BY DEF Purge
<1>4. CASE rows[n].at # "trash"
  <2>1. Ends(c, "missing") /\ UNCHANGED rows
    BY <1>4 DEF Purge
  <2>2. "missing" \in could[c]
    BY <1>1, <1>2, <1>4, RightNow
  <2> QED
    BY <1>1, <1>3, <2>1, <2>2, Kept, RefusedIs
<1>5. CASE rows[n].at = "trash"
  <2> DEFINE new == [rows[n] EXCEPT !.at = "gone"]
  <2>1. Change(n, new) /\ Ends(c, "done")
    BY <1>5 DEF Purge
  <2>2. new \in Row /\ new.at = "gone" /\ new.path = rows[n].path /\ new.links = rows[n].links
    BY <1>2 DEF Row, Ats
  <2> HIDE DEF new
  <2>3. /\ rows' \in [Notes -> Row]
        /\ Vault' = [Vault EXCEPT ![n] = [at |-> "gone", path |-> rows[n].path, links |-> Targets(rows[n].links)]]
    <3>1. /\ rows' \in [Notes -> Row]
          /\ Vault' = [Vault EXCEPT ![n] = [at |-> new.at, path |-> new.path, links |-> Targets(new.links)]]
      BY <1>2, <2>1, <2>2, ChangeSeen, Typed
    <3> QED
      BY <2>2, <3>1
  <2>4. Vault' = [Vault EXCEPT ![n].at = "gone"]
    BY <1>2, <2>3, VaultAt
  <2>5. Vault[n].at = "trash"
    BY <1>2, <1>5, VaultNext
  <2>6. Directory!Effect(k, n)
    BY <1>2, <2>4, <2>5 DEF Directory!Effect
  <2>7. Vault'[n].path = rows[n].path
    BY <1>2, <2>3 DEF Vault, Seen
  <2>8. homes' = [homes EXCEPT ![n] = @ \cup {Vault'[n].path}]
    BY <1>2, <1>3, <2>7, HomesStay
  <2>9. Takes(c)
    BY <1>2, <1>5, <2>3, <2>6, <2>8 DEF Takes, Live
  <2> QED
    BY <1>1, <1>3, <2>1, <2>9, PerformedIs
<1> QED
  BY <1>4, <1>5

LEMMA LookKind ==
  ASSUME LInv, NEW a \in Actors, NEW r \in Notes, Look(a, r)
  PROVE  Again(a) \/ Looked(a)
<1> DEFINE n == act[a].note
           first == act[a].ref = "none"
           p == IF first THEN act[a].from ELSE act[a].linked
           refs == act[a].refs \ {r}
           task == [act[a] EXCEPT !.ref = r, !.linked = p, !.refs = @ \ {r}]
           nothingToDo == \/ rows[n].at = "gone" \/ rows[n].path = p \/ ~Live(r)
                          \/ \A l \in rows[r].links : l.to # p
<1>1. /\ act \in [Actors -> Task] /\ act[a] \in Task /\ TaskOK(a, act[a]) /\ act[a].at = "relink" /\ act[a].op = "relink"
      /\ act[a].keys = <<>> /\ HoldsAll(a) /\ refs \in SUBSET Notes
  BY Typed, HeldAtWork, TaskFields DEF Look, At, TaskOK, TaskShape, TaskNames
<1>2. /\ n \in Notes /\ rows[n].at # "none" /\ rows[n].path \in Paths /\ rows[n].path \in homes[n]
      /\ p \in Paths /\ p \in homes[n]
  BY <1>1, Typed DEF TaskOK, TaskShape, TaskNames, Written, LInv, HomesOK
<1>3. UNCHANGED <<jobs, homes>>
  BY DEF Look
<1>4. CASE nothingToDo \/ act[a].rounds = RelinkRounds
  <2>1. task.refs = refs /\ task.rounds = act[a].rounds
    BY <1>1 DEF Task
  <2>2. NextReferrer(a, refs)
    BY <1>4, <2>1 DEF Look
  <2>3. rows' = IF ~Live(r) \/ act[a].rounds = RelinkRounds THEN Left(rows, {<<r, Link(p, n)>>}) ELSE rows
    BY <1>4, <2>1 DEF Look
  <2>4. Keeps
    BY <2>3, Kept, KeptLeft
  <2> QED
    BY <1>1, <1>3, <2>2, <2>4, ReferIs
<1>5. CASE ~(nothingToDo \/ act[a].rounds = RelinkRounds)
  <2> DEFINE to == rows[n].path
             path == rows[r].path
             t == [task EXCEPT !.at = "lock", !.path = path, !.to = to, !.keys = <<path>>]
  <2>1. task.rounds = act[a].rounds
    BY <1>1 DEF Task
  <2>2. act' = [act EXCEPT ![a] = t] /\ queue' = Enqueued(queue, a, path) /\ UNCHANGED <<rows, call, reply>>
    BY <1>5, <2>1 DEF Look
  <2>3. Live(r) /\ path \in Paths /\ <<path>> \in Keys
    BY <1>5, Typed DEF Live, Keys
  <2>4. task \in Task /\ task.ref = r /\ task.linked = p /\ task.op = "relink" /\ task.note = n /\ task.from = act[a].from
    <3>1. task = [act[a] EXCEPT !.ref = r, !.linked = p, !.refs = refs]
      BY <1>1
    <3> HIDE DEF refs, p
    <3> QED
      BY <1>1, <1>2, <3>1 DEF Task
  <2> HIDE DEF task
  <2>5. t \in Task /\ t.at = "lock" /\ t.path = path /\ t.to = to /\ t.keys = <<path>>
        /\ t.ref = r /\ t.linked = p /\ t.op = "relink" /\ t.note = n /\ t.from = act[a].from
    <3> HIDE DEF to, path, p
    <3>1. to \in Paths
      BY <1>2 DEF to
    <3> QED
      BY <2>3, <2>4, <3>1 DEF Task, Phases
  <2> HIDE DEF t
  <2>6. Others(a) /\ act'[a] = t
    BY <1>1, <2>2, <2>5 DEF Others
  <2>7. Enters(a)
    BY <1>1, <2>2, <2>3, <2>5, <2>6 DEF Enters
  <2> QED
    BY <1>1, <1>2, <1>3, <2>2, <2>5, <2>6, <2>7, Kept DEF Looked, Same
<1> QED
  BY <1>4, <1>5

LEMMA SettleKind ==
  ASSUME LInv, NEW a \in Actors, Settle(a)
  PROVE  Again(a)
<1>1. /\ act[a] \in Task /\ TaskOK(a, act[a]) /\ act[a].at = "settle" /\ act[a].op = "relink" /\ HoldsAll(a)
      /\ act[a].refs \in SUBSET Notes /\ UNCHANGED <<rows, jobs, homes>>
  BY Typed, TaskFields DEF Settle, At, TaskOK, TaskShape, TaskNames
<1>2. act[a].to \in Paths /\ act[a].to \in homes[act[a].note]
  BY <1>1 DEF TaskOK, TaskShape, TaskNames, LInv, HomesOK
<1>3. CASE NextReferrer(a, act[a].refs)
  BY <1>1, <1>3, Kept, ReferIs
<1>4. CASE NextRound(a, act[a].to)
  BY <1>1, <1>2, <1>4, Kept, RoundIs
<1> QED
  BY <1>3, <1>4 DEF Settle

LEMMA TooLargeKind ==
  ASSUME LInv, NEW a \in Actors, TooLarge(a)
  PROVE  Again(a)
<1>1. /\ act[a] \in Task /\ act[a].at = "tx" /\ act[a].op = "relink" /\ HoldsAll(a)
      /\ act[a].refs \in SUBSET Notes /\ UNCHANGED <<jobs, homes>>
  BY Typed, TaskFields, HeldAtWork DEF TooLarge, At, Op
<1>2. NextReferrer(a, act[a].refs) /\ Keeps
  BY KeptLeft DEF TooLarge
<1> QED
  BY <1>1, <1>2, ReferIs

LEMMA CompleteKind ==
  ASSUME LInv, NEW a \in Actors, Complete(a)
  PROVE  Refused(a)
<1>1. TaskOK(a, act[a]) /\ act[a].at = "relink" /\ act[a].op = "relink" /\ HoldsAll(a) /\ ~At(a, "idle")
  BY Typed, HeldAtWork DEF Complete, At, TaskOK, TaskShape, TaskNames
<1>2. Ends(a, "done") /\ UNCHANGED <<rows, homes>> /\ jobs' \subseteq jobs
  BY DEF Complete
<1> QED
  BY <1>1, <1>2, Kept, RefusedIs

LEMMA BusyKind ==
  ASSUME LInv, NEW a \in Actors, Busy(a)
  PROVE  Refused(a)
<1>1. ~At(a, "idle") /\ HoldsAll(a) /\ Ends(a, "busy") /\ UNCHANGED <<jobs, homes>> /\ Keeps
  BY KeptLeft DEF Busy
<1> QED
  BY <1>1, RefusedIs

LEMMA HandedKind ==
  ASSUME LInv, NEW j \in jobs, LeaseEnds(j) \/ \E s \in Servers : Resume(s, j)
  PROVE  Handed
<1>1. jobs \in SUBSET Job /\ j \in Job
  BY DEF LInv, IInv, JobsOK
<1>2. ASSUME NEW lease \in {"held", "past"}, jobs' = (jobs \ {j}) \cup {[j EXCEPT !.lease = lease]}
      PROVE  jobs' \in SUBSET Job /\ \A k \in jobs' : \E i \in jobs : i.note = k.note /\ i.from = k.from
  <2> DEFINE new == [j EXCEPT !.lease = lease]
  <2>1. new \in Job /\ new.note = j.note /\ new.from = j.from
    BY <1>1 DEF Job
  <2> HIDE DEF new
  <2>2. jobs' = (jobs \ {j}) \cup {new}
    BY <1>2 DEF new
  <2> QED
    BY <1>1, <2>1, <2>2
<1>3. CASE LeaseEnds(j)
  <2>1. jobs' = (jobs \ {j}) \cup {[j EXCEPT !.lease = "past"]} /\ UNCHANGED <<rows, queue, act, homes, call, reply>>
    BY <1>3 DEF LeaseEnds
  <2> QED
    BY <1>2, <2>1 DEF Handed, Same
<1>4. ASSUME NEW s \in Servers, Resume(s, j) PROVE Handed
  <2>1. /\ At(s, "idle") /\ jobs' = (jobs \ {j}) \cup {[j EXCEPT !.lease = "held"]}
        /\ UNCHANGED <<rows, queue, homes, call, reply>>
    BY <1>4 DEF Resume
  <2> DEFINE t == [Idle EXCEPT !.at = "relink", !.op = "relink", !.note = j.note, !.job = j.id,
                               !.from = j.from, !.refs = j.refs]
  <2>2. t = [Idle EXCEPT !.at = "relink", !.op = "relink", !.note = j.note, !.job = j.id,
                         !.from = j.from, !.refs = j.refs]
    OBVIOUS
  <2>3. act' = [act EXCEPT ![s] = t]
    BY <1>4 DEF Resume
  <2> HIDE DEF t
  <2>4. t = [at |-> "relink", op |-> "relink", path |-> 0, to |-> 0, note |-> j.note, keys |-> <<>>, seen |-> "none",
             seq |-> 0, tries |-> 0, job |-> j.id, from |-> j.from, refs |-> j.refs, ref |-> "none",
             linked |-> 0, rounds |-> 0, own |-> FALSE]
    BY <2>2, Zenon DEF Idle
  <2>5. j.note \in Notes /\ j.id \in Notes \X Nat /\ j.from \in Paths /\ j.refs \in SUBSET Notes /\ <<>> \in Keys
    BY <1>1 DEF Job, Keys
  <2>6. t \in Task
    BY <2>4, <2>5 DEF Task, Phases
  <2>7. t.at = "relink" /\ t.op = "relink" /\ t.keys = <<>> /\ t.ref = "none" /\ t.note = j.note /\ t.from = j.from
    BY <2>4
  <2>8. Others(s) /\ act'[s] = t
    BY <2>3, <2>6, Typed DEF Others
  <2> QED
    BY <1>2, <2>1, <2>7, <2>8 DEF Handed, Same
<1> QED
  BY <1>3, <1>4

LEMMA StepKinds ==
  ASSUME LInv, Steps
  PROVE  Kinds
<1>1. ASSUME NEW c \in Clients, Operation(c) PROVE Kinds
  BY <1>1, SeekKind, FindKind, MoveKind, SoftDeleteKind, RestoreKind, PurgeKind, CreateKind, Typed DEF Operation, Kinds
<1>2. ASSUME NEW c \in Clients, NEW k \in Calls, Call(c, k) PROVE Kinds
  BY <1>2, CallKind DEF Kinds
<1>3. ASSUME NEW a \in Actors, Write(a) PROVE Kinds
  <2>1. CASE SecondKey(a)
    BY <2>1 DEF Kinds, Asks, SecondKey, At
  <2>2. CASE Edit(a)
    <3>1. CASE Performed(a)
      BY <3>1 DEF Kinds, Performed
    <3> QED
      BY <2>2, <3>1, EditKind DEF Kinds
  <2>3. CASE Read(a) \/ Settle(a) \/ TooLarge(a) \/ Complete(a) \/ \E r \in Notes : Look(a, r)
    BY <2>3, ReadKind, SettleKind, TooLargeKind, CompleteKind, LookKind DEF Kinds
  <2> QED
    BY <1>3, <2>1, <2>2, <2>3 DEF Write
<1>4. ASSUME NEW a \in Actors, Busy(a) PROVE Kinds
  BY <1>4, BusyKind DEF Kinds
<1>5. ASSUME NEW j \in jobs, LeaseEnds(j) \/ \E s \in Servers : Resume(s, j) PROVE Kinds
  BY <1>5, HandedKind DEF Kinds
<1>6. ASSUME NEW s \in fleet, Crash(s) PROVE Kinds
  BY <1>6 DEF Kinds, Died, LInv, IInv, RunsOK
<1> QED
  BY <1>1, <1>2, <1>3, <1>4, <1>5, <1>6 DEF Steps
-----------------------------------------------------------------------------
(* What a step of each kind does to the vault *)

LEMMA RestsAll ==
  ASSUME LInv, Keeps
  PROVE  VaultStep
<1>1. \A n \in Notes : rows'[n].at = rows[n].at /\ rows'[n].path = rows[n].path
  BY VaultNext DEF Keeps
<1> QED
  BY <1>1 DEF Keeps, VaultStep, Rests

LEMMA RestsRelinked ==
  ASSUME LInv, NEW a \in Actors, Relinks(a)
  PROVE  VaultStep
<1>1. PICK r \in Notes : \E from, to \in homes[act[a].note] :
        Vault' = [Vault EXCEPT ![r].links = Directory!Rewritten(@, from, to)]
  BY DEF Relinks
<1>2. PICK links : Vault' = [Vault EXCEPT ![r].links = links]
  BY <1>1
<1>3. Vault'[r] = [Vault[r] EXCEPT !.links = links] /\ \A n \in Notes \ {r} : Vault'[n] = Vault[n]
  BY <1>2 DEF Vault, Seen
<1>4. \A n \in Notes : Vault'[n].at = Vault[n].at /\ Vault'[n].path = Vault[n].path
  BY <1>3, VaultRow
<1>5. \A n \in Notes : rows'[n].at = rows[n].at /\ rows'[n].path = rows[n].path
  BY <1>4, VaultNext
<1> QED
  BY <1>5 DEF Relinks, VaultStep, Rests

LEMMA TakesTurn ==
  ASSUME LInv, NEW c \in Clients, act[c].op \in ByPath \cup ById, Takes(c)
  PROVE  /\ VaultStep
         /\ \E n \in Notes : /\ Turns(call[c], n) /\ homes' = [homes EXCEPT ![n] = @ \cup {rows'[n].path}]
                             /\ Live(n) => \A d \in Clients \ {c} : act[d].at = "found" => act[d].seen # n
                             /\ Directory!Effect(call[c], n) /\ homes' = [homes EXCEPT ![n] = @ \cup {Vault'[n].path}]
<1>1. call[c] \in Calls
  BY RightNow
<1>2. RowsOK
  BY DEF LInv, IInv
<1>3. PICK n \in Notes : /\ Directory!Effect(call[c], n) /\ homes' = [homes EXCEPT ![n] = @ \cup {Vault'[n].path}]
                         /\ Live(n) => \A d \in Clients \ {c} : act[d].at = "found" => act[d].seen # n
  BY DEF Takes
<1>4. Turns(call[c], n)
  BY <1>1, <1>2, <1>3, EffectTurns
<1>5. Vault'[n].path = rows'[n].path
  BY VaultNext
<1> QED
  BY <1>1, <1>3, <1>4, <1>5 DEF Takes, VaultStep

LEMMA CrashIs ==
  ASSUME LInv, NEW s \in Servers, Died(s)
  PROVE  /\ Keeps
         /\ act' \in [Actors -> Task]
         /\ \A a \in Actors : act'[a] = IF Server(a) = s THEN Idle ELSE act[a]
         /\ queue' = [queue EXCEPT ![s] = [p \in Paths |-> <<>>]]
         /\ call' = [c \in Clients |-> IF Server(c) = s THEN NoCall ELSE call[c]]
         /\ reply' = [c \in Clients |-> IF Server(c) = s /\ ~At(c, "idle") THEN "lost" ELSE reply[c]]
         /\ UNCHANGED <<jobs, homes>>
<1> DEFINE dead == {a \in Actors : Server(a) = s}
<1>1. /\ act' = [a \in Actors |-> IF a \in dead THEN Idle ELSE act[a]]
      /\ queue' = [queue EXCEPT ![s] = [p \in Paths |-> <<>>]]
      /\ call' = [c \in Clients |-> IF c \in dead THEN NoCall ELSE call[c]]
      /\ reply' = [c \in Clients |-> IF c \in dead /\ ~At(c, "idle") THEN "lost" ELSE reply[c]]
      /\ rows' = Left(rows, Unsettled(dead))
      /\ UNCHANGED <<jobs, homes>>
  BY DEF Died, Crash
<1>2. \A c \in Clients : c \in dead <=> Server(c) = s
  BY DEF Actors
<1>3. Keeps
  BY <1>1, KeptLeft
<1>4. act' \in [Actors -> Task] /\ \A a \in Actors : act'[a] = IF Server(a) = s THEN Idle ELSE act[a]
  BY <1>1, Typed
<1> QED
  BY <1>1, <1>2, <1>3, <1>4

LEMMA KindVault ==
  ASSUME LInv, Kinds
  PROVE  VaultStep
<1>1. ASSUME NEW a \in Actors, Refused(a) \/ Again(a) \/ Settles(a) \/ Looked(a) \/ Asks(a) \/ Stays(a) PROVE VaultStep
  <2>1. CASE Refused(a) \/ Looked(a)
    BY <2>1, RestsAll DEF Refused, Looked
  <2>2. CASE Asks(a) \/ Stays(a)
    BY <2>2, RestsAll, Kept DEF Asks, SecondKey, Stays
  <2>3. CASE Again(a) \/ Settles(a)
    BY <2>3, RestsAll, RestsRelinked DEF Again, Settles
  <2> QED
    BY <1>1, <2>1, <2>2, <2>3
<1>2. ASSUME NEW c \in Clients, Performed(c) \/ Moved(c) PROVE VaultStep
  <2>1. act[c].op \in ByPath \cup ById /\ Takes(c)
    BY <1>2, Typed DEF Performed, Moved, TaskOK, TaskShape, TaskNames, ByPath
  <2> QED
    BY <2>1, TakesTurn
<1>3. ASSUME NEW c \in Clients, Sought(c) \/ \E k \in Calls : Called(c, k) PROVE VaultStep
  BY <1>3, RestsAll, Kept DEF Sought, Called
<1>4. ASSUME Handed PROVE VaultStep
  BY <1>4, RestsAll, Kept DEF Handed
<1>5. ASSUME NEW s \in Servers, Died(s) PROVE VaultStep
  BY <1>5, RestsAll, CrashIs
<1> QED
  BY <1>1, <1>2, <1>3, <1>4, <1>5 DEF Kinds
-----------------------------------------------------------------------------
(* The tasks stay in order *)

LEMMA IdleShape ==
  ASSUME NEW a
  PROVE  TaskShape(a, Idle) /\ Idle.op = "none" /\ Idle.at = "idle" /\ Idle.keys = <<>>
BY DEF TaskShape, Idle, ByPath, ById

LEMMA TasksStep ==
  ASSUME LInv, Kinds
  PROVE  TasksOK'
<1>1. /\ act \in [Actors -> Task]
      /\ \A a \in Actors : act[a] \in Task /\ TaskShape(a, act[a]) /\ TaskNames(act[a])
      /\ \A n \in Notes : Written(n) => Written(n)'
      /\ \A c \in Clients : c \in Actors
      /\ \A s \in Servers : s \in Actors
  BY Typed, KindVault, RowsStep DEF TaskOK, LInv, IInv
<1> DEFINE Fine(a) == /\ TaskShape(a, act'[a])
                      /\ act'[a].at \in {"tx", "found"} => act'[a].seen \in Notes /\ rows'[act'[a].seen].at # "none"
                      /\ act'[a].op = "relink" => act'[a].note \in Notes /\ rows'[act'[a].note].at # "none"
<1>2. ASSUME NEW a \in Actors, act'[a] = act[a] PROVE Fine(a)
  BY <1>1, <1>2 DEF TaskNames, Written
<1>3. ASSUME NEW a \in Actors, act'[a] = Idle PROVE Fine(a)
  BY <1>3, IdleShape
<1>4. SUFFICES act' \in [Actors -> Task] /\ \A a \in Actors : Fine(a)
  BY DEF TasksOK, TaskOK, TaskNames, Written
<1>5. ASSUME NEW a \in Actors, Others(a), Fine(a) PROVE act' \in [Actors -> Task] /\ \A b \in Actors : Fine(b)
  BY <1>2, <1>5 DEF Others
<1>6. CASE \E a \in Actors : Refused(a) \/ Again(a) \/ Settles(a) \/ Looked(a) \/ Asks(a) \/ Stays(a)
  <2>1. PICK a \in Actors : Refused(a) \/ Again(a) \/ Settles(a) \/ Looked(a) \/ Asks(a) \/ Stays(a)
    BY <1>6
  <2>2. TaskShape(a, act[a]) /\ TaskNames(act[a])
    BY <1>1
  <2>3. CASE Refused(a)
    BY <1>3, <1>5, <2>3 DEF Refused
  <2>4. CASE Again(a)
    <3>1. /\ Others(a) /\ act[a].op = "relink" /\ act'[a].at = "relink" /\ act'[a].op = "relink" /\ act'[a].keys = <<>>
          /\ act'[a].note = act[a].note /\ act'[a].from = act[a].from
          /\ act'[a].ref # "none" => act'[a].linked \in homes[act[a].note]
      BY <2>4 DEF Again
    <3>2. act[a].note \in Notes /\ rows'[act[a].note].at # "none" /\ act[a].from \in Paths
      BY <1>1, <2>2, <3>1 DEF TaskShape, TaskNames, Written
    <3>3. homes[act[a].note] \in SUBSET Paths
      BY <3>2 DEF LInv, HomesOK
    <3>4. TaskShape(a, act'[a])
      BY <3>1, <3>2, <3>3 DEF TaskShape, ByPath, ById
    <3> QED
      BY <1>5, <3>1, <3>2, <3>4
  <2>5. CASE Settles(a)
    <3>1. /\ Others(a) /\ act[a].op = "relink" /\ act[a].at = "tx" /\ act'[a].at = "settle" /\ act'[a].op = "relink"
          /\ act'[a].keys = <<act[a].to>> /\ act'[a].to = act[a].to
          /\ act'[a].ref = act[a].ref /\ act'[a].linked = act[a].linked
          /\ act'[a].note = act[a].note /\ act'[a].from = act[a].from
      BY <2>5 DEF Settles
    <3>2. /\ act[a].note \in Notes /\ rows'[act[a].note].at # "none" /\ act[a].from \in Paths
          /\ act[a].ref \in Notes /\ act[a].to \in Paths /\ (act[a].ref # "none" => act[a].linked \in Paths)
      BY <1>1, <2>2, <3>1 DEF TaskShape, TaskNames, Written
    <3>4. TaskShape(a, act'[a])
      BY <3>1, <3>2 DEF TaskShape, ByPath, ById
    <3> QED
      BY <1>5, <3>1, <3>2, <3>4
  <2>6. CASE Looked(a)
    <3>1. /\ Others(a) /\ act[a].at = "relink" /\ act'[a].at = "lock" /\ act'[a].op = "relink" /\ act'[a].path \in Paths
          /\ act'[a].keys = <<act'[a].path>> /\ act'[a].ref \in Notes
          /\ act'[a].linked \in homes[act[a].note] /\ act'[a].to \in homes[act[a].note]
          /\ act'[a].note = act[a].note /\ act'[a].from = act[a].from
      BY <2>6 DEF Looked, Enters
    <3>2. act[a].note \in Notes /\ rows'[act[a].note].at # "none" /\ act[a].from \in Paths
      BY <1>1, <2>2, <3>1 DEF TaskShape, TaskNames, Written
    <3>3. homes[act[a].note] \in SUBSET Paths
      BY <3>2 DEF LInv, HomesOK
    <3>4. TaskShape(a, act'[a])
      BY <3>1, <3>2, <3>3 DEF TaskShape, ByPath, ById
    <3> QED
      BY <1>5, <3>1, <3>2, <3>4
  <2>7. CASE Asks(a)
    BY <1>1, <1>2, <2>7 DEF Asks, SecondKey
  <2>8. CASE Stays(a)
    <3>1. /\ Others(a) /\ act'[a].op = act[a].op /\ act'[a].path = act[a].path /\ act'[a].to = act[a].to
          /\ act'[a].note = act[a].note /\ act'[a].keys = act[a].keys /\ act'[a].from = act[a].from
          /\ act'[a].ref = act[a].ref /\ act'[a].linked = act[a].linked /\ rows' = rows
      BY <2>8 DEF Stays
    <3>2. \/ act[a].at = "lock" /\ act'[a].at = "tx" /\ act[a].op # "create" /\ Written(act'[a].seen)
          \/ act[a].at = "tx" /\ act'[a].at = "lock"
          \/ act[a].at = "tx" /\ act'[a].at = "found" /\ act[a].op = "rename" /\ act'[a].seen = act[a].seen
      BY <2>8 DEF Stays
    <3>3. KeysOf(act'[a]) = KeysOf(act[a])
      BY <3>1 DEF KeysOf
    <3>4. TaskShape(a, act'[a])
      BY <2>2, <3>1, <3>2, <3>3 DEF TaskShape, ByPath, ById
    <3>5. act'[a].at \in {"tx", "found"} => act'[a].seen \in Notes /\ rows'[act'[a].seen].at # "none"
      BY <2>2, <3>1, <3>2 DEF TaskNames, Written
    <3>6. act'[a].op = "relink" => act'[a].note \in Notes /\ rows'[act'[a].note].at # "none"
      BY <2>2, <3>1 DEF TaskNames, Written
    <3> QED
      BY <1>5, <3>1, <3>4, <3>5, <3>6
  <2> QED
    BY <2>1, <2>3, <2>4, <2>5, <2>6, <2>7, <2>8
<1>7. ASSUME NEW c \in Clients, Performed(c) PROVE act' \in [Actors -> Task] /\ \A a \in Actors : Fine(a)
  BY <1>1, <1>3, <1>5, <1>7 DEF Performed
<1>8. ASSUME NEW c \in Clients, Moved(c) PROVE act' \in [Actors -> Task] /\ \A a \in Actors : Fine(a)
  <2>1. /\ Others(c) /\ act[c].at = "found" /\ act'[c].at = "relink" /\ act'[c].op = "relink" /\ act'[c].keys = <<>>
        /\ act'[c].ref = "none" /\ act'[c].note = act[c].seen /\ act'[c].from = act[c].path
    BY <1>8 DEF Moved
  <2>2. act[c].seen \in Notes /\ rows'[act[c].seen].at # "none" /\ act[c].path \in Paths
    BY <1>1, <2>1 DEF TaskShape, TaskNames, Written
  <2>3. TaskShape(c, act'[c])
    BY <2>1, <2>2 DEF TaskShape, ByPath, ById
  <2> QED
    BY <1>1, <1>5, <2>1, <2>2, <2>3
<1>9. ASSUME NEW c \in Clients, Sought(c) PROVE act' \in [Actors -> Task] /\ \A a \in Actors : Fine(a)
  <2>1. /\ Others(c) /\ act[c].at = "seek" /\ act'[c].at = "lock" /\ act'[c].path \in Paths
        /\ act'[c].op = act[c].op /\ act'[c].note = act[c].note /\ act'[c].keys = <<act'[c].path>>
    BY <1>9 DEF Sought, Enters
  <2>2. act[c].op \in ById /\ act[c].note \in Notes
    BY <1>1, <2>1 DEF TaskShape
  <2>3. TaskShape(c, act'[c]) /\ act'[c].op # "relink"
    BY <2>1, <2>2 DEF TaskShape, ByPath, ById
  <2> QED
    BY <1>1, <1>5, <2>1, <2>3
<1>10. ASSUME NEW c \in Clients, NEW k \in Calls, Called(c, k) PROVE act' \in [Actors -> Task] /\ \A a \in Actors : Fine(a)
  <2>1. /\ k.op \in ByPath \cup ById /\ (k.op \in ByPath => k.path \in Paths)
        /\ k.op = "rename" => k.to \in Paths /\ k.to # k.path
        /\ k.op = "edit" => k.to \in Paths
        /\ k.op \in ById => k.note \in Notes
    BY CallsAssumption DEF ByPath
  <2>2. /\ Others(c) /\ act'[c].op = k.op /\ act'[c].path = k.path /\ act'[c].to = k.to /\ act'[c].note = k.note
        /\ IF k.op \in ById THEN act'[c].at = "seek" /\ act'[c].keys = <<>>
                            ELSE act'[c].at = "lock" /\ act'[c].keys = KeysOf(k)
    BY <1>10 DEF Called, Enters
  <2>3. KeysOf(k) = KeysOf(act'[c]) /\ (k.op # "rename" => KeysOf(k) = <<k.path>>)
    BY <2>2 DEF KeysOf
  <2>4. TaskShape(c, act'[c]) /\ act'[c].op # "relink" /\ act'[c].at \notin {"tx", "found"}
    <3>1. CASE k.op \in ById
      BY <2>1, <2>2, <3>1 DEF TaskShape, ByPath, ById
    <3>2. CASE k.op \in ByPath
      BY <2>1, <2>2, <2>3, <3>2 DEF TaskShape, ByPath, ById
    <3> QED
      BY <2>1, <3>1, <3>2
  <2> QED
    BY <1>1, <1>5, <2>2, <2>4
<1>11. ASSUME Handed PROVE act' \in [Actors -> Task] /\ \A a \in Actors : Fine(a)
  <2>1. CASE act' = act
    BY <1>1, <1>2, <2>1
  <2>2. ASSUME NEW s \in Servers, Others(s), act'[s].at = "relink", act'[s].op = "relink", act'[s].keys = <<>>,
               act'[s].ref = "none", NEW j \in jobs, act'[s].note = j.note, act'[s].from = j.from
        PROVE  act' \in [Actors -> Task] /\ \A a \in Actors : Fine(a)
    <3>1. j.note \in Notes /\ rows'[j.note].at # "none" /\ j.from \in Paths
      BY <1>1 DEF LInv, IInv, JobsOK, Job, Written
    <3>2. TaskShape(s, act'[s])
      BY <2>2, <3>1 DEF TaskShape, ByPath, ById
    <3> QED
      BY <1>1, <1>5, <2>2, <3>1, <3>2
  <2> QED
    BY <1>11, <2>1, <2>2 DEF Handed
<1>12. ASSUME NEW s \in Servers, Died(s) PROVE act' \in [Actors -> Task] /\ \A a \in Actors : Fine(a)
  BY <1>2, <1>3, <1>12, CrashIs
<1> QED
  BY <1>6, <1>7, <1>8, <1>9, <1>10, <1>11, <1>12 DEF Kinds
-----------------------------------------------------------------------------
(* The jobs, the runs and the queues *)

LEMMA JobsStep ==
  ASSUME LInv, Kinds
  PROVE  JobsOK'
<1>1. /\ jobs \subseteq Job /\ \A j \in jobs : j.note \in Notes /\ rows[j.note].at # "none"
      /\ \A n \in Notes : rows[n].at # "none" => rows'[n].at # "none"
  BY KindVault, RowsStep DEF LInv, IInv, JobsOK, Written
<1>2. SUFFICES jobs' \subseteq Job /\ \A j \in jobs' : j.note \in Notes /\ rows'[j.note].at # "none"
  BY DEF JobsOK, Written
<1>3. CASE jobs' \subseteq jobs
  BY <1>1, <1>3
<1>4. ASSUME NEW c \in Clients, Moved(c)
      PROVE  jobs' \subseteq Job /\ \A j \in jobs' : j.note \in Notes /\ rows'[j.note].at # "none"
  <2>1. PICK j \in Job : jobs' = jobs \cup {j} /\ j.note = act[c].seen
    BY <1>4 DEF Moved
  <2>2. act[c].seen \in Notes /\ rows[act[c].seen].at # "none"
    BY <1>4, Typed DEF Moved, TaskOK, TaskNames, Written
  <2> QED
    BY <1>1, <2>1, <2>2
<1>5. ASSUME Handed
      PROVE  jobs' \subseteq Job /\ \A j \in jobs' : j.note \in Notes /\ rows'[j.note].at # "none"
  <2>1. jobs' \subseteq Job /\ \A j \in jobs' : \E i \in jobs : i.note = j.note
    BY <1>5 DEF Handed
  <2> QED
    BY <1>1, <2>1
<1>6. ASSUME NEW a \in Actors, Refused(a) \/ Again(a) \/ Settles(a) \/ Looked(a) \/ Asks(a) \/ Stays(a)
      PROVE  jobs' \subseteq jobs
  BY <1>6 DEF Refused, Again, Settles, Looked, Asks, SecondKey, Stays
<1>7. ASSUME NEW c \in Clients, Performed(c) \/ Sought(c) \/ \E k \in Calls : Called(c, k)
      PROVE  jobs' \subseteq jobs
  BY <1>7 DEF Performed, Sought, Called
<1>8. ASSUME NEW s \in Servers, Died(s) PROVE jobs' \subseteq jobs
  BY <1>8, CrashIs
<1> QED
  BY <1>3, <1>4, <1>5, <1>6, <1>7, <1>8 DEF Kinds

LEMMA RunsStay ==
  ASSUME Steps
  PROVE  UNCHANGED <<fleet, host>>
<1>1. ASSUME NEW c \in Clients, Operation(c) PROVE UNCHANGED <<fleet, host>>
  BY <1>1 DEF Operation, Seek, Find, Move, SoftDelete, Restore, Purge, Create
<1>2. ASSUME NEW c \in Clients, NEW k \in Calls, Call(c, k) PROVE UNCHANGED <<fleet, host>>
  BY <1>2 DEF Call
<1>3. ASSUME NEW a \in Actors, Write(a) \/ Busy(a) PROVE UNCHANGED <<fleet, host>>
  BY <1>3 DEF Write, Busy, SecondKey, Read, Edit, Settle, TooLarge, Complete, Look
<1>4. ASSUME NEW j \in jobs, LeaseEnds(j) \/ \E s \in Servers : Resume(s, j) PROVE UNCHANGED <<fleet, host>>
  BY <1>4 DEF LeaseEnds, Resume
<1>5. ASSUME NEW s \in fleet, Crash(s) PROVE UNCHANGED <<fleet, host>>
  BY <1>5 DEF Crash
<1> QED
  BY <1>1, <1>2, <1>3, <1>4, <1>5 DEF Steps

LEMMA QueuesAs ==
  ASSUME host' = host, Served(queue'), \A a \in Actors : Ordered(queue', a, act'[a].keys, act'[a].at)
  PROVE  QueuesOK'
<1>1. \A x : Server(x)' = Server(x)
  BY DEF Server
<1>2. Served(queue)'
  BY <1>1 DEF Served
<1>3. ASSUME NEW a \in Actors PROVE Ordered(queue, a, act[a].keys, act[a].at)'
  <2>1. Ordered(queue', a, act'[a].keys, act'[a].at)
    OBVIOUS
  <2> QED
    BY <1>1, <2>1 DEF Ordered, In, First
<1> QED
  BY <1>2, <1>3 DEF QueuesOK

\* Who is neither moved back nor put anywhere is still where it asked to be.
LEMMA StillOrdered ==
  ASSUME NEW q, NEW r, NEW b \in Actors, NEW ks \in Keys, NEW at, Ordered(q, b, ks, at),
         \A p \in Paths : (In(r, b, p) <=> In(q, b, p)) /\ (First(q, b, p) => First(r, b, p))
  PROVE  Ordered(r, b, ks, at)
<1>1. \A i \in DOMAIN ks : ks[i] \in Paths
  BY DEF Keys
<1>2. Len(ks) = 2 => 1 \in DOMAIN ks /\ 2 \in DOMAIN ks
  BY DEF Keys
<1> QED
  BY <1>1, <1>2 DEF Ordered

LEMMA HeldFirst ==
  ASSUME LInv, NEW a \in Actors, HoldsAll(a)
  PROVE  \A p \in Paths : In(queue, a, p) => First(queue, a, p)
<1>1. \A p \in Paths : In(queue, a, p) => \E i \in DOMAIN act[a].keys : act[a].keys[i] = p
  BY DEF LInv, IInv, QueuesOK, Ordered
<1>2. \A i \in DOMAIN act[a].keys : First(queue, a, act[a].keys[i])
  BY DEF HoldsAll, Holds, First
<1> QED
  BY <1>1, <1>2

\* An actor without keys is in no queue.
LEMMA Unqueued ==
  ASSUME LInv, NEW a \in Actors, act[a].keys = <<>>
  PROVE  \A p \in Paths : ~In(queue, a, p)
<1>1. DOMAIN act[a].keys = {}
  OBVIOUS
<1> QED
  BY <1>1 DEF LInv, IInv, QueuesOK, Ordered

LEMMA EnqueuedOrdered ==
  ASSUME LInv, host' = host, NEW q, Served(q), NEW a \in Actors, Others(a), act'[a].keys # <<>>,
         act'[a].at \notin {"tx", "found"}, queue' = Enqueued(q, a, act'[a].keys[1]),
         \A p \in Paths : ~In(q, a, p),
         \A b \in Actors \ {a} : Ordered(q, b, act[b].keys, act[b].at)
  PROVE  QueuesOK'
<1> DEFINE ks == act'[a].keys
           e == Enqueued(q, a, ks[1])
<1>1. ks \in Keys /\ ks # <<>> /\ act'[a] \in Task
  BY DEF Others, Task
<1>2. ks[1] \in Paths /\ 1 \in DOMAIN ks /\ (Len(ks) = 2 => ks[2] \in Paths /\ ks[2] # ks[1])
  <2>1. ks \in Seq(Paths) /\ (Len(ks) = 2 => ks[1] < ks[2])
    BY <1>1 DEF Keys
  <2>2. Paths \subseteq Nat
    BY PathsAssumption
  <2> HIDE DEF ks
  <2> QED
    BY <1>1, <2>1, <2>2
<1>3. /\ Served(e)
      /\ \A r \in Paths : In(e, a, r) => r = ks[1]
      /\ \A b \in Actors \ {a}, r \in Paths : In(e, b, r) <=> In(q, b, r)
      /\ \A b \in Actors, r \in Paths : First(q, b, r) => First(e, b, r)
  <2> HIDE DEF ks
  <2>1. RunsOK /\ ~In(q, a, ks[1])
    BY <1>2 DEF LInv, IInv
  <2> QED
    BY <1>2, <2>1, EnqueueServes
<1> HIDE DEF e
<1>4. queue' = e
  BY DEF e
<1>5. Ordered(e, a, ks, act'[a].at)
  <2> HIDE DEF ks
  <2> QED
    BY <1>2, <1>3 DEF Ordered
<1>6. ASSUME NEW b \in Actors \ {a} PROVE Ordered(e, b, act'[b].keys, act'[b].at)
  <2>1. act'[b] = act[b] /\ act[b].keys \in Keys
    BY Typed DEF Others, Task
  <2>2. Ordered(e, b, act[b].keys, act[b].at)
    BY <1>3, <2>1, StillOrdered
  <2> QED
    BY <2>1, <2>2
<1> QED
  BY <1>3, <1>4, <1>5, <1>6, QueuesAs

LEMMA ReleasedOrdered ==
  ASSUME LInv, NEW a \in Actors, HoldsAll(a)
  PROVE  /\ Served(Released(a)) /\ \A p \in Paths : ~In(Released(a), a, p)
         /\ \A b \in Actors \ {a} : Ordered(Released(a), b, act[b].keys, act[b].at)
<1>1. /\ Served(Released(a)) /\ \A p \in Paths : ~In(Released(a), a, p)
      /\ \A b \in Actors \ {a}, p \in Paths :
           (In(Released(a), b, p) <=> In(queue, b, p)) /\ (First(queue, b, p) => First(Released(a), b, p))
  BY HeldFirst, ReleaseServes DEF LInv, IInv, QueuesOK
<1>2. ASSUME NEW b \in Actors \ {a} PROVE Ordered(Released(a), b, act[b].keys, act[b].at)
  <2>1. act[b].keys \in Keys /\ Ordered(queue, b, act[b].keys, act[b].at)
    BY Typed DEF Task, LInv, IInv, QueuesOK
  <2> QED
    BY <1>1, <2>1, StillOrdered
<1> QED
  BY <1>1, <1>2

\* Whoever has no keys, and no part in a transaction, need not be in any queue.
LEMMA KeylessOrdered ==
  ASSUME NEW q, NEW a, NEW at, \A p \in Paths : ~In(q, a, p)
  PROVE  Ordered(q, a, <<>>, at)
<1>1. DOMAIN <<>> = {} /\ Len(<<>>) # 2
  OBVIOUS
<1> QED
  BY <1>1 DEF Ordered

LEMMA QueuesStep ==
  ASSUME LInv, Kinds, host' = host
  PROVE  QueuesOK'
<1>1. /\ Served(queue) /\ \A a \in Actors : Ordered(queue, a, act[a].keys, act[a].at)
      /\ \A a \in Actors : TaskShape(a, act[a])
      /\ \A c \in Clients : c \in Actors
      /\ \A s \in Servers : s \in Actors
  BY Typed DEF LInv, IInv, QueuesOK, TaskOK
\* The keys are released.
<1>2. ASSUME NEW a \in Actors, Lets(a), Others(a), act'[a].keys = <<>> PROVE QueuesOK'
  <2>1. HoldsAll(a) /\ queue' = Released(a) /\ \A b \in Actors \ {a} : act'[b] = act[b]
    BY <1>2 DEF Lets, Others
  <2>2. ASSUME NEW b \in Actors PROVE Ordered(queue', b, act'[b].keys, act'[b].at)
    <3>1. CASE b = a
      BY <1>2, <2>1, <3>1, ReleasedOrdered, KeylessOrdered
    <3>2. CASE b # a
      BY <2>1, <3>2, ReleasedOrdered
    <3> QED
      BY <3>1, <3>2
  <2> QED
    BY <2>1, <2>2, ReleasedOrdered, QueuesAs
\* A queue is entered.
<1>3. ASSUME NEW a \in Actors, Enters(a), Others(a), act'[a].keys # <<>> PROVE QueuesOK'
  BY <1>1, <1>3, Unqueued, EnqueuedOrdered DEF Enters
<1>4. ASSUME NEW a \in Actors, Settles(a) PROVE QueuesOK'
  <2>1. /\ HoldsAll(a) /\ Others(a) /\ act'[a].at = "settle" /\ act'[a].keys = <<act[a].to>>
        /\ queue' = Enqueued(Released(a), a, act[a].to)
    BY <1>4 DEF Settles
  <2>2. act'[a].keys # <<>> /\ act'[a].keys[1] = act[a].to
    BY <2>1
  <2> QED
    BY <2>1, <2>2, ReleasedOrdered, EnqueuedOrdered
\* The second key is asked for.
<1>5. ASSUME NEW a \in Actors, Asks(a) PROVE QueuesOK'
  <2> DEFINE ks == act[a].keys
             e == Enqueued(queue, a, ks[2])
  <2>1. /\ act[a].at = "lock" /\ Len(ks) = 2 /\ Holds(a, ks[1]) /\ ~Holds(a, ks[2]) /\ ~Waits(a, ks[2])
        /\ queue' = e /\ act' = act
    BY <1>5 DEF Asks, SecondKey
  <2>2. ks \in Keys
    BY Typed DEF Task
  <2>3. ks[1] \in Paths /\ ks[2] \in Paths /\ DOMAIN ks = 1 .. 2
    BY <2>1, <2>2 DEF Keys
  <2>4. ~In(queue, a, ks[2])
    <3>1. SUFFICES ASSUME In(queue, a, ks[2]) PROVE FALSE
      OBVIOUS
    <3> DEFINE line == queue[Server(a)][ks[2]]
    <3>2. line \in Seq(Actors)
      BY <1>1, <2>3, ServerIs DEF Served, LInv, IInv
    <3>3. PICK i \in DOMAIN line : line[i] = a
      BY <3>1 DEF In
    <3>4. (line # <<>> /\ Head(line) = a) \/ \E k \in 2 .. Len(line) : line[k] = a
      <4> HIDE DEF line
      <4> QED
        BY <3>2, <3>3
    <3> QED
      BY <2>1, <3>4 DEF Holds, Waits
  <2>5. /\ Served(e)
        /\ \A r \in Paths : In(e, a, r) => r = ks[2] \/ In(queue, a, r)
        /\ \A b \in Actors \ {a}, r \in Paths : In(e, b, r) <=> In(queue, b, r)
        /\ \A b \in Actors, r \in Paths : First(queue, b, r) => First(e, b, r)
    <3> HIDE DEF ks
    <3> QED
      BY <1>1, <2>3, <2>4, EnqueueServes DEF LInv, IInv
  <2> HIDE DEF e
  <2>6. Ordered(e, a, ks, "lock")
    <3>1. First(e, a, ks[1])
      BY <2>1, <2>3, <2>5 DEF Holds, First
    <3>2. \A p \in Paths : In(queue, a, p) => \E i \in DOMAIN ks : ks[i] = p
      BY <1>1 DEF Ordered
    <3> HIDE DEF ks
    <3> QED
      BY <2>3, <2>5, <3>1, <3>2 DEF Ordered
  <2>7. ASSUME NEW b \in Actors PROVE Ordered(queue', b, act'[b].keys, act'[b].at)
    <3>1. CASE b = a
      BY <2>1, <2>6, <3>1
    <3>2. CASE b # a
      <4>1. act[b].keys \in Keys /\ Ordered(queue, b, act[b].keys, act[b].at)
        BY <1>1, Typed DEF Task
      <4>2. Ordered(e, b, act[b].keys, act[b].at)
        BY <2>5, <3>2, <4>1, StillOrdered
      <4> QED
        BY <2>1, <4>2
    <3> QED
      BY <3>1, <3>2
  <2> QED
    BY <2>1, <2>5, <2>7, QueuesAs
\* Nothing moves.
<1>6. ASSUME NEW a \in Actors, Stays(a) PROVE QueuesOK'
  <2>1. HoldsAll(a) /\ queue' = queue /\ act'[a].keys = act[a].keys /\ \A b \in Actors \ {a} : act'[b] = act[b]
    BY <1>6 DEF Stays, Others
  <2>2. ASSUME NEW b \in Actors PROVE Ordered(queue', b, act'[b].keys, act'[b].at)
    BY <1>1, <2>1 DEF Ordered, HoldsAll, Holds, First
  <2> QED
    BY <1>1, <2>1, <2>2, QueuesAs
<1>7. ASSUME NEW a \in Actors, Others(a), queue' = queue, act[a].keys = <<>>, act'[a].keys = <<>> PROVE QueuesOK'
  <2>1. ASSUME NEW b \in Actors PROVE Ordered(queue', b, act'[b].keys, act'[b].at)
    <3>1. CASE b = a
      BY <1>7, <3>1, Unqueued, KeylessOrdered
    <3>2. CASE b # a
      BY <1>1, <1>7, <3>2 DEF Others
    <3> QED
      BY <3>1, <3>2
  <2> QED
    BY <1>1, <1>7, <2>1, QueuesAs
<1>8. ASSUME NEW c \in Clients, NEW k \in Calls, Called(c, k) PROVE QueuesOK'
  <2>1. Others(c) /\ act[c].keys = <<>>
    BY <1>1, <1>8 DEF Called, At, TaskShape
  <2>2. CASE k.op \in ById
    BY <1>1, <1>7, <1>8, <2>1, <2>2 DEF Called
  <2>3. CASE k.op \notin ById
    <3>1. Enters(c) /\ act'[c].keys = KeysOf(k) /\ KeysOf(k) # <<>>
      BY <1>8, <2>3 DEF Called, KeysOf, Sorted
    <3> QED
      BY <1>1, <1>3, <2>1, <3>1
  <2> QED
    BY <2>2, <2>3
<1>9. ASSUME Handed PROVE QueuesOK'
  <2>1. CASE act' = act
    BY <1>1, <1>9, <2>1, QueuesAs DEF Handed
  <2>2. CASE act' # act
    <3>1. PICK s \in Servers : At(s, "idle") /\ Others(s) /\ act'[s].keys = <<>>
      BY <1>9, <2>2 DEF Handed
    <3>2. act[s].keys = <<>> /\ queue' = queue
      BY <1>1, <1>9, <3>1 DEF Handed, At, TaskShape
    <3> QED
      BY <1>1, <1>7, <3>1, <3>2
  <2> QED
    BY <2>1, <2>2
<1>10. ASSUME NEW s \in Servers, Died(s) PROVE QueuesOK'
  <2>1. /\ queue' = [queue EXCEPT ![s] = [p \in Paths |-> <<>>]]
        /\ \A a \in Actors : act'[a] = IF Server(a) = s THEN Idle ELSE act[a]
    BY <1>10, CrashIs
  <2>2. queue \in [Servers -> [Paths -> Seq(Actors)]]
    BY <1>1 DEF Served
  <2>3. queue' \in [Servers -> [Paths -> Seq(Actors)]]
    <3>1. [p \in Paths |-> <<>>] \in [Paths -> Seq(Actors)]
      OBVIOUS
    <3> QED
      BY <2>1, <2>2, <3>1
  <2>4. \A t \in Servers, p \in Paths : queue'[t][p] = IF t = s THEN <<>> ELSE queue[t][p]
    BY <2>1, <2>2
  <2>5. Served(queue')
    <3> SUFFICES ASSUME NEW t \in Servers, NEW p \in Paths, NEW i \in DOMAIN queue'[t][p], NEW k \in DOMAIN queue'[t][p]
                 PROVE  Server(queue'[t][p][i]) = t /\ (queue'[t][p][i] = queue'[t][p][k] => i = k)
      BY <2>3 DEF Served
    <3>1. t # s
      <4> SUFFICES ASSUME t = s PROVE FALSE
        OBVIOUS
      <4>1. DOMAIN queue'[t][p] = {}
        BY <2>4
      <4> QED
        BY <4>1
    <3> QED
      BY <1>1, <2>4, <3>1 DEF Served
  <2>6. ASSUME NEW b \in Actors PROVE Ordered(queue', b, act'[b].keys, act'[b].at)
    <3>1. Server(b) \in Servers
      BY ServerIs DEF LInv, IInv
    <3>2. CASE Server(b) = s
      <4>1. \A p \in Paths : queue'[Server(b)][p] = <<>>
        BY <2>4, <3>1, <3>2
      <4>2. \A p \in Paths : ~In(queue', b, p)
        <5>1. DOMAIN <<>> = {}
          OBVIOUS
        <5> QED
          BY <4>1, <5>1 DEF In
      <4>3. act'[b].keys = <<>>
        BY <2>1, <3>2, IdleShape
      <4> QED
        BY <4>2, <4>3, KeylessOrdered
    <3>3. CASE Server(b) # s
      <4>1. \A p \in Paths : queue'[Server(b)][p] = queue[Server(b)][p]
        BY <2>4, <3>1, <3>3
      <4>2. act'[b] = act[b] /\ act[b].keys \in Keys /\ Ordered(queue, b, act[b].keys, act[b].at)
        BY <1>1, <2>1, <3>3, Typed DEF Task
      <4>3. \A p \in Paths : (In(queue', b, p) <=> In(queue, b, p)) /\ (First(queue, b, p) => First(queue', b, p))
        BY <4>1 DEF In, First
      <4> QED
        BY <4>2, <4>3, StillOrdered
    <3> QED
      BY <3>2, <3>3
  <2> QED
    BY <2>5, <2>6, QueuesAs
<1>11. ASSUME NEW a \in Actors, Refused(a) \/ Again(a) PROVE QueuesOK'
  BY <1>2, <1>11, IdleShape DEF Refused, Again
<1>12. ASSUME NEW c \in Clients, Performed(c) \/ Moved(c) PROVE QueuesOK'
  BY <1>1, <1>2, <1>12, IdleShape DEF Performed, Moved
<1>13. ASSUME NEW a \in Actors, Looked(a) PROVE QueuesOK'
  <2>1. Enters(a) /\ Others(a) /\ act'[a].keys = <<act'[a].path>>
    BY <1>13 DEF Looked
  <2>2. act'[a].keys # <<>>
    BY <2>1
  <2> QED
    BY <1>1, <1>3, <2>1, <2>2
<1>14. ASSUME NEW c \in Clients, Sought(c) PROVE QueuesOK'
  <2>1. Enters(c) /\ Others(c) /\ act'[c].keys = <<act'[c].path>>
    BY <1>14 DEF Sought
  <2>2. act'[c].keys # <<>>
    BY <2>1
  <2> QED
    BY <1>1, <1>3, <2>1, <2>2
<1> QED
  BY <1>4, <1>5, <1>6, <1>8, <1>9, <1>10, <1>11, <1>12, <1>13, <1>14 DEF Kinds

LEMMA InvStep ==
  ASSUME LInv, Kinds, UNCHANGED <<fleet, host>>
  PROVE  IInv'
<1>1. RunsOK'
  BY DEF LInv, IInv, RunsOK
<1>2. RowsOK'
  BY KindVault, RowsStep DEF LInv, IInv
<1> QED
  BY <1>1, <1>2, TasksStep, JobsStep, QueuesStep DEF IInv
-----------------------------------------------------------------------------
(* The calls *)

\* Nobody calls NoCall.
LEMMA CallsAre ==
  ASSUME NEW k \in Calls
  PROVE  k.op \in ByPath \cup ById /\ k # NoCall
<1>1. k.op \in ByPath \cup ById
  BY CallsAssumption
<1>2. NoCall.op \notin ByPath \cup ById
  BY DEF NoCall, ByPath, ById
<1> QED
  BY <1>1, <1>2

LEMMA AskedStep ==
  ASSUME LInv, Kinds
  PROVE  AskedOK'
<1>1. /\ call \in [Clients -> Calls \cup {NoCall}]
      /\ \A c \in Clients : call[c] = NoCall <=> act[c].at = "idle"
      /\ \A c \in Clients : act[c].op \in ByPath \cup ById =>
           /\ call[c].op = act[c].op /\ call[c].note = act[c].note
           /\ act[c].op \in ByPath => call[c].path = act[c].path /\ call[c].to = act[c].to
      /\ \A a \in Actors : act[a].at = "idle" <=> act[a].op = "none"
      /\ \A c \in Clients : c \in Actors
      /\ \A s \in Servers : s \notin Clients
  BY Typed, NamesAssumption DEF LInv, AskedOK, At, TaskOK, TaskShape
<1> DEFINE Fine(c) == /\ call'[c] = NoCall <=> act'[c].at = "idle"
                      /\ act'[c].op \in ByPath \cup ById =>
                           /\ call'[c].op = act'[c].op /\ call'[c].note = act'[c].note
                           /\ act'[c].op \in ByPath => call'[c].path = act'[c].path /\ call'[c].to = act'[c].to
           Goal == call' \in [Clients -> Calls \cup {NoCall}] /\ \A c \in Clients : Fine(c)
<1>2. SUFFICES Goal
  BY DEF AskedOK, At
<1>3. ASSUME NEW c \in Clients, act'[c] = act[c], call'[c] = call[c] PROVE Fine(c)
  BY <1>1, <1>3
<1>4. ASSUME NEW c \in Clients, act'[c] = Idle, call'[c] = NoCall PROVE Fine(c)
  BY <1>4, IdleShape DEF ByPath, ById
<1>5. ASSUME NEW c \in Clients, act'[c].op = "relink", act'[c].at # "idle", act[c].at # "idle", call'[c] = call[c]
      PROVE  Fine(c)
  BY <1>1, <1>5 DEF ByPath, ById
<1> HIDE DEF Fine
\* One actor acts and the calls stay.
<1>6. ASSUME NEW a \in Actors, Others(a), call' = call, a \in Clients => Fine(a) PROVE Goal
  <2>1. \A b \in Actors \ {a} : act'[b] = act[b]
    BY <1>6 DEF Others
  <2>2. ASSUME NEW c \in Clients PROVE Fine(c)
    BY <1>1, <1>3, <1>6, <2>1
  <2> QED
    BY <1>1, <1>6, <2>2
\* One client acts on its call.
<1>7. ASSUME NEW c \in Clients, Others(c), NEW k \in Calls \cup {NoCall}, call' = [call EXCEPT ![c] = k], Fine(c) PROVE Goal
  <2>1. \A b \in Actors \ {c} : act'[b] = act[b]
    BY <1>7 DEF Others
  <2>2. ASSUME NEW d \in Clients PROVE Fine(d)
    BY <1>1, <1>3, <1>7, <2>1
  <2> QED
    BY <1>1, <1>7, <2>2
<1>8. ASSUME NEW a \in Actors, Refused(a) PROVE Goal
  <2>1. Others(a) /\ act'[a] = Idle
    BY <1>8 DEF Refused
  <2>2. CASE a \in Clients
    <3>1. call' = [call EXCEPT ![a] = NoCall] /\ call'[a] = NoCall
      BY <1>1, <1>8, <2>2 DEF Refused
    <3> QED
      BY <1>4, <1>7, <2>1, <2>2, <3>1
  <2>3. CASE a \notin Clients
    BY <1>6, <1>8, <2>1, <2>3 DEF Refused
  <2> QED
    BY <2>2, <2>3
<1>9. ASSUME NEW a \in Actors, Again(a) \/ Settles(a) \/ Looked(a) PROVE Goal
  <2>1. Others(a) /\ call' = call /\ act'[a].op = "relink" /\ act'[a].at \in {"relink", "settle", "lock"}
    BY <1>9 DEF Again, Settles, Looked, Enters, Same
  <2>2. act[a].at # "idle"
    BY <1>1, <1>9 DEF Again, Settles, Looked
  <2> QED
    BY <1>5, <1>6, <2>1, <2>2
<1>10. ASSUME NEW a \in Actors, Asks(a) PROVE Goal
  BY <1>1, <1>3, <1>10 DEF Asks, SecondKey
<1>11. ASSUME NEW a \in Actors, Stays(a) PROVE Goal
  <2>1. /\ Others(a) /\ call' = call /\ act'[a].op = act[a].op /\ act'[a].note = act[a].note
        /\ act'[a].path = act[a].path /\ act'[a].to = act[a].to
        /\ act[a].at \in {"lock", "tx"} /\ act'[a].at \in {"lock", "tx", "found"}
    BY <1>11 DEF Stays, Same
  <2>2. ASSUME a \in Clients PROVE Fine(a)
    BY <1>1, <2>1, <2>2 DEF Fine
  <2> QED
    BY <1>6, <2>1, <2>2
<1>12. ASSUME NEW c \in Clients, Performed(c) PROVE Goal
  <2>1. Others(c) /\ act'[c] = Idle /\ call' = [call EXCEPT ![c] = NoCall] /\ call'[c] = NoCall
    BY <1>1, <1>12 DEF Performed
  <2> QED
    BY <1>4, <1>7, <2>1
<1>13. ASSUME NEW c \in Clients, Moved(c) PROVE Goal
  <2>1. Others(c) /\ call' = call /\ act'[c].op = "relink" /\ act'[c].at = "relink" /\ act[c].at = "found"
    BY <1>13 DEF Moved
  <2> QED
    BY <1>1, <1>5, <1>6, <2>1
<1>14. ASSUME NEW c \in Clients, Sought(c) PROVE Goal
  <2>1. Others(c) /\ call' = call /\ act[c].at = "seek" /\ act'[c].at = "lock" /\ act'[c].op = act[c].op
        /\ act'[c].note = act[c].note
    BY <1>14 DEF Sought, Same, Enters
  <2>2. act[c].op \in ById
    BY <1>1, <2>1, Typed DEF TaskOK, TaskShape
  <2>3. Fine(c)
    BY <1>1, <2>1, <2>2 DEF Fine, ByPath, ById
  <2> QED
    BY <1>1, <1>6, <2>1, <2>3
<1>15. ASSUME NEW c \in Clients, NEW k \in Calls, Called(c, k) PROVE Goal
  <2>1. /\ Others(c) /\ call' = [call EXCEPT ![c] = k] /\ call'[c] = k /\ act'[c].at \in {"seek", "lock"}
        /\ act'[c].op = k.op /\ act'[c].path = k.path /\ act'[c].to = k.to /\ act'[c].note = k.note
    BY <1>1, <1>15 DEF Called, Enters
  <2>2. Fine(c)
    BY <2>1, CallsAre DEF Fine
  <2> QED
    BY <1>7, <2>1, <2>2
<1>16. ASSUME Handed PROVE Goal
  <2>1. call' = call
    BY <1>16 DEF Handed, Same
  <2>2. CASE act' = act
    BY <1>1, <1>3, <2>1, <2>2
  <2>3. ASSUME NEW s \in Servers, Others(s) PROVE Goal
    BY <1>1, <1>6, <2>1, <2>3, Typed
  <2> QED
    BY <1>16, <2>2, <2>3 DEF Handed
<1>17. ASSUME NEW s \in Servers, Died(s) PROVE Goal
  <2>1. /\ call' = [c \in Clients |-> IF Server(c) = s THEN NoCall ELSE call[c]]
        /\ \A a \in Actors : act'[a] = IF Server(a) = s THEN Idle ELSE act[a]
    BY <1>17, CrashIs
  <2>2. ASSUME NEW c \in Clients PROVE Fine(c)
    BY <1>1, <1>3, <1>4, <2>1
  <2> QED
    BY <1>1, <2>1, <2>2
<1> QED
  BY <1>8, <1>9, <1>10, <1>11, <1>12, <1>13, <1>14, <1>15, <1>16, <1>17 DEF Kinds

LEMMA CouldStep ==
  ASSUME LInv, Directory!Watch
  PROVE  CouldOK'
<1>1. could' = [c \in Clients |-> IF call'[c] = NoCall THEN {} ELSE could[c] \cup Directory!Refusals(call'[c], Vault')]
  BY DEF Directory!Watch, Directory!NoCall, NoCall
<1>2. \A c \in Clients : could[c] \subseteq {"missing", "exists"}
  BY DEF LInv, CouldOK
<1>3. \A k, v : Directory!Refusals(k, v) \subseteq {"missing", "exists"}
  BY DEF Directory!Refusals
<1>4. could' \in [Clients -> SUBSET {"missing", "exists"}]
  BY <1>1, <1>2, <1>3
<1>5. ASSUME NEW c \in Clients
      PROVE  IF call'[c] = NoCall THEN could'[c] = {} ELSE Directory!Refusals(call'[c], Vault') \subseteq could'[c]
  BY <1>1
<1>6. (\A c \in Clients : IF call[c] = NoCall THEN could[c] = {} ELSE Directory!Refusals(call[c], Vault) \subseteq could[c])'
  BY <1>5
<1> QED
  BY <1>4, <1>6 DEF CouldOK

\* What is not there any more has been noticed, and what was noticed is not forgotten.
LEMMA Noticed ==
  ASSUME LInv, Kinds, Directory!Watch, NEW c \in Clients, act'[c].op \in ByPath \cup ById
  PROVE  /\ call[c] # NoCall => could[c] \subseteq could'[c]
         /\ act'[c].op \in {"edit", "rename", "delete"} =>
              (\E n \in Notes : rows'[n].at = "live" /\ rows'[n].path = act'[c].path) \/ "missing" \in could'[c]
         /\ act'[c].op \in ById /\ rows'[act'[c].note].at # "trash" => "missing" \in could'[c]
<1>1. could' = [d \in Clients |-> IF call'[d] = NoCall THEN {} ELSE could[d] \cup Directory!Refusals(call'[d], Vault')]
  BY DEF Directory!Watch, Directory!NoCall, NoCall
<1>2. /\ call'[c].op = act'[c].op /\ call'[c].note = act'[c].note
      /\ act'[c].op \in ByPath => call'[c].path = act'[c].path
  BY AskedStep DEF AskedOK
<1>3. call'[c] # NoCall
  BY <1>2 DEF NoCall, ByPath, ById
<1>4. could'[c] = could[c] \cup Directory!Refusals(call'[c], Vault')
  BY <1>1, <1>3
<1>5. ASSUME Directory!Missing(call'[c], Vault') PROVE "missing" \in could'[c]
  BY <1>4, <1>5 DEF Directory!Refusals
<1>6. ASSUME act'[c].op \in {"edit", "rename", "delete"},
             ~\E n \in Notes : rows'[n].at = "live" /\ rows'[n].path = act'[c].path
      PROVE  Directory!Missing(call'[c], Vault')
  <2>1. call'[c].op \in {"edit", "rename", "delete"} /\ call'[c].path = act'[c].path
    BY <1>2, <1>6 DEF ByPath
  <2>2. ~Directory!Occupied(Vault', call'[c].path)
    BY <1>6, <2>1, VaultNext DEF Directory!Occupied
  <2> QED
    BY <2>1, <2>2 DEF Directory!Missing
<1>7. ASSUME act'[c].op \in ById, rows'[act'[c].note].at # "trash"
      PROVE  Directory!Missing(call'[c], Vault')
  <2>1. act'[c].note \in Notes
    BY <1>7, TasksStep, Typed DEF TasksOK, TaskOK, TaskShape
  <2>2. Vault'[call'[c].note].at # "trash" /\ call'[c].op \in {"restore", "purge"}
    BY <1>2, <1>7, <2>1, VaultNext DEF ById
  <2> QED
    BY <2>2 DEF Directory!Missing
<1> QED
  BY <1>4, <1>5, <1>6, <1>7

\* A rename whose note is locked finds it where it was: whoever else writes the note waits for the lock.
LEMMA FoundStays ==
  ASSUME LInv, Kinds, NEW c \in Clients, act[c].at = "found", act'[c].at = "found"
  PROVE  rows'[act[c].seen].at = "live" /\ rows'[act[c].seen].path = act[c].path
<1>1. /\ act[c].seen \in Notes /\ act[c].path \in Paths
      /\ rows[act[c].seen].at = "live" /\ rows[act[c].seen].path = act[c].path
  BY Typed DEF LInv, StandsOK, LiveAt, Live, TaskOK, TaskShape, TaskNames, Written
<1>2. ASSUME NEW d \in Clients, act[d].op \in ByPath \cup ById, Takes(d), d # c PROVE Rests(act[c].seen)
  <2>1. PICK n \in Notes : /\ Turns(call[d], n)
                           /\ Live(n) => \A e \in Clients \ {d} : act[e].at = "found" => act[e].seen # n
    BY <1>2, TakesTurn
  <2>2. CASE n # act[c].seen
    BY <1>1, <2>1, <2>2 DEF Turns
  <2>3. CASE n = act[c].seen
    BY <1>1, <1>2, <2>1, <2>3 DEF Live
  <2> QED
    BY <2>2, <2>3
<1>3. ASSUME Keeps PROVE Rests(act[c].seen)
  BY <1>1, <1>3, VaultNext DEF Keeps, Rests
<1>4. ASSUME NEW a \in Actors, Relinks(a) PROVE Rests(act[c].seen)
  <2>1. PICK r \in Notes : \E from, to \in homes[act[a].note] :
          Vault' = [Vault EXCEPT ![r].links = Directory!Rewritten(@, from, to)]
    BY <1>4 DEF Relinks
  <2>2. PICK links : Vault' = [Vault EXCEPT ![r].links = links]
    BY <2>1
  <2>3. Vault'[r] = [Vault[r] EXCEPT !.links = links] /\ \A n \in Notes \ {r} : Vault'[n] = Vault[n]
    BY <2>2 DEF Vault, Seen
  <2>4. \A n \in Notes : Vault'[n].at = Vault[n].at /\ Vault'[n].path = Vault[n].path
    BY <2>3, VaultRow
  <2> QED
    BY <1>1, <2>4, VaultNext DEF Rests
<1>5. ASSUME NEW a \in Actors, Refused(a) \/ Again(a) \/ Settles(a) \/ Looked(a) \/ Asks(a) \/ Stays(a)
      PROVE  Rests(act[c].seen)
  <2>1. Keeps \/ Relinks(a) \/ rows' = rows
    BY <1>5 DEF Refused, Again, Settles, Looked, Asks, SecondKey, Stays
  <2> QED
    BY <1>3, <1>4, <2>1 DEF Rests
<1>6. ASSUME NEW d \in Clients, Performed(d) \/ Moved(d) PROVE Rests(act[c].seen)
  <2>1. act[d].op \in ByPath \cup ById /\ Takes(d)
    BY <1>6, Typed DEF Performed, Moved, TaskOK, TaskShape, ByPath
  <2>2. act'[d].at # "found"
    BY <1>6, IdleShape DEF Performed, Moved
  <2> QED
    BY <1>2, <2>1, <2>2
<1>7. ASSUME NEW d \in Clients, Sought(d) \/ \E k \in Calls : Called(d, k) PROVE Rests(act[c].seen)
  BY <1>7 DEF Sought, Called, Rests
<1>8. ASSUME Handed PROVE Rests(act[c].seen)
  BY <1>8 DEF Handed, Rests
<1>9. ASSUME NEW s \in Servers, Died(s) PROVE Rests(act[c].seen)
  BY <1>3, <1>9, CrashIs
<1>10. Rests(act[c].seen)
  BY <1>5, <1>6, <1>7, <1>8, <1>9 DEF Kinds
<1> QED
  BY <1>1, <1>10 DEF Rests

LEMMA StandsStep ==
  ASSUME LInv, Kinds, Directory!Watch
  PROVE  StandsOK'
<1> DEFINE Is(n, p) == rows'[n].at = "live" /\ rows'[n].path = p
           Was(n, p) == rows[n].at = "live" /\ rows[n].path = p
           Fine(c) ==
             /\ act'[c].at = "found" => Is(act'[c].seen, act'[c].path)
             /\ act'[c].at = "tx" /\ act'[c].op \in ByPath => Is(act'[c].seen, act'[c].path) \/ "missing" \in could'[c]
             /\ act'[c].at = "tx" /\ act'[c].op \in ById => act'[c].seen = act'[c].note
             /\ act'[c].at \in {"lock", "tx"} /\ act'[c].op \in ById =>
                  \/ rows'[act'[c].note].at = "trash" /\ rows'[act'[c].note].path = act'[c].path
                  \/ "missing" \in could'[c]
           Alone == \A c, d \in Clients :
             act'[c].at = "found" /\ act'[d].at = "found" /\ act'[c].seen = act'[d].seen => c = d
           Goal == Alone /\ \A c \in Clients : Fine(c)
<1>1. SUFFICES Goal
  BY DEF StandsOK, LiveAt, Live
<1>2. /\ \A c \in Clients : act[c].at = "found" => Was(act[c].seen, act[c].path)
      /\ \A c, d \in Clients : act[c].at = "found" /\ act[d].at = "found" /\ act[c].seen = act[d].seen => c = d
      /\ \A c \in Clients : act[c].at = "tx" /\ act[c].op \in ByPath =>
           Was(act[c].seen, act[c].path) \/ "missing" \in could[c]
      /\ \A c \in Clients : act[c].at = "tx" /\ act[c].op \in ById => act[c].seen = act[c].note
      /\ \A c \in Clients : act[c].at \in {"lock", "tx"} /\ act[c].op \in ById =>
           (rows[act[c].note].at = "trash" /\ rows[act[c].note].path = act[c].path) \/ "missing" \in could[c]
  BY DEF LInv, StandsOK, LiveAt, Live
<1>3. /\ \A n \in Notes, p \in Paths : Was(n, p) /\ ~Is(n, p) => ~\E m \in Notes : Is(m, p)
      /\ \A n \in Notes : rows[n].at = "trash" /\ rows'[n].at = "trash" => rows'[n].path = rows[n].path
  BY KindVault, RowsStep DEF LInv, IInv, LiveAt, Live, Taken
<1>4. /\ \A c \in Clients : /\ act[c].at \in {"tx", "found"} => act[c].seen \in Notes
                            /\ act[c].op \in ById => act[c].note \in Notes
                            /\ act[c].at \in {"lock", "tx", "found"} => act[c].path \in Paths
                            /\ act[c].at = "found" => act[c].op = "rename"
                            /\ act[c].at = "tx" => act[c].op # "create"
                            /\ act[c].at \notin {"idle"} => call[c] # NoCall
                            /\ act[c].at = "seek" => act[c].op \in ById
      /\ \A c \in Clients : c \in Actors
      /\ \A s \in Servers : s \notin Clients /\ s \in Actors
  BY Typed, NamesAssumption DEF TaskOK, TaskShape, TaskNames, Written, LInv, AskedOK, At
\* Who does not act still has what it read, or the refusal has become right.
<1>5. ASSUME NEW c \in Clients, act'[c] = act[c] PROVE Fine(c)
  <2>1. act'[c].at = "found" => Is(act'[c].seen, act'[c].path)
    BY <1>5, FoundStays
  <2>2. ASSUME act'[c].at = "tx", act'[c].op \in ByPath
        PROVE  Is(act'[c].seen, act'[c].path) \/ "missing" \in could'[c]
    <3>1. act'[c].op \in {"edit", "rename", "delete"}
      BY <1>4, <1>5, <2>2 DEF ByPath
    <3>2. CASE "missing" \in could[c]
      BY <1>4, <1>5, <2>2, <3>2, Noticed
    <3>3. CASE Was(act[c].seen, act[c].path)
      <4>1. CASE Is(act[c].seen, act[c].path)
        BY <1>5, <4>1
      <4>2. CASE ~Is(act[c].seen, act[c].path)
        <5>1. ~\E m \in Notes : Is(m, act[c].path)
          BY <1>3, <1>4, <1>5, <2>2, <3>3, <4>2
        <5> QED
          BY <1>5, <3>1, <5>1, Noticed DEF ByPath
      <4> QED
        BY <4>1, <4>2
    <3> QED
      BY <1>2, <1>5, <2>2, <3>2, <3>3
  <2>3. ASSUME act'[c].at \in {"lock", "tx"}, act'[c].op \in ById
        PROVE  \/ rows'[act'[c].note].at = "trash" /\ rows'[act'[c].note].path = act'[c].path
               \/ "missing" \in could'[c]
    <3>1. CASE "missing" \in could[c]
      BY <1>4, <1>5, <2>3, <3>1, Noticed
    <3>2. CASE rows[act[c].note].at = "trash" /\ rows[act[c].note].path = act[c].path
      <4>1. CASE rows'[act[c].note].at = "trash"
        BY <1>3, <1>4, <1>5, <2>3, <3>2, <4>1
      <4>2. CASE rows'[act[c].note].at # "trash"
        BY <1>5, <2>3, <4>2, Noticed
      <4> QED
        BY <4>1, <4>2
    <3> QED
      BY <1>2, <1>5, <2>3, <3>1, <3>2
  <2>4. act'[c].at = "tx" /\ act'[c].op \in ById => act'[c].seen = act'[c].note
    BY <1>2, <1>5
  <2> QED
    BY <2>1, <2>2, <2>3, <2>4
<1>6. ASSUME NEW c \in Clients, act'[c].at \notin {"found", "tx"}, act'[c].at # "lock" \/ act'[c].op \notin ById
      PROVE  Fine(c)
  BY <1>6
\* One actor acts, and does not come to lock its note.
<1>7. ASSUME NEW a \in Actors, Others(a), a \in Clients => Fine(a) /\ act'[a].at # "found" PROVE Goal
  <2>1. \A b \in Actors \ {a} : act'[b] = act[b]
    BY <1>7 DEF Others
  <2>2. ASSUME NEW c \in Clients PROVE Fine(c)
    <3>1. CASE c = a
      BY <1>7, <3>1
    <3>2. CASE c # a
      <4>1. act'[c] = act[c]
        BY <1>4, <2>1, <3>2
      <4> QED
        BY <1>5, <4>1
    <3> QED
      BY <3>1, <3>2
  <2>3. Alone
    BY <1>2, <1>4, <1>7, <2>1
  <2> QED
    BY <2>2, <2>3
<1>8. ASSUME NEW a \in Actors, Refused(a) \/ Again(a) \/ Settles(a) \/ Looked(a) PROVE Goal
  <2>1. Others(a) /\ act'[a].at \in {"idle", "relink", "settle", "lock"} /\ act'[a].op \in {"none", "relink"}
    BY <1>8, IdleShape DEF Refused, Again, Settles, Looked, Enters
  <2>2. act'[a].op \notin ById
    BY <2>1 DEF ById
  <2> QED
    BY <1>6, <1>7, <2>1, <2>2
<1>9. ASSUME act' = act PROVE Goal
  BY <1>2, <1>5, <1>9
<1>10. ASSUME NEW a \in Actors, Stays(a) PROVE Goal
  <2>1. /\ Others(a) /\ rows' = rows /\ act'[a].op = act[a].op /\ act'[a].path = act[a].path /\ act'[a].note = act[a].note
        /\ \/ /\ act[a].at = "lock" /\ act'[a].at = "tx"
              /\ act[a].op \in ById => act'[a].seen = act[a].note
              /\ act[a].op \in ByPath => Was(act'[a].seen, act[a].path)
           \/ act[a].at = "tx" /\ act'[a].at = "lock" /\ act[a].op \in {"edit", "relink"}
           \/ /\ act[a].at = "tx" /\ act'[a].at = "found" /\ act[a].op = "rename" /\ act'[a].seen = act[a].seen
              /\ Was(act[a].seen, act[a].path) /\ ~Locked(act[a].seen)
    BY <1>10 DEF Stays, LiveAt, Live
  <2>2. CASE act[a].at = "lock" /\ act'[a].at = "tx"
    <3>1. ASSUME a \in Clients, act[a].op \in ById
          PROVE  \/ rows'[act'[a].note].at = "trash" /\ rows'[act'[a].note].path = act'[a].path
                 \/ "missing" \in could'[a]
      <4>1. CASE "missing" \in could[a]
        BY <1>4, <2>1, <2>2, <3>1, <4>1, Noticed
      <4>2. CASE rows[act[a].note].at = "trash" /\ rows[act[a].note].path = act[a].path
        BY <2>1, <4>2
      <4> QED
        BY <1>2, <2>2, <3>1, <4>1, <4>2
    <3>2. act[a].op \in ById => act[a].op \notin ByPath
      BY DEF ById, ByPath
    <3>3. a \in Clients => Fine(a)
      BY <2>1, <2>2, <3>1, <3>2
    <3> QED
      BY <1>7, <2>1, <2>2, <3>3
  <2>3. CASE act[a].at = "tx" /\ act'[a].at = "lock"
    <3>1. act'[a].op \notin ById
      BY <2>1, <2>3 DEF ById
    <3> QED
      BY <1>6, <1>7, <2>1, <2>3, <3>1
  <2>4. CASE act'[a].at = "found"
    <3>1. /\ act'[a].seen = act[a].seen /\ Was(act[a].seen, act[a].path)
          /\ \A b \in Actors : ~(act[b].at = "found" /\ act[b].seen = act[a].seen)
      BY <2>1, <2>4 DEF Locked, At
    <3>2. Fine(a)
      BY <2>1, <2>4, <3>1
    <3>3. \A b \in Actors \ {a} : act'[b] = act[b]
      BY <2>1 DEF Others
    <3>4. ASSUME NEW c \in Clients PROVE Fine(c)
      <4>1. CASE c = a
        BY <3>2, <4>1
      <4>2. CASE c # a
        <5>1. act'[c] = act[c]
          BY <1>4, <3>3, <4>2
        <5> QED
          BY <1>5, <5>1
      <4> QED
        BY <4>1, <4>2
    <3>5. Alone
      BY <1>2, <1>4, <3>1, <3>3
    <3> QED
      BY <3>4, <3>5
  <2> QED
    BY <2>1, <2>2, <2>3, <2>4
<1>11. ASSUME NEW c \in Clients, Performed(c) \/ Moved(c) PROVE Goal
  <2>1. Others(c) /\ act'[c].at \in {"idle", "relink"}
    BY <1>11, IdleShape DEF Performed, Moved
  <2> QED
    BY <1>4, <1>6, <1>7, <2>1
<1>12. ASSUME NEW c \in Clients, Sought(c) PROVE Goal
  <2>1. /\ Others(c) /\ act'[c].at = "lock" /\ rows' = rows /\ act'[c].note = act[c].note /\ act'[c].op = act[c].op
        /\ act[c].at = "seek" /\ rows[act[c].note].at = "trash" /\ rows[act[c].note].path = act'[c].path
    BY <1>12 DEF Sought, Enters
  <2> QED
    BY <1>4, <1>7, <2>1
<1>13. ASSUME NEW c \in Clients, NEW k \in Calls, Called(c, k) PROVE Goal
  <2>1. Others(c) /\ act'[c].at \in {"seek", "lock"} /\ (act'[c].at = "lock" => act'[c].op \notin ById)
    BY <1>13 DEF Called, Enters
  <2> QED
    BY <1>4, <1>6, <1>7, <2>1
<1>14. ASSUME Handed PROVE Goal
  <2>1. ASSUME NEW s \in Servers, Others(s) PROVE Goal
    BY <1>4, <1>7, <2>1
  <2> QED
    BY <1>9, <1>14, <2>1 DEF Handed
<1>15. ASSUME NEW s \in Servers, Died(s) PROVE Goal
  <2>1. \A c \in Clients : act'[c] = act[c] \/ act'[c].at = "idle"
    BY <1>4, <1>15, CrashIs, IdleShape
  <2>2. ASSUME NEW c \in Clients PROVE Fine(c)
    BY <1>5, <1>6, <2>1
  <2>3. Alone
    BY <1>2, <2>1
  <2> QED
    BY <2>2, <2>3
<1> QED
  BY <1>8, <1>9, <1>10, <1>11, <1>12, <1>13, <1>14, <1>15 DEF Kinds, Asks, SecondKey

\* The paths a note has had are kept, and the one it has is among them.
LEMMA HomesGrow ==
  ASSUME LInv, Kinds
  PROVE  /\ homes' \in [Notes -> SUBSET Paths]
         /\ \A n \in Notes : homes[n] \subseteq homes'[n]
         /\ \A n \in Notes : IF rows'[n].at = "none" THEN homes'[n] = {} ELSE rows'[n].path \in homes'[n]
<1> DEFINE Goal == /\ homes' \in [Notes -> SUBSET Paths]
                   /\ \A n \in Notes : homes[n] \subseteq homes'[n]
                   /\ \A n \in Notes : IF rows'[n].at = "none" THEN homes'[n] = {} ELSE rows'[n].path \in homes'[n]
<1>1. /\ homes \in [Notes -> SUBSET Paths]
      /\ \A n \in Notes : IF rows[n].at = "none" THEN homes[n] = {} ELSE rows[n].path \in homes[n]
      /\ rows' \in [Notes -> Row] /\ \A n \in Notes : rows'[n].path = 0 <=> rows'[n].at = "none"
      /\ \A c \in Clients : c \in Actors
  BY KindVault, RowsStep, Typed DEF LInv, IInv, HomesOK, RowsOK
<1>2. ASSUME \A n \in Notes : rows'[n].at = rows[n].at /\ rows'[n].path = rows[n].path, homes' = homes PROVE Goal
  BY <1>1, <1>2
<1>3. ASSUME Keeps, homes' = homes PROVE Goal
  BY <1>2, <1>3, VaultNext DEF Keeps
<1>4. ASSUME NEW a \in Actors, Relinks(a), homes' = homes PROVE Goal
  <2>1. PICK r \in Notes : \E from, to \in homes[act[a].note] :
          Vault' = [Vault EXCEPT ![r].links = Directory!Rewritten(@, from, to)]
    BY <1>4 DEF Relinks
  <2>2. PICK links : Vault' = [Vault EXCEPT ![r].links = links]
    BY <2>1
  <2>3. Vault'[r] = [Vault[r] EXCEPT !.links = links] /\ \A n \in Notes \ {r} : Vault'[n] = Vault[n]
    BY <2>2 DEF Vault, Seen
  <2>4. \A n \in Notes : Vault'[n].at = Vault[n].at /\ Vault'[n].path = Vault[n].path
    BY <2>3, VaultRow
  <2> QED
    BY <1>2, <1>4, <2>4, VaultNext
<1>5. ASSUME NEW c \in Clients, act[c].op \in ByPath \cup ById, Takes(c) PROVE Goal
  <2>1. PICK n \in Notes : Turns(call[c], n) /\ homes' = [homes EXCEPT ![n] = @ \cup {rows'[n].path}]
    BY <1>5, TakesTurn
  <2>2. \A m \in Notes \ {n} : rows'[m].at = rows[m].at /\ rows'[m].path = rows[m].path /\ homes'[m] = homes[m]
    BY <1>1, <2>1 DEF Turns, Rests
  <2>3. rows'[n].at # "none"
    BY <2>1 DEF Turns, LiveAt, Live, Rests
  <2>4. rows'[n].path \in Paths
    BY <1>1, <2>3 DEF Row
  <2>5. homes'[n] = homes[n] \cup {rows'[n].path}
    BY <1>1, <2>1
  <2> QED
    BY <1>1, <2>1, <2>2, <2>3, <2>4, <2>5
<1> HIDE DEF Goal
<1>6. ASSUME NEW a \in Actors, Refused(a) \/ Again(a) \/ Settles(a) \/ Looked(a) \/ Asks(a) \/ Stays(a) PROVE Goal
  <2>1. homes' = homes /\ (Keeps \/ Relinks(a) \/ rows' = rows)
    BY <1>6 DEF Refused, Again, Settles, Looked, Asks, SecondKey, Stays, Same
  <2> QED
    BY <1>2, <1>3, <1>4, <2>1
<1>7. ASSUME NEW c \in Clients, Performed(c) \/ Moved(c) PROVE Goal
  <2>1. act[c].op \in ByPath \cup ById /\ Takes(c)
    BY <1>7, Typed DEF Performed, Moved, TaskOK, TaskShape, ByPath
  <2> QED
    BY <1>5, <2>1
<1>8. ASSUME NEW c \in Clients, Sought(c) \/ \E k \in Calls : Called(c, k) PROVE Goal
  BY <1>2, <1>8 DEF Sought, Called, Same
<1>9. ASSUME Handed PROVE Goal
  BY <1>2, <1>9 DEF Handed, Same
<1>10. ASSUME NEW s \in Servers, Died(s) PROVE Goal
  BY <1>3, <1>10, CrashIs
<1> QED
  BY <1>6, <1>7, <1>8, <1>9, <1>10 DEF Kinds, Goal

LEMMA HomesStep ==
  ASSUME LInv, Kinds
  PROVE  HomesOK'
<1> DEFINE Fine(a) == act'[a].op = "relink" =>
                        /\ act'[a].from \in homes'[act'[a].note]
                        /\ act'[a].ref # "none" => act'[a].linked \in homes'[act'[a].note]
                        /\ act'[a].at \in {"lock", "tx", "settle"} => act'[a].to \in homes'[act'[a].note]
           Kept2 == \A j \in jobs' : j.from \in homes'[j.note]
           Goal == Kept2 /\ \A a \in Actors : Fine(a)
<1>1. SUFFICES Goal
  BY HomesGrow DEF HomesOK
<1>2. /\ \A n \in Notes : homes[n] \subseteq homes'[n]
      /\ \A n \in Notes : IF rows[n].at = "none" THEN homes[n] = {} ELSE rows[n].path \in homes[n]
      /\ \A a \in Actors : act[a].op = "relink" =>
           /\ act[a].note \in Notes
           /\ act[a].from \in homes[act[a].note]
           /\ act[a].ref # "none" => act[a].linked \in homes[act[a].note]
           /\ act[a].at \in {"lock", "tx", "settle"} => act[a].to \in homes[act[a].note]
      /\ \A j \in jobs : j.from \in homes[j.note] /\ j.note \in Notes
      /\ \A c \in Clients : c \in Actors
      /\ \A s \in Servers : s \in Actors
  BY HomesGrow, Typed DEF LInv, IInv, HomesOK, JobsOK, TaskOK, TaskNames, Written
<1>3. ASSUME NEW a \in Actors, act'[a] = act[a] PROVE Fine(a)
  BY <1>2, <1>3
<1>4. ASSUME jobs' \subseteq jobs PROVE Kept2
  BY <1>2, <1>4
<1>5. ASSUME NEW a \in Actors, Others(a), Kept2, Fine(a) PROVE Goal
  <2>1. \A b \in Actors \ {a} : act'[b] = act[b]
    BY <1>5 DEF Others
  <2>2. ASSUME NEW b \in Actors PROVE Fine(b)
    BY <1>3, <1>5, <2>1
  <2> QED
    BY <1>5, <2>2
<1>6. ASSUME NEW a \in Actors, act'[a].op # "relink" PROVE Fine(a)
  BY <1>6
\* Work on the same rename goes on.
<1>7. ASSUME NEW a \in Actors, act[a].op = "relink", act'[a].note = act[a].note, act'[a].from = act[a].from,
             act'[a].ref # "none" => act'[a].linked \in homes[act[a].note],
             act'[a].at \in {"lock", "tx", "settle"} => act'[a].to \in homes[act[a].note]
      PROVE  Fine(a)
  BY <1>2, <1>7
<1> HIDE DEF Fine, Kept2
<1>8. ASSUME NEW a \in Actors, Refused(a) PROVE Goal
  <2>1. Others(a) /\ act'[a] = Idle /\ jobs' \subseteq jobs
    BY <1>8 DEF Refused
  <2> QED
    BY <1>4, <1>5, <1>6, <2>1, IdleShape
<1>9. ASSUME NEW a \in Actors, Again(a) PROVE Goal
  <2>1. /\ Others(a) /\ jobs' = jobs /\ act[a].op = "relink" /\ act'[a].note = act[a].note /\ act'[a].from = act[a].from
        /\ act'[a].at = "relink" /\ (act'[a].ref # "none" => act'[a].linked \in homes[act[a].note])
    BY <1>9 DEF Again
  <2> QED
    BY <1>4, <1>5, <1>7, <2>1
<1>10. ASSUME NEW a \in Actors, Settles(a) PROVE Goal
  <2>1. /\ Others(a) /\ jobs' = jobs /\ act[a].op = "relink" /\ act'[a].note = act[a].note /\ act'[a].from = act[a].from
        /\ act'[a].ref = act[a].ref /\ act'[a].linked = act[a].linked /\ act'[a].to = act[a].to /\ act[a].at = "tx"
    BY <1>10 DEF Settles
  <2> QED
    BY <1>2, <1>4, <1>5, <1>7, <2>1
<1>11. ASSUME NEW a \in Actors, Looked(a) PROVE Goal
  <2>1. /\ Others(a) /\ jobs' = jobs /\ act[a].at = "relink" /\ act'[a].note = act[a].note /\ act'[a].from = act[a].from
        /\ act'[a].linked \in homes[act[a].note] /\ act'[a].to \in homes[act[a].note]
    BY <1>11 DEF Looked
  <2>2. act[a].op = "relink"
    BY <2>1, Typed DEF TaskOK, TaskShape
  <2> QED
    BY <1>4, <1>5, <1>7, <2>1, <2>2
<1>12. ASSUME NEW a \in Actors, Asks(a) PROVE Goal
  <2>1. act' = act /\ jobs' = jobs
    BY <1>12 DEF Asks, SecondKey
  <2> QED
    BY <1>3, <1>4, <2>1
<1>13. ASSUME NEW a \in Actors, Stays(a) PROVE Goal
  <2>1. /\ Others(a) /\ jobs' = jobs /\ act'[a].op = act[a].op /\ act'[a].note = act[a].note /\ act'[a].from = act[a].from
        /\ act'[a].ref = act[a].ref /\ act'[a].linked = act[a].linked /\ act'[a].to = act[a].to /\ act[a].at \in {"lock", "tx"}
    BY <1>13 DEF Stays
  <2> QED
    BY <1>2, <1>4, <1>5, <1>6, <1>7, <2>1
<1>14. ASSUME NEW c \in Clients, Performed(c) PROVE Goal
  <2>1. Others(c) /\ act'[c] = Idle /\ jobs' = jobs
    BY <1>14 DEF Performed
  <2> QED
    BY <1>2, <1>4, <1>5, <1>6, <2>1, IdleShape
<1>15. ASSUME NEW c \in Clients, Moved(c) PROVE Goal
  <2>1. /\ Others(c) /\ act[c].at = "found" /\ act'[c].at = "relink" /\ act'[c].ref = "none"
        /\ act'[c].note = act[c].seen /\ act'[c].from = act[c].path
        /\ \E j \in Job : jobs' = jobs \cup {j} /\ j.note = act[c].seen /\ j.from = act[c].path
    BY <1>15 DEF Moved
  <2>2. act[c].seen \in Notes /\ rows[act[c].seen].at = "live" /\ rows[act[c].seen].path = act[c].path
    BY <2>1, Typed DEF LInv, StandsOK, LiveAt, Live, TaskOK, TaskNames, Written
  <2>3. act[c].path \in homes'[act[c].seen]
    BY <1>2, <2>2
  <2>4. Fine(c)
    BY <2>1, <2>3 DEF Fine
  <2>5. Kept2
    BY <1>2, <2>1, <2>3 DEF Kept2
  <2> QED
    BY <1>2, <1>5, <2>1, <2>4, <2>5
<1>16. ASSUME NEW c \in Clients, Sought(c) PROVE Goal
  <2>1. Others(c) /\ jobs' = jobs /\ act'[c].op = act[c].op /\ act[c].at = "seek"
    BY <1>16 DEF Sought
  <2>2. act[c].op # "relink"
    BY <1>2, <2>1, Typed DEF TaskOK, TaskShape, ById
  <2> QED
    BY <1>2, <1>4, <1>5, <1>6, <2>1, <2>2
<1>17. ASSUME NEW c \in Clients, NEW k \in Calls, Called(c, k) PROVE Goal
  <2>1. Others(c) /\ jobs' = jobs /\ act'[c].op = k.op
    BY <1>17 DEF Called
  <2>2. k.op # "relink"
    BY CallsAre DEF ByPath, ById
  <2> QED
    BY <1>2, <1>4, <1>5, <1>6, <2>1, <2>2
<1>18. ASSUME Handed PROVE Goal
  <2>1. /\ \A j \in jobs' : \E i \in jobs : i.note = j.note /\ i.from = j.from
        /\ homes' = homes
    BY <1>18 DEF Handed, Same
  <2>2. Kept2
    BY <1>2, <2>1 DEF Kept2
  <2>3. CASE act' = act
    BY <1>3, <2>2, <2>3
  <2>4. ASSUME NEW s \in Servers, Others(s), act'[s].at = "relink", act'[s].ref = "none", NEW j \in jobs,
               act'[s].note = j.note, act'[s].from = j.from
        PROVE  Goal
    <3>1. Fine(s)
      BY <1>2, <2>4 DEF Fine
    <3> QED
      BY <1>2, <1>5, <2>2, <2>4, <3>1
  <2> QED
    BY <1>18, <2>3, <2>4 DEF Handed
<1>19. ASSUME NEW s \in Servers, Died(s) PROVE Goal
  <2>1. jobs' = jobs /\ \A a \in Actors : act'[a] = act[a] \/ act'[a].op # "relink"
    BY <1>19, CrashIs, IdleShape
  <2> QED
    BY <1>3, <1>4, <1>6, <2>1
<1> QED
  BY <1>8, <1>9, <1>10, <1>11, <1>12, <1>13, <1>14, <1>15, <1>16, <1>17, <1>18, <1>19 DEF Kinds

LEMMA RepliesStep ==
  ASSUME LInv, Kinds
  PROVE  RepliesOK'
<1> DEFINE Answers == {"none", "missing", "exists", "done", "busy", "lost"}
<1>1. SUFFICES reply' \in [Clients -> Answers]
  BY DEF RepliesOK
<1>2. reply \in [Clients -> Answers] /\ \A c \in Clients : could[c] \subseteq {"missing", "exists"}
  BY DEF LInv, RepliesOK, CouldOK
<1>3. ASSUME reply' = reply PROVE reply' \in [Clients -> Answers]
  BY <1>2, <1>3
<1>4. ASSUME NEW c \in Clients, NEW why \in Answers, reply' = [reply EXCEPT ![c] = why] PROVE reply' \in [Clients -> Answers]
  BY <1>2, <1>4
<1>5. ASSUME NEW a \in Actors, Refused(a) PROVE reply' \in [Clients -> Answers]
  <2>1. CASE a \in Clients
    <3>1. PICK why \in IF act[a].op = "relink" THEN {"done", "busy"} ELSE could[a] \cup {"busy"} :
            reply' = [reply EXCEPT ![a] = why]
      BY <1>5, <2>1 DEF Refused
    <3>2. why \in Answers
      BY <1>2, <2>1
    <3> QED
      BY <1>4, <2>1, <3>1, <3>2
  <2>2. CASE a \notin Clients
    BY <1>3, <1>5, <2>2 DEF Refused
  <2> QED
    BY <2>1, <2>2
<1>6. ASSUME NEW a \in Actors, Again(a) \/ Settles(a) \/ Looked(a) \/ Asks(a) \/ Stays(a) PROVE reply' = reply
  BY <1>6 DEF Again, Settles, Looked, Asks, SecondKey, Stays, Same
<1>7. ASSUME NEW c \in Clients, Moved(c) \/ Sought(c) PROVE reply' = reply
  BY <1>7 DEF Moved, Sought, Same
<1>8. ASSUME NEW c \in Clients, Performed(c) \/ \E k \in Calls : Called(c, k) PROVE reply' \in [Clients -> Answers]
  BY <1>4, <1>8 DEF Performed, Called
<1>9. ASSUME Handed PROVE reply' = reply
  BY <1>9 DEF Handed, Same
<1>10. ASSUME NEW s \in Servers, Died(s) PROVE reply' \in [Clients -> Answers]
  BY <1>2, <1>10, CrashIs
<1> QED
  BY <1>3, <1>5, <1>6, <1>7, <1>8, <1>9, <1>10 DEF Kinds
-----------------------------------------------------------------------------
(* The invariant *)

LEMMA LInit ==
  ASSUME Init
  PROVE  LInv
<1> USE DEF Init
<1>1. act = [a \in Actors |-> Idle] /\ \A a \in Actors : act[a] = Idle
  OBVIOUS
<1>2. \A c \in Clients : c \in Actors
  BY DEF Actors
<1>3. Idle.op = "none" /\ Idle.at = "idle" /\ Idle.keys = <<>>
  BY DEF Idle
<1>4. RunsOK
  BY DEF RunsOK
<1>5. RowsOK
  BY StartAssumption DEF RowsOK, Live
<1>6. TasksOK
  <2>1. Idle \in Task
    <3>1. <<>> \in Keys
      BY DEF Keys
    <3> QED
      BY <3>1 DEF Idle, Task, Phases
  <2>2. \A a \in Actors : TaskShape(a, Idle)
    BY IdleShape
  <2>3. TaskNames(Idle)
    BY <1>3 DEF TaskNames
  <2> QED
    BY <1>1, <2>1, <2>2, <2>3 DEF TasksOK, TaskOK
<1>7. JobsOK
  BY DEF JobsOK
<1>8. QueuesOK
  <2>1. /\ queue \in [Servers -> [Paths -> Seq(Actors)]]
        /\ \A s \in Servers, p \in Paths : queue[s][p] = <<>>
    <3>1. [p \in Paths |-> <<>>] \in [Paths -> Seq(Actors)]
      OBVIOUS
    <3> QED
      BY <3>1
  <2>2. \A s \in Servers, p \in Paths : DOMAIN queue[s][p] = {}
    BY <2>1
  <2>3. Served(queue)
    BY <2>1, <2>2 DEF Served
  <2>4. \A a \in Actors, p \in Paths : ~In(queue, a, p)
    BY <1>4, <2>2, ServerIs DEF In
  <2>5. ASSUME NEW a \in Actors PROVE Ordered(queue, a, act[a].keys, act[a].at)
    BY <1>1, <1>3, <2>4, KeylessOrdered
  <2> QED
    BY <2>3, <2>5 DEF QueuesOK
<1>9. AskedOK
  BY <1>1, <1>2, <1>3 DEF AskedOK, At, ByPath, ById
<1>10. StandsOK
  BY <1>1, <1>2, <1>3 DEF StandsOK
<1>11. CouldOK
  BY DEF CouldOK
<1>12. HomesOK
  <2>1. rows = Start /\ \A n \in Notes : rows[n] \in Row /\ (rows[n].path = 0 <=> rows[n].at = "none")
    BY StartAssumption
  <2>2. \A n \in Notes : rows[n].at # "none" => rows[n].path \in Paths
    BY <2>1 DEF Row
  <2>3. homes \in [Notes -> SUBSET Paths]
    BY <2>2
  <2>4. \A n \in Notes : IF rows[n].at = "none" THEN homes[n] = {} ELSE rows[n].path \in homes[n]
    OBVIOUS
  <2>5. \A a \in Actors : act[a].op # "relink"
    BY <1>1, <1>3
  <2>6. \A j \in jobs : FALSE
    OBVIOUS
  <2> HIDE DEF Init
  <2> QED
    BY <2>3, <2>4, <2>5, <2>6 DEF HomesOK
<1>13. RepliesOK
  BY DEF RepliesOK
<1> QED
  BY <1>4, <1>5, <1>6, <1>7, <1>8, <1>9, <1>10, <1>11, <1>12, <1>13 DEF LInv, IInv

LEMMA LStutter ==
  ASSUME LInv, UNCHANGED vars
  PROVE  LInv'
<1> USE DEF vars, LInv, IInv
<1>1. RunsOK' /\ RowsOK' /\ JobsOK' /\ RepliesOK'
  BY DEF RunsOK, RowsOK, Live, JobsOK, Written, RepliesOK
<1>2. TasksOK'
  BY DEF TasksOK, TaskOK, TaskShape, TaskNames, Written
<1>3. QueuesOK'
  BY DEF QueuesOK, Served, Ordered, In, First, Server
<1>4. AskedOK' /\ StandsOK' /\ HomesOK'
  BY DEF AskedOK, At, StandsOK, LiveAt, Live, HomesOK
<1>5. Vault' = Vault
  BY DEF Vault, Seen
<1>6. CouldOK'
  BY <1>5 DEF CouldOK
<1> QED
  BY <1>1, <1>2, <1>3, <1>4, <1>6

LEMMA LStep ==
  ASSUME LInv, [Next]_vars
  PROVE  LInv'
<1>1. CASE Steps /\ Directory!Watch
  <2>1. Kinds /\ UNCHANGED <<fleet, host>>
    BY <1>1, StepKinds, RunsStay
  <2> QED
    BY <1>1, <2>1, InvStep, AskedStep, StandsStep, CouldStep, HomesStep, RepliesStep DEF LInv
<1>2. CASE UNCHANGED vars
  BY <1>2, LStutter
<1> QED
  BY <1>1, <1>2 DEF Next, Finished

LEMMA Invariant ==
  Spec => []LInv
<1>1. Init => LInv
  BY LInit
<1>2. LInv /\ [Next]_vars => LInv'
  BY LStep
<1> QED
  BY <1>1, <1>2, PTL DEF Spec

LEMMA TypesHold ==
  ASSUME LInv
  PROVE  TypeOK
<1> USE DEF LInv, IInv
<1>1. ASSUME NEW n \in Notes
      PROVE  /\ rows[n].at \in Ats /\ rows[n].seq \in Nat /\ rows[n].links \subseteq Links
             /\ rows[n].path \in IF rows[n].at = "none" THEN {0} ELSE Paths
  BY DEF RowsOK, Row
<1>2. \A n, m \in Notes : Live(n) /\ LiveAt(m, rows[n].path) => n = m
  BY DEF RowsOK, LiveAt, Live
<1>3. ASSUME NEW s \in Servers, NEW p \in Paths
      PROVE  LET q == queue[s][p] IN
               \A i, k \in DOMAIN q : q[i] \in Actors /\ Server(q[i]) = s /\ (q[i] = q[k] => i = k)
  <2>1. queue[s][p] \in Seq(Actors)
    BY DEF QueuesOK, Served
  <2> QED
    BY <2>1 DEF QueuesOK, Served
<1>4. \A a \in Actors : act[a].at \in {"idle", "seek", "lock", "tx", "found", "relink", "settle"}
  BY Typed DEF Task, Phases
<1>5. \A j \in jobs : j.note \in Notes /\ j.from \in Paths /\ j.refs \subseteq Notes /\ j.lease \in {"held", "past"}
  BY DEF JobsOK, Job
<1> QED
  BY <1>1, <1>2, <1>3, <1>4, <1>5 DEF TypeOK

\* The rows, jobs and queues keep their types; no two live notes have one path, and no actor is twice in a key's queue
\* or in one of another process: the unique index and withKeyLocks, for any number of callers and processes.
THEOREM TypeCorrect == Spec => []TypeOK
<1>1. LInv => TypeOK
  BY TypesHold
<1> QED
  BY <1>1, Invariant, PTL

\* Writers that wait for key locks never wait for each other in a circle: withKeyLocks takes two keys in sorted order,
\* and a link is rewritten under one key at a time, with none held.
THEOREM KeysNeverDeadlock == Spec => []NoWaitCycle
<1>1. LInv => NoWaitCycle
  BY NoCycle DEF LInv
<1> QED
  BY <1>1, Invariant, PTL
-----------------------------------------------------------------------------
(* The store implements NoteDirectory *)

DirectoryVars == <<Vault, homes, call, Applied, could, reply>>

LEMMA AppliedIs ==
  /\ Applied = {c \in Clients : act[c].op = "relink"}
  /\ Applied' = {c \in Clients : act'[c].op = "relink"}
BY DEF Applied, Op

\* Nothing the callers can see changes.
LEMMA Unseen ==
  ASSUME LInv, Directory!Watch, Keeps, UNCHANGED <<homes, call, reply>>,
         \A c \in Clients : act'[c].op = "relink" <=> act[c].op = "relink"
  PROVE  UNCHANGED DirectoryVars
<1>1. could' = [c \in Clients |-> IF call'[c] = NoCall THEN {} ELSE could[c] \cup Directory!Refusals(call'[c], Vault')]
  BY DEF Directory!Watch, Directory!NoCall, NoCall
<1>2. Vault' = Vault
  BY DEF Keeps
<1>3. /\ could \in [Clients -> SUBSET {"missing", "exists"}]
      /\ \A c \in Clients : IF call[c] = NoCall THEN could[c] = {} ELSE Directory!Refusals(call[c], Vault) \subseteq could[c]
  BY DEF LInv, CouldOK
<1>4. \A c \in Clients : could'[c] = could[c]
  BY <1>1, <1>2, <1>3
<1>5. could' = could
  BY <1>1, <1>3, <1>4
<1>6. Applied' = Applied
  BY AppliedIs
<1> QED
  BY <1>2, <1>5, <1>6 DEF DirectoryVars

\* Another link follows its note.
LEMMA LinkFollows ==
  ASSUME LInv, NEW a \in Actors, act[a].op = "relink", Relinks(a), UNCHANGED <<homes, call, reply>>,
         \A c \in Clients : act'[c].op = "relink" <=> act[c].op = "relink"
  PROVE  \E r, n \in Notes : Directory!Relink(r, n)
<1>1. PICK r \in Notes : Live(r) /\ \E from, to \in homes[act[a].note] :
        Vault' = [Vault EXCEPT ![r].links = Directory!Rewritten(@, from, to)]
  BY DEF Relinks
<1>2. act[a].note \in Notes
  BY Typed DEF TaskOK, TaskNames, Written
<1>3. Vault[r].at = "live"
  BY <1>1, VaultNext DEF Live
<1>4. Applied' = Applied
  BY AppliedIs
<1>5. Directory!Relink(r, act[a].note)
  BY <1>1, <1>3, <1>4 DEF Directory!Relink
<1> QED
  BY <1>2, <1>5

LEMMA DirectoryStep ==
  ASSUME LInv, Steps, Directory!Watch
  PROVE  Directory!Next \/ UNCHANGED DirectoryVars
<1>1. /\ \A c \in Clients : c \in Actors
      /\ \A s \in Servers : s \in Actors /\ s \notin Clients
      /\ \A c \in Clients : call[c] = NoCall <=> act[c].at = "idle"
      /\ \A a \in Actors : act[a].at = "idle" <=> act[a].op = "none"
      /\ \A a \in Actors : act[a].at = "seek" => act[a].op \in ById
      /\ \A a \in Actors : act[a].at = "relink" => act[a].op = "relink"
      /\ \A c \in Clients : act[c].at = "found" => act[c].op = "rename" /\ call[c].op = "rename"
  BY Typed, NamesAssumption DEF LInv, AskedOK, At, TaskOK, TaskShape, ByPath
<1> DEFINE Goal == Directory!Next \/ UNCHANGED DirectoryVars
<1>2. ASSUME NEW c \in Clients,
             Directory!Perform(c) \/ Directory!Refuse(c) \/ Directory!Finish(c) \/ \E k \in Calls : Directory!Call(c, k)
      PROVE  Goal
  BY <1>2 DEF Directory!Next
<1>3. ASSUME \E r, n \in Notes : Directory!Relink(r, n) PROVE Goal
  BY <1>3 DEF Directory!Next
<1>4. ASSUME NEW lost \in SUBSET Clients, Directory!Lose(lost) PROVE Goal
  BY <1>4 DEF Directory!Next
<1> HIDE DEF Goal
\* A call that is refused, and a rename whose links are done.
<1>5. ASSUME NEW a \in Actors, Refused(a) PROVE Goal
  <2>1. /\ act[a].at # "idle" /\ act'[a].op = "none" /\ \A b \in Actors \ {a} : act'[b] = act[b]
        /\ Vault' = Vault /\ Keeps /\ homes' = homes
    BY <1>5, IdleShape DEF Refused, At, Others, Keeps
  <2>2. CASE a \in Clients
    <3>1. PICK why \in IF act[a].op = "relink" THEN {"done", "busy"} ELSE could[a] \cup {"busy"} :
            call' = [call EXCEPT ![a] = NoCall] /\ reply' = [reply EXCEPT ![a] = why]
      BY <1>5, <2>2 DEF Refused
    <3>2. Directory!Answer(a, why)
      BY <3>1 DEF Directory!Answer, Directory!NoCall, NoCall
    <3>3. call[a] # Directory!NoCall
      BY <1>1, <2>1, <2>2 DEF Directory!NoCall, NoCall
    <3>4. CASE act[a].op = "relink"
      <4>1. a \in Applied /\ Applied' = Applied \ {a}
        BY <1>1, <2>1, <2>2, <3>4, AppliedIs
      <4>2. Directory!Finish(a)
        BY <2>1, <3>1, <3>2, <3>4, <4>1 DEF Directory!Finish
      <4> QED
        BY <1>2, <2>2, <4>2
    <3>5. CASE act[a].op # "relink"
      <4>1. a \notin Applied /\ Applied' = Applied
        BY <1>1, <2>1, <2>2, <3>5, AppliedIs
      <4>2. Directory!Refuse(a)
        BY <2>1, <3>1, <3>2, <3>3, <3>5, <4>1 DEF Directory!Refuse
      <4> QED
        BY <1>2, <2>2, <4>2
    <3> QED
      BY <3>4, <3>5
  <2>3. CASE a \notin Clients
    <3>1. call' = call /\ reply' = reply
      BY <1>5, <2>3 DEF Refused
    <3>2. \A c \in Clients : act'[c] = act[c]
      BY <1>1, <2>1, <2>3
    <3> QED
      BY <2>1, <3>1, <3>2, Unseen DEF Goal
  <2> QED
    BY <2>2, <2>3
\* The moment a call takes effect.
<1>6. ASSUME NEW c \in Clients, act[c].op \in ByPath \cup ById, act[c].at # "idle", Takes(c) PROVE
        /\ call[c] # Directory!NoCall /\ c \notin Applied
        /\ \E n \in Notes : Directory!Effect(call[c], n) /\ homes' = [homes EXCEPT ![n] = @ \cup {Vault'[n].path}]
  <2>1. call[c] # Directory!NoCall
    BY <1>1, <1>6 DEF Directory!NoCall, NoCall
  <2>2. c \notin Applied
    BY <1>6, AppliedIs DEF ByPath, ById
  <2> QED
    BY <1>6, <2>1, <2>2 DEF Takes
<1>7. ASSUME NEW c \in Clients, Performed(c) PROVE Goal
  <2>1. /\ act[c].op \in ByPath \cup ById /\ act'[c].op = "none" /\ \A b \in Actors \ {c} : act'[b] = act[b] /\ Takes(c)
        /\ call' = [call EXCEPT ![c] = NoCall] /\ reply' = [reply EXCEPT ![c] = "done"]
    BY <1>7, IdleShape DEF Performed, Others
  <2>2. act[c].at # "idle"
    BY <1>1, <2>1 DEF ByPath, ById
  <2>3. Applied' = Applied
    BY <1>1, <2>1, AppliedIs DEF ByPath, ById
  <2>4. Directory!Answer(c, "done")
    BY <2>1 DEF Directory!Answer, Directory!NoCall, NoCall
  <2>5. Takes(c)
    BY <1>7 DEF Performed
  <2>6. Directory!Perform(c)
    BY <1>6, <2>1, <2>2, <2>3, <2>4, <2>5 DEF Directory!Perform
  <2> QED
    BY <1>2, <2>6
<1>8. ASSUME NEW c \in Clients, Moved(c) PROVE Goal
  <2>1. /\ act[c].at = "found" /\ act'[c].op = "relink" /\ \A b \in Actors \ {c} : act'[b] = act[b]
        /\ Takes(c) /\ UNCHANGED <<call, reply>>
    BY <1>8 DEF Moved, Others
  <2>2. act[c].op \in ByPath \cup ById /\ call[c].op = "rename"
    BY <1>1, <2>1 DEF ByPath
  <2>3. Applied' = Applied \cup {c}
    BY <1>1, <2>1, AppliedIs
  <2>4. Takes(c) /\ UNCHANGED <<call, reply>>
    BY <1>8 DEF Moved
  <2>5. Directory!Perform(c)
    BY <1>6, <2>1, <2>2, <2>3, <2>4 DEF Directory!Perform
  <2> QED
    BY <1>2, <2>5
\* A rename that rewrites links.
<1>9. ASSUME NEW a \in Actors, Again(a) \/ Settles(a) PROVE Goal
  <2>1. /\ act[a].op = "relink" /\ act'[a].op = "relink" /\ \A b \in Actors \ {a} : act'[b] = act[b]
        /\ UNCHANGED <<homes, call, reply>> /\ (Keeps \/ Relinks(a))
    BY <1>9 DEF Again, Settles, Others, Same
  <2>2. \A c \in Clients : act'[c].op = "relink" <=> act[c].op = "relink"
    BY <1>1, <2>1
  <2>3. CASE Keeps
    BY <2>1, <2>2, <2>3, Unseen DEF Goal
  <2>4. CASE Relinks(a)
    BY <1>3, <2>1, <2>2, <2>4, LinkFollows
  <2> QED
    BY <2>1, <2>3, <2>4
\* What callers do not see.
<1>10. ASSUME NEW a \in Actors, Looked(a) \/ Asks(a) \/ Stays(a) PROVE Goal
  <2>1. /\ act'[a].op = act[a].op /\ \A b \in Actors \ {a} : act'[b] = act[b]
        /\ UNCHANGED <<homes, call, reply>> /\ (Keeps \/ rows' = rows)
    BY <1>1, <1>10 DEF Looked, Asks, SecondKey, Stays, Others, Same
  <2>2. \A c \in Clients : act'[c].op = "relink" <=> act[c].op = "relink"
    BY <1>1, <2>1
  <2> QED
    BY <2>1, <2>2, Kept, Unseen DEF Goal
<1>11. ASSUME NEW c \in Clients, Sought(c) PROVE Goal
  <2>1. /\ act'[c].op = act[c].op /\ \A b \in Actors \ {c} : act'[b] = act[b]
        /\ UNCHANGED <<homes, call, reply>> /\ rows' = rows
    BY <1>11 DEF Sought, Others, Same
  <2>2. \A d \in Clients : act'[d].op = "relink" <=> act[d].op = "relink"
    BY <1>1, <2>1
  <2> QED
    BY <2>1, <2>2, Kept, Unseen DEF Goal
<1>12. ASSUME Handed PROVE Goal
  <2>1. UNCHANGED <<homes, call, reply>> /\ rows' = rows
    BY <1>12 DEF Handed, Same
  <2>2. \A c \in Clients : act'[c] = act[c]
    BY <1>1, <1>12 DEF Handed, Others
  <2> QED
    BY <2>1, <2>2, Kept, Unseen DEF Goal
<1>13. ASSUME NEW c \in Clients, NEW k \in Calls, Called(c, k) PROVE Goal
  <2>1. /\ act[c].at = "idle" /\ act'[c].op = k.op /\ \A b \in Actors \ {c} : act'[b] = act[b]
        /\ UNCHANGED <<rows, homes>> /\ call' = [call EXCEPT ![c] = k] /\ reply' = [reply EXCEPT ![c] = "none"]
    BY <1>13 DEF Called, At, Others
  <2>2. Vault' = Vault
    BY <2>1, Kept DEF Keeps
  <2>3. k.op # "relink"
    BY CallsAre DEF ByPath, ById
  <2>4. Applied' = Applied
    BY <1>1, <2>1, <2>3, AppliedIs
  <2>5. call[c] = Directory!NoCall
    BY <1>1, <2>1 DEF Directory!NoCall, NoCall
  <2>6. Directory!Call(c, k)
    BY <2>1, <2>2, <2>4, <2>5 DEF Directory!Call
  <2> QED
    BY <1>2, <2>6
<1>14. ASSUME NEW s \in Servers, Died(s) PROVE Goal
  <2> DEFINE lost == {c \in Clients : Server(c) = s /\ act[c].at # "idle"}
  <2>1. /\ Vault' = Vault /\ homes' = homes
        /\ \A a \in Actors : act'[a] = IF Server(a) = s THEN Idle ELSE act[a]
        /\ call' = [c \in Clients |-> IF Server(c) = s THEN NoCall ELSE call[c]]
        /\ reply' = [c \in Clients |-> IF Server(c) = s /\ ~At(c, "idle") THEN "lost" ELSE reply[c]]
    BY <1>14, CrashIs DEF Keeps
  <2>2. call' = [c \in Clients |-> IF c \in lost THEN Directory!NoCall ELSE call[c]]
    <3>1. \A c \in Clients : (IF Server(c) = s THEN NoCall ELSE call[c]) = (IF c \in lost THEN NoCall ELSE call[c])
      BY <1>1
    <3> QED
      BY <2>1, <3>1 DEF Directory!NoCall, NoCall
  <2>3. reply' = [c \in Clients |-> IF c \in lost THEN "lost" ELSE reply[c]]
    BY <2>1 DEF At
  <2>4. Applied' = Applied \ lost
    <3>1. \A c \in Clients : act'[c].op = "relink" <=> act[c].op = "relink" /\ c \notin lost
      BY <1>1, <2>1, IdleShape
    <3> QED
      BY <3>1, AppliedIs
  <2>5. Directory!Lose(lost)
    BY <2>1, <2>2, <2>3, <2>4 DEF Directory!Lose
  <2> QED
    BY <1>4, <2>5
<1> QED
  BY <1>5, <1>7, <1>8, <1>9, <1>10, <1>11, <1>12, <1>13, <1>14, StepKinds DEF Kinds, Goal

\* Every call of the store takes effect at one moment between its start and its answer, or not at all, and a refusal
\* was right at some such moment: with any number of callers and processes, whatever dies or times out between the read
\* under the key lock and the commit, and while renames rewrite the links of other notes.
THEOREM StoreIsLinearizable == Spec => Linearizable
<1>1. Init => Directory!Init
  <2> SUFFICES ASSUME Init PROVE Directory!Init
    OBVIOUS
  <2>1. Vault = StartVault
    BY DEF Init, Vault, StartVault
  <2>2. \A n \in Notes : StartVault[n].at = Start[n].at /\ StartVault[n].path = Start[n].path
    BY DEF StartVault, Seen
  <2>3. homes = [n \in Notes |-> IF StartVault[n].at = "none" THEN {} ELSE {StartVault[n].path}]
    BY <2>2 DEF Init
  <2>4. Applied = {}
    <3>1. \A c \in Clients : act[c] = Idle
      BY DEF Init, Actors
    <3> QED
      BY <3>1, IdleShape, AppliedIs
  <2>5. /\ call = [c \in Clients |-> Directory!NoCall] /\ could = [c \in Clients |-> {}]
        /\ reply = [c \in Clients |-> "none"]
    BY DEF Init, NoCall, Directory!NoCall
  <2> QED
    BY <2>1, <2>3, <2>4, <2>5 DEF Directory!Init
<1>2. LInv /\ [Next]_vars => [Directory!Next]_(Directory!vars)
  <2> SUFFICES ASSUME LInv, [Next]_vars PROVE Directory!Next \/ UNCHANGED DirectoryVars
    BY DEF Directory!vars, DirectoryVars
  <2>1. CASE Steps /\ Directory!Watch
    BY <2>1, DirectoryStep
  <2>2. CASE UNCHANGED vars
    <3>1. Vault' = Vault /\ Applied' = Applied
      BY <2>2 DEF vars, Vault, Seen, Applied, Op
    <3> QED
      BY <2>2, <3>1 DEF vars, DirectoryVars
  <2> QED
    BY <2>1, <2>2 DEF Next, Finished
<1> QED
  BY <1>1, <1>2, Invariant, PTL DEF Spec, Linearizable, Directory!Spec
-----------------------------------------------------------------------------
(* What is pending for a link that does not name its note's path *)

Present(n) == rows[n].at \in {"live", "trash"}
Tracked(r) == {l \in rows[r].links : l.of # "none"}

\* Actor a's run looks for r's link l, which it wrote itself, or is about to settle it.
Follows(a, r, l) ==
  /\ act[a].op = "relink" /\ act[a].note = l.of /\ act[a].ref = r
  /\ IF act[a].at = "settle" THEN act[a].to = l.to ELSE act[a].own /\ act[a].linked = l.to
\* Actor a's run has not looked for r's links to p yet, or looks for them now.
Ahead(a, r, p) ==
  \/ r \in act[a].refs
  \/ act[a].ref = r /\ act[a].linked = p /\ ~act[a].own /\ act[a].at # "settle"
\* Job j names r as a referrer by l, and no run of it is past r.
Listed(j, r, l) ==
  j.note = l.of /\ j.from = l.to /\ r \in j.refs /\ \A a \in Actors : act[a].job = j.id => Ahead(a, r, l.to)
Covered(r, l) ==
  \/ l.to = rows[l.of].path
  \/ \E a \in Actors : Follows(a, r, l)
  \/ \E j \in jobs : Listed(j, r, l)
LinksOK == \A r \in Notes : Present(r) => \A l \in Tracked(r) : Present(l.of) => Covered(r, l)

\* A rename that has looked for the links to its note has found all that are settled.
FoundOK ==
  \A c \in Clients, r \in Notes : act[c].at = "found" /\ r # act[c].seen /\ Live(r) =>
    \A l \in Tracked(r) : l.of = act[c].seen /\ l.to = act[c].path =>
      r \in act[c].refs \/ \E a \in Actors : act[a].at = "settle" /\ Follows(a, r, l)

\* A task looks for one link at a time.
OneLink(t) == t.ref \notin t.refs /\ (t.ref = "none" => ~t.own) /\ (t.op # "relink" => t.ref = "none")
\* A run is of one job, and links and jobs name notes that exist.
Known(table, id) == id[1] \in Notes /\ table[id[1]].at # "none" /\ id[2] <= table[id[1]].seq
NamesOK ==
  /\ \A r \in Notes : \A l \in Tracked(r) : Written(l.of)
  /\ \A j \in jobs : Known(rows, j.id)
  /\ \A j, k \in jobs : j.id = k.id => j.note = k.note /\ j.from = k.from /\ j.refs = k.refs
  /\ \A a \in Actors : act[a].job # <<>> => act[a].op = "relink" /\ Known(rows, act[a].job)
  /\ \A a \in Actors, j \in jobs : act[a].job = j.id => act[a].note = j.note /\ act[a].from = j.from
  /\ \A a \in Actors : OneLink(act[a])

\* One process runs, and all work is done in it.
OneProcess ==
  \E s \in Servers : fleet = {s} /\ (\A c \in Clients : host[c] = s) /\ \A t \in Servers \ {s} : act[t].at = "idle"

Linked == OneProcess /\ NamesOK /\ LinksOK /\ FoundOK
LinkedInv == LInv /\ (Cardinality(fleet) = 1 => Linked)
-----------------------------------------------------------------------------
(* A step that moves no note carries every link that is pending *)

\* What link l of r means after the step it meant before, or it is right and nobody renames its note, or it is to be settled.
Carries(r, l) ==
  \/ Live(l.of) /\ l.of \in Notes /\ l.to = rows[l.of].path /\ ~Locked(l.of)
  \/ l \in Tracked(r) /\ (Present(r)' => Present(r)) /\ (rows'[r].at = "live" /\ ~Live(r) => ~Locked(l.of))
  \/ Written(l.of) /\ \E a \in Actors : act'[a].at = "settle" /\ Follows(a, r, l)'
RowsCarry ==
  /\ rows' \in [Notes -> Row]
  /\ \A n \in Notes : /\ Written(n) => /\ rows'[n].path = rows[n].path /\ rows'[n].at # "none"
                                       /\ rows'[n].seq >= rows[n].seq
                      /\ Written(n) /\ Present(n)' => Present(n)
  /\ \A r \in Notes : \A l : l \in Tracked(r)' => Carries(r, l)

SameJob(j, k) == j.id = k.id /\ j.note = k.note /\ j.from = k.from /\ j.refs = k.refs
JobsCarry ==
  /\ jobs' \subseteq Job /\ \A j \in jobs' : \E k \in jobs : SameJob(j, k)
  /\ \A j \in jobs : (\E k \in jobs' : SameJob(j, k)) \/ \A r, l : ~Listed(j, r, l)

\* Link l of r is still to be put right.
Pending(r, l) ==
  r \in Notes /\ Present(r) /\ l \in Tracked(r) /\ l \in Tracked(r)' /\ Present(l.of) /\ l.to # rows[l.of].path
\* What actor a has taken on it still has after the step.
Carried(a) ==
  \A r, l : Pending(r, l) =>
    /\ Follows(a, r, l) => Follows(a, r, l)'
    /\ \A j \in jobs : Listed(j, r, l) /\ act'[a].job = j.id => Ahead(a, r, l.to)' \/ Follows(a, r, l)'
SameRun(a) ==
  \/ act'[a].job = <<>>
  \/ act'[a].op = "relink" /\ act'[a].job = act[a].job /\ act'[a].note = act[a].note /\ act'[a].from = act[a].from
  \/ act'[a].op = "relink" /\ \E j \in jobs : act'[a].job = j.id /\ act'[a].note = j.note /\ act'[a].from = j.from
\* It lets go of no link that a rename may miss.
Settled(a) ==
  \A r \in Notes : \A l \in Tracked(r) :
    act[a].at = "settle" /\ Follows(a, r, l) /\ l \in Tracked(r)' =>
      \/ act'[a].at = "settle" /\ Follows(a, r, l)'
      \/ ~\E c \in Clients : act[c].at = "found" /\ act[c].seen = l.of /\ act[c].path = l.to
Acts(a) ==
  /\ act[a].at # "idle" \/ a \in Clients \cup fleet \/ act'[a].at = "idle"
  /\ OneLink(act'[a])
  /\ SameRun(a) /\ Carried(a) /\ Settled(a)
  /\ act'[a].at = "found" =>
       \/ act'[a] = act[a]
       \/ /\ act[a].at # "settle"
          /\ \A r \in Notes \ {act'[a].seen} : rows'[r].at = "live" =>
               \A l \in Tracked(r)' : l.to = act'[a].path => r \in act'[a].refs
StepCarries == RowsCarry /\ JobsCarry /\ (\A a \in Actors : Acts(a)) /\ UNCHANGED <<fleet, host>>

LEMMA IdIsNot ==
  ASSUME NEW id \in Notes \X Nat
  PROVE  id # <<>>
OBVIOUS

LEMMA OneStays ==
  ASSUME OneProcess, StepCarries
  PROVE  OneProcess'
<1>1. PICK s \in Servers : fleet = {s} /\ (\A c \in Clients : host[c] = s) /\ \A t \in Servers \ {s} : act[t].at = "idle"
  BY DEF OneProcess
<1>2. ASSUME NEW t \in Servers \ {s} PROVE act'[t].at = "idle"
  <2>1. Acts(t)
    BY DEF StepCarries, Actors
  <2> QED
    BY <1>1, <2>1, NamesAssumption DEF Acts
<1> QED
  BY <1>1, <1>2 DEF OneProcess, StepCarries

LEMMA NamesStay ==
  ASSUME LInv, NamesOK, StepCarries
  PROVE  NamesOK'
<1>1. /\ rows \in [Notes -> Row] /\ rows' \in [Notes -> Row]
      /\ \A n \in Notes : rows[n].seq \in Nat /\ rows'[n].seq \in Nat
      /\ \A n \in Notes : rows[n].at # "none" => rows'[n].at # "none" /\ rows'[n].seq >= rows[n].seq
  BY DEF LInv, IInv, RowsOK, Row, StepCarries, RowsCarry, Written
<1>2. jobs \subseteq Job /\ jobs' \subseteq Job /\ \A j \in Job : j.id \in Notes \X Nat /\ j.id # <<>>
  BY IdIsNot DEF LInv, IInv, JobsOK, StepCarries, JobsCarry, Job
<1>3. \A j \in jobs' : \E k \in jobs : SameJob(j, k)
  BY DEF StepCarries, JobsCarry
<1>4. \A a \in Actors : Acts(a) /\ act[a].job \in {<<>>} \cup (Notes \X Nat)
  BY Typed, TaskFields DEF StepCarries
<1>5. ASSUME NEW id \in Notes \X Nat, Known(rows, id) PROVE Known(rows', id)
  <2>1. id[1] \in Notes /\ id[2] \in Nat
    OBVIOUS
  <2> QED
    BY <1>1, <1>5, <2>1 DEF Known
<1>6. ASSUME NEW r \in Notes, NEW l, l \in Tracked(r)' PROVE l.of \in Notes /\ rows'[l.of].at # "none"
  <2>1. Carries(r, l)
    BY <1>6 DEF StepCarries, RowsCarry
  <2>2. CASE Live(l.of) /\ l.of \in Notes
    BY <1>1, <2>2 DEF Live
  <2>3. CASE l \in Tracked(r)
    BY <1>1, <2>3 DEF NamesOK, Written
  <2>4. CASE Written(l.of)
    BY <1>1, <2>4 DEF Written
  <2> QED
    BY <2>1, <2>2, <2>3, <2>4 DEF Carries
<1>7. \A j \in jobs' : Known(rows', j.id)
  BY <1>2, <1>3, <1>5 DEF NamesOK, SameJob
<1>8. \A j, k \in jobs' : j.id = k.id => j.note = k.note /\ j.from = k.from /\ j.refs = k.refs
  BY <1>3 DEF NamesOK, SameJob
<1>9. ASSUME NEW a \in Actors, act'[a].job # <<>> PROVE act'[a].op = "relink" /\ act'[a].job \in Notes \X Nat /\ Known(rows', act'[a].job)
  <2>1. SameRun(a)
    BY <1>4 DEF Acts
  <2>2. CASE act'[a].op = "relink" /\ act'[a].job = act[a].job
    <3>1. act[a].job \in Notes \X Nat /\ Known(rows, act[a].job)
      BY <1>4, <1>9, <2>2 DEF NamesOK
    <3>2. Known(rows', act[a].job)
      BY <1>5, <3>1
    <3> QED
      BY <2>2, <3>1, <3>2
  <2>3. ASSUME NEW j \in jobs, act'[a].op = "relink", act'[a].job = j.id
        PROVE  act'[a].op = "relink" /\ act'[a].job \in Notes \X Nat /\ Known(rows', act'[a].job)
    BY <1>2, <1>5, <2>3 DEF NamesOK
  <2> QED
    BY <1>9, <2>1, <2>2, <2>3 DEF SameRun
<1>10. ASSUME NEW a \in Actors, NEW j \in jobs', act'[a].job = j.id PROVE act'[a].note = j.note /\ act'[a].from = j.from
  <2>1. PICK k \in jobs : SameJob(j, k)
    BY <1>3
  <2>2. SameRun(a) /\ act'[a].job # <<>>
    BY <1>2, <1>4, <1>10 DEF Acts
  <2> QED
    BY <1>10, <2>1, <2>2 DEF NamesOK, SameRun, SameJob
<1>11. \A a \in Actors : OneLink(act'[a])
  BY <1>4 DEF Acts
<1>12. /\ (\A j \in jobs : Known(rows, j.id))'
       /\ (\A a \in Actors : act[a].job # <<>> => act[a].op = "relink" /\ Known(rows, act[a].job))'
  BY <1>7, <1>9
<1> QED
  BY <1>6, <1>8, <1>10, <1>11, <1>12 DEF NamesOK, Written

LEMMA LinksStay ==
  ASSUME LInv, NamesOK, LinksOK, StepCarries
  PROVE  LinksOK'
<1>1. ASSUME NEW r \in Notes, Present(r)', NEW l, l \in Tracked(r)', Present(l.of)' PROVE Covered(r, l)'
  <2>1. RowsCarry /\ JobsCarry /\ (\A a \in Actors : Acts(a)) /\ Carries(r, l)
    BY <1>1 DEF StepCarries, RowsCarry
  <2>2. ASSUME Live(l.of), l.of \in Notes, l.to = rows[l.of].path PROVE Covered(r, l)'
    BY <2>1, <2>2 DEF RowsCarry, Written, Live, Covered
  <2>3. ASSUME NEW a \in Actors, Follows(a, r, l)' PROVE Covered(r, l)'
    BY <2>3 DEF Covered
  <2>4. ASSUME l \in Tracked(r), Present(r) PROVE Covered(r, l)'
    <3>1. Written(l.of) /\ Present(r) /\ Present(l.of)
      BY <1>1, <2>1, <2>4 DEF NamesOK, RowsCarry, Written
    <3>2. Covered(r, l)
      BY <2>4, <3>1 DEF LinksOK
    <3>3. CASE l.to = rows[l.of].path
      BY <2>1, <3>1, <3>3 DEF RowsCarry, Covered, Written
    <3>4. CASE l.to # rows[l.of].path
      <4>1. Pending(r, l)
        BY <1>1, <2>4, <3>1, <3>4 DEF Pending
      <4>2. \A a \in Actors : Carried(a)
        BY <2>1 DEF Acts
      <4>3. ASSUME NEW a \in Actors, Follows(a, r, l) PROVE Covered(r, l)'
        BY <2>3, <4>1, <4>2, <4>3 DEF Carried
      <4>4. ASSUME NEW j \in jobs, Listed(j, r, l) PROVE Covered(r, l)'
        <5>1. PICK k \in jobs' : SameJob(j, k)
          BY <2>1, <4>4 DEF JobsCarry
        <5>2. ASSUME NEW a \in Actors, act'[a].job = k.id PROVE Ahead(a, r, l.to)' \/ Follows(a, r, l)'
          BY <4>1, <4>2, <4>4, <5>1, <5>2 DEF Carried, SameJob
        <5>3. CASE \A a \in Actors : act'[a].job = k.id => Ahead(a, r, l.to)'
          <6>1. Listed(k, r, l)'
            BY <4>4, <5>1, <5>3 DEF Listed, SameJob
          <6> QED
            BY <6>1 DEF Covered
        <5> QED
          BY <2>3, <5>2, <5>3
      <4> QED
        BY <3>2, <3>4, <4>3, <4>4 DEF Covered
    <3> QED
      BY <3>3, <3>4
  <2> QED
    BY <1>1, <2>1, <2>2, <2>3, <2>4 DEF Carries
<1> QED
  BY <1>1 DEF LinksOK

LEMMA FoundStay ==
  ASSUME LInv, NamesOK, FoundOK, StepCarries
  PROVE  FoundOK'
<1>1. ASSUME NEW c \in Clients, NEW r \in Notes, act'[c].at = "found", r # act'[c].seen, rows'[r].at = "live",
             NEW l, l \in Tracked(r)', l.of = act'[c].seen, l.to = act'[c].path
      PROVE  r \in act'[c].refs \/ \E a \in Actors : act'[a].at = "settle" /\ Follows(a, r, l)'
  <2>1. Carries(r, l) /\ \A a \in Actors : Acts(a)
    BY <1>1 DEF StepCarries, RowsCarry
  <2>2. c \in Actors /\ Acts(c)
    BY <2>1 DEF Actors
  <2>3. CASE act'[c] = act[c]
    <3>1. Locked(l.of)
      BY <1>1, <2>2, <2>3 DEF Locked, At
    <3>2. ASSUME l \in Tracked(r), Live(r)
          PROVE  r \in act'[c].refs \/ \E a \in Actors : act'[a].at = "settle" /\ Follows(a, r, l)'
      <4>1. r \in act[c].refs \/ \E a \in Actors : act[a].at = "settle" /\ Follows(a, r, l)
        BY <1>1, <2>3, <3>2 DEF FoundOK
      <4>2. ASSUME NEW a \in Actors, act[a].at = "settle", Follows(a, r, l)
            PROVE  act'[a].at = "settle" /\ Follows(a, r, l)'
        <5>1. Settled(a)
          BY <2>1 DEF Acts
        <5> QED
          BY <1>1, <2>3, <3>2, <4>2, <5>1 DEF Settled
      <4> QED
        BY <2>3, <4>1, <4>2
    <3> QED
      BY <1>1, <2>1, <3>1, <3>2 DEF Carries
  <2>4. CASE act'[c] # act[c]
    BY <1>1, <2>2, <2>4 DEF Acts
  <2> QED
    BY <2>3, <2>4
<1> QED
  BY <1>1 DEF FoundOK, Live

LEMMA StepLinked ==
  ASSUME LInv, Linked, StepCarries
  PROVE  Linked'
BY OneStays, NamesStay, LinksStay, FoundStay DEF Linked
-----------------------------------------------------------------------------
(* Rows that are carried *)

LEMMA RowsSame ==
  ASSUME LInv, NamesOK, UNCHANGED rows
  PROVE  RowsCarry
<1>1. rows \in [Notes -> Row] /\ \A n \in Notes : rows[n].seq \in Nat
  BY DEF LInv, IInv, RowsOK, Row
<1>2. \A r, l : l \in Tracked(r)' => l \in Tracked(r)
  BY DEF Tracked
<1> QED
  BY <1>1, <1>2 DEF RowsCarry, Carries, Present, Written, Live

\* Only links that are left lose their meaning.
LEMMA RowsLeft ==
  ASSUME LInv, NamesOK, NEW left, rows' = Left(rows, left)
  PROVE  /\ RowsCarry
         /\ \A r \in Notes : \A l : l \in Tracked(r)' => l \in Tracked(r) /\ <<r, l>> \notin left
<1> DEFINE kept(r) == {IF <<r, l>> \in left THEN Link(l.to, "none") ELSE l : l \in rows[r].links}
<1>1. rows \in [Notes -> Row] /\ rows' \in [Notes -> Row]
  BY LeftSeen DEF LInv, IInv, RowsOK
<1>2. ASSUME NEW r \in Notes PROVE rows'[r] = [rows[r] EXCEPT !.links = kept(r)]
  BY DEF Left
<1> HIDE DEF kept
<1>3. \A r \in Notes : /\ rows'[r].at = rows[r].at /\ rows'[r].path = rows[r].path /\ rows'[r].seq = rows[r].seq
                       /\ rows'[r].links = kept(r) /\ rows[r].seq \in Nat
  BY <1>1, <1>2 DEF Row
<1>4. ASSUME NEW r \in Notes, NEW l, l \in kept(r), l.of # "none" PROVE l \in rows[r].links /\ <<r, l>> \notin left
  <2>1. PICK k \in rows[r].links : l = IF <<r, k>> \in left THEN Link(k.to, "none") ELSE k
    BY <1>4 DEF kept
  <2>2. Link(k.to, "none").of = "none"
    BY DEF Link
  <2> QED
    BY <1>4, <2>1, <2>2
<1>5. \A r \in Notes : \A l : l \in Tracked(r)' => l \in Tracked(r) /\ <<r, l>> \notin left
  BY <1>3, <1>4 DEF Tracked
<1>6. \A r \in Notes : \A l : l \in Tracked(r)' => Carries(r, l)
  BY <1>3, <1>5 DEF Carries, Present, Live
<1>7. \A r \in Notes : /\ Written(r) => /\ rows'[r].path = rows[r].path /\ rows'[r].at # "none"
                                        /\ rows'[r].seq >= rows[r].seq
                       /\ Written(r) /\ Present(r)' => Present(r)
  BY <1>3 DEF Written, Present
<1> QED
  BY <1>1, <1>5, <1>6, <1>7 DEF RowsCarry

\* One row is written; what it shows is what it showed, or right.
LEMMA RowsChange ==
  ASSUME LInv, NamesOK, NEW n \in Notes, NEW new \in Row, Change(n, new), new.at # "none",
         Written(n) => new.seq >= rows[n].seq /\ new.path = rows[n].path /\ (new.at \in {"live", "trash"} => Present(n)),
         \A l \in new.links : l.of # "none" =>
           \/ Live(l.of) /\ l.of \in Notes /\ l.to = rows[l.of].path /\ ~Locked(l.of)
           \/ l \in Tracked(n) /\ Written(n) /\ (new.at = "live" /\ ~Live(n) => ~Locked(l.of))
           \/ Written(l.of) /\ \E a \in Actors : act'[a].at = "settle" /\ Follows(a, n, l)'
  PROVE  /\ RowsCarry
         /\ \A r \in Notes : \A l : l \in Tracked(r)' => IF r = n THEN l \in new.links ELSE l \in Tracked(r)
<1>1. rows \in [Notes -> Row] /\ rows[n] \in Row /\ new.seq \in Nat /\ rows[n].seq \in Nat
  BY DEF LInv, IInv, RowsOK, Row
<1>2. [new EXCEPT !.seq = new.seq + 1] \in Row
  BY <1>1 DEF Row
<1>3. rows' = [rows EXCEPT ![n] = IF new = rows[n] THEN rows[n] ELSE [new EXCEPT !.seq = new.seq + 1]]
  BY DEF Change
<1>4. /\ rows' \in [Notes -> Row] /\ rows'[n].at = new.at /\ rows'[n].path = new.path /\ rows'[n].links = new.links
      /\ Written(n) => rows'[n].seq >= rows[n].seq
      /\ \A r \in Notes \ {n} : rows'[r] = rows[r]
  BY <1>1, <1>2, <1>3 DEF Row
<1>5. \A r \in Notes : rows[r].seq \in Nat
  BY <1>1 DEF Row
<1>6. ASSUME NEW r \in Notes, NEW l, l \in Tracked(r)'
      PROVE  IF r = n THEN l \in new.links /\ l.of # "none" ELSE l \in Tracked(r)
  BY <1>4, <1>6 DEF Tracked
<1>7. ASSUME NEW r \in Notes, NEW l, l \in Tracked(r)' PROVE Carries(r, l)
  <2>1. CASE r = n
    BY <1>4, <1>6, <1>7, <2>1 DEF Carries, Present
  <2>2. CASE r # n
    BY <1>4, <1>6, <1>7, <2>2 DEF Carries, Present, Live
  <2> QED
    BY <2>1, <2>2
<1>8. \A r \in Notes : /\ Written(r) => /\ rows'[r].path = rows[r].path /\ rows'[r].at # "none"
                                        /\ rows'[r].seq >= rows[r].seq
                       /\ Written(r) /\ Present(r)' => Present(r)
  BY <1>4, <1>5 DEF Written, Present
<1> QED
  BY <1>4, <1>6, <1>7, <1>8 DEF RowsCarry
-----------------------------------------------------------------------------
(* Actors that carry what they have taken on *)

LEMMA JobsSame ==
  ASSUME LInv, UNCHANGED jobs
  PROVE  JobsCarry
BY DEF LInv, IInv, JobsOK, JobsCarry, SameJob

\* Who does not act.
LEMMA ActsNot ==
  ASSUME LInv, NamesOK, NEW a \in Actors, act'[a] = act[a]
  PROVE  Acts(a)
<1>1. SameRun(a)
  BY DEF NamesOK, SameRun
<1>2. \A r, l : Follows(a, r, l) => Follows(a, r, l)'
  BY DEF Follows
<1>3. ASSUME NEW r, NEW l, NEW j \in jobs, Listed(j, r, l), act'[a].job = j.id PROVE Ahead(a, r, l.to)'
  BY <1>3 DEF Listed, Ahead
<1>4. OneLink(act[a])
  BY DEF NamesOK
<1> QED
  BY <1>1, <1>2, <1>3, <1>4 DEF Acts, Carried, Settled

\* Work that is no rewriting of links.
LEMMA ActsAside ==
  ASSUME LInv, NEW a \in Actors, act[a].op # "relink", act'[a].job = <<>>,
         act[a].at # "idle" \/ a \in Clients \cup fleet, OneLink(act'[a]),
         act'[a].at = "found" =>
           \A r \in Notes \ {act'[a].seen} : rows'[r].at = "live" =>
             \A l \in Tracked(r)' : l.to = act'[a].path => r \in act'[a].refs
  PROVE  Acts(a)
<1>1. act[a].at # "settle"
  BY Typed DEF TaskOK, TaskShape
<1>2. \A j \in jobs : j.id # <<>>
  BY IdIsNot DEF LInv, IInv, JobsOK, Job
<1>3. \A r, l : ~Follows(a, r, l)
  BY DEF Follows
<1> QED
  BY <1>1, <1>2, <1>3 DEF Acts, SameRun, Carried, Settled

\* A run that goes on with the same link.
LEMMA ActsOn ==
  ASSUME LInv, NamesOK, NEW a \in Actors, act[a].op = "relink", act'[a].op = "relink",
         act'[a].note = act[a].note, act'[a].ref = act[a].ref, act'[a].own = act[a].own, act'[a].linked = act[a].linked,
         act'[a].refs = act[a].refs, act'[a].job = act[a].job, act'[a].from = act[a].from,
         act[a].at # "settle", act'[a].at \notin {"settle", "found"}
  PROVE  Acts(a)
<1>1. act[a].at # "idle"
  BY Typed DEF TaskOK, TaskShape
<1>2. OneLink(act[a])
  BY DEF NamesOK
<1>3. \A r, l : Follows(a, r, l) => Follows(a, r, l)'
  BY DEF Follows
<1>4. ASSUME NEW r, NEW l, NEW j \in jobs, Listed(j, r, l), act'[a].job = j.id PROVE Ahead(a, r, l.to)'
  BY <1>4 DEF Listed, Ahead
<1> QED
  BY <1>1, <1>2, <1>3, <1>4 DEF Acts, SameRun, Carried, Settled, OneLink

\* A run that stops for good or for a while: no link it had written still has its meaning.
LEMMA ActsStops ==
  ASSUME LInv, NEW a \in Actors, act'[a] = Idle,
         \A r \in Notes : \A l : l \in Tracked(r) /\ l \in Tracked(r)' => ~Follows(a, r, l)
  PROVE  Acts(a)
<1>1. Idle.at = "idle" /\ Idle.job = <<>> /\ OneLink(Idle)
  BY DEF Idle, OneLink
<1>2. \A j \in jobs : j.id # <<>>
  BY IdIsNot DEF LInv, IInv, JobsOK, Job
<1> QED
  BY <1>1, <1>2 DEF Acts, SameRun, Carried, Settled, Pending

LEMMA OneActs ==
  ASSUME LInv, NamesOK, RowsCarry, JobsCarry, UNCHANGED <<fleet, host>>, NEW a \in Actors, Others(a), Acts(a)
  PROVE  StepCarries
<1>1. \A b \in Actors \ {a} : Acts(b)
  BY ActsNot DEF Others
<1> QED
  BY <1>1 DEF StepCarries
-----------------------------------------------------------------------------
(* The steps of a call, and of a run between its looks *)

LEMMA OthersAre ==
  ASSUME TasksOK', NEW a \in Actors, NEW t, act' = [act EXCEPT ![a] = t], TasksOK
  PROVE  Others(a) /\ act'[a] = t
BY DEF TasksOK, Others

LEMMA EndsAside ==
  ASSUME LInv, NamesOK, TasksOK', RowsCarry, UNCHANGED <<jobs, fleet, host>>, NEW a \in Actors,
         act[a].op # "relink", ~At(a, "idle"), NEW answer, Ends(a, answer)
  PROVE  StepCarries
<1>1. Others(a) /\ act'[a] = Idle
  BY EndsIs
<1>2. Idle.at = "idle" /\ Idle.job = <<>> /\ OneLink(Idle)
  BY DEF Idle, OneLink
<1>3. Acts(a)
  BY <1>1, <1>2, ActsAside DEF At
<1> QED
  BY <1>1, <1>3, JobsSame, OneActs

LEMMA GoesOn ==
  ASSUME LInv, NamesOK, RowsCarry, UNCHANGED <<jobs, fleet, host>>, NEW a \in Actors, Others(a),
         act'[a].op = act[a].op, act'[a].note = act[a].note, act'[a].ref = act[a].ref, act'[a].own = act[a].own,
         act'[a].linked = act[a].linked, act'[a].refs = act[a].refs, act'[a].job = act[a].job, act'[a].from = act[a].from,
         act[a].at \notin {"idle", "settle"}, act'[a].at \notin {"settle", "found"}
  PROVE  StepCarries
<1>1. CASE act[a].op = "relink"
  BY <1>1, ActsOn, JobsSame, OneActs
<1>2. CASE act[a].op # "relink"
  <2>1. act[a].job = <<>> /\ OneLink(act[a])
    BY <1>2 DEF NamesOK
  <2>2. OneLink(act'[a])
    BY <2>1 DEF OneLink
  <2>3. Acts(a)
    BY <1>2, <2>1, <2>2, ActsAside
  <2> QED
    BY <2>3, JobsSame, OneActs
<1> QED
  BY <1>1, <1>2

LEMMA RoundGoesOn ==
  ASSUME LInv, NamesOK, TasksOK', RowsCarry, UNCHANGED <<jobs, fleet, host>>, NEW a \in Actors,
         act[a].at \notin {"idle", "settle"}, NextRound(a, act[a].linked)
  PROVE  StepCarries
<1> DEFINE t == [act[a] EXCEPT !.at = "relink", !.linked = act[a].linked, !.rounds = @ + 1, !.own = @ \/ At(a, "settle"),
                               !.keys = <<>>, !.path = 0, !.to = 0, !.seen = "none", !.seq = 0, !.tries = 0]
<1>1. act[a] \in Task /\ TasksOK
  BY Typed DEF LInv, IInv
<1>2. act' = [act EXCEPT ![a] = t]
  BY Typed DEF NextRound
<1>3. /\ t.op = act[a].op /\ t.note = act[a].note /\ t.ref = act[a].ref /\ t.own = act[a].own /\ t.linked = act[a].linked
      /\ t.refs = act[a].refs /\ t.job = act[a].job /\ t.from = act[a].from /\ t.at = "relink"
  BY <1>1 DEF Task, At
<1> HIDE DEF t
<1>4. Others(a) /\ act'[a] = t
  BY <1>1, <1>2, OthersAre
<1> QED
  BY <1>3, <1>4, GoesOn

LEMMA NoNoteCarries ==
  ASSUME LInv, NamesOK, TasksOK', RowsCarry, UNCHANGED <<jobs, fleet, host>>, NEW a \in Actors,
         act[a].at \notin {"idle", "settle"}, NoNote(a)
  PROVE  StepCarries
<1>1. CASE act[a].op = "relink"
  <2>1. NextRound(a, act[a].linked)
    BY <1>1 DEF NoNote, Op
  <2> QED
    BY <2>1, RoundGoesOn
<1>2. CASE act[a].op # "relink"
  <2>1. Ends(a, "missing") /\ ~At(a, "idle")
    BY <1>2 DEF NoNote, Op, At
  <2> QED
    BY <1>2, <2>1, EndsAside
<1> QED
  BY <1>1, <1>2

LEMMA SecondKeyCarries ==
  ASSUME LInv, NamesOK, NEW a \in Actors, SecondKey(a)
  PROVE  StepCarries
<1>1. UNCHANGED <<rows, jobs, act, fleet, host>>
  BY DEF SecondKey
<1>2. \A b \in Actors : Acts(b)
  BY <1>1, ActsNot
<1> QED
  BY <1>1, <1>2, RowsSame, JobsSame DEF StepCarries

LEMMA CallCarries ==
  ASSUME LInv, NamesOK, TasksOK', NEW c \in Clients, NEW k \in Calls, Call(c, k)
  PROVE  StepCarries
<1> DEFINE byId == k.op \in ById
           t == [Idle EXCEPT !.at = IF byId THEN "seek" ELSE "lock", !.op = k.op, !.path = k.path, !.to = k.to,
                             !.note = k.note, !.keys = IF byId THEN <<>> ELSE KeysOf(k)]
<1>1. act' = [act EXCEPT ![c] = t] /\ act[c].at = "idle" /\ UNCHANGED <<rows, jobs, fleet, host>>
  BY DEF Call, At
<1>2. t.job = <<>> /\ t.own = FALSE /\ t.ref = "none" /\ t.refs = {} /\ t.at \in {"seek", "lock"} /\ OneLink(t)
  BY DEF Idle, OneLink
<1> HIDE DEF t
<1>3. c \in Actors /\ TasksOK
  BY DEF Actors, LInv, IInv
<1>4. Others(c) /\ act'[c] = t
  BY <1>1, <1>3, OthersAre
<1>5. act[c].op # "relink"
  BY <1>1, <1>3 DEF TasksOK, TaskOK, TaskShape
<1>6. Acts(c)
  BY <1>2, <1>3, <1>4, <1>5, ActsAside
<1> QED
  BY <1>1, <1>3, <1>4, <1>6, RowsSame, JobsSame, OneActs

LEMMA SeekCarries ==
  ASSUME LInv, NamesOK, TasksOK', NEW c \in Clients, Seek(c)
  PROVE  StepCarries
<1>1. /\ c \in Actors /\ TasksOK /\ act[c] \in Task /\ act[c].at = "seek" /\ act[c].op # "relink" /\ ~At(c, "idle")
      /\ UNCHANGED <<rows, jobs, fleet, host>> /\ RowsCarry
  BY Typed, RowsSame DEF Seek, At, LInv, IInv, TaskOK, TaskShape, ById
<1>2. CASE Ends(c, "missing")
  BY <1>1, <1>2, EndsAside
<1>3. CASE act' = [act EXCEPT ![c].at = "lock", ![c].path = rows[act[c].note].path, ![c].keys = <<rows[act[c].note].path>>]
  <2> DEFINE p == rows[act[c].note].path
             t == [act[c] EXCEPT !.at = "lock", !.path = p, !.keys = <<p>>]
  <2>1. act' = [act EXCEPT ![c] = t]
    BY <1>1, <1>3 DEF TasksOK
  <2>2. /\ t.op = act[c].op /\ t.note = act[c].note /\ t.ref = act[c].ref /\ t.own = act[c].own /\ t.linked = act[c].linked
        /\ t.refs = act[c].refs /\ t.job = act[c].job /\ t.from = act[c].from /\ t.at = "lock"
    BY <1>1 DEF Task
  <2> HIDE DEF t
  <2>3. Others(c) /\ act'[c] = t
    BY <1>1, <2>1, OthersAre
  <2> QED
    BY <1>1, <2>2, <2>3, GoesOn
<1> QED
  BY <1>2, <1>3 DEF Seek

LEMMA ReadCarries ==
  ASSUME LInv, NamesOK, TasksOK', NEW a \in Actors, Read(a)
  PROVE  StepCarries
<1>1. /\ TasksOK /\ act[a] \in Task /\ act[a].at = "lock" /\ ~At(a, "idle")
      /\ UNCHANGED <<rows, jobs, fleet, host>> /\ RowsCarry
  BY Typed, RowsSame DEF Read, At, LInv, IInv
<1>2. CASE NoNote(a)
  BY <1>1, <1>2, NoNoteCarries
<1>3. ASSUME act[a].op # "relink", Ends(a, "exists") PROVE StepCarries
  BY <1>1, <1>3, EndsAside
<1>4. ASSUME NEW n, Saw(a, n) PROVE StepCarries
  <2> DEFINE t == [act[a] EXCEPT !.at = "tx", !.seen = n, !.seq = rows[n].seq]
  <2>1. act' = [act EXCEPT ![a] = t]
    BY <1>1, <1>4 DEF TasksOK, Saw
  <2>2. /\ t.op = act[a].op /\ t.note = act[a].note /\ t.ref = act[a].ref /\ t.own = act[a].own /\ t.linked = act[a].linked
        /\ t.refs = act[a].refs /\ t.job = act[a].job /\ t.from = act[a].from /\ t.at = "tx"
    BY <1>1 DEF Task
  <2> HIDE DEF t
  <2>3. Others(a) /\ act'[a] = t
    BY <1>1, <2>1, OthersAre
  <2> QED
    BY <1>1, <2>2, <2>3, GoesOn
<1>5. NoNote(a) \/ (act[a].op # "relink" /\ Ends(a, "exists")) \/ \E n : Saw(a, n)
  BY DEF Read, Op
<1> QED
  BY <1>2, <1>3, <1>4, <1>5
-----------------------------------------------------------------------------
(* The steps that write one row *)

LEMMA CreateCarries ==
  ASSUME LInv, NamesOK, TasksOK', NEW c \in Clients, NEW n \in Notes, Create(c, n)
  PROVE  StepCarries
<1>1. /\ c \in Actors /\ act[c] \in Task /\ act[c].op # "relink" /\ ~At(c, "idle") /\ rows[n].at = "none"
      /\ act[c].path \in Paths /\ UNCHANGED <<jobs, fleet, host>>
  BY Typed DEF Create, At, Op, TaskOK, TaskShape
<1>2. CASE Ends(c, "exists") /\ UNCHANGED rows
  BY <1>1, <1>2, RowsSame, EndsAside
<1>3. ASSUME Change(n, [at |-> "live", path |-> act[c].path, seq |-> 0, links |-> {}]), Ends(c, "done") PROVE StepCarries
  <2> DEFINE new == [at |-> "live", path |-> act[c].path, seq |-> 0, links |-> {}]
  <2>1. new \in Row /\ new.at = "live" /\ new.links = {}
    BY <1>1 DEF Row, Ats
  <2>2. Change(n, new) /\ ~Written(n)
    BY <1>1, <1>3 DEF Written
  <2> HIDE DEF new
  <2>3. RowsCarry
    BY <2>1, <2>2, RowsChange
  <2> QED
    BY <1>1, <1>3, <2>3, EndsAside
<1> QED
  BY <1>2, <1>3 DEF Create

\* A note that a call's transaction changes, whose path and links stay.
LEMMA RowKept ==
  ASSUME LInv, NamesOK, NEW n \in Notes, NEW at \in {"live", "trash", "gone"}, rows[n].at \in {"live", "trash"},
         at = "live" => rows[n].at = "live", Change(n, [rows[n] EXCEPT !.at = at])
  PROVE  RowsCarry
<1> DEFINE new == [rows[n] EXCEPT !.at = at]
<1>1. rows[n] \in Row /\ rows[n].seq \in Nat
  BY DEF LInv, IInv, RowsOK, Row
<1>2. new \in Row /\ new.at = at /\ new.links = rows[n].links /\ new.path = rows[n].path /\ new.seq = rows[n].seq
  BY <1>1 DEF Row, Ats
<1>3. Change(n, new)
  OBVIOUS
<1> HIDE DEF new
<1>4. \A l \in new.links : l.of # "none" => l \in Tracked(n) /\ Written(n) /\ (new.at = "live" /\ ~Live(n) => ~Locked(l.of))
  BY <1>2 DEF Tracked, Written, Live
<1> QED
  BY <1>1, <1>2, <1>3, <1>4, RowsChange DEF Present

LEMMA SoftDeleteCarries ==
  ASSUME LInv, NamesOK, TasksOK', NEW c \in Clients, SoftDelete(c)
  PROVE  StepCarries
<1>1. /\ c \in Actors /\ act[c] \in Task /\ act[c].op # "relink" /\ ~At(c, "idle") /\ act[c].seen \in Notes
      /\ UNCHANGED <<jobs, fleet, host>>
  BY Typed DEF SoftDelete, At, Op, TaskOK, TaskShape, TaskNames, Written
<1>2. CASE Ends(c, "missing") /\ UNCHANGED rows
  BY <1>1, <1>2, RowsSame, EndsAside
<1>3. ASSUME Stands(c), Change(act[c].seen, [rows[act[c].seen] EXCEPT !.at = "trash"]), Ends(c, "done") PROVE StepCarries
  <2>1. rows[act[c].seen].at = "live"
    BY <1>3 DEF Stands, LiveAt, Live
  <2>2. RowsCarry
    BY <1>1, <1>3, <2>1, RowKept
  <2> QED
    BY <1>1, <1>3, <2>2, EndsAside
<1> QED
  BY <1>2, <1>3 DEF SoftDelete

LEMMA PurgeCarries ==
  ASSUME LInv, NamesOK, TasksOK', NEW c \in Clients, Purge(c)
  PROVE  StepCarries
<1>1. /\ c \in Actors /\ act[c] \in Task /\ act[c].op # "relink" /\ ~At(c, "idle") /\ act[c].seen \in Notes
      /\ UNCHANGED <<jobs, fleet, host>>
  BY Typed DEF Purge, At, Op, TaskOK, TaskShape, TaskNames, Written
<1>2. CASE Ends(c, "missing") /\ UNCHANGED rows
  BY <1>1, <1>2, RowsSame, EndsAside
<1>3. ASSUME rows[act[c].seen].at = "trash", Change(act[c].seen, [rows[act[c].seen] EXCEPT !.at = "gone"]), Ends(c, "done")
      PROVE  StepCarries
  <2>1. RowsCarry
    BY <1>1, <1>3, RowKept
  <2> QED
    BY <1>1, <1>3, <2>1, EndsAside
<1> QED
  BY <1>2, <1>3 DEF Purge

LEMMA RestoreCarries ==
  ASSUME LInv, NamesOK, TasksOK', NEW c \in Clients, Restore(c)
  PROVE  StepCarries
<1> DEFINE n == act[c].seen
           links == Unsure(rows[n].links)
           new == [rows[n] EXCEPT !.at = "live", !.links = links]
<1>1. /\ c \in Actors /\ act[c] \in Task /\ act[c].op # "relink" /\ ~At(c, "idle") /\ n \in Notes
      /\ UNCHANGED <<jobs, fleet, host>>
  BY Typed DEF Restore, At, Op, TaskOK, TaskShape, TaskNames, Written
<1>2. ASSUME NEW answer, Ends(c, answer), UNCHANGED rows PROVE StepCarries
  BY <1>1, <1>2, RowsSame, EndsAside
<1>3. ASSUME rows[n].at = "trash", Change(n, [rows[n] EXCEPT !.at = "live", !.links = Unsure(@)]), Ends(c, "done")
      PROVE  StepCarries
  <2>1. rows[n] \in Row /\ rows[n].links \in SUBSET Links /\ rows[n].seq \in Nat
    BY <1>1, Typed DEF Row
  <2>2. ASSUME NEW l \in links
        PROVE  l \in Links /\ (l.of # "none" => l \in rows[n].links /\ ~Locked(l.of))
    <3>1. PICK k \in rows[n].links : l = IF k.of # "none" /\ Locked(k.of) THEN Link(k.to, "none") ELSE k
      BY <2>2 DEF Unsure
    <3>2. Link(k.to, "none") \in Links /\ Link(k.to, "none").of = "none"
      BY <2>1, <3>1 DEF Link, Links
    <3> QED
      BY <2>1, <3>1, <3>2
  <2>3. Change(n, new)
    BY <1>3
  <2> HIDE DEF links
  <2>4. new \in Row /\ new.at = "live" /\ new.links = links /\ new.path = rows[n].path /\ new.seq = rows[n].seq
    BY <2>1, <2>2 DEF Row, Ats
  <2> HIDE DEF new
  <2>5. \A l \in new.links : l.of # "none" => l \in Tracked(n) /\ Written(n) /\ (new.at = "live" /\ ~Live(n) => ~Locked(l.of))
    BY <1>1, <1>3, <2>2, <2>4 DEF Tracked, Written
  <2>6. RowsCarry
    BY <1>1, <1>3, <2>1, <2>3, <2>4, <2>5, RowsChange DEF Present
  <2> HIDE DEF n
  <2> QED
    BY <1>1, <1>3, <2>6, EndsAside
<1> QED
  BY <1>2, <1>3 DEF Restore

LEMMA FindCarries ==
  ASSUME LInv, NamesOK, TasksOK', NEW c \in Clients, Find(c)
  PROVE  StepCarries
<1>1. /\ c \in Actors /\ TasksOK /\ act[c] \in Task /\ act[c].at = "tx" /\ act[c].op = "rename" /\ ~At(c, "idle")
      /\ UNCHANGED <<rows, jobs, fleet, host>> /\ RowsCarry
  BY Typed, RowsSame DEF Find, At, Op, LInv, IInv
<1>2. CASE Ends(c, "missing")
  BY <1>1, <1>2, EndsAside
<1>3. CASE act' = [act EXCEPT ![c].at = "found", ![c].refs = Referrers(act[c].seen, act[c].path)]
  <2> DEFINE refs == Referrers(act[c].seen, act[c].path)
             t == [act[c] EXCEPT !.at = "found", !.refs = refs]
  <2>1. act' = [act EXCEPT ![c] = t]
    BY <1>1, <1>3 DEF TasksOK
  <2>2. /\ t.op = act[c].op /\ t.ref = act[c].ref /\ t.own = act[c].own /\ t.refs = refs /\ t.job = act[c].job
        /\ t.at = "found" /\ t.seen = act[c].seen /\ t.path = act[c].path
    BY <1>1 DEF Task
  <2> HIDE DEF t
  <2>3. Others(c) /\ act'[c] = t
    BY <1>1, <2>1, OthersAre
  <2>4. \A r \in Notes \ {t.seen} : rows'[r].at = "live" => \A l \in Tracked(r)' : l.to = t.path => r \in t.refs
    BY <1>1, <2>2 DEF Referrers, Tracked, Live
  <2>5. act[c].job = <<>> /\ act[c].ref = "none" /\ ~act[c].own
    BY <1>1 DEF NamesOK, OneLink
  <2>6. "none" \notin refs
    BY NamesAssumption DEF Referrers
  <2>7. OneLink(t)
    BY <2>2, <2>5, <2>6 DEF OneLink
  <2>8. Acts(c)
    BY <1>1, <2>2, <2>3, <2>4, <2>5, <2>7, ActsAside
  <2> QED
    BY <1>1, <2>3, <2>8, JobsSame, OneActs
<1> QED
  BY <1>2, <1>3 DEF Find
-----------------------------------------------------------------------------
(* The write of a note's body *)

LEMMA UnsettledOf ==
  ASSUME LInv, NamesOK, NEW actors, NEW a \in actors, a \in Actors, NEW r \in Notes, NEW l \in Tracked(r), Follows(a, r, l)
  PROVE  <<r, l>> \in Unsettled(actors)
<1>1. l = Link(l.to, l.of)
  <2>1. rows[r].links \in SUBSET Links
    BY DEF LInv, IInv, RowsOK, Row
  <2> QED
    BY <2>1 DEF Tracked, Links, Link
<1>2. act[a].ref = r /\ l = Link(IF At(a, "settle") THEN act[a].to ELSE act[a].linked, act[a].note)
      /\ (At(a, "settle") \/ act[a].own)
  BY <1>1 DEF Follows, At
<1> QED
  BY <1>2 DEF Unsettled

\* A failed write or run: what it had written is no longer said to follow.
LEMMA StopCarries ==
  ASSUME LInv, NamesOK, TasksOK', NEW a \in Actors, ~At(a, "idle"), rows' = Left(rows, Unsettled({a})),
         NEW answer, Ends(a, answer), UNCHANGED <<jobs, fleet, host>>
  PROVE  StepCarries
<1>1. Others(a) /\ act'[a] = Idle
  BY EndsIs
<1>2. /\ RowsCarry
      /\ \A r \in Notes : \A l : l \in Tracked(r)' => l \in Tracked(r) /\ <<r, l>> \notin Unsettled({a})
  BY RowsLeft
<1>3. \A r \in Notes : \A l : l \in Tracked(r) /\ l \in Tracked(r)' => ~Follows(a, r, l)
  BY <1>2, UnsettledOf
<1>4. Acts(a)
  BY <1>1, <1>3, ActsStops
<1> QED
  BY <1>1, <1>2, <1>4, JobsSame, OneActs

LEMMA TypedLinks ==
  ASSUME LInv, NEW r \in Notes
  PROVE  rows[r] \in Row /\ rows[r].links \in SUBSET Links /\ rows[r].seq \in Nat
BY DEF LInv, IInv, RowsOK, Row

LEMMA EditedCarries ==
  ASSUME LInv, NamesOK, TasksOK', NEW a \in Actors, act[a].at = "tx", act[a].op = "edit", UNCHANGED <<jobs, fleet, host>>,
         Live(act[a].seen), act[a].seen \in Notes, Ends(a, "done"),
         Change(act[a].seen, [rows[act[a].seen] EXCEPT !.links = @ \cup {Link(act[a].to, Meaning(act[a].to))}])
  PROVE  StepCarries
<1> DEFINE n == act[a].seen
           link == Link(act[a].to, Meaning(act[a].to))
           new == [rows[n] EXCEPT !.links = rows[n].links \cup {link}]
<1>1. act[a] \in Task /\ act[a].to \in Paths /\ rows[n] \in Row /\ rows[n].links \in SUBSET Links /\ rows[n].seq \in Nat
  BY Typed, TypedLinks DEF TaskOK, TaskShape
<1>2. /\ link \in Links /\ link.to = act[a].to
      /\ link.of # "none" => Live(link.of) /\ link.of \in Notes /\ link.to = rows[link.of].path /\ ~Locked(link.of)
  <2>1. CASE Taken(act[a].to) /\ ~Locked(NoteAt(act[a].to))
    <3>1. NoteAt(act[a].to) \in Notes /\ LiveAt(NoteAt(act[a].to), act[a].to)
      BY <2>1 DEF NoteAt, Taken
    <3> QED
      BY <1>1, <2>1, <3>1 DEF Link, Links, Meaning, LiveAt
  <2>2. CASE ~(Taken(act[a].to) /\ ~Locked(NoteAt(act[a].to)))
    BY <1>1, <2>2 DEF Link, Links, Meaning
  <2> QED
    BY <2>1, <2>2
<1>3. Change(n, new)
  OBVIOUS
<1> HIDE DEF link
<1>4. /\ new \in Row /\ new.links = rows[n].links \cup {link} /\ new.at = rows[n].at /\ new.path = rows[n].path
      /\ new.seq = rows[n].seq
  BY <1>1, <1>2 DEF Row
<1> HIDE DEF new
<1>5. \A l \in new.links : l.of # "none" =>
        \/ Live(l.of) /\ l.of \in Notes /\ l.to = rows[l.of].path /\ ~Locked(l.of)
        \/ l \in Tracked(n) /\ Written(n) /\ (new.at = "live" /\ ~Live(n) => ~Locked(l.of))
  BY <1>2, <1>4 DEF Tracked, Written, Live
<1>6. RowsCarry
  BY <1>1, <1>3, <1>4, <1>5, RowsChange DEF Present, Live
<1>7. act[a].op # "relink" /\ ~At(a, "idle")
  BY DEF At
<1> QED
  BY <1>6, <1>7, EndsAside

\* A link that is turned to the note's new path is settled next.
LEMMA TurnedCarries ==
  ASSUME LInv, NamesOK, TasksOK', NEW a \in Actors, act[a].at = "tx", act[a].op = "relink", UNCHANGED <<jobs, fleet, host>>,
         NEW n \in Notes, act[a].ref = n, Live(n),
         Change(n, [rows[n] EXCEPT !.links = Refactored(@, act[a].note, act[a].linked, act[a].to)]),
         act' = [act EXCEPT ![a].at = "settle", ![a].keys = <<act[a].to>>, ![a].path = 0]
  PROVE  StepCarries
<1> DEFINE m == act[a].note
           from == act[a].linked
           to == act[a].to
           links == Refactored(rows[n].links, m, from, to)
           new == [rows[n] EXCEPT !.links = links]
           t == [act[a] EXCEPT !.at = "settle", !.keys = <<to>>, !.path = 0]
<1>1. act[a] \in Task /\ TasksOK /\ to \in Paths /\ m \in Notes /\ Written(m) /\ rows[n] \in Row /\ rows[n].links \in SUBSET Links
      /\ rows[n].seq \in Nat
  BY Typed, TypedLinks DEF TaskOK, TaskShape, TaskNames, LInv, IInv, Written
<1>2. act' = [act EXCEPT ![a] = t]
  BY <1>1 DEF TasksOK
<1>3. /\ t.op = "relink" /\ t.note = m /\ t.ref = n /\ t.own = act[a].own /\ t.linked = from
      /\ t.refs = act[a].refs /\ t.job = act[a].job /\ t.from = act[a].from /\ t.at = "settle" /\ t.to = to
  BY <1>1 DEF Task
<1> HIDE DEF t
<1>4. Others(a) /\ act'[a] = t
  BY <1>1, <1>2, OthersAre
<1>5. ASSUME NEW l \in links
      PROVE  l \in Links /\ (l.of # "none" => \/ l \in rows[n].links /\ l.to # from
                                              \/ l.to = to /\ l.of = m)
  <2>1. PICK k \in rows[n].links : l = IF k.to = from THEN Link(to, IF k.of = m THEN m ELSE "none") ELSE k
    BY <1>5 DEF Refactored
  <2>2. CASE k.to = from
    BY <1>1, <2>1, <2>2 DEF Link, Links
  <2>3. CASE k.to # from
    BY <1>1, <2>1, <2>3
  <2> QED
    BY <2>2, <2>3
<1>6. Change(n, new)
  OBVIOUS
<1> HIDE DEF links
<1>7. new \in Row /\ new.links = links /\ new.at = rows[n].at /\ new.path = rows[n].path /\ new.seq = rows[n].seq
  BY <1>1, <1>5 DEF Row
<1> HIDE DEF new
<1>8. \A l : l.to = to /\ l.of = m => act'[a].at = "settle" /\ Follows(a, n, l)'
  BY <1>3, <1>4 DEF Follows
<1>9. ASSUME NEW l \in new.links, l.of # "none"
      PROVE  \/ l \in Tracked(n) /\ Written(n) /\ (new.at = "live" /\ ~Live(n) => ~Locked(l.of))
             \/ Written(l.of) /\ \E b \in Actors : act'[b].at = "settle" /\ Follows(b, n, l)'
  BY <1>1, <1>5, <1>7, <1>8, <1>9 DEF Tracked, Written, Live
<1>10. \A l \in new.links : l.of # "none" =>
         \/ Live(l.of) /\ l.of \in Notes /\ l.to = rows[l.of].path /\ ~Locked(l.of)
         \/ l \in Tracked(n) /\ Written(n) /\ (new.at = "live" /\ ~Live(n) => ~Locked(l.of))
         \/ Written(l.of) /\ \E b \in Actors : act'[b].at = "settle" /\ Follows(b, n, l)'
  BY <1>9
<1>11. rows[n].at = "live" /\ new.at # "none" /\ new.seq >= rows[n].seq /\ Present(n)
  BY <1>1, <1>7 DEF Present, Live
<1>12. /\ RowsCarry
       /\ \A r \in Notes : \A l : l \in Tracked(r)' => IF r = n THEN l \in new.links ELSE l \in Tracked(r)
  BY <1>6, <1>7, <1>10, <1>11, RowsChange
<1>13. ASSUME NEW r, NEW l, Pending(r, l), r = n, l.to = from, l.of = m PROVE Follows(a, r, l)'
  <2>1. r \in Notes /\ l \in Tracked(r)'
    BY <1>13 DEF Pending
  <2>2. l \in links /\ l.of # "none"
    <3>1. l.of \in Notes
      BY <1>1, <1>13
    <3> QED
      BY <1>7, <1>12, <1>13, <2>1, <3>1, NamesAssumption
  <2>3. l.to # from \/ l.to = to
    BY <1>5, <2>2
  <2>4. l.to = to /\ l.of = m
    BY <1>13, <2>3
  <2> HIDE DEF m, to
  <2> QED
    BY <1>8, <1>13, <2>4
<1>14. Carried(a)
  <2>1. ASSUME NEW r, NEW l, Pending(r, l), Follows(a, r, l) PROVE Follows(a, r, l)'
    <3>1. r = n /\ l.to = from /\ l.of = m
      BY <2>1 DEF Follows
    <3> HIDE DEF m, from
    <3> QED
      BY <1>13, <2>1, <3>1
  <2>2. ASSUME NEW r, NEW l, Pending(r, l), NEW j \in jobs, Listed(j, r, l), act'[a].job = j.id
        PROVE  Ahead(a, r, l.to)' \/ Follows(a, r, l)'
    <3>1. Ahead(a, r, l.to) /\ l.of = m
      BY <1>3, <1>4, <2>2 DEF Listed, NamesOK
    <3>2. CASE r \in act[a].refs
      BY <1>3, <1>4, <3>2 DEF Ahead
    <3>3. CASE r = n /\ l.to = from
      <4> HIDE DEF m, from
      <4> QED
        BY <1>13, <2>2, <3>1, <3>3
    <3> QED
      BY <3>1, <3>2, <3>3 DEF Ahead
  <2> QED
    BY <2>1, <2>2 DEF Carried
<1>15. Acts(a)
  <2>1. OneLink(act'[a])
    BY <1>3, <1>4 DEF NamesOK, OneLink
  <2>2. SameRun(a) /\ Settled(a)
    BY <1>3, <1>4 DEF SameRun, Settled
  <2> QED
    BY <1>3, <1>4, <1>14, <2>1, <2>2 DEF Acts
<1> QED
  BY <1>4, <1>12, <1>15, JobsSame, OneActs

\* A link to another note at that path is turned all the same, and means no note.
LEMMA PassedCarries ==
  ASSUME LInv, NamesOK, TasksOK', NEW a \in Actors, act[a].at = "tx", UNCHANGED <<jobs, fleet, host>>,
         NEW n \in Notes, Live(n), NextRound(a, act[a].linked), act[a].to \in Paths,
         Change(n, [rows[n] EXCEPT !.links = Refactored(rows[n].links, "none", act[a].linked, act[a].to)])
  PROVE  StepCarries
<1> DEFINE links == Refactored(rows[n].links, "none", act[a].linked, act[a].to)
           new == [rows[n] EXCEPT !.links = links]
<1>1. rows[n] \in Row /\ rows[n].links \in SUBSET Links /\ rows[n].seq \in Nat
  BY TypedLinks
<1>2. ASSUME NEW l \in links PROVE l \in Links /\ (l.of # "none" => l \in rows[n].links)
  <2>1. PICK k \in rows[n].links :
          l = IF k.to = act[a].linked THEN Link(act[a].to, IF k.of = "none" THEN "none" ELSE "none") ELSE k
    BY <1>2 DEF Refactored
  <2> QED
    BY <1>1, <2>1 DEF Link, Links
<1>3. Change(n, new)
  OBVIOUS
<1> HIDE DEF links
<1>4. new \in Row /\ new.links = links /\ new.at = rows[n].at /\ new.path = rows[n].path /\ new.seq = rows[n].seq
  BY <1>1, <1>2 DEF Row
<1> HIDE DEF new
<1>5. \A l \in new.links : l.of # "none" => l \in Tracked(n) /\ Written(n) /\ (new.at = "live" /\ ~Live(n) => ~Locked(l.of))
  BY <1>2, <1>4 DEF Tracked, Written, Live
<1>6. RowsCarry
  BY <1>1, <1>3, <1>4, <1>5, RowsChange DEF Present, Live
<1> QED
  BY <1>6, RoundGoesOn

LEMMA EditCarries ==
  ASSUME LInv, NamesOK, TasksOK', NEW a \in Actors, Edit(a)
  PROVE  StepCarries
<1> DEFINE n == act[a].seen
<1>1. /\ act[a] \in Task /\ TasksOK /\ act[a].at = "tx" /\ act[a].op \in {"edit", "relink"} /\ n \in Notes /\ ~At(a, "idle")
      /\ act[a].op = "relink" => act[a].to \in Paths
      /\ UNCHANGED <<jobs, fleet, host>>
  BY Typed DEF Edit, At, Op, TaskOK, TaskShape, TaskNames, Written, LInv, IInv
<1>2. CASE NoNote(a) /\ UNCHANGED rows
  BY <1>1, <1>2, RowsSame, NoNoteCarries
<1>3. CASE /\ act' = [act EXCEPT ![a].at = "lock", ![a].tries = @ + 1, ![a].seen = "none", ![a].seq = 0]
           /\ UNCHANGED rows
  <2> DEFINE t == [act[a] EXCEPT !.at = "lock", !.tries = @ + 1, !.seen = "none", !.seq = 0]
  <2>1. act' = [act EXCEPT ![a] = t]
    BY <1>1, <1>3 DEF TasksOK
  <2>2. /\ t.op = act[a].op /\ t.note = act[a].note /\ t.ref = act[a].ref /\ t.own = act[a].own /\ t.linked = act[a].linked
        /\ t.refs = act[a].refs /\ t.job = act[a].job /\ t.from = act[a].from /\ t.at = "lock"
    BY <1>1 DEF Task
  <2> HIDE DEF t
  <2>3. Others(a) /\ act'[a] = t
    BY <1>1, <2>1, OthersAre
  <2> HIDE DEF n
  <2> QED
    BY <1>1, <1>3, <2>2, <2>3, GoesOn, RowsSame
<1>4. CASE Ends(a, "busy") /\ rows' = Left(rows, Unsettled({a}))
  BY <1>1, <1>4, StopCarries
<1>5. CASE /\ Stands(a) /\ act[a].op = "edit" /\ Ends(a, "done")
           /\ Change(n, [rows[n] EXCEPT !.links = @ \cup {Link(act[a].to, Meaning(act[a].to))}])
  BY <1>1, <1>5, EditedCarries DEF Stands, LiveAt
<1>6. CASE /\ Stands(a) /\ act[a].op = "relink" /\ n = act[a].ref
           /\ Change(n, [rows[n] EXCEPT !.links = Refactored(rows[n].links, act[a].note, act[a].linked, act[a].to)])
           /\ act' = [act EXCEPT ![a].at = "settle", ![a].keys = <<act[a].to>>, ![a].path = 0]
  BY <1>1, <1>6, TurnedCarries DEF Stands, LiveAt
<1>7. CASE /\ Stands(a) /\ act[a].op = "relink"
           /\ Change(n, [rows[n] EXCEPT !.links = Refactored(rows[n].links, "none", act[a].linked, act[a].to)])
           /\ NextRound(a, act[a].linked)
  BY <1>1, <1>7, PassedCarries DEF Stands, LiveAt
<1> QED
  BY <1>1, <1>2, <1>3, <1>4, <1>5, <1>6, <1>7 DEF Edit, Op
-----------------------------------------------------------------------------
(* The steps from one referrer to the next *)

\* A link of r to p that actor a has in hand.
InHand(a, r, p) == act[a].ref = r /\ p = IF At(a, "settle") THEN act[a].to ELSE act[a].linked

LEMMA NextIs ==
  ASSUME LInv, TasksOK', NEW a \in Actors, NEW refs, NextReferrer(a, refs)
  PROVE  /\ Others(a)
         /\ act'[a].at = "relink" /\ act'[a].op = "relink" /\ act'[a].note = act[a].note /\ act'[a].job = act[a].job
         /\ act'[a].from = act[a].from /\ act'[a].refs = refs /\ act'[a].ref = "none" /\ act'[a].own = FALSE
<1> DEFINE t == [Idle EXCEPT !.at = "relink", !.op = "relink", !.note = act[a].note, !.job = act[a].job,
                             !.from = act[a].from, !.refs = refs]
<1>1. act' = [act EXCEPT ![a] = t] /\ TasksOK
  BY DEF NextReferrer, LInv, IInv
<1>2. /\ t.at = "relink" /\ t.op = "relink" /\ t.note = act[a].note /\ t.job = act[a].job
      /\ t.from = act[a].from /\ t.refs = refs /\ t.ref = "none" /\ t.own = FALSE
  BY DEF Idle
<1> HIDE DEF t
<1>3. Others(a) /\ act'[a] = t
  BY <1>1, OthersAre
<1> QED
  BY <1>2, <1>3

\* A run that is done with a referrer, and no link that is to be put right was in its hands.
LEMMA NextCarries ==
  ASSUME LInv, NamesOK, TasksOK', NEW a \in Actors, act[a].op = "relink", NEW refs \in SUBSET act[a].refs,
         NextReferrer(a, refs), RowsCarry, UNCHANGED <<jobs, fleet, host>>, Settled(a),
         \A r, l : Pending(r, l) /\ l.of = act[a].note =>
           ~InHand(a, r, l.to) /\ ~(r \in act[a].refs \ refs /\ l.to = act[a].from)
  PROVE  StepCarries
<1>1. /\ Others(a)
      /\ act'[a].at = "relink" /\ act'[a].op = "relink" /\ act'[a].note = act[a].note /\ act'[a].job = act[a].job
      /\ act'[a].from = act[a].from /\ act'[a].refs = refs /\ act'[a].ref = "none" /\ act'[a].own = FALSE
  BY NextIs
<1>2. act[a].at # "idle" /\ act[a] \in Task
  BY Typed DEF TaskOK, TaskShape
<1>3. ASSUME NEW r, NEW l, Pending(r, l) PROVE ~Follows(a, r, l)
  BY <1>3 DEF Follows, InHand, At
<1>4. ASSUME NEW r, NEW l, Pending(r, l), NEW j \in jobs, Listed(j, r, l), act'[a].job = j.id PROVE Ahead(a, r, l.to)'
  <2>1. act[a].note = l.of /\ act[a].from = l.to /\ Ahead(a, r, l.to)
    BY <1>1, <1>4 DEF Listed, NamesOK
  <2>2. r \in act[a].refs /\ r \in refs
    BY <1>4, <2>1 DEF Ahead, InHand, At
  <2> QED
    BY <1>1, <2>2 DEF Ahead
<1>5. Carried(a)
  BY <1>3, <1>4 DEF Carried
<1>6. OneLink(act'[a]) /\ SameRun(a)
  <2>1. "none" \notin refs
    BY <1>2, TaskFields, NamesAssumption
  <2> QED
    BY <1>1, <2>1 DEF OneLink, SameRun
<1>7. Acts(a)
  BY <1>1, <1>2, <1>5, <1>6 DEF Acts
<1> QED
  BY <1>1, <1>7, JobsSame, OneActs

LEMMA TooLargeCarries ==
  ASSUME LInv, NamesOK, TasksOK', NEW a \in Actors, TooLarge(a)
  PROVE  StepCarries
<1> DEFINE left == {<<act[a].ref, Link(act[a].linked, act[a].note)>>}
<1>1. /\ act[a].at = "tx" /\ act[a].op = "relink" /\ NextReferrer(a, act[a].refs) /\ rows' = Left(rows, left)
      /\ UNCHANGED <<jobs, fleet, host>>
  BY DEF TooLarge, At, Op
<1>2. /\ RowsCarry
      /\ \A r \in Notes : \A l : l \in Tracked(r)' => l \in Tracked(r) /\ <<r, l>> \notin left
  BY <1>1, RowsLeft
<1>3. Settled(a)
  BY <1>1 DEF Settled
<1>4. ASSUME NEW r, NEW l, Pending(r, l), l.of = act[a].note PROVE ~InHand(a, r, l.to)
  <2>1. r \in Notes /\ l \in Tracked(r) /\ <<r, l>> \notin left
    BY <1>2, <1>4 DEF Pending
  <2>2. l = Link(l.to, l.of)
    BY <2>1, TypedLinks DEF Tracked, Links, Link
  <2> QED
    BY <1>1, <1>4, <2>1, <2>2 DEF InHand, At
<1> QED
  BY <1>1, <1>2, <1>3, <1>4, NextCarries

LEMMA LookCarries ==
  ASSUME LInv, NamesOK, TasksOK', NEW a \in Actors, NEW r \in Notes, Look(a, r)
  PROVE  StepCarries
<1> DEFINE n == act[a].note
           first == act[a].ref = "none"
           p == IF first THEN act[a].from ELSE act[a].linked
           task == [act[a] EXCEPT !.ref = r, !.linked = p, !.refs = @ \ {r}]
           left == {<<r, Link(p, n)>>}
           nothing == rows[n].at = "gone" \/ rows[n].path = p \/ ~Live(r) \/ \A l \in rows[r].links : l.to # p
           last == task.rounds = RelinkRounds
<1>1. /\ act[a] \in Task /\ act[a].at = "relink" /\ act[a].op = "relink" /\ TasksOK /\ n \in Notes
      /\ UNCHANGED <<jobs, fleet, host>> /\ IF first THEN r \in act[a].refs ELSE r = act[a].ref
  BY Typed DEF Look, At, TaskOK, TaskShape, TaskNames, Written, LInv, IInv
<1>2. task.refs = act[a].refs \ {r} /\ OneLink(act[a])
  BY <1>1 DEF NamesOK, Task
<1>3. Settled(a)
  BY <1>1 DEF Settled
<1>4. CASE nothing \/ last
  <2>1. NextReferrer(a, task.refs) /\ rows' = IF ~Live(r) \/ last THEN Left(rows, left) ELSE rows
    BY <1>4 DEF Look
  <2>2. CASE ~Live(r) \/ last
    <3>1. /\ RowsCarry
          /\ \A q \in Notes : \A l : l \in Tracked(q)' => l \in Tracked(q) /\ <<q, l>> \notin left
      BY <2>1, <2>2, RowsLeft
    <3>2. ASSUME NEW q, NEW l, Pending(q, l), l.of = n PROVE ~(q = r /\ l.to = p)
      <4>1. q \in Notes /\ l \in Tracked(q) /\ <<q, l>> \notin left
        BY <3>1, <3>2 DEF Pending
      <4>2. l = Link(l.to, l.of)
        BY <4>1, TypedLinks DEF Tracked, Links, Link
      <4> QED
        BY <3>2, <4>1, <4>2
    <3>3. \A q, l : Pending(q, l) /\ l.of = n => ~InHand(a, q, l.to) /\ ~(q \in act[a].refs \ task.refs /\ l.to = act[a].from)
      <4> SUFFICES ASSUME NEW q, NEW l, Pending(q, l), l.of = n
                   PROVE  ~InHand(a, q, l.to) /\ ~(q \in act[a].refs \ task.refs /\ l.to = act[a].from)
        OBVIOUS
      <4>1. q \in Notes /\ ~(q = r /\ l.to = p)
        BY <3>2 DEF Pending
      <4> HIDE DEF task
      <4> QED
        BY <1>1, <1>2, <4>1, NamesAssumption DEF InHand, At, OneLink
    <3> HIDE DEF task
    <3> QED
      BY <1>1, <1>2, <1>3, <2>1, <3>1, <3>3, NextCarries
  <2>3. CASE ~(~Live(r) \/ last)
    <3>1. RowsCarry
      BY <2>1, <2>3, RowsSame
    <3>2. ASSUME NEW q, NEW l, Pending(q, l), l.of = n PROVE ~(q = r /\ l.to = p)
      BY <1>4, <2>3, <3>2 DEF Pending, Present, Tracked, Live
    <3>3. \A q, l : Pending(q, l) /\ l.of = n => ~InHand(a, q, l.to) /\ ~(q \in act[a].refs \ task.refs /\ l.to = act[a].from)
      <4> SUFFICES ASSUME NEW q, NEW l, Pending(q, l), l.of = n
                   PROVE  ~InHand(a, q, l.to) /\ ~(q \in act[a].refs \ task.refs /\ l.to = act[a].from)
        OBVIOUS
      <4>1. q \in Notes /\ ~(q = r /\ l.to = p)
        BY <3>2 DEF Pending
      <4> HIDE DEF task
      <4> QED
        BY <1>1, <1>2, <4>1, NamesAssumption DEF InHand, At, OneLink
    <3> HIDE DEF task
    <3> QED
      BY <1>1, <1>2, <1>3, <2>1, <3>1, <3>3, NextCarries
  <2> QED
    BY <2>2, <2>3
<1>5. CASE ~(nothing \/ last)
  <2> DEFINE t == [task EXCEPT !.at = "lock", !.path = rows[r].path, !.to = rows[n].path, !.keys = <<rows[r].path>>]
  <2>1. act' = [act EXCEPT ![a] = t] /\ UNCHANGED rows
    BY <1>5 DEF Look
  <2>2. /\ t.op = "relink" /\ t.note = act[a].note /\ t.ref = r /\ t.own = act[a].own /\ t.linked = p
        /\ t.refs = act[a].refs \ {r} /\ t.job = act[a].job /\ t.from = act[a].from /\ t.at = "lock"
    BY <1>1 DEF Task
  <2> HIDE DEF t
  <2>3. Others(a) /\ act'[a] = t
    BY <1>1, <2>1, OthersAre
  <2>4. r # "none" /\ (first => ~act[a].own) /\ act[a].ref \notin act[a].refs
    BY <1>2, NamesAssumption DEF OneLink
  <2>5. ASSUME NEW q \in Notes, NEW l, Follows(a, q, l) PROVE Follows(a, q, l)'
    BY <1>1, <2>2, <2>3, <2>4, <2>5, NamesAssumption DEF Follows
  <2>6. ASSUME NEW q \in Notes, NEW l, NEW j \in jobs, Listed(j, q, l), act'[a].job = j.id PROVE Ahead(a, q, l.to)'
    <3>1. act[a].from = l.to /\ Ahead(a, q, l.to)
      BY <2>2, <2>3, <2>6 DEF Listed, NamesOK
    <3>2. CASE q \in act[a].refs /\ q # r
      BY <2>2, <2>3, <3>2 DEF Ahead
    <3>3. CASE q = r /\ first
      BY <2>2, <2>3, <2>4, <3>1, <3>3 DEF Ahead
    <3>4. CASE q = r /\ ~first
      BY <1>1, <2>2, <2>3, <2>4, <3>1, <3>4 DEF Ahead
    <3>5. q = r \/ (q \in act[a].refs /\ q # r)
      BY <1>1, <3>1, NamesAssumption DEF Ahead
    <3> QED
      BY <3>2, <3>3, <3>4, <3>5
  <2>7. Carried(a)
    BY <2>5, <2>6 DEF Carried, Pending
  <2>8. OneLink(act'[a]) /\ SameRun(a)
    BY <2>2, <2>3, <2>4 DEF OneLink, SameRun
  <2>9. Acts(a)
    BY <1>1, <1>3, <2>2, <2>3, <2>7, <2>8 DEF Acts
  <2> QED
    BY <1>1, <2>1, <2>3, <2>9, RowsSame, JobsSame, OneActs
<1> QED
  BY <1>4, <1>5
-----------------------------------------------------------------------------
(* Links that are settled *)

\* Nobody renames a note away from a path whose key another actor of the one process holds.
LEMMA KeyKeepsOut ==
  ASSUME LInv, OneProcess, NEW a \in Actors, act[a].at = "settle", HoldsAll(a), NEW c \in Clients, act[c].at = "found"
  PROVE  act[c].path # act[a].to
<1>1. PICK s \in Servers : fleet = {s} /\ (\A d \in Clients : host[d] = s) /\ \A t \in Servers \ {s} : act[t].at = "idle"
  BY DEF OneProcess
<1>2. c \in Actors /\ TaskShape(a, act[a]) /\ TaskShape(c, act[c]) /\ c # a
  BY Typed DEF TaskOK
<1>3. Server(a) = s /\ Server(c) = s
  BY <1>1, <1>2 DEF Server, Actors
<1>4. SUFFICES ASSUME act[c].path = act[a].to PROVE FALSE
  OBVIOUS
<1> DEFINE p == act[a].to
<1>5. Holds(a, p)
  <2>1. act[a].keys = <<p>>
    BY <1>2 DEF TaskShape
  <2> QED
    BY <2>1 DEF HoldsAll
<1>6. First(queue, c, p)
  <2>1. act[c].keys = KeysOf(act[c]) /\ act[c].op = "rename" /\ act[c].path = p
    BY <1>2, <1>4 DEF TaskShape
  <2>2. \E i \in DOMAIN act[c].keys : act[c].keys[i] = p
    <3>1. CASE act[c].path < act[c].to
      <4>1. act[c].keys = <<p, act[c].to>>
        BY <2>1, <3>1 DEF KeysOf, Sorted
      <4> QED
        BY <4>1
    <3>2. CASE ~(act[c].path < act[c].to)
      <4>1. act[c].keys = <<act[c].to, p>>
        BY <2>1, <3>2 DEF KeysOf, Sorted
      <4> QED
        BY <4>1
    <3> QED
      BY <3>1, <3>2
  <2> QED
    BY <1>2, <2>2 DEF LInv, IInv, QueuesOK, Ordered
<1> QED
  BY <1>2, <1>3, <1>5, <1>6 DEF Holds, First

LEMMA SettleCarries ==
  ASSUME LInv, OneProcess, NamesOK, TasksOK', NEW a \in Actors, Settle(a)
  PROVE  StepCarries
<1>1. /\ act[a] \in Task /\ act[a].at = "settle" /\ act[a].op = "relink" /\ TasksOK /\ HoldsAll(a)
      /\ act[a].ref \in Notes /\ act[a].to \in Paths /\ UNCHANGED <<rows, jobs, fleet, host>>
  BY Typed DEF Settle, At, TaskOK, TaskShape, LInv, IInv
<1>2. Settled(a)
  BY <1>1, KeyKeepsOut DEF Settled, Follows
<1>3. CASE StillThere(a)
  <2>1. NextReferrer(a, act[a].refs)
    BY <1>3 DEF Settle
  <2>2. \A r, l : Pending(r, l) /\ l.of = act[a].note => ~InHand(a, r, l.to)
    BY <1>1, <1>3 DEF Pending, InHand, At, StillThere
  <2> QED
    BY <1>1, <1>2, <2>1, <2>2, RowsSame, NextCarries
<1>4. CASE ~StillThere(a)
  <2> DEFINE t == [act[a] EXCEPT !.at = "relink", !.linked = act[a].to, !.rounds = @ + 1, !.own = @ \/ At(a, "settle"),
                                 !.keys = <<>>, !.path = 0, !.to = 0, !.seen = "none", !.seq = 0, !.tries = 0]
  <2>1. act' = [act EXCEPT ![a] = t]
    BY <1>1, <1>4 DEF Settle, NextRound, TasksOK
  <2>2. /\ t.op = "relink" /\ t.note = act[a].note /\ t.ref = act[a].ref /\ t.own = TRUE /\ t.linked = act[a].to
        /\ t.refs = act[a].refs /\ t.job = act[a].job /\ t.from = act[a].from /\ t.at = "relink"
    BY <1>1 DEF Task, At
  <2> HIDE DEF t
  <2>3. Others(a) /\ act'[a] = t
    BY <1>1, <2>1, OthersAre
  <2>4. Carried(a)
    <3>1. \A r, l : Follows(a, r, l) => Follows(a, r, l)'
      BY <1>1, <2>2, <2>3 DEF Follows
    <3>2. ASSUME NEW r, NEW l, NEW j \in jobs, Listed(j, r, l), act'[a].job = j.id PROVE Ahead(a, r, l.to)'
      BY <1>1, <2>2, <2>3, <3>2 DEF Listed, Ahead
    <3> QED
      BY <3>1, <3>2 DEF Carried
  <2>5. OneLink(act'[a]) /\ SameRun(a)
    BY <1>1, <2>2, <2>3, NamesAssumption DEF NamesOK, OneLink, SameRun
  <2>6. Acts(a)
    BY <1>1, <1>2, <2>2, <2>3, <2>4, <2>5 DEF Acts
  <2> QED
    BY <1>1, <2>3, <2>6, RowsSame, JobsSame, OneActs
<1> QED
  BY <1>3, <1>4
-----------------------------------------------------------------------------
(* The end of a job, and failures *)

LEMMA CompleteCarries ==
  ASSUME LInv, NamesOK, TasksOK', NEW a \in Actors, Complete(a)
  PROVE  StepCarries
<1>1. /\ act[a].at = "relink" /\ act[a].ref = "none" /\ act[a].refs = {} /\ UNCHANGED <<rows, fleet, host>>
      /\ jobs' = {j \in jobs : j.id # act[a].job} /\ Ends(a, "done")
  BY DEF Complete, At
<1>2. Others(a) /\ act'[a] = Idle
  BY <1>1, EndsIs
<1>3. \A r \in Notes : \A l : ~Follows(a, r, l) /\ \A p : ~Ahead(a, r, p)
  BY <1>1, NamesAssumption DEF Follows, Ahead
<1>4. Acts(a)
  BY <1>2, <1>3, ActsStops
<1>5. JobsCarry
  <2>1. jobs \subseteq Job /\ \A j \in Job : j.refs \subseteq Notes
    BY DEF LInv, IInv, JobsOK, Job
  <2>2. ASSUME NEW j \in jobs, j.id = act[a].job, NEW r, NEW l PROVE ~Listed(j, r, l)
    BY <1>3, <2>1, <2>2 DEF Listed
  <2> QED
    BY <1>1, <2>1, <2>2 DEF JobsCarry, SameJob
<1> QED
  BY <1>1, <1>2, <1>4, <1>5, RowsSame, OneActs

LEMMA BusyCarries ==
  ASSUME LInv, NamesOK, TasksOK', NEW a \in Actors, Busy(a)
  PROVE  StepCarries
BY StopCarries DEF Busy

\* A job that changes hands is the same job.
LEMMA LeaseCarries ==
  ASSUME LInv, NEW j \in jobs, NEW lease \in {"held", "past"}, jobs' = (jobs \ {j}) \cup {[j EXCEPT !.lease = lease]}
  PROVE  JobsCarry
<1> DEFINE k == [j EXCEPT !.lease = lease]
<1>1. jobs \subseteq Job /\ j \in Job
  BY DEF LInv, IInv, JobsOK
<1>2. k \in Job /\ SameJob(j, k) /\ SameJob(k, j)
  BY <1>1 DEF Job, SameJob
<1>3. \A i \in jobs : SameJob(i, i)
  BY DEF SameJob
<1>4. k \in jobs' /\ \A i \in jobs : i = j \/ i \in jobs'
  OBVIOUS
<1> HIDE DEF k
<1> QED
  BY <1>1, <1>2, <1>3, <1>4 DEF JobsCarry, k

LEMMA LeaseEndsCarries ==
  ASSUME LInv, NamesOK, NEW j \in jobs, LeaseEnds(j)
  PROVE  StepCarries
<1>1. UNCHANGED <<rows, act, fleet, host>> /\ jobs' = (jobs \ {j}) \cup {[j EXCEPT !.lease = "past"]}
  BY DEF LeaseEnds
<1>2. \A b \in Actors : Acts(b)
  BY <1>1, ActsNot
<1> QED
  BY <1>1, <1>2, RowsSame, LeaseCarries DEF StepCarries

LEMMA ResumeCarries ==
  ASSUME LInv, NamesOK, TasksOK', NEW j \in jobs, NEW s \in Servers, Resume(s, j)
  PROVE  StepCarries
<1> DEFINE t == [Idle EXCEPT !.at = "relink", !.op = "relink", !.note = j.note, !.job = j.id, !.from = j.from, !.refs = j.refs]
<1>1. /\ s \in fleet /\ s \in Actors /\ act[s].at = "idle" /\ act' = [act EXCEPT ![s] = t] /\ TasksOK
      /\ UNCHANGED <<rows, fleet, host>> /\ jobs' = (jobs \ {j}) \cup {[j EXCEPT !.lease = "held"]}
  BY Typed DEF Resume, At, LInv, IInv
<1>2. t.at = "relink" /\ t.op = "relink" /\ t.note = j.note /\ t.job = j.id /\ t.from = j.from /\ t.refs = j.refs
      /\ t.ref = "none" /\ t.own = FALSE
  BY DEF Idle
<1> HIDE DEF t
<1>3. Others(s) /\ act'[s] = t
  BY <1>1, OthersAre
<1>4. act[s].op # "relink" /\ j.refs \subseteq Notes
  BY <1>1, Typed DEF TaskOK, TaskShape, LInv, IInv, JobsOK, Job
<1>5. Carried(s)
  <2>1. \A r, l : ~Follows(s, r, l)
    BY <1>4 DEF Follows
  <2>2. ASSUME NEW r, NEW l, NEW k \in jobs, Listed(k, r, l), act'[s].job = k.id PROVE Ahead(s, r, l.to)'
    BY <1>2, <1>3, <2>2 DEF Listed, Ahead, NamesOK
  <2> QED
    BY <2>1, <2>2 DEF Carried
<1>6. OneLink(act'[s]) /\ SameRun(s) /\ Settled(s)
  BY <1>1, <1>2, <1>3, <1>4, NamesAssumption DEF OneLink, SameRun, Settled
<1>7. Acts(s)
  BY <1>1, <1>2, <1>3, <1>5, <1>6 DEF Acts
<1> QED
  BY <1>1, <1>3, <1>7, RowsSame, LeaseCarries, OneActs

LEMMA CrashCarries ==
  ASSUME LInv, NamesOK, NEW s \in fleet, Crash(s)
  PROVE  StepCarries
<1> DEFINE dead == {a \in Actors : Server(a) = s}
<1>1. /\ \A a \in Actors : act'[a] = IF a \in dead THEN Idle ELSE act[a]
      /\ rows' = Left(rows, Unsettled(dead)) /\ UNCHANGED <<jobs, fleet, host>>
  BY DEF Crash
<1> HIDE DEF dead
<1>2. /\ RowsCarry
      /\ \A r \in Notes : \A l : l \in Tracked(r)' => l \in Tracked(r) /\ <<r, l>> \notin Unsettled(dead)
  BY <1>1, RowsLeft
<1>3. ASSUME NEW a \in Actors, a \in dead PROVE Acts(a)
  <2>1. \A r \in Notes : \A l : l \in Tracked(r) /\ l \in Tracked(r)' => ~Follows(a, r, l)
    BY <1>2, <1>3, UnsettledOf
  <2> QED
    BY <1>1, <1>3, <2>1, ActsStops
<1>4. ASSUME NEW a \in Actors, a \notin dead PROVE Acts(a)
  BY <1>1, <1>4, ActsNot
<1> QED
  BY <1>1, <1>2, <1>3, <1>4, JobsSame DEF StepCarries
-----------------------------------------------------------------------------
(* A rename: the links to its note that are looked for next are those of its referrers *)

\* What a table shows once some links are left.
LEMMA LeftOf ==
  ASSUME NEW table \in [Notes -> Row], NEW left, rows' = Left(table, left), NEW r \in Notes
  PROVE  /\ rows'[r].at = table[r].at /\ rows'[r].path = table[r].path /\ rows'[r].seq = table[r].seq
         /\ \A l : l \in Tracked(r)' => l \in table[r].links /\ l.of # "none" /\ <<r, l>> \notin left
<1> DEFINE kept == {IF <<r, l>> \in left THEN Link(l.to, "none") ELSE l : l \in table[r].links}
<1>1. rows'[r] = [table[r] EXCEPT !.links = kept] /\ table[r] \in Row
  BY DEF Left
<1>2. ASSUME NEW l, l \in kept, l.of # "none" PROVE l \in table[r].links /\ <<r, l>> \notin left
  <2>1. PICK k \in table[r].links : l = IF <<r, k>> \in left THEN Link(k.to, "none") ELSE k
    BY <1>2
  <2>2. Link(k.to, "none").of = "none"
    BY DEF Link
  <2> QED
    BY <1>2, <2>1, <2>2
<1> HIDE DEF kept
<1>3. /\ rows'[r].at = table[r].at /\ rows'[r].path = table[r].path /\ rows'[r].seq = table[r].seq
      /\ rows'[r].links = kept
  BY <1>1 DEF Row
<1> QED
  BY <1>2, <1>3 DEF Tracked

\* The note c renames, n, has moved from one path to another; nobody else noticed.
Renamed(c, n, from, to) ==
  /\ act[c].seen = n /\ act[c].path = from /\ act[c].op = "rename" /\ act[c].at = "found"
  /\ Live(n) /\ rows[n].path = from /\ rows' \in [Notes -> Row]
  /\ rows'[n].at = "live" /\ rows'[n].path = to /\ rows'[n].seq = rows[n].seq + 1
  /\ \A l : l \in Tracked(n)' => (l \in Tracked(n) /\ l.to # from) \/ (l.of = n /\ l.to = to)
  /\ \A r \in Notes \ {n} :
       /\ rows'[r].at = rows[r].at /\ rows'[r].path = rows[r].path /\ rows'[r].seq = rows[r].seq
       /\ \A l : l \in Tracked(r)' =>
            l \in Tracked(r) /\ ~(rows[r].at = "trash" /\ l.of = n /\ l.to = from)
  /\ Others(c) /\ act'[c].at \in {"idle", "relink"} /\ OneLink(act'[c]) /\ UNCHANGED <<fleet, host>>
  /\ IF act[c].refs = {}
     THEN jobs' = jobs /\ act'[c].job = <<>>
     ELSE \E job : /\ jobs' = jobs \cup {job}
                   /\ job.id = <<n, rows[n].seq + 1>> /\ job.note = n /\ job.from = from /\ job.refs = act[c].refs
                   /\ act'[c].op = "relink" /\ act'[c].job = job.id /\ act'[c].note = n /\ act'[c].from = from
                   /\ act'[c].refs = act[c].refs

LEMMA MoveIs ==
  ASSUME LInv, NamesOK, TasksOK', NEW c \in Clients, Move(c), ~Clashes(act[c].to), NEW n, n = act[c].seen,
         NEW from, from = act[c].path, NEW to, to = act[c].to
  PROVE  n \in Notes /\ Renamed(c, n, from, to)
<1> DEFINE links == Refactored(rows[n].links, n, from, to)
           moved == [rows[n] EXCEPT !.path = to, !.seq = @ + 1, !.links = links]
           left == {<<r, Link(from, n)>> : r \in {m \in Notes \ {n} : rows[m].at = "trash"}}
           table == [rows EXCEPT ![n] = moved]
           job == [id |-> <<n, moved.seq>>, note |-> n, from |-> from, refs |-> act[c].refs, lease |-> "held"]
<1>1. /\ c \in Actors /\ act[c] \in Task /\ TasksOK /\ act[c].at = "found" /\ act[c].op = "rename" /\ to \in Paths
      /\ n \in Notes /\ "none" \notin act[c].refs
  BY Typed, TaskFields, NamesAssumption DEF Move, At, TaskOK, TaskShape, TaskNames, Written, LInv, IInv
<1>2. Live(n) /\ rows[n].path = from
  BY <1>1 DEF LInv, StandsOK, LiveAt
<1>3. rows \in [Notes -> Row] /\ rows[n] \in Row /\ rows[n].links \in SUBSET Links /\ rows[n].seq \in Nat
  BY <1>1, Typed, TypedLinks
<1>4. ASSUME NEW l \in links
      PROVE  l \in Links /\ (l.of # "none" => (l \in rows[n].links /\ l.to # from) \/ (l.of = n /\ l.to = to))
  <2>1. PICK k \in rows[n].links : l = IF k.to = from THEN Link(to, IF k.of = n THEN n ELSE "none") ELSE k
    BY <1>4 DEF Refactored
  <2> QED
    BY <1>1, <1>3, <2>1 DEF Link, Links
<1>5. /\ rows' = Left(table, left) /\ UNCHANGED <<fleet, host>>
      /\ IF act[c].refs = {}
         THEN Ends(c, "done") /\ jobs' = jobs
         ELSE /\ jobs' = jobs \cup {job}
              /\ act' = [act EXCEPT ![c] = [Idle EXCEPT !.at = "relink", !.op = "relink", !.note = n, !.job = job.id,
                                                        !.from = from, !.refs = act[c].refs]]
  BY DEF Move
<1> HIDE DEF links
<1>6. /\ moved \in Row /\ moved.at = "live" /\ moved.path = to /\ moved.seq = rows[n].seq + 1 /\ moved.links = links
  <2>1. rows[n].seq + 1 \in Nat /\ links \in SUBSET Links
    BY <1>3, <1>4
  <2>2. /\ moved.at = rows[n].at /\ moved.path = to /\ moved.seq = rows[n].seq + 1 /\ moved.links = links
    BY <1>3 DEF Row
  <2>3. moved \in Row
    BY <1>1, <1>3, <2>1 DEF Row
  <2> QED
    BY <1>2, <2>2, <2>3 DEF Live
<1>7. job.id = <<n, rows[n].seq + 1>> /\ job.note = n /\ job.from = from /\ job.refs = act[c].refs
  BY <1>6
<1> HIDE DEF moved, job
<1>8. table \in [Notes -> Row] /\ table[n] = moved /\ \A r \in Notes \ {n} : table[r] = rows[r]
  BY <1>1, <1>3, <1>6
<1> HIDE DEF table, left
<1>9. rows' \in [Notes -> Row]
  BY <1>5, <1>8, LeftSeen
<1>10. /\ rows'[n].at = "live" /\ rows'[n].path = to /\ rows'[n].seq = rows[n].seq + 1
       /\ \A l : l \in Tracked(n)' => (l \in Tracked(n) /\ l.to # from) \/ (l.of = n /\ l.to = to)
  BY <1>1, <1>4, <1>5, <1>6, <1>8, LeftOf DEF Tracked
<1>11. ASSUME NEW r \in Notes \ {n}
       PROVE  /\ rows'[r].at = rows[r].at /\ rows'[r].path = rows[r].path /\ rows'[r].seq = rows[r].seq
              /\ \A l : l \in Tracked(r)' => l \in Tracked(r) /\ ~(rows[r].at = "trash" /\ l.of = n /\ l.to = from)
  <2>1. /\ rows'[r].at = rows[r].at /\ rows'[r].path = rows[r].path /\ rows'[r].seq = rows[r].seq
        /\ \A l : l \in Tracked(r)' => l \in Tracked(r) /\ <<r, l>> \notin left
    BY <1>5, <1>8, LeftOf DEF Tracked
  <2>2. ASSUME NEW l \in Tracked(r), rows[r].at = "trash", l.of = n, l.to = from PROVE <<r, l>> \in left
    <3>1. l = Link(from, n)
      BY <2>2, TypedLinks DEF Tracked, Links, Link
    <3> QED
      BY <2>2, <3>1 DEF left
  <2> QED
    BY <2>1, <2>2
<1>12. CASE act[c].refs = {}
  <2>1. Others(c) /\ act'[c] = Idle /\ jobs' = jobs
    BY <1>1, <1>5, <1>12, EndsIs
  <2>2. Idle.at = "idle" /\ Idle.job = <<>> /\ OneLink(Idle)
    BY DEF Idle, OneLink
  <2> QED
    BY <1>1, <1>2, <1>5, <1>9, <1>10, <1>11, <1>12, <2>1, <2>2 DEF Renamed
<1>13. CASE act[c].refs # {}
  <2> DEFINE t == [Idle EXCEPT !.at = "relink", !.op = "relink", !.note = n, !.job = job.id,
                               !.from = from, !.refs = act[c].refs]
  <2>1. /\ t.at = "relink" /\ t.op = "relink" /\ t.note = n /\ t.job = job.id /\ t.from = from /\ t.refs = act[c].refs
        /\ t.ref = "none" /\ t.own = FALSE
    BY DEF Idle
  <2>2. act' = [act EXCEPT ![c] = t] /\ jobs' = jobs \cup {job}
    BY <1>5, <1>13
  <2> HIDE DEF t
  <2>3. Others(c) /\ act'[c] = t
    BY <1>1, <2>2, OthersAre
  <2>4. OneLink(t)
    BY <1>1, <2>1 DEF OneLink
  <2> QED
    BY <1>1, <1>2, <1>5, <1>7, <1>9, <1>10, <1>11, <1>13, <2>1, <2>2, <2>3, <2>4 DEF Renamed
<1> QED
  BY <1>1, <1>12, <1>13

LEMMA RenamedNames ==
  ASSUME LInv, NamesOK, NEW c \in Clients, NEW n \in Notes, NEW from, NEW to, Renamed(c, n, from, to)
  PROVE  NamesOK'
<1>1. \A r \in Notes : rows[r].seq \in Nat /\ rows'[r].seq \in Nat /\ rows'[r].seq >= rows[r].seq
                       /\ (rows[r].at # "none" => rows'[r].at # "none")
  BY TypedLinks DEF Renamed
<1>2. jobs \subseteq Job /\ \A j \in Job : j.id \in Notes \X Nat /\ j.id # <<>>
  BY IdIsNot DEF LInv, IInv, JobsOK, Job
<1>3. \A a \in Actors : act[a].job \in {<<>>} \cup (Notes \X Nat)
  BY Typed, TaskFields
<1> DEFINE new == <<n, rows[n].seq + 1>>
<1>4. ASSUME NEW id \in Notes \X Nat, Known(rows, id) PROVE Known(rows', id) /\ id # new
  <2>1. id[1] \in Notes /\ id[2] \in Nat
    OBVIOUS
  <2>2. id = new => id[1] = n /\ id[2] = rows[n].seq + 1
    OBVIOUS
  <2> QED
    BY <1>1, <1>4, <2>1, <2>2 DEF Known
<1>5. Known(rows', new)
  <2>1. new[1] = n /\ new[2] = rows[n].seq + 1 /\ rows'[n].seq = rows[n].seq + 1 /\ rows[n].seq \in Nat
    BY <1>1 DEF Renamed
  <2> QED
    BY <1>1, <2>1 DEF Known, Renamed, Live
<1> HIDE DEF new
<1>6. \A a \in Actors \ {c} : act'[a] = act[a]
  BY DEF Renamed, Others
<1>7. \A j \in jobs : j.id \in Notes \X Nat /\ Known(rows', j.id) /\ j.id # new /\ j.id # <<>>
  BY <1>2, <1>4 DEF NamesOK
<1>8. \A a \in Actors : act[a].job # <<>> => act[a].op = "relink" /\ Known(rows', act[a].job) /\ act[a].job # new
  BY <1>3, <1>4 DEF NamesOK
<1>9. \A r \in Notes : \A l : l \in Tracked(r)' => l.of \in Notes /\ rows'[l.of].at # "none"
  BY <1>1 DEF NamesOK, Written, Renamed
<1>10. \A a \in Actors : OneLink(act'[a])
  BY <1>6 DEF NamesOK, Renamed
<1>11. /\ \A j \in jobs' : Known(rows', j.id)
       /\ \A j, k \in jobs' : j.id = k.id => j.note = k.note /\ j.from = k.from /\ j.refs = k.refs
       /\ \A a \in Actors : act'[a].job # <<>> => act'[a].op = "relink" /\ Known(rows', act'[a].job)
       /\ \A a \in Actors, j \in jobs' : act'[a].job = j.id => act'[a].note = j.note /\ act'[a].from = j.from
  <2>1. CASE act[c].refs = {}
    <3>1. jobs' = jobs /\ act'[c].job = <<>>
      BY <2>1 DEF Renamed
    <3> QED
      BY <1>6, <1>7, <1>8, <3>1 DEF NamesOK
  <2>2. CASE act[c].refs # {}
    <3>1. PICK job : /\ jobs' = jobs \cup {job}
                     /\ job.id = new /\ job.note = n /\ job.from = from /\ job.refs = act[c].refs
                     /\ act'[c].op = "relink" /\ act'[c].job = job.id /\ act'[c].note = n /\ act'[c].from = from
      BY <2>2 DEF Renamed, new
    <3>2. \A j \in jobs' : Known(rows', j.id)
      BY <1>5, <1>7, <3>1
    <3>3. \A j, k \in jobs' : j.id = k.id => j.note = k.note /\ j.from = k.from /\ j.refs = k.refs
      BY <1>7, <3>1 DEF NamesOK
    <3>4. \A a \in Actors : act'[a].job # <<>> => act'[a].op = "relink" /\ Known(rows', act'[a].job)
      BY <1>5, <1>6, <1>8, <3>1
    <3>5. ASSUME NEW a \in Actors, NEW j \in jobs', act'[a].job = j.id PROVE act'[a].note = j.note /\ act'[a].from = j.from
      <4>1. CASE a = c
        BY <1>7, <3>1, <3>5, <4>1
      <4>2. CASE a # c
        <5>1. act[a].job = j.id /\ act'[a] = act[a]
          BY <1>6, <3>5, <4>2
        <5>2. j \in jobs
          <6>1. j.id # <<>> => j # job
            BY <1>8, <3>1, <5>1
          <6>2. new # <<>>
            BY DEF new
          <6> QED
            BY <1>7, <3>1, <6>1, <6>2
        <5> QED
          BY <5>1, <5>2 DEF NamesOK
      <4> QED
        BY <4>1, <4>2
    <3> QED
      BY <3>2, <3>3, <3>4, <3>5
  <2> QED
    BY <2>1, <2>2
<1>12. /\ (\A j \in jobs : Known(rows, j.id))'
       /\ (\A a \in Actors : act[a].job # <<>> => act[a].op = "relink" /\ Known(rows, act[a].job))'
  BY <1>11
<1> QED
  BY <1>9, <1>10, <1>11, <1>12 DEF NamesOK, Written

LEMMA RenamedLinks ==
  ASSUME LInv, NamesOK, LinksOK, FoundOK, NEW c \in Clients, NEW n \in Notes, NEW from, NEW to, Renamed(c, n, from, to)
  PROVE  LinksOK'
<1>1. jobs \subseteq Job /\ \A j \in Job : j.id \in Notes \X Nat /\ j.id # <<>>
  BY IdIsNot DEF LInv, IInv, JobsOK, Job
<1>2. ASSUME NEW j \in jobs PROVE j \in jobs' /\ act'[c].job # j.id
  <2>1. j.id \in Notes \X Nat /\ j.id[2] <= rows[j.id[1]].seq
    BY <1>1 DEF NamesOK, Known
  <2>2. j.id # <<n, rows[n].seq + 1>>
    <3>1. rows[n].seq \in Nat /\ j.id[2] \in Nat
      BY <2>1, TypedLinks
    <3> QED
      BY <2>1, <3>1
  <2> QED
    BY <1>1, <2>2 DEF Renamed
<1>3. c \in Actors /\ act[c].op = "rename" /\ \A a \in Actors \ {c} : act'[a] = act[a]
  BY DEF Renamed, Others, Actors
<1>4. ASSUME NEW a \in Actors, NEW r, NEW l, Follows(a, r, l) PROVE Follows(a, r, l)'
  BY <1>3, <1>4 DEF Follows
<1>5. ASSUME NEW j \in jobs, NEW r, NEW l, Listed(j, r, l) PROVE Listed(j, r, l)'
  BY <1>2, <1>3, <1>5 DEF Listed, Ahead
<1> SUFFICES ASSUME NEW r \in Notes, Present(r)', NEW l, l \in Tracked(r)', Present(l.of)' PROVE Covered(r, l)'
  BY DEF LinksOK
<1>6. CASE l.of = n /\ l.to = to
  BY <1>6 DEF Covered, Renamed
<1>7. CASE ~(l.of = n /\ l.to = to)
  <2>1. l \in Tracked(r) /\ l.of \in Notes /\ (r = n => l.to # from)
    BY <1>7 DEF Renamed, NamesOK, Written
  <2>2. Present(r) /\ Present(l.of)
    BY <2>1 DEF Renamed, Present, Live
  <2>3. Covered(r, l)
    BY <2>1, <2>2 DEF LinksOK
  <2>4. ASSUME NEW a \in Actors, Follows(a, r, l) PROVE Covered(r, l)'
    BY <1>4, <2>4 DEF Covered
  <2>5. ASSUME NEW j \in jobs, Listed(j, r, l) PROVE Covered(r, l)'
    BY <1>2, <1>5, <2>5 DEF Covered
  <2>6. CASE l.to = rows[l.of].path /\ l.of # n
    BY <2>1, <2>6 DEF Covered, Renamed
  <2>7. CASE l.to = rows[l.of].path /\ l.of = n
    <3>1. l.to = from /\ r # n
      BY <2>1, <2>7 DEF Renamed
    <3>2. Live(r)
      BY <2>2, <2>7, <3>1 DEF Renamed, Present, Live
    <3>3. r \in act[c].refs \/ \E a \in Actors : act[a].at = "settle" /\ Follows(a, r, l)
      BY <2>1, <2>7, <3>1, <3>2 DEF FoundOK, Renamed
    <3>4. CASE r \in act[c].refs
      <4>1. PICK job : /\ jobs' = jobs \cup {job}
                       /\ job.id = <<n, rows[n].seq + 1>> /\ job.note = n /\ job.from = from /\ job.refs = act[c].refs
                       /\ act'[c].refs = act[c].refs
        BY <3>4 DEF Renamed
      <4>2. ASSUME NEW a \in Actors, act'[a].job = job.id PROVE a = c
        <5>1. a # c => act[a].job = job.id
          BY <1>3, <4>2
        <5>2. act[a].job = job.id => job.id[2] <= rows[job.id[1]].seq
          BY <4>1 DEF NamesOK, Known
        <5>3. rows[n].seq \in Nat
          BY TypedLinks
        <5> QED
          BY <4>1, <5>1, <5>2, <5>3
      <4>3. Listed(job, r, l)'
        BY <2>7, <3>1, <3>4, <4>1, <4>2 DEF Listed, Ahead
      <4> QED
        BY <4>1, <4>3 DEF Covered
    <3> QED
      BY <2>4, <3>3, <3>4
  <2> QED
    BY <2>3, <2>4, <2>5, <2>6, <2>7 DEF Covered
<1> QED
  BY <1>6, <1>7

LEMMA RenamedFound ==
  ASSUME LInv, NamesOK, FoundOK, NEW c \in Clients, NEW n \in Notes, NEW from, NEW to, Renamed(c, n, from, to)
  PROVE  FoundOK'
<1>1. c \in Actors /\ act[c].op = "rename" /\ (\A a \in Actors \ {c} : act'[a] = act[a]) /\ act'[c].at # "found"
  BY DEF Renamed, Others, Actors
<1> SUFFICES ASSUME NEW d \in Clients, NEW r \in Notes, act'[d].at = "found", r # act'[d].seen, rows'[r].at = "live",
                    NEW l, l \in Tracked(r)', l.of = act'[d].seen, l.to = act'[d].path
             PROVE  r \in act'[d].refs \/ \E a \in Actors : act'[a].at = "settle" /\ Follows(a, r, l)'
  BY DEF FoundOK, Live
<1>2. d # c /\ act'[d] = act[d]
  BY <1>1 DEF Actors
<1>3. act[d].seen # n
  BY <1>2 DEF LInv, StandsOK, Renamed
<1>4. Live(r) /\ l \in Tracked(r)
  BY <1>2, <1>3 DEF Renamed, Live
<1>5. r \in act[d].refs \/ \E a \in Actors : act[a].at = "settle" /\ Follows(a, r, l)
  BY <1>2, <1>4 DEF FoundOK
<1>6. ASSUME NEW a \in Actors, act[a].at = "settle", Follows(a, r, l) PROVE act'[a].at = "settle" /\ Follows(a, r, l)'
  BY <1>1, <1>6 DEF Follows
<1> QED
  BY <1>2, <1>5, <1>6

LEMMA MoveLinked ==
  ASSUME LInv, Linked, TasksOK', NEW c \in Clients, Move(c)
  PROVE  Linked'
<1>1. CASE Clashes(act[c].to)
  <2>1. Ends(c, "exists") /\ UNCHANGED <<rows, jobs, fleet, host>> /\ act[c].at = "found"
    BY <1>1 DEF Move, At
  <2>2. c \in Actors /\ act[c].op # "relink" /\ ~At(c, "idle")
    BY <2>1, Typed DEF TaskOK, TaskShape, At
  <2> QED
    BY <2>1, <2>2, RowsSame, EndsAside, StepLinked DEF Linked
<1>2. CASE ~Clashes(act[c].to)
  <2>1. PICK n, from, to : n = act[c].seen /\ from = act[c].path /\ to = act[c].to
    OBVIOUS
  <2>2. n \in Notes /\ Renamed(c, n, from, to)
    BY <1>2, <2>1, MoveIs DEF Linked
  <2>3. OneProcess'
    <3>1. PICK s \in Servers : fleet = {s} /\ (\A d \in Clients : host[d] = s) /\ \A t \in Servers \ {s} : act[t].at = "idle"
      BY DEF Linked, OneProcess
    <3>2. \A t \in Servers : act'[t] = act[t]
      BY <2>2, NamesAssumption DEF Renamed, Others, Actors
    <3> QED
      BY <2>2, <3>1, <3>2 DEF OneProcess, Renamed
  <2> QED
    BY <2>2, <2>3, RenamedNames, RenamedLinks, RenamedFound DEF Linked
<1> QED
  BY <1>1, <1>2
-----------------------------------------------------------------------------
(* Every step, from the start *)

LEMMA LinkedStep ==
  ASSUME LInv, Linked, Steps
  PROVE  Linked'
<1>1. TasksOK' /\ fleet \in SUBSET Servers
  BY StepKinds, TasksStep DEF LInv, IInv, RunsOK
<1>2. OneProcess /\ NamesOK
  BY DEF Linked
<1>3. ASSUME NEW c \in Clients, Operation(c) PROVE Linked'
  <2>1. \A n \in Notes : Create(c, n) => StepCarries
    BY <1>1, <1>2, CreateCarries
  <2>2. Seek(c) \/ Find(c) \/ SoftDelete(c) \/ Restore(c) \/ Purge(c) => StepCarries
    BY <1>1, <1>2, SeekCarries, FindCarries, SoftDeleteCarries, RestoreCarries, PurgeCarries
  <2> QED
    BY <1>1, <1>3, <2>1, <2>2, MoveLinked, StepLinked DEF Operation
<1>4. ASSUME NEW a \in Actors, Write(a) PROVE StepCarries
  <2>1. \A r \in Notes : Look(a, r) => StepCarries
    BY <1>1, <1>2, LookCarries
  <2>2. SecondKey(a) \/ Read(a) \/ Edit(a) \/ Settle(a) \/ TooLarge(a) \/ Complete(a) => StepCarries
    BY <1>1, <1>2, SecondKeyCarries, ReadCarries, EditCarries, SettleCarries, TooLargeCarries, CompleteCarries
  <2> QED
    BY <1>4, <2>1, <2>2 DEF Write
<1>5. \A c \in Clients, k \in Calls : Call(c, k) => StepCarries
  BY <1>1, <1>2, CallCarries
<1>6. \A a \in Actors : Busy(a) => StepCarries
  BY <1>1, <1>2, BusyCarries
<1>7. \A j \in jobs : /\ LeaseEnds(j) => StepCarries
                      /\ \A s \in Servers : Resume(s, j) => StepCarries
  BY <1>1, <1>2, LeaseEndsCarries, ResumeCarries
<1>8. \A s \in fleet : Crash(s) => StepCarries
  BY <1>2, CrashCarries
<1>9. StepCarries => Linked'
  BY StepLinked
<1> QED
  BY <1>3, <1>4, <1>5, <1>6, <1>7, <1>8, <1>9 DEF Steps

LEMMA LinkedInit ==
  ASSUME Init, Cardinality(fleet) = 1
  PROVE  Linked
<1> USE DEF Init
<1>1. /\ \A a \in Actors : act[a] = Idle
      /\ Idle.at = "idle" /\ Idle.job = <<>> /\ OneLink(Idle)
  BY DEF Idle, OneLink
<1>2. PICK s \in Servers : fleet = {s}
  <2>1. fleet \subseteq Servers /\ IsFiniteSet(fleet) /\ fleet # {}
    <3>1. fleet \subseteq Servers
      BY LInit DEF LInv, IInv, RunsOK
    <3> QED
      BY <3>1, NamesAssumption, FS_Subset, FS_EmptySet
  <2>2. PICK x \in fleet : TRUE
    BY <2>1
  <2>3. fleet = {x}
    <3>1. IsFiniteSet(fleet \ {x}) /\ Cardinality(fleet \ {x}) = 0
      <4>1. IsFiniteSet(fleet) /\ x \in fleet
        BY <2>1, <2>2
      <4>2. Cardinality(fleet \ {x}) = Cardinality(fleet) - 1 /\ IsFiniteSet(fleet \ {x})
        BY <4>1, FS_RemoveElement
      <4> HIDE DEF Init
      <4> QED
        BY <4>2
    <3>2. fleet \ {x} = {}
      BY <3>1, FS_EmptySet
    <3> QED
      BY <2>2, <3>2
  <2> QED
    BY <2>1, <2>3
<1>3. OneProcess
  <2>1. \A c \in Clients : host[c] = s
    BY <1>2
  <2> HIDE DEF Init
  <2> QED
    BY <1>1, <1>2, <2>1 DEF OneProcess, Actors
<1>4. \A r \in Notes : rows[r].links = Start[r].links /\ rows[r].at = Start[r].at /\ rows[r].path = Start[r].path
  OBVIOUS
<1>5. jobs = {}
  OBVIOUS
<1> HIDE DEF Init
<1>6. ASSUME NEW r \in Notes, NEW l \in Tracked(r)
      PROVE  l.of \in Notes /\ rows[l.of].at # "none" /\ (rows[l.of].at # "gone" => l.to = rows[l.of].path)
  <2>1. l \in Start[r].links /\ l.of # "none" /\ Start[r].links \in SUBSET Links
    BY <1>4, <1>6, StartAssumption DEF Tracked, Row
  <2>2. l.of \in Notes
    BY <2>1 DEF Links
  <2> QED
    BY <1>4, <2>1, <2>2, LinksAssumption
<1>7. NamesOK
  BY <1>1, <1>5, <1>6 DEF NamesOK, Written
<1>8. LinksOK
  BY <1>6 DEF LinksOK, Covered, Present
<1>9. FoundOK
  BY <1>1 DEF FoundOK, Actors
<1> QED
  BY <1>3, <1>7, <1>8, <1>9 DEF Linked

LEMMA LinkedStutter ==
  ASSUME Linked, UNCHANGED vars
  PROVE  Linked'
<1> USE DEF vars
<1>1. OneProcess'
  BY DEF Linked, OneProcess
<1>2. \A r : Tracked(r)' = Tracked(r)
  BY DEF Tracked
<1>3. NamesOK'
  BY <1>2 DEF Linked, NamesOK, Known, Written, OneLink
<1>4. LinksOK' /\ FoundOK'
  BY <1>2 DEF Linked, LinksOK, FoundOK, Covered, Follows, Listed, Ahead, Present, Live
<1> QED
  BY <1>1, <1>3, <1>4 DEF Linked

\* Once everything is quiet, each link that was known to mean a note names the note's path, in one process: however often
\* either note was renamed, and whatever was interrupted.  Until then some run looks for the link it wrote, some job has
\* the referrer in its list and before it, or the note's path is the right one.
THEOREM LinksAlwaysFollow == Spec => []LinksFollow
<1>1. Init => LinkedInv
  BY LInit, LinkedInit DEF LinkedInv
<1>2. LinkedInv /\ [Next]_vars => LinkedInv'
  <2> SUFFICES ASSUME LinkedInv, [Next]_vars PROVE LinkedInv'
    OBVIOUS
  <2>1. LInv'
    BY LStep DEF LinkedInv
  <2>2. fleet' = fleet
    BY RunsStay DEF Next, Finished, vars
  <2>3. ASSUME Linked PROVE Linked'
    <3>1. Steps \/ UNCHANGED vars
      BY DEF Next, Finished
    <3> QED
      BY <2>3, <3>1, LinkedStep, LinkedStutter DEF LinkedInv
  <2> QED
    BY <2>1, <2>2, <2>3 DEF LinkedInv
<1>3. LinkedInv => LinksFollow
  <2> SUFFICES ASSUME LinkedInv, Quiet, Cardinality(fleet) = 1, NEW r \in Notes, Live(r), NEW l \in rows[r].links,
                      l.of # "none", Live(l.of)
               PROVE  l.to = rows[l.of].path
    BY DEF LinksFollow
  <2>1. l \in Tracked(r) /\ Present(r) /\ Present(l.of)
    BY DEF Tracked, Present, Live
  <2>2. Covered(r, l)
    BY <2>1 DEF LinkedInv, Linked, LinksOK
  <2>3. jobs = {} /\ \A a \in Actors : act[a].op = "none"
    BY Typed DEF Quiet, At, LinkedInv, TaskOK, TaskShape
  <2> QED
    BY <2>2, <2>3 DEF Covered, Follows
<1> QED
  BY <1>1, <1>2, <1>3, PTL DEF Spec
=============================================================================
