----------------------------- MODULE MCNoteStore -----------------------------
(* NoteStore for TLC: a vault whose second note links to the first. *)
EXTENDS NoteStore, TLC

CONSTANTS n1, n2, n3

Ask(op, path, to, note) == [op |-> op, path |-> path, to |-> to, note |-> note]

StartLinked ==
  [n \in Notes |-> CASE n = n1 -> [at |-> "live", path |-> 1, seq |-> 1, links |-> {}]
                     [] n = n2 -> [at |-> "live", path |-> 2, seq |-> 1, links |-> {Link(1, n1)}]
                     [] OTHER -> [at |-> "none", path |-> 0, seq |-> 0, links |-> {}]]

\* Calls that can meet on these paths.
AllCalls ==
  {Ask("create", 1, 0, "none"), Ask("edit", 1, 2, "none"), Ask("edit", 2, 1, "none")}
  \cup {Ask("rename", k[1], k[2], "none") : k \in {<<1, 2>>, <<1, 3>>, <<2, 3>>, <<3, 1>>}}
  \cup {Ask("delete", p, 0, "none") : p \in {1, 2}} \cup {Ask(op, 0, 0, n1) : op \in {"restore", "purge"}}

Symmetry == Permutations(Clients) \cup Permutations(Servers)
=============================================================================
