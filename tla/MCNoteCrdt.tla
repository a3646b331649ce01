----------------------------- MODULE MCNoteCrdt -----------------------------
(* NoteCrdt for TLC: edits that nothing tells apart are interchangeable. *)
EXTENDS NoteCrdt, TLC

\* A change behind the store and the typing the store does not refuse meet at one place.
Clashes == Outside \X (Typing \ Bad)

Symmetry == Permutations(Typing \ (Broken \cup Bad \cup Cures))
=============================================================================
