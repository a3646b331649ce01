--------------------------- MODULE MCRepositories ---------------------------
(* RepositorySync for TLC: up to three commits of two files, on two branches; a file comes back to an earlier content. *)
EXTENDS RepositorySync, TLC

CONSTANTS c1, c2, c3, p, q, main, dev
AllTrees == (c1 :> (p :> 1 @@ q :> 0)) @@ (c2 :> (p :> 2 @@ q :> 1)) @@ (c3 :> (p :> 1 @@ q :> 2))
Trees == [c \in Commits |-> AllTrees[c]]
\* The remote starts at the commit that the others move away from and back to; its second branch is one commit on.
StartInit == SyncInit /\ remote.branch = main /\ remote.tip = (main :> c1 @@ dev :> c2)
StartSpec == StartInit /\ [][SyncNext]_syncVars
FairSpec == StartSpec /\ SyncFairness
=============================================================================
