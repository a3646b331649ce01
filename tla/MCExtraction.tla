---------------------------- MODULE MCExtraction ----------------------------
(* Extraction for TLC: a file with two contents that imports another, and a file of another repository. *)
EXTENDS Extraction, TLC

CONSTANTS a, b, d, r1, r2
RepoOfs == a :> r1 @@ b :> r1 @@ d :> r2
Import == a :> <<b>> @@ b :> <<>> @@ d :> <<>>
Versions == a :> {1, 2} @@ b :> {1} @@ d :> {1}
=============================================================================
