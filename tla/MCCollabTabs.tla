---------------------------- MODULE MCCollabTabs ----------------------------
(* CollabTabs for TLC: the tabs are alike, as long as nothing is asked of what must happen. *)
EXTENDS CollabTabs, TLC

CONSTANTS t1, t2, e, f, base
SameTabs == Permutations(Tabs)
=============================================================================
