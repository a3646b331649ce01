------------------------- MODULE MCRevisionHistory -------------------------
EXTENDS RevisionHistory, TLC

CONSTANTS a, b

MCBodies  == {a, b}
MCImports == {<<a>>, <<b, a>>}
Texts2    == Permutations(MCBodies)
=============================================================================
