--------------------------- MODULE MCSessionTable ---------------------------
EXTENDS SessionTable, TLC

Symmetry == Permutations(Uids) \cup Permutations(Objects)
=============================================================================
