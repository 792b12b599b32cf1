--------------------------- MODULE MCWorkspaceStore ---------------------------
EXTENDS WorkspaceStore, TLC

Symmetry == Permutations(Ids) \cup Permutations(Paths)
=============================================================================
