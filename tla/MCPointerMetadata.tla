------------------------- MODULE MCPointerMetadata -------------------------
EXTENDS PointerMetadata, TLC
Symmetry == Permutations(Vars)
=============================================================================
