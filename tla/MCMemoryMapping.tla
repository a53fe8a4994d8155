--------------------------- MODULE MCMemoryMapping ---------------------------
EXTENDS MemoryMapping, TLC

CONSTANTS f1, f2, v0, v1

MCSymmetry == Permutations({f1, f2})
=============================================================================
