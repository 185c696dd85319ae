---------------------------- MODULE MCProjection ----------------------------
EXTENDS ProjectionProperties
CONSTANTS r1, r2
RunSymmetry == Permutations(Run)
=============================================================================
