------------------------------- MODULE MCGbrain -------------------------------
EXTENDS Gbrain, TLC

CONSTANTS p1, p2, a

Symmetry == Permutations({p1, p2})
=============================================================================
