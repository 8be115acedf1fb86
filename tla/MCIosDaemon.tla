------------------------------ MODULE MCIosDaemon -----------------------------
EXTENDS IosDaemon, TLC

CONSTANTS alice, q1, q2, c1

Symmetry == Permutations({q1, q2})
=============================================================================
