---------------------------- MODULE MCResticLock ----------------------------
EXTENDS ResticLock, TLC

CONSTANTS a, b

Symmetry == Permutations({a, b})
=============================================================================
