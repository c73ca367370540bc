----------------------------- MODULE MCCwdCache -----------------------------
EXTENDS CwdCache, TLC

CONSTANTS g1, g2, g3, k1

AnyGetter == Permutations(Getters)
=============================================================================
