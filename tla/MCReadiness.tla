----------------------------- MODULE MCReadiness -----------------------------
EXTENDS Readiness, TLC

Symm == Permutations(Caller)
=============================================================================
