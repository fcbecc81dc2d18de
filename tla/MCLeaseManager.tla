--------------------------- MODULE MCLeaseManager ---------------------------
EXTENDS LeaseManager, TLC

Symm == Permutations(Holder) \cup Permutations(Proc)
=============================================================================
