--------------------------- MODULE MCSqlLeaseStore ---------------------------
EXTENDS SqlLeaseStore, TLC

Symm == Permutations(Holder) \cup Permutations(Call) \cup Permutations(Replica)
=============================================================================
