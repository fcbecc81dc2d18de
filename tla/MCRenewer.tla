------------------------------ MODULE MCRenewer ------------------------------
EXTENDS Renewer, TLC

Symm == Permutations(Holder)
=============================================================================
