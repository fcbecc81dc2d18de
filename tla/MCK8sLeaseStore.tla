--------------------------- MODULE MCK8sLeaseStore ---------------------------
EXTENDS K8sLeaseStore, TLC

\* Two valid keys, one whose encoding would be another's, and one too long.
MCKey ==
  {[namespace |-> <<"a">>, name |-> <<"b", ".", "a">>],
   [namespace |-> <<"b">>, name |-> <<"a">>],
   [namespace |-> <<"a", ".", "b">>, name |-> <<"a">>],
   [namespace |-> <<"a">>, name |-> <<"b", "-", "a", "a">>]}

Symm == Permutations(Holder) \cup Permutations(Writer)
=============================================================================
