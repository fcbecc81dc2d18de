-------------------------- MODULE MCSignalEnforcer ---------------------------
(* SignalEnforcer for TLC: process ids are interchangeable. *)
EXTENDS SignalEnforcer, TLC

Symmetry == Permutations(Pid)
=============================================================================
