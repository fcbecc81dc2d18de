----------------------------- MODULE MCOperator -----------------------------
(* Operator for TLC: what may happen to one cluster is split into setups,   *)
(* each of which lets some things happen and not the others.                *)
EXTENDS Operator

CONSTANTS east, west, lease1, t1, t2, p1, p2, j1

Quiet == [ttl |-> 1, second |-> 1, offset |-> 0, identities |-> {east}, permits |-> 2,
          targets |-> {t1}, pods |-> {p1}, jobs |-> {},
          clock |-> 2, rv |-> 3, faults |-> 0, edits |-> 0]

Users == [Quiet EXCEPT !.edits = 1]
Faults == [Quiet EXCEPT !.clock = 1, !.rv = 2, !.faults = 1, !.edits = 1]
Again == [Quiet EXCEPT !.rv = 5, !.faults = 1]
Rounding == [Quiet EXCEPT !.ttl = 2, !.second = 2, !.clock = 3, !.faults = 1]
Move == [Quiet EXCEPT !.offset = -1, !.identities = {east, west}, !.rv = 6, !.edits = 1]
TwoPods == [Quiet EXCEPT !.pods = {p1, p2}, !.permits = 1, !.clock = 1]
TwoTargets == [Quiet EXCEPT !.targets = {t1, t2}, !.clock = 0, !.edits = 2]
OnlyJobs == [Faults EXCEPT !.pods = {}, !.jobs = {j1}]

MCSetups == {Users, Faults, Again, Rounding, Move, TwoPods, TwoTargets, OnlyJobs}

MCCleanups == {Faults, OnlyJobs}
=============================================================================
