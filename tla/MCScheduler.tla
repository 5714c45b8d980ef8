---------------------------- MODULE MCScheduler ----------------------------
(* Small instances of Scheduler: a rule that names every time, and one that  *)
(* names a single time.                                                      *)
EXTENDS Scheduler

CONSTANTS s1, s2, daily, once

MCOccurs == [r \in Rule |-> IF r = once THEN {1} ELSE 1 .. (MaxTime + 1)]

Daily == [rule |-> daily, enabled |-> TRUE]
Once == [rule |-> once, enabled |-> TRUE]

MCDefinition == [s \in Sched |-> IF s = s1 THEN {Daily, Once} ELSE {Once}]
MCDaily == [s \in Sched |-> {Daily}]
=============================================================================
