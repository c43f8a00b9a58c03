---------------------------- MODULE MCScheduler ----------------------------
(***************************************************************************)
(* Instances of Scheduler for TLC: what the signal notifies, and           *)
(* priorities against the order of names.                                  *)
(***************************************************************************)
EXTENDS Scheduler

CONSTANTS s1, c1, e1, e2, t1, t2, v1, v2

MCNotifies == [s \in Signals |-> {e1}]
MCPriority == [e \in EffectJobs |-> IF e = e1 THEN 1 ELSE 0]
MCSymmetry == Permutations({v1, v2}) \cup Permutations({t1, t2})
=============================================================================
