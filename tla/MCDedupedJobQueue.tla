-------------------------- MODULE MCDedupedJobQueue --------------------------
(* An instance of DedupedJobQueue for TLC: four jobs. *)
EXTENDS DedupedJobQueue

CONSTANTS j1, j2, j3, j4
=============================================================================
