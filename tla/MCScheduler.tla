---------------------------- MODULE MCScheduler ----------------------------
(* Instances of Scheduler for TLC: a lab and two Nix jobs.                 *)
EXTENDS Scheduler

CONSTANTS l1, j1, j2
=============================================================================
