---------------------------- MODULE MCScheduler ----------------------------
(* Small instances of Scheduler for TLC.                                   *)
EXTENDS Scheduler

CONSTANTS t1, t2

TwoJobs == <<t1, t2>>
=============================================================================
