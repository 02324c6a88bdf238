-------------------------- MODULE MCSchedulerCancel --------------------------
(* A small instance of SchedulerCancel for TLC. *)
EXTENDS SchedulerCancel

CONSTANTS w1, w2, a

TwoWorkers == {w1, w2}
=============================================================================
