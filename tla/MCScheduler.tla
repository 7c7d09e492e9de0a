---------------------------- MODULE MCScheduler ----------------------------
(* Two jobs that are due every unit of time, in two processes.             *)
EXTENDS Scheduler

everyUnit == <<1, 1>>
=============================================================================
