------------------------------ MODULE MCDaemon ------------------------------
(* One caller, and as many daemon processes as a crash, its recovery and a *)
(* `daemon run` beside it need.                                            *)
EXTENDS Daemon
=============================================================================
