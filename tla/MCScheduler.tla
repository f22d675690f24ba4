---------------------------- MODULE MCScheduler ----------------------------
(***************************************************************************)
(* Scheduler under TLC: a TCP flow, with a port byte that is a single hex  *)
(* digit, and one of another protocol between the same hosts.              *)
(***************************************************************************)
EXTENDS Scheduler

Web == [proto |-> TCP, sport |-> <<1, 35>>, dport |-> <<0, 80>>, src |-> 1, dst |-> 9]

MCFlows == {Web, [Web EXCEPT !.proto = Other]}
=============================================================================
