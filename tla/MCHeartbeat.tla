---------------------------- MODULE MCHeartbeat ----------------------------
(***************************************************************************)
(* Heartbeat under TLC, in ticks of half a second: a ping every 4, an age  *)
(* limit and a read deadline of 10, a blocked LINKDOWN write of 4, ten     *)
(* seconds are 20.  The loop counter restarts at 14 instead of 30: what    *)
(* matters of the restart is that it is two ticks after a ping, as it is   *)
(* in the program (1500 is 100 more than a multiple of 200).               *)
(***************************************************************************)
EXTENDS Heartbeat
=============================================================================
