------------------------------ MODULE MCTunnel ------------------------------
(***************************************************************************)
(* Tunnel under TLC: the last two convids that are ports, and three        *)
(* sessions, so that a LINKDOWN may arrive when its slot is in use again.  *)
(***************************************************************************)
EXTENDS Tunnel
=============================================================================
