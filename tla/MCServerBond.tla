---------------------------- MODULE MCServerBond ----------------------------
(***************************************************************************)
(* ServerBond under TLC.  The convids are those of a client with           *)
(* --tunnel-id=10 and at most two connections.                             *)
(***************************************************************************)
EXTENDS ServerBond
=============================================================================
