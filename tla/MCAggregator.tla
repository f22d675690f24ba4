---------------------------- MODULE MCAggregator ----------------------------
(***************************************************************************)
(* Aggregator under TLC: two client objects, the current one and one whose *)
(* callbacks are late.  The process has been started with --mux=3 and      *)
(* --aes; the aggregator sends a good argv, whose --tunnel-ip ends in a    *)
(* byte of 255, one whose --tunnel-ip is no /30, or one that is not JSON.  *)
(***************************************************************************)
EXTENDS Aggregator

MCClients == {1, 2}

MCCmdlines == {[NoFlags EXCEPT !.mux = 3, !.aes = TRUE]}

Bond == [NoFlags EXCEPT
           !.tunnel_id = 990,
           !.tunnel_ip = <<[ip |-> <<10, 10, 255, 255>>, prefix |-> 30]>>]

MCBroken == [NoFlags EXCEPT !.addr = "good"]

MCArgvs == {Bond, [Bond EXCEPT !.tunnel_ip[1].prefix = 29], MCBroken}
=============================================================================
