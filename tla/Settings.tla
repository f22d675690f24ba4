------------------------------ MODULE Settings ------------------------------
(***************************************************************************)
(* The command line: what parse_cli makes of the settings it finds.  It is *)
(* called by main and, with the argv an aggregator has sent, once more     *)
(* before run_client; the second call changes what the first has left.     *)
(* An IPv4 address is its four bytes.  Settings that are only passed on    *)
(* (secret, names, logging) are left out, and one address stands for the   *)
(* four of type host:port.                                                 *)
(***************************************************************************)
EXTENDS Integers, Sequences

Byte    == 0..255
Address == [1..4 -> Byte]

\* What the flags say; tunnel_ip is <<>> when it is not given.
Cli == [balance : {"consistent", "roundrobin"}, mux : Nat, aes : BOOLEAN,
        tunnel_id : Nat, addr : {"", "good", "bad"},
        tunnel_ip : Seq([ip : Address, prefix : 0..32])]

\* kong's defaults: no flags at all.
NoFlags == [balance |-> "consistent", mux |-> 1, aes |-> FALSE, tunnel_id |-> 0,
            addr |-> "", tunnel_ip |-> <<>>]

\* The globals before the first call.
Defaults == [use_consistent_hashing |-> TRUE, mux_max |-> 1, use_aes |-> FALSE,
             tunnel_id |-> 0,
             client_tun_ip |-> <<10, 10, 10, 1>>, server_tun_ip |-> <<10, 10, 10, 2>>]

\* The i-th byte of a mask of p bits keeps this many bits.
BitsIn(p, i) == IF p >= 8 * i THEN 8 ELSE IF p <= 8 * (i - 1) THEN 0 ELSE p - 8 * (i - 1)

\* net.IP.Mask.
Mask(ip, p) ==
  [i \in 1..4 |-> LET unit == 2^(8 - BitsIn(p, i)) IN unit * (ip[i] \div unit)]

\* ipinc: counts up from the last byte, each byte that wraps carries over.
ipinc(ip) ==
  LET carry(i) == \A j \in (i + 1)..4 : ip[j] = 255
  IN  [i \in 1..4 |-> IF carry(i) THEN (ip[i] + 1) % 256 ELSE ip[i]]

\* The n-th address after the network address, which is the first.
Nth(net, n) ==
  LET nth[k \in 0..n] == IF k = 0 THEN net ELSE ipinc(nth[k - 1])
  IN  nth[n]

\* Faulty: forgets that the first one names the network.
IpHosts_WithNetwork(ip, p) ==
  LET net == Mask(ip, p) IN [n \in 1..(2^(32 - p) - 1) |-> Nth(net, n - 1)]

\* IpHosts of a network of more than one address: all but the first and the
\* last.
IpHosts(ip, p) ==
  LET net == Mask(ip, p) IN [n \in 1..(2^(32 - p) - 2) |-> Nth(net, n)]

\* parse_cli ends the process on an address it cannot parse, and on a
\* --tunnel-ip that is not a /30.
Rejected(cli) ==
  \/ cli.addr = "bad"
  \/ cli.tunnel_ip # <<>> /\ cli.tunnel_ip[1].prefix # 30

\* parse_cli on the settings g.  A flag with its default's value cannot be told
\* from one that is not given, and leaves a setting as it is; only the default
\* scheduler is set again.
parse_cli(g, cli) ==
  LET hosts == IpHosts(cli.tunnel_ip[1].ip, 30)
  IN  [use_consistent_hashing |-> cli.balance = "consistent",
       mux_max   |-> IF cli.mux # 1 THEN cli.mux ELSE g.mux_max,
       use_aes   |-> cli.aes \/ g.use_aes,
       tunnel_id |-> IF cli.tunnel_id # 0 THEN cli.tunnel_id ELSE g.tunnel_id,
       client_tun_ip |-> IF cli.tunnel_ip # <<>> THEN hosts[1] ELSE g.client_tun_ip,
       server_tun_ip |-> IF cli.tunnel_ip # <<>> THEN hosts[2] ELSE g.server_tun_ip]

=============================================================================
