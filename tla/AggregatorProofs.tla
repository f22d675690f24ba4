-------------------------- MODULE AggregatorProofs --------------------------
(***************************************************************************)
(* What TLAPS proves of Aggregator, for all command lines, client objects  *)
(* and bounds, however the loop and the callbacks overlap: its types, that *)
(* a client runs with the argv that is held, and that both ends of the     *)
(* tunnel compute the same two addresses.                                  *)
(*                                                                         *)
(* RunsHeldArgv needs that the settings are those of the command line, or  *)
(* of the command line and the argv (Configured), and that to apply an     *)
(* argv again changes nothing (ParseTwice).  TunnelEndsMeet needs what     *)
(* walking a /30 gives from any of its addresses (HostsOf30).              *)
(***************************************************************************)
EXTENDS Aggregator, TLAPS

Base == parse_cli(Defaults, cmdline)

Usable == argv \notin {NoArgv, Broken}

Configured ==
  Running =>
    /\ g = Base \/ (Usable /\ g = parse_cli(Base, argv))
    /\ starting + started > 0 => Usable /\ g = parse_cli(Base, argv)

IInv == TypeOK /\ Configured

\* parse_cli, with an argv that it has seen before.
LEMMA ParseTwice ==
  ASSUME NEW b, NEW a
  PROVE  parse_cli(parse_cli(b, a), a) = parse_cli(b, a)
<1> DEFINE h == parse_cli(b, a)
           hosts == IpHosts(a.tunnel_ip[1].ip, 30)
<1>1. /\ h.use_consistent_hashing = (a.balance = "consistent")
      /\ h.mux_max = IF a.mux # 1 THEN a.mux ELSE b.mux_max
      /\ h.tunnel_id = IF a.tunnel_id # 0 THEN a.tunnel_id ELSE b.tunnel_id
      /\ h.client_tun_ip = IF a.tunnel_ip # <<>> THEN hosts[1] ELSE b.client_tun_ip
      /\ h.server_tun_ip = IF a.tunnel_ip # <<>> THEN hosts[2] ELSE b.server_tun_ip
  BY Zenon DEF parse_cli
<1>2. h.use_aes = (a.aes \/ b.use_aes)
  BY Zenon DEF parse_cli
<1>3. (a.aes \/ h.use_aes) = (a.aes \/ b.use_aes)
  BY <1>2, Zenon
<1>4. /\ (IF a.mux # 1 THEN a.mux ELSE h.mux_max) = IF a.mux # 1 THEN a.mux ELSE b.mux_max
      /\ (IF a.tunnel_id # 0 THEN a.tunnel_id ELSE h.tunnel_id)
           = IF a.tunnel_id # 0 THEN a.tunnel_id ELSE b.tunnel_id
      /\ (IF a.tunnel_ip # <<>> THEN hosts[1] ELSE h.client_tun_ip)
           = IF a.tunnel_ip # <<>> THEN hosts[1] ELSE b.client_tun_ip
      /\ (IF a.tunnel_ip # <<>> THEN hosts[2] ELSE h.server_tun_ip)
           = IF a.tunnel_ip # <<>> THEN hosts[2] ELSE b.server_tun_ip
  BY <1>1, Zenon
<1> HIDE DEF h
<1>5. parse_cli(h, a) = parse_cli(b, a)
  BY <1>3, <1>4, Zenon DEF parse_cli
<1>6. QED
  BY <1>5, Zenon DEF h

LEMMA NoArgvIsNone == NoArgv \notin Argvs
<1>1. NoArgv.addr = "none"
  BY DEF NoArgv, NoFlags
<1>2. \A c \in Cli : c.addr \in {"", "good", "bad"}
  BY DEF Cli
<1>3. QED
  BY <1>1, <1>2, AggregatorAssumption

-----------------------------------------------------------------------------
(* The invariant.                                                          *)

LEMMA InitIInv == Init => IInv
<1> SUFFICES ASSUME Init PROVE IInv
  OBVIOUS
<1>1. TypeOK
  <2>1. exited \in BOOLEAN
    BY Zenon DEF Init, Rejected
  <2>2. {connected, token, running, exited} \subseteq BOOLEAN
    BY <2>1, Zenon DEF Init
  <2>3. starting \in 0..MaxStarting /\ started \in 0..2
    BY AggregatorAssumption DEF Init
  <2>4. /\ onconnect \in [Clients -> {"idle", "connected", "subscribe", "request"}]
        /\ onlost \in [Clients -> {"idle", "disconnect", "flag", "nil"}]
        /\ link \in [Clients -> {"new", "up", "down", "gone"}]
        /\ subs \in [Clients -> SUBSET {"token", "argv"}]
    BY DEF Init
  <2>5. QED
    BY <2>2, <2>3, <2>4, Zenon DEF Init, TypeOK
<1>2. Configured
  BY DEF Init, Configured, Base
<1>3. QED
  BY <1>1, <1>2 DEF IInv

\* What do_mqtt_requests may do: nothing but send, end the process, or start
\* the client.
LEMMA RequestsDo ==
  ASSUME IInv, Running, do_mqtt_requests, starting < MaxStarting
  PROVE  /\ requests' \subseteq {"token", "argv"} /\ exited' \in BOOLEAN
         /\ \/ UNCHANGED client
            \/ /\ ~running /\ Usable
               /\ g' = parse_cli(g, argv) /\ starting' = starting + 1
               /\ UNCHANGED <<running, started, exited>>
<1>1. \A kind \in {"token", "argv"} :
        mqtt_send(kind) => requests' \subseteq {"token", "argv"}
  BY DEF mqtt_send, IInv, TypeOK
<1>2. CASE ~token /\ mqtt_send("token") /\ UNCHANGED <<client, exited>>
  BY <1>1, <1>2 DEF IInv, TypeOK
<1>3. CASE token /\ argv = NoArgv /\ mqtt_send("argv") /\ UNCHANGED <<client, exited>>
  BY <1>1, <1>3 DEF IInv, TypeOK
<1>4. CASE UNCHANGED <<client, exited, requests>>
  BY <1>4 DEF IInv, TypeOK
<1>5. CASE /\ argv \notin {NoArgv, Broken} /\ ~running
           /\ Rejected(argv) /\ exited' = TRUE /\ UNCHANGED client /\ UNCHANGED requests
  BY <1>5 DEF IInv, TypeOK
<1>6. CASE /\ argv \notin {NoArgv, Broken} /\ ~running
           /\ g' = parse_cli(g, argv) /\ starting' = starting + 1
           /\ UNCHANGED <<running, started, exited>> /\ UNCHANGED requests
  BY <1>6 DEF IInv, TypeOK, Usable
<1>7. QED
  BY <1>2, <1>3, <1>4, <1>5, <1>6 DEF do_mqtt_requests

\* After do_mqtt_requests.
LEMMA RequestsIInv ==
  ASSUME IInv, Running, do_mqtt_requests, starting < MaxStarting,
         UNCHANGED <<globals, loop, onlost, link, subs, cmdline>>,
         onconnect' \in [Clients -> {"idle", "connected", "subscribe", "request"}]
  PROVE  IInv'
<1>1. TypeOK'
  <2>1. starting' \in 0..MaxStarting /\ started' = started /\ running' = running
    BY RequestsDo, AggregatorAssumption DEF IInv, TypeOK, client
  <2>2. requests' \subseteq {"token", "argv"} /\ exited' \in BOOLEAN
    BY RequestsDo
  <2>3. QED
    BY <2>1, <2>2 DEF IInv, TypeOK, globals
<1>2. Configured'
  <2> SUFFICES ASSUME Running' PROVE
        /\ g' = Base \/ (Usable /\ g' = parse_cli(Base, argv))
        /\ starting' + started' > 0 => Usable /\ g' = parse_cli(Base, argv)
    BY DEF Configured, Base, Usable, globals
  <2>1. CASE UNCHANGED client
    BY <2>1 DEF IInv, Configured, client
  <2>2. CASE Usable /\ g' = parse_cli(g, argv)
    <3>1. g = Base \/ g = parse_cli(Base, argv)
      BY DEF IInv, Configured
    <3>2. g' = parse_cli(Base, argv)
      BY <2>2, <3>1, ParseTwice, Zenon
    <3>3. QED
      BY <2>2, <3>2
  <2>3. QED
    BY RequestsDo, <2>1, <2>2
<1>3. QED
  BY <1>1, <1>2 DEF IInv

\* A step that touches neither the client nor the argv.
LEMMA QuietIInv ==
  ASSUME IInv, TypeOK', UNCHANGED <<client, argv, exited, cmdline>>
  PROVE  IInv'
<1>1. Configured'
  BY DEF IInv, Configured, Base, Usable, Running, client
<1>2. QED
  BY <1>1 DEF IInv

\* Once the process has ended, only the types are left to keep.
LEMMA ExitIInv ==
  ASSUME TypeOK', exited'
  PROVE  IInv'
BY DEF IInv, Configured, Running

LEMMA NextIInv ==
  ASSUME IInv, [Next]_vars
  PROVE  IInv'
<1> USE AggregatorAssumption
<1>1. CASE loop_requests
  BY <1>1, RequestsIInv DEF loop_requests, threads, IInv, TypeOK
<1>2. CASE mqtt_check_brokers
  <2>1. TypeOK'
    BY <1>2 DEF mqtt_check_brokers, Disconnect, IInv, TypeOK, globals, client
  <2>2. QED
    BY <1>2, <2>1, QuietIInv DEF mqtt_check_brokers, globals
<1>3. CASE connect_fails
  <2>1. TypeOK'
    BY <1>3 DEF connect_fails, IInv, TypeOK, globals, client
  <2>2. QED
    BY <1>3, <2>1, QuietIInv DEF connect_fails, globals
<1>4. CASE run_client
  <2>1. TypeOK'
    <3>1. starting' \in 0..MaxStarting /\ started' \in 0..2
      BY <1>4 DEF run_client, IInv, TypeOK
    <3>2. running' \in BOOLEAN /\ exited' \in BOOLEAN
      BY <1>4 DEF run_client, IInv, TypeOK
    <3>3. UNCHANGED <<globals, threads, broker, cmdline>>
      BY <1>4 DEF run_client
    <3>4. QED
      BY <3>1, <3>2, <3>3 DEF IInv, TypeOK, globals, threads, broker
  <2>2. CASE exited'
    BY <2>1, <2>2, ExitIInv
  <2>3. CASE ~exited'
    <3>1. /\ running' = TRUE /\ starting' = starting - 1 /\ starting > 0
          /\ started' = IF started = 2 THEN 2 ELSE started + 1
          /\ UNCHANGED <<globals, g, exited, threads, cmdline>>
      BY <1>4, <2>3 DEF run_client
    <3>3. starting + started > 0 /\ Usable' = Usable /\ Base' = Base
      BY <3>1 DEF IInv, TypeOK, Usable, Base, globals
    <3>4. Configured'
      BY <3>1, <3>3 DEF IInv, Configured, Running, globals, Base
    <3>5. QED
      BY <2>1, <3>4 DEF IInv
  <2>4. QED
    BY <2>2, <2>3
<1>5. ASSUME NEW o \in Clients, mqtt_connect_things(o) PROVE IInv'
  <2>1. TypeOK'
    BY <1>5 DEF mqtt_connect_things, IInv, TypeOK, client
  <2>2. QED
    BY <1>5, <2>1, QuietIInv DEF mqtt_connect_things
<1>6. ASSUME NEW o \in Clients, connect_succeeds(o) PROVE IInv'
  <2>1. TypeOK'
    BY <1>6 DEF connect_succeeds, IInv, TypeOK, globals, client
  <2>2. QED
    BY <1>6, <2>1, QuietIInv DEF connect_succeeds, globals
<1>7. ASSUME NEW o \in Clients, connectHandler_assigns(o) PROVE IInv'
  <2>1. TypeOK'
    BY <1>7 DEF connectHandler_assigns, IInv, TypeOK, client, broker
  <2>2. QED
    BY <1>7, <2>1, QuietIInv DEF connectHandler_assigns, IInv, TypeOK
<1>8. ASSUME NEW o \in Clients, connectHandler_subscribes(o) PROVE IInv'
  <2>1. TypeOK'
    BY <1>8 DEF connectHandler_subscribes, mqtt_sub, IInv, TypeOK, globals, client
  <2>2. QED
    BY <1>8, <2>1, QuietIInv DEF connectHandler_subscribes, IInv, TypeOK, globals
<1>9. ASSUME NEW o \in Clients, connectHandler_requests(o) PROVE IInv'
  <2>1. onconnect' \in [Clients -> {"idle", "connected", "subscribe", "request"}]
    BY <1>9 DEF connectHandler_requests, IInv, TypeOK
  <2>2. QED
    BY <1>9, <2>1, RequestsIInv DEF connectHandler_requests
<1>10. ASSUME NEW o \in Clients, lostHandler_disconnects(o) PROVE IInv'
  <2>1. TypeOK'
    BY <1>10 DEF lostHandler_disconnects, Disconnect, IInv, TypeOK, globals, client
  <2>2. CASE mqttclient = NoClient
    BY <1>10, <2>1, <2>2, ExitIInv DEF lostHandler_disconnects
  <2>3. CASE mqttclient # NoClient
    BY <1>10, <2>1, <2>3, QuietIInv
    DEF lostHandler_disconnects, IInv, TypeOK, globals
  <2>4. QED
    BY <2>2, <2>3
<1>11. ASSUME NEW o \in Clients, lostHandler_flags(o) PROVE IInv'
  <2>1. TypeOK'
    BY <1>11 DEF lostHandler_flags, IInv, TypeOK, client, broker
  <2>2. QED
    BY <1>11, <2>1, QuietIInv DEF lostHandler_flags, IInv, TypeOK
<1>12. ASSUME NEW o \in Clients, lostHandler_clears(o) PROVE IInv'
  <2>1. TypeOK'
    BY <1>12 DEF lostHandler_clears, IInv, TypeOK, client, broker
  <2>2. QED
    BY <1>12, <2>1, QuietIInv DEF lostHandler_clears, IInv, TypeOK
<1>13. ASSUME NEW o \in Clients, token_received(o) PROVE IInv'
  <2>1. TypeOK'
    BY <1>13 DEF token_received, mqtt_sub, IInv, TypeOK, client, threads
  <2>2. QED
    BY <1>13, <2>1, QuietIInv DEF token_received, threads
<1>14. ASSUME NEW o \in Clients, NEW a \in Argvs, argv_received(o, a) PROVE IInv'
  <2>1. TypeOK'
    BY <1>14 DEF argv_received, IInv, TypeOK, client, threads
  <2>2. CASE argv \notin {NoArgv, a}
    BY <1>14, <2>1, <2>2, ExitIInv DEF argv_received
  <2>3. CASE argv = NoArgv
    <3>1. /\ argv' = a /\ a # NoArgv
          /\ UNCHANGED <<g, running, starting, started, exited, onconnect, onlost, cmdline>>
      BY <1>14, <2>3, NoArgvIsNone DEF argv_received, client, threads
    <3>2. Configured'
      BY <2>3, <3>1 DEF IInv, Configured, Usable, Base, Running
    <3>3. QED
      BY <2>1, <3>2 DEF IInv
  <2>4. CASE argv = a
    BY <1>14, <2>1, <2>4, QuietIInv DEF argv_received, threads
  <2>5. QED
    BY <2>2, <2>3, <2>4
<1>15. ASSUME NEW o \in Clients, connection_lost(o) PROVE IInv'
  <2>1. TypeOK'
    BY <1>15 DEF connection_lost, IInv, TypeOK, globals, client
  <2>2. QED
    BY <1>15, <2>1, QuietIInv DEF connection_lost, globals
<1>16. ASSUME NEW kind \in {"token", "argv"}, message_lost(kind) PROVE IInv'
  <2>1. TypeOK'
    BY <1>16 DEF message_lost, IInv, TypeOK, globals, client, threads
  <2>2. QED
    BY <1>16, <2>1, QuietIInv DEF message_lost, globals, threads
<1>17. CASE UNCHANGED vars
  <2>1. TypeOK'
    BY <1>17 DEF vars, IInv, TypeOK, globals, client, threads, broker
  <2>2. QED
    BY <1>17, <2>1, QuietIInv DEF vars, globals, threads
<1>18. CASE connect_things_forgets
  <2>1. TypeOK'
    BY <1>18 DEF connect_things_forgets, IInv, TypeOK, client, broker
  <2>2. QED
    BY <1>18, <2>1, QuietIInv DEF connect_things_forgets
<1>19. QED
  BY <1>1, <1>2, <1>3, <1>4, <1>5, <1>6, <1>7, <1>8, <1>9, <1>10, <1>11, <1>12, <1>13,
     <1>14, <1>15, <1>16, <1>17, <1>18
  DEF Next, connectHandler, lostHandler

-----------------------------------------------------------------------------
(* The theorems.                                                           *)

LEMMA Invariance == Spec => []IInv
<1>1. IInv /\ [Next]_vars => IInv'
  BY NextIInv
<1>2. QED
  BY InitIInv, <1>1, PTL DEF Spec

\* Every variable keeps its type, however the loop and the callbacks overlap.
THEOREM TypeCorrect == Spec => []TypeOK
<1>1. IInv => TypeOK
  BY DEF IInv
<1>2. QED
  BY Invariance, <1>1, PTL

\* parse_cli is called again, on the settings it has changed, by every start of
\* the client; yet the client has the settings of one call with the held argv.
THEOREM RunsHeldArgvCorrect == Spec => []RunsHeldArgv
<1>1. IInv => RunsHeldArgv
  BY DEF IInv, Configured, RunsHeldArgv, Base
<1>2. QED
  BY Invariance, <1>1, PTL

-----------------------------------------------------------------------------
(* The two ends of the tunnel.                                             *)

\* The n-th address of the /30 that ip is in.
Host(ip, n) == [ip EXCEPT ![4] = 4 * (@ \div 4) + n]

\* The arithmetic of the last byte.
LEMMA LastByte ==
  ASSUME NEW b \in Byte, NEW n \in 0..3
  PROVE  /\ 4 * (b \div 4) + n \in Byte
         /\ (4 * (b \div 4) + n) \div 4 = b \div 4
         /\ (4 * (b \div 4) + n) % 4 = n
         /\ n < 3 => 4 * (b \div 4) + n # 255
<1> DEFINE q == b \div 4
<1>1. b \in Nat /\ b <= 255 /\ n \in Nat /\ n <= 3
  BY DEF Byte
<1>2. q \in Nat /\ q <= 63
  BY <1>1
<1> HIDE DEF q
<1>3. 4 * q + n \in Nat /\ 4 * q + n <= 255
  BY <1>1, <1>2
<1>4. (4 * q + n) \div 4 = q /\ (4 * q + n) % 4 = n
  BY <1>1, <1>2
<1>5. n < 3 => 4 * q + n # 255
  BY <1>1, <1>2
<1>6. 4 * q + n \in Byte
  BY <1>3 DEF Byte
<1>7. QED
  BY <1>4, <1>5, <1>6 DEF q

\* A host of a /30 is an address of the same /30.
LEMMA HostType ==
  ASSUME NEW ip \in Address, NEW n \in 0..3
  PROVE  /\ Host(ip, n) \in Address
         /\ Host(ip, n)[4] % 4 = n
         /\ \A m \in 0..3 : Host(Host(ip, n), m) = Host(ip, m)
<1>1. ip[4] \in Byte
  BY DEF Address
<1>2. Host(ip, n) \in Address /\ Host(ip, n)[4] = 4 * (ip[4] \div 4) + n
  BY <1>1, LastByte DEF Host, Address
<1>3. Host(ip, n)[4] % 4 = n /\ Host(ip, n)[4] \div 4 = ip[4] \div 4
  BY <1>1, <1>2, LastByte
<1>4. \A m \in 0..3 : Host(Host(ip, n), m) = Host(ip, m)
  BY <1>3 DEF Host, Address
<1>5. QED
  BY <1>2, <1>3, <1>4

\* The mask of a /30 clears the last two bits.
LEMMA Mask30 ==
  ASSUME NEW ip \in Address PROVE Mask(ip, 30) = Host(ip, 0)
<1>1. BitsIn(30, 1) = 8 /\ BitsIn(30, 2) = 8 /\ BitsIn(30, 3) = 8 /\ BitsIn(30, 4) = 6
  BY DEF BitsIn
<1>2. 2^(8 - 8) = 1 /\ 2^(8 - 6) = 4
  OBVIOUS
<1>3. \A i \in 1..4 : ip[i] \in Nat
  BY DEF Address, Byte
<1>4. \A i \in 1..4 :
         Mask(ip, 30)[i] = 2^(8 - BitsIn(30, i)) * (ip[i] \div 2^(8 - BitsIn(30, i)))
  BY Zenon DEF Mask
<1>5. \A i \in 1..3 : Mask(ip, 30)[i] = ip[i]
  <2> SUFFICES ASSUME NEW i \in 1..3 PROVE Mask(ip, 30)[i] = ip[i]
    OBVIOUS
  <2>1. BitsIn(30, i) = 8
    BY <1>1
  <2>2. Mask(ip, 30)[i] = 1 * (ip[i] \div 1)
    <3>1. 2^(8 - BitsIn(30, i)) = 1
      BY <1>2, <2>1, Zenon
    <3>2. i \in 1..4
      OBVIOUS
    <3>3. QED
      BY <1>4, <3>1, <3>2, Zenon
  <2>3. QED
    BY <1>3, <2>2
<1>6. Mask(ip, 30)[4] = 4 * (ip[4] \div 4)
  <2>1. 2^(8 - BitsIn(30, 4)) = 4
    BY <1>1, <1>2, Zenon
  <2>2. 4 \in 1..4
    OBVIOUS
  <2>3. QED
    BY <1>4, <2>1, <2>2, Zenon
<1>7. Host(ip, 0) = [i \in 1..4 |-> IF i = 4 THEN 4 * (ip[4] \div 4) + 0 ELSE ip[i]]
  BY DEF Host, Address
<1>8. 4 * (ip[4] \div 4) + 0 = 4 * (ip[4] \div 4)
  BY <1>3
<1>9. \A i \in 1..4 : Mask(ip, 30)[i] = Host(ip, 0)[i]
  BY <1>5, <1>6, <1>7, <1>8
<1>10. Mask(ip, 30) = [i \in 1..4 |-> Mask(ip, 30)[i]]
  BY DEF Mask
<1>11. QED
  BY <1>7, <1>9, <1>10

\* ipinc of an address whose last byte does not wrap.
LEMMA IncHost ==
  ASSUME NEW ip \in Address, NEW n \in 0..2
  PROVE  ipinc(Host(ip, n)) = Host(ip, n + 1)
<1> DEFINE h == Host(ip, n)
           b == ip[4]
<1>0. b \in Byte /\ h \in Address /\ n \in 0..3 /\ n < 3
  BY HostType DEF Address
<1>1. /\ h[4] = 4 * (b \div 4) + n /\ h[4] # 255 /\ h[4] \in Byte
  <2>1. h[4] = 4 * (b \div 4) + n
    BY DEF Host, Address
  <2>2. 4 * (b \div 4) + n \in Byte /\ 4 * (b \div 4) + n # 255
    BY <1>0, LastByte, Zenon
  <2>3. QED
    BY <2>1, <2>2, Zenon
<1>2. 4 * (b \div 4) + (n + 1) \in Byte /\ 4 * (b \div 4) + (n + 1) = h[4] + 1
  BY <1>0, <1>1, LastByte DEF Byte
<1>3. (h[4] + 1) % 256 = h[4] + 1
  BY <1>1, <1>2 DEF Byte
<1>4. Host(ip, n + 1) = [i \in 1..4 |-> IF i = 4 THEN h[4] + 1 ELSE h[i]]
  BY <1>2 DEF Host, Address
<1> HIDE DEF h
<1>5. ipinc(h)[4] = h[4] + 1
  BY <1>3 DEF ipinc
<1>6. \A i \in 1..3 : ipinc(h)[i] = h[i]
  BY <1>0, <1>1 DEF ipinc
<1>7. ipinc(h) = [i \in 1..4 |-> ipinc(h)[i]]
  BY DEF ipinc
<1>8. ipinc(h) = Host(ip, n + 1)
  BY <1>4, <1>5, <1>6, <1>7
<1>9. QED
  BY <1>8 DEF h

\* The first two addresses after the network address.
LEMMA NthHosts ==
  ASSUME NEW net
  PROVE  Nth(net, 1) = ipinc(net) /\ Nth(net, 2) = ipinc(ipinc(net))
<1>1. Nth(net, 1) = ipinc(net)
  <2> DEFINE F(f) == [k \in 0..1 |-> IF k = 0 THEN net ELSE ipinc(f[k - 1])]
             e == [k \in 0..1 |-> IF k = 0 THEN net ELSE ipinc(net)]
             c == CHOOSE f : f = F(f)
  <2>1. e = F(e)
    OBVIOUS
  <2>2. c = F(c)
    BY <2>1
  <2>3. Nth(net, 1) = c[1]
    BY DEF Nth
  <2> HIDE DEF c
  <2>4. c[0] = net
    BY <2>2
  <2>5. c[1] = ipinc(c[0])
    BY <2>2
  <2>6. QED
    BY <2>3, <2>4, <2>5
<1>2. Nth(net, 2) = ipinc(ipinc(net))
  <2> DEFINE F(f) == [k \in 0..2 |-> IF k = 0 THEN net ELSE ipinc(f[k - 1])]
             e == [k \in 0..2 |-> IF k = 0 THEN net ELSE
                                  IF k = 1 THEN ipinc(net) ELSE ipinc(ipinc(net))]
             c == CHOOSE f : f = F(f)
  <2>1. e = F(e)
    OBVIOUS
  <2>2. c = F(c)
    BY <2>1
  <2>3. Nth(net, 2) = c[2]
    BY DEF Nth
  <2> HIDE DEF c
  <2>4. c[0] = net
    BY <2>2
  <2>5. c[1] = ipinc(c[0]) /\ c[2] = ipinc(c[1])
    BY <2>2
  <2>6. QED
    BY <2>3, <2>4, <2>5
<1>3. QED
  BY <1>1, <1>2

\* IpHosts of a /30: its two hosts.
LEMMA HostsOf30 ==
  ASSUME NEW ip \in Address
  PROVE  IpHosts(ip, 30)[1] = Host(ip, 1) /\ IpHosts(ip, 30)[2] = Host(ip, 2)
<1>1. 2^(32 - 30) - 2 = 2
  OBVIOUS
<1>2. /\ IpHosts(ip, 30)[1] = Nth(Mask(ip, 30), 1)
      /\ IpHosts(ip, 30)[2] = Nth(Mask(ip, 30), 2)
  BY <1>1 DEF IpHosts
<1>3. ipinc(Host(ip, 0)) = Host(ip, 1) /\ ipinc(Host(ip, 1)) = Host(ip, 2)
  <2>1. ipinc(Host(ip, 0)) = Host(ip, 0 + 1) /\ ipinc(Host(ip, 1)) = Host(ip, 1 + 1)
    BY IncHost
  <2>2. 0 + 1 = 1 /\ 1 + 1 = 2
    OBVIOUS
  <2>3. QED
    BY <2>1, <2>2
<1>4. QED
  BY <1>2, <1>3, Mask30, NthHosts
\* The settings hold the two hosts of some /30.
EndsOf30(h) ==
  \E ip \in Address : h.client_tun_ip = Host(ip, 1) /\ h.server_tun_ip = Host(ip, 2)

\* The defaults are the hosts of 10.10.10.0/30.
LEMMA DefaultEnds == EndsOf30(Defaults)
<1> DEFINE ip == [i \in 1..4 |-> IF i = 4 THEN 1 ELSE 10]
<1>1. ip \in Address /\ ip[4] \div 4 = 0
  BY DEF Address, Byte
<1>2. Host(ip, 1) = <<10, 10, 10, 1>> /\ Host(ip, 2) = <<10, 10, 10, 2>>
  <2>1. /\ Host(ip, 1) = [i \in 1..4 |-> IF i = 4 THEN 1 ELSE 10]
        /\ Host(ip, 2) = [i \in 1..4 |-> IF i = 4 THEN 2 ELSE 10]
    <3>1. 4 * (ip[4] \div 4) + 1 = 1 /\ 4 * (ip[4] \div 4) + 2 = 2
      BY <1>1
    <3>2. \A n : Host(ip, n) = [i \in 1..4 |-> IF i = 4 THEN 4 * (ip[4] \div 4) + n ELSE ip[i]]
      BY DEF Host
    <3>3. \A i \in 1..4 : i # 4 => ip[i] = 10
      OBVIOUS
    <3> HIDE DEF ip
    <3>4. QED
      BY <3>1, <3>2, <3>3
  <2>2. QED
    BY <2>1
<1>3. /\ Defaults.client_tun_ip = <<10, 10, 10, 1>>
      /\ Defaults.server_tun_ip = <<10, 10, 10, 2>>
  BY DEF Defaults
<1>4. QED
  BY <1>1, <1>2, <1>3 DEF EndsOf30

\* parse_cli keeps them, or takes those of the /30 it is given.
LEMMA ParseEnds ==
  ASSUME NEW b, EndsOf30(b), NEW c \in Cli
  PROVE  EndsOf30(parse_cli(b, c))
<1> DEFINE h == parse_cli(b, c)
           hosts == IpHosts(c.tunnel_ip[1].ip, 30)
<1>1. /\ h.client_tun_ip = IF c.tunnel_ip # <<>> THEN hosts[1] ELSE b.client_tun_ip
      /\ h.server_tun_ip = IF c.tunnel_ip # <<>> THEN hosts[2] ELSE b.server_tun_ip
  BY Zenon DEF parse_cli
<1> HIDE DEF h
<1>2. CASE c.tunnel_ip = <<>>
  BY <1>1, <1>2 DEF EndsOf30, h
<1>3. CASE c.tunnel_ip # <<>>
  <2>1. c.tunnel_ip \in Seq([ip : Address, prefix : 0..32])
    BY DEF Cli
  <2>2. c.tunnel_ip[1].ip \in Address
    <3> DEFINE t == c.tunnel_ip
               R == [ip : Address, prefix : 0..32]
    <3>1. t \in Seq(R) /\ t # <<>>
      BY <1>3, <2>1
    <3> HIDE DEF t, R
    <3>2. t[1] \in R
      BY <3>1
    <3>3. QED
      BY <3>2 DEF t, R
  <2>3. h.client_tun_ip = Host(c.tunnel_ip[1].ip, 1)
        /\ h.server_tun_ip = Host(c.tunnel_ip[1].ip, 2)
    BY <1>1, <1>3, <2>2, HostsOf30
  <2>4. QED
    BY <2>2, <2>3, Zenon DEF EndsOf30, h
<1>4. QED
  BY <1>2, <1>3

\* Two hosts of a /30 meet whoever is given an address of it.
LEMMA EndsMeet ==
  ASSUME NEW h, EndsOf30(h), NEW ip \in Subnet(h.client_tun_ip)
  PROVE  LET s == parse_cli(Defaults,
                    [NoFlags EXCEPT !.tunnel_ip = <<[ip |-> ip, prefix |-> 30]>>])
         IN  /\ s.client_tun_ip = h.client_tun_ip /\ s.server_tun_ip = h.server_tun_ip
             /\ h.client_tun_ip[4] % 4 = 1 /\ h.server_tun_ip[4] % 4 = 2
<1> DEFINE cli == [NoFlags EXCEPT !.tunnel_ip = <<[ip |-> ip, prefix |-> 30]>>]
           s == parse_cli(Defaults, cli)
<1>1. PICK a \in Address : h.client_tun_ip = Host(a, 1) /\ h.server_tun_ip = Host(a, 2)
  BY DEF EndsOf30
<1>2. PICK n \in 0..3 : ip = Host(Host(a, 1), n)
  BY <1>1 DEF Subnet, Host
<1>3. ip = Host(a, n) /\ ip \in Address
  BY <1>2, HostType
<1>4. Host(ip, 1) = Host(a, 1) /\ Host(ip, 2) = Host(a, 2)
  BY <1>3, HostType
<1>5. cli.tunnel_ip = <<[ip |-> ip, prefix |-> 30]>>
  BY DEF NoFlags
<1>6. cli.tunnel_ip # <<>> /\ cli.tunnel_ip[1].ip = ip
  BY <1>5
<1> HIDE DEF cli
<1>7. /\ s.client_tun_ip = IpHosts(cli.tunnel_ip[1].ip, 30)[1]
      /\ s.server_tun_ip = IpHosts(cli.tunnel_ip[1].ip, 30)[2]
  BY <1>6, Zenon DEF parse_cli
<1>8. s.client_tun_ip = h.client_tun_ip /\ s.server_tun_ip = h.server_tun_ip
  BY <1>1, <1>3, <1>4, <1>6, <1>7, HostsOf30, Zenon
<1>9. h.client_tun_ip[4] % 4 = 1 /\ h.server_tun_ip[4] % 4 = 2
  BY <1>1, HostType
<1>10. QED
  BY <1>8, <1>9 DEF cli

\* Nothing changes the command line.
LEMMA NextCmdline == [Next]_vars => cmdline' = cmdline
BY DEF Next, vars, loop_requests, mqtt_check_brokers, connect_fails, run_client,
       connect_things_forgets, mqtt_connect_things, connect_succeeds, connectHandler, connectHandler_assigns,
       connectHandler_subscribes, connectHandler_requests, lostHandler,
       lostHandler_disconnects, lostHandler_flags, lostHandler_clears, token_received,
       argv_received, connection_lost, message_lost

\* Whatever command line the process was started with and whatever argv the
\* aggregator sends, a client that runs has the two hosts of a /30 as its tunnel
\* addresses, and a server given any address of that /30 computes the same two.
THEOREM TunnelEndsCorrect == Spec => []TunnelEndsMeet
<1>1. Init => cmdline \in Cmdlines
  BY DEF Init
<1>2. cmdline \in Cmdlines /\ [Next]_vars => (cmdline \in Cmdlines)'
  BY NextCmdline
<1>3. IInv /\ cmdline \in Cmdlines => TunnelEndsMeet
  <2> SUFFICES ASSUME IInv, cmdline \in Cmdlines, starting + started > 0, Running
               PROVE  EndsOf30(g)
    BY EndsMeet, Zenon DEF TunnelEndsMeet
  <2>1. argv \in Argvs /\ g = parse_cli(Base, argv)
    BY DEF IInv, Configured, Usable, TypeOK
  <2>2. cmdline \in Cli /\ argv \in Cli
    BY <2>1, AggregatorAssumption
  <2>3. EndsOf30(Base)
    BY <2>2, DefaultEnds, ParseEnds DEF Base
  <2>4. QED
    BY <2>1, <2>2, <2>3, ParseEnds
<1>4. QED
  BY <1>1, <1>2, <1>3, Invariance, PTL DEF Spec

=============================================================================
