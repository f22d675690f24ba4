----------------------------- MODULE Scheduler -----------------------------
(***************************************************************************)
(* The consistent-hashing scheduler on both sides: the key that the client *)
(* (ExtractSrc) and the server (ExtractDst) make of a packet, the member   *)
(* it is sent over, and the order in which packets arrive.                 *)
(*                                                                         *)
(* A frame is what the key functions read of it: protocol, length, the     *)
(* bytes from 20 on, addresses.  They take bytes 20 to 23 for the ports,   *)
(* which they are in a packet that has no IP options and is no later       *)
(* fragment.  The ring (external) is a circle on which every convid and    *)
(* every key has a fixed place; a key belongs to the next member.          *)
(*                                                                         *)
(* Every registration makes a new session.  A session delivers in order    *)
(* (KCP).  When the sender closes it, or registers another one over it,    *)
(* what has been sent is still under way, or in the peer's buffer, and the *)
(* peer goes on reading it until it closes its own end.                    *)
(***************************************************************************)
EXTENDS Integers, Sequences

CONSTANTS
  MaxConvid,      \* convids are 1..MaxConvid
  Flows,          \* flows to choose from, as the client sees them
  MaxPackets,     \* bound: packets of the flow, in each direction
  MaxJoins        \* bound: registrations, on each side

Byte  == 0..255
Port  == Byte \X Byte
TCP   == 6
Other == 17

Flow == [proto : {TCP, Other}, sport : Port, dport : Port, src : Nat, dst : Nat]

ASSUME SchedulerAssumption ==
  /\ {MaxConvid, MaxPackets, MaxJoins} \subseteq Nat
  /\ Flows \subseteq Flow

Convids == 1..MaxConvid
Sides   == {"client", "server"}

\* The n-th packet of a flow: ports, then the sequence number of TCP.
Frame(f, n) ==
  [proto |-> f.proto, len |-> IF f.proto = TCP THEN 40 ELSE 28,
   b |-> [i \in 20..24 |-> CASE i = 20 -> f.sport[1] [] i = 21 -> f.sport[2]
                             [] i = 22 -> f.dport[1] [] i = 23 -> f.dport[2]
                             [] OTHER -> n],
   src |-> f.src, dst |-> f.dst]

\* The packets of the other direction.
Answer(f) == [f EXCEPT !.sport = f.dport, !.dport = f.sport, !.src = f.dst, !.dst = f.src]

\* Sprintf("%x%x"): digits without leading zeros, so that different ports may
\* look the same.
Hex(x)     == IF x < 16 THEN <<x>> ELSE <<x \div 16, x % 16>>
Hex2(x, y) == Hex(x) \o Hex(y)

\* A key: the parts between its colons, as sequences.
IsTCP(p) == p.proto = TCP /\ p.len >= 24

\* Faulty: the addresses of the client's direction.
ExtractDst_SameAddresses(p) ==
  IF IsTCP(p)
  THEN <<Hex2(p.b[22], p.b[23]), Hex2(p.b[20], p.b[21]), <<p.dst>>, <<p.src>>>>
  ELSE <<<<p.dst>>, <<p.src>>>>

ExtractDst(p) ==
  IF IsTCP(p)
  THEN <<Hex2(p.b[22], p.b[23]), Hex2(p.b[20], p.b[21]), <<p.src>>, <<p.dst>>>>
  ELSE <<<<p.src>>, <<p.dst>>>>

ExtractSrc(p) ==
  IF IsTCP(p)
  THEN <<Hex2(p.b[20], p.b[21]), Hex2(p.b[22], p.b[23]), <<p.dst>>, <<p.src>>>>
  ELSE <<<<p.dst>>, <<p.src>>>>

\* The key of the n-th packet that a side sends for a flow.
Key(side, f, n) ==
  IF side = "client" THEN ExtractSrc(Frame(f, n)) ELSE ExtractDst(Frame(Answer(f), n))

Keys(f) == {Key(side, f, n) : side \in Sides, n \in 1..MaxPackets}

VARIABLES
  flow,           \* the flow that is watched; the others do not influence it
  place,          \* where each key is: before which convid
  connections,    \* each side's table: the session of a convid, 0 if none
  joins,          \* registrations so far, on each side
  sent,           \* packets sent so far, on each side
  flight,         \* packets of each side that are still to be delivered
  until           \* packets a side had sent when a session left its table

vars == <<flow, place, connections, joins, sent, flight, until>>

\* A registration is a session of its own.  A packet is known by its number,
\* its session and the registrations its side had made.
Sessions == 1..MaxJoins
Packet   == [n : 1..MaxPackets, session : Sessions, joins : 0..MaxJoins]

\* The members of a side's ring.
Ring(s) == {c \in Convids : connections[s][c] # 0}

\* How far a convid is from the key's place, going round.
Distance(k, c) == IF c >= place[k] THEN c - place[k] ELSE c - place[k] + MaxConvid

\* consistent.Get: the first member from the key's place on.
Get(r, k) == CHOOSE c \in r : \A d \in r : Distance(k, c) <= Distance(k, d)

Init ==
  /\ flow \in Flows
  /\ place \in [Keys(flow) -> Convids]
  /\ connections = [s \in Sides |-> [c \in Convids |-> 0]]
  /\ joins = [s \in Sides |-> 0]
  /\ sent = [s \in Sides |-> 0]
  /\ flight = [s \in Sides |-> {}]
  /\ until = [s \in Sides |-> [j \in Sessions |-> MaxPackets]]

\* The session that c has, if any, leaves the table of s.
Leaves(s, c) ==
  until' = [until EXCEPT ![s] = [j \in Sessions |->
              IF j = connections[s][c] THEN sent[s] ELSE until[s][j]]]

\* A connection is registered, over another one if the slot has one.
join(s, c) ==
  /\ joins[s] < MaxJoins
  /\ connections' = [connections EXCEPT ![s][c] = joins[s] + 1]
  /\ joins' = [joins EXCEPT ![s] = @ + 1]
  /\ Leaves(s, c)
  /\ UNCHANGED <<flow, place, sent, flight>>

\* A connection is closed.  What its KCP has not sent yet, from the m-th packet
\* on, is lost; the rest is the peer's.
leave(s, c) ==
  /\ c \in Ring(s)
  /\ connections' = [connections EXCEPT ![s][c] = 0]
  /\ \E m \in 1..(MaxPackets + 1) :
       flight' = [flight EXCEPT ![s] =
         {p \in @ : ~(p.session = connections[s][c] /\ p.n >= m)}]
  /\ Leaves(s, c)
  /\ UNCHANGED <<flow, place, joins, sent>>

\* Faulty: always round robin.
send_RoundRobin(s) ==
  LET n == sent[s] + 1
  IN  /\ n <= MaxPackets
      /\ sent' = [sent EXCEPT ![s] = n]
      /\ \E c \in Ring(s) :
           flight' = [flight EXCEPT ![s] = @ \cup
             {[n |-> n, session |-> connections[s][c], joins |-> joins[s]]}]
      /\ UNCHANGED <<flow, place, connections, joins, until>>

\* client_choose_kcp_conn and server_choose_kcp_conn with a packet, and its
\* Write; without a member the packet is dropped.
send(s) ==
  LET n == sent[s] + 1
      c == Get(Ring(s), Key(s, flow, n))
  IN  /\ n <= MaxPackets
      /\ sent' = [sent EXCEPT ![s] = n]
      /\ flight' = IF Ring(s) = {} THEN flight
                   ELSE [flight EXCEPT ![s] = @ \cup
                     {[n |-> n, session |-> connections[s][c],
                       joins |-> joins[s]]}]
      /\ UNCHANGED <<flow, place, connections, joins, until>>

\* KCP delivers the next packet of a session.
deliver(s, p) ==
  /\ p \in flight[s]
  /\ \A q \in flight[s] : q.session = p.session => q.n >= p.n
  /\ flight' = [flight EXCEPT ![s] = @ \ {p}]
  /\ UNCHANGED <<flow, place, connections, joins, sent, until>>

\* The peer closes its end: the rest of the session is never read.
peer_closes(s, j) ==
  /\ \E p \in flight[s] : p.session = j
  /\ flight' = [flight EXCEPT ![s] = {p \in @ : p.session # j}]
  /\ UNCHANGED <<flow, place, connections, joins, sent, until>>

Next ==
  \E s \in Sides :
    \/ send(s)
    \/ \E c \in Convids : join(s, c) \/ leave(s, c)
    \/ \E p \in flight[s] : deliver(s, p)
    \/ \E j \in Sessions : peer_closes(s, j)

Spec == Init /\ [][Next]_vars

-----------------------------------------------------------------------------
(* Properties.                                                             *)

\* Every variable holds a value of its type.
TypeOK ==
  /\ flow \in Flows
  /\ place \in [Keys(flow) -> Convids]
  /\ connections \in [Sides -> [Convids -> 0..MaxJoins]]
  /\ joins \in [Sides -> 0..MaxJoins]
  /\ sent \in [Sides -> 0..MaxPackets]
  /\ flight \in [Sides -> SUBSET Packet]
  /\ until \in [Sides -> [Sessions -> 0..MaxPackets]]

\* "It will however allow single TCP sessions to use a consistent path, which
\* helps with packet reordering": no packet of a flow is delivered before an
\* earlier one that is still to be, unless, between the sending of the two, a
\* connection was registered or the one that carries the earlier one left the
\* table.  That other connections leave, that the peer still reads closed ones
\* and what becomes of both afterwards makes no difference.
InOrder ==
  [][\A s \in Sides : \A p \in flight[s] :
       deliver(s, p) =>
         \A q \in flight'[s] :
           q.joins = p.joins /\ p.n <= until[s][q.session] => q.n >= p.n]_vars

\* While both sides have the same members, a flow takes the same one in both
\* directions, whatever its packets.
BothWays ==
  Ring("client") = Ring("server") /\ Ring("client") # {} =>
    \A m \in 1..MaxPackets, n \in 1..MaxPackets :
      Get(Ring("client"), Key("client", flow, m)) = Get(Ring("server"), Key("server", flow, n))

=============================================================================
