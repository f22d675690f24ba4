-------------------------- MODULE SchedulerProofs --------------------------
(***************************************************************************)
(* What TLAPS proves of Scheduler, for all flows and bounds: its types,    *)
(* that a flow takes the same member both ways, and that its packets are   *)
(* delivered in order, up to registrations and to the end of the member    *)
(* that carries them.                                                      *)
(*                                                                         *)
(* The last needs to know where packets are.  The key does not depend on   *)
(* the packet (OneKey), and a member that leaves moves no key of another   *)
(* (GetAfterLeave).  So as long as nothing is registered, a packet that is *)
(* still under way over a member is where the next one goes (AtHome), and  *)
(* an earlier packet is on another session than a later one only if its    *)
(* session had left the table before the later one was sent (Passed).      *)
(***************************************************************************)
EXTENDS Scheduler, WellFoundedInduction, TLAPS

FlowKey(s) == Key(s, flow, 1)

\* No packet is ahead of its side's counters.
NotAhead ==
  \A s \in Sides : \A p \in flight[s] :
    p.n <= sent[s] /\ p.joins <= joins[s] /\ p.session <= joins[s]

\* A session is under one convid, and none is from the future.
Members ==
  \A s \in Sides, c \in Convids :
    /\ connections[s][c] <= joins[s]
    /\ \A d \in Ring(s) : connections[s][c] = connections[s][d] => c = d

\* A session that has left the table did so with what had been sent by then.
Departures ==
  \A s \in Sides, j \in Sessions :
    IF j <= joins[s] /\ \A c \in Convids : connections[s][c] # j
    THEN until[s][j] <= sent[s]
    ELSE until[s][j] = MaxPackets

AtHome ==
  \A s \in Sides, c \in Convids : \A p \in flight[s] :
    p.joins = joins[s] /\ connections[s][c] = p.session
      => c = Get(Ring(s), FlowKey(s))

Passed ==
  \A s \in Sides : \A p, q \in flight[s] :
    p.session # q.session /\ p.joins = q.joins /\ q.n < p.n
      => until[s][q.session] < p.n

IInv == TypeOK /\ NotAhead /\ Members /\ Departures /\ AtHome /\ Passed

-----------------------------------------------------------------------------
(* Keys.                                                                   *)

\* The answers of a flow have its ports and addresses the other way round.
LEMMA AnswerFields ==
  ASSUME NEW f \in Flow
  PROVE  /\ Answer(f).proto = f.proto
         /\ Answer(f).sport = f.dport /\ Answer(f).dport = f.sport
         /\ Answer(f).src = f.dst /\ Answer(f).dst = f.src
BY DEF Answer, Flow

\* What the key functions read of a packet of the flow.
LEMMA FrameFields ==
  ASSUME NEW f, NEW n
  PROVE  /\ IsTCP(Frame(f, n)) <=> f.proto = TCP
         /\ Frame(f, n).b[20] = f.sport[1] /\ Frame(f, n).b[21] = f.sport[2]
         /\ Frame(f, n).b[22] = f.dport[1] /\ Frame(f, n).b[23] = f.dport[2]
         /\ Frame(f, n).src = f.src /\ Frame(f, n).dst = f.dst
BY DEF Frame, IsTCP

\* Whatever the packet and its direction, a flow has one key.
LEMMA OneKey ==
  ASSUME NEW f \in Flow, NEW s \in Sides, NEW t \in Sides, NEW m, NEW n
  PROVE  Key(s, f, m) = Key(t, f, n)
<1> DEFINE K == IF f.proto = TCP
                THEN <<Hex2(f.sport[1], f.sport[2]), Hex2(f.dport[1], f.dport[2]),
                       <<f.dst>>, <<f.src>>>>
                ELSE <<<<f.dst>>, <<f.src>>>>
<1>1. ASSUME NEW i PROVE ExtractSrc(Frame(f, i)) = K
  BY FrameFields DEF ExtractSrc
<1>2. ASSUME NEW i PROVE ExtractDst(Frame(Answer(f), i)) = K
  BY FrameFields, AnswerFields DEF ExtractDst
<1> HIDE DEF K
<1>3. QED
  BY <1>1, <1>2 DEF Key

\* The key of the flow has a place on the ring.
LEMMA KeyInKeys ==
  ASSUME flow \in Flows, NEW s \in Sides, NEW n \in 1..MaxPackets
  PROVE  FlowKey(s) \in Keys(flow)
<1>1. Key(s, flow, n) \in Keys(flow)
  BY DEF Keys
<1>2. QED
  BY <1>1, OneKey, SchedulerAssumption DEF FlowKey

-----------------------------------------------------------------------------
(* The ring.                                                               *)

\* No two convids are equally far from a key.
LEMMA DistanceInjective ==
  ASSUME NEW k, place[k] \in Convids,
         NEW c \in Convids, NEW d \in Convids
  PROVE  /\ Distance(k, c) \in Nat
         /\ Distance(k, c) = Distance(k, d) => c = d
BY SchedulerAssumption DEF Distance, Convids

\* Get finds a member, and no member is nearer.
LEMMA GetFirst ==
  ASSUME NEW k, place[k] \in Convids, NEW r \in SUBSET Convids, r # {}
  PROVE  /\ Get(r, k) \in r
         /\ \A d \in r : Distance(k, Get(r, k)) <= Distance(k, d)
<1> DEFINE T == {Distance(k, d) : d \in r}
           R == OpToRel(<, Nat)
<1>1. T \subseteq Nat /\ T # {}
  BY DistanceInjective
<1>a. IsWellFoundedOn(R, Nat)
  BY NatLessThanWellFounded
<1>b. \A y, z \in Nat : y < z => <<y, z>> \in R
  BY DEF OpToRel
<1> HIDE DEF R, T
<1>2. PICK x \in T : \A y \in T : ~(<<y, x>> \in R)
  BY <1>1, <1>a, WFMin
<1>3. ASSUME NEW y \in T PROVE x <= y
  <2>1. x \in Nat /\ y \in Nat /\ ~(<<y, x>> \in R)
    BY <1>1, <1>2
  <2>2. ~(y < x)
    BY <2>1, <1>b, Zenon
  <2>3. QED
    BY <2>1, <2>2
<1>4. PICK c \in r : x = Distance(k, c)
  BY <1>2 DEF T
<1>5. \A d \in r : Distance(k, c) <= Distance(k, d)
  BY <1>3, <1>4 DEF T
<1>6. QED
  BY <1>4, <1>5 DEF Get

\* A member that leaves moves no key of another member.
LEMMA GetAfterLeave ==
  ASSUME NEW k, place[k] \in Convids, NEW r \in SUBSET Convids,
         NEW c, Get(r, k) # c, r # {}
  PROVE  Get(r \ {c}, k) = Get(r, k)
<1> DEFINE g == Get(r, k)
           h == Get(r \ {c}, k)
<1>1. g \in r /\ \A d \in r : Distance(k, g) <= Distance(k, d)
  BY GetFirst
<1>2. h \in r \ {c} /\ \A d \in r \ {c} : Distance(k, h) <= Distance(k, d)
  <2>1. r \ {c} \in SUBSET Convids /\ r \ {c} # {}
    BY <1>1
  <2>2. QED
    BY <2>1, GetFirst
<1>3. Distance(k, g) <= Distance(k, h) /\ Distance(k, h) <= Distance(k, g)
  BY <1>1, <1>2
<1>4. g \in Convids /\ h \in Convids
  BY <1>1, <1>2
<1> HIDE DEF g, h
<1>5. QED
  <2>1. Distance(k, g) = Distance(k, h)
    BY <1>3, <1>4, DistanceInjective
  <2>2. g = h
    BY <2>1, <1>4, DistanceInjective
  <2>3. QED
    BY <2>2 DEF g, h

-----------------------------------------------------------------------------
(* The invariant.                                                          *)

\* The fields of what is under way, and the counters, are numbers.
LEMMA Numbers ==
  ASSUME TypeOK, NEW s \in Sides
  PROVE  /\ joins[s] \in 0..MaxJoins /\ sent[s] \in 0..MaxPackets
         /\ MaxJoins \in Nat /\ MaxPackets \in Nat
         /\ Ring(s) \in SUBSET Convids
         /\ \A c \in Convids : connections[s][c] \in 0..MaxJoins
         /\ \A j \in Sessions : until[s][j] \in 0..MaxPackets
         /\ \A p \in flight[s] : /\ p \in Packet
                                 /\ p.n \in 1..MaxPackets
                                 /\ p.session \in Sessions
                                 /\ p.joins \in 0..MaxJoins
BY SchedulerAssumption DEF TypeOK, Packet, Ring

\* The member to which a side with the key k sends does not change while its
\* table and the places do not.
LEMMA SameGet ==
  ASSUME NEW s \in Sides, flow' = flow, place' = place,
         connections'[s] = connections[s]
  PROVE  /\ Ring(s)' = Ring(s)
         /\ Get(Ring(s), FlowKey(s))' = Get(Ring(s), FlowKey(s))
<1>1. Ring(s)' = Ring(s)
  BY DEF Ring
<1> QED BY <1>1 DEF Get, Distance, FlowKey

\* Where send sends to.
LEMMA Chosen ==
  ASSUME TypeOK, NEW s \in Sides, Ring(s) # {}, sent[s] + 1 <= MaxPackets
  PROVE  /\ Get(Ring(s), Key(s, flow, sent[s] + 1)) = Get(Ring(s), FlowKey(s))
         /\ Get(Ring(s), FlowKey(s)) \in Ring(s)
<1>1. flow \in Flow /\ flow \in Flows
  BY SchedulerAssumption DEF TypeOK
<1>2. Key(s, flow, sent[s] + 1) = FlowKey(s)
  BY <1>1, OneKey DEF FlowKey
<1>3. sent[s] + 1 \in 1..MaxPackets
  BY Numbers
<1>4. place[FlowKey(s)] \in Convids
  BY <1>1, <1>3, KeyInKeys DEF TypeOK
<1> QED BY <1>2, <1>4, Numbers, GetFirst

\* A side that has a packet under way has sent one, and its key has a place.
LEMMA QueuedKey ==
  ASSUME TypeOK, NEW s \in Sides, NEW p \in flight[s]
  PROVE  place[FlowKey(s)] \in Convids
<1>1. p.n \in 1..MaxPackets
  BY Numbers
<1>2. FlowKey(s) \in Keys(flow)
  BY <1>1, KeyInKeys DEF TypeOK
<1> QED BY <1>2 DEF TypeOK

\* The start.
LEMMA InitIInv == Init => IInv
<1> SUFFICES ASSUME Init PROVE IInv
  OBVIOUS
<1>1. TypeOK
  BY SchedulerAssumption DEF Init, TypeOK
<1>2. \A s \in Sides :
        /\ flight[s] = {} /\ joins[s] = 0
        /\ \A c \in Convids : connections[s][c] = 0
        /\ \A j \in Sessions : until[s][j] = MaxPackets
  BY DEF Init
<1>3. Members
  BY <1>2 DEF Members, Ring
<1>4. Departures
  <2> SUFFICES ASSUME NEW s \in Sides, NEW j \in Sessions
               PROVE  ~(j <= joins[s]) /\ until[s][j] = MaxPackets
    BY Zenon DEF Departures
  <2>1. j \in Int /\ j >= 1
    BY SchedulerAssumption DEF Sessions
  <2>2. joins[s] = 0 /\ until[s][j] = MaxPackets
    BY <1>2, Zenon
  <2> QED BY <2>1, <2>2
<1> QED BY <1>1, <1>2, <1>3, <1>4 DEF IInv, NotAhead, AtHome, Passed

\* A step that only takes packets away.
LEMMA FewerIInv ==
  ASSUME IInv, UNCHANGED <<flow, place, connections, joins, sent, until>>,
         flight' \in [Sides -> SUBSET Packet],
         \A s \in Sides : flight'[s] \subseteq flight[s]
  PROVE  IInv'
<1>1. TypeOK'
  BY DEF IInv, TypeOK
<1>2. NotAhead' /\ Passed'
  BY DEF IInv, NotAhead, Passed
<1>3. Members' /\ Departures'
  BY DEF IInv, Members, Departures, Ring
<1>4. AtHome'
  <2> SUFFICES ASSUME NEW s \in Sides, NEW c \in Convids, NEW p \in flight'[s],
                      p.joins = joins[s], connections[s][c] = p.session
               PROVE  c = Get(Ring(s), FlowKey(s))'
    BY DEF AtHome
  <2>1. c = Get(Ring(s), FlowKey(s))
    BY DEF IInv, AtHome
  <2> QED BY <2>1, SameGet
<1> QED BY <1>1, <1>2, <1>3, <1>4 DEF IInv

\* A delivery, and the end of the peer's session.
LEMMA DeliverIInv ==
  ASSUME IInv, NEW s \in Sides,
         \/ \E p \in flight[s] : deliver(s, p)
         \/ \E j \in Sessions : peer_closes(s, j)
  PROVE  IInv'
<1>1. \E X \in SUBSET flight[s] : flight' = [flight EXCEPT ![s] = X]
  BY DEF deliver, peer_closes, IInv, TypeOK
<1>2. UNCHANGED <<flow, place, connections, joins, sent, until>>
  BY DEF deliver, peer_closes
<1>3. flight \in [Sides -> SUBSET Packet]
  BY DEF IInv, TypeOK
<1>4. /\ flight' \in [Sides -> SUBSET Packet]
      /\ \A t \in Sides : flight'[t] \subseteq flight[t]
  BY <1>1, <1>3
<1> QED BY <1>2, <1>4, FewerIInv

\* The session of c leaves the table of s, and v takes its place: nothing, or
\* the next session.
Replaced(s, c, v) ==
  /\ Leaves(s, c) /\ sent' = sent
  /\ connections' = [connections EXCEPT ![s][c] = v]
  /\ \/ v = 0 /\ joins' = joins
     \/ v = joins[s] + 1 /\ joins' = [joins EXCEPT ![s] = v]

\* What that does to the table and to the departures.
Departed(s, c, v) ==
  /\ connections' \in [Sides -> [Convids -> 0..MaxJoins]]
  /\ joins' \in [Sides -> 0..MaxJoins]
  /\ until' \in [Sides -> [Sessions -> 0..MaxPackets]]
  /\ \A t \in Sides : joins[t] <= joins'[t]
  /\ \A t \in Sides, j \in Sessions : until'[t][j] <= until[t][j]
  /\ \A t \in Sides, d \in Convids :
       connections'[t][d] = IF t = s /\ d = c THEN v ELSE connections[t][d]
  /\ Members' /\ Departures'

LEMMA DepartIInv ==
  ASSUME IInv, NEW s \in Sides, NEW c \in Convids, NEW v \in 0..MaxJoins,
         Replaced(s, c, v)
  PROVE  Departed(s, c, v)
<1> USE DEF Replaced
<1>0. TypeOK
  BY DEF IInv
<1>1. /\ connections' \in [Sides -> [Convids -> 0..MaxJoins]]
      /\ \A t \in Sides, d \in Convids :
           connections'[t][d] = IF t = s /\ d = c THEN v ELSE connections[t][d]
  BY <1>0 DEF TypeOK
<1>2. \A t \in Sides, j \in Sessions :
        until'[t][j] = IF t = s /\ j = connections[s][c] THEN sent[s]
                       ELSE until[t][j]
  BY <1>0 DEF Leaves, TypeOK
<1>3. until' \in [Sides -> [Sessions -> 0..MaxPackets]]
  <2>1. [j \in Sessions |-> IF j = connections[s][c] THEN sent[s] ELSE until[s][j]]
          \in [Sessions -> 0..MaxPackets]
    BY <1>0 DEF TypeOK
  <2> QED BY <1>0, <2>1 DEF Leaves, TypeOK
<1>4. /\ joins' \in [Sides -> 0..MaxJoins]
      /\ \A t \in Sides : joins'[t] = IF t = s /\ v # 0 THEN v ELSE joins[t]
  BY <1>0, Numbers DEF TypeOK
<1>5. \A t \in Sides : joins[t] <= joins'[t]
  BY <1>0, <1>4, Numbers
<1>6. \A t \in Sides, j \in Sessions : until'[t][j] <= until[t][j]
  <2> SUFFICES ASSUME NEW t \in Sides, NEW j \in Sessions
               PROVE  until'[t][j] <= until[t][j]
    OBVIOUS
  <2>1. CASE t = s /\ j = connections[s][c]
    <3>1. until[t][j] = MaxPackets
      BY <2>1 DEF IInv, Departures
    <3> QED BY <1>0, <1>2, <2>1, <3>1, Numbers
  <2>2. CASE ~(t = s /\ j = connections[s][c])
    BY <1>0, <1>2, <2>2, Numbers
  <2> QED BY <2>1, <2>2
<1>7. Members'
  <2> SUFFICES ASSUME NEW t \in Sides, NEW d \in Convids
               PROVE  /\ connections'[t][d] <= joins'[t]
                      /\ \A e \in Convids :
                           connections'[t][e] # 0
                             /\ connections'[t][d] = connections'[t][e] => d = e
    BY DEF Members, Ring
  <2>1. /\ connections[t][d] \in 0..MaxJoins /\ connections[t][d] <= joins[t]
        /\ joins[t] \in Nat /\ joins'[t] \in Nat
        /\ \A e \in Convids :
             /\ connections[t][e] \in 0..MaxJoins /\ connections[t][e] <= joins[t]
             /\ connections[t][e] # 0 /\ connections[t][d] = connections[t][e] => d = e
    BY <1>0, <1>4, Numbers DEF IInv, Members, Ring
  <2>2. connections'[t][d] <= joins'[t]
    BY <1>1, <1>4, <1>5, <2>1
  <2>3. ASSUME NEW e \in Convids, connections'[t][e] # 0,
               connections'[t][d] = connections'[t][e], d # e
        PROVE  FALSE
    BY <1>1, <2>1, <2>3
  <2> QED BY <2>2, <2>3
<1>8. Departures'
  <2> SUFFICES ASSUME NEW t \in Sides, NEW j \in Sessions
               PROVE  IF j <= joins'[t] /\ \A d \in Convids : connections'[t][d] # j
                      THEN until'[t][j] <= sent[t]
                      ELSE until'[t][j] = MaxPackets
    BY DEF Departures
  <2>0. IF j <= joins[t] /\ \A d \in Convids : connections[t][d] # j
        THEN until[t][j] <= sent[t]
        ELSE until[t][j] = MaxPackets
    BY DEF IInv, Departures
  <2>a. /\ j \in Nat /\ j # 0 /\ j <= MaxJoins /\ sent[t] \in Nat
        /\ joins[t] \in Nat /\ until[t][j] \in Nat
    BY <1>0, Numbers DEF Sessions
  <2>1. CASE t # s
    BY <1>1, <1>2, <1>4, <2>0, <2>1
  <2>2. CASE t = s /\ j = connections[s][c]
    <3>1. j <= joins[s]
      BY <2>2 DEF IInv, Members
    <3>2. v # j
      BY <2>2, <2>a, <3>1
    <3>3. \A d \in Convids : connections'[t][d] # j
      <4> SUFFICES ASSUME NEW d \in Convids, connections'[t][d] = j PROVE FALSE
        OBVIOUS
      <4>1. d # c /\ connections[t][d] = j
        BY <1>1, <2>2, <3>2
      <4>2. c \in Ring(s)
        BY <2>2, <2>a DEF Ring
      <4> QED BY <2>2, <4>1, <4>2 DEF IInv, Members
    <3>4. until'[t][j] = sent[t]
      BY <1>2, <2>2
    <3>5. j <= joins'[t]
      BY <1>4, <1>5, <2>2, <2>a, <3>1
    <3>6. until'[t][j] <= sent[t]
      BY <2>a, <3>4
    <3> QED BY <3>3, <3>5, <3>6, Zenon
  <2>3. CASE t = s /\ j # connections[s][c]
    <3>1. until'[t][j] = until[t][j]
      BY <1>2, <2>3
    <3>2. CASE v # 0 /\ j = v
      <4>1. joins[t] + 1 = j /\ connections'[t][c] = j
        BY <1>1, <2>3, <3>2
      <4>3. until[t][j] = MaxPackets
        BY <2>0, <2>a, <4>1
      <4> QED BY <3>1, <4>1, <4>3
    <3>3. CASE v = 0 \/ j # v
      <4>1. (\A d \in Convids : connections'[t][d] # j)
              <=> (\A d \in Convids : connections[t][d] # j)
        BY <1>1, <2>3, <2>a, <3>3
      <4>2. j <= joins'[t] <=> j <= joins[t]
        BY <1>4, <2>3, <2>a, <3>3
      <4> QED BY <2>0, <3>1, <4>1, <4>2
    <3> QED BY <3>2, <3>3
  <2> QED BY <2>1, <2>2, <2>3
<1> QED BY <1>1, <1>3, <1>4, <1>5, <1>6, <1>7, <1>8 DEF Departed

\* The earlier of two packets stays where it is while sessions only leave.
LEMMA KeepPassed ==
  ASSUME TypeOK, Passed, until' \in [Sides -> [Sessions -> 0..MaxPackets]],
         \A t \in Sides : flight'[t] \subseteq flight[t],
         \A t \in Sides, j \in Sessions : until'[t][j] <= until[t][j]
  PROVE  Passed'
<1> SUFFICES ASSUME NEW t \in Sides, NEW p \in flight'[t], NEW q \in flight'[t],
                    p.session # q.session, p.joins = q.joins, q.n < p.n
             PROVE  until'[t][q.session] < p.n
  BY DEF Passed
<1>1. p \in flight[t] /\ q \in flight[t]
  OBVIOUS
<1>2. until[t][q.session] < p.n
  BY <1>1 DEF Passed
<1>3. /\ q.session \in Sessions /\ p.n \in Int
      /\ until[t][q.session] \in Int /\ until'[t][q.session] \in Int
  BY <1>1, Numbers
<1> QED BY <1>2, <1>3

\* A registration.
LEMMA JoinIInv ==
  ASSUME IInv, NEW s \in Sides, NEW c \in Convids, join(s, c)
  PROVE  IInv'
<1> DEFINE v == joins[s] + 1
<1>0. TypeOK
  BY DEF IInv
<1>1. /\ v \in 0..MaxJoins /\ Leaves(s, c) /\ sent' = sent
      /\ connections' = [connections EXCEPT ![s][c] = v]
      /\ joins' = [joins EXCEPT ![s] = v]
      /\ flow' = flow /\ place' = place /\ flight' = flight
  BY <1>0, Numbers DEF join
<1>2. /\ joins'[s] = v /\ \A t \in Sides : t # s => joins'[t] = joins[t]
  BY <1>0, <1>1 DEF TypeOK
<1> HIDE DEF v
<1>3. /\ connections' \in [Sides -> [Convids -> 0..MaxJoins]]
      /\ joins' \in [Sides -> 0..MaxJoins]
      /\ until' \in [Sides -> [Sessions -> 0..MaxPackets]]
      /\ \A t \in Sides : joins[t] <= joins'[t]
      /\ \A t \in Sides, j \in Sessions : until'[t][j] <= until[t][j]
      /\ \A t \in Sides, d \in Convids :
           connections'[t][d] = IF t = s /\ d = c THEN v ELSE connections[t][d]
      /\ Members' /\ Departures'
  <2>1. Replaced(s, c, v)
    BY <1>1 DEF v, Replaced
  <2>2. Departed(s, c, v)
    BY <1>1, <2>1, DepartIInv
  <2> QED BY <2>2 DEF Departed
<1>4. TypeOK'
  BY <1>0, <1>1, <1>3 DEF TypeOK
<1>5. NotAhead'
  <2> SUFFICES ASSUME NEW t \in Sides, NEW p \in flight[t]
               PROVE  p.n <= sent[t] /\ p.joins <= joins'[t] /\ p.session <= joins'[t]
    BY <1>1 DEF NotAhead
  <2>1. p.n <= sent[t] /\ p.joins <= joins[t] /\ p.session <= joins[t]
    BY DEF IInv, NotAhead
  <2>2. /\ joins[t] \in Int /\ joins'[t] \in Int /\ p.joins \in Int /\ p.session \in Int
        /\ joins[t] <= joins'[t]
    BY <1>0, <1>3, Numbers DEF Sessions
  <2> QED BY <2>1, <2>2
<1>6. AtHome'
  <2> SUFFICES ASSUME NEW t \in Sides, NEW d \in Convids, NEW p \in flight[t],
                      p.joins = joins'[t], connections'[t][d] = p.session
               PROVE  d = Get(Ring(t), FlowKey(t))'
    BY <1>1 DEF AtHome
  <2>1. t # s
    <3>1. p.joins \in Int /\ joins[t] \in Int /\ p.joins <= joins[t]
      BY <1>0, Numbers DEF IInv, NotAhead
    <3> QED BY <1>2, <3>1 DEF v
  <2>2. connections'[t] = connections[t] /\ joins'[t] = joins[t]
    BY <1>0, <1>1, <1>2, <2>1 DEF TypeOK
  <2>3. d = Get(Ring(t), FlowKey(t))
    BY <2>2 DEF IInv, AtHome
  <2> QED BY <1>1, <2>2, <2>3, SameGet
<1>7. Passed'
  <2>1. Passed /\ \A t \in Sides : flight'[t] \subseteq flight[t]
    BY <1>1 DEF IInv
  <2> QED BY <1>0, <1>3, <2>1, KeepPassed
<1> QED BY <1>3, <1>4, <1>5, <1>6, <1>7 DEF IInv

\* A member closes.
LEMMA LeaveIInv ==
  ASSUME IInv, NEW s \in Sides, NEW c \in Convids, leave(s, c)
  PROVE  IInv'
<1>0. TypeOK
  BY DEF IInv
<1>1. /\ Leaves(s, c) /\ sent' = sent /\ joins' = joins
      /\ connections' = [connections EXCEPT ![s][c] = 0]
      /\ flow' = flow /\ place' = place /\ c \in Ring(s)
      /\ 0 \in 0..MaxJoins
  BY SchedulerAssumption DEF leave
<1>2. /\ flight' \in [Sides -> SUBSET Packet]
      /\ \A t \in Sides : flight'[t] \subseteq flight[t]
  <2>1. \E X \in SUBSET flight[s] : flight' = [flight EXCEPT ![s] = X]
    BY DEF leave
  <2> QED BY <1>0, <2>1 DEF TypeOK
<1>3. /\ connections' \in [Sides -> [Convids -> 0..MaxJoins]]
      /\ until' \in [Sides -> [Sessions -> 0..MaxPackets]]
      /\ \A t \in Sides, j \in Sessions : until'[t][j] <= until[t][j]
      /\ \A t \in Sides, d \in Convids :
           connections'[t][d] = IF t = s /\ d = c THEN 0 ELSE connections[t][d]
      /\ Members' /\ Departures'
  <2>1. Replaced(s, c, 0)
    BY <1>1 DEF Replaced
  <2>2. Departed(s, c, 0)
    BY <1>1, <2>1, DepartIInv
  <2> QED BY <2>2 DEF Departed
<1>4. TypeOK'
  BY <1>0, <1>1, <1>2, <1>3 DEF TypeOK
<1>5. NotAhead'
  BY <1>1, <1>2 DEF IInv, NotAhead
<1>6. AtHome'
  <2> SUFFICES ASSUME NEW t \in Sides, NEW d \in Convids, NEW p \in flight'[t],
                      p.joins = joins[t], connections'[t][d] = p.session
               PROVE  d = Get(Ring(t), FlowKey(t))'
    BY <1>1 DEF AtHome
  <2>1. p \in flight[t] /\ p.session # 0
    BY <1>0, <1>2, Numbers DEF Sessions
  <2>2. CASE t # s
    <3>1. connections'[t] = connections[t]
      BY <1>0, <1>1, <2>2 DEF TypeOK
    <3>2. d = Get(Ring(t), FlowKey(t))
      BY <2>1, <3>1 DEF IInv, AtHome
    <3> QED BY <1>1, <3>1, <3>2, SameGet
  <2>3. CASE t = s
    <3>1. d # c /\ connections[t][d] = p.session
      BY <1>3, <2>1, <2>3
    <3>2. d = Get(Ring(t), FlowKey(t))
      BY <2>1, <3>1 DEF IInv, AtHome
    <3>3. Ring(t)' = Ring(t) \ {c}
      BY <1>3, <2>3 DEF Ring
    <3>4. place[FlowKey(t)] \in Convids
      BY <1>0, <2>1, QueuedKey
    <3>5. Get(Ring(t) \ {c}, FlowKey(t)) = d
      BY <1>0, <1>1, <2>3, <3>1, <3>2, <3>4, Numbers, GetAfterLeave
    <3>6. Get(Ring(t), FlowKey(t))' = Get(Ring(t) \ {c}, FlowKey(t))
      BY <1>1, <3>3 DEF Get, Distance, FlowKey
    <3> QED BY <3>5, <3>6
  <2> QED BY <2>2, <2>3
<1>7. Passed'
  BY <1>0, <1>2, <1>3, KeepPassed DEF IInv
<1> QED BY <1>3, <1>4, <1>5, <1>6, <1>7 DEF IInv

\* A packet of the flow is sent.
LEMMA SendIInv ==
  ASSUME IInv, NEW s \in Sides, send(s)
  PROVE  IInv'
<1> DEFINE n == sent[s] + 1
           c == Get(Ring(s), FlowKey(s))
           new == [n |-> n, session |-> connections[s][c], joins |-> joins[s]]
<1>0. TypeOK
  BY DEF IInv
<1>1. /\ n <= MaxPackets /\ sent' = [sent EXCEPT ![s] = n]
      /\ flow' = flow /\ place' = place /\ connections' = connections
      /\ joins' = joins /\ until' = until
  BY DEF send
<1>2. n \in 1..MaxPackets /\ n \in Int /\ sent[s] < n
  BY <1>0, <1>1, Numbers
<1>3. /\ sent' \in [Sides -> 0..MaxPackets]
      /\ \A t \in Sides : sent[t] <= sent'[t]
      /\ sent'[s] = n
  <2>1. sent'[s] = n /\ \A t \in Sides : t # s => sent'[t] = sent[t]
    BY <1>0, <1>1 DEF TypeOK
  <2>2. n \in 0..MaxPackets
    BY <1>2
  <2>3. sent' \in [Sides -> 0..MaxPackets]
    BY <1>0, <1>1, <2>2 DEF TypeOK
  <2>4. ASSUME NEW t \in Sides PROVE sent[t] <= sent'[t]
    BY <1>0, <1>2, <2>1, Numbers
  <2> QED BY <2>1, <2>3, <2>4
<1> HIDE DEF n
<1>4. Members' /\ Departures'
  <2>1. Members'
    BY <1>1 DEF IInv, Members, Ring
  <2>2. Departures'
    <3> SUFFICES ASSUME NEW t \in Sides, NEW j \in Sessions
                 PROVE  IF j <= joins[t] /\ \A d \in Convids : connections[t][d] # j
                        THEN until[t][j] <= sent'[t]
                        ELSE until[t][j] = MaxPackets
      BY <1>1, Zenon DEF Departures
    <3>1. IF j <= joins[t] /\ \A d \in Convids : connections[t][d] # j
          THEN until[t][j] <= sent[t]
          ELSE until[t][j] = MaxPackets
      BY DEF IInv, Departures
    <3>2. /\ until[t][j] \in Int /\ sent[t] \in Int /\ sent'[t] \in Int
          /\ sent[t] <= sent'[t]
      BY <1>0, <1>3, Numbers
    <3>3. until[t][j] <= sent[t] => until[t][j] <= sent'[t]
      BY <3>2
    <3> QED BY <3>1, <3>3, Zenon
  <2> QED BY <2>1, <2>2
<1>5. \A t \in Sides : \A p \in flight[t] :
        p.n <= sent'[t] /\ p.joins <= joins[t] /\ p.session <= joins[t]
  <2> SUFFICES ASSUME NEW t \in Sides, NEW p \in flight[t]
               PROVE  p.n <= sent'[t] /\ p.joins <= joins[t] /\ p.session <= joins[t]
    OBVIOUS
  <2>1. p.n <= sent[t] /\ p.joins <= joins[t] /\ p.session <= joins[t]
    BY DEF IInv, NotAhead
  <2>2. p.n \in Int /\ sent[t] \in Int /\ sent'[t] \in Int /\ sent[t] <= sent'[t]
    BY <1>0, <1>3, Numbers
  <2> QED BY <2>1, <2>2
<1>6. \A t \in Sides : /\ Ring(t)' = Ring(t)
                       /\ Get(Ring(t), FlowKey(t))' = Get(Ring(t), FlowKey(t))
  BY <1>1, SameGet
<1>7. CASE Ring(s) = {}
  <2>1. flight' = flight
    BY <1>7 DEF send
  <2>2. TypeOK'
    BY <1>0, <1>1, <1>3, <2>1 DEF TypeOK
  <2>3. NotAhead'
    BY <1>1, <1>5, <2>1 DEF NotAhead
  <2>4. AtHome'
    BY <1>1, <1>6, <2>1, Zenon DEF IInv, AtHome
  <2>5. Passed'
    BY <1>1, <2>1 DEF IInv, Passed
  <2> QED BY <1>4, <2>2, <2>3, <2>4, <2>5 DEF IInv
<1>8. CASE Ring(s) # {}
  <2>1. c \in Ring(s) /\ c \in Convids
        /\ Get(Ring(s), Key(s, flow, n)) = c
    BY <1>0, <1>1, <1>8, Chosen, Numbers DEF n
  <2>2. flight' = [flight EXCEPT ![s] = flight[s] \cup {new}]
    BY <1>8, <2>1 DEF send, n
  <2>3. /\ flight'[s] = flight[s] \cup {new}
        /\ \A t \in Sides : t # s => flight'[t] = flight[t]
    BY <1>0, <2>2 DEF TypeOK
  <2>4. /\ connections[s][c] \in Sessions /\ connections[s][c] <= joins[s]
        /\ joins[s] \in 0..MaxJoins
    <3> HIDE DEF c
    <3>1. /\ connections[s][c] \in 0..MaxJoins /\ connections[s][c] # 0
          /\ joins[s] \in 0..MaxJoins
      BY <1>0, <2>1, Numbers DEF Ring
    <3>2. connections[s][c] \in Sessions
      BY <3>1 DEF Sessions
    <3>3. connections[s][c] <= joins[s]
      BY <2>1 DEF IInv, Members
    <3> QED BY <3>1, <3>2, <3>3
  <2>5. /\ new \in Packet /\ new.n = n /\ new.session = connections[s][c]
        /\ new.joins = joins[s]
    BY <1>2, <2>4 DEF Packet
  <2> HIDE DEF new
  <2>6. TypeOK'
    <3>1. flight' \in [Sides -> SUBSET Packet]
      BY <1>0, <2>2, <2>5 DEF TypeOK
    <3> QED BY <1>0, <1>1, <1>3, <3>1 DEF TypeOK
  <2>7. NotAhead'
    <3>1. /\ new.n <= sent'[s] /\ new.joins <= joins[s] /\ new.session <= joins[s]
      BY <1>2, <1>3, <2>4, <2>5
    <3> QED BY <1>1, <1>5, <2>3, <3>1, Zenon DEF NotAhead
  <2> HIDE DEF c
  <2>8. AtHome'
    <3> SUFFICES ASSUME NEW t \in Sides, NEW d \in Convids, NEW p \in flight'[t],
                        p.joins = joins[t], connections[t][d] = p.session
                 PROVE  d = Get(Ring(t), FlowKey(t))
      BY <1>1, <1>6, Zenon DEF AtHome
    <3>1. CASE p \in flight[t]
      BY <3>1 DEF IInv, AtHome
    <3>2. CASE t = s /\ p = new
      <4>1. connections[s][d] = connections[s][c]
        BY <2>5, <3>2
      <4>2. d = c
        BY <2>1, <4>1 DEF IInv, Members
      <4> QED BY <3>2, <4>2 DEF c
    <3> QED BY <2>3, <3>1, <3>2
  <2>9. Passed'
    <3> SUFFICES ASSUME NEW t \in Sides, NEW p \in flight'[t], NEW q \in flight'[t],
                        p.session # q.session, p.joins = q.joins, q.n < p.n
                 PROVE  until[t][q.session] < p.n
      BY <1>1 DEF Passed
    <3>1. CASE p \in flight[t] /\ q \in flight[t]
      BY <3>1 DEF IInv, Passed
    <3>2. CASE t = s /\ q = new /\ p \in flight[t]
      <4>1. p.n <= sent[s] /\ q.n = n /\ p.n \in Int /\ sent[s] \in Int
        BY <1>0, <2>5, <3>2, Numbers DEF IInv, NotAhead
      <4> QED BY <1>2, <4>1
    <3>3. CASE t = s /\ p = new /\ q \in flight[t]
      <4>1. /\ q.joins = joins[s] /\ q.session # connections[s][c] /\ p.n = n
            /\ q.session \in Sessions /\ q.session <= joins[s]
        BY <1>0, <2>5, <3>3, Numbers DEF IInv, NotAhead
      <4>2. ASSUME NEW d \in Convids, connections[s][d] = q.session PROVE FALSE
        <5>1. d = c
          BY <3>3, <4>1, <4>2 DEF IInv, AtHome, c
        <5> QED BY <4>1, <4>2, <5>1
      <4>3. until[s][q.session] <= sent[s]
        BY <4>1, <4>2, Zenon DEF IInv, Departures
      <4>4. until[s][q.session] \in Int /\ sent[s] \in Int
        BY <1>0, <4>1, Numbers
      <4> QED BY <1>2, <3>3, <4>1, <4>3, <4>4
    <3>4. p \in flight[t] \/ (t = s /\ p = new)
      BY <2>3
    <3>5. q \in flight[t] \/ (t = s /\ q = new)
      BY <2>3
    <3> QED BY <3>1, <3>2, <3>3, <3>4, <3>5
  <2> QED BY <1>4, <2>6, <2>7, <2>8, <2>9 DEF IInv
<1> QED BY <1>7, <1>8

\* Every step.
LEMMA NextIInv == IInv /\ [Next]_vars => IInv'
<1> SUFFICES ASSUME IInv, [Next]_vars PROVE IInv'
  OBVIOUS
<1>1. CASE UNCHANGED vars
  <2>1. /\ UNCHANGED <<flow, place, connections, joins, sent, until>>
        /\ flight' = flight
    BY <1>1 DEF vars
  <2>2. flight \in [Sides -> SUBSET Packet]
    BY DEF IInv, TypeOK
  <2> QED BY <2>1, <2>2, FewerIInv
<1>2. CASE Next
  <2>1. PICK s \in Sides : \/ send(s)
                           \/ \E c \in Convids : join(s, c) \/ leave(s, c)
                           \/ \E p \in flight[s] : deliver(s, p)
                           \/ \E j \in Sessions : peer_closes(s, j)
    BY <1>2 DEF Next
  <2> QED BY <2>1, SendIInv, JoinIInv, LeaveIInv, DeliverIInv
<1> QED BY <1>1, <1>2

\* The invariant holds.
LEMMA Invariance == Spec => []IInv
BY InitIInv, NextIInv, PTL DEF Spec

-----------------------------------------------------------------------------
(* The theorems.                                                           *)

\* The types of the scheduler: in particular that every session and every packet
\* number stays within the bounds that the actions name.
THEOREM TypeCorrect == Spec => []TypeOK
<1>1. IInv => TypeOK
  BY DEF IInv
<1> QED BY <1>1, Invariance, PTL

\* ExtractSrc at the client and ExtractDst at the server put a flow on the same
\* member while the tables agree, for every flow, whatever its packets hold.
THEOREM BothWaysCorrect == Spec => []BothWays
<1>1. TypeOK => BothWays
  <2> SUFFICES ASSUME TypeOK, Ring("client") = Ring("server"),
                      NEW m \in 1..MaxPackets, NEW n \in 1..MaxPackets
               PROVE  Get(Ring("client"), Key("client", flow, m))
                        = Get(Ring("server"), Key("server", flow, n))
    BY DEF BothWays
  <2>1. flow \in Flow
    BY SchedulerAssumption DEF TypeOK
  <2>2. Key("client", flow, m) = Key("server", flow, n)
    BY <2>1, OneKey DEF Sides
  <2> QED BY <2>2
<1> QED BY <1>1, TypeCorrect, PTL

\* What consistent hashing gives a flow, for any number of members, sessions and
\* packets under way: among the packets sent without a registration in between, a
\* later one overtakes an earlier one only if the connection that carries the
\* earlier one had left the table when the later one was sent.
THEOREM InOrderCorrect == Spec => InOrder
<1> DEFINE Step ==
      \A s \in Sides : \A p \in flight[s] :
        deliver(s, p) =>
          \A q \in flight'[s] :
            q.joins = p.joins /\ p.n <= until[s][q.session] => q.n >= p.n
<1>1. IInv => Step
  <2> SUFFICES ASSUME IInv, NEW s \in Sides, NEW p \in flight[s], deliver(s, p),
                      NEW q \in flight'[s], q.joins = p.joins,
                      p.n <= until[s][q.session]
               PROVE  q.n >= p.n
    OBVIOUS
  <2>0. TypeOK
    BY DEF IInv
  <2>1. q \in flight[s]
    BY <2>0 DEF deliver, TypeOK
  <2>2. CASE q.session = p.session
    BY <2>1, <2>2 DEF deliver
  <2>3. CASE q.session # p.session
    <3>1. q.n < p.n => until[s][q.session] < p.n
      BY <2>1, <2>3 DEF IInv, Passed
    <3>2. q.n \in Int /\ p.n \in Int /\ until[s][q.session] \in Int
      BY <2>0, <2>1, Numbers
    <3> QED BY <3>1, <3>2
  <2> QED BY <2>2, <2>3
<1>2. IInv => [Step]_vars
  BY <1>1
<1> QED BY <1>2, Invariance, PTL DEF InOrder

=============================================================================
