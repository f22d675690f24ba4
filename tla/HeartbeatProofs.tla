-------------------------- MODULE HeartbeatProofs --------------------------
(***************************************************************************)
(* Proofs about Heartbeat, for every period, limit and delay that fits     *)
(* HeartbeatAssumption; the program's values in ticks of 10 ms (200, 1500, *)
(* 500, 500) do, with delays up to a second and any MaxStall.              *)
(***************************************************************************)
EXTENDS Heartbeat, TLAPS

-----------------------------------------------------------------------------
(* The loop counter.                                                       *)

\* The assumptions one by one.
LEMMA Constants ==
  /\ PingEvery \in Nat /\ Recycle \in Nat /\ MaxHello \in Nat
  /\ ReadDeadline \in Nat /\ g_client_max_rxtimeouts \in Nat
  /\ MaxStall \in Nat /\ MaxDelay \in Nat /\ TenSeconds \in Nat
  /\ PingEvery > 0 /\ PingEvery < Recycle
BY HeartbeatAssumption

\* Division with remainder.
LEMMA Divide ==
  ASSUME NEW n \in Nat, NEW p \in Nat, p > 0
  PROVE  /\ n \div p \in Nat
         /\ n % p \in 0..(p - 1)
         /\ n = (p * (n \div p)) + (n % p)
BY Z3

\* The remainder is unique.
LEMMA Remainder ==
  ASSUME NEW q \in Nat, NEW p \in Nat, NEW r \in 0..(p - 1)
  PROVE  ((p * q) + r) % p = r
BY Z3

\* The remainder of the next number, unless it is a multiple.
LEMMA NextRemainder ==
  ASSUME NEW n \in Nat, NEW p \in Nat, p > 0, (n + 1) % p # 0
  PROVE  (n + 1) % p = (n % p) + 1
<1> DEFINE q == n \div p
           r == n % p
<1>1. q \in Nat /\ r \in 0..(p - 1) /\ n = (p * q) + r
  BY Divide
<1> HIDE DEF q, r
<1>2. CASE r + 1 = p
  <2>1. n + 1 = (p * (q + 1)) + 0 /\ q + 1 \in Nat /\ 0 \in 0..(p - 1)
    BY <1>1, <1>2
  <2>2. (n + 1) % p = 0
    BY <2>1, Remainder
  <2> QED BY <2>2
<1>3. CASE r + 1 # p
  <2>1. n + 1 = (p * q) + (r + 1) /\ r + 1 \in 0..(p - 1)
    BY <1>1, <1>3
  <2>2. (n + 1) % p = r + 1
    BY <1>1, <2>1, Remainder
  <2> QED BY <2>2 DEF r
<1> QED BY <1>2, <1>3

\* Iterations since a loop whose counter is n has last pinged, or would have
\* if it had run before: counters below PingEvery follow a restart at 1.
Elapsed(n) ==
  IF n < PingEvery THEN (Recycle % PingEvery) + n - 1 ELSE n % PingEvery

\* It is less than Gap.
LEMMA ElapsedBound ==
  ASSUME NEW n \in 1..(Recycle - 1)
  PROVE  Elapsed(n) \in 0..(Gap - 1)
<1>1. /\ Recycle % PingEvery \in 1..(PingEvery - 1)
      /\ n % PingEvery \in 0..(PingEvery - 1)
  BY Constants, Divide, HeartbeatAssumption
<1> QED BY <1>1, Constants DEF Elapsed, Gap

LEMMA GapNat == Gap \in Nat
<1>1. Recycle % PingEvery \in 1..(PingEvery - 1)
  BY Constants, Divide, HeartbeatAssumption
<1> QED BY <1>1, Constants DEF Gap

\* An iteration adds one to it, or pings.
LEMMA ElapsedNext ==
  ASSUME NEW n \in 1..(Recycle - 1)
  PROVE  /\ Restart(n + 1) \in 1..(Recycle - 1)
         /\ Elapsed(Restart(n + 1)) =
              IF PingDue(n + 1) THEN 0 ELSE Elapsed(n) + 1
<1>0. n \in Nat /\ n + 1 \in Nat /\ PingEvery \in Nat /\ PingEvery > 0
  BY Constants
<1>1. Recycle % PingEvery \in 1..(PingEvery - 1)
  BY Constants, Divide, HeartbeatAssumption
<1>2. Recycle % Recycle = 0
  <2>1. Recycle = (Recycle * 1) + 0 /\ 0 \in 0..(Recycle - 1)
    BY Constants
  <2> QED BY <2>1, Remainder, Constants
<1>3. CASE n + 1 = Recycle
  <2>1. Restart(n + 1) = 1
    BY <1>2, <1>3 DEF Restart
  <2>2. ~PingDue(n + 1)
    BY <1>1, <1>3 DEF PingDue
  <2>3. (n + 1) % PingEvery = (n % PingEvery) + 1
    BY <1>0, <2>2, NextRemainder DEF PingDue
  <2>4. 1 < PingEvery /\ ~(n < PingEvery)
    BY <1>1, <1>3, Constants
  <2>5. Elapsed(1) = Recycle % PingEvery
    BY <1>1, <2>4 DEF Elapsed
  <2>6. Elapsed(n) = n % PingEvery
    BY <2>4 DEF Elapsed
  <2> QED BY <1>1, <1>3, <2>1, <2>2, <2>3, <2>5, <2>6, Constants
<1>4. CASE n + 1 < Recycle
  <2>1. (n + 1) % Recycle = n + 1
    <3>1. n + 1 = (Recycle * 0) + (n + 1) /\ n + 1 \in 0..(Recycle - 1)
      BY <1>4, Constants
    <3> QED BY <3>1, Remainder, Constants
  <2>2. Restart(n + 1) = n + 1
    BY <2>1 DEF Restart
  <2>3. CASE PingDue(n + 1)
    <3>1. ~(n + 1 < PingEvery)
      <4> SUFFICES ASSUME n + 1 < PingEvery PROVE FALSE
        OBVIOUS
      <4>1. n + 1 = (PingEvery * 0) + (n + 1) /\ n + 1 \in 0..(PingEvery - 1)
        BY Constants
      <4>2. (n + 1) % PingEvery = n + 1
        BY <4>1, Remainder, Constants
      <4> QED BY <2>3, <4>2 DEF PingDue
    <3>2. Elapsed(n + 1) = (n + 1) % PingEvery
      BY <3>1 DEF Elapsed
    <3>3. n + 1 \in 1..(Recycle - 1)
      BY <1>0, <1>4, Constants
    <3> QED BY <2>2, <2>3, <3>2, <3>3 DEF PingDue
  <2>4. CASE ~PingDue(n + 1)
    <3>1. (n + 1) % PingEvery = (n % PingEvery) + 1
      BY <1>0, <2>4, NextRemainder DEF PingDue
    <3>2. n + 1 # PingEvery
      <4>1. PingEvery = (PingEvery * 1) + 0 /\ 0 \in 0..(PingEvery - 1)
        BY Constants
      <4>2. PingEvery % PingEvery = 0
        BY <4>1, Remainder, Constants
      <4> QED BY <2>4, <4>2 DEF PingDue
    <3>3. Elapsed(n + 1) = Elapsed(n) + 1
      BY <1>1, <3>1, <3>2, Constants DEF Elapsed
    <3>4. n + 1 \in 1..(Recycle - 1)
      BY <1>0, <1>4, Constants
    <3> QED BY <2>2, <2>4, <3>3, <3>4
  <2> QED BY <2>3, <2>4
<1> QED BY <1>3, <1>4, Constants

-----------------------------------------------------------------------------
(* Types, ages and counts.                                                 *)

Types ==
  /\ loopcount \in [Ends -> 1..(Recycle - 1)]
  /\ stalled \in 0..MaxStall
  /\ member \in [Ends -> {"no", "yes", "gone"}]
  /\ age \in [Ends -> Nat]
  /\ flight \in [Ends -> 0..MaxDelay \cup {None}]
  /\ up \in BOOLEAN /\ steady \in BOOLEAN /\ late \in BOOLEAN
  /\ rxtimeouts \in Nat
  /\ rxlocal \in Nat

\* Ticks the loop of the end e has lost since its last ping.
Lost(e) == IF e = "client" THEN stalled ELSE 0

\* At its last ping an end that has kept the member found it young enough.
Ages ==
  \A e \in Ends :
    /\ member[e] = "yes" => age[e] <= MaxHello + Elapsed(loopcount[e]) + Lost(e)
    /\ age[e] <= MaxHello + Gap + MaxStall

\* The reader's own count is part of the connection's, and whoever passes the
\* limit is gone.
Counts ==
  /\ member["client"] # "no"
  /\ rxlocal <= rxtimeouts
  /\ rxtimeouts <= g_client_max_rxtimeouts + 1
  /\ member["client"] = "yes" => rxtimeouts <= g_client_max_rxtimeouts

SilentInv == Types /\ Ages /\ Counts

\* The two ends are each other's peer.
LEMMA Peers ==
  /\ Peer("client") = "server" /\ Peer("server") = "client"
  /\ \A e \in Ends : e = "client" \/ e = "server"
  /\ "client" \in Ends /\ "server" \in Ends /\ "client" # "server"
  /\ \A e \in Ends : Peer(e) \in Ends /\ Peer(e) # e
BY DEF Peer, Ends

LEMMA InitSilent == Init => SilentInv
<1> SUFFICES ASSUME Init PROVE SilentInv
  OBVIOUS
<1>1. Types
  <2>1. /\ up \in BOOLEAN /\ steady \in BOOLEAN /\ late \in BOOLEAN
    BY Zenon DEF Init
  <2> QED BY <2>1, Constants, Peers DEF Init, Types, None
<1>2. \A e \in Ends : Elapsed(loopcount[e]) \in 0..(Gap - 1)
  BY <1>1, ElapsedBound DEF Types
<1>3. Ages
  <2>1. \A e \in Ends : age[e] = 0 /\ Lost(e) = 0
    BY DEF Init, Lost
  <2> QED BY <1>2, <2>1, GapNat, Constants DEF Ages
<1>4. Counts
  BY Constants, Peers DEF Init, Counts
<1> QED BY <1>1, <1>3, <1>4 DEF SilentInv

\* No read timeout comes before the deadline.
LEMMA DeadlineAge ==
  ASSUME Types, DeadlinePassed
  PROVE  age["client"] >= ReadDeadline
<1>1. age["client"] = (rxlocal + 1) * ReadDeadline /\ rxlocal \in Nat
  BY DEF DeadlinePassed, Types
<1>2. ASSUME NEW r \in Nat, NEW d \in Nat PROVE (r + 1) * d >= d
  <2>1. (r + 1) * d = r * d + d /\ r * d >= 0
    BY Z3
  <2> QED BY <2>1, Z3
<1> QED BY <1>1, <1>2, Constants

\* Each main loop either loses the tick or runs.
LEMMA TickLoop ==
  ASSUME Types, tick, NEW e \in Ends
  PROVE  /\ loopcount'[e] \in 1..(Recycle - 1)
         /\ Lost(e)' \in 0..MaxStall
         /\ \/ /\ loopcount'[e] = loopcount[e] /\ Lost(e)' = Lost(e) + 1
               /\ member'[e] = member[e]
               /\ flight'[Peer(e)] =
                    IF flight[Peer(e)] = None THEN None
                    ELSE IF up THEN flight[Peer(e)] + 1 ELSE flight[Peer(e)]
            \/ /\ loopcount'[e] = Restart(loopcount[e] + 1)
               /\ Lost(e)' = IF PingDue(loopcount[e] + 1) THEN 0 ELSE Lost(e)
               /\ member'[e] = IF drops(e) THEN "gone" ELSE member[e]
               /\ flight'[Peer(e)] =
                    IF flight[Peer(e)] = None
                    THEN IF sends(e) THEN 0 ELSE None
                    ELSE IF up THEN flight[Peer(e)] + 1 ELSE flight[Peer(e)]
<1>1. PICK lost \in SUBSET Ends : stalls(lost) /\ loops(lost)
  BY DEF tick
<1>2. loopcount[e] \in 1..(Recycle - 1) /\ Restart(loopcount[e] + 1) \in 1..(Recycle - 1)
  BY ElapsedNext DEF Types
<1>3. /\ loopcount'[e] = IF e \in lost THEN loopcount[e]
                         ELSE Restart(loopcount[e] + 1)
      /\ member'[e] = IF e \notin lost /\ drops(e) THEN "gone" ELSE member[e]
  BY <1>1 DEF loops
<1>4. flight'[Peer(e)] =
        IF flight[Peer(e)] # None
        THEN IF up THEN flight[Peer(e)] + 1 ELSE flight[Peer(e)]
        ELSE IF e \notin lost /\ sends(e) THEN 0 ELSE None
  <2>1. Peer(e) \in Ends /\ Peer(Peer(e)) = e
    BY Peers
  <2> QED BY <1>1, <2>1 DEF loops
<1>5. /\ Lost(e)' \in 0..MaxStall
      /\ e \in lost => Lost(e)' = Lost(e) + 1
      /\ e \notin lost =>
           Lost(e)' = IF PingDue(loopcount[e] + 1) THEN 0 ELSE Lost(e)
  BY <1>1, Peers, Constants DEF stalls, Lost, Types
<1> QED BY <1>2, <1>3, <1>4, <1>5

\* Types, ages and counts survive every step.
LEMMA NextSilent == SilentInv /\ [Next]_vars => SilentInv'
<1> SUFFICES ASSUME SilentInv, [Next]_vars PROVE SilentInv'
  OBVIOUS
<1>0. Types /\ Ages /\ Counts
  BY DEF SilentInv
<1>1. \A e \in Ends : Elapsed(loopcount[e]) \in 0..(Gap - 1)
  BY <1>0, ElapsedBound DEF Types
<1>2. \A e \in Ends : Lost(e) \in 0..MaxStall
  BY <1>0, Constants DEF Lost, Types
<1>3. CASE tick
  <2>1. \A e \in Ends : age'[e] = IF member[e] = "yes" THEN age[e] + 1 ELSE 0
    BY <1>3 DEF tick
  <2>2. \A e \in Ends : loopcount'[e] \in 1..(Recycle - 1)
                        /\ member'[e] \in {"no", "yes", "gone"}
                        /\ (member'[e] = member[e] \/ member'[e] = "gone")
    BY <1>0, <1>3, TickLoop DEF Types
  <2>3. stalled' \in 0..MaxStall
    BY <1>0, <1>3, TickLoop, Peers DEF Lost
  <2>4. \A e \in Ends : flight'[e] \in 0..MaxDelay \cup {None}
    <3> SUFFICES ASSUME NEW e \in Ends
                 PROVE  flight'[e] \in 0..MaxDelay \cup {None}
      OBVIOUS
    <3>1. e = Peer(Peer(e)) /\ Peer(e) \in Ends
      BY Peers
    <3>2. up => flight[e] < MaxDelay
      BY <1>3 DEF tick
    <3>3. flight[e] \in 0..MaxDelay \cup {None} /\ None \notin 0..MaxDelay
      BY <1>0, Constants DEF Types, None
    <3> QED BY <1>0, <1>3, <3>1, <3>2, <3>3, TickLoop, Constants
  <2>5. Types'
    <3>1. /\ loopcount' = [e \in Ends |-> loopcount'[e]]
          /\ member' = [e \in Ends |-> member'[e]]
          /\ flight' = [e \in Ends |-> flight'[e]]
          /\ age' = [e \in Ends |-> age'[e]]
          /\ UNCHANGED <<up, steady, rxtimeouts, rxlocal>>
          /\ late' \in BOOLEAN
      BY <1>3 DEF tick, loops, stalls
    <3>2. \A e \in Ends : age'[e] \in Nat
      BY <1>0, <2>1 DEF Types
    <3>3. /\ loopcount' \in [Ends -> 1..(Recycle - 1)]
          /\ member' \in [Ends -> {"no", "yes", "gone"}]
          /\ flight' \in [Ends -> 0..MaxDelay \cup {None}]
          /\ age' \in [Ends -> Nat]
      BY <2>2, <2>4, <3>1, <3>2
    <3> QED BY <1>0, <2>3, <3>1, <3>3 DEF Types
  <2>6. ASSUME NEW e \in Ends
        PROVE  /\ member'[e] = "yes" =>
                    age'[e] <= MaxHello + Elapsed(loopcount'[e]) + Lost(e)'
               /\ age'[e] <= MaxHello + Gap + MaxStall
    <3>1. age[e] \in Nat /\ Lost(e) \in Nat /\ Lost(e)' \in 0..MaxStall
          /\ Elapsed(loopcount[e]) \in 0..(Gap - 1)
          /\ Elapsed(loopcount'[e]) \in 0..(Gap - 1)
      BY <1>0, <1>1, <1>2, <1>3, <2>2, TickLoop, ElapsedBound DEF Types
    <3>2. Gap \in Int
      BY Constants, HeartbeatAssumption DEF Gap
    <3>3. CASE member[e] # "yes"
      BY <2>1, <2>2, <3>1, <3>2, <3>3, Constants
    <3>4. CASE member[e] = "yes"
      <4>1. /\ age'[e] = age[e] + 1
            /\ age[e] <= MaxHello + Elapsed(loopcount[e]) + Lost(e)
        BY <1>0, <2>1, <3>4 DEF Ages
      <4>2. age'[e] <= MaxHello + Gap + MaxStall
        BY <1>2, <3>1, <3>2, <4>1, Constants
      <4>3. CASE loopcount'[e] = loopcount[e] /\ Lost(e)' = Lost(e) + 1
        BY <3>1, <3>2, <4>1, <4>2, <4>3, Constants
      <4>4. CASE /\ loopcount'[e] = Restart(loopcount[e] + 1)
                 /\ Lost(e)' = IF PingDue(loopcount[e] + 1) THEN 0 ELSE Lost(e)
                 /\ member'[e] = IF drops(e) THEN "gone" ELSE member[e]
        <5>1. Elapsed(loopcount'[e]) =
                IF PingDue(loopcount[e] + 1) THEN 0 ELSE Elapsed(loopcount[e]) + 1
          BY <1>0, <4>4, ElapsedNext DEF Types
        <5>2. CASE ~PingDue(loopcount[e] + 1)
          BY <3>1, <3>2, <4>1, <4>2, <4>4, <5>1, <5>2, Constants
        <5>3. CASE PingDue(loopcount[e] + 1)
          <6>1. member'[e] = "yes" => age[e] + 1 <= MaxHello
            BY <3>1, <3>4, <4>4, <5>3, Constants DEF drops, pinging, TooOld
          <6> QED BY <3>1, <4>1, <4>2, <4>4, <5>1, <5>3, <6>1, Constants
        <5> QED BY <5>2, <5>3
      <4> QED BY <1>0, <1>3, <4>3, <4>4, TickLoop
    <3> QED BY <3>3, <3>4
  <2>7. Ages'
    BY <2>6 DEF Ages
  <2>8. Counts'
    <3>1. UNCHANGED <<rxtimeouts, rxlocal>>
      BY <1>3 DEF tick
    <3>2. /\ member'["client"] = member["client"] \/ member'["client"] = "gone"
          /\ member["client"] = "yes" => age'["client"] = age["client"] + 1
          /\ age["client"] \in Nat
      BY <1>0, <2>1, <2>2, Peers DEF Types
    <3> QED BY <1>0, <3>1, <3>2, Constants DEF Counts
  <2> QED BY <2>5, <2>7, <2>8 DEF SilentInv
<1>4. CASE read_timeout
  <2>1. member["client"] = "yes"
    BY <1>4 DEF read_timeout, DeadlinePassed
  <2>2. /\ rxlocal' = rxlocal + 1 /\ rxtimeouts' = rxtimeouts + 1
        /\ UNCHANGED <<loopcount, stalled, age, flight, up, steady, late>>
        /\ \A e \in Ends : member'[e] = member[e] \/ member'[e] = "gone"
        /\ member'["client"] = "yes" => rxtimeouts' <= g_client_max_rxtimeouts
        /\ member' \in [Ends -> {"no", "yes", "gone"}]
    BY <1>0, <1>4, <2>1, Peers, Constants DEF read_timeout, Types
  <2>3. Types'
    BY <1>0, <2>2 DEF Types
  <2>4. Ages'
    BY <1>0, <2>2 DEF Ages, Lost
  <2>5. Counts'
    <3>1. member'["client"] # "no"
      BY <2>1, <2>2, Peers
    <3>2. /\ rxtimeouts \in Nat /\ rxtimeouts <= g_client_max_rxtimeouts
          /\ rxlocal \in Nat /\ rxlocal <= rxtimeouts
      BY <1>0, <2>1 DEF Counts, Types
    <3> QED BY <2>1, <2>2, <3>1, <3>2, Constants DEF Counts
  <2> QED BY <2>3, <2>4, <2>5 DEF SilentInv
<1>5. ASSUME NEW e \in Ends, receive(e) PROVE SilentInv'
  <2>1. /\ UNCHANGED <<loopcount, stalled, up, steady, late, rxtimeouts>>
        /\ rxlocal' = IF e = "client" THEN 0 ELSE rxlocal
        /\ \A f \in Ends : /\ age'[f] = age[f] \/ (f = e /\ age'[f] = 0)
                           /\ member'[f] = member[f]
                              \/ (f = e /\ age'[f] = 0 /\ member[f] = "no")
        /\ member' \in [Ends -> {"no", "yes", "gone"}]
        /\ age' \in [Ends -> Nat]
        /\ flight' \in [Ends -> 0..MaxDelay \cup {None}]
    <3>1. /\ UNCHANGED <<loopcount, stalled, up, steady, late, rxtimeouts>>
          /\ rxlocal' = IF e = "client" THEN 0 ELSE rxlocal
          /\ flight' = [flight EXCEPT ![e] = None]
      BY <1>5 DEF receive
    <3>2. flight' \in [Ends -> 0..MaxDelay \cup {None}]
      BY <1>0, <3>1 DEF Types
    <3>3. /\ age' \in [Ends -> Nat]
          /\ age' = age \/ age' = [age EXCEPT ![e] = 0]
      BY <1>0, <1>5 DEF receive, Types
    <3>4. /\ member' \in [Ends -> {"no", "yes", "gone"}]
          /\ \/ member' = member
             \/ /\ member' = [member EXCEPT ![e] = "yes"] /\ member[e] = "no"
                /\ age' = [age EXCEPT ![e] = 0]
      BY <1>0, <1>5 DEF receive, Types
    <3>5. \A f \in Ends : /\ age'[f] = age[f] \/ (f = e /\ age'[f] = 0)
                          /\ member'[f] = member[f]
                             \/ (f = e /\ age'[f] = 0 /\ member[f] = "no")
      <4> SUFFICES ASSUME NEW f \in Ends
                   PROVE  /\ age'[f] = age[f] \/ (f = e /\ age'[f] = 0)
                          /\ member'[f] = member[f]
                             \/ (f = e /\ age'[f] = 0 /\ member[f] = "no")
        OBVIOUS
      <4>1. age'[f] = age[f] \/ (f = e /\ age'[f] = 0)
        BY <1>0, <3>3 DEF Types
      <4>2. CASE member' = member
        BY <4>1, <4>2
      <4>3. CASE /\ member' = [member EXCEPT ![e] = "yes"] /\ member[e] = "no"
                 /\ age' = [age EXCEPT ![e] = 0]
        BY <1>0, <4>1, <4>3 DEF Types
      <4> QED BY <3>4, <4>2, <4>3
    <3> QED BY <3>1, <3>2, <3>3, <3>4, <3>5
  <2>2. Types'
    BY <1>0, <2>1 DEF Types
  <2>3. Ages'
    <3> SUFFICES ASSUME NEW f \in Ends
                 PROVE  /\ member'[f] = "yes" => age'[f] <=
                             MaxHello + Elapsed(loopcount[f]) + Lost(f)
                        /\ age'[f] <= MaxHello + Gap + MaxStall
      BY <2>1 DEF Ages, Lost
    <3>1. /\ Elapsed(loopcount[f]) \in 0..(Gap - 1) /\ Lost(f) \in Nat
          /\ age[f] \in Nat /\ Gap \in Int
      BY <1>0, <1>1, <1>2, Constants, HeartbeatAssumption DEF Types, Gap
    <3>2. CASE age'[f] = 0
      BY <3>1, <3>2, Constants
    <3>3. CASE age'[f] = age[f] /\ member'[f] = member[f]
      BY <1>0, <3>3 DEF Ages
    <3> QED BY <2>1, <3>2, <3>3
  <2>4. Counts'
    <3>1. CASE e = "client"
      <4>2. rxtimeouts' = rxtimeouts /\ rxlocal' = 0
        BY <2>1, <3>1
      <4>3. member["client"] # "no"
        BY <1>0 DEF Counts
      <4>4. member'["client"] = member["client"]
        BY <2>1, <4>3, Peers
      <4> QED BY <1>0, <4>2, <4>4, Constants DEF Counts, Types
    <3>2. CASE e = "server"
      BY <1>0, <2>1, <3>2, Peers DEF Counts
    <3> QED BY <3>1, <3>2, Peers
  <2> QED BY <2>2, <2>3, <2>4 DEF SilentInv
<1>6. CASE cut
  <2>1. UNCHANGED <<loopcount, stalled, member, age, late, rxtimeouts, rxlocal>>
    BY <1>6 DEF cut
  <2>2. Types'
    <3>1. /\ flight' = [e \in Ends |-> IF flight[e] = None THEN None ELSE 0]
          /\ up' = FALSE /\ steady' = FALSE
      BY <1>6 DEF cut
    <3>2. flight' \in [Ends -> 0..MaxDelay \cup {None}]
      BY <3>1, Constants
    <3> QED BY <1>0, <2>1, <3>1, <3>2 DEF Types
  <2> QED BY <1>0, <2>1, <2>2 DEF SilentInv, Ages, Counts, Lost
<1>7. CASE restore \/ UNCHANGED vars
  BY <1>0, <1>7 DEF restore, vars, SilentInv, Types, Ages, Counts, Lost
<1> QED BY <1>3, <1>4, <1>5, <1>6, <1>7 DEF Next

\* Every variable keeps its type; no age passes the cap and the counts stop
\* at the limit.
THEOREM TypeCorrect == Spec => []TypeOK
<1>1. SilentInv => TypeOK
  <2> SUFFICES ASSUME SilentInv PROVE TypeOK
    OBVIOUS
  <2>1. \A e \in Ends : age[e] \in 0..(MaxHello + Gap + MaxStall)
    BY GapNat, Constants DEF SilentInv, Types, Ages
  <2>2. rxlocal \in 0..(g_client_max_rxtimeouts + 1)
        /\ rxtimeouts \in 0..(g_client_max_rxtimeouts + 1)
    BY Constants DEF SilentInv, Types, Counts
  <2>3. age \in [Ends -> 0..(MaxHello + Gap + MaxStall)]
    BY <2>1 DEF SilentInv, Types
  <2> QED BY <2>2, <2>3 DEF SilentInv, Types, TypeOK
<1> QED BY <1>1, InitSilent, NextSilent, PTL DEF Spec

\* An end that hears nothing has dropped the member after ten seconds, if the
\* age limit, one gap and what the client's loop may lose fit into them: with
\* the program's values, if it loses no more than one LINKDOWN write between
\* two pings.
THEOREM SilentCorrect ==
  ASSUME MaxHello + Gap + MaxStall <= TenSeconds
  PROVE  Spec => []SilentGoneInTime
<1>1. SilentInv => SilentGoneInTime
  BY GapNat, Constants DEF SilentInv, Types, Ages, SilentGoneInTime
<1> QED BY <1>1, InitSilent, NextSilent, PTL DEF Spec

-----------------------------------------------------------------------------
(* A healthy link.                                                         *)

\* The client's loop loses at most Slack, the server's nothing.
MaxLost(e) == IF e = "client" THEN Slack ELSE 0

\* The client waits from the moment it connects, the server from the first
\* hello.
FirstWait(e) == IF e = "client" THEN MaxDelay ELSE 0

\* How long the end e may have waited: since the last ping of the peer, or, if
\* a hello is on its way, for one whole gap and the flight.
Waits(e) ==
  age[e] <= FirstWait(e) + IF flight[e] = None
                           THEN Elapsed(loopcount[Peer(e)]) + Lost(Peer(e))
                           ELSE Gap + MaxLost(Peer(e)) + flight[e]

\* What the two ends may wait and lose fits into the limits.
LEMMA Fits ==
  ASSUME NEW e \in Ends
  PROVE  /\ MaxLost(e) \in Nat /\ FirstWait(e) \in Nat
         /\ FirstWait(e) + MaxLost(Peer(e)) + Gap + MaxDelay <= MaxHello
         /\ FirstWait("client") + MaxLost("server") + Gap + MaxDelay < ReadDeadline
BY HeartbeatAssumption, Constants, GapNat, Peers
DEF MaxLost, FirstWait, Slack

\* Until the server accepts, the first hello is on its way.
Accepting ==
  member["server"] = "no" => /\ flight["server"] # None
                             /\ age["client"] <= flight["server"]

Healthy ==
  steady /\ ~late =>
    /\ up /\ Accepting
    /\ stalled <= Slack
    /\ \A e \in Ends : member[e] # "gone" /\ Waits(e)

HealthyInv == SilentInv /\ Healthy

LEMMA InitHealthy == Init => HealthyInv
<1> SUFFICES ASSUME Init PROVE Healthy
  BY InitSilent DEF HealthyInv
<1>1. SilentInv
  BY InitSilent
<1>2. \A e \in Ends : Elapsed(loopcount[Peer(e)]) \in 0..(Gap - 1)
  BY <1>1, ElapsedBound, Peers DEF SilentInv, Types
<1>3. \A e \in Ends : age[e] = 0 /\ Lost(Peer(e)) = 0 /\ flight[e] \in {0, None}
  BY Peers DEF Init, Lost
<1>4. \A e \in Ends : Waits(e)
  BY <1>2, <1>3, GapNat, Constants, Fits, Peers DEF Waits, None
<1>5. Accepting
  BY Peers DEF Init, Accepting, None
<1>6. stalled <= Slack
  BY HeartbeatAssumption, Constants, GapNat DEF Init, Slack
<1> QED BY <1>4, <1>5, <1>6, Peers DEF Init, Healthy

\* While nothing is late the loops have lost no more than they may.
LEMMA HealthyLost ==
  ASSUME Types, stalled <= Slack, NEW e \in Ends
  PROVE  Lost(e) \in 0..MaxLost(e)
BY Peers, Fits, Constants DEF Lost, MaxLost, Types

\* On a healthy link nothing gets as old as the age limit, and nothing at the
\* client as old as the deadline.
LEMMA HealthyAge ==
  ASSUME HealthyInv, steady, ~late, NEW e \in Ends
  PROVE  /\ e = "client" => age[e] < ReadDeadline
         /\ flight[e] < MaxDelay => ~TooOld(e)
<1>0. /\ Types /\ stalled <= Slack /\ Waits(e)
      /\ Peer(e) \in Ends /\ (e = "client" => Peer(e) = "server")
  BY Peers DEF HealthyInv, SilentInv, Healthy
<1>1. /\ Elapsed(loopcount[Peer(e)]) \in 0..(Gap - 1)
      /\ age[e] \in Nat /\ flight[e] \in 0..MaxDelay \cup {None}
  BY <1>0, ElapsedBound DEF Types
<1>2. /\ Lost(Peer(e)) \in 0..MaxLost(Peer(e)) /\ MaxLost(Peer(e)) \in Nat
      /\ FirstWait(e) \in Nat
      /\ FirstWait(e) + MaxLost(Peer(e)) + Gap + MaxDelay <= MaxHello
      /\ e = "client" =>
           FirstWait(e) + MaxLost(Peer(e)) + Gap + MaxDelay < ReadDeadline
  BY <1>0, HealthyLost, Fits
<1>3. CASE flight[e] = None
  <2>1. age[e] <= FirstWait(e) + Elapsed(loopcount[Peer(e)]) + Lost(Peer(e))
    BY <1>0, <1>1, <1>2, <1>3 DEF Waits
  <2> QED BY <1>1, <1>2, <2>1, GapNat, Constants DEF TooOld
<1>4. CASE flight[e] \in 0..MaxDelay
  <2>1. flight[e] # None
    BY <1>4, Constants DEF None
  <2>2. age[e] <= FirstWait(e) + Gap + MaxLost(Peer(e)) + flight[e]
    BY <1>0, <1>1, <1>2, <1>4, <2>1, GapNat DEF Waits
  <2> QED BY <1>1, <1>2, <1>4, <2>2, GapNat, Constants DEF TooOld
<1> QED BY <1>1, <1>3, <1>4

LEMMA NextHealthy == HealthyInv /\ [Next]_vars => HealthyInv'
<1> SUFFICES ASSUME HealthyInv, [Next]_vars, steady', ~late'
             PROVE  Healthy'
  BY NextSilent DEF HealthyInv, Healthy
<1>0. SilentInv /\ SilentInv' /\ Types /\ steady \in BOOLEAN
      /\ late \in BOOLEAN
  BY NextSilent DEF HealthyInv, SilentInv, Types
<1>1. steady /\ ~late
  BY <1>0 DEF Next, tick, stalls, read_timeout, receive, cut, restore, vars
<1>2. /\ up /\ Accepting /\ stalled <= Slack
      /\ \A e \in Ends : member[e] # "gone" /\ Waits(e)
  BY <1>1 DEF HealthyInv, Healthy
<1>3. \A e \in Ends : /\ Elapsed(loopcount[e]) \in 0..(Gap - 1)
                      /\ Lost(e) \in 0..MaxLost(e) /\ age[e] \in Nat
                      /\ flight[e] \in 0..MaxDelay \cup {None}
  BY <1>0, <1>2, ElapsedBound, HealthyLost DEF Types
<1>4. CASE tick
  <2>1. \A e \in Ends : flight[e] < MaxDelay /\ ~TooOld(e)
    BY <1>1, <1>2, <1>4, HealthyAge DEF tick
  <2>2. \A e \in Ends : member'[e] = member[e]
    BY <1>0, <1>4, <2>1, TickLoop DEF drops
  <2>3. up' /\ \A e \in Ends : age'[e] = IF member[e] = "yes" THEN age[e] + 1 ELSE 0
    BY <1>2, <1>4 DEF tick
  <2>4. \A e \in Ends : flight[e] # None => flight'[e] = flight[e] + 1
    <3> SUFFICES ASSUME NEW e \in Ends, flight[e] # None
                 PROVE  flight'[e] = flight[e] + 1
      OBVIOUS
    <3>1. e = Peer(Peer(e)) /\ Peer(e) \in Ends
      BY Peers
    <3> QED BY <1>0, <1>2, <1>4, <3>1, TickLoop
  <2>5. Accepting'
    <3> SUFFICES ASSUME member'["server"] = "no"
                 PROVE  flight'["server"] # None
                        /\ age'["client"] <= flight'["server"]
      BY DEF Accepting
    <3>1. /\ flight["server"] # None /\ age["client"] <= flight["server"]
          /\ flight'["server"] = flight["server"] + 1
          /\ flight["server"] \in 0..MaxDelay
          /\ age["client"] \in Nat
      BY <1>2, <1>3, <2>2, <2>4, Peers DEF Accepting
    <3> QED BY <2>3, <3>1, Peers, Constants DEF None
  <2>6. ASSUME NEW e \in Ends PROVE Waits(e)'
    <3>1. age'[e] <= age[e] + 1 /\ age'[e] \in Nat
      BY <1>3, <2>3
    <3>2. CASE flight[e] # None
      <4>1. flight'[e] = flight[e] + 1 /\ flight[e] \in Nat /\ flight'[e] # None
        BY <1>3, <2>4, <3>2, Constants DEF None
      <4>2. FirstWait(e) \in Nat /\ MaxLost(Peer(e)) \in Nat
        BY Fits, Peers
      <4>3. age[e] <= FirstWait(e) + Gap + MaxLost(Peer(e)) + flight[e]
        BY <1>2, <1>3, <3>2, <4>1, <4>2, GapNat DEF Waits
      <4> QED BY <1>3, <3>1, <4>1, <4>2, <4>3, GapNat DEF Waits
    <3>3. CASE flight[e] = None
      <4>1. PICK s \in Ends : s = Peer(e) /\ Peer(s) = e
        BY Peers
      <4>2. /\ age[e] <= FirstWait(e) + Elapsed(loopcount[s]) + Lost(s)
            /\ Elapsed(loopcount[s]) \in 0..(Gap - 1) /\ Lost(s) \in 0..MaxLost(s)
            /\ age[e] \in Nat /\ FirstWait(e) \in Nat /\ MaxLost(s) \in Nat
        BY <1>2, <1>3, <3>3, <4>1, GapNat, Fits DEF Waits
      <4>3. Waits(e)' <=>
              age'[e] <= FirstWait(e) + IF flight'[e] = None
                                        THEN Elapsed(loopcount'[s]) + Lost(s)'
                                        ELSE Gap + MaxLost(s) + flight'[e]
        BY <4>1 DEF Waits
      <4>4. CASE /\ loopcount'[s] = loopcount[s] /\ Lost(s)' = Lost(s) + 1
                 /\ flight'[e] = None
        BY <3>1, <4>2, <4>3, <4>4, Constants, GapNat
      <4>5. CASE /\ loopcount'[s] = Restart(loopcount[s] + 1)
                 /\ Lost(s)' = IF PingDue(loopcount[s] + 1) THEN 0 ELSE Lost(s)
                 /\ flight'[e] = IF sends(s) THEN 0 ELSE None
        <5>1. Elapsed(loopcount'[s]) =
                IF PingDue(loopcount[s] + 1) THEN 0 ELSE Elapsed(loopcount[s]) + 1
          BY <1>0, <4>5, ElapsedNext DEF Types
        <5>2. CASE sends(s)
          BY <3>1, <4>2, <4>3, <4>5, <5>2, Constants, GapNat DEF None
        <5>3. CASE ~sends(s) /\ ~PingDue(loopcount[s] + 1)
          BY <3>1, <4>2, <4>3, <4>5, <5>1, <5>3, Constants, GapNat
        <5>4. CASE ~sends(s) /\ PingDue(loopcount[s] + 1)
          <6>1. member[s] # "yes"
            BY <2>1, <5>4 DEF sends, pinging
          <6>2. s = "server" /\ member[s] = "no" /\ e = "client"
            <7>1. member[s] = "no"
              BY <1>0, <1>2, <6>1 DEF Types
            <7>2. member["client"] # "no"
              BY <1>0 DEF SilentInv, Counts
            <7> QED BY <4>1, <7>1, <7>2, Peers
          <6>3. /\ age[e] <= flight["server"] /\ flight["server"] < MaxDelay
                /\ flight["server"] \in 0..MaxDelay \cup {None}
            BY <1>2, <1>3, <2>1, <6>2, Peers DEF Accepting
          <6>4. age'[e] <= MaxDelay
            BY <3>1, <4>2, <6>3, Constants DEF None
          <6>5. FirstWait(e) = MaxDelay
            BY <6>2 DEF FirstWait
          <6> QED BY <3>1, <4>3, <4>5, <5>1, <5>4, <6>4, <6>5, Constants
        <5> QED BY <5>2, <5>3, <5>4
      <4> QED BY <1>0, <1>4, <3>3, <4>1, <4>4, <4>5, TickLoop
    <3> QED BY <3>2, <3>3
  <2>7. stalled' <= Slack
    <3>1. late' = (late \/ stalled' > Slack) /\ stalled' \in Nat
      BY <1>0, <1>4 DEF tick, stalls, SilentInv, Types
    <3>2. Slack \in Nat
      BY HeartbeatAssumption, Constants, GapNat DEF Slack
    <3>3. ~(stalled' > Slack)
      BY <3>1, Zenon
    <3> QED BY <3>1, <3>2, <3>3
  <2> QED BY <1>2, <2>2, <2>3, <2>5, <2>6, <2>7 DEF Healthy
<1>5. CASE read_timeout
  <2>1. age["client"] >= ReadDeadline /\ age["client"] \in Nat
    BY <1>0, <1>5, DeadlineAge, Peers DEF read_timeout, Types
  <2> QED BY <1>1, <2>1, HealthyAge, Peers, Constants
<1>6. ASSUME NEW e \in Ends, receive(e) PROVE Healthy'
  <2>1. /\ UNCHANGED <<loopcount, stalled>> /\ up'
        /\ flight'[e] = None /\ age'[e] = 0
        /\ \A f \in Ends \ {e} : /\ flight'[f] = flight[f] /\ age'[f] = age[f]
                                 /\ member'[f] = member[f]
        /\ member'[e] = "yes"
    BY <1>0, <1>2, <1>6 DEF receive, Types
  <2>2. \A f \in Ends : member'[f] # "gone"
    BY <1>2, <2>1
  <2>3. Waits(e)'
    <3>1. /\ Elapsed(loopcount[Peer(e)]) \in Nat /\ Lost(Peer(e)) \in Nat
          /\ FirstWait(e) \in Nat
      BY <1>3, Peers, Fits
    <3> QED BY <2>1, <3>1 DEF Waits, Lost
  <2>4. \A f \in Ends \ {e} : Waits(f)'
    BY <1>2, <2>1 DEF Waits, Lost
  <2>5. Accepting'
    <3>1. CASE e = "server"
      BY <2>1, <3>1 DEF Accepting
    <3>2. CASE e = "client"
      <4>1. /\ member'["server"] = member["server"]
            /\ flight'["server"] = flight["server"]
            /\ flight["server"] \in 0..MaxDelay \cup {None}
            /\ age'["client"] = 0
        BY <1>3, <2>1, <3>2, Peers
      <4> QED BY <1>2, <4>1, Constants DEF Accepting
    <3> QED BY <3>1, <3>2, Peers
  <2> QED BY <1>2, <2>1, <2>2, <2>3, <2>4, <2>5 DEF Healthy
<1>7. CASE cut
  BY <1>7 DEF cut
<1>8. CASE restore \/ UNCHANGED vars
  BY <1>2, <1>8 DEF restore, vars, Healthy, Accepting, Waits, Lost
<1> QED BY <1>4, <1>5, <1>6, <1>7, <1>8 DEF Next

\* On a link that has always worked no end ever drops the member, for every
\* phase of the two loops and every delay within the assumption, as long as the
\* client's loop has never lost more than Slack between two pings; MaxStall may
\* be anything.
THEOREM HealthyCorrect == Spec => []HealthyStays
<1>1. HealthyInv => HealthyStays
  BY DEF HealthyInv, Healthy, HealthyStays
<1> QED BY <1>1, InitHealthy, NextHealthy, PTL DEF Spec

=============================================================================
