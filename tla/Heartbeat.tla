----------------------------- MODULE Heartbeat -----------------------------
(***************************************************************************)
(* The timing of one bonded session: the main loops of both ends send a    *)
(* hello every two seconds and drop a member whose last hello is older     *)
(* than g_max_hello, and the client's reader counts read timeouts.         *)
(*                                                                         *)
(* Time is discrete.  In every tick each main loop runs once; the client's *)
(* may lose the tick, waiting for the mutex, for ip(8) or in a LINKDOWN    *)
(* write.  KCP delivers within MaxDelay ticks while the link works, and    *)
(* keeps what it has while it does not.                                    *)
(* Other traffic counts like a hello; the model has none, which is the     *)
(* worst case.                                                             *)
(***************************************************************************)
EXTENDS Integers

CONSTANTS
  PingEvery,               \* loopcount of the pings
  Recycle,                 \* loopcount at which it starts again from 1
  MaxHello,                \* g_max_hello
  ReadDeadline,            \* read deadline of the readers
  g_client_max_rxtimeouts,
  MaxStall,                \* ticks a loop may lose between two pings
  MaxDelay,                \* delay of a working link
  TenSeconds               \* the limit the README gives

\* The longest time between two pings of a loop that loses no tick: the last
\* ping before the restart, then the restart at 1 instead of 0.
Gap == (Recycle % PingEvery) + PingEvery - 1

\* Nothing is assumed of MaxStall.  The delays are those of a link that works:
\* a hello is not overtaken by the next ping, and two delays and a gap fit into
\* the age limit and the deadline (2.99 of 5 seconds are the gap).
ASSUME HeartbeatAssumption ==
  /\ {PingEvery, Recycle, MaxHello, ReadDeadline, g_client_max_rxtimeouts,
      MaxStall, MaxDelay, TenSeconds} \subseteq Nat
  /\ 0 < PingEvery /\ PingEvery < Recycle /\ Recycle % PingEvery > 0
  /\ Gap + 2 * MaxDelay <= MaxHello
  /\ Gap + 2 * MaxDelay < ReadDeadline
  /\ MaxDelay < PingEvery

\* What the client's loop may lose between two pings before the server, at the
\* age limit, drops a member that works.
Slack == MaxHello - Gap - MaxDelay

Ends == {"client", "server"}
None == -1
Peer(e) == IF e = "client" THEN "server" ELSE "client"

VARIABLES
  loopcount,      \* of each main loop
  stalled,        \* ticks the client's loop has lost since its last ping
  member,         \* "no" (not yet accepted), "yes", or "gone"
  age,            \* ticks since last_hello
  flight,         \* hellos on their way to each end: ticks the oldest has
                  \* been, or None; those behind it arrive with it
  up,             \* the link works
  steady,         \* it has always worked
  late,           \* the client's loop has lost more than Slack between pings
  rxtimeouts,     \* connection.rxtimeouts of the client
  rxlocal         \* the rxtimeouts of its reader

vars == <<loopcount, stalled, member, age, flight, up, steady,
          late, rxtimeouts, rxlocal>>

-----------------------------------------------------------------------------
\* client_connect_server has registered the connection and sent the hello
\* that wakes the server; the loops are anywhere in their cycles.
Init ==
  /\ loopcount \in [Ends -> 1..(Recycle - 1)]
  /\ stalled = 0
  /\ member = [e \in Ends |-> IF e = "client" THEN "yes" ELSE "no"]
  /\ age = [e \in Ends |-> 0]
  /\ flight = [e \in Ends |-> IF e = "server" THEN 0 ELSE None]
  /\ up = TRUE
  /\ steady = TRUE
  /\ late = FALSE
  /\ rxtimeouts = 0
  /\ rxlocal = 0

-----------------------------------------------------------------------------
(* The main loops.                                                         *)

\* Faulty: checks the age and pings in the housekeeping only.
PingDue_Housekeeping(n) == n % Recycle = 0

PingDue(n) == n % PingEvery = 0

\* Faulty: counts on.
Restart_Never(n) == n

\* "recycle every 15 seconds".
Restart(n) == IF n % Recycle = 0 THEN 1 ELSE n

\* Faulty: the test the wrong way round.
TooOld_Never(e) == age[e] + 1 < 0

TooOld(e) == age[e] + 1 > MaxHello

\* client_send_server_pings or server_send_client_pings, for this session.
pinging(e) == PingDue(loopcount[e] + 1) /\ member[e] = "yes"
drops(e) == pinging(e) /\ TooOld(e)
sends(e) == pinging(e) /\ ~TooOld(e)

\* One iteration of the loops that do not lose the tick.
loops(lost) ==
  /\ loopcount' = [e \in Ends |->
       IF e \in lost THEN loopcount[e] ELSE Restart(loopcount[e] + 1)]
  /\ member' = [e \in Ends |->
       IF e \notin lost /\ drops(e) THEN "gone" ELSE member[e]]
  /\ flight' = [e \in Ends |->
       IF flight[e] # None THEN IF up THEN flight[e] + 1 ELSE flight[e]
       ELSE IF Peer(e) \notin lost /\ sends(Peer(e)) THEN 0 ELSE None]

\* The client's loop loses the tick while it waits for server.mu, which a
\* LINKDOWN write may hold for g_write_deadline, once for every connection that
\* is closed, or for ip(8) in client_check_paths.  It also loses it when its
\* pings come upon another session that is too old: that one is disconnected,
\* with the LINKDOWN write, inside client_send_server_pings, before this
\* session's turn.  (When it is this session, nothing of it is left to time on
\* this end.)  The server writes no LINKDOWN and holds client.mu over no call
\* that waits.
stalls(lost) ==
  /\ \/ /\ lost = {"client"}
        /\ stalled < MaxStall
        /\ stalled' = stalled + 1
     \/ /\ lost = {}
        /\ stalled' = IF PingDue(loopcount["client"] + 1) THEN 0 ELSE stalled
  /\ late' = (late \/ stalled' > Slack)

-----------------------------------------------------------------------------
(* The readers.                                                            *)

\* A hello arrives: the first one makes the server accept the session.
receive(e) ==
  /\ up
  /\ flight[e] # None
  /\ flight' = [flight EXCEPT ![e] = None]
  /\ age' = IF member[e] = "gone" THEN age ELSE [age EXCEPT ![e] = 0]
  /\ member' = IF member[e] = "no" THEN [member EXCEPT ![e] = "yes"] ELSE member
  /\ rxlocal' = IF e = "client" THEN 0 ELSE rxlocal
  /\ UNCHANGED <<loopcount, stalled, up, steady, late, rxtimeouts>>

\* The deadline is set anew before every Read, so it passes whenever another
\* ReadDeadline has gone by since the last message.
DeadlinePassed ==
  member["client"] = "yes" /\ age["client"] = (rxlocal + 1) * ReadDeadline

\* client_handle_kcp, Read times out.  (The server only counts.)
read_timeout ==
  /\ DeadlinePassed
  /\ rxtimeouts' = rxtimeouts + 1
  /\ rxlocal' = rxlocal + 1
  /\ member' = IF rxtimeouts' > g_client_max_rxtimeouts
                  \/ rxlocal' > g_client_max_rxtimeouts
               THEN [member EXCEPT !["client"] = "gone"] ELSE member
  /\ UNCHANGED <<loopcount, stalled, age, flight, up, steady, late>>

-----------------------------------------------------------------------------
(* Time and the link.                                                      *)

\* Whatever was due has happened, and the next tick begins.
tick ==
  /\ ~DeadlinePassed
  /\ up => \A e \in Ends : flight[e] < MaxDelay
  /\ \E lost \in SUBSET Ends : stalls(lost) /\ loops(lost)
  /\ age' = [e \in Ends |-> IF member[e] = "yes" THEN age[e] + 1 ELSE 0]
  /\ UNCHANGED <<up, steady, rxtimeouts, rxlocal>>

\* The link fails, and KCP will send again what has not arrived.
cut ==
  /\ up
  /\ up' = FALSE
  /\ steady' = FALSE
  /\ flight' = [e \in Ends |-> IF flight[e] = None THEN None ELSE 0]
  /\ UNCHANGED <<loopcount, stalled, member, age, late, rxtimeouts, rxlocal>>

restore ==
  /\ ~up
  /\ up' = TRUE
  /\ UNCHANGED <<loopcount, stalled, member, age, flight, steady, late,
                 rxtimeouts, rxlocal>>

-----------------------------------------------------------------------------
\* The session is over.
Over == \A e \in Ends : member[e] # "yes"

Next ==
  \/ /\ ~Over
     /\ \/ tick \/ read_timeout \/ cut \/ restore
        \/ \E e \in Ends : receive(e)
  \/ Over /\ UNCHANGED vars

Spec == Init /\ [][Next]_vars

-----------------------------------------------------------------------------
(* Properties.                                                             *)

\* Every variable holds a value of its type.
TypeOK ==
  /\ loopcount \in [Ends -> 1..(Recycle - 1)]
  /\ stalled \in 0..MaxStall
  /\ member \in [Ends -> {"no", "yes", "gone"}]
  /\ age \in [Ends -> 0..(MaxHello + Gap + MaxStall)]
  /\ flight \in [Ends -> 0..MaxDelay \cup {None}]
  /\ up \in BOOLEAN /\ steady \in BOOLEAN /\ late \in BOOLEAN
  /\ rxtimeouts \in 0..(g_client_max_rxtimeouts + 1)
  /\ rxlocal \in 0..(g_client_max_rxtimeouts + 1)

\* On a link that has always worked no end drops the member, whatever the
\* phases of the two loops and the long gap at the restart of loopcount, unless
\* the client's loop has lost more than Slack (2.01 seconds less a delay)
\* between two pings: what a blocked LINKDOWN write may take from it.
HealthyStays == steady /\ ~late => \A e \in Ends : member[e] # "gone"

\* "if no HELLO's are received for 10 seconds, a bonded WAN member is
\* considered dead ... 10 seconds being the worst case": an end that hears
\* nothing, because the link is down or the peer has dropped the member, has
\* dropped it after ten seconds, although it looks only once in a Gap.  There is
\* room for one blocked LINKDOWN write (5 + 2.99 + 2 seconds), not for two:
\* with MaxStall = 8 in the run, TLC refutes it.
SilentGoneInTime ==
  \A e \in Ends : member[e] = "yes" => age[e] <= TenSeconds

-----------------------------------------------------------------------------
(* What the repository says and the code does not do; TLC refutes each.    *)

\* "if no HELLO's are received for 10 seconds, a bonded WAN member is
\* considered dead": so on a link that has always worked, whose hellos are never
\* that late, none is.  One LINKDOWN write that uses its whole deadline of two
\* seconds breaks it, once a tick is short enough for a gap of 2.75 seconds.
HealthyNeverDropped == steady => \A e \in Ends : member[e] # "gone"

\* "2 seconds read deadline": a reader that hears nothing has counted one read
\* timeout after two seconds, two after four, and so on.  The deadline that is
\* set is five seconds.
TwoSecondDeadline ==
  member["client"] = "yes" =>
    age["client"] <= (rxlocal + 1) * (TenSeconds \div 5)

=============================================================================
