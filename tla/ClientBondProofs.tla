-------------------------- MODULE ClientBondProofs --------------------------
(***************************************************************************)
(* Proofs about ClientBond, for every number of goroutines, sources,       *)
(* connections and slots.                                                  *)
(***************************************************************************)
EXTENDS ClientBond, FiniteSetTheorems, TLAPS

-----------------------------------------------------------------------------
(* Type correctness.                                                       *)

\* What the route goroutines know about their locals at each point.
Locals ==
  \A t \in RouteThreads :
    /\ rt[t].pc \in {"scan", "wanip"} => rt[t].avail \in Convids
    /\ rt[t].pc = "wake" => rt[t].conn \in Conns
    /\ rt[t].pc \in {"idle", "paths", "delsrc"} => ~rt[t].spawn_tun

TypeInv == TypeOK /\ Locals

\* 0 is not a convid, and the slots of the search are.
LEMMA ConvidFacts ==
  /\ 0 \notin Convids
  /\ TunnelId \in Convids
  /\ Convids \subseteq Nat
  /\ \A a \in Convids : a <= TunnelId + SlotSpan => a + 1 \in Convids
BY BoundsAssumption DEF Convids

\* The round robin answers with a member of the table, or 0 for an empty one.
LEMMA RoundRobinType ==
  ASSUME NEW S \in SUBSET Convids, NEW last, NEW c \in RoundRobin(S, last)
  PROVE  c \in Convids \cup {0}
BY DEF RoundRobin

\* client_close_connection keeps the types of what it changes.
LEMMA CloseType ==
  ASSUME TypeOK, NEW c \in Registered, client_close_connection(c)
  PROVE  /\ connections' \in [Convids -> Conns \cup {NoConn}]
         /\ consistent' \in SUBSET Convids
         /\ last_convid' \in Convids \cup {0}
         /\ conn' \in [Conns -> ServerConnection]
<1>1. c \in Convids /\ connections[c] \in Conns
  BY DEF TypeOK, Registered
<1>2. last_convid' \in Convids \cup {0}
  <2>1. Registered \ {c} \in SUBSET Convids
    BY DEF Registered
  <2> QED BY <2>1, RoundRobinType DEF client_close_connection,
                                    client_send_linkdown_message
<1>3. conn' \in [Conns -> ServerConnection]
  BY <1>1 DEF TypeOK, client_close_connection, ServerConnection
<1> QED BY <1>1, <1>2, <1>3 DEF TypeOK, client_close_connection

\* So does client_disconnect_session_by_convid.
LEMMA DisconnectType ==
  ASSUME TypeOK, NEW c, client_disconnect_session_by_convid(c)
  PROVE  /\ connections' \in [Convids -> Conns \cup {NoConn}]
         /\ consistent' \in SUBSET Convids
         /\ last_convid' \in Convids \cup {0}
         /\ conn' \in [Conns -> ServerConnection]
<1>1. CASE c \in Registered
  BY <1>1, CloseType DEF client_disconnect_session_by_convid
<1>2. CASE c \notin Registered
  BY <1>2 DEF client_disconnect_session_by_convid, table, TypeOK
<1> QED BY <1>1, <1>2

\* A process that has just started is well typed.
LEMMA InitType == Init => TypeInv
<1> SUFFICES ASSUME Init PROVE TypeInv
  OBVIOUS
<1>1. conn \in [Conns -> ServerConnection]
  BY DEF Init, Unused, ServerConnection
<1>2. rt \in [RouteThreads -> RouteThread] /\ Locals
  BY DEF Init, RouteAt, IdleRoute, RouteThread, Locals
<1>3. hello \in [HelloThreads -> HelloThread] /\ tun \in TunThread
  BY DEF Init, IdleHello, HelloThread, TunAt, TunThread
<1> QED BY <1>1, <1>2, <1>3 DEF Init, TypeInv, TypeOK, Panics

\* So is a process that a panic has just ended.
LEMMA CrashType ==
  ASSUME NEW cause \in Panics, Crash(cause) PROVE TypeInv'
<1>1. (conn \in [Conns -> ServerConnection])'
  BY DEF Crash, Unused, ServerConnection
<1>2. (rt \in [RouteThreads -> RouteThread] /\ Locals)'
  BY DEF Crash, RouteAt, IdleRoute, RouteThread, Locals
<1>3. (hello \in [HelloThreads -> HelloThread] /\ tun \in TunThread)'
  BY DEF Crash, IdleHello, HelloThread, TunAt, TunThread
<1> QED BY <1>1, <1>2, <1>3 DEF Crash, TypeInv, TypeOK

\* Every step keeps the types.
LEMMA NextType == TypeInv /\ [Next]_vars => TypeInv'
<1> SUFFICES ASSUME TypeInv, [Next]_vars PROVE TypeInv'
  OBVIOUS
<1> USE DEF TypeInv
<1>1. ASSUME NEW t \in RouteThreads, NEW s \in Srcs, connect_begin(t, s)
      PROVE  TypeInv'
  <2>1. (rt \in [RouteThreads -> RouteThread] /\ Locals)'
    BY <1>1, ConvidFacts
    DEF connect_begin, TypeOK, RouteAt, RouteThread, Locals
  <2> QED BY <1>1, <2>1 DEF connect_begin, TypeOK, table
<1>2. ASSUME NEW t \in RouteThreads, NEW s \in Srcs,
             client_disconnect_session_by_src(t, s)
      PROVE  TypeInv'
  <2>1. (rt \in [RouteThreads -> RouteThread] /\ Locals)'
    BY <1>2 DEF client_disconnect_session_by_src, TypeOK, RouteAt, RouteThread,
                Locals
  <2> QED BY <1>2, <2>1 DEF client_disconnect_session_by_src, TypeOK, table
<1>3. ASSUME NEW t \in RouteThreads, close_by_src(t)
      PROVE  TypeInv'
  <2>1. PICK c \in Registered : client_close_connection(c)
    BY <1>3 DEF close_by_src, RegisteredBySrc
  <2> QED BY <1>3, <2>1, CloseType DEF close_by_src, TypeOK, Locals
<1>4. ASSUME NEW t \in RouteThreads, close_by_src_done(t)
      PROVE  TypeInv'
  <2>1. (rt \in [RouteThreads -> RouteThread] /\ Locals)'
    BY <1>4
    DEF close_by_src_done, TypeOK, RouteAt, RouteThread, IdleRoute, Locals
  <2> QED BY <1>4, <2>1 DEF close_by_src_done, TypeOK, table
<1>5. ASSUME NEW i \in Ifaces, client_disconnect_session_by_ifname(i)
      PROVE  TypeInv'
  BY <1>5 DEF client_disconnect_session_by_ifname, TypeOK, Locals, table
<1>6. ASSUME close_by_ifname
      PROVE  TypeInv'
  <2>1. PICK c \in Registered : client_close_connection(c)
    BY <1>6 DEF close_by_ifname, RegisteredByIfname
  <2> QED BY <1>6, <2>1, CloseType DEF close_by_ifname, TypeOK, Locals
<1>7. ASSUME close_by_ifname_done
      PROVE  TypeInv'
  BY <1>7 DEF close_by_ifname_done, TypeOK, Locals, table
<1>8. ASSUME NEW t \in RouteThreads, find_slot(t)
      PROVE  TypeInv'
  <2>1. SlotTaken(rt[t].avail) => rt[t].avail + 1 \in Convids
    BY ConvidFacts DEF SlotTaken, Registered
  <2>2. (rt \in [RouteThreads -> RouteThread] /\ Locals)'
    BY <1>8, <2>1
    DEF find_slot, TypeOK, RouteAt, RouteThread, IdleRoute, Locals
  <2> QED BY <1>8, <2>2 DEF find_slot, TypeOK, table
<1>9. ASSUME NEW t \in RouteThreads, register(t)
      PROVE  TypeInv'
  <2>1. PICK o \in Conns :
          /\ connections' = [connections EXCEPT ![rt[t].avail] = o]
          /\ conn' = [conn EXCEPT ![o] = [convid      |-> rt[t].avail,
                                          src_address |-> rt[t].src,
                                          session     |-> "open"]]
          /\ rt' = [rt EXCEPT ![t] = RouteAt("wake", @.src, @.avail, o,
                                             @.spawn_tun)]
    BY <1>9 DEF register
  <2>2. rt[t].avail \in Convids /\ rt[t].src \in Srcs \cup {None}
    BY <1>9 DEF register, TypeOK, RouteAt, RouteThread, Locals
  <2>3. (conn \in [Conns -> ServerConnection])'
    BY <2>1, <2>2 DEF TypeOK, ServerConnection
  <2>4. (rt \in [RouteThreads -> RouteThread] /\ Locals)'
    BY <2>1 DEF TypeOK, RouteAt, RouteThread, Locals
  <2>5. (connections \in [Convids -> Conns \cup {NoConn}])'
    BY <2>1, <2>2 DEF TypeOK
  <2> QED BY <1>9, <2>2, <2>3, <2>4, <2>5 DEF register, TypeOK
<1>10. ASSUME NEW t \in RouteThreads, wake(t)
       PROVE  TypeInv'
  <2>1. (rt \in [RouteThreads -> RouteThread] /\ Locals)'
    BY <1>10 DEF wake, TypeOK, RouteAt, RouteThread, IdleRoute, Locals
  <2>2. (handler \in [Conns -> {"none", "read", "close", "exit"}])'
    BY <1>10 DEF wake, TypeOK
  <2>3. (tun \in TunThread)'
    BY <1>10 DEF wake, TypeOK, TunThread, TunAt
  <2> QED BY <1>10, <2>1, <2>2, <2>3 DEF wake, TypeOK, table
<1>11. ASSUME NEW t \in RouteThreads, connect_end(t)
       PROVE  TypeInv'
  <2>1. (rt \in [RouteThreads -> RouteThread] /\ Locals)'
    BY <1>11 DEF connect_end, TypeOK, RouteAt, RouteThread, IdleRoute, Locals
  <2>2. default_route' \in BOOLEAN
    BY <1>11 DEF connect_end, client_check_paths
  <2> QED BY <1>11, <2>1, <2>2 DEF connect_end, TypeOK, table
<1>12. ASSUME NEW t \in RouteThreads, route_panics(t)
       PROVE  TypeInv'
  BY <1>12, CrashType DEF route_panics, route_update_panics,
         createTun_fails, get_wan_ip_panics, create_session_fails, Panics
<1>13. ASSUME NEW o \in Conns, HandlerStep(o)
       PROVE  TypeInv'
  <2>1. CASE handler_exit(o) \/ handler_fails(o)
    BY <2>1 DEF handler_exit, handler_fails, TypeOK, Locals, table
  <2>2. CASE handler_disconnect(o)
    BY <2>2, DisconnectType DEF handler_disconnect, TypeOK, Locals
  <2> QED BY <1>13, <2>1, <2>2 DEF HandlerStep
<1>14. ASSUME NEW h \in HelloThreads, ping_send(h)
       PROVE  TypeInv'
  <2>1. PICK c \in Registered :
          hello' = [hello EXCEPT ![h] = [pc |-> "write",
                                         conn |-> connections[c]]]
    BY <1>14 DEF ping_send
  <2>2. connections[c] \in Conns
    BY DEF Registered, TypeOK
  <2>3. (hello \in [HelloThreads -> HelloThread])'
    BY <2>1, <2>2 DEF TypeOK, HelloThread
  <2> QED BY <1>14, <2>3 DEF ping_send, TypeOK, Locals, table
<1>15. ASSUME NEW h \in HelloThreads, HelloStep(h)
       PROVE  TypeInv'
  <2>1. (hello \in [HelloThreads -> HelloThread])'
    BY <1>15 DEF HelloStep, hello_done, hello_timeout, hello_disconnect,
                 TypeOK, HelloThread, IdleHello
  <2>2. CASE hello_done(h) \/ hello_timeout(h)
    BY <2>1, <2>2 DEF hello_done, hello_timeout, TypeOK, Locals, table
  <2>3. CASE hello_disconnect(h)
    BY <2>1, <2>3, DisconnectType DEF hello_disconnect, TypeOK, Locals
  <2> QED BY <1>15, <2>2, <2>3 DEF HelloStep
<1>16. ASSUME MainStep
       PROVE  TypeInv'
  <2>1. CASE main_check_paths
    BY <2>1 DEF main_check_paths, client_check_paths, TypeOK, Locals, table
  <2>2. CASE ping_too_old
    <3>1. main' \in Conns
      BY <2>2 DEF ping_too_old, Registered, TypeOK
    <3> QED BY <2>2, <3>1 DEF ping_too_old, TypeOK, Locals, table
  <2>3. CASE ping_disconnect
    BY <2>3, DisconnectType DEF ping_disconnect, TypeOK, Locals
  <2> QED BY <1>16, <2>1, <2>2, <2>3 DEF MainStep
<1>17. ASSUME TunStep
       PROVE  TypeInv'
  <2>1. CASE tun_choose
    <3>1. tun' \in TunThread /\ last_convid' \in Convids \cup {0}
      <4>1. CASE g_use_consistent_hashing
        <5>1. PICK c \in consistent :
                tun' = [pc |-> "lookup", convid |-> c, conn |-> NoConn]
          BY <2>1, <4>1 DEF tun_choose
        <5> QED BY <2>1, <4>1, <5>1 DEF tun_choose, TunThread, TypeOK
      <4>2. CASE ~g_use_consistent_hashing
        <5>1. PICK c \in RoundRobin(Registered, last_convid) \ {0} :
                /\ tun' = [pc |-> "lookup", convid |-> c, conn |-> NoConn]
                /\ last_convid' = c
          BY <2>1, <4>2 DEF tun_choose
        <5>2. c \in Convids
          BY RoundRobinType DEF Registered
        <5> QED BY <5>1, <5>2 DEF TunThread
      <4> QED BY <4>1, <4>2
    <3> QED BY <2>1, <3>1 DEF tun_choose, TypeOK, Locals
  <2>2. CASE tun_send
    <3>1. tun' \in TunThread
      BY <2>2 DEF tun_send, TunThread, TunAt, Registered, TypeOK
    <3> QED BY <2>2, <3>1 DEF tun_send, TypeOK, Locals, table
  <2>3. CASE tun_disconnect
    <3>1. tun' \in TunThread
      BY <2>3 DEF tun_disconnect, TunThread, TunAt
    <3> QED BY <2>3, <3>1, DisconnectType DEF tun_disconnect, TypeOK, Locals
  <2> QED BY <1>17, <2>1, <2>2, <2>3 DEF TunStep
<1>18. ASSUME tun_read_error
       PROVE  TypeInv'
  <2>1. tun' \in TunThread
    BY <1>18 DEF tun_read_error, TunThread, TunAt
  <2> QED BY <1>18, <2>1 DEF tun_read_error, TypeOK, Locals, table
<1>19. ASSUME UNCHANGED vars
       PROVE  TypeInv'
  BY <1>19 DEF vars, table, TypeOK, Locals
<1> QED
  BY <1>1, <1>2, <1>3, <1>4, <1>5, <1>6, <1>7, <1>8, <1>9, <1>10, <1>11,
     <1>12, <1>13, <1>14, <1>15, <1>16, <1>17, <1>18, <1>19
  DEF Next, RouteEvent, RouteStep, IfaceEvent, IfaceStep, Dead

\* Every reachable state of the client is well typed; in particular the slot
\* search never leaves the range TunnelId .. TunnelId + SlotSpan + 1.
THEOREM TypeCorrect == Spec => []TypeOK
<1>1. TypeInv => TypeOK
  BY DEF TypeInv
<1> QED BY <1>1, InitType, NextType, PTL DEF Spec
-----------------------------------------------------------------------------
(* The table, the ring and the readers.                                    *)

\* None of the three is inductive alone: that the ring loses exactly the
\* convid of a closed entry, that closing one entry leaves the others open,
\* and that a reader that leaves takes its own entry with it all need each
\* entry to be filed under its own convid.
TableInv == /\ TypeInv
            /\ RingMatchesTable
            /\ TableEntriesUsable
            /\ RegisteredIsRead

\* The part of TableInv that speaks of the ring and the objects.
EntriesInv == RingMatchesTable /\ TableEntriesUsable

\* What closing the entry c does to the table: c leaves, the others stay, and
\* the objects of the others stay open.
LEMMA CloseEffect ==
  ASSUME TypeOK, EntriesInv, NEW c \in Registered, client_close_connection(c)
  PROVE  /\ EntriesInv'
         /\ Registered' = Registered \ {c}
         /\ \A d \in Registered' : connections'[d] = connections[d]
         /\ \A d \in Registered' : SrcOf(d)' = SrcOf(d)
<1>1. c \in Convids /\ connections[c] \in Conns
  BY DEF TypeOK, Registered
<1>2. connections' = [connections EXCEPT ![c] = NoConn]
  BY DEF client_close_connection
<1>3. /\ Registered' = Registered \ {c}
      /\ \A d \in Registered' : connections'[d] = connections[d]
  BY <1>1, <1>2 DEF Registered, TypeOK
<1>4. RingMatchesTable'
  BY <1>3 DEF EntriesInv, RingMatchesTable, client_close_connection
<1>5. ASSUME NEW d \in Registered'
      PROVE  /\ conn'[connections'[d]].session = "open"
             /\ conn'[connections'[d]].convid = d
             /\ SrcOf(d)' = SrcOf(d)
  <2>1. d \in Registered /\ d # c /\ connections'[d] = connections[d]
    BY <1>3
  <2>2. connections[d] # connections[c]
    BY <2>1 DEF EntriesInv, TableEntriesUsable
  <2>3. connections[d] \in Conns
    BY <2>1 DEF Registered, TypeOK
  <2>4. conn'[connections[d]] = conn[connections[d]]
    BY <1>1, <2>2, <2>3 DEF client_close_connection, TypeOK
  <2> QED BY <2>1, <2>4 DEF EntriesInv, TableEntriesUsable, SrcOf
<1>6. TableEntriesUsable'
  BY <1>5 DEF TableEntriesUsable
<1> QED BY <1>3, <1>4, <1>5, <1>6 DEF EntriesInv

\* The same for a disconnect by convid, which afterwards has no entry.
LEMMA DisconnectEffect ==
  ASSUME TypeOK, EntriesInv, NEW c, client_disconnect_session_by_convid(c)
  PROVE  /\ EntriesInv'
         /\ Registered' = Registered \ {c}
         /\ \A d \in Registered' : connections'[d] = connections[d]
         /\ \A d \in Registered' : SrcOf(d)' = SrcOf(d)
<1>1. CASE c \in Registered
  BY <1>1, CloseEffect DEF client_disconnect_session_by_convid
<1>2. CASE c \notin Registered
  <2>1. UNCHANGED <<connections, consistent, conn>>
    BY <1>2 DEF client_disconnect_session_by_convid, table
  <2>2. Registered' = Registered
    BY <2>1 DEF Registered
  <2> QED BY <1>2, <2>1, <2>2 DEF EntriesInv, RingMatchesTable,
                                  TableEntriesUsable, SrcOf
<1> QED BY <1>1, <1>2

\* What registering the new object o in the slot t has found does: the slot
\* holds o, whatever it held before, and nothing else changes.
Registers(t, o) ==
  /\ rt[t].avail \in Convids /\ rt[t].pc = "wanip"
  /\ Registered' = Registered \cup {rt[t].avail}
  /\ connections'[rt[t].avail] = o
  /\ conn'[o].session = "open"
  /\ conn'[o].convid = rt[t].avail
  /\ conn'[o].src_address = rt[t].src
  /\ \A d \in Registered \ {rt[t].avail} :
       /\ connections'[d] = connections[d]
       /\ conn'[connections[d]] = conn[connections[d]]
  /\ rt'[t].pc = "wake" /\ rt'[t].conn = o
  /\ \A u \in RouteThreads \ {t} : rt'[u] = rt[u]

\* register, the critical section that files a new connection, registers
\* exactly one object under the slot the goroutine has found.
LEMMA RegisterEffect ==
  ASSUME TypeOK, Locals, EntriesInv, NEW t \in RouteThreads, register(t)
  PROVE  \E o \in Conns : Registers(t, o)
<1>1. PICK o \in Conns :
        /\ Fresh(o)
        /\ connections' = [connections EXCEPT ![rt[t].avail] = o]
        /\ conn' = [conn EXCEPT ![o] = [convid      |-> rt[t].avail,
                                        src_address |-> rt[t].src,
                                        session     |-> "open"]]
        /\ rt' = [rt EXCEPT ![t] = RouteAt("wake", @.src, @.avail, o,
                                           @.spawn_tun)]
  BY DEF register
<1>2. rt[t].avail \in Convids /\ rt[t].pc = "wanip"
  BY DEF register, Locals
<1>3. o # NoConn
  BY DEF Conns, NoConn
<1>4. /\ Registered' = Registered \cup {rt[t].avail}
      /\ connections'[rt[t].avail] = o
      /\ \A d \in Registered \ {rt[t].avail} : connections'[d] = connections[d]
  BY <1>1, <1>2, <1>3 DEF Registered, TypeOK
<1>5. \A d \in Registered : conn'[connections[d]] = conn[connections[d]]
  <2> SUFFICES ASSUME NEW d \in Registered
               PROVE  conn'[connections[d]] = conn[connections[d]]
    OBVIOUS
  <2>1. connections[d] # o
    BY <1>1 DEF EntriesInv, TableEntriesUsable, Fresh
  <2>2. connections[d] \in Conns
    BY DEF Registered, TypeOK
  <2> QED BY <1>1, <2>1, <2>2 DEF TypeOK
<1>6. /\ conn'[o].session = "open"
      /\ conn'[o].convid = rt[t].avail
      /\ conn'[o].src_address = rt[t].src
  BY <1>1 DEF TypeOK
<1>7. /\ rt'[t].pc = "wake" /\ rt'[t].conn = o
      /\ \A u \in RouteThreads \ {t} : rt'[u] = rt[u]
  BY <1>1 DEF TypeOK, RouteAt
<1> QED BY <1>2, <1>4, <1>5, <1>6, <1>7 DEF Registers

\* A step that only removes entries, stops no reader and starts no thread
\* keeps every entry read.
LEMMA ShrinkRead ==
  ASSUME RegisteredIsRead, Registered' \subseteq Registered,
         \A d \in Registered' : connections'[d] = connections[d],
         UNCHANGED <<handler, rt>>
  PROVE  RegisteredIsRead'
BY DEF RegisteredIsRead

\* A step that does not touch the table or its readers.
LEMMA SameTable ==
  ASSUME TableInv, UNCHANGED <<connections, consistent, conn, handler>>,
         \A t \in RouteThreads : rt[t].pc = "wake" => rt'[t] = rt[t]
  PROVE  (EntriesInv /\ RegisteredIsRead)'
<1>1. Registered' = Registered
  BY DEF Registered
<1> QED BY <1>1 DEF TableInv, EntriesInv, RingMatchesTable,
                    TableEntriesUsable, RegisteredIsRead

\* An empty table is consistent.
LEMMA InitTable == Init => TableInv
<1> SUFFICES ASSUME Init PROVE TableInv
  OBVIOUS
<1>1. Registered = {}
  BY DEF Init, Registered
<1> QED BY <1>1, InitType DEF Init, TableInv, RingMatchesTable,
                              TableEntriesUsable, RegisteredIsRead

\* A dead process has an empty table.
LEMMA CrashTable ==
  ASSUME NEW cause, Crash(cause) PROVE (EntriesInv /\ RegisteredIsRead)'
<1>1. Registered' = {}
  BY DEF Crash, Registered
<1> QED BY <1>1 DEF Crash, EntriesInv, RingMatchesTable, TableEntriesUsable,
                    RegisteredIsRead

\* Every step keeps the table, the ring and the readers together.
LEMMA NextTable == TableInv /\ [Next]_vars => TableInv'
<1> SUFFICES ASSUME TableInv, [Next]_vars
             PROVE  (EntriesInv /\ RegisteredIsRead)'
  BY NextType DEF TableInv, EntriesInv
<1>0. TypeOK /\ Locals /\ EntriesInv /\ RegisteredIsRead
  BY DEF TableInv, TypeInv, EntriesInv
<1>1. ASSUME NEW t \in RouteThreads,
             \/ \E s \in Srcs : \/ connect_begin(t, s)
                                \/ client_disconnect_session_by_src(t, s)
             \/ close_by_src_done(t) \/ find_slot(t) \/ connect_end(t)
      PROVE  (EntriesInv /\ RegisteredIsRead)'
  <2>1. UNCHANGED <<connections, consistent, conn, handler>>
    BY <1>1 DEF connect_begin, client_disconnect_session_by_src,
                close_by_src_done, find_slot, connect_end, table
  <2>2. \A u \in RouteThreads : rt[u].pc = "wake" => rt'[u] = rt[u]
    BY <1>0, <1>1 DEF connect_begin, client_disconnect_session_by_src,
                      close_by_src_done, find_slot, connect_end, TypeOK
  <2> QED BY <2>1, <2>2, SameTable
<1>2. ASSUME NEW t \in RouteThreads, close_by_src(t)
      PROVE  (EntriesInv /\ RegisteredIsRead)'
  <2>1. PICK c \in Registered : client_close_connection(c)
    BY <1>2 DEF close_by_src, RegisteredBySrc
  <2>2. UNCHANGED <<handler, rt>>
    BY <1>2 DEF close_by_src
  <2> QED BY <1>0, <2>1, <2>2, CloseEffect, ShrinkRead
<1>3. ASSUME close_by_ifname
      PROVE  (EntriesInv /\ RegisteredIsRead)'
  <2>1. PICK c \in Registered : client_close_connection(c)
    BY <1>3 DEF close_by_ifname, RegisteredByIfname
  <2>2. UNCHANGED <<handler, rt>>
    BY <1>3 DEF close_by_ifname
  <2> QED BY <1>0, <2>1, <2>2, CloseEffect, ShrinkRead
<1>4. ASSUME NEW t \in RouteThreads, register(t)
      PROVE  (EntriesInv /\ RegisteredIsRead)'
  <2>1. PICK o \in Conns : Registers(t, o)
    BY <1>0, <1>4, RegisterEffect
  <2>2. RingMatchesTable' /\ TableEntriesUsable'
    BY <1>0, <1>4, <2>1 DEF register, EntriesInv, RingMatchesTable,
                            TableEntriesUsable, Registers
  <2>3. RegisteredIsRead'
    <3>1. handler' = handler
      BY <1>4 DEF register
    <3> QED BY <1>0, <2>1, <3>1 DEF RegisteredIsRead, Registers
  <2> QED BY <2>2, <2>3 DEF EntriesInv
<1>5. ASSUME NEW t \in RouteThreads, wake(t)
      PROVE  (EntriesInv /\ RegisteredIsRead)'
  <2>1. UNCHANGED <<connections, consistent, conn>>
    BY <1>5 DEF wake, table
  <2>2. Registered' = Registered
    BY <2>1 DEF Registered
  <2>3. EntriesInv'
    BY <1>0, <2>1, <2>2 DEF EntriesInv, RingMatchesTable, TableEntriesUsable
  <2>4. /\ handler'[rt[t].conn] = "read"
        /\ \A o \in Conns : handler'[o] \in {"read", handler[o]}
        /\ \A u \in RouteThreads \ {t} : rt'[u] = rt[u]
    BY <1>0, <1>5 DEF wake, Locals, TypeOK
  <2>5. \A d \in Registered : connections[d] \in Conns
    BY <1>0 DEF Registered, TypeOK
  <2>6. RegisteredIsRead'
    BY <1>0, <2>1, <2>2, <2>4, <2>5 DEF RegisteredIsRead
  <2> QED BY <2>3, <2>6
<1>6. ASSUME NEW t \in RouteThreads, route_panics(t)
      PROVE  (EntriesInv /\ RegisteredIsRead)'
  BY <1>6, CrashTable DEF route_panics, route_update_panics,
         createTun_fails, get_wan_ip_panics, create_session_fails
<1>7. ASSUME NEW o \in Conns, handler_exit(o) \/ handler_fails(o)
      PROVE  (EntriesInv /\ RegisteredIsRead)'
  <2>1. UNCHANGED <<connections, consistent, conn, rt>>
    BY <1>7 DEF handler_exit, handler_fails, table
  <2>2. Registered' = Registered
    BY <2>1 DEF Registered
  <2>3. EntriesInv'
    BY <1>0, <2>1, <2>2 DEF EntriesInv, RingMatchesTable, TableEntriesUsable
  <2>4. \A d \in Registered :
          handler'[connections[d]] = handler[connections[d]]
                              \/ handler'[connections[d]] = "close"
    BY <1>0, <1>7 DEF handler_exit, handler_fails, EntriesInv,
                      TableEntriesUsable, Registered, TypeOK
  <2>5. RegisteredIsRead'
    BY <1>0, <2>1, <2>2, <2>4 DEF RegisteredIsRead
  <2> QED BY <2>3, <2>5
<1>8. ASSUME NEW o \in Conns, handler_disconnect(o)
      PROVE  (EntriesInv /\ RegisteredIsRead)'
  <2>1. /\ EntriesInv'
        /\ Registered' = Registered \ {conn[o].convid}
        /\ \A d \in Registered' : connections'[d] = connections[d]
    BY <1>0, <1>8, DisconnectEffect DEF handler_disconnect
  <2>2. \A d \in Registered' : connections[d] # o
    BY <1>0, <2>1 DEF EntriesInv, TableEntriesUsable
  <2>3. handler' = [handler EXCEPT ![o] = "exit"] /\ rt' = rt
    BY <1>8 DEF handler_disconnect
  <2>4. \A d \in Registered' : connections[d] \in Conns
    BY <1>0, <2>1 DEF Registered, TypeOK
  <2>5. \A d \in Registered' :
          handler'[connections'[d]] = handler[connections[d]]
    BY <1>0, <2>1, <2>2, <2>3, <2>4 DEF TypeOK
  <2>6. RegisteredIsRead'
    BY <1>0, <2>1, <2>3, <2>5 DEF RegisteredIsRead
  <2> QED BY <2>1, <2>6
<1>9. ASSUME NEW c, client_disconnect_session_by_convid(c),
             UNCHANGED <<handler, rt>>
      PROVE  (EntriesInv /\ RegisteredIsRead)'
  BY <1>0, <1>9, DisconnectEffect, ShrinkRead
<1>10. ASSUME NEW h \in HelloThreads, ping_send(h) \/ HelloStep(h)
       PROVE  (EntriesInv /\ RegisteredIsRead)'
  <2>1. CASE hello_disconnect(h)
    BY <1>9, <2>1 DEF hello_disconnect
  <2>2. CASE ping_send(h) \/ hello_done(h) \/ hello_timeout(h)
    BY <2>2, SameTable DEF ping_send, hello_done, hello_timeout, table
  <2> QED BY <1>10, <2>1, <2>2 DEF HelloStep
<1>11. ASSUME MainStep \/ TunStep \/ tun_read_error
       PROVE  (EntriesInv /\ RegisteredIsRead)'
  <2>1. CASE ping_disconnect
    BY <1>9, <2>1 DEF ping_disconnect
  <2>2. CASE tun_disconnect
    BY <1>9, <2>2 DEF tun_disconnect
  <2>3. CASE main_check_paths \/ ping_too_old \/ tun_choose \/ tun_send
             \/ tun_read_error
    BY <2>3, SameTable DEF main_check_paths, ping_too_old, tun_choose,
                           tun_send, tun_read_error, table
  <2> QED BY <1>11, <2>1, <2>2, <2>3 DEF MainStep, TunStep
<1>12. ASSUME \/ \E i \in Ifaces : client_disconnect_session_by_ifname(i)
              \/ close_by_ifname_done
              \/ UNCHANGED vars
       PROVE  (EntriesInv /\ RegisteredIsRead)'
  BY <1>12, SameTable DEF client_disconnect_session_by_ifname,
                          close_by_ifname_done, table, vars
<1> QED
  BY <1>1, <1>2, <1>3, <1>4, <1>5, <1>6, <1>7, <1>8, <1>10, <1>11, <1>12
  DEF Next, RouteEvent, RouteStep, IfaceEvent, IfaceStep, HandlerStep, Dead

\* The hash ring and the connection table always name the same convids.
THEOREM RingCorrect == Spec => []RingMatchesTable
<1>1. TableInv => RingMatchesTable
  BY DEF TableInv
<1> QED BY <1>1, InitTable, NextTable, PTL DEF Spec

\* Every connection in the table has an open session and is filed under its
\* own convid.
THEOREM EntriesCorrect == Spec => []TableEntriesUsable
<1>1. TableInv => TableEntriesUsable
  BY DEF TableInv
<1> QED BY <1>1, InitTable, NextTable, PTL DEF Spec

\* Every connection in the table is read, or about to be.
THEOREM ReadersCorrect == Spec => []RegisteredIsRead
<1>1. TableInv => RegisteredIsRead
  BY DEF TableInv
<1> QED BY <1>1, InitTable, NextTable, PTL DEF Spec
-----------------------------------------------------------------------------
(* The reader of the tun.                                                  *)

Spawners == {t \in RouteThreads : rt[t].spawn_tun}

\* TunSpawnedOnce, without counting.
TunInv ==
  /\ iface /\ tun.pc = "none" => \E t \in RouteThreads : Spawners = {t}
  /\ ~(iface /\ tun.pc = "none") => Spawners = {}
  /\ ~iface => tun.pc = "none"

\* TunInv, which speaks of the set of goroutines with spawn_tun set, implies
\* the property that counts them.
LEMMA TunInvCounts == TunInv => TunSpawnedOnce
<1>1. Cardinality({}) = 0 /\ \A t : Cardinality({t}) = 1
  BY FS_EmptySet, FS_Singleton
<1> QED BY <1>1 DEF TunInv, TunSpawnedOnce, Spawners

\* There is no tun at the start.
LEMMA InitTun == Init => TunInv
BY DEF Init, TunInv, Spawners, IdleRoute, RouteAt, TunAt

\* There is no tun after a panic.
LEMMA CrashTun == ASSUME NEW cause, Crash(cause) PROVE TunInv'
BY DEF Crash, TunInv, Spawners, IdleRoute, RouteAt, TunAt

\* A step of a route goroutine that leaves spawn_tun, the tun and its reader
\* alone.
LEMMA SameTun ==
  ASSUME TunInv, iface' = iface, tun'.pc = "none" <=> tun.pc = "none",
         \A t \in RouteThreads : rt'[t].spawn_tun <=> rt[t].spawn_tun
  PROVE  TunInv'
<1>1. Spawners' = Spawners
  BY DEF Spawners
<1> QED BY <1>1 DEF TunInv

\* Every step keeps one reader of the tun.  It matters that the slot search
\* never gives up (its test for slot 100 cannot succeed): a goroutine that
\* returned there would take its duty to start the reader with it.
LEMMA NextTun == TypeInv /\ TunInv /\ [Next]_vars => TunInv'
<1> SUFFICES ASSUME TypeInv, TunInv, [Next]_vars PROVE TunInv'
  OBVIOUS
<1>0. TypeOK /\ Locals
  BY DEF TypeInv
<1>1. ASSUME NEW t \in RouteThreads, NEW s \in Srcs, connect_begin(t, s)
      PROVE  TunInv'
  <2>1. ~rt[t].spawn_tun
    BY <1>0, <1>1 DEF connect_begin, Locals
  <2>2. /\ iface' = TRUE /\ tun' = tun
        /\ rt'[t].spawn_tun = ~iface
        /\ \A u \in RouteThreads \ {t} : rt'[u] = rt[u]
    BY <1>0, <1>1 DEF connect_begin, TypeOK, RouteAt
  <2>3. CASE iface
    <3>1. Spawners' = Spawners
      BY <2>1, <2>2, <2>3 DEF Spawners
    <3> QED BY <2>2, <2>3, <3>1 DEF TunInv
  <2>4. CASE ~iface
    <3>1. Spawners = {} /\ tun.pc = "none"
      BY <2>4 DEF TunInv
    <3>2. Spawners' = {t}
      BY <2>2, <2>4, <3>1 DEF Spawners
    <3> QED BY <2>2, <3>1, <3>2 DEF TunInv
  <2> QED BY <2>3, <2>4
<1>2. ASSUME NEW t \in RouteThreads, wake(t)
      PROVE  TunInv'
  <2>1. /\ iface' = iface
        /\ ~rt'[t].spawn_tun
        /\ \A u \in RouteThreads \ {t} : rt'[u] = rt[u]
    BY <1>0, <1>2 DEF wake, TypeOK, RouteAt
  <2>2. CASE rt[t].spawn_tun
    <3>1. Spawners = {t} /\ iface
      BY <2>2 DEF TunInv, Spawners
    <3>2. Spawners' = {}
      BY <2>1, <3>1 DEF Spawners
    <3>3. tun'.pc = "read"
      BY <1>2, <2>2 DEF wake, TunAt
    <3> QED BY <2>1, <3>1, <3>2, <3>3 DEF TunInv
  <2>3. CASE ~rt[t].spawn_tun
    <3>1. tun' = tun
      BY <1>2, <2>3 DEF wake
    <3>2. \A u \in RouteThreads : rt'[u].spawn_tun <=> rt[u].spawn_tun
      BY <2>1, <2>3
    <3> QED BY <2>1, <3>1, <3>2, SameTun
  <2> QED BY <2>2, <2>3
<1>3. ASSUME NEW t \in RouteThreads, find_slot(t)
      PROVE  TunInv'
  <2>1. rt[t].avail \in Convids
    BY <1>0, <1>3 DEF find_slot, Locals
  <2>2. rt[t].avail # TunnelId + SlotLimit
    BY <2>1, BoundsAssumption DEF Convids
  <2>3. \A u \in RouteThreads : rt'[u].spawn_tun <=> rt[u].spawn_tun
    BY <1>0, <1>3, <2>2 DEF find_slot, TypeOK, RouteThread
  <2> QED BY <1>3, <2>3, SameTun DEF find_slot
<1>4. ASSUME NEW t \in RouteThreads, register(t)
      PROVE  TunInv'
  <2>1. \A u \in RouteThreads : rt'[u].spawn_tun <=> rt[u].spawn_tun
    BY <1>0, <1>4 DEF register, TypeOK, RouteAt
  <2> QED BY <1>4, <2>1, SameTun DEF register
<1>5. ASSUME NEW t \in RouteThreads,
             \/ \E s \in Srcs : client_disconnect_session_by_src(t, s)
             \/ close_by_src_done(t) \/ connect_end(t)
      PROVE  TunInv'
  <2>1. ~rt[t].spawn_tun /\ ~rt'[t].spawn_tun
    BY <1>0, <1>5 DEF client_disconnect_session_by_src, close_by_src_done,
                      connect_end, Locals, TypeOK, RouteAt, IdleRoute
  <2>2. \A u \in RouteThreads \ {t} : rt'[u] = rt[u]
    BY <1>0, <1>5 DEF client_disconnect_session_by_src, close_by_src_done,
                      connect_end, TypeOK
  <2>3. iface' = iface /\ tun' = tun
    BY <1>5 DEF client_disconnect_session_by_src, close_by_src_done,
                connect_end
  <2> QED BY <2>1, <2>2, <2>3, SameTun
<1>6. ASSUME NEW t \in RouteThreads, route_panics(t)
      PROVE  TunInv'
  BY <1>6, CrashTun DEF route_panics, route_update_panics,
         createTun_fails, get_wan_ip_panics, create_session_fails
<1>7. ASSUME TunStep \/ tun_read_error
      PROVE  TunInv'
  <2>1. UNCHANGED <<iface, rt>>
    BY <1>7 DEF TunStep, tun_choose, tun_send, tun_disconnect, tun_read_error
  <2>2. tun.pc # "none" /\ tun'.pc # "none"
    BY <1>7 DEF TunStep, tun_choose, tun_send, tun_disconnect,
                tun_read_error, TunAt
  <2> QED BY <2>1, <2>2, SameTun
<1>8. ASSUME UNCHANGED <<iface, rt, tun>>
      PROVE  TunInv'
  BY <1>8, SameTun
<1>9. ASSUME \/ \E t \in RouteThreads : close_by_src(t)
             \/ \E i \in Ifaces : client_disconnect_session_by_ifname(i)
             \/ close_by_ifname \/ close_by_ifname_done
             \/ \E o \in Conns : HandlerStep(o)
             \/ \E h \in HelloThreads : ping_send(h) \/ HelloStep(h)
             \/ MainStep \/ UNCHANGED vars
      PROVE  UNCHANGED <<iface, rt, tun>>
  BY <1>9 DEF close_by_src, client_disconnect_session_by_ifname,
       close_by_ifname, close_by_ifname_done, HandlerStep, handler_exit,
       handler_fails, handler_disconnect, ping_send, HelloStep, hello_done,
       hello_timeout, hello_disconnect, MainStep, main_check_paths,
       ping_too_old, ping_disconnect, vars
<1> QED
  BY <1>1, <1>2, <1>3, <1>4, <1>5, <1>6, <1>7, <1>8, <1>9
  DEF Next, RouteEvent, RouteStep, IfaceEvent, IfaceStep, Dead

\* However the route goroutines interleave, the tun has exactly one reader, or
\* one goroutine that is about to start it.
THEOREM TunReaderCorrect == Spec => []TunSpawnedOnce
<1>1. Init => TypeInv /\ TunInv
  BY InitType, InitTun
<1>2. (TypeInv /\ TunInv) /\ [Next]_vars => (TypeInv /\ TunInv)'
  BY NextType, NextTun
<1>3. TypeInv /\ TunInv => TunSpawnedOnce
  BY TunInvCounts
<1> QED BY <1>1, <1>2, <1>3, PTL DEF Spec
-----------------------------------------------------------------------------
(* The mux limit.                                                          *)

\* The sets that are counted are finite.
LEMMA Counts ==
  ASSUME NEW s
  PROVE  /\ IsFiniteSet(RegisteredBySrc(s)) /\ IsFiniteSet(Connecting(s))
         /\ Cardinality(RegisteredBySrc(s)) \in Nat
         /\ Cardinality(Connecting(s)) \in Nat
         /\ Cardinality(Connecting(s)) <= Cardinality(RouteThreads)
         /\ Cardinality(RouteThreads) \in Nat \ {0}
<1>1. IsFiniteSet(Convids)
  BY BoundsAssumption, FS_Interval DEF Convids
<1>2. RegisteredBySrc(s) \in SUBSET Convids
  BY DEF RegisteredBySrc, Registered
<1>3. IsFiniteSet(RegisteredBySrc(s))
  BY <1>1, <1>2, FS_Subset
<1>4. Connecting(s) \in SUBSET RouteThreads
  BY DEF Connecting
<1>5. /\ IsFiniteSet(Connecting(s))
      /\ Cardinality(Connecting(s)) <= Cardinality(RouteThreads)
  BY <1>4, ThreadsAssumption, FS_Subset
<1>6. Cardinality(RouteThreads) \in Nat \ {0}
  BY ThreadsAssumption, FS_CardinalityType, FS_EmptySet
<1> QED BY <1>3, <1>5, <1>6, FS_CardinalityType

\* A step that adds neither a connection nor a connecting goroutine.
LEMMA Fewer ==
  ASSUME MuxOvershootBounded,
         \A s \in Srcs : /\ RegisteredBySrc(s)' \subseteq RegisteredBySrc(s)
                         /\ Connecting(s)' \subseteq Connecting(s)
  PROVE  MuxOvershootBounded'
<1> SUFFICES ASSUME NEW s \in Srcs
             PROVE  Cardinality(RegisteredBySrc(s)')
                      + Cardinality(Connecting(s)')
                    <= g_mux_max - 1 + Cardinality(RouteThreads)
  BY DEF MuxOvershootBounded, client_num_connections_by_src
<1>1. /\ IsFiniteSet(RegisteredBySrc(s)') 
      /\ Cardinality(RegisteredBySrc(s)') <= Cardinality(RegisteredBySrc(s))
  BY Counts, FS_Subset
<1>2. /\ IsFiniteSet(Connecting(s)') 
      /\ Cardinality(Connecting(s)') <= Cardinality(Connecting(s))
  BY Counts, FS_Subset
<1>3. /\ Cardinality(RegisteredBySrc(s)') \in Nat
      /\ Cardinality(Connecting(s)') \in Nat
  BY <1>1, <1>2, FS_CardinalityType
<1>4. Cardinality(RegisteredBySrc(s)) + Cardinality(Connecting(s))
        <= g_mux_max - 1 + Cardinality(RouteThreads)
  BY DEF MuxOvershootBounded, client_num_connections_by_src
<1> QED BY <1>1, <1>2, <1>3, <1>4, Counts, BoundsAssumption

\* A step that removes entries of the table, or none.
LEMMA FewerEntries ==
  ASSUME MuxOvershootBounded, Registered' \subseteq Registered,
         \A d \in Registered' : SrcOf(d)' = SrcOf(d),
         \A t \in RouteThreads : \/ rt'[t].pc \notin {"scan", "wanip"}
                                 \/ /\ rt[t].pc \in {"scan", "wanip"}
                                    /\ rt'[t].src = rt[t].src
  PROVE  MuxOvershootBounded'
<1>1. \A s \in Srcs : /\ RegisteredBySrc(s)' \subseteq RegisteredBySrc(s)
                      /\ Connecting(s)' \subseteq Connecting(s)
  BY DEF RegisteredBySrc, Connecting
<1> QED BY <1>1, Fewer

\* At the start no connection and no connecting goroutine is counted.
LEMMA InitMux == Init => MuxOvershootBounded
<1> SUFFICES ASSUME Init, NEW s \in Srcs
             PROVE  client_num_connections_by_src(s)
                      + Cardinality(Connecting(s))
                    <= g_mux_max - 1 + Cardinality(RouteThreads)
  BY DEF MuxOvershootBounded
<1>1. RegisteredBySrc(s) = {} /\ Connecting(s) = {}
  BY DEF Init, RegisteredBySrc, Registered, Connecting, IdleRoute, RouteAt
<1> QED BY <1>1, Counts, FS_EmptySet, BoundsAssumption
        DEF client_num_connections_by_src

\* Every step keeps the bound: only connect_begin adds to the count, after it
\* has seen fewer than g_mux_max connections; register moves one from the
\* connecting goroutines to the table.
LEMMA NextMux == TableInv /\ MuxOvershootBounded /\ [Next]_vars
                   => MuxOvershootBounded'
<1> SUFFICES ASSUME TableInv, MuxOvershootBounded, [Next]_vars
             PROVE  MuxOvershootBounded'
  OBVIOUS
<1>0. TypeOK /\ Locals /\ EntriesInv
  BY DEF TableInv, TypeInv, EntriesInv
<1>1. ASSUME NEW t \in RouteThreads, NEW s \in Srcs, connect_begin(t, s)
      PROVE  MuxOvershootBounded'
  <2> SUFFICES ASSUME NEW r \in Srcs
               PROVE  Cardinality(RegisteredBySrc(r)')
                        + Cardinality(Connecting(r)')
                      <= g_mux_max - 1 + Cardinality(RouteThreads)
    BY DEF MuxOvershootBounded, client_num_connections_by_src
  <2>1. RegisteredBySrc(r)' = RegisteredBySrc(r)
    BY <1>1 DEF connect_begin, table, RegisteredBySrc, Registered, SrcOf
  <2>2. CASE r = s
    <3>1. Cardinality(RegisteredBySrc(r)) < g_mux_max
      BY <1>1, <2>2 DEF connect_begin, WantsConnection,
                        client_num_connections_by_src
    <3>2. Connecting(r)' \in SUBSET RouteThreads
      BY DEF Connecting
    <3>3. /\ IsFiniteSet(Connecting(r)')
          /\ Cardinality(Connecting(r)') <= Cardinality(RouteThreads)
      BY <3>2, ThreadsAssumption, FS_Subset
    <3>4. Cardinality(Connecting(r)') \in Nat
      BY <3>3, FS_CardinalityType
    <3> QED BY <2>1, <3>1, <3>3, <3>4, Counts, BoundsAssumption
  <2>3. CASE r # s
    <3>1. Connecting(r)' = Connecting(r)
      BY <1>0, <1>1, <2>3 DEF connect_begin, Connecting, TypeOK, RouteAt
    <3> QED BY <2>1, <3>1 DEF MuxOvershootBounded,
                              client_num_connections_by_src
  <2> QED BY <2>2, <2>3
<1>2. ASSUME NEW t \in RouteThreads, register(t)
      PROVE  MuxOvershootBounded'
  <2> SUFFICES ASSUME NEW r \in Srcs
               PROVE  Cardinality(RegisteredBySrc(r)')
                        + Cardinality(Connecting(r)')
                      <= g_mux_max - 1 + Cardinality(RouteThreads)
    BY DEF MuxOvershootBounded, client_num_connections_by_src
  <2>1. PICK o \in Conns : Registers(t, o)
    BY <1>0, <1>2, RegisterEffect
  <2>2. Cardinality(RegisteredBySrc(r)) + Cardinality(Connecting(r))
          <= g_mux_max - 1 + Cardinality(RouteThreads)
    BY DEF MuxOvershootBounded, client_num_connections_by_src
  <2>3. Connecting(r)' = Connecting(r) \ {t}
    BY <2>1 DEF Connecting, Registers
  <2>4. CASE rt[t].src = r
    <3>1. RegisteredBySrc(r)' \subseteq RegisteredBySrc(r) \cup {rt[t].avail}
      BY <2>1 DEF RegisteredBySrc, SrcOf, Registers
    <3>2. /\ IsFiniteSet(RegisteredBySrc(r) \cup {rt[t].avail})
          /\ Cardinality(RegisteredBySrc(r) \cup {rt[t].avail})
               <= Cardinality(RegisteredBySrc(r)) + 1
          /\ Cardinality(RegisteredBySrc(r) \cup {rt[t].avail}) \in Nat
      <4>1. /\ IsFiniteSet(RegisteredBySrc(r))
            /\ Cardinality(RegisteredBySrc(r)) \in Nat
        BY Counts
      <4>2. /\ IsFiniteSet(RegisteredBySrc(r) \cup {rt[t].avail})
            /\ Cardinality(RegisteredBySrc(r) \cup {rt[t].avail}) =
                 IF rt[t].avail \in RegisteredBySrc(r)
                 THEN Cardinality(RegisteredBySrc(r))
                 ELSE Cardinality(RegisteredBySrc(r)) + 1
        BY <4>1, FS_AddElement
      <4> QED BY <4>1, <4>2
    <3>3. /\ IsFiniteSet(RegisteredBySrc(r)')
          /\ Cardinality(RegisteredBySrc(r)')
               <= Cardinality(RegisteredBySrc(r) \cup {rt[t].avail})
      BY <3>1, <3>2, FS_Subset
    <3>4. Cardinality(RegisteredBySrc(r)') \in Nat
      BY <3>3, FS_CardinalityType
    <3>5. t \in Connecting(r)
      BY <2>1, <2>4 DEF Connecting, Registers
    <3>6. Cardinality(Connecting(r) \ {t}) = Cardinality(Connecting(r)) - 1
      BY <3>5, Counts, FS_RemoveElement
    <3> QED BY <2>2, <2>3, <3>2, <3>3, <3>4, <3>6, Counts, BoundsAssumption
  <2>5. CASE rt[t].src # r
    <3>1. RegisteredBySrc(r)' \subseteq RegisteredBySrc(r)
      BY <2>1, <2>5 DEF RegisteredBySrc, SrcOf, Registers
    <3>2. /\ IsFiniteSet(RegisteredBySrc(r)')
          /\ Cardinality(RegisteredBySrc(r)')
               <= Cardinality(RegisteredBySrc(r))
      BY <3>1, Counts, FS_Subset
    <3>3. Cardinality(RegisteredBySrc(r)') \in Nat
      BY <3>2, FS_CardinalityType
    <3>4. Connecting(r)' = Connecting(r)
      BY <2>3, <2>5 DEF Connecting
    <3> QED BY <2>2, <3>2, <3>3, <3>4, Counts, BoundsAssumption
  <2> QED BY <2>4, <2>5
<1>3. ASSUME NEW c \in Registered, client_close_connection(c), rt' = rt
      PROVE  MuxOvershootBounded'
  BY <1>0, <1>3, CloseEffect, FewerEntries
<1>4. ASSUME NEW c, client_disconnect_session_by_convid(c), rt' = rt
      PROVE  MuxOvershootBounded'
  BY <1>0, <1>4, DisconnectEffect, FewerEntries
<1>5. ASSUME UNCHANGED <<connections, conn>>,
             \A t \in RouteThreads : \/ rt'[t].pc \notin {"scan", "wanip"}
                                     \/ /\ rt[t].pc \in {"scan", "wanip"}
                                        /\ rt'[t].src = rt[t].src
      PROVE  MuxOvershootBounded'
  <2>1. Registered' = Registered /\ \A d \in Registered : SrcOf(d)' = SrcOf(d)
    BY <1>5 DEF Registered, SrcOf
  <2> QED BY <1>5, <2>1, FewerEntries
<1>6. ASSUME NEW t \in RouteThreads,
             \/ \E s \in Srcs : client_disconnect_session_by_src(t, s)
             \/ close_by_src_done(t) \/ find_slot(t) \/ wake(t)
             \/ connect_end(t)
      PROVE  MuxOvershootBounded'
  <2>1. UNCHANGED <<connections, conn>>
    BY <1>6 DEF client_disconnect_session_by_src, close_by_src_done,
                find_slot, wake, connect_end, table
  <2>2. \A u \in RouteThreads : \/ rt'[u].pc \notin {"scan", "wanip"}
                                \/ /\ rt[u].pc \in {"scan", "wanip"}
                                   /\ rt'[u].src = rt[u].src
    BY <1>0, <1>6 DEF client_disconnect_session_by_src, close_by_src_done,
         find_slot, wake, connect_end, TypeOK, RouteThread, RouteAt, IdleRoute
  <2> QED BY <1>5, <2>1, <2>2
<1>7. ASSUME NEW t \in RouteThreads, route_panics(t)
      PROVE  MuxOvershootBounded'
  <2>1. /\ connections' = [c \in Convids |-> NoConn]
        /\ rt' = [u \in RouteThreads |-> IdleRoute]
    BY <1>7 DEF route_panics, route_update_panics,
         createTun_fails, get_wan_ip_panics, create_session_fails,
         Crash
  <2>2. Registered' = {}
    BY <2>1 DEF Registered
  <2>3. \A u \in RouteThreads : rt'[u].pc \notin {"scan", "wanip"}
    BY <2>1 DEF IdleRoute, RouteAt
  <2> QED BY <2>2, <2>3, FewerEntries
<1>8. ASSUME \/ \E t \in RouteThreads : close_by_src(t)
             \/ close_by_ifname
      PROVE  MuxOvershootBounded'
  <2>1. rt' = rt /\ \E c \in Registered : client_close_connection(c)
    BY <1>8 DEF close_by_src, close_by_ifname, RegisteredBySrc,
                RegisteredByIfname
  <2> QED BY <1>3, <2>1
<1>9. ASSUME \/ \E o \in Conns : handler_disconnect(o)
             \/ \E h \in HelloThreads : hello_disconnect(h)
             \/ ping_disconnect \/ tun_disconnect
      PROVE  MuxOvershootBounded'
  <2>1. rt' = rt /\ \E c : client_disconnect_session_by_convid(c)
    BY <1>9 DEF handler_disconnect, hello_disconnect, ping_disconnect,
                tun_disconnect
  <2> QED BY <1>4, <2>1
<1>10. ASSUME \/ \E i \in Ifaces : client_disconnect_session_by_ifname(i)
              \/ close_by_ifname_done
              \/ \E o \in Conns : handler_exit(o) \/ handler_fails(o)
              \/ \E h \in HelloThreads : ping_send(h) \/ hello_done(h)
                                         \/ hello_timeout(h)
              \/ main_check_paths \/ ping_too_old
              \/ tun_choose \/ tun_send \/ tun_read_error
              \/ UNCHANGED vars
       PROVE  MuxOvershootBounded'
  <2>1. UNCHANGED <<connections, conn, rt>>
    BY <1>10 DEF client_disconnect_session_by_ifname, close_by_ifname_done,
         handler_exit, handler_fails, ping_send, hello_done, hello_timeout,
         main_check_paths, ping_too_old, tun_choose, tun_send,
         tun_read_error, vars, table
  <2>2. Registered' = Registered /\ \A d \in Registered : SrcOf(d)' = SrcOf(d)
    BY <2>1 DEF Registered, SrcOf
  <2>3. \A s \in Srcs : /\ RegisteredBySrc(s)' = RegisteredBySrc(s)
                        /\ Connecting(s)' = Connecting(s)
    BY <2>1, <2>2 DEF RegisteredBySrc, Connecting
  <2> QED BY <2>3, Fewer
<1> QED
  BY <1>1, <1>2, <1>6, <1>7, <1>8, <1>9, <1>10
  DEF Next, RouteEvent, RouteStep, IfaceEvent, IfaceStep, HandlerStep, HelloStep,
      MainStep, TunStep, Dead

\* Whatever interleaving, the connections of a source and the goroutines
\* connecting it never exceed the mux limit by more than the number of route
\* goroutines less one.
THEOREM MuxCorrect == Spec => []MuxOvershootBounded
<1>1. Init => TableInv /\ MuxOvershootBounded
  BY InitTable, InitMux
<1>2. (TableInv /\ MuxOvershootBounded) /\ [Next]_vars
        => (TableInv /\ MuxOvershootBounded)'
  BY NextTable, NextMux
<1> QED BY <1>1, <1>2, PTL DEF Spec

-----------------------------------------------------------------------------
(* The client implements BondTable.                                        *)

\* Closing a connection is the abstract Close of its convid.
LEMMA CloseIsClose ==
  ASSUME TypeOK, NEW c \in Registered, client_close_connection(c)
  PROVE  Table!Close(c)
<1>1. c \in Convids /\ connections[c] \in Conns /\ connections[c] # NoConn
  BY DEF TypeOK, Registered
<1>2. [o \in Conns |-> conn'[o].session] =
        [[o \in Conns |-> conn[o].session] EXCEPT ![connections[c]] = "closed"]
  BY <1>1 DEF client_close_connection, TypeOK, ServerConnection
<1> QED BY <1>1, <1>2 DEF Table!Close, Table!Bonded, client_close_connection

\* A disconnect by convid closes one member or leaves the table alone.
LEMMA DisconnectIsClose ==
  ASSUME TypeOK, NEW c, client_disconnect_session_by_convid(c)
  PROVE  [Table!Next]_(Table!bondvars)
<1>1. CASE c \in Registered
  <2>1. Table!Close(c) /\ c \in Convids
    BY <1>1, CloseIsClose DEF client_disconnect_session_by_convid, Registered
  <2> QED BY <2>1 DEF Table!Next
<1>2. CASE c \notin Registered
  BY <1>2 DEF client_disconnect_session_by_convid, table, Table!bondvars
<1> QED BY <1>1, <1>2

\* A crash is the abstract Die.
LEMMA CrashIsDie ==
  ASSUME NEW cause, Crash(cause) PROVE Table!Die
<1>1. conn' = [o \in Conns |-> Unused]
  BY DEF Crash
<1>2. [o \in Conns |-> conn'[o].session] = [o \in Conns |-> "none"]
  BY <1>1 DEF Unused
<1> QED BY <1>2 DEF Table!Die, Crash

\* A registration is the abstract Open, displacing whatever is in the slot.
LEMMA RegisterIsOpen ==
  ASSUME TypeOK, Locals, NEW t \in RouteThreads, register(t)
  PROVE  Table!Next
<1>1. PICK o \in Conns :
        /\ Fresh(o)
        /\ connections' = [connections EXCEPT ![rt[t].avail] = o]
        /\ conn' = [conn EXCEPT ![o] = [convid      |-> rt[t].avail,
                                        src_address |-> rt[t].src,
                                        session     |-> "open"]]
  BY DEF register
<1>2. rt[t].avail \in Convids
  BY DEF register, Locals
<1>3. [p \in Conns |-> conn'[p].session] =
        [[p \in Conns |-> conn[p].session] EXCEPT ![o] = "open"]
  BY <1>1 DEF TypeOK, ServerConnection
<1>4. Table!Open(rt[t].avail, o)
  BY <1>1, <1>3 DEF Table!Open, Fresh
<1> QED BY <1>2, <1>4 DEF Table!Next

\* Every step of the client is a step of the table or does not show in it.
LEMMA NextImplements ==
  TypeInv /\ [Next]_vars => [Table!Next]_(Table!bondvars)
<1> SUFFICES ASSUME TypeInv, [Next]_vars
             PROVE  [Table!Next]_(Table!bondvars)
  OBVIOUS
<1>0. TypeOK /\ Locals
  BY DEF TypeInv
<1>1. ASSUME UNCHANGED <<connections, conn>>
      PROVE  [Table!Next]_(Table!bondvars)
  BY <1>1 DEF Table!bondvars
<1>2. ASSUME NEW c \in Registered, client_close_connection(c)
      PROVE  [Table!Next]_(Table!bondvars)
  BY <1>0, <1>2, CloseIsClose DEF Table!Next, Registered
<1>3. ASSUME NEW t \in RouteThreads, RouteEvent(t) \/ RouteStep(t)
      PROVE  [Table!Next]_(Table!bondvars)
  <2>1. CASE register(t)
    BY <1>0, <2>1, RegisterIsOpen
  <2>2. CASE close_by_src(t)
    <3>1. PICK c \in Registered : client_close_connection(c)
      BY <2>2 DEF close_by_src, RegisteredBySrc
    <3> QED BY <1>2, <3>1
  <2>3. CASE \/ RouteEvent(t) \/ find_slot(t) \/ wake(t) \/ connect_end(t)
             \/ close_by_src_done(t)
    BY <1>1, <2>3 DEF RouteEvent, connect_begin, find_slot, wake, connect_end,
         client_disconnect_session_by_src, close_by_src_done, table
  <2> QED BY <1>3, <2>1, <2>2, <2>3 DEF RouteStep
<1>4. ASSUME NEW t \in RouteThreads, route_panics(t)
      PROVE  [Table!Next]_(Table!bondvars)
  BY <1>4, CrashIsDie DEF route_panics, route_update_panics,
         createTun_fails, get_wan_ip_panics, create_session_fails, Table!Next
<1>5. ASSUME IfaceEvent \/ IfaceStep
      PROVE  [Table!Next]_(Table!bondvars)
  <2>1. CASE close_by_ifname
    <3>1. PICK c \in Registered : client_close_connection(c)
      BY <2>1 DEF close_by_ifname, RegisteredByIfname
    <3> QED BY <1>2, <3>1
  <2>2. CASE IfaceEvent \/ close_by_ifname_done
    BY <1>1, <2>2 DEF IfaceEvent, client_disconnect_session_by_ifname,
                      close_by_ifname_done, table
  <2> QED BY <1>5, <2>1, <2>2 DEF IfaceStep
<1>6. ASSUME NEW o \in Conns, HandlerStep(o)
      PROVE  [Table!Next]_(Table!bondvars)
  BY <1>0, <1>1, <1>6, DisconnectIsClose
  DEF HandlerStep, handler_exit, handler_fails, handler_disconnect, table
<1>7. ASSUME NEW h \in HelloThreads, ping_send(h) \/ HelloStep(h)
      PROVE  [Table!Next]_(Table!bondvars)
  BY <1>0, <1>1, <1>7, DisconnectIsClose
  DEF HelloStep, ping_send, hello_done, hello_timeout, hello_disconnect, table
<1>8. ASSUME MainStep \/ TunStep \/ tun_read_error
      PROVE  [Table!Next]_(Table!bondvars)
  BY <1>0, <1>1, <1>8, DisconnectIsClose
  DEF MainStep, TunStep, main_check_paths, ping_too_old, ping_disconnect,
      tun_choose, tun_send, tun_disconnect, tun_read_error, table
<1>9. CASE UNCHANGED vars
  BY <1>1, <1>9 DEF vars, table
<1> QED BY <1>3, <1>4, <1>5, <1>6, <1>7, <1>8, <1>9 DEF Next, Dead

\* The client implements the abstract table for every number of goroutines,
\* sources and slots: connections leave it closed or displaced, never otherwise.
THEOREM ClientImplementsTable == Spec => ImplementsTable
<1>1. Init => Table!Init
  <2> SUFFICES ASSUME Init PROVE Table!Init
    OBVIOUS
  <2>1. [o \in Conns |-> conn[o].session] = [o \in Conns |-> "none"]
    BY DEF Init, Unused
  <2> QED BY <2>1 DEF Init, Table!Init
<1> QED BY <1>1, InitType, NextType, NextImplements, PTL
        DEF Spec, ImplementsTable, Table!Spec

=============================================================================
