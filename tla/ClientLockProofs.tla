-------------------------- MODULE ClientLockProofs --------------------------
(***************************************************************************)
(* The lock discipline of the client: what server.mu guarantees to the two *)
(* loops that close several connections, for any number of goroutines.     *)
(***************************************************************************)
EXTENDS ClientBondProofs

-----------------------------------------------------------------------------
(* The holder of server.mu.                                                *)

\* Whoever holds server.mu between steps is in one of the two closing loops,
\* and whoever is in a closing loop holds it.
LockInv ==
  /\ mu = IfaceThread <=> downif # None
  /\ \A t \in RouteThreads : mu = t <=> rt[t].pc = "delsrc"

\* Nobody holds the lock at the start.
LEMMA InitLock == Init => LockInv
BY ThreadsAssumption DEF Init, LockInv, IdleRoute, RouteAt

\* A step that leaves the lock and the closing loops alone.
LEMMA SameLock ==
  ASSUME LockInv, UNCHANGED <<mu, downif>>,
         \A t \in RouteThreads : rt'[t].pc = "delsrc" <=> rt[t].pc = "delsrc"
  PROVE  LockInv'
BY DEF LockInv

\* Every step keeps the lock with the loop that took it.
LEMMA NextLock == TypeInv /\ LockInv /\ [Next]_vars => LockInv'
<1> SUFFICES ASSUME TypeInv, LockInv, [Next]_vars PROVE LockInv'
  OBVIOUS
<1>0. TypeOK /\ Locals
  BY DEF TypeInv
<1>1. ASSUME NEW t \in RouteThreads, NEW s \in Srcs,
             client_disconnect_session_by_src(t, s)
      PROVE  LockInv'
  <2>1. /\ mu = None /\ mu' = t /\ downif' = downif
        /\ rt'[t].pc = "delsrc"
        /\ \A u \in RouteThreads \ {t} : rt'[u] = rt[u]
    BY <1>0, <1>1 DEF client_disconnect_session_by_src, CanLock, TypeOK,
                      RouteAt
  <2> QED BY <2>1, ThreadsAssumption DEF LockInv
<1>2. ASSUME NEW t \in RouteThreads, close_by_src_done(t)
      PROVE  LockInv'
  <2>1. /\ mu = t /\ mu' = None /\ downif' = downif
        /\ rt'[t].pc = "idle"
        /\ \A u \in RouteThreads \ {t} : rt'[u] = rt[u]
    BY <1>0, <1>2 DEF close_by_src_done, LockInv, TypeOK, IdleRoute, RouteAt
  <2> QED BY <2>1, ThreadsAssumption DEF LockInv
<1>3. ASSUME NEW i \in Ifaces, client_disconnect_session_by_ifname(i)
      PROVE  LockInv'
  BY <1>3, ThreadsAssumption, WanAssumption
  DEF client_disconnect_session_by_ifname, CanLock, LockInv
<1>4. ASSUME close_by_ifname_done
      PROVE  LockInv'
  BY <1>4, ThreadsAssumption DEF close_by_ifname_done, LockInv
<1>5. ASSUME NEW t \in RouteThreads, route_panics(t)
      PROVE  LockInv'
  <2>1. /\ mu' = None /\ downif' = None
        /\ rt' = [u \in RouteThreads |-> IdleRoute]
    BY <1>5 DEF route_panics, route_update_panics, createTun_fails,
                get_wan_ip_panics, create_session_fails, Crash
  <2> QED BY <2>1, ThreadsAssumption DEF LockInv, IdleRoute, RouteAt
<1>6. ASSUME NEW t \in RouteThreads,
             \/ \E s \in Srcs : connect_begin(t, s)
             \/ find_slot(t) \/ register(t) \/ wake(t) \/ connect_end(t)
      PROVE  LockInv'
  <2>1. UNCHANGED <<mu, downif>>
    BY <1>6 DEF connect_begin, find_slot, register, wake, connect_end
  <2>2. rt[t].pc # "delsrc" /\ rt'[t].pc # "delsrc"
    BY <1>0, <1>6 DEF connect_begin, find_slot, register, wake, connect_end,
                      TypeOK, RouteThread, RouteAt, IdleRoute
  <2>3. \A u \in RouteThreads \ {t} : rt'[u] = rt[u]
    BY <1>0, <1>6 DEF connect_begin, find_slot, register, wake, connect_end,
                      TypeOK
  <2> QED BY <2>1, <2>2, <2>3, SameLock
<1>7. ASSUME \/ \E t \in RouteThreads : close_by_src(t)
             \/ close_by_ifname
             \/ \E o \in Conns : HandlerStep(o)
             \/ \E h \in HelloThreads : ping_send(h) \/ HelloStep(h)
             \/ MainStep \/ TunStep \/ tun_read_error \/ UNCHANGED vars
      PROVE  LockInv'
  <2>1. UNCHANGED <<mu, downif, rt>>
    BY <1>7 DEF close_by_src, close_by_ifname, HandlerStep, handler_exit,
         handler_fails, handler_disconnect, ping_send, HelloStep, hello_done,
         hello_timeout, hello_disconnect, MainStep, main_check_paths,
         ping_too_old, ping_disconnect, TunStep, tun_choose, tun_send,
         tun_disconnect, tun_read_error, vars
  <2> QED BY <2>1, SameLock
<1> QED
  BY <1>1, <1>2, <1>3, <1>4, <1>5, <1>6, <1>7
  DEF Next, RouteEvent, RouteStep, IfaceEvent, IfaceStep, Dead

-----------------------------------------------------------------------------
(* What a closing loop sees.                                               *)

\* Only the holder of server.mu changes the table: while a closing loop runs,
\* a step that changes server.connections is that loop's own, or a panic.
LEMMA HolderOnly ==
  ASSUME TableInv, LockInv, [Next]_vars, mu # None
  PROVE  \/ connections' = connections
         \/ panic' # "none" /\ last_convid' = 0
         \/ mu = IfaceThread /\ downif # None /\ close_by_ifname
         \/ mu \in RouteThreads /\ rt[mu].pc = "delsrc" /\ close_by_src(mu)
<1>1. ASSUME NEW t \in RouteThreads, close_by_src(t)
      PROVE  mu = t /\ rt[mu].pc = "delsrc"
  BY <1>1 DEF close_by_src, LockInv
<1>2. ASSUME close_by_ifname
      PROVE  mu = IfaceThread /\ downif # None
  BY <1>2 DEF close_by_ifname, LockInv
<1>3. ASSUME NEW t \in RouteThreads, route_panics(t)
      PROVE  panic' # "none" /\ last_convid' = 0
  BY <1>3 DEF route_panics, route_update_panics, createTun_fails,
              get_wan_ip_panics, create_session_fails, Crash
<1>4. ASSUME NEW t \in RouteThreads, RouteEvent(t) \/ RouteStep(t),
             ~close_by_src(t)
      PROVE  connections' = connections
  BY <1>4 DEF RouteEvent, RouteStep, connect_begin, find_slot, register, wake,
       connect_end, client_disconnect_session_by_src, close_by_src_done, table,
       CanLock
<1>5. ASSUME IfaceEvent \/ close_by_ifname_done
      PROVE  connections' = connections
  BY <1>5 DEF IfaceEvent, client_disconnect_session_by_ifname,
              close_by_ifname_done, table
<1>6. ASSUME \/ \E o \in Conns : HandlerStep(o)
             \/ \E h \in HelloThreads : ping_send(h) \/ HelloStep(h)
             \/ MainStep \/ TunStep \/ tun_read_error \/ UNCHANGED vars
      PROVE  connections' = connections
  BY <1>6 DEF HandlerStep, handler_exit, handler_fails, handler_disconnect,
       ping_send, HelloStep, hello_done, hello_timeout, hello_disconnect,
       MainStep, main_check_paths, ping_too_old, ping_disconnect, TunStep,
       tun_choose, tun_send, tun_disconnect, tun_read_error, vars, table,
       client_disconnect_session_by_convid, CanLock
<1> QED BY <1>1, <1>2, <1>3, <1>4, <1>5, <1>6 DEF Next, IfaceStep, Dead

\* server.mu keeps the closing loops alone with the table.
THEOREM LockProtectsLoops == Spec => LoopOwnsTable
<1>1. Init => TableInv /\ LockInv
  BY InitTable, InitLock
<1>2. TableInv /\ LockInv /\ [Next]_vars => TableInv' /\ LockInv'
  BY NextTable, NextLock DEF TableInv
<1>3. TableInv /\ LockInv /\ [Next]_vars
        => [mu # None /\ panic' = "none" =>
              /\ Registered' \subseteq Registered
              /\ \A c \in Registered \ Registered' :
                   IF mu = IfaceThread THEN IfnameOf[SrcOf(c)] = downif
                                       ELSE SrcOf(c) = rt[mu].src]_vars
  <2> SUFFICES ASSUME TableInv, LockInv, [Next]_vars, mu # None,
                      panic' = "none"
               PROVE  /\ Registered' \subseteq Registered
                      /\ \A c \in Registered \ Registered' :
                           IF mu = IfaceThread
                           THEN IfnameOf[SrcOf(c)] = downif
                           ELSE SrcOf(c) = rt[mu].src
    OBVIOUS
  <2>0. TypeOK /\ EntriesInv
    BY DEF TableInv, TypeInv, EntriesInv
  <2>1. CASE connections' = connections
    BY <2>1 DEF Registered
  <2>2. CASE mu = IfaceThread /\ close_by_ifname
    <3>1. PICK c \in RegisteredByIfname(downif) : client_close_connection(c)
      BY <2>2 DEF close_by_ifname
    <3>2. Registered' = Registered \ {c} /\ IfnameOf[SrcOf(c)] = downif
      BY <2>0, <3>1, CloseEffect DEF RegisteredByIfname
    <3> QED BY <2>2, <3>2
  <2>3. CASE mu \in RouteThreads /\ close_by_src(mu)
    <3>1. PICK c \in RegisteredBySrc(rt[mu].src) : client_close_connection(c)
      BY <2>3 DEF close_by_src
    <3>2. Registered' = Registered \ {c} /\ SrcOf(c) = rt[mu].src
      BY <2>0, <3>1, CloseEffect DEF RegisteredBySrc
    <3> QED BY <2>3, <3>2, ThreadsAssumption
  <2> QED BY <2>1, <2>2, <2>3, HolderOnly
<1> QED BY <1>1, <1>2, <1>3, PTL DEF Spec, LoopOwnsTable
=============================================================================
