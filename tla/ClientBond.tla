----------------------------- MODULE ClientBond -----------------------------
(***************************************************************************)
(* The client's side of the bond: the table of KCP connections a ratbond   *)
(* client keeps to its server (serverType in main.go), and the goroutines  *)
(* that share it.                                                          *)
(*                                                                         *)
(*   - route goroutines (netlink_subscribe_routes, and one                 *)
(*     netlink_get_routes every 15 seconds) connect and disconnect;        *)
(*   - the interface goroutine disconnects when a link goes down;          *)
(*   - one client_handle_kcp goroutine reads each connection;              *)
(*   - the main loop pings the connections and checks their hello age;     *)
(*   - client_send_hello goroutines write the pings;                       *)
(*   - client_handle_tun spreads the packets of the tun over the table.    *)
(*                                                                         *)
(* A critical section under server.mu is one step, except the two loops    *)
(* that close several connections: those hold mu over one step per         *)
(* connection, because other goroutines read the table without the lock.   *)
(* Netlink updates, peers and the network are inputs, at any time and in   *)
(* any order.  The creation of the g_server_list entry is part of the      *)
(* first critical section of client_connect_server, and an update that the *)
(* code ignores (main table, no source address, "up") is a stuttering step.*)
(***************************************************************************)
EXTENDS Integers, FiniteSets

CONSTANTS
  Srcs,           \* source addresses of the WAN default routes
  Ifaces,         \* WAN interfaces
  IfnameOf,       \* [Srcs -> Ifaces]: the interface of each source address
  RouteThreads,   \* goroutines that run handle_route_update
  IfaceThread,    \* the goroutine of netlink_subscribe_ifaces
  HelloThreads,   \* bound: goroutines of client_send_hello alive at once
  None,           \* nobody / nothing
  TunnelId,       \* g_tunnel_id
  SlotSpan,       \* last slot the search looks at (10 in the code)
  SlotLimit,      \* slot at which it gives up (100 in the code)
  g_mux_max,      \* connections wanted per source address
  g_use_consistent_hashing,
  MaxConns        \* bound: serverConnection objects created

ASSUME ThreadsAssumption ==
  /\ IsFiniteSet(RouteThreads) /\ RouteThreads # {}
  /\ IfaceThread \notin RouteThreads
  /\ None \notin RouteThreads \cup {IfaceThread}

ASSUME WanAssumption ==
  /\ IfnameOf \in [Srcs -> Ifaces]
  /\ None \notin Srcs \cup Ifaces

ASSUME BoundsAssumption ==
  /\ TunnelId \in Nat \ {0}
  /\ SlotSpan \in Nat
  /\ SlotLimit \in Nat /\ SlotLimit > SlotSpan + 1
  /\ g_mux_max \in Nat \ {0}
  /\ g_use_consistent_hashing \in BOOLEAN
  /\ MaxConns \in Nat

VARIABLES
  panic,          \* "none", or why the Go runtime has killed the process
  mu,             \* holder of server.mu between steps, or None
  downif,         \* interface client_disconnect_session_by_ifname works on
  iface,          \* server.iface: the tun device exists
  connections,    \* server.connections: convid -> object, NoConn if absent
  consistent,     \* server.consistent: the members of the hash ring
  last_convid,    \* server.last_convid: the round robin's memory
  conn,           \* the serverConnection objects
  handler,        \* the client_handle_kcp goroutine of each object
  rt,             \* locals of the route goroutines
  main,           \* connection the ping loop has found too old, or NoConn
  hello,          \* the client_send_hello goroutines
  tun,            \* the client_handle_tun goroutine
  default_route   \* the default route via the tunnel is installed

table == <<connections, consistent, last_convid, conn>>
vars  == <<panic, mu, downif, iface, table, handler, rt, main, hello, tun,
           default_route>>

-----------------------------------------------------------------------------
Conns   == 1..MaxConns
NoConn  == 0
Convids == TunnelId..(TunnelId + SlotSpan + 1)

\* The fields of serverConnection that decide something; session is "closed"
\* once it has been closed and set to nil.
ServerConnection == [convid      : Convids \cup {0},
                     src_address : Srcs \cup {None},
                     session     : {"none", "open", "closed"}]

RouteThread ==
  [pc        : {"idle", "scan", "wanip", "wake", "paths", "delsrc"},
   src       : Srcs \cup {None},
   avail     : Convids \cup {0},
   conn      : Conns \cup {NoConn},
   spawn_tun : BOOLEAN]

HelloThread == [pc : {"idle", "write", "close"}, conn : Conns \cup {NoConn}]

TunThread == [pc     : {"none", "read", "lookup", "close", "exit"},
              convid : Convids \cup {0},
              conn   : Conns \cup {NoConn}]

Unused    == [convid |-> 0, src_address |-> None, session |-> "none"]
RouteAt(p, s, a, o, b) ==
  [pc |-> p, src |-> s, avail |-> a, conn |-> o, spawn_tun |-> b]
IdleRoute == RouteAt("idle", None, 0, NoConn, FALSE)
IdleHello == [pc |-> "idle", conn |-> NoConn]
TunAt(p)  == [pc |-> p, convid |-> 0, conn |-> NoConn]

Registered == {c \in Convids : connections[c] # NoConn}
SrcOf(c)   == conn[connections[c]].src_address
RegisteredBySrc(s)    == {c \in Registered : SrcOf(c) = s}
RegisteredByIfname(i) == {c \in Registered : IfnameOf[SrcOf(c)] = i}

client_num_connections_by_src(s) == Cardinality(RegisteredBySrc(s))

\* The object the next new(serverConnection) returns.
Fresh(o) == /\ conn[o].session = "none"
            /\ \A p \in Conns : p < o => conn[p].session # "none"
Exhausted == \A o \in Conns : conn[o].session # "none"

\* Nobody is inside a critical section that spans several steps: a Lock()
\* would be granted now.
Running == panic = "none"
CanLock == Running /\ mu = None

-----------------------------------------------------------------------------
\* A process that has just started: no connection, and every goroutine
\* waiting for something to do.
Init ==
  /\ panic = "none"
  /\ mu = None
  /\ downif = None
  /\ iface = FALSE
  /\ connections = [c \in Convids |-> NoConn]
  /\ consistent = {}
  /\ last_convid = 0
  /\ conn = [o \in Conns |-> Unused]
  /\ handler = [o \in Conns |-> "none"]
  /\ rt = [t \in RouteThreads |-> IdleRoute]
  /\ main = NoConn
  /\ hello = [h \in HelloThreads |-> IdleHello]
  /\ tun = TunAt("none")
  /\ default_route = FALSE

\* A panic ends every goroutine; the kernel then removes the tun device and
\* the default route through it.
Crash(cause) ==
  /\ panic' = cause
  /\ mu' = None
  /\ downif' = None
  /\ iface' = FALSE
  /\ connections' = [c \in Convids |-> NoConn]
  /\ consistent' = {}
  /\ last_convid' = 0
  /\ conn' = [o \in Conns |-> Unused]
  /\ handler' = [o \in Conns |-> "none"]
  /\ rt' = [t \in RouteThreads |-> IdleRoute]
  /\ main' = NoConn
  /\ hello' = [h \in HelloThreads |-> IdleHello]
  /\ tun' = TunAt("none")
  /\ default_route' = FALSE

-----------------------------------------------------------------------------
(* Closing connections.                                                    *)

\* client_choose_kcp_conn without a packet, over the convids S: any member
\* but the last one, that one when it is alone, 0 when there is none.
RoundRobin(S, last) ==
  IF S = {} THEN {0} ELSE IF S \ {last} # {} THEN S \ {last} ELSE S

\* client_send_linkdown_message announces that c is closed on a connection the
\* round robin, which has just been reset, picks among those left.  The value
\* is the set of convids it may choose, 0 for none: last_convid afterwards.
client_send_linkdown_message(c) == RoundRobin(Registered \ {c}, 0)

\* Faulty: keeps the convid in the ring.
client_close_connection_KeepRing(c) ==
  /\ conn' = [conn EXCEPT ![connections[c]].session = "closed"]
  /\ connections' = [connections EXCEPT ![c] = NoConn]
  /\ last_convid' \in client_send_linkdown_message(c)
  /\ UNCHANGED consistent

\* Faulty: keeps the entry in the table.
client_close_connection_KeepEntry(c) ==
  /\ conn' = [conn EXCEPT ![connections[c]].session = "closed"]
  /\ consistent' = consistent \ {c}
  /\ last_convid' \in client_send_linkdown_message(c)
  /\ UNCHANGED connections

\* Faulty: does not close the session.
client_close_connection_KeepSession(c) ==
  /\ consistent' = consistent \ {c}
  /\ connections' = [connections EXCEPT ![c] = NoConn]
  /\ last_convid' \in client_send_linkdown_message(c)
  /\ UNCHANGED conn

\* client_close_connection on the entry c, and the LINKDOWN that follows.
client_close_connection(c) ==
  /\ conn' = [conn EXCEPT ![connections[c]].session = "closed"]
  /\ consistent' = consistent \ {c}
  /\ connections' = [connections EXCEPT ![c] = NoConn]
  /\ last_convid' \in client_send_linkdown_message(c)

\* client_disconnect_session_by_convid: closes what the table holds under
\* disc_convid now, if anything.  (The code compares the convid field of each
\* entry, which register has made equal to its key.)
client_disconnect_session_by_convid(disc_convid) ==
  /\ CanLock
  /\ IF disc_convid \in Registered
     THEN client_close_connection(disc_convid)
     ELSE UNCHANGED table

\* client_disconnect_session_by_src: lock, close each match, unlock.
client_disconnect_session_by_src(t, s) ==
  /\ CanLock
  /\ rt[t].pc = "idle"
  /\ iface
  /\ mu' = t
  /\ rt' = [rt EXCEPT ![t] = RouteAt("delsrc", s, 0, NoConn, FALSE)]
  /\ UNCHANGED <<panic, downif, iface, table, handler, main, hello, tun,
                 default_route>>

close_by_src(t) ==
  /\ Running
  /\ rt[t].pc = "delsrc"
  /\ \E c \in RegisteredBySrc(rt[t].src) : client_close_connection(c)
  /\ UNCHANGED <<panic, mu, downif, iface, handler, rt, main, hello, tun,
                 default_route>>

close_by_src_done(t) ==
  /\ Running
  /\ rt[t].pc = "delsrc"
  /\ RegisteredBySrc(rt[t].src) = {}
  /\ mu' = None
  /\ rt' = [rt EXCEPT ![t] = IdleRoute]
  /\ UNCHANGED <<panic, downif, iface, table, handler, main, hello, tun,
                 default_route>>

\* client_disconnect_session_by_ifname, called for an interface that goes
\* down; it returns when the server is not in g_server_list yet.
client_disconnect_session_by_ifname(i) ==
  /\ CanLock
  /\ downif = None
  /\ iface
  /\ mu' = IfaceThread
  /\ downif' = i
  /\ UNCHANGED <<panic, iface, table, handler, rt, main, hello, tun,
                 default_route>>

close_by_ifname ==
  /\ Running
  /\ downif # None
  /\ \E c \in RegisteredByIfname(downif) : client_close_connection(c)
  /\ UNCHANGED <<panic, mu, downif, iface, handler, rt, main, hello, tun,
                 default_route>>

\* Faulty: returns without Unlock.
close_by_ifname_done_KeepLock ==
  /\ Running
  /\ downif # None
  /\ RegisteredByIfname(downif) = {}
  /\ downif' = None
  /\ UNCHANGED <<panic, mu, iface, table, handler, rt, main, hello, tun,
                 default_route>>

close_by_ifname_done ==
  /\ Running
  /\ downif # None
  /\ RegisteredByIfname(downif) = {}
  /\ mu' = None
  /\ downif' = None
  /\ UNCHANGED <<panic, iface, table, handler, rt, main, hello, tun,
                 default_route>>

-----------------------------------------------------------------------------
(* client_connect_server, called for a default route with source s.        *)

\* Faulty: off by one.
WantsConnection_OneMore(s) == client_num_connections_by_src(s) <= g_mux_max

\* Faulty: connects only as long as there is no tun.
WantsConnection_FirstOnly(s) == ~iface

\* num < g_mux_max.
WantsConnection(s) == client_num_connections_by_src(s) < g_mux_max

\* Faulty: forgets that it has created the tun.
connect_begin_ForgetTun(t, s) ==
  /\ CanLock
  /\ rt[t].pc = "idle"
  /\ WantsConnection(s)
  /\ rt' = [rt EXCEPT ![t] = RouteAt("scan", s, TunnelId, NoConn, ~iface)]
  /\ UNCHANGED <<panic, mu, downif, iface, table, handler, main, hello, tun,
                 default_route>>

\* First critical section.  The tun is created for the first connection.
connect_begin(t, s) ==
  /\ CanLock
  /\ rt[t].pc = "idle"
  /\ WantsConnection(s)
  /\ iface' = TRUE
  /\ rt' = [rt EXCEPT ![t] = RouteAt("scan", s, TunnelId, NoConn, ~iface)]
  /\ UNCHANGED <<panic, mu, downif, table, handler, main, hello, tun,
                 default_route>>

\* The search for an open slot reads the table without the lock.
SlotTaken(a) == a <= TunnelId + SlotSpan /\ a \in Registered

\* Faulty: advances in the loop's body as well as in its header.
find_slot_Twice(t) ==
  /\ Running
  /\ rt[t].pc = "scan"
  /\ rt' = IF SlotTaken(rt[t].avail)
           THEN [rt EXCEPT ![t].avail = @ + 2]
           ELSE [rt EXCEPT ![t].pc = "wanip"]
  /\ UNCHANGED <<panic, mu, downif, iface, table, handler, main, hello, tun,
                 default_route>>

find_slot(t) ==
  /\ Running
  /\ rt[t].pc = "scan"
  /\ rt' = IF SlotTaken(rt[t].avail)
           THEN [rt EXCEPT ![t].avail = @ + 1]
           ELSE IF rt[t].avail = TunnelId + SlotLimit
                THEN [rt EXCEPT ![t] = IdleRoute]
                ELSE [rt EXCEPT ![t].pc = "wanip"]
  /\ UNCHANGED <<panic, mu, downif, iface, table, handler, main, hello, tun,
                 default_route>>

\* Faulty: takes the lock for the first critical section only.
register_Unlocked(t) ==
  /\ Running
  /\ rt[t].pc = "wanip"
  /\ \E o \in Conns :
       /\ Fresh(o)
       /\ connections' = [connections EXCEPT ![rt[t].avail] = o]
       /\ conn' = [conn EXCEPT ![o] = [convid      |-> rt[t].avail,
                                       src_address |-> rt[t].src,
                                       session     |-> "open"]]
       /\ rt' = [rt EXCEPT ![t] = RouteAt("wake", @.src, @.avail, o,
                                          @.spawn_tun)]
  /\ consistent' = consistent \cup {rt[t].avail}
  /\ last_convid' = 0
  /\ UNCHANGED <<panic, mu, downif, iface, handler, main, hello, tun,
                 default_route>>

\* get_wan_ip has answered, or failed: second critical section.
register(t) ==
  /\ CanLock
  /\ rt[t].pc = "wanip"
  /\ \E o \in Conns :
       /\ Fresh(o)
       /\ connections' = [connections EXCEPT ![rt[t].avail] = o]
       /\ conn' = [conn EXCEPT ![o] = [convid      |-> rt[t].avail,
                                       src_address |-> rt[t].src,
                                       session     |-> "open"]]
       /\ rt' = [rt EXCEPT ![t] = RouteAt("wake", @.src, @.avail, o,
                                          @.spawn_tun)]
  /\ consistent' = consistent \cup {rt[t].avail}
  /\ last_convid' = 0
  /\ UNCHANGED <<panic, mu, downif, iface, handler, main, hello, tun,
                 default_route>>

\* The first hello has been written; start the goroutines.
wake(t) ==
  /\ Running
  /\ rt[t].pc = "wake"
  /\ handler' = [handler EXCEPT ![rt[t].conn] = "read"]
  /\ tun' = IF rt[t].spawn_tun THEN TunAt("read") ELSE tun
  /\ rt' = [rt EXCEPT ![t] = RouteAt("paths", None, 0, NoConn, FALSE)]
  /\ UNCHANGED <<panic, mu, downif, iface, table, main, hello,
                 default_route>>

\* Faulty: adds the route but never removes it.
client_check_paths_AddOnly ==
  /\ CanLock
  /\ default_route' = (default_route \/ Registered # {})

client_check_paths ==
  /\ CanLock
  /\ default_route' = (Registered # {})

connect_end(t) ==
  /\ rt[t].pc = "paths"
  /\ client_check_paths
  /\ rt' = [rt EXCEPT ![t] = IdleRoute]
  /\ UNCHANGED <<panic, mu, downif, iface, table, handler, main, hello, tun>>

-----------------------------------------------------------------------------
(* Failures that end the process.                                          *)

\* handle_route_update logs that the interface of the route is gone, and
\* client_disconnect_session_by_src that g_server_list has no entry yet; both
\* then use the nil they have found.
route_update_panics(t) ==
  /\ Running
  /\ rt[t].pc = "idle"
  /\ \/ Crash("nil interface")
     \/ ~iface /\ Crash("nil server")

\* createTun fails; client_connect_server logs it and asks nil for its name.
createTun_fails(t) ==
  /\ CanLock
  /\ rt[t].pc = "idle"
  /\ ~iface
  /\ Crash("nil tun")

\* get_wan_ip takes the first of the interface's IPv4 addresses when there is
\* none.
get_wan_ip_panics(t) ==
  /\ Running
  /\ rt[t].pc = "wanip"
  /\ Crash("no address")

\* create_session cannot bind to the source address: Panicf, with mu held.
create_session_fails(t) ==
  /\ CanLock
  /\ rt[t].pc = "wanip"
  /\ Crash("kcp conn create error")

route_panics(t) == \/ route_update_panics(t) \/ createTun_fails(t)
                   \/ get_wan_ip_panics(t) \/ create_session_fails(t)

-----------------------------------------------------------------------------
(* client_handle_kcp of the object o.                                      *)

\* The session was set to nil by whoever closed it.
handler_exit(o) ==
  /\ Running
  /\ handler[o] = "read"
  /\ conn[o].session = "closed"
  /\ handler' = [handler EXCEPT ![o] = "exit"]
  /\ UNCHANGED <<panic, mu, downif, iface, table, rt, main, hello, tun,
                 default_route>>

\* Faulty: returns without disconnecting.
handler_fails_Return(o) ==
  /\ Running
  /\ handler[o] = "read"
  /\ handler' = [handler EXCEPT ![o] = "exit"]
  /\ UNCHANGED <<panic, mu, downif, iface, table, rt, main, hello, tun,
                 default_route>>

\* KCP says dead, too many read timeouts, or a read error.
handler_fails(o) ==
  /\ Running
  /\ handler[o] = "read"
  /\ handler' = [handler EXCEPT ![o] = "close"]
  /\ UNCHANGED <<panic, mu, downif, iface, table, rt, main, hello, tun,
                 default_route>>

handler_disconnect(o) ==
  /\ handler[o] = "close"
  /\ client_disconnect_session_by_convid(conn[o].convid)
  /\ handler' = [handler EXCEPT ![o] = "exit"]
  /\ UNCHANGED <<panic, mu, downif, iface, rt, main, hello, tun,
                 default_route>>

-----------------------------------------------------------------------------
(* The main loop of run_client and client_send_server_pings.               *)

main_check_paths ==
  /\ main = NoConn
  /\ iface
  /\ client_check_paths
  /\ UNCHANGED <<panic, mu, downif, iface, table, handler, rt, main, hello,
                 tun>>

\* The loop over server.connections takes no lock: it can meet any entry,
\* find its hello too old, or start a hello for it.
ping_too_old ==
  /\ Running
  /\ main = NoConn
  /\ \E c \in Registered : main' = connections[c]
  /\ UNCHANGED <<panic, mu, downif, iface, table, handler, rt, hello, tun,
                 default_route>>

ping_disconnect ==
  /\ main # NoConn
  /\ client_disconnect_session_by_convid(conn[main].convid)
  /\ main' = NoConn
  /\ UNCHANGED <<panic, mu, downif, iface, handler, rt, hello, tun,
                 default_route>>

ping_send(h) ==
  /\ Running
  /\ main = NoConn
  /\ hello[h].pc = "idle"
  /\ \E c \in Registered :
       hello' = [hello EXCEPT ![h] = [pc |-> "write", conn |-> connections[c]]]
  /\ UNCHANGED <<panic, mu, downif, iface, table, handler, rt, main, tun,
                 default_route>>

\* client_send_hello: written, or an error that is only logged.
hello_done(h) ==
  /\ Running
  /\ hello[h].pc = "write"
  /\ hello' = [hello EXCEPT ![h] = IdleHello]
  /\ UNCHANGED <<panic, mu, downif, iface, table, handler, rt, main, tun,
                 default_route>>

\* Only a live session can time out: a nil one returns another error.
hello_timeout(h) ==
  /\ Running
  /\ hello[h].pc = "write"
  /\ conn[hello[h].conn].session = "open"
  /\ hello' = [hello EXCEPT ![h].pc = "close"]
  /\ UNCHANGED <<panic, mu, downif, iface, table, handler, rt, main, tun,
                 default_route>>

hello_disconnect(h) ==
  /\ hello[h].pc = "close"
  /\ client_disconnect_session_by_convid(conn[hello[h].conn].convid)
  /\ hello' = [hello EXCEPT ![h] = IdleHello]
  /\ UNCHANGED <<panic, mu, downif, iface, handler, rt, main, tun,
                 default_route>>

-----------------------------------------------------------------------------
(* client_handle_tun: a packet has been read from the tun.                 *)

\* client_choose_kcp_conn, without the lock.  The ring answers with one of its
\* members; with no member, or no connection, the packet is dropped.
tun_choose ==
  /\ Running
  /\ tun.pc = "read"
  /\ IF g_use_consistent_hashing
     THEN /\ \E c \in consistent :
               tun' = [pc |-> "lookup", convid |-> c, conn |-> NoConn]
          /\ UNCHANGED last_convid
     ELSE \E c \in RoundRobin(Registered, last_convid) \ {0} :
               /\ tun' = [pc |-> "lookup", convid |-> c, conn |-> NoConn]
               /\ last_convid' = c
  /\ UNCHANGED <<panic, mu, downif, iface, connections, consistent, conn,
                 handler, rt, main, hello, default_route>>

\* The connection is looked up under the lock.  It may be gone by now; else
\* the packet is sent or times out, or the session is dead or the write fails
\* (which it also does when the session is closed after the lookup).
tun_send ==
  /\ CanLock
  /\ tun.pc = "lookup"
  /\ \/ tun' = TunAt("read")
     \/ /\ tun.convid \in Registered
        /\ tun' = [pc |-> "close", convid |-> 0,
                   conn |-> connections[tun.convid]]
  /\ UNCHANGED <<panic, mu, downif, iface, table, handler, rt, main, hello,
                 default_route>>

\* A read error on the tun ends the goroutine; nothing starts another.
tun_read_error ==
  /\ Running
  /\ tun.pc = "read"
  /\ tun' = TunAt("exit")
  /\ UNCHANGED <<panic, mu, downif, iface, table, handler, rt, main, hello,
                 default_route>>

tun_disconnect ==
  /\ tun.pc = "close"
  /\ client_disconnect_session_by_convid(conn[tun.conn].convid)
  /\ tun' = TunAt("read")
  /\ UNCHANGED <<panic, mu, downif, iface, handler, rt, main, hello,
                 default_route>>

-----------------------------------------------------------------------------
\* A dead process takes no step.
Dead == panic # "none" /\ UNCHANGED vars

\* handle_route_update: a default route outside the main table, with a source
\* address, has come or gone.
RouteEvent(t) == \E s \in Srcs : \/ connect_begin(t, s)
                                 \/ client_disconnect_session_by_src(t, s)
RouteStep(t) == \/ find_slot(t) \/ register(t) \/ wake(t) \/ connect_end(t)
                \/ close_by_src(t) \/ close_by_src_done(t)
\* netlink_subscribe_ifaces hears that an interface, not a tun, is down.
IfaceEvent == \E i \in Ifaces : client_disconnect_session_by_ifname(i)
IfaceStep == close_by_ifname \/ close_by_ifname_done
HandlerStep(o) == handler_exit(o) \/ handler_fails(o) \/ handler_disconnect(o)
HelloStep(h) == hello_done(h) \/ hello_timeout(h) \/ hello_disconnect(h)
MainStep == main_check_paths \/ ping_too_old \/ ping_disconnect
TunStep == tun_choose \/ tun_send \/ tun_disconnect

Next ==
  \/ \E t \in RouteThreads : RouteEvent(t) \/ RouteStep(t) \/ route_panics(t)
  \/ IfaceEvent
  \/ IfaceStep
  \/ \E o \in Conns : HandlerStep(o)
  \/ \E h \in HelloThreads : ping_send(h) \/ HelloStep(h)
  \/ MainStep
  \/ TunStep
  \/ tun_read_error
  \/ Dead

Spec == Init /\ [][Next]_vars

\* Fairness.  A goroutine that can go on does, and sync.Mutex hands itself to
\* a waiter after a bounded delay, so a step that needs mu is taken when it is
\* possible again and again (SF).  The routing table is polled every 15
\* seconds by a goroutine of its own, which reports each existing default
\* route, so connect_begin is tried for each source again and again.  That a
\* route goroutine goes on from "wanip" assumes that the HTTP GET of get_wan_ip,
\* which has no timeout of its own, ends, with an answer or an error.  Nothing
\* is assumed of link and route removals, peers, timeouts or panics.
FairSpec ==
  /\ Spec
  /\ \A t \in RouteThreads : SF_vars(RouteStep(t))
  /\ \A s \in Srcs : SF_vars(\E t \in RouteThreads : connect_begin(t, s))
  /\ WF_vars(IfaceStep)
  /\ SF_vars(\E o \in Conns : handler_disconnect(o))
  /\ SF_vars(ping_disconnect \/ main_check_paths)

-----------------------------------------------------------------------------
(* Properties.                                                             *)

Panics == {"none", "nil server", "nil interface", "nil tun", "no address",
           "kcp conn create error"}

\* Every variable holds a value of its Go type; the slot a route goroutine
\* looks at stays in the range the search may reach.
TypeOK ==
  /\ panic \in Panics
  /\ mu \in RouteThreads \cup {IfaceThread, None}
  /\ downif \in Ifaces \cup {None}
  /\ iface \in BOOLEAN
  /\ connections \in [Convids -> Conns \cup {NoConn}]
  /\ consistent \in SUBSET Convids
  /\ last_convid \in Convids \cup {0}
  /\ conn \in [Conns -> ServerConnection]
  /\ handler \in [Conns -> {"none", "read", "close", "exit"}]
  /\ rt \in [RouteThreads -> RouteThread]
  /\ main \in Conns \cup {NoConn}
  /\ hello \in [HelloThreads -> HelloThread]
  /\ tun \in TunThread
  /\ default_route \in BOOLEAN

\* The consistent hash ring and the connection table name the same convids
\* whatever goroutines connect, overwrite a slot and disconnect: the scheduler
\* never picks a convid for which the lookup that follows finds nothing,
\* unless the table changed in between.
RingMatchesTable == consistent = Registered

\* What the table holds is usable: a live session, filed under the convid the
\* connection believes it has, and no object filed twice.
\* client_disconnect_session_by_convid compares the field, the lookups use the
\* key, and client_close_connection closes without a test.
TableEntriesUsable ==
  \A c \in Registered : /\ conn[connections[c]].session = "open"
                        /\ conn[connections[c]].convid = c

\* Every registered connection has somebody reading it: its client_handle_kcp
\* goroutine, or a route goroutine about to start it.  Otherwise nothing the
\* server sends would arrive and no read error would ever remove it.
RegisteredIsRead ==
  \A c \in Registered :
    \/ handler[connections[c]] \in {"read", "close"}
    \/ \E t \in RouteThreads : rt[t].pc = "wake" /\ rt[t].conn = connections[c]

\* Route goroutines between the mux check and the registration for source s.
Connecting(s) ==
  {t \in RouteThreads : rt[t].pc \in {"scan", "wanip"} /\ rt[t].src = s}

\* The mux check and the registration are separate critical sections, so the
\* limit may be passed, but never by more than the other route goroutines that
\* were connecting at the same time.
MuxOvershootBounded ==
  \A s \in Srcs : client_num_connections_by_src(s) + Cardinality(Connecting(s))
                    <= g_mux_max - 1 + Cardinality(RouteThreads)

\* Once the tun exists, client_handle_tun has been started, or exactly one
\* route goroutine is still going to start it: there are never two readers of
\* the tun, and never a tun nobody will read.
TunSpawnedOnce ==
  /\ Cardinality({t \in RouteThreads : rt[t].spawn_tun}) =
       IF iface /\ tun.pc = "none" THEN 1 ELSE 0
  /\ ~iface => tun.pc = "none"

\* Every open session is in the table, where something can close it: "we need
\* to close it ourself later" (create_session).  Two route goroutines that have
\* found the same slot break it (run client_leak).
NoLeakedSession ==
  \A o \in Conns : conn[o].session = "open" => connections[conn[o].convid] = o

\* The slot a route goroutine has found is still free when it uses it: "we can
\* use this convid".  A search that runs past the last slot breaks it (run
\* client_slots_full).
SlotStillFree ==
  \A t \in RouteThreads : rt[t].pc = "wanip" => rt[t].avail \notin Registered

\* While client_disconnect_session_by_src or _by_ifname works through the
\* table, no connection is added behind its back and none leaves that it is
\* not looking for, whatever the other goroutines do, unless the process dies:
\* the loops end with no match left.
LoopOwnsTable ==
  [][mu # None /\ panic' = "none" =>
       /\ Registered' \subseteq Registered
       /\ \A c \in Registered \ Registered' :
            IF mu = IfaceThread THEN IfnameOf[SrcOf(c)] = downif
                                ELSE SrcOf(c) = rt[mu].src]_vars

\* The client implements BondTable: whatever goroutines interleave, and through
\* whichever of its disconnects, a connection that leaves server.connections is
\* closed in the same critical section, once, and only a registration in an
\* occupied slot takes a live one out of it.
Table == INSTANCE BondTable WITH
           members <- connections,
           session <- [o \in Conns |-> conn[o].session]
ImplementsTable == Table!Spec

\* A source with no connection gets one: the poll of the routing table repairs
\* whatever was disconnected.
RouteGetsConnected ==
  \A s \in Srcs : (iface /\ client_num_connections_by_src(s) = 0)
     ~> (client_num_connections_by_src(s) > 0 \/ Exhausted \/ ~Running)

\* A connection whose reader has given up, or is gone, does not stay in the
\* table, although other goroutines keep taking the lock, and whether it is
\* still its own slot that the reader disconnects or somebody else has.
FailedMemberLeaves ==
  \A o \in Conns :
    (handler[o] \in {"close", "exit"} /\ \E c \in Convids : connections[c] = o)
      ~> ((\A c \in Convids : connections[c] # o) \/ ~Running)

\* The default route via the tunnel ends up installed exactly while there are
\* connections, however connects, disconnects and the two callers of
\* client_check_paths interleave.
DefaultRouteFollows ==
  /\ <>[](Running /\ Registered # {}) => <>[]default_route
  /\ <>[](iface /\ Registered = {}) => <>[](~default_route)

\* server.mu is never kept: the closing loops end.
LockReleased == (mu # None) ~> (mu = None)

-----------------------------------------------------------------------------
\* What the repository says and the code does not do: a LINKDOWN for an
\* interface that went down leaves "over the remaining WAN links" when there is
\* one.  With TwoIfaces, g_mux_max = 2 and three connections TLC refutes it: the
\* round robin may pick another connection of the dead link.
LinkdownAvoidsDeadIface ==
  [][connections' # connections /\ mu = IfaceThread /\ last_convid' # 0
       /\ (\E c \in Registered' : IfnameOf[SrcOf(c)] # downif)
       => IfnameOf[SrcOf(last_convid')] # downif]_vars

=============================================================================
