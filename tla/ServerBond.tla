----------------------------- MODULE ServerBond -----------------------------
(***************************************************************************)
(* The server's side of the bond: the clientType objects of g_client_list, *)
(* the table of KCP sessions each keeps, and the goroutines that share it. *)
(*                                                                         *)
(*   - server_handle_kcp_listener accepts sessions;                        *)
(*   - one server_accept_conn goroutine per session finds or creates the   *)
(*     clientType, registers the session and reads it until it fails;      *)
(*   - the main loop checks the hello age of every registered session;     *)
(*   - one server_handle_tun goroutine per clientType sends the packets    *)
(*     of the tun.                                                         *)
(*                                                                         *)
(* A server serves one tunnel id, so g_client_list has at most one entry,  *)
(* but two goroutines may each create a clientType for it: the lookup and  *)
(* the assignment take no lock.  Each critical section under client.mu is  *)
(* one step.  server_send_hello changes nothing the model keeps (its       *)
(* errors are only counted), and is left out.                              *)
(***************************************************************************)
EXTENDS Integers, FiniteSets

CONSTANTS
  Convids,        \* convids the client uses
  Addrs,          \* remote addresses of the accepted sessions
  PrivateAddrs,   \* those in a private range
  None,
  g_use_consistent_hashing,
  MaxConns        \* bound: sessions accepted

ASSUME ServerAssumption ==
  /\ Convids \subseteq Nat \ {0}
  /\ PrivateAddrs \subseteq Addrs /\ Addrs # {} /\ None \notin Addrs
  /\ g_use_consistent_hashing \in BOOLEAN
  /\ MaxConns \in Nat

VARIABLES
  panic,          \* "none", or why the Go runtime has killed the process
  listening,      \* server_handle_kcp_listener is in its loop
  g_client_list,  \* the clientType registered for the tunnel id, or NoConn
  iface,          \* iface of each clientType: its tun device exists
  connections,    \* connections of each clientType
  consistent,     \* hash ring of each clientType
  last_convid,    \* round robin's memory of each clientType
  sess,           \* the accepted KCP sessions
  acc,            \* the server_accept_conn goroutine of each session
  main,           \* session the ping loop has found too old, or NoConn
  tun             \* the server_handle_tun goroutine of each clientType

table == <<connections, consistent, last_convid, sess>>
vars  == <<panic, listening, g_client_list, iface, table, acc, main, tun>>

-----------------------------------------------------------------------------
\* A session, its goroutine and the clientType that goroutine may create
\* share one identifier.
Conns  == 1..MaxConns
NoConn == 0

\* silent: the peer has gone, so nothing will arrive any more.
Session == [convid : Convids \cup {0}, addr : Addrs \cup {None},
            state  : {"none", "open", "closed"}, silent : BOOLEAN]

\* LINKDOWN carries the convid in 16 bits.
Uint16    == 0..65535
Linkdowns == {c % 65536 : c \in Convids}

AcceptThread ==
  [pc        : {"none", "lookup", "publish", "register", "spawn", "read",
                "linkdown", "close", "exit"},
   client    : Conns \cup {NoConn},
   spawn_tun : BOOLEAN,
   linkdown  : Uint16]

TunThread == [pc     : {"none", "read", "lookup", "close"},
              convid : Convids \cup {0},
              conn   : Conns \cup {NoConn}]

Unused    == [convid |-> 0, addr |-> None, state |-> "none", silent |-> FALSE]
AcceptAt(p, k, b, w) ==
  [pc |-> p, client |-> k, spawn_tun |-> b, linkdown |-> w]
NotYet    == AcceptAt("none", NoConn, FALSE, 0)
TunAt(p)  == [pc |-> p, convid |-> 0, conn |-> NoConn]
EmptyMap  == [c \in Convids |-> NoConn]

Registered(k) == {c \in Convids : connections[k][c] # NoConn}

Fresh(o) == /\ sess[o].state = "none"
            /\ \A p \in Conns : p < o => sess[p].state # "none"

Running == panic = "none"

-----------------------------------------------------------------------------
Init ==
  /\ panic = "none"
  /\ listening = TRUE
  /\ g_client_list = NoConn
  /\ iface = [k \in Conns |-> FALSE]
  /\ connections = [k \in Conns |-> EmptyMap]
  /\ consistent = [k \in Conns |-> {}]
  /\ last_convid = [k \in Conns |-> 0]
  /\ sess = [o \in Conns |-> Unused]
  /\ acc = [o \in Conns |-> NotYet]
  /\ main = NoConn
  /\ tun = [k \in Conns |-> TunAt("none")]

\* A server whose client has been connected before and has gone: its
\* clientType and tun remain.  The first session, closed, has created them.
WarmInit ==
  /\ panic = "none"
  /\ listening = TRUE
  /\ g_client_list = 1
  /\ iface = [k \in Conns |-> k = 1]
  /\ connections = [k \in Conns |-> EmptyMap]
  /\ consistent = [k \in Conns |-> {}]
  /\ last_convid = [k \in Conns |-> 0]
  /\ \E c \in Convids, a \in Addrs :
       sess = [o \in Conns |->
                 IF o = 1 THEN [convid |-> c, addr |-> a, state |-> "closed",
                                silent |-> TRUE]
                          ELSE Unused]
  /\ acc = [o \in Conns |->
              IF o = 1 THEN AcceptAt("exit", 1, FALSE, 0)
                       ELSE NotYet]
  /\ main = NoConn
  /\ tun = [k \in Conns |-> TunAt(IF k = 1 THEN "read" ELSE "none")]

\* A panic ends the process.
Crash(cause) ==
  /\ panic' = cause
  /\ listening' = FALSE
  /\ g_client_list' = NoConn
  /\ iface' = [k \in Conns |-> FALSE]
  /\ connections' = [k \in Conns |-> EmptyMap]
  /\ consistent' = [k \in Conns |-> {}]
  /\ last_convid' = [k \in Conns |-> 0]
  /\ sess' = [o \in Conns |-> Unused]
  /\ acc' = [o \in Conns |-> NotYet]
  /\ main' = NoConn
  /\ tun' = [k \in Conns |-> TunAt("none")]

-----------------------------------------------------------------------------
(* Closing sessions.                                                       *)

\* Faulty: keeps the convid in the ring.
server_close_connection_KeepRing(k, c) ==
  /\ last_convid' = [last_convid EXCEPT ![k] = 0]
  /\ sess' = [sess EXCEPT ![connections[k][c]].state = "closed"]
  /\ connections' = [connections EXCEPT ![k][c] = NoConn]
  /\ UNCHANGED consistent

\* Faulty: keeps the entry in the table.
server_close_connection_KeepEntry(k, c) ==
  /\ consistent' = [consistent EXCEPT ![k] = @ \ {c}]
  /\ last_convid' = [last_convid EXCEPT ![k] = 0]
  /\ sess' = [sess EXCEPT ![connections[k][c]].state = "closed"]
  /\ UNCHANGED connections

\* Faulty: does not close the session.
server_close_connection_KeepSession(k, c) ==
  /\ consistent' = [consistent EXCEPT ![k] = @ \ {c}]
  /\ last_convid' = [last_convid EXCEPT ![k] = 0]
  /\ connections' = [connections EXCEPT ![k][c] = NoConn]
  /\ UNCHANGED sess

\* The body of the loop in server_disconnect_session_by_convid, with
\* server_close_connection: the entry c of the clientType k.
server_close_connection(k, c) ==
  /\ consistent' = [consistent EXCEPT ![k] = @ \ {c}]
  /\ last_convid' = [last_convid EXCEPT ![k] = 0]
  /\ sess' = [sess EXCEPT ![connections[k][c]].state = "closed"]
  /\ connections' = [connections EXCEPT ![k][c] = NoConn]

\* It looks up g_client_list again, whatever clientType its caller works for.
server_disconnect_session_by_convid(disc_convid) ==
  /\ Running
  /\ IF g_client_list # NoConn /\ disc_convid \in Registered(g_client_list)
     THEN server_close_connection(g_client_list, disc_convid)
     ELSE UNCHANGED table

-----------------------------------------------------------------------------
(* server_handle_kcp_listener and the network.                             *)

accept(o) ==
  /\ Running
  /\ listening
  /\ Fresh(o)
  /\ \E c \in Convids, a \in Addrs :
       sess' = [sess EXCEPT ![o] = [convid |-> c, addr |-> a,
                                    state |-> "open", silent |-> FALSE]]
  /\ acc' = [acc EXCEPT ![o].pc = "lookup"]
  /\ UNCHANGED <<panic, listening, g_client_list, iface, connections,
                 consistent, last_convid, main, tun>>

\* AcceptKCP returns an error: no session is accepted any more.
accept_error ==
  /\ Running
  /\ listening
  /\ listening' = FALSE
  /\ UNCHANGED <<panic, g_client_list, iface, table, acc, main, tun>>

\* The peer goes away: crashed, link lost, or closed its end.
peer_gone(o) ==
  /\ Running
  /\ sess[o].state = "open"
  /\ ~sess[o].silent
  /\ sess' = [sess EXCEPT ![o].silent = TRUE]
  /\ UNCHANGED <<panic, listening, g_client_list, iface, connections,
                 consistent, last_convid, acc, main, tun>>

-----------------------------------------------------------------------------
(* server_accept_conn of the session o.                                    *)

\* Faulty: always a new clientType.
find_client_New(o) ==
  /\ Running
  /\ acc[o].pc = "lookup"
  /\ acc' = [acc EXCEPT ![o] = AcceptAt("publish", o, FALSE, 0)]
  /\ UNCHANGED <<panic, listening, g_client_list, iface, table, main, tun>>

\* client,ok := g_client_list[tunnelid], or a new clientType.
find_client(o) ==
  /\ Running
  /\ acc[o].pc = "lookup"
  /\ LET k == IF g_client_list = NoConn THEN o ELSE g_client_list
     IN  acc' = [acc EXCEPT ![o] = AcceptAt("publish", k, FALSE, 0)]
  /\ UNCHANGED <<panic, listening, g_client_list, iface, table, main, tun>>

publish_client(o) ==
  /\ Running
  /\ acc[o].pc = "publish"
  /\ g_client_list' = acc[o].client
  /\ acc' = [acc EXCEPT ![o].pc = "register"]
  /\ UNCHANGED <<panic, listening, iface, table, main, tun>>

\* net.ParseIP gets "host:port", which it cannot parse; the nil it returns is
\* not private.
ParseIP(hostport) == None
IsPrivate(ip) == ip \in PrivateAddrs

\* Faulty: forgets that the tun exists, and creates it again.
register_ForgetTun(o) ==
  LET k == acc[o].client
      c == sess[o].convid
  IN  /\ Running
      /\ acc[o].pc = "register"
      /\ iface' = [iface EXCEPT ![k] = TRUE]
      /\ last_convid' = [last_convid EXCEPT ![k] = 0]
      /\ connections' = [connections EXCEPT ![k][c] = o]
      /\ consistent' = [consistent EXCEPT ![k] = @ \cup {c}]
      /\ g_client_list' = k
      /\ acc' = [acc EXCEPT ![o] = AcceptAt("spawn", k, TRUE, 0)]
      /\ UNCHANGED <<panic, listening, sess, main, tun>>

\* The critical section.
register(o) ==
  LET k == acc[o].client
      c == sess[o].convid
  IN  /\ Running
      /\ acc[o].pc = "register"
      /\ iface' = [iface EXCEPT ![k] = TRUE]
      /\ last_convid' = [last_convid EXCEPT ![k] = 0]
      /\ IF IsPrivate(ParseIP(sess[o].addr))
         THEN /\ acc' = [acc EXCEPT ![o].pc = "exit"]
              /\ UNCHANGED <<g_client_list, connections, consistent>>
         ELSE /\ connections' = [connections EXCEPT ![k][c] = o]
              /\ consistent' = [consistent EXCEPT ![k] = @ \cup {c}]
              /\ g_client_list' = k
              /\ acc' = [acc EXCEPT ![o] = AcceptAt("spawn", k, ~iface[k], 0)]
      /\ UNCHANGED <<panic, listening, sess, main, tun>>

\* createTun fails, and the nil interface is used all the same.
register_panics(o) ==
  /\ Running
  /\ acc[o].pc = "register"
  /\ ~iface[acc[o].client]
  /\ Crash("nil tun")

spawn(o) ==
  /\ Running
  /\ acc[o].pc = "spawn"
  /\ tun' = IF acc[o].spawn_tun
            THEN [tun EXCEPT ![acc[o].client] = TunAt("read")] ELSE tun
  /\ acc' = [acc EXCEPT ![o] = AcceptAt("read", @.client, FALSE, 0)]
  /\ UNCHANGED <<panic, listening, g_client_list, iface, table, main>>

\* A LINKDOWN has arrived on o.  The client may have sent it long ago, and
\* the convid it names, cut to 16 bits, may be any of the client's.  What KCP
\* has buffered is read even after the session was closed.
recv_linkdown(o) ==
  /\ Running
  /\ acc[o].pc = "read"
  /\ \E w \in Linkdowns :
       acc' = [acc EXCEPT ![o] = AcceptAt("linkdown", @.client, FALSE, w)]
  /\ UNCHANGED <<panic, listening, g_client_list, iface, table, main, tun>>

linkdown_disconnect(o) ==
  /\ acc[o].pc = "linkdown"
  /\ server_disconnect_session_by_convid(acc[o].linkdown)
  /\ acc' = [acc EXCEPT ![o] = AcceptAt("read", @.client, FALSE, 0)]
  /\ UNCHANGED <<panic, listening, g_client_list, iface, main, tun>>

\* Faulty: returns without disconnecting.
reader_fails_Return(o) ==
  /\ Running
  /\ acc[o].pc = "read"
  /\ acc' = [acc EXCEPT ![o].pc = "exit"]
  /\ UNCHANGED <<panic, listening, g_client_list, iface, table, main, tun>>

\* Faulty: a closed session is read again, like one that timed out.
reader_fails_Continue(o) ==
  /\ Running
  /\ acc[o].pc = "read"
  /\ sess[o].state = "open"
  /\ acc' = [acc EXCEPT ![o].pc = "close"]
  /\ UNCHANGED <<panic, listening, g_client_list, iface, table, main, tun>>

\* KCP says dead, a read error (always, once the session is closed), or the
\* tun cannot be written.  A read timeout is not a failure.
reader_fails(o) ==
  /\ Running
  /\ acc[o].pc = "read"
  /\ acc' = [acc EXCEPT ![o].pc = "close"]
  /\ UNCHANGED <<panic, listening, g_client_list, iface, table, main, tun>>

reader_disconnect(o) ==
  /\ acc[o].pc = "close"
  /\ server_disconnect_session_by_convid(sess[o].convid)
  /\ acc' = [acc EXCEPT ![o].pc = "exit"]
  /\ UNCHANGED <<panic, listening, g_client_list, iface, main, tun>>

-----------------------------------------------------------------------------
(* server_send_client_pings: a hello too old.  The loop takes no lock; the *)
(* age is a matter of time, which the model leaves open.                   *)

\* Faulty: keeps the key of the map, not the connection.
ping_too_old_Key ==
  /\ Running
  /\ main = NoConn
  /\ g_client_list # NoConn
  /\ main' \in Registered(g_client_list)
  /\ UNCHANGED <<panic, listening, g_client_list, iface, table, acc, tun>>

\* Faulty: checks the age only while more than one connection is left.
ping_too_old_Spare ==
  /\ Running
  /\ main = NoConn
  /\ g_client_list # NoConn
  /\ Cardinality(Registered(g_client_list)) > 1
  /\ \E c \in Registered(g_client_list) : main' = connections[g_client_list][c]
  /\ UNCHANGED <<panic, listening, g_client_list, iface, table, acc, tun>>

ping_too_old ==
  /\ Running
  /\ main = NoConn
  /\ g_client_list # NoConn
  /\ \E c \in Registered(g_client_list) : main' = connections[g_client_list][c]
  /\ UNCHANGED <<panic, listening, g_client_list, iface, table, acc, tun>>

ping_disconnect ==
  /\ main # NoConn
  /\ server_disconnect_session_by_convid(sess[main].convid)
  /\ main' = NoConn
  /\ UNCHANGED <<panic, listening, g_client_list, iface, acc, tun>>

-----------------------------------------------------------------------------
(* server_handle_tun of the clientType k.                                  *)

\* Any member of the table but the last one, that one when it is alone.
RoundRobin(S, last) == IF S \ {last} # {} THEN S \ {last} ELSE S

\* server_choose_kcp_conn, without the lock; with no member the packet is
\* dropped.
tun_choose(k) ==
  /\ Running
  /\ tun[k].pc = "read"
  /\ \E c \in IF g_use_consistent_hashing THEN consistent[k]
              ELSE RoundRobin(Registered(k), last_convid[k]) :
       /\ tun' = [tun EXCEPT ![k] = [pc |-> "lookup", convid |-> c,
                                     conn |-> NoConn]]
       /\ last_convid' = IF g_use_consistent_hashing THEN last_convid
                         ELSE [last_convid EXCEPT ![k] = c]
  /\ UNCHANGED <<panic, listening, g_client_list, iface, connections,
                 consistent, sess, acc, main>>

\* Looked up under the lock: gone, sent, timed out, or dead or failing.
tun_send(k) ==
  /\ Running
  /\ tun[k].pc = "lookup"
  /\ \/ tun' = [tun EXCEPT ![k] = TunAt("read")]
     \/ /\ tun[k].convid \in Registered(k)
        /\ tun' = [tun EXCEPT ![k] =
                     [pc |-> "close", convid |-> 0,
                      conn |-> connections[k][tun[k].convid]]]
  /\ UNCHANGED <<panic, listening, g_client_list, iface, table, acc, main>>

tun_disconnect(k) ==
  /\ tun[k].pc = "close"
  /\ server_disconnect_session_by_convid(sess[tun[k].conn].convid)
  /\ tun' = [tun EXCEPT ![k] = TunAt("read")]
  /\ UNCHANGED <<panic, listening, g_client_list, iface, acc, main>>

\* A read error on the tun is a Panicf.
tun_panics(k) ==
  /\ Running
  /\ tun[k].pc = "read"
  /\ Crash("tun iface read error")

-----------------------------------------------------------------------------
\* A dead process takes no step, and a server whose listener has ended may
\* have nothing left to do.
Dead == (panic # "none" \/ ~listening) /\ UNCHANGED vars

Setup(o) == find_client(o) \/ publish_client(o) \/ register(o) \/ spawn(o)
Reader(o) == recv_linkdown(o) \/ linkdown_disconnect(o)
             \/ reader_fails(o) \/ reader_disconnect(o)

Next ==
  \/ \E o \in Conns : \/ accept(o) \/ peer_gone(o)
                      \/ Setup(o) \/ register_panics(o) \/ Reader(o)
  \/ accept_error
  \/ ping_too_old
  \/ ping_disconnect
  \/ \E k \in Conns : \/ tun_choose(k) \/ tun_send(k) \/ tun_disconnect(k)
                      \/ tun_panics(k)
  \/ Dead

Spec     == Init /\ [][Next]_vars
WarmSpec == WarmInit /\ [][Next]_vars

\* The ping loop finds a registered session that has been silent for more
\* than g_max_hello seconds.
ping_finds(o) ==
  ping_too_old /\ sess[o].silent /\ main' = o

\* Goroutines go on; the ping loop runs every two seconds and, map order being
\* random, reaches each entry again and again (SF); a read on a closed session
\* fails once the little that was buffered has been read (SF).  Nothing is
\* assumed of peers, LINKDOWNs, timeouts or panics.
WarmFairSpec ==
  /\ WarmSpec
  /\ \A o \in Conns : /\ WF_vars(Setup(o))
                      /\ WF_vars(linkdown_disconnect(o))
                      /\ SF_vars(sess[o].state = "closed" /\ reader_fails(o))
                      /\ WF_vars(reader_disconnect(o))
                      /\ SF_vars(ping_finds(o))
  /\ WF_vars(ping_disconnect)

-----------------------------------------------------------------------------
(* Properties.                                                             *)

Panics == {"none", "nil tun", "tun iface read error"}

\* Every variable holds a value of its Go type.
TypeOK ==
  /\ panic \in Panics
  /\ listening \in BOOLEAN
  /\ g_client_list \in Conns \cup {NoConn}
  /\ iface \in [Conns -> BOOLEAN]
  /\ connections \in [Conns -> [Convids -> Conns \cup {NoConn}]]
  /\ consistent \in [Conns -> SUBSET Convids]
  /\ last_convid \in [Conns -> Convids \cup {0}]
  /\ sess \in [Conns -> Session]
  /\ acc \in [Conns -> AcceptThread]
  /\ main \in Conns \cup {NoConn}
  /\ tun \in [Conns -> TunThread]

\* In every clientType, raced ones included, the hash ring has exactly the
\* convids of the table: server_disconnect_session_by_convid removes from
\* both whatever server_accept_conn has put into both.
RingMatchesTable == \A k \in Conns : consistent[k] = Registered(k)

\* What a table holds is an open session filed under its own convid.
TableEntriesUsable ==
  \A k \in Conns : \A c \in Registered(k) :
    /\ sess[connections[k][c]].state = "open"
    /\ sess[connections[k][c]].convid = c

\* Each tun device has one server_handle_tun, or one goroutine about to start
\* it.
TunSpawnedOnce ==
  \A k \in Conns :
    Cardinality({o \in Conns : acc[o].spawn_tun /\ acc[o].client = k}) =
      IF iface[k] /\ tun[k].pc = "none" THEN 1 ELSE 0

\* Every registered session is still read by its server_accept_conn: the
\* goroutine leaves only after it has taken its convid out of the table.  (On a
\* server with one clientType: a goroutine that works for another one takes
\* the convid out of the wrong table.)
RegisteredIsRead ==
  \A k \in Conns : \A c \in Registered(k) :
    acc[connections[k][c]].pc \in {"spawn", "read", "linkdown", "close"}

\* All goroutines work for the clientType in g_client_list ("find/add the
\* client in the list").  It holds on a server that has served before; on a
\* cold one two goroutines may each create a clientType.
OneClient ==
  \A o \in Conns : acc[o].pc \in {"spawn", "read"} =>
                     acc[o].client = g_client_list

\* A session belongs to the clientType its goroutine has registered it with.
SessionOf(k) ==
  [o \in Conns |->
     IF /\ acc[o].client = k
        /\ acc[o].pc \notin {"none", "lookup", "publish", "register"}
     THEN sess[o].state ELSE "none"]

\* Each clientType, also one that lost the race for g_client_list, implements
\* BondTable: a session that leaves client.connections is closed in the same
\* critical section, or displaced by one with its convid.
Table(k) == INSTANCE BondTable WITH
              members <- connections[k], session <- SessionOf(k)
ImplementsTables ==
  /\ \A k \in Conns : Table(k)!Init
  /\ [][\A k \in Conns : [Table(k)!Next]_(Table(k)!bondvars)]_vars

\* A bonded member whose peer is gone leaves the table.
SilentMemberRemoved ==
  \A o \in Conns :
    (sess[o].silent /\ \E k \in Conns, c \in Convids : connections[k][c] = o)
      ~> ~(\E k \in Conns, c \in Convids : connections[k][c] = o)

\* A session whose peer is gone gets closed.
SilentSessionCloses ==
  \A o \in Conns : sess[o].silent ~> sess[o].state # "open"

\* The goroutine of a closed session ends, so sessions cost nothing once they
\* are over.
ReaderEnds ==
  \A o \in Conns : (sess[o].state = "closed")
                     ~> (acc[o].pc = "exit" \/ ~Running)

=============================================================================
