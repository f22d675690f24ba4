-------------------------- MODULE ServerBondProofs --------------------------
(***************************************************************************)
(* Proofs about ServerBond, for every number of sessions, convids and      *)
(* addresses, from a cold start and on a server that has served before.    *)
(***************************************************************************)
EXTENDS ServerBond, FiniteSetTheorems, TLAPS

-----------------------------------------------------------------------------
(* Type correctness.                                                       *)

Early == {"lookup", "publish", "register"}

\* What each server_accept_conn goroutine knows: it has a session from the
\* start, a clientType once it has looked one up, the session stays open at
\* least until it is registered, and the duty to start the reader of a tun
\* begins and ends with the "spawn" step.
Locals ==
  \A o \in Conns :
    /\ acc[o].pc = "none" <=> sess[o].state = "none"
    /\ acc[o].pc # "none" => sess[o].convid \in Convids
    /\ acc[o].pc \notin {"none", "lookup"} => acc[o].client \in Conns
    /\ acc[o].pc \in Early => sess[o].state = "open"
    /\ acc[o].spawn_tun => acc[o].pc = "spawn"

TypeInv == TypeOK /\ Locals

\* 0 is neither a convid nor an object.
LEMMA NoZero == 0 \notin Convids /\ NoConn \notin Conns /\ 0 \in Uint16
BY ServerAssumption DEF Conns, NoConn, Uint16

\* ParseIP cannot parse host:port, so the private address check refuses
\* nothing.
LEMMA NothingPrivate == \A a : ~IsPrivate(ParseIP(a))
BY ServerAssumption DEF IsPrivate, ParseIP

\* Closing an entry keeps the types of what it changes; it touches no session
\* but the one of the entry.
LEMMA CloseType ==
  ASSUME TypeOK, NEW k \in Conns, NEW c \in Registered(k),
         server_close_connection(k, c)
  PROVE  /\ connections' \in [Conns -> [Convids -> Conns \cup {NoConn}]]
         /\ consistent' \in [Conns -> SUBSET Convids]
         /\ last_convid' \in [Conns -> Convids \cup {0}]
         /\ sess' \in [Conns -> Session]
         /\ connections[k][c] \in Conns
         /\ \A o \in Conns : /\ sess'[o].convid = sess[o].convid
                             /\ o # connections[k][c] => sess'[o] = sess[o]
         /\ sess'[connections[k][c]].state = "closed"
<1>1. c \in Convids /\ connections[k][c] \in Conns
  BY DEF TypeOK, Registered
<1>2. /\ sess' \in [Conns -> Session]
      /\ \A o \in Conns : /\ sess'[o].convid = sess[o].convid
                          /\ o # connections[k][c] => sess'[o] = sess[o]
      /\ sess'[connections[k][c]].state = "closed"
  BY <1>1 DEF TypeOK, server_close_connection, Session
<1>3. connections' \in [Conns -> [Convids -> Conns \cup {NoConn}]]
  BY <1>1 DEF TypeOK, server_close_connection
<1>4. consistent' \in [Conns -> SUBSET Convids]
  BY <1>1 DEF TypeOK, server_close_connection
<1>5. last_convid' \in [Conns -> Convids \cup {0}]
  BY <1>1 DEF TypeOK, server_close_connection
<1> QED BY <1>1, <1>2, <1>3, <1>4, <1>5

\* A disconnect by convid closes one entry of the clientType in g_client_list,
\* or changes nothing.
LEMMA DisconnectCases ==
  ASSUME TypeOK, NEW d, server_disconnect_session_by_convid(d)
  PROVE  \/ UNCHANGED table
         \/ /\ g_client_list \in Conns /\ d \in Registered(g_client_list)
            /\ server_close_connection(g_client_list, d)
BY DEF server_disconnect_session_by_convid, TypeOK

\* A registered session has left the early steps: the part of the invariant
\* that lets a close keep Locals.
Settled ==
  \A k \in Conns : \A c \in Registered(k) :
    /\ acc[connections[k][c]].pc \notin Early \cup {"none"}
    /\ acc[connections[k][c]].client = k

\* A disconnect keeps the types and, if only the sessions of settled
\* goroutines are registered, what every goroutine knows of its session.
LEMMA DisconnectType ==
  ASSUME TypeOK, Settled, NEW d, server_disconnect_session_by_convid(d)
  PROVE  /\ connections' \in [Conns -> [Convids -> Conns \cup {NoConn}]]
         /\ consistent' \in [Conns -> SUBSET Convids]
         /\ last_convid' \in [Conns -> Convids \cup {0}]
         /\ sess' \in [Conns -> Session]
         /\ \A o \in Conns :
              /\ sess'[o].convid = sess[o].convid
              /\ acc[o].pc \in Early \cup {"none"} => sess'[o] = sess[o]
              /\ acc[o].pc \notin Early \cup {"none"} =>
                   sess'[o].state \in {sess[o].state, "closed"}
<1>1. CASE UNCHANGED table
  BY <1>1 DEF table, TypeOK
<1>2. CASE /\ g_client_list \in Conns /\ d \in Registered(g_client_list)
           /\ server_close_connection(g_client_list, d)
  <2>1. acc[connections[g_client_list][d]].pc \notin Early \cup {"none"}
    BY <1>2 DEF Settled
  <2> QED BY <1>2, <2>1, CloseType
<1> QED BY <1>1, <1>2, DisconnectCases

\* A cold start is well typed.
LEMMA InitType == Init => TypeInv
<1> SUFFICES ASSUME Init PROVE TypeInv
  OBVIOUS
<1>1. TypeOK
  <2>1. Unused \in Session
    BY DEF Unused, Session
  <2>2. NotYet \in AcceptThread
    BY NoZero DEF NotYet, AcceptAt, AcceptThread
  <2>3. TunAt("none") \in TunThread
    BY DEF TunAt, TunThread
  <2>4. panic \in Panics
    BY Zenon DEF Init, Panics
  <2> QED BY <2>1, <2>2, <2>3, <2>4 DEF Init, TypeOK, EmptyMap
<1>2. Locals
  BY DEF Init, Locals, Unused, NotYet, AcceptAt, Early
<1> QED BY <1>1, <1>2 DEF TypeInv

\* So is a server that has served before.
LEMMA WarmType == MaxConns > 0 /\ WarmInit => TypeInv
<1> SUFFICES ASSUME MaxConns > 0, WarmInit PROVE TypeInv
  OBVIOUS
<1>0. 1 \in Conns
  BY ServerAssumption DEF Conns
<1>1. PICK c \in Convids, a \in Addrs :
        sess = [o \in Conns |->
                  IF o = 1 THEN [convid |-> c, addr |-> a, state |-> "closed",
                                 silent |-> TRUE]
                           ELSE Unused]
  BY DEF WarmInit
<1>2. sess \in [Conns -> Session]
  BY <1>1 DEF Session, Unused
<1>3. acc \in [Conns -> AcceptThread]
  <2>1. /\ NotYet \in AcceptThread
        /\ AcceptAt("exit", 1, FALSE, 0) \in AcceptThread
    BY <1>0, NoZero DEF NotYet, AcceptAt, AcceptThread
  <2> QED BY <2>1 DEF WarmInit
<1>4. tun \in [Conns -> TunThread]
  BY DEF WarmInit, TunAt, TunThread
<1>5. panic \in Panics
  BY Zenon DEF WarmInit, Panics
<1>6. TypeOK
  BY <1>0, <1>2, <1>3, <1>4, <1>5 DEF WarmInit, TypeOK, EmptyMap
<1>7. Locals
  BY <1>0, <1>1 DEF WarmInit, Locals, Unused, NotYet, AcceptAt, Early
<1> QED BY <1>6, <1>7 DEF TypeInv

\* So is a process that has died.
LEMMA CrashType ==
  ASSUME NEW cause \in Panics, Crash(cause) PROVE TypeInv'
<1>1. Unused \in Session
  BY DEF Unused, Session
<1>2. NotYet \in AcceptThread
  BY NoZero DEF NotYet, AcceptAt, AcceptThread
<1>3. TunAt("none") \in TunThread
  BY DEF TunAt, TunThread
<1>4. TypeOK'
  BY <1>1, <1>2, <1>3 DEF Crash, TypeOK, EmptyMap
<1>5. Locals'
  BY DEF Crash, Locals, Unused, NotYet, AcceptAt, Early
<1> QED BY <1>4, <1>5 DEF TypeInv

\* The two ways to die.
LEMMA PanicCrashes ==
  ASSUME NEW o \in Conns, register_panics(o) \/ tun_panics(o)
  PROVE  \E cause \in Panics : Crash(cause)
BY Zenon DEF register_panics, tun_panics, Panics

\* Every step keeps the types and what the goroutines know.
LEMMA NextType == TypeInv /\ Settled /\ [Next]_vars => TypeInv'
<1> SUFFICES ASSUME TypeInv, Settled, [Next]_vars PROVE TypeInv'
  OBVIOUS
<1>0. TypeOK /\ Locals
  BY DEF TypeInv
<1>1. ASSUME NEW o \in Conns, accept(o)
      PROVE  TypeInv'
  <2>1. PICK c \in Convids, a \in Addrs :
          sess' = [sess EXCEPT ![o] = [convid |-> c, addr |-> a,
                                       state |-> "open", silent |-> FALSE]]
    BY <1>1 DEF accept
  <2>2. acc' = [acc EXCEPT ![o].pc = "lookup"] /\ acc[o].pc = "none"
    BY <1>0, <1>1 DEF accept, Fresh, Locals
  <2>3. sess' \in [Conns -> Session]
    BY <1>0, <2>1 DEF TypeOK, Session
  <2>4. acc' \in [Conns -> AcceptThread]
    BY <1>0, <2>2 DEF TypeOK, AcceptThread
  <2>5. TypeOK'
    BY <1>0, <1>1, <2>3, <2>4 DEF accept, TypeOK
  <2>6. Locals'
    BY <1>0, <2>1, <2>2 DEF TypeOK, Locals, Early, AcceptThread
  <2> QED BY <2>5, <2>6 DEF TypeInv
<1>2. ASSUME NEW o \in Conns, peer_gone(o)
      PROVE  TypeInv'
  <2>1. sess' \in [Conns -> Session]
    BY <1>0, <1>2 DEF peer_gone, TypeOK, Session
  <2>2. TypeOK'
    BY <1>0, <1>2, <2>1 DEF peer_gone, TypeOK
  <2>3. Locals'
    BY <1>0, <1>2 DEF peer_gone, TypeOK, Locals, Session
  <2> QED BY <2>2, <2>3 DEF TypeInv
<1>3. ASSUME NEW o \in Conns, Setup(o)
      PROVE  TypeInv'
  <2>1. CASE find_client(o)
    <3> DEFINE k == IF g_client_list = NoConn THEN o ELSE g_client_list
    <3>1. k \in Conns
      BY <1>0 DEF TypeOK
    <3>2. acc' = [acc EXCEPT ![o] = AcceptAt("publish", k, FALSE, 0)]
      BY <2>1 DEF find_client
    <3> HIDE DEF k
    <3>3. acc' \in [Conns -> AcceptThread]
      BY <1>0, <3>1, <3>2, NoZero DEF TypeOK, AcceptThread, AcceptAt
    <3>4. /\ acc[o].pc = "lookup" /\ acc'[o].pc = "publish"
          /\ acc'[o].client = k
          /\ acc'[o].spawn_tun = FALSE
          /\ \A p \in Conns \ {o} : acc'[p] = acc[p]
          /\ sess' = sess
      BY <1>0, <2>1, <3>2 DEF find_client, TypeOK, AcceptAt, table
    <3>5. Locals'
      BY <1>0, <3>1, <3>4 DEF Locals, Early
    <3> QED BY <1>0, <2>1, <3>3, <3>5 DEF find_client, TypeOK, TypeInv, table
  <2>2. CASE publish_client(o)
    <3>1. acc' \in [Conns -> AcceptThread] /\ Locals'
      BY <1>0, <2>2 DEF publish_client, TypeOK, AcceptThread, Locals, Early,
                        table
    <3>2. g_client_list' \in Conns
      BY <1>0, <2>2 DEF publish_client, Locals
    <3> QED BY <1>0, <2>2, <3>1, <3>2 DEF publish_client, TypeOK, TypeInv,
                                          table
  <2>3. CASE register(o)
    <3>1. acc[o].client \in Conns /\ sess[o].convid \in Convids
      BY <1>0, <2>3 DEF register, Locals
    <3>2. /\ connections' = [connections EXCEPT
                               ![acc[o].client][sess[o].convid] = o]
          /\ consistent' = [consistent EXCEPT
                              ![acc[o].client] = @ \cup {sess[o].convid}]
          /\ g_client_list' = acc[o].client
          /\ acc' = [acc EXCEPT ![o] = AcceptAt("spawn", acc[o].client,
                                                ~iface[acc[o].client], 0)]
          /\ iface' = [iface EXCEPT ![acc[o].client] = TRUE]
          /\ last_convid' = [last_convid EXCEPT ![acc[o].client] = 0]
          /\ UNCHANGED <<panic, listening, sess, main, tun>>
      BY <2>3, NothingPrivate DEF register
    <3>3. /\ acc[o].pc = "register" /\ acc'[o].pc = "spawn"
          /\ acc'[o].client = acc[o].client
          /\ \A p \in Conns \ {o} : acc'[p] = acc[p]
          /\ acc' \in [Conns -> AcceptThread]
      BY <1>0, <2>3, <3>1, <3>2, NoZero
      DEF register, TypeOK, AcceptThread, AcceptAt
    <3>5. Locals'
      BY <1>0, <3>1, <3>2, <3>3 DEF Locals, Early
    <3>4. /\ connections' \in [Conns -> [Convids -> Conns \cup {NoConn}]]
          /\ consistent' \in [Conns -> SUBSET Convids]
          /\ last_convid' \in [Conns -> Convids \cup {0}]
          /\ iface' \in [Conns -> BOOLEAN]
      BY <1>0, <3>1, <3>2 DEF TypeOK
    <3> QED BY <1>0, <3>1, <3>2, <3>3, <3>4, <3>5 DEF TypeOK, TypeInv
  <2>4. CASE spawn(o)
    <3>1. acc' \in [Conns -> AcceptThread] /\ Locals'
      BY <1>0, <2>4, NoZero DEF spawn, TypeOK, AcceptThread, AcceptAt, Locals,
                                Early, table
    <3>2. tun' \in [Conns -> TunThread]
      BY <1>0, <2>4 DEF spawn, TypeOK, TunThread, TunAt
    <3> QED BY <1>0, <2>4, <3>1, <3>2 DEF spawn, TypeOK, TypeInv, table
  <2> QED BY <1>3, <2>1, <2>2, <2>3, <2>4 DEF Setup
<1>4. ASSUME NEW o \in Conns, register_panics(o) \/ tun_panics(o)
      PROVE  TypeInv'
  BY <1>4, PanicCrashes, CrashType
<1>6. ASSUME NEW d, server_disconnect_session_by_convid(d),
             \A p \in Conns :
               \/ acc'[p] = acc[p]
               \/ /\ acc[p].pc \in {"linkdown", "close"}
                  /\ acc'[p].pc \in {"read", "exit"}
                  /\ acc'[p].client = acc[p].client
                  /\ acc'[p].spawn_tun => acc[p].spawn_tun
      PROVE  Locals'
  <2> SUFFICES ASSUME NEW p \in Conns
               PROVE  /\ acc'[p].pc = "none" <=> sess'[p].state = "none"
                      /\ acc'[p].pc # "none" => sess'[p].convid \in Convids
                      /\ acc'[p].pc \notin {"none", "lookup"}
                           => acc'[p].client \in Conns
                      /\ acc'[p].pc \in Early => sess'[p].state = "open"
                      /\ acc'[p].spawn_tun => acc'[p].pc = "spawn"
    BY DEF Locals
  <2>1. /\ sess'[p].convid = sess[p].convid
        /\ acc[p].pc \in Early \cup {"none"} => sess'[p] = sess[p]
        /\ acc[p].pc \notin Early \cup {"none"} =>
             sess'[p].state \in {sess[p].state, "closed"}
    BY <1>0, <1>6, DisconnectType
  <2> QED BY <1>0, <1>6, <2>1 DEF Locals, Early
<1>5. ASSUME NEW o \in Conns, Reader(o)
      PROVE  TypeInv'
  <2>1. CASE recv_linkdown(o)
    <3>1. PICK w \in Linkdowns :
            acc' = [acc EXCEPT ![o] = AcceptAt("linkdown", @.client, FALSE, w)]
      BY <2>1 DEF recv_linkdown
    <3>2. w \in Uint16
      <4>1. PICK c \in Convids : w = c % 65536
        BY DEF Linkdowns
      <4> QED BY <4>1, ServerAssumption DEF Uint16
    <3>3. acc' \in [Conns -> AcceptThread]
      BY <1>0, <3>1, <3>2 DEF TypeOK, AcceptThread, AcceptAt
    <3>4. /\ acc[o].pc = "read" /\ acc'[o].pc = "linkdown"
          /\ acc'[o].client = acc[o].client
          /\ acc'[o].spawn_tun = FALSE
          /\ \A p \in Conns \ {o} : acc'[p] = acc[p]
          /\ sess' = sess
      BY <1>0, <2>1, <3>1 DEF recv_linkdown, TypeOK, AcceptAt, table
    <3>5. Locals'
      BY <1>0, <3>4 DEF Locals, Early
    <3> QED BY <1>0, <2>1, <3>3, <3>5 DEF recv_linkdown, TypeOK, TypeInv,
                                          table
  <2>2. CASE linkdown_disconnect(o)
    <3>1. server_disconnect_session_by_convid(acc[o].linkdown)
      BY <2>2 DEF linkdown_disconnect
    <3>2. /\ acc' \in [Conns -> AcceptThread]
          /\ acc[o].pc = "linkdown"
          /\ acc'[o].pc = "read"
          /\ acc'[o].client = acc[o].client
          /\ acc'[o].spawn_tun = FALSE
          /\ \A p \in Conns \ {o} : acc'[p] = acc[p]
      BY <1>0, <2>2, NoZero DEF linkdown_disconnect, TypeOK, AcceptThread,
                                AcceptAt
    <3>3. Locals'
      BY <1>0, <1>6, <3>1, <3>2
    <3> QED BY <1>0, <2>2, <3>1, <3>2, <3>3, DisconnectType
            DEF linkdown_disconnect, TypeOK, TypeInv
  <2>3. CASE reader_fails(o)
    <3>1. acc' \in [Conns -> AcceptThread] /\ Locals'
      BY <1>0, <2>3 DEF reader_fails, TypeOK, AcceptThread, Locals, Early,
                        table
    <3> QED BY <1>0, <2>3, <3>1 DEF reader_fails, TypeOK, TypeInv, table
  <2>4. CASE reader_disconnect(o)
    <3>1. server_disconnect_session_by_convid(sess[o].convid)
      BY <2>4 DEF reader_disconnect
    <3>2. /\ acc' \in [Conns -> AcceptThread]
          /\ acc[o].pc = "close"
          /\ acc'[o].pc = "exit"
          /\ acc'[o].client = acc[o].client
          /\ acc'[o].spawn_tun = acc[o].spawn_tun
          /\ \A p \in Conns \ {o} : acc'[p] = acc[p]
      BY <1>0, <2>4 DEF reader_disconnect, TypeOK, AcceptThread
    <3>3. Locals'
      BY <1>0, <1>6, <3>1, <3>2
    <3> QED BY <1>0, <2>4, <3>1, <3>2, <3>3, DisconnectType
            DEF reader_disconnect, TypeOK, TypeInv
  <2> QED BY <1>5, <2>1, <2>2, <2>3, <2>4 DEF Reader
<1>7. ASSUME accept_error \/ ping_too_old \/ ping_disconnect
      PROVE  TypeInv'
  <2>1. CASE accept_error
    BY <1>0, <2>1 DEF accept_error, TypeOK, TypeInv, Locals, table
  <2>2. CASE ping_too_old
    <3>1. main' \in Conns
      BY <1>0, <2>2 DEF ping_too_old, Registered, TypeOK
    <3> QED BY <1>0, <2>2, <3>1 DEF ping_too_old, TypeOK, TypeInv, Locals,
                                    table
  <2>3. CASE ping_disconnect
    BY <1>0, <1>6, <2>3, DisconnectType DEF ping_disconnect, TypeOK, TypeInv
  <2> QED BY <1>7, <2>1, <2>2, <2>3
<1>8. ASSUME NEW k \in Conns, tun_choose(k) \/ tun_send(k) \/ tun_disconnect(k)
      PROVE  TypeInv'
  <2>1. CASE tun_choose(k)
    <3>1. PICK c \in IF g_use_consistent_hashing THEN consistent[k]
                     ELSE RoundRobin(Registered(k), last_convid[k]) :
            /\ tun' = [tun EXCEPT ![k] = [pc |-> "lookup", convid |-> c,
                                          conn |-> NoConn]]
            /\ last_convid' = IF g_use_consistent_hashing THEN last_convid
                              ELSE [last_convid EXCEPT ![k] = c]
      BY <2>1 DEF tun_choose
    <3>2. c \in Convids
      BY <1>0 DEF TypeOK, RoundRobin, Registered
    <3>3. /\ tun' \in [Conns -> TunThread]
          /\ last_convid' \in [Conns -> Convids \cup {0}]
      BY <1>0, <3>1, <3>2 DEF TypeOK, TunThread
    <3> QED BY <1>0, <2>1, <3>3 DEF tun_choose, TypeOK, TypeInv, Locals
  <2>2. CASE tun_send(k)
    <3>1. tun' \in [Conns -> TunThread]
      BY <1>0, <2>2 DEF tun_send, TypeOK, TunThread, TunAt, Registered
    <3> QED BY <1>0, <2>2, <3>1 DEF tun_send, TypeOK, TypeInv, Locals, table
  <2>3. CASE tun_disconnect(k)
    <3>1. tun' \in [Conns -> TunThread]
      BY <1>0, <2>3 DEF tun_disconnect, TypeOK, TunThread, TunAt
    <3> QED BY <1>0, <1>6, <2>3, <3>1, DisconnectType
            DEF tun_disconnect, TypeOK, TypeInv
  <2> QED BY <1>8, <2>1, <2>2, <2>3
<1>9. CASE UNCHANGED vars
  BY <1>0, <1>9 DEF vars, table, TypeOK, TypeInv, Locals
<1> QED BY <1>1, <1>2, <1>3, <1>4, <1>5, <1>7, <1>8, <1>9 DEF Next, Dead
-----------------------------------------------------------------------------
(* Tables and rings.                                                       *)

\* Ring and entries are inductive only together with Settled: that closing one
\* entry leaves all others open, those of other clientTypes included, needs
\* every session to be filed in at most one place, under its own convid and
\* with the clientType of its goroutine.
EntriesInv == RingMatchesTable /\ TableEntriesUsable /\ Settled
TableInv   == TypeInv /\ EntriesInv

\* Empty tables are consistent.
LEMMA EmptyTables ==
  ASSUME connections = [k \in Conns |-> EmptyMap],
         consistent = [k \in Conns |-> {}]
  PROVE  EntriesInv
<1>1. \A k \in Conns : Registered(k) = {}
  BY DEF Registered, EmptyMap
<1> QED BY <1>1 DEF EntriesInv, RingMatchesTable, TableEntriesUsable, Settled

\* A cold start, a warm start, and a crash have empty tables.
LEMMA InitTable ==
  /\ Init => TableInv
  /\ MaxConns > 0 /\ WarmInit => TableInv
BY InitType, WarmType, EmptyTables DEF Init, WarmInit, TableInv

\* What closing an entry does: it leaves its table and nothing else changes.
Closes(k, c) ==
  /\ Registered(k)' = Registered(k) \ {c}
  /\ \A j \in Conns \ {k} : Registered(j)' = Registered(j)
  /\ \A j \in Conns : \A d \in Registered(j)' :
       /\ connections'[j][d] = connections[j][d]
       /\ sess'[connections[j][d]] = sess[connections[j][d]]

\* server_close_connection does just that.
LEMMA CloseEffect ==
  ASSUME TypeOK, EntriesInv, NEW k \in Conns, NEW c \in Registered(k),
         server_close_connection(k, c)
  PROVE  Closes(k, c) /\ RingMatchesTable' /\ TableEntriesUsable'
<1>1. c \in Convids /\ connections[k][c] \in Conns
  BY DEF TypeOK, Registered
<1>2. connections' = [connections EXCEPT ![k][c] = NoConn]
  BY DEF server_close_connection
<1>3. /\ Registered(k)' = Registered(k) \ {c}
      /\ \A j \in Conns \ {k} : Registered(j)' = Registered(j)
      /\ \A j \in Conns : \A d \in Registered(j)' :
           /\ connections'[j][d] = connections[j][d]
           /\ d \in Registered(j)
           /\ ~(j = k /\ d = c)
  BY <1>1, <1>2 DEF Registered, TypeOK
<1>4. ASSUME NEW j \in Conns, NEW d \in Registered(j)'
      PROVE  sess'[connections[j][d]] = sess[connections[j][d]]
  <2>1. connections[j][d] # connections[k][c]
    BY <1>3 DEF EntriesInv, TableEntriesUsable, Settled
  <2>2. connections[j][d] \in Conns
    BY <1>3 DEF Registered, TypeOK
  <2> QED BY <2>1, <2>2, CloseType
<1>5. RingMatchesTable'
  BY <1>3 DEF EntriesInv, RingMatchesTable, server_close_connection, TypeOK
<1>6. TableEntriesUsable'
  BY <1>3, <1>4 DEF EntriesInv, TableEntriesUsable
<1> QED BY <1>3, <1>4, <1>5, <1>6 DEF Closes

\* A disconnect by convid removes at most one entry, that of g_client_list.
LEMMA DisconnectEffect ==
  ASSUME TypeOK, EntriesInv, NEW d, server_disconnect_session_by_convid(d)
  PROVE  /\ RingMatchesTable' /\ TableEntriesUsable'
         /\ \A j \in Conns :
              /\ Registered(j)' \subseteq Registered(j)
              /\ j = g_client_list => d \notin Registered(j)'
              /\ \A e \in Registered(j)' :
                   connections'[j][e] = connections[j][e]
<1>1. CASE \E k \in Conns : k = g_client_list /\ d \in Registered(k)
  <2>1. PICK k \in Conns : k = g_client_list /\ d \in Registered(k)
    BY <1>1
  <2>2. server_close_connection(k, d)
    BY <2>1, NoZero DEF server_disconnect_session_by_convid
  <2>3. RingMatchesTable' /\ TableEntriesUsable' /\ Closes(k, d)
    BY <2>1, <2>2, CloseEffect
  <2> QED BY <2>1, <2>3 DEF Closes
<1>2. CASE ~\E k \in Conns : k = g_client_list /\ d \in Registered(k)
  <2>1. UNCHANGED table
    BY <1>2 DEF server_disconnect_session_by_convid, TypeOK
  <2>2. \A j \in Conns : Registered(j)' = Registered(j)
    BY <2>1 DEF table, Registered
  <2>3. RingMatchesTable' /\ TableEntriesUsable'
    BY <2>1, <2>2 DEF table, EntriesInv, RingMatchesTable, TableEntriesUsable
  <2> QED BY <1>2, <2>1, <2>2, <2>3 DEF table
<1> QED BY <1>1, <1>2

\* A step that leaves the tables and their sessions alone, and moves no
\* goroutine back.
LEMMA SameTable ==
  ASSUME TypeOK, EntriesInv, UNCHANGED <<connections, consistent>>,
         \A o \in Conns :
           acc[o].pc \notin Early \cup {"none"} =>
             /\ sess'[o].state = sess[o].state
             /\ sess'[o].convid = sess[o].convid
             /\ acc'[o].pc \notin Early \cup {"none"}
             /\ acc'[o].client = acc[o].client
  PROVE  EntriesInv'
<1>1. \A k \in Conns : Registered(k)' = Registered(k)
  BY DEF Registered
<1>2. \A k \in Conns : \A c \in Registered(k) : connections[k][c] \in Conns
  BY DEF Registered, TypeOK
<1> QED BY <1>1, <1>2 DEF EntriesInv, RingMatchesTable, TableEntriesUsable,
                          Settled

\* What registering the session o does: its clientType has it under its
\* convid, whatever was there before, and all other entries stay.
Registers(o, k, c) ==
  /\ k = acc[o].client /\ k \in Conns
  /\ c = sess[o].convid /\ c \in Convids
  /\ sess[o].state = "open" /\ sess' = sess
  /\ Registered(k)' = Registered(k) \cup {c}
  /\ connections' = [connections EXCEPT ![k][c] = o]
  /\ consistent' = [consistent EXCEPT ![k] = @ \cup {c}]
  /\ \A j \in Conns \ {k} : Registered(j)' = Registered(j)
  /\ connections'[k][c] = o
  /\ \A j \in Conns : \A d \in Registered(j)' :
       ~(j = k /\ d = c) => /\ d \in Registered(j)
                            /\ connections'[j][d] = connections[j][d]
  /\ acc[o].pc = "register" /\ acc'[o].pc = "spawn"
  /\ acc'[o].client = k
  /\ acc'[o].spawn_tun = ~iface[k]
  /\ iface' = [iface EXCEPT ![k] = TRUE]
  /\ g_client_list' = k
  /\ \A p \in Conns \ {o} : acc'[p] = acc[p]
  /\ UNCHANGED <<tun, panic>>

\* The critical section of server_accept_conn does just that.
LEMMA RegisterEffect ==
  ASSUME TypeOK, Locals, NEW o \in Conns, register(o)
  PROVE  \E k \in Conns, c \in Convids : Registers(o, k, c)
<1>1. PICK k \in Conns, c \in Convids :
        k = acc[o].client /\ c = sess[o].convid /\ sess[o].state = "open"
  BY DEF register, Locals, Early
<1>2. /\ connections' = [connections EXCEPT ![k][c] = o]
      /\ consistent' = [consistent EXCEPT ![k] = @ \cup {c}]
      /\ acc' = [acc EXCEPT ![o] = AcceptAt("spawn", k, ~iface[k], 0)]
      /\ acc[o].pc = "register" /\ sess' = sess
      /\ iface' = [iface EXCEPT ![k] = TRUE]
      /\ g_client_list' = k
      /\ UNCHANGED <<tun, panic>>
  BY <1>1, NothingPrivate DEF register
<1>3. /\ acc'[o].pc = "spawn" /\ acc'[o].client = k
      /\ acc'[o].spawn_tun = ~iface[k]
      /\ \A p \in Conns \ {o} : acc'[p] = acc[p]
  BY <1>2 DEF TypeOK, AcceptAt
<1>4. /\ Registered(k)' = Registered(k) \cup {c}
      /\ connections'[k][c] = o
      /\ \A j \in Conns \ {k} : Registered(j)' = Registered(j)
      /\ \A j \in Conns : \A d \in Registered(j)' :
           ~(j = k /\ d = c) => /\ d \in Registered(j)
                                /\ connections'[j][d] = connections[j][d]
  BY <1>2, NoZero DEF Registered, TypeOK
<1> QED BY <1>1, <1>2, <1>3, <1>4 DEF Registers

\* Every step keeps tables, rings and entries together.
LEMMA NextTable == TableInv /\ [Next]_vars => TableInv'
<1> SUFFICES ASSUME TableInv, [Next]_vars PROVE EntriesInv'
  BY NextType DEF TableInv, EntriesInv
<1>0. TypeOK /\ Locals /\ EntriesInv
  BY DEF TableInv, TypeInv
<1>1. ASSUME NEW o \in Conns, accept(o) \/ peer_gone(o)
      PROVE  EntriesInv'
  <2>1. UNCHANGED <<connections, consistent>>
    BY <1>1 DEF accept, peer_gone
  <2>2. \A p \in Conns : acc[p].pc \notin Early \cup {"none"} =>
          /\ sess'[p].state = sess[p].state
          /\ sess'[p].convid = sess[p].convid
          /\ acc'[p] = acc[p]
    <3>1. CASE accept(o)
      BY <1>0, <3>1 DEF accept, Fresh, Locals, TypeOK
    <3>2. CASE peer_gone(o)
      BY <1>0, <3>2 DEF peer_gone, TypeOK, Session
    <3> QED BY <1>1, <3>1, <3>2
  <2> QED BY <1>0, <2>1, <2>2, SameTable
<1>2. ASSUME NEW o \in Conns,
             \/ find_client(o) \/ publish_client(o) \/ spawn(o)
             \/ recv_linkdown(o) \/ reader_fails(o)
      PROVE  EntriesInv'
  <2>1. UNCHANGED <<connections, consistent, sess>>
    BY <1>2 DEF find_client, publish_client, spawn, recv_linkdown,
                reader_fails, table
  <2>2. \A p \in Conns \ {o} : acc'[p] = acc[p]
    BY <1>0, <1>2 DEF find_client, publish_client, spawn, recv_linkdown,
                      reader_fails, TypeOK
  <2>3. CASE find_client(o) \/ publish_client(o)
    <3>1. acc[o].pc \in Early
      BY <2>3 DEF find_client, publish_client, Early
    <3> QED BY <1>0, <2>1, <2>2, <3>1, SameTable
  <2>4. CASE spawn(o) \/ recv_linkdown(o) \/ reader_fails(o)
    <3>1. /\ acc'[o].pc \notin Early \cup {"none"}
          /\ acc'[o].client = acc[o].client
      BY <1>0, <2>4 DEF spawn, recv_linkdown, reader_fails, Early, TypeOK,
                        AcceptThread, AcceptAt
    <3> QED BY <1>0, <2>1, <2>2, <3>1, SameTable
  <2> QED BY <1>2, <2>3, <2>4
<1>3. ASSUME NEW o \in Conns, register(o)
      PROVE  EntriesInv'
  <2>1. PICK k \in Conns, c \in Convids : Registers(o, k, c)
    BY <1>0, <1>3, RegisterEffect
  <2>2. RingMatchesTable'
    BY <1>0, <2>1 DEF Registers, EntriesInv, RingMatchesTable, TypeOK
  <2>3. \A j \in Conns : \A d \in Registered(j) : connections[j][d] # o
    BY <1>0, <2>1 DEF Registers, EntriesInv, Settled, Early
  <2>4. TableEntriesUsable'
    BY <1>0, <2>1 DEF Registers, EntriesInv, TableEntriesUsable
  <2>5. \A j \in Conns : \A d \in Registered(j) : connections[j][d] \in Conns
    BY <1>0 DEF Registered, TypeOK
  <2>6. Settled'
    BY <1>0, <2>1, <2>3, <2>5 DEF Registers, EntriesInv, Settled, Early
  <2> QED BY <2>2, <2>4, <2>6 DEF EntriesInv
<1>4. ASSUME NEW d, server_disconnect_session_by_convid(d),
             \A p \in Conns : \/ acc'[p] = acc[p]
                              \/ /\ acc'[p].pc \in {"read", "exit"}
                                 /\ acc'[p].client = acc[p].client
      PROVE  EntriesInv'
  <2>1. /\ RingMatchesTable' /\ TableEntriesUsable'
        /\ \A j \in Conns :
             /\ Registered(j)' \subseteq Registered(j)
             /\ \A e \in Registered(j)' :
                  connections'[j][e] = connections[j][e]
    BY <1>0, <1>4, DisconnectEffect
  <2>2. \A j \in Conns : \A e \in Registered(j) : connections[j][e] \in Conns
    BY <1>0 DEF Registered, TypeOK
  <2>3. Settled'
    BY <1>0, <1>4, <2>1, <2>2 DEF EntriesInv, Settled, Early
  <2> QED BY <2>1, <2>3 DEF EntriesInv
<1>5. ASSUME NEW o \in Conns, linkdown_disconnect(o) \/ reader_disconnect(o)
      PROVE  EntriesInv'
  <2>1. \A p \in Conns : \/ acc'[p] = acc[p]
                         \/ /\ acc'[p].pc \in {"read", "exit"}
                            /\ acc'[p].client = acc[p].client
    BY <1>0, <1>5 DEF linkdown_disconnect, reader_disconnect, TypeOK,
                      AcceptThread, AcceptAt
  <2> QED BY <1>4, <1>5, <2>1 DEF linkdown_disconnect, reader_disconnect
<1>6. ASSUME NEW o \in Conns, register_panics(o) \/ tun_panics(o)
      PROVE  EntriesInv'
  <2>1. PICK cause \in Panics : Crash(cause)
    BY <1>6, PanicCrashes
  <2>2. /\ connections' = [k \in Conns |-> EmptyMap]
        /\ consistent' = [k \in Conns |-> {}]
    BY <2>1 DEF Crash
  <2>3. \A k \in Conns : Registered(k)' = {}
    BY <2>2 DEF Registered, EmptyMap
  <2> QED BY <2>2, <2>3 DEF EntriesInv, RingMatchesTable, TableEntriesUsable,
                            Settled
<1>7. ASSUME ping_disconnect \/ \E k \in Conns : tun_disconnect(k)
      PROVE  EntriesInv'
  BY <1>4, <1>7 DEF ping_disconnect, tun_disconnect
<1>8. ASSUME \/ accept_error \/ ping_too_old \/ UNCHANGED vars
             \/ \E k \in Conns : tun_choose(k) \/ tun_send(k)
      PROVE  EntriesInv'
  <2>1. UNCHANGED <<connections, consistent, sess, acc>>
    BY <1>8 DEF accept_error, ping_too_old, tun_choose, tun_send, table, vars
  <2> QED BY <1>0, <2>1, SameTable
<1> QED BY <1>1, <1>2, <1>3, <1>5, <1>6, <1>7, <1>8
        DEF Next, Setup, Reader, Dead

\* Either start, followed by any number of steps.
AnySpec == (Init \/ (MaxConns > 0 /\ WarmInit)) /\ [][Next]_vars

\* Every reachable state of the server is well typed; in particular a LINKDOWN
\* never names more than 16 bits.
THEOREM TypeCorrect == AnySpec => []TypeOK
<1>1. TableInv => TypeOK
  BY DEF TableInv, TypeInv
<1> QED BY <1>1, InitTable, NextTable, PTL DEF AnySpec

\* In every clientType the hash ring and the table name the same convids, the
\* clientTypes of a lost race included.
THEOREM RingCorrect == AnySpec => []RingMatchesTable
<1>1. TableInv => RingMatchesTable
  BY DEF TableInv, EntriesInv
<1> QED BY <1>1, InitTable, NextTable, PTL DEF AnySpec

\* Every entry of every table is an open session under its own convid.
THEOREM EntriesCorrect == AnySpec => []TableEntriesUsable
<1>1. TableInv => TableEntriesUsable
  BY DEF TableInv, EntriesInv
<1> QED BY <1>1, InitTable, NextTable, PTL DEF AnySpec
-----------------------------------------------------------------------------
(* Readers, on a server that has served before.                            *)

\* While the process lives, g_client_list has an entry and every goroutine
\* works for it: the lookup in server_accept_conn finds it, and nothing ever
\* takes it out.  A dead process has no goroutine.
Single ==
  /\ Running => /\ g_client_list \in Conns
                /\ \A o \in Conns : acc[o].client \in {NoConn, g_client_list}
  /\ ~Running => \A o \in Conns : acc[o].pc = "none"

ReadInv == TableInv /\ Single /\ RegisteredIsRead

\* It holds when the client has been connected before.
LEMMA WarmRead == MaxConns > 0 /\ WarmInit => ReadInv
<1> SUFFICES ASSUME MaxConns > 0, WarmInit PROVE ReadInv
  OBVIOUS
<1>1. 1 \in Conns
  BY ServerAssumption DEF Conns
<1>2. Single
  BY <1>1 DEF WarmInit, Single, Running, NotYet, AcceptAt
<1>3. \A k \in Conns : Registered(k) = {}
  BY DEF WarmInit, Registered, EmptyMap
<1> QED BY <1>2, <1>3, InitTable DEF ReadInv, RegisteredIsRead

\* A step that keeps g_client_list and the clientTypes of the goroutines.
LEMMA SameSingle ==
  ASSUME Single, UNCHANGED <<panic, g_client_list>>,
         \A o \in Conns : acc'[o].client = acc[o].client,
         Running \/ acc' = acc
  PROVE  Single'
BY DEF Single, Running

\* Every step keeps one clientType, and every registered session read.
LEMMA NextRead == ReadInv /\ [Next]_vars => ReadInv'
<1> SUFFICES ASSUME ReadInv, [Next]_vars PROVE (Single /\ RegisteredIsRead)'
  BY NextTable DEF ReadInv
<1>0. TypeOK /\ Locals /\ EntriesInv /\ Single /\ RegisteredIsRead
  BY DEF ReadInv, TableInv, TypeInv
<1>c. \A k \in Conns : \A c \in Registered(k) : connections[k][c] \in Conns
  BY <1>0 DEF Registered, TypeOK
<1>1. ASSUME connections' = connections,
             \A p \in Conns :
               acc[p].pc \in {"spawn", "read", "linkdown", "close"} =>
                 acc'[p].pc \in {"spawn", "read", "linkdown", "close"}
      PROVE  RegisteredIsRead'
  <2>1. \A k \in Conns : Registered(k)' = Registered(k)
    BY <1>1 DEF Registered
  <2> QED BY <1>0, <1>c, <1>1, <2>1 DEF RegisteredIsRead
<1>2. ASSUME NEW o \in Conns, accept(o) \/ peer_gone(o)
      PROVE  (Single /\ RegisteredIsRead)'
  <2>1. /\ UNCHANGED <<connections, panic, g_client_list>> /\ Running
        /\ \A p \in Conns : acc'[p].client = acc[p].client
        /\ \A p \in Conns : acc'[p].pc \in {acc[p].pc, "lookup"}
        /\ \A p \in Conns : acc[p].pc # "none" => acc'[p] = acc[p]
    <3>1. CASE accept(o)
      BY <1>0, <3>1 DEF accept, Fresh, Locals, TypeOK, AcceptThread
    <3>2. CASE peer_gone(o)
      BY <3>2 DEF peer_gone
    <3> QED BY <1>2, <3>1, <3>2
  <2> QED BY <1>0, <1>1, <2>1, SameSingle
<1>3. ASSUME NEW o \in Conns, find_client(o) \/ publish_client(o)
      PROVE  (Single /\ RegisteredIsRead)'
  <2>1. /\ UNCHANGED <<connections, panic>> /\ Running
        /\ acc[o].pc \in {"lookup", "publish"}
        /\ \A p \in Conns \ {o} : acc'[p] = acc[p]
    BY <1>0, <1>3 DEF find_client, publish_client, TypeOK, table
  <2>2. RegisteredIsRead'
    BY <1>1, <2>1
  <2>3. g_client_list \in Conns
    BY <1>0, <2>1 DEF Single
  <2>4. CASE find_client(o)
    <3>1. acc'[o].client = g_client_list /\ g_client_list' = g_client_list
      BY <1>0, <2>3, <2>4, NoZero DEF find_client, TypeOK, AcceptAt
    <3> QED BY <1>0, <2>1, <2>2, <3>1 DEF Single, Running
  <2>5. CASE publish_client(o)
    <3>1. acc[o].client \in Conns
      BY <1>0, <2>5 DEF publish_client, Locals
    <3>2. g_client_list' = g_client_list /\ acc'[o].client = acc[o].client
      BY <1>0, <2>1, <2>5, <3>1, NoZero
      DEF publish_client, Single, TypeOK, AcceptThread
    <3> QED BY <1>0, <2>1, <2>2, <3>2 DEF Single, Running
  <2> QED BY <1>3, <2>4, <2>5
<1>4. ASSUME NEW o \in Conns, register(o)
      PROVE  (Single /\ RegisteredIsRead)'
  <2>1. PICK k \in Conns, c \in Convids : Registers(o, k, c)
    BY <1>0, <1>4, RegisterEffect
  <2>2. Running
    BY <1>4 DEF register
  <2>3. k = g_client_list
    BY <1>0, <2>1, <2>2, NoZero DEF Single, Registers
  <2>4. Single'
    BY <1>0, <2>1, <2>2, <2>3 DEF Single, Registers, Running
  <2>5. \A j \in Conns : \A d \in Registered(j) :
          connections[j][d] # o
    BY <1>0, <2>1 DEF Registers, RegisteredIsRead
  <2>6. RegisteredIsRead'
    BY <1>0, <1>c, <2>1, <2>5 DEF Registers, RegisteredIsRead
  <2> QED BY <2>4, <2>6
<1>5. ASSUME NEW o \in Conns,
             spawn(o) \/ recv_linkdown(o) \/ reader_fails(o)
      PROVE  (Single /\ RegisteredIsRead)'
  <2>1. /\ UNCHANGED <<connections, panic, g_client_list>> /\ Running
        /\ \A p \in Conns \ {o} : acc'[p] = acc[p]
        /\ acc'[o].client = acc[o].client
        /\ acc'[o].pc \in {"read", "linkdown", "close"}
    <3>1. CASE spawn(o)
      BY <1>0, <3>1 DEF spawn, TypeOK, AcceptAt, table
    <3>2. CASE recv_linkdown(o)
      BY <1>0, <3>2 DEF recv_linkdown, TypeOK, AcceptAt, table
    <3>3. CASE reader_fails(o)
      BY <1>0, <3>3 DEF reader_fails, TypeOK, AcceptThread, table
    <3> QED BY <1>5, <3>1, <3>2, <3>3
  <2> QED BY <1>0, <1>1, <2>1, SameSingle
<1>6. ASSUME NEW d, server_disconnect_session_by_convid(d),
             UNCHANGED <<panic, g_client_list>>,
             \A p \in Conns :
               /\ acc'[p].client = acc[p].client
               /\ \/ acc'[p].pc \in {acc[p].pc, "read"}
                  \/ sess[p].convid = d /\ acc[p].client \in Conns
      PROVE  (Single /\ RegisteredIsRead)'
  <2>1. \A j \in Conns :
          /\ Registered(j)' \subseteq Registered(j)
          /\ j = g_client_list => d \notin Registered(j)'
          /\ \A e \in Registered(j)' : connections'[j][e] = connections[j][e]
    BY <1>0, <1>6, DisconnectEffect
  <2>2. Running
    BY <1>6 DEF server_disconnect_session_by_convid
  <2>3. ASSUME NEW j \in Conns, NEW e \in Registered(j)'
        PROVE  acc'[connections'[j][e]].pc \in
                 {"spawn", "read", "linkdown", "close"}
    <3> DEFINE p == connections[j][e]
    <3>1. p \in Conns /\ e \in Registered(j) /\ connections'[j][e] = p
      BY <1>c, <2>1
    <3>2. /\ acc[p].pc \in {"spawn", "read", "linkdown", "close"}
          /\ sess[p].convid = e /\ acc[p].client = j
      BY <1>0, <3>1 DEF RegisteredIsRead, EntriesInv, TableEntriesUsable,
                        Settled
    <3>3. j = g_client_list
      BY <1>0, <2>2, <3>1, <3>2, NoZero DEF Single
    <3>4. e # d
      BY <2>1, <3>3
    <3> QED BY <1>6, <3>1, <3>2, <3>4
  <2>4. RegisteredIsRead'
    BY <2>3 DEF RegisteredIsRead
  <2> QED BY <1>0, <1>6, <2>2, <2>4, SameSingle
<1>7. ASSUME NEW o \in Conns, linkdown_disconnect(o) \/ reader_disconnect(o)
      PROVE  (Single /\ RegisteredIsRead)'
  <2>1. CASE linkdown_disconnect(o)
    <3>1. \A p \in Conns : /\ acc'[p].client = acc[p].client
                           /\ acc'[p].pc \in {acc[p].pc, "read"}
      BY <1>0, <2>1 DEF linkdown_disconnect, TypeOK, AcceptThread, AcceptAt
    <3> QED BY <1>6, <2>1, <3>1 DEF linkdown_disconnect
  <2>2. CASE reader_disconnect(o)
    <3>1. \A p \in Conns : /\ acc'[p].client = acc[p].client
                           /\ p # o => acc'[p].pc = acc[p].pc
      BY <1>0, <2>2 DEF reader_disconnect, TypeOK, AcceptThread
    <3>2. acc[o].client \in Conns
      BY <1>0, <2>2 DEF reader_disconnect, Locals
    <3> QED BY <1>6, <2>2, <3>1, <3>2 DEF reader_disconnect
  <2> QED BY <1>7, <2>1, <2>2
<1>8. ASSUME NEW o \in Conns, register_panics(o) \/ tun_panics(o)
      PROVE  (Single /\ RegisteredIsRead)'
  <2>1. /\ connections' = [k \in Conns |-> EmptyMap]
        /\ panic' # "none"
        /\ acc' = [p \in Conns |-> NotYet]
    BY <1>8, Zenon DEF register_panics, tun_panics, Crash
  <2>2. \A k \in Conns : Registered(k)' = {}
    BY <2>1 DEF Registered, EmptyMap
  <2>3. \A p \in Conns : acc'[p].pc = "none"
    BY <2>1 DEF NotYet, AcceptAt
  <2> QED BY <2>1, <2>2, <2>3 DEF Single, Running, RegisteredIsRead
<1>9. ASSUME ping_disconnect \/ \E k \in Conns : tun_disconnect(k)
      PROVE  (Single /\ RegisteredIsRead)'
  BY <1>6, <1>9 DEF ping_disconnect, tun_disconnect
<1>10. ASSUME \/ accept_error \/ ping_too_old \/ UNCHANGED vars
              \/ \E k \in Conns : tun_choose(k) \/ tun_send(k)
       PROVE  (Single /\ RegisteredIsRead)'
  <2>1. UNCHANGED <<connections, panic, g_client_list, acc>>
    BY <1>10 DEF accept_error, ping_too_old, tun_choose, tun_send, table, vars
  <2> QED BY <1>0, <1>1, <2>1, SameSingle
<1> QED BY <1>2, <1>3, <1>4, <1>5, <1>7, <1>8, <1>9, <1>10
        DEF Next, Setup, Reader, Dead

\* On a server that has served before, every registered session is read by its
\* goroutine, however LINKDOWNs, timeouts and reconnects interleave.
THEOREM ReadersCorrect == MaxConns > 0 /\ WarmSpec => []RegisteredIsRead
<1>1. ReadInv => RegisteredIsRead
  BY DEF ReadInv
<1> QED BY <1>1, WarmRead, NextRead, PTL DEF WarmSpec

\* Such a server never splits: the race for g_client_list needs a server that
\* does not know the client yet.
THEOREM WarmServerIsSingle == MaxConns > 0 /\ WarmSpec => []OneClient
<1>1. ReadInv => OneClient
  <2> SUFFICES ASSUME ReadInv, NEW o \in Conns, acc[o].pc \in {"spawn", "read"}
               PROVE  acc[o].client = g_client_list
    BY DEF OneClient
  <2>1. CASE Running
    BY <2>1, NoZero DEF ReadInv, TableInv, TypeInv, Single, Locals
  <2>2. CASE ~Running
    BY <2>2 DEF ReadInv, Single
  <2> QED BY <2>1, <2>2
<1> QED BY <1>1, WarmRead, NextRead, PTL DEF WarmSpec
-----------------------------------------------------------------------------
(* The reader of each tun.                                                 *)

Spawners(k) == {o \in Conns : acc[o].spawn_tun /\ acc[o].client = k}

\* TunSpawnedOnce, without counting.
TunInv ==
  \A k \in Conns :
    /\ iface[k] /\ tun[k].pc = "none" => \E o \in Conns : Spawners(k) = {o}
    /\ ~(iface[k] /\ tun[k].pc = "none") => Spawners(k) = {}
    /\ ~iface[k] => tun[k].pc = "none"

\* TunInv speaks of sets, the property of their size.
LEMMA TunInvCounts == TunInv => TunSpawnedOnce
<1>1. Cardinality({}) = 0 /\ \A o : Cardinality({o}) = 1
  BY FS_EmptySet, FS_Singleton
<1> QED BY <1>1 DEF TunInv, TunSpawnedOnce, Spawners

\* No tun at a cold start; one that is read on a server that has served.
LEMMA InitTun == Init \/ WarmInit => TunInv
<1>1. Init => TunInv
  BY DEF Init, TunInv, Spawners, NotYet, AcceptAt, TunAt
<1>2. WarmInit => TunInv
  <2> SUFFICES ASSUME WarmInit PROVE TunInv
    OBVIOUS
  <2>1. \A o \in Conns : ~acc[o].spawn_tun
    BY DEF WarmInit, NotYet, AcceptAt
  <2>2. \A k \in Conns : Spawners(k) = {}
    BY <2>1 DEF Spawners
  <2>3. \A k \in Conns : (tun[k].pc = "none" <=> k # 1) /\ (iface[k] <=> k = 1)
    BY DEF WarmInit, TunAt
  <2> QED BY <2>2, <2>3 DEF TunInv
<1> QED BY <1>1, <1>2

\* A step that leaves duties, tuns and readers alone.
LEMMA SameTun ==
  ASSUME TunInv, iface' = iface,
         \A k \in Conns : tun'[k].pc = "none" <=> tun[k].pc = "none",
         \A o \in Conns : /\ acc'[o].spawn_tun <=> acc[o].spawn_tun
                          /\ acc[o].spawn_tun => acc'[o].client = acc[o].client
  PROVE  TunInv'
<1>1. \A k \in Conns : Spawners(k)' = Spawners(k)
  BY DEF Spawners
<1> QED BY <1>1 DEF TunInv

\* Every step keeps one reader for every tun.
LEMMA NextTun == TypeInv /\ TunInv /\ [Next]_vars => TunInv'
<1> SUFFICES ASSUME TypeInv, TunInv, [Next]_vars PROVE TunInv'
  OBVIOUS
<1>0. TypeOK /\ Locals
  BY DEF TypeInv
<1>1. ASSUME NEW o \in Conns, register(o)
      PROVE  TunInv'
  <2>1. PICK k \in Conns, c \in Convids : Registers(o, k, c)
    BY <1>0, <1>1, RegisterEffect
  <2>2. ~acc[o].spawn_tun
    BY <1>0, <2>1 DEF Locals, Registers
  <2>3. \A j \in Conns \ {k} : Spawners(j)' = Spawners(j)
    BY <1>0, <2>1, <2>2 DEF Spawners, Registers
  <2>6. \A j \in Conns \ {k} : iface'[j] = iface[j]
    BY <1>0, <2>1 DEF Registers, TypeOK
  <2>4. Spawners(k)' = IF iface[k] THEN Spawners(k) ELSE Spawners(k) \cup {o}
    BY <1>0, <2>1, <2>2 DEF Spawners, Registers
  <2>5. iface'[k] = TRUE /\ tun' = tun
    BY <1>0, <2>1 DEF Registers, TypeOK
  <2> QED BY <2>3, <2>4, <2>5, <2>6 DEF TunInv
<1>2. ASSUME NEW o \in Conns, spawn(o)
      PROVE  TunInv'
  <2>1. /\ ~acc'[o].spawn_tun /\ iface' = iface
        /\ \A p \in Conns \ {o} : acc'[p] = acc[p]
    BY <1>0, <1>2 DEF spawn, TypeOK, AcceptAt
  <2>2. CASE acc[o].spawn_tun
    <3>1. PICK k \in Conns : k = acc[o].client
      BY <1>0, <1>2 DEF spawn, Locals
    <3>2. Spawners(k) = {o} /\ iface[k]
      BY <2>2, <3>1 DEF TunInv, Spawners
    <3>3. \A j \in Conns : Spawners(j)' = IF j = k THEN {} ELSE Spawners(j)
      BY <2>1, <3>1, <3>2 DEF Spawners
    <3>4. tun' = [tun EXCEPT ![k] = TunAt("read")]
      BY <1>2, <2>2, <3>1 DEF spawn
    <3>5. tun'[k].pc = "read" /\ \A j \in Conns \ {k} : tun'[j] = tun[j]
      BY <1>0, <3>4 DEF TypeOK, TunAt
    <3> QED BY <2>1, <3>2, <3>3, <3>5 DEF TunInv
  <2>3. CASE ~acc[o].spawn_tun
    <3>1. tun' = tun
      BY <1>2, <2>3 DEF spawn
    <3> QED BY <2>1, <2>3, <3>1, SameTun
  <2> QED BY <2>2, <2>3
<1>3. ASSUME NEW o \in Conns, find_client(o)
      PROVE  TunInv'
  <2>1. ~acc[o].spawn_tun
    BY <1>0, <1>3 DEF find_client, Locals
  <2>2. /\ ~acc'[o].spawn_tun /\ UNCHANGED <<iface, tun>>
        /\ \A p \in Conns \ {o} : acc'[p] = acc[p]
    BY <1>0, <1>3 DEF find_client, TypeOK, AcceptAt
  <2> QED BY <2>1, <2>2, SameTun
<1>4. ASSUME NEW o \in Conns,
             \/ accept(o) \/ peer_gone(o) \/ publish_client(o)
             \/ reader_fails(o) \/ reader_disconnect(o)
      PROVE  TunInv'
  <2>1. /\ UNCHANGED <<iface, tun>>
        /\ \A p \in Conns : /\ acc'[p].spawn_tun = acc[p].spawn_tun
                            /\ acc'[p].client = acc[p].client
    <3>1. CASE accept(o)
      BY <1>0, <3>1 DEF accept, TypeOK, AcceptThread
    <3>2. CASE peer_gone(o)
      BY <1>0, <3>2 DEF peer_gone
    <3>3. CASE publish_client(o)
      BY <1>0, <3>3 DEF publish_client, TypeOK, AcceptThread
    <3>4. CASE reader_fails(o)
      BY <1>0, <3>4 DEF reader_fails, TypeOK, AcceptThread
    <3>5. CASE reader_disconnect(o)
      BY <1>0, <3>5 DEF reader_disconnect, TypeOK, AcceptThread
    <3> QED BY <1>4, <3>1, <3>2, <3>3, <3>4, <3>5
  <2> QED BY <2>1, SameTun
<1>5. ASSUME NEW o \in Conns, recv_linkdown(o) \/ linkdown_disconnect(o)
      PROVE  TunInv'
  <2>1. ~acc[o].spawn_tun
    BY <1>0, <1>5 DEF recv_linkdown, linkdown_disconnect, Locals
  <2>2. /\ ~acc'[o].spawn_tun /\ UNCHANGED <<iface, tun>>
        /\ \A p \in Conns \ {o} : acc'[p] = acc[p]
    BY <1>0, <1>5 DEF recv_linkdown, linkdown_disconnect, TypeOK, AcceptAt
  <2> QED BY <2>1, <2>2, SameTun
<1>6. ASSUME NEW o \in Conns, register_panics(o) \/ tun_panics(o)
      PROVE  TunInv'
  <2>1. PICK cause \in Panics : Crash(cause)
    BY <1>6, PanicCrashes
  <2> QED BY <2>1 DEF Crash, TunInv, Spawners, NotYet, AcceptAt, TunAt
<1>7. ASSUME NEW k \in Conns, tun_choose(k) \/ tun_send(k) \/ tun_disconnect(k)
      PROVE  TunInv'
  <2>1. /\ UNCHANGED <<iface, acc>>
        /\ tun[k].pc # "none" /\ tun'[k].pc # "none"
        /\ \A j \in Conns \ {k} : tun'[j] = tun[j]
    BY <1>0, <1>7 DEF tun_choose, tun_send, tun_disconnect, TypeOK, TunAt
  <2> QED BY <2>1, SameTun
<1>8. ASSUME accept_error \/ ping_too_old \/ ping_disconnect \/ UNCHANGED vars
      PROVE  TunInv'
  <2>1. UNCHANGED <<iface, tun, acc>>
    BY <1>8 DEF accept_error, ping_too_old, ping_disconnect, vars
  <2> QED BY <2>1, SameTun
<1> QED BY <1>1, <1>2, <1>3, <1>4, <1>5, <1>6, <1>7, <1>8
        DEF Next, Setup, Reader, Dead

\* Each tun device, also that of a clientType that lost the race, has exactly
\* one server_handle_tun or one goroutine about to start it.
THEOREM TunReaderCorrect == AnySpec => []TunSpawnedOnce
<1>1. Init \/ (MaxConns > 0 /\ WarmInit) => TableInv /\ TunInv
  BY InitTable, InitTun
<1>2. (TableInv /\ TunInv) /\ [Next]_vars => (TableInv /\ TunInv)'
  BY NextTable, NextTun DEF TableInv
<1>3. TableInv /\ TunInv => TunSpawnedOnce
  BY TunInvCounts
<1> QED BY <1>1, <1>2, <1>3, PTL DEF AnySpec
-----------------------------------------------------------------------------
(* Each clientType implements BondTable.                                   *)

\* The session of o belongs to the clientType k.
Owned(k, o) == acc[o].client = k /\ acc[o].pc \notin Early \cup {"none"}

\* Two states of the server with the same table k.
LEMMA SameAbstract ==
  ASSUME NEW k \in Conns, connections'[k] = connections[k],
         \A o \in Conns :
           /\ Owned(k, o)' <=> Owned(k, o)
           /\ Owned(k, o) => sess'[o].state = sess[o].state
  PROVE  [Table(k)!Next]_(Table(k)!bondvars)
<1>1. SessionOf(k)' = SessionOf(k)
  BY DEF SessionOf, Owned, Early
<1> QED BY <1>1 DEF Table!bondvars

\* A disconnect by convid is the abstract Close of one table and shows in no
\* other.
LEMMA DisconnectIsClose ==
  ASSUME TypeOK, EntriesInv, NEW d, server_disconnect_session_by_convid(d),
         NEW k \in Conns, \A o \in Conns : Owned(k, o)' <=> Owned(k, o)
  PROVE  [Table(k)!Next]_(Table(k)!bondvars)
<1>1. CASE UNCHANGED table
  BY <1>1, SameAbstract DEF table
<1>2. CASE /\ g_client_list \in Conns /\ d \in Registered(g_client_list)
           /\ server_close_connection(g_client_list, d)
  <2>1. PICK j \in Conns : /\ j = g_client_list /\ d \in Registered(j)
                           /\ server_close_connection(j, d)
    BY <1>2
  <2>2. PICK o \in Conns : o = connections[j][d] /\ Owned(j, o) /\ d \in Convids
    BY <2>1 DEF EntriesInv, Settled, Registered, TypeOK, Owned
  <2>3. /\ \A p \in Conns \ {o} : sess'[p] = sess[p]
        /\ sess'[o].state = "closed"
    BY <2>1, <2>2, CloseType
  <2>4. connections' = [connections EXCEPT ![j][d] = NoConn]
    BY <2>1 DEF server_close_connection
  <2>5. CASE j # k
    <3>1. connections'[k] = connections[k]
      BY <2>4, <2>5 DEF TypeOK
    <3>2. ~Owned(k, o)
      BY <2>2, <2>5 DEF Owned
    <3> QED BY <2>3, <3>1, <3>2, SameAbstract
  <2>6. CASE j = k
    <3>1. connections'[k] = [connections[k] EXCEPT ![d] = NoConn]
      BY <2>4, <2>6 DEF TypeOK
    <3>2. SessionOf(k)' = [SessionOf(k) EXCEPT ![o] = "closed"]
      BY <2>2, <2>3, <2>6 DEF SessionOf, Owned, Early
    <3>3. connections[k][d] = o /\ connections[k][d] # NoConn
      BY <2>1, <2>2, <2>6 DEF Registered
    <3>4. Table(k)!Close(d)
      BY <2>2, <3>1, <3>2, <3>3 DEF Table!Close, Table!Bonded
    <3> QED BY <2>2, <3>4 DEF Table!Next
  <2> QED BY <2>5, <2>6
<1> QED BY <1>1, <1>2, DisconnectCases

\* The critical section of server_accept_conn is the abstract Open of one
\* table and shows in no other.
LEMMA RegisterIsOpen ==
  ASSUME TypeOK, Locals, NEW p \in Conns, register(p), NEW k \in Conns
  PROVE  [Table(k)!Next]_(Table(k)!bondvars)
<1>1. PICK j \in Conns, c \in Convids : Registers(p, j, c)
  BY RegisterEffect
<1>2. /\ ~Owned(k, p) /\ ~Owned(j, p) /\ Owned(j, p)'
      /\ \A o \in Conns \ {p} : Owned(k, o)' <=> Owned(k, o)
  BY <1>1 DEF Registers, Owned, Early
<1>3. connections' = [connections EXCEPT ![j][c] = p]
  BY <1>1 DEF Registers
<1>4. CASE j # k
  <2>1. connections'[k] = connections[k]
    BY <1>3, <1>4 DEF TypeOK
  <2>2. ~Owned(k, p)'
    BY <1>1, <1>4 DEF Registers, Owned
  <2>3. sess' = sess
    BY <1>1 DEF Registers
  <2> QED BY <1>2, <2>1, <2>2, <2>3, SameAbstract
<1>5. CASE j = k
  <2>1. connections'[k] = [connections[k] EXCEPT ![c] = p]
    BY <1>3, <1>5 DEF TypeOK
  <2>2. sess' = sess /\ sess[p].state = "open"
    BY <1>1 DEF Registers
  <2>3. /\ SessionOf(k)[p] = "none"
        /\ SessionOf(k)' = [SessionOf(k) EXCEPT ![p] = "open"]
    BY <1>2, <1>5, <2>2 DEF SessionOf, Owned, Early
  <2>4. Table(k)!Open(c, p)
    BY <2>1, <2>3 DEF Table!Open
  <2> QED BY <2>4 DEF Table!Next
<1> QED BY <1>4, <1>5

\* A panic is the abstract Die of every table.
LEMMA PanicIsDie ==
  ASSUME NEW cause, Crash(cause), NEW k \in Conns PROVE Table(k)!Die
<1>1. acc' = [o \in Conns |-> NotYet]
  BY DEF Crash
<1>2. \A o \in Conns : acc'[o].pc = "none"
  BY <1>1 DEF NotYet, AcceptAt
<1>3. SessionOf(k)' = [o \in Conns |-> "none"]
  BY <1>2 DEF SessionOf
<1>4. connections'[k] = [c \in Convids |-> NoConn]
  BY DEF Crash, EmptyMap
<1> QED BY <1>3, <1>4 DEF Table!Die

\* Every step of the server is a step of each table or does not show in it.
LEMMA NextImplements ==
  ASSUME TableInv, [Next]_vars, NEW k \in Conns
  PROVE  [Table(k)!Next]_(Table(k)!bondvars)
<1>0. TypeOK /\ Locals /\ EntriesInv
  BY DEF TableInv, TypeInv
<1>1. ASSUME NEW o \in Conns, accept(o) \/ peer_gone(o)
      PROVE  [Table(k)!Next]_(Table(k)!bondvars)
  <2>1. connections' = connections
    BY <1>1 DEF accept, peer_gone
  <2>2. CASE accept(o)
    <3>1. /\ \A p \in Conns \ {o} : acc'[p] = acc[p] /\ sess'[p] = sess[p]
          /\ acc'[o].pc = "lookup" /\ acc[o].pc = "none"
      BY <1>0, <2>2 DEF accept, Fresh, Locals, TypeOK, AcceptThread
    <3> QED BY <2>1, <3>1, SameAbstract DEF Owned, Early
  <2>3. CASE peer_gone(o)
    <3>1. acc' = acc /\ \A p \in Conns : sess'[p].state = sess[p].state
      BY <1>0, <2>3 DEF peer_gone, TypeOK, Session
    <3> QED BY <2>1, <3>1, SameAbstract DEF Owned
  <2> QED BY <1>1, <2>2, <2>3
<1>2. ASSUME NEW o \in Conns,
             \/ find_client(o) \/ publish_client(o) \/ spawn(o)
             \/ recv_linkdown(o) \/ reader_fails(o)
      PROVE  [Table(k)!Next]_(Table(k)!bondvars)
  <2>1. UNCHANGED <<connections, sess>>
    BY <1>2 DEF find_client, publish_client, spawn, recv_linkdown,
                reader_fails, table
  <2>2. \A p \in Conns \ {o} : acc'[p] = acc[p]
    BY <1>0, <1>2 DEF find_client, publish_client, spawn, recv_linkdown,
                      reader_fails, TypeOK
  <2>3. CASE find_client(o) \/ publish_client(o)
    <3>1. acc[o].pc \in Early /\ acc'[o].pc \in Early
      BY <1>0, <2>3 DEF find_client, publish_client, Early, TypeOK,
                        AcceptThread, AcceptAt
    <3> QED BY <2>1, <2>2, <3>1, SameAbstract DEF Owned
  <2>4. CASE spawn(o) \/ recv_linkdown(o) \/ reader_fails(o)
    <3>1. /\ {acc[o].pc, acc'[o].pc} \subseteq {"spawn", "read", "linkdown",
                                                "close"}
          /\ acc'[o].client = acc[o].client
      BY <1>0, <2>4 DEF spawn, recv_linkdown, reader_fails, TypeOK,
                        AcceptThread, AcceptAt
    <3> QED BY <2>1, <2>2, <3>1, SameAbstract DEF Owned, Early
  <2> QED BY <1>2, <2>3, <2>4
<1>3. ASSUME NEW o \in Conns, register(o)
      PROVE  [Table(k)!Next]_(Table(k)!bondvars)
  BY <1>0, <1>3, RegisterIsOpen
<1>4. ASSUME NEW o \in Conns, linkdown_disconnect(o) \/ reader_disconnect(o)
      PROVE  [Table(k)!Next]_(Table(k)!bondvars)
  <2>1. /\ \A p \in Conns \ {o} : acc'[p] = acc[p]
        /\ acc[o].pc \in {"linkdown", "close"}
        /\ acc'[o].pc \in {"read", "exit"}
        /\ acc'[o].client = acc[o].client
    BY <1>0, <1>4 DEF linkdown_disconnect, reader_disconnect, TypeOK,
                      AcceptThread, AcceptAt
  <2>2. \A p \in Conns : Owned(k, p)' <=> Owned(k, p)
    BY <2>1 DEF Owned, Early
  <2>3. PICK d : server_disconnect_session_by_convid(d)
    BY <1>4 DEF linkdown_disconnect, reader_disconnect
  <2> QED BY <1>0, <2>2, <2>3, DisconnectIsClose
<1>5. ASSUME NEW o \in Conns, register_panics(o) \/ tun_panics(o)
      PROVE  [Table(k)!Next]_(Table(k)!bondvars)
  <2>1. PICK cause \in Panics : Crash(cause)
    BY <1>5, PanicCrashes
  <2>2. Table(k)!Die
    BY <2>1, PanicIsDie
  <2> QED BY <2>2 DEF Table!Next
<1>6. ASSUME ping_disconnect \/ \E j \in Conns : tun_disconnect(j)
      PROVE  [Table(k)!Next]_(Table(k)!bondvars)
  <2>1. acc' = acc
    BY <1>6 DEF ping_disconnect, tun_disconnect
  <2>2. PICK d : server_disconnect_session_by_convid(d)
    BY <1>6 DEF ping_disconnect, tun_disconnect
  <2>3. \A p \in Conns : Owned(k, p)' <=> Owned(k, p)
    BY <2>1 DEF Owned
  <2> QED BY <1>0, <2>2, <2>3, DisconnectIsClose
<1>7. ASSUME \/ accept_error \/ ping_too_old \/ UNCHANGED vars
             \/ \E j \in Conns : tun_choose(j) \/ tun_send(j)
      PROVE  [Table(k)!Next]_(Table(k)!bondvars)
  <2>1. UNCHANGED <<connections, sess, acc>>
    BY <1>7 DEF accept_error, ping_too_old, tun_choose, tun_send, table, vars
  <2> QED BY <2>1, SameAbstract DEF Owned
<1> QED BY <1>1, <1>2, <1>3, <1>4, <1>5, <1>6, <1>7
        DEF Next, Setup, Reader, Dead

\* Every clientType of a server implements the abstract table, for any number
\* of sessions and any race for g_client_list: a session leaves a table closed
\* or displaced, never otherwise.
THEOREM ServerImplementsTables == Spec => ImplementsTables
<1>1. Init => \A k \in Conns : Table(k)!Init
  <2> SUFFICES ASSUME Init, NEW k \in Conns PROVE Table(k)!Init
    OBVIOUS
  <2>1. \A o \in Conns : acc[o].pc = "none"
    BY DEF Init, NotYet, AcceptAt
  <2>2. SessionOf(k) = [o \in Conns |-> "none"]
    BY <2>1 DEF SessionOf
  <2>3. connections[k] = [c \in Convids |-> NoConn]
    BY DEF Init, EmptyMap
  <2> QED BY <2>2, <2>3 DEF Table!Init
<1>2. TableInv /\ [Next]_vars
        => [\A k \in Conns : [Table(k)!Next]_(Table(k)!bondvars)]_vars
  BY NextImplements
<1> QED BY <1>1, <1>2, InitTable, NextTable, PTL DEF Spec, ImplementsTables

=============================================================================
