------------------------------- MODULE Tunnel -------------------------------
(***************************************************************************)
(* Client and server together: the two connection tables, both instances   *)
(* of BondTable (which ClientBond and ServerBond implement), and what      *)
(* passes between them over the sessions.                                  *)
(*                                                                         *)
(* A session of the client is known to the server from its first packet    *)
(* on.  KCP delivers in order while the path works.  The server closes its *)
(* end without telling; any packet of the session that comes after that    *)
(* makes the listener accept it anew, but the two KCP states do not match  *)
(* and neither end hears the other ("deaf").  An end that hears nothing is *)
(* found by the hello checks; when they find one that does hear is the     *)
(* subject of Heartbeat.                                                   *)
(*                                                                         *)
(* The server has served this client before, so that g_client_list has its *)
(* clientType and every accepted session is registered in that one.  What  *)
(* two first sessions do to a server that has not is in ServerBond.        *)
(***************************************************************************)
EXTENDS Integers, Sequences

CONSTANTS
  Convids,        \* slots of the client
  MaxConns,       \* bound: sessions the client opens
  MaxAccepts,     \* bound: sessions the server accepts
  MaxLinkdowns    \* bound: LINKDOWNs under way on one session

\* The slots are a short range above the tunnel id.
ASSUME TunnelAssumption ==
  /\ Convids \subseteq Nat \ {0}
  /\ \A c \in Convids, d \in Convids : c - d < 65536
  /\ {MaxConns, MaxAccepts, MaxLinkdowns} \subseteq Nat

VARIABLES
  cmembers,       \* the client's table
  csession,       \* the client's sessions
  convid,         \* slot each of them was opened for
  wan,            \* the path of each still works
  linkdowns,      \* LINKDOWNs sent over each and not read yet
  smembers,       \* the server's table
  ssession,       \* the sessions the server has accepted
  peer,           \* client session at the other end of each
  deaf,           \* accepted anew, after the server had closed it
  reader          \* server_accept_conn of each

cvars == <<cmembers, csession, convid>>
svars == <<smembers, ssession, peer, deaf, reader>>
vars  == <<cvars, wan, linkdowns, svars>>

Conns   == 1..MaxConns
Accepts == 1..MaxAccepts
NoConn  == 0

client == INSTANCE BondTable WITH members <- cmembers, session <- csession
server == INSTANCE BondTable WITH Conns <- Accepts,
                                  members <- smembers, session <- ssession

\* create_session takes the convid for a port of its local address, which it
\* cannot resolve otherwise; the client panics.
IsPort(c) == c <= 65535

\* Faulty: a signed word.
LinkdownWord_Signed(c) == IF c < 32768 THEN c ELSE c - 65536

\* uint16(disc_convid).
LinkdownWord(c) == c % 65536

Word     == 0..65535
Linkdown == [word : Word, conn : Conns]

\* Faulty: the server pings all sessions it has accepted.
ClientHears_AnySession(o) ==
  /\ wan[o]
  /\ \E s \in Accepts : peer[s] = o /\ ~deaf[s] /\ ssession[s] = "open"

\* The server pings the members of its table, nothing else.
ClientHears(o) ==
  /\ wan[o]
  /\ \E s \in Accepts : /\ peer[s] = o /\ ~deaf[s]
                        /\ smembers[convid[o]] = s

\* Faulty: knows only of broken paths.
ServerHears_Path(s) == wan[peer[s]]

\* The client pings the members of its table, and a closed session is silent.
ServerHears(s) ==
  /\ wan[peer[s]] /\ ~deaf[s]
  /\ cmembers[convid[peer[s]]] = peer[s]

-----------------------------------------------------------------------------
Init ==
  /\ client!Init
  /\ server!Init
  /\ convid = [o \in Conns |-> 0]
  /\ wan = [o \in Conns |-> TRUE]
  /\ linkdowns = [o \in Conns |-> <<>>]
  /\ peer = [s \in Accepts |-> NoConn]
  /\ deaf = [s \in Accepts |-> FALSE]
  /\ reader = [s \in Accepts |-> "none"]

-----------------------------------------------------------------------------
(* The client.                                                             *)

\* client_connect_server: in a free slot, or over what the slot holds.  The
\* session it held is then open and in no table.
connect(c, o) ==
  /\ IsPort(c)
  /\ \A p \in Conns : p < o => csession[p] # "none"
  /\ client!Open(c, o)
  /\ convid' = [convid EXCEPT ![o] = c]
  /\ UNCHANGED <<wan, linkdowns, svars>>

\* Faulty: names the member it is sent over.
client_send_linkdown_message_Own(c) ==
  \/ UNCHANGED linkdowns
  \/ \E m \in client!Bonded \ {c} :
       LET o == cmembers[m]
       IN  /\ Len(linkdowns[o]) < MaxLinkdowns
           /\ linkdowns' = [linkdowns EXCEPT ![o] =
                Append(@, [word |-> LinkdownWord(m), conn |-> cmembers[c]])]

\* client_send_linkdown_message: over any member that is left, unless there
\* is none or the write times out.
client_send_linkdown_message(c) ==
  \/ UNCHANGED linkdowns
  \/ \E m \in client!Bonded \ {c} :
       LET o == cmembers[m]
       IN  /\ Len(linkdowns[o]) < MaxLinkdowns
           /\ linkdowns' = [linkdowns EXCEPT ![o] =
                Append(@, [word |-> LinkdownWord(c), conn |-> cmembers[c]])]

\* The three client_disconnect_session_by_...: netlink events, read and write
\* errors, timeouts.
disconnect(c) ==
  /\ client!Close(c)
  /\ client_send_linkdown_message(c)
  /\ UNCHANGED <<convid, wan, svars>>

\* Faulty: a connection that was never answered is left alone.
client_hello_timeout_Answered(c) ==
  /\ c \in client!Bonded
  /\ ~ClientHears(cmembers[c])
  /\ \E s \in Accepts : peer[s] = cmembers[c]
  /\ disconnect(c)

\* client_send_server_pings, HELLO timeout.
client_hello_timeout(c) ==
  /\ c \in client!Bonded
  /\ ~ClientHears(cmembers[c])
  /\ disconnect(c)

\* The client's process ends, be it by the panic of create_session, and is
\* started again.  Nobody sends LINKDOWNs.
client_restart ==
  /\ client!Bonded # {}
  /\ cmembers' = [c \in Convids |-> NoConn]
  /\ csession' = [o \in Conns |-> IF csession[o] = "open" THEN "closed"
                                  ELSE csession[o]]
  /\ UNCHANGED <<convid, wan, linkdowns, svars>>

-----------------------------------------------------------------------------
(* The network.                                                            *)

wan_breaks(o) ==
  /\ csession[o] = "open"
  /\ wan[o]
  /\ wan' = [wan EXCEPT ![o] = FALSE]
  /\ UNCHANGED <<cvars, linkdowns, svars>>

-----------------------------------------------------------------------------
(* The server.                                                             *)

Known(o) == \E s \in Accepts : peer[s] = o

\* A packet arrives, however late, on a session the listener does not have: a
\* new one, or one whose end here is closed.
accept(o, s) ==
  /\ csession[o] # "none"
  /\ ~\E r \in Accepts : peer[r] = o /\ ssession[r] = "open"
  /\ \A r \in Accepts : r < s => ssession[r] # "none"
  /\ server!Open(convid[o], s)
  /\ peer' = [peer EXCEPT ![s] = o]
  /\ deaf' = [deaf EXCEPT ![s] = Known(o)]
  /\ reader' = [reader EXCEPT ![s] = "read"]
  /\ UNCHANGED <<cvars, wan, linkdowns>>

server_disconnect_session_by_convid(c) ==
  IF c \in server!Bonded THEN server!Close(c) ELSE UNCHANGED <<smembers, ssession>>

\* The next LINKDOWN can be read.
Readable(s) == reader[s] = "read" /\ ~deaf[s] /\ linkdowns[peer[s]] # <<>>

\* server_accept_conn reads it on its own...
read_linkdown(s) ==
  /\ Readable(s)
  /\ server_disconnect_session_by_convid(Head(linkdowns[peer[s]]).word)
  /\ linkdowns' = [linkdowns EXCEPT ![peer[s]] = Tail(@)]
  /\ UNCHANGED <<cvars, wan, peer, deaf, reader>>

\* ...or, in stream mode, with the next message in one Read: then neither is
\* recognised, both go to the tun, and if that refuses them the reader ends.
read_glued(s) ==
  /\ Readable(s)
  /\ linkdowns' = [linkdowns EXCEPT ![peer[s]] = Tail(@)]
  /\ \E p \in {"read", "close"} : reader' = [reader EXCEPT ![s] = p]
  /\ UNCHANGED <<cvars, wan, smembers, ssession, peer, deaf>>

\* A read on a closed session fails; KCP may give up a broken path.
reader_fails(s) ==
  /\ reader[s] = "read"
  /\ ssession[s] = "closed" \/ ~wan[peer[s]]
  /\ reader' = [reader EXCEPT ![s] = "close"]
  /\ UNCHANGED <<cvars, wan, linkdowns, smembers, ssession, peer, deaf>>

\* Faulty: ends without a word.
reader_disconnect_Return(s) ==
  /\ reader[s] = "close"
  /\ reader' = [reader EXCEPT ![s] = "exit"]
  /\ UNCHANGED <<cvars, wan, linkdowns, smembers, ssession, peer, deaf>>

reader_disconnect(s) ==
  /\ reader[s] = "close"
  /\ server_disconnect_session_by_convid(convid[peer[s]])
  /\ reader' = [reader EXCEPT ![s] = "exit"]
  /\ UNCHANGED <<cvars, wan, linkdowns, peer, deaf>>

\* server_send_client_pings, HELLO timeout.
server_hello_timeout(c) ==
  /\ c \in server!Bonded
  /\ ~ServerHears(smembers[c])
  /\ server!Close(c)
  /\ UNCHANGED <<cvars, wan, linkdowns, peer, deaf, reader>>

-----------------------------------------------------------------------------
Next ==
  \/ \E c \in Convids : \/ \E o \in Conns : connect(c, o)
                        \/ disconnect(c) \/ client_hello_timeout(c)
                        \/ server_hello_timeout(c)
  \/ client_restart
  \/ \E o \in Conns : wan_breaks(o)
  \/ \E o \in Conns, s \in Accepts : accept(o, s)
  \/ \E s \in Accepts : \/ read_linkdown(s) \/ read_glued(s)
                        \/ reader_fails(s) \/ reader_disconnect(s)

Spec == Init /\ [][Next]_vars

\* Both ping loops run every two seconds.  Nothing else is promised: no session
\* need be accepted, no LINKDOWN sent, read or recognised, and no reader end.
FairSpec ==
  /\ Spec
  /\ \A c \in Convids : /\ WF_vars(client_hello_timeout(c))
                        /\ WF_vars(server_hello_timeout(c))

-----------------------------------------------------------------------------
(* Properties.                                                             *)

\* Every variable holds a value of its type.
TypeOK ==
  /\ cmembers \in [Convids -> Conns \cup {NoConn}]
  /\ csession \in [Conns -> {"none", "open", "closed"}]
  /\ convid \in [Conns -> Convids \cup {0}]
  /\ wan \in [Conns -> BOOLEAN]
  /\ linkdowns \in [Conns -> Seq(Linkdown)]
  /\ smembers \in [Convids -> Accepts \cup {NoConn}]
  /\ ssession \in [Accepts -> {"none", "open", "closed"}]
  /\ peer \in [Accepts -> Conns \cup {NoConn}]
  /\ deaf \in [Accepts -> BOOLEAN]
  /\ reader \in [Accepts -> {"none", "read", "close", "exit"}]

\* What the server's table holds is usable, however late its packets, its
\* LINKDOWNs and the disconnects by convid of other readers come: an open
\* session, in the slot its client has opened it for, that is still read.
MemberUsable ==
  \A c \in Convids : smembers[c] # NoConn =>
    /\ ssession[smembers[c]] = "open"
    /\ convid[peer[smembers[c]]] = c
    /\ reader[smembers[c]] \in {"read", "close"}

\* A LINKDOWN carries 16 bits of a 32-bit convid and may be read long after it
\* was sent, on a session that was opened for another slot, but it never closes
\* a session of a slot other than the one it was sent for.
LinkdownClosesOwnSlot ==
  [][\A s \in Accepts, c \in Convids :
       read_linkdown(s) /\ smembers'[c] # smembers[c]
         => c = convid[Head(linkdowns[peer[s]]).conn]]_vars

\* A member of the server whose client end is closed leaves the table, whether
\* or not its LINKDOWN arrives, and so does one accepted from a late packet.
StaleMemberLeaves ==
  \A s \in Accepts, c \in Convids :
    (smembers[c] = s /\ csession[peer[s]] = "closed") ~> (smembers[c] # s)

\* A member of the client that the server has closed or displaced leaves the
\* client's table, so that the next poll can connect again.
OrphanDropped ==
  \A o \in Conns, c \in Convids :
    (/\ cmembers[c] = o /\ Known(o)
     /\ \A s \in Accepts : peer[s] = o /\ ~deaf[s] => smembers[c] # s)
      ~> (cmembers[c] # o)

\* A member of the client becomes a member of the server or is given up.
MembersMeet ==
  \A o \in Conns, c \in Convids :
    (cmembers[c] = o)
      ~> (cmembers[c] # o \/ \E s \in Accepts : smembers[c] = s /\ peer[s] = o)

=============================================================================
