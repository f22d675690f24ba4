---------------------------- MODULE TunnelProofs ----------------------------
(***************************************************************************)
(* What TLAPS proves of Tunnel, for all sets of slots and all bounds: its  *)
(* types; that a LINKDOWN, cut to 16 bits, closes no other slot; and that  *)
(* the server's members are usable.                                        *)
(*                                                                         *)
(* For a LINKDOWN one must know what messages under way can say.  Each was *)
(* written for a session that had been opened, whose slot never changes    *)
(* (OpenedHasSlot, MessageNamesSlot), and a member is registered under its *)
(* own slot (MemberInSlot).  The server's side, ServerInv, follows at the  *)
(* end.                                                                    *)
(***************************************************************************)
EXTENDS Tunnel, SequenceTheorems, TLAPS

OpenedHasSlot == \A o \in Conns : csession[o] # "none" => convid[o] \in Convids

MemberInSlot ==
  \A c \in Convids : cmembers[c] # NoConn =>
    convid[cmembers[c]] = c /\ csession[cmembers[c]] # "none"

MessageNamesSlot ==
  \A o \in Conns : \A i \in 1..Len(linkdowns[o]) :
    LET m == linkdowns[o][i]
    IN  csession[m.conn] # "none" /\ m.word = LinkdownWord(convid[m.conn])

ReaderHasPeer == \A s \in Accepts : reader[s] # "none" => peer[s] \in Conns

IInv == TypeOK /\ OpenedHasSlot /\ MemberInSlot /\ MessageNamesSlot /\ ReaderHasPeer

\* Two slots differ by less than the 16 bits can tell apart, so a cut convid
\* that is a slot is the one that was cut.
LEMMA WordIsOwnSlot ==
  ASSUME NEW c \in Convids, NEW d \in Convids, c = LinkdownWord(d)
  PROVE  c = d
<1>1. c \in Nat /\ d \in Nat /\ d - c < 65536
  BY TunnelAssumption
<1>2. QED
  BY <1>1, Z3 DEF LinkdownWord

LEMMA WordFits ==
  ASSUME NEW c \in Convids
  PROVE  LinkdownWord(c) \in Word
BY TunnelAssumption, Z3 DEF LinkdownWord, Word

LEMMA LinkdownFields ==
  /\ \A m \in Linkdown : m.conn \in Conns
  /\ \A w \in Word, o \in Conns : [word |-> w, conn |-> o] \in Linkdown
<1>1. ASSUME NEW m \in Linkdown PROVE m.conn \in Conns
  BY <1>1 DEF Linkdown
<1>2. ASSUME NEW w \in Word, NEW o \in Conns
      PROVE  [word |-> w, conn |-> o] \in Linkdown
  BY <1>2 DEF Linkdown
<1> QED BY <1>1, <1>2, Zenon

LEMMA NoConnIsNone == NoConn \notin Conns /\ NoConn \notin Accepts
BY TunnelAssumption DEF NoConn, Conns, Accepts

LEMMA InitIInv == Init => IInv
<1> SUFFICES ASSUME Init PROVE IInv
  OBVIOUS
<1>1. TypeOK
  BY DEF Init, TypeOK, client!Init, server!Init, NoConn
<1>2. OpenedHasSlot /\ MemberInSlot /\ ReaderHasPeer
  BY DEF Init, OpenedHasSlot, MemberInSlot, ReaderHasPeer, client!Init, server!Init
<1>3. MessageNamesSlot
  BY DEF Init, MessageNamesSlot
<1>4. QED
  BY <1>1, <1>2, <1>3 DEF IInv

\* What an added LINKDOWN does to the queues.
LEMMA LinkdownSent ==
  ASSUME IInv, NEW c \in client!Bonded, client_send_linkdown_message(c)
  PROVE  /\ linkdowns' \in [Conns -> Seq(Linkdown)]
         /\ \A o \in Conns : \A i \in 1..Len(linkdowns'[o]) :
              LET m == linkdowns'[o][i]
              IN  csession[m.conn] # "none" /\ m.word = LinkdownWord(convid[m.conn])
<1>1. CASE UNCHANGED linkdowns
  BY <1>1 DEF IInv, TypeOK, MessageNamesSlot
<1>2. CASE ~UNCHANGED linkdowns
  <2> DEFINE new == [word |-> LinkdownWord(c), conn |-> cmembers[c]]
  <2>1. PICK m \in client!Bonded \ {c} :
          linkdowns' = [linkdowns EXCEPT ![cmembers[m]] = Append(@, new)]
    BY <1>2 DEF client_send_linkdown_message
  <2> DEFINE p == cmembers[m]
  <2>2. c \in Convids /\ cmembers[c] \in Conns /\ p \in Conns
    BY DEF client!Bonded, IInv, TypeOK
  <2>3. new \in Linkdown
    BY <2>2, WordFits, LinkdownFields, Zenon
  <2>4. csession[new.conn] # "none" /\ new.word = LinkdownWord(convid[new.conn])
    BY <2>2 DEF IInv, MemberInSlot, client!Bonded
  <2>5. linkdowns \in [Conns -> Seq(Linkdown)]
    BY DEF IInv, TypeOK
  <2> HIDE DEF new
  <2>6. linkdowns' \in [Conns -> Seq(Linkdown)]
    BY <2>1, <2>2, <2>3, <2>5
  <2>7. ASSUME NEW o \in Conns, NEW i \in 1..Len(linkdowns'[o])
        PROVE  LET q == linkdowns'[o][i]
               IN  csession[q.conn] # "none" /\ q.word = LinkdownWord(convid[q.conn])
    <3>1. CASE o # p
      BY <3>1, <2>1, <2>5 DEF IInv, MessageNamesSlot
    <3>2. CASE o = p
      <4>1. linkdowns'[o] = Append(linkdowns[o], new) /\ linkdowns[o] \in Seq(Linkdown)
        BY <3>2, <2>1, <2>2, <2>5
      <4>2. CASE i = Len(linkdowns[o]) + 1
        BY <4>1, <4>2, <2>3, <2>4
      <4>3. CASE i \in 1..Len(linkdowns[o])
        <5>1. linkdowns'[o][i] = linkdowns[o][i]
          BY <4>1, <4>3, <2>3
        <5>2. QED
          BY <5>1, <4>3 DEF IInv, MessageNamesSlot
      <4>4. QED
        BY <4>1, <4>2, <4>3, <2>3
    <3>3. QED
      BY <3>1, <3>2
  <2>8. QED
    BY <2>6, <2>7
<1>3. QED
  BY <1>1, <1>2

LEMMA ConnectStep ==
  ASSUME IInv, NEW c \in Convids, NEW o \in Conns, connect(c, o)
  PROVE  IInv'
<1> USE NoConnIsNone DEF IInv
<1>1. /\ csession[o] = "none"
      /\ csession' = [csession EXCEPT ![o] = "open"]
      /\ cmembers' = [cmembers EXCEPT ![c] = o]
      /\ convid' = [convid EXCEPT ![o] = c]
      /\ UNCHANGED <<wan, linkdowns, svars>>
  BY DEF connect, client!Open
<1>2. TypeOK'
  BY <1>1 DEF TypeOK, svars
<1>3. OpenedHasSlot' /\ ReaderHasPeer'
  BY <1>1 DEF TypeOK, OpenedHasSlot, ReaderHasPeer, svars
<1>4. MemberInSlot'
  BY <1>1 DEF TypeOK, MemberInSlot
<1>5. MessageNamesSlot'
  <2> SUFFICES ASSUME NEW p \in Conns, NEW i \in 1..Len(linkdowns[p])
               PROVE  LET m == linkdowns[p][i]
                      IN  csession'[m.conn] # "none" /\ m.word = LinkdownWord(convid'[m.conn])
    BY <1>1 DEF MessageNamesSlot
  <2> DEFINE m == linkdowns[p][i]
  <2>1. m \in Linkdown
    BY DEF TypeOK
  <2>2. m.conn \in Conns /\ csession[m.conn] # "none" /\ m.word = LinkdownWord(convid[m.conn])
    BY <2>1, LinkdownFields, Zenon DEF MessageNamesSlot
  <2>3. m.conn # o
    BY <2>2, <1>1
  <2> HIDE DEF m
  <2>4. csession'[m.conn] = csession[m.conn] /\ convid'[m.conn] = convid[m.conn]
    BY <2>2, <2>3, <1>1 DEF TypeOK
  <2>5. QED
    BY <2>2, <2>4 DEF m
<1>6. QED
  BY <1>2, <1>3, <1>4, <1>5

LEMMA DisconnectStep ==
  ASSUME IInv, NEW c \in Convids, disconnect(c)
  PROVE  IInv'
<1>1. /\ c \in client!Bonded
      /\ csession' = [csession EXCEPT ![cmembers[c]] = "closed"]
      /\ cmembers' = [cmembers EXCEPT ![c] = NoConn]
      /\ client_send_linkdown_message(c)
      /\ UNCHANGED <<convid, wan, svars>>
  BY DEF disconnect, client!Close
<1>2. /\ linkdowns' \in [Conns -> Seq(Linkdown)]
      /\ \A o \in Conns : \A i \in 1..Len(linkdowns'[o]) :
           LET m == linkdowns'[o][i]
           IN  csession[m.conn] # "none" /\ m.word = LinkdownWord(convid[m.conn])
  BY <1>1, LinkdownSent
<1>3. TypeOK'
  BY <1>1, <1>2 DEF IInv, TypeOK, svars
<1>4. \A o \in Conns : csession[o] # "none" => csession'[o] # "none"
  BY <1>1 DEF IInv, TypeOK
<1>5. \A o \in Conns : csession'[o] # "none" => csession[o] # "none"
  BY <1>1 DEF IInv, TypeOK, MemberInSlot, client!Bonded
<1>6. OpenedHasSlot' /\ ReaderHasPeer'
  BY <1>1, <1>5 DEF IInv, OpenedHasSlot, ReaderHasPeer, svars
<1>7. MemberInSlot'
  BY <1>1, <1>4 DEF IInv, TypeOK, MemberInSlot
<1>8. MessageNamesSlot'
  <2> SUFFICES ASSUME NEW o \in Conns, NEW i \in 1..Len(linkdowns'[o])
               PROVE  LET m == linkdowns'[o][i]
                      IN  csession'[m.conn] # "none" /\ m.word = LinkdownWord(convid[m.conn])
    BY <1>1 DEF MessageNamesSlot
  <2>1. linkdowns'[o][i] \in Linkdown
    BY <1>2
  <2>2. linkdowns'[o][i].conn \in Conns
    BY <2>1, LinkdownFields, Zenon
  <2>3. QED
    BY <2>2, <1>2, <1>4
<1>9. QED
  BY <1>3, <1>6, <1>7, <1>8 DEF IInv

LEMMA RestartStep == IInv /\ client_restart => IInv'
<1> SUFFICES ASSUME IInv, client_restart PROVE IInv'
  OBVIOUS
<1> USE NoConnIsNone DEF IInv, client_restart
<1>1. TypeOK'
  BY DEF TypeOK, svars
<1>2. \A o \in Conns : csession[o] # "none" <=> csession'[o] # "none"
  BY DEF TypeOK
<1>3. OpenedHasSlot' /\ ReaderHasPeer' /\ MemberInSlot'
  BY <1>2 DEF OpenedHasSlot, ReaderHasPeer, MemberInSlot, svars
<1>4. MessageNamesSlot'
  <2> SUFFICES ASSUME NEW o \in Conns, NEW i \in 1..Len(linkdowns[o])
               PROVE  LET m == linkdowns[o][i]
                      IN  csession'[m.conn] # "none" /\ m.word = LinkdownWord(convid[m.conn])
    BY DEF MessageNamesSlot
  <2>1. linkdowns[o][i] \in Linkdown
    BY DEF TypeOK
  <2>2. linkdowns[o][i].conn \in Conns
    BY <2>1, LinkdownFields, Zenon
  <2>3. QED
    BY <2>2, <1>2 DEF MessageNamesSlot
<1>5. QED
  BY <1>1, <1>3, <1>4

\* Steps that leave the client, and what is under way, as they are.
LEMMA ServerStep ==
  ASSUME IInv, UNCHANGED <<cvars, linkdowns>>, TypeOK',
         \A s \in Accepts : reader'[s] # "none" => peer'[s] \in Conns
  PROVE  IInv'
BY DEF IInv, cvars, OpenedHasSlot, MemberInSlot, MessageNamesSlot, ReaderHasPeer

LEMMA AcceptStep ==
  ASSUME IInv, NEW o \in Conns, NEW s \in Accepts, accept(o, s)
  PROVE  IInv'
<1>1. TypeOK'
  BY DEF IInv, TypeOK, accept, Known, server!Open, cvars
<1>2. \A r \in Accepts : reader'[r] # "none" => peer'[r] \in Conns
  BY DEF IInv, TypeOK, ReaderHasPeer, accept
<1>3. QED
  BY <1>1, <1>2, ServerStep DEF accept

\* Both outcomes of a disconnect keep the server's types.
LEMMA ServerDisconnectTypes ==
  ASSUME TypeOK, NEW c, server_disconnect_session_by_convid(c)
  PROVE  /\ smembers' \in [Convids -> Accepts \cup {NoConn}]
         /\ ssession' \in [Accepts -> {"none", "open", "closed"}]
BY NoConnIsNone DEF TypeOK, server_disconnect_session_by_convid, server!Close, server!Bonded

\* The rest of a queue whose head has been read.
LEMMA LinkdownTaken ==
  ASSUME IInv, NEW o \in Conns, linkdowns[o] # <<>>,
         linkdowns' = [linkdowns EXCEPT ![o] = Tail(@)], UNCHANGED cvars
  PROVE  linkdowns' \in [Conns -> Seq(Linkdown)] /\ MessageNamesSlot'
<1>1. linkdowns \in [Conns -> Seq(Linkdown)]
  BY DEF IInv, TypeOK
<1>2. linkdowns' \in [Conns -> Seq(Linkdown)]
  BY <1>1
<1>3. ASSUME NEW p \in Conns, NEW i \in 1..Len(linkdowns'[p])
      PROVE  \E j \in 1..Len(linkdowns[p]) : linkdowns'[p][i] = linkdowns[p][j]
  <2>1. CASE p # o
    BY <2>1, <1>1
  <2>2. CASE p = o
    <3>1. linkdowns'[p] = Tail(linkdowns[p]) /\ linkdowns[p] \in Seq(Linkdown)
      BY <2>2, <1>1
    <3>2. linkdowns[p] # <<>> /\ i \in 1..Len(Tail(linkdowns[p]))
      BY <3>1, <2>2
    <3>3. i + 1 \in 1..Len(linkdowns[p])
      BY <3>1, <3>2
    <3>4. linkdowns'[p][i] = linkdowns[p][i + 1]
      BY <3>1, <3>2, HeadTailProperties
    <3>5. QED
      BY <3>3, <3>4
  <2>3. QED
    BY <2>1, <2>2
<1>4. QED
  BY <1>2, <1>3 DEF IInv, MessageNamesSlot, cvars

LEMMA ReadStep ==
  ASSUME IInv, NEW s \in Accepts, read_linkdown(s) \/ read_glued(s)
  PROVE  IInv'
<1>1. /\ reader[s] = "read" /\ linkdowns[peer[s]] # <<>>
      /\ linkdowns' = [linkdowns EXCEPT ![peer[s]] = Tail(@)]
      /\ UNCHANGED <<cvars, wan, peer, deaf>>
  BY DEF read_linkdown, read_glued, Readable
<1>2. peer[s] \in Conns
  BY <1>1 DEF IInv, ReaderHasPeer
<1>3. linkdowns' \in [Conns -> Seq(Linkdown)] /\ MessageNamesSlot'
  BY <1>1, <1>2, LinkdownTaken
<1>4. /\ smembers' \in [Convids -> Accepts \cup {NoConn}]
      /\ ssession' \in [Accepts -> {"none", "open", "closed"}]
  BY ServerDisconnectTypes DEF IInv, TypeOK, read_linkdown, read_glued
<1>5. /\ reader' \in [Accepts -> {"none", "read", "close", "exit"}]
      /\ \A r \in Accepts : reader'[r] # "none" => reader[r] # "none"
  BY <1>1 DEF IInv, TypeOK, read_linkdown, read_glued
<1>6. TypeOK'
  BY <1>1, <1>3, <1>4, <1>5 DEF IInv, TypeOK, cvars
<1>7. OpenedHasSlot' /\ MemberInSlot' /\ ReaderHasPeer'
  BY <1>1, <1>5 DEF IInv, OpenedHasSlot, MemberInSlot, ReaderHasPeer, cvars
<1>8. QED
  BY <1>3, <1>6, <1>7 DEF IInv

LEMMA ReaderEndsStep ==
  ASSUME IInv, NEW s \in Accepts, reader_fails(s) \/ reader_disconnect(s)
  PROVE  IInv'
<1>1. /\ smembers' \in [Convids -> Accepts \cup {NoConn}]
      /\ ssession' \in [Accepts -> {"none", "open", "closed"}]
  BY ServerDisconnectTypes DEF IInv, TypeOK, reader_fails, reader_disconnect
<1>2. /\ UNCHANGED <<cvars, wan, linkdowns, peer, deaf>>
      /\ reader[s] # "none"
      /\ \E p \in {"close", "exit"} : reader' = [reader EXCEPT ![s] = p]
  BY DEF reader_fails, reader_disconnect
<1>3. TypeOK'
  BY <1>1, <1>2 DEF IInv, TypeOK, cvars
<1>4. \A r \in Accepts : reader'[r] # "none" => peer'[r] \in Conns
  BY <1>2 DEF IInv, TypeOK, ReaderHasPeer
<1>5. QED
  BY <1>2, <1>3, <1>4, ServerStep

LEMMA ServerHelloStep ==
  ASSUME IInv, NEW c \in Convids, server_hello_timeout(c)
  PROVE  IInv'
<1>1. TypeOK'
  BY NoConnIsNone DEF IInv, TypeOK, server_hello_timeout, server!Close, server!Bonded, cvars
<1>2. \A r \in Accepts : reader'[r] # "none" => peer'[r] \in Conns
  BY DEF IInv, ReaderHasPeer, server_hello_timeout
<1>3. QED
  BY <1>1, <1>2, ServerStep DEF server_hello_timeout

LEMMA NextIInv == IInv /\ [Next]_vars => IInv'
<1> SUFFICES ASSUME IInv, [Next]_vars PROVE IInv'
  OBVIOUS
<1>1. ASSUME NEW c \in Convids, NEW o \in Conns, connect(c, o) PROVE IInv'
  BY <1>1, ConnectStep
<1>2. ASSUME NEW c \in Convids, disconnect(c) \/ client_hello_timeout(c) PROVE IInv'
  BY <1>2, DisconnectStep DEF client_hello_timeout
<1>3. ASSUME NEW c \in Convids, server_hello_timeout(c) PROVE IInv'
  BY <1>3, ServerHelloStep
<1>4. CASE client_restart
  BY <1>4, RestartStep
<1>5. ASSUME NEW o \in Conns, wan_breaks(o) PROVE IInv'
  BY <1>5, ServerStep DEF wan_breaks, IInv, TypeOK, ReaderHasPeer, cvars, svars
<1>6. ASSUME NEW o \in Conns, NEW s \in Accepts, accept(o, s) PROVE IInv'
  BY <1>6, AcceptStep
<1>7. ASSUME NEW s \in Accepts, read_linkdown(s) \/ read_glued(s) PROVE IInv'
  BY <1>7, ReadStep
<1>8. ASSUME NEW s \in Accepts, reader_fails(s) \/ reader_disconnect(s) PROVE IInv'
  BY <1>8, ReaderEndsStep
<1>9. CASE UNCHANGED vars
  BY <1>9, ServerStep DEF vars, cvars, svars, IInv, TypeOK, ReaderHasPeer
<1>10. QED
  BY <1>1, <1>2, <1>3, <1>4, <1>5, <1>6, <1>7, <1>8, <1>9 DEF Next

LEMMA IInvHolds == Spec => []IInv
BY InitIInv, NextIInv, PTL DEF Spec

\* Client, server and what is between them keep their types; in particular, a
\* cut convid always fits into the two bytes of a LINKDOWN.
THEOREM TypeCorrect == Spec => []TypeOK
<1>1. IInv => TypeOK
  BY DEF IInv
<1>2. QED
  BY <1>1, IInvHolds, PTL

\* However large the tunnel id, a LINKDOWN (main.go, client_send_linkdown_message
\* and server_accept_conn) closes no session of another slot.
THEOREM LinkdownCorrect == Spec => LinkdownClosesOwnSlot
<1> DEFINE own(s, c) == read_linkdown(s) /\ smembers'[c] # smembers[c]
                          => c = convid[Head(linkdowns[peer[s]]).conn]
<1>1. IInv => \A s \in Accepts, c \in Convids : own(s, c)
  <2> SUFFICES ASSUME IInv, NEW s \in Accepts, NEW c \in Convids,
                      read_linkdown(s), smembers'[c] # smembers[c]
               PROVE  c = convid[Head(linkdowns[peer[s]]).conn]
    OBVIOUS
  <2> DEFINE m == Head(linkdowns[peer[s]])
  <2>1. peer[s] \in Conns /\ linkdowns[peer[s]] # <<>>
    BY DEF IInv, ReaderHasPeer, read_linkdown, Readable
  <2>2. linkdowns[peer[s]] \in Seq(Linkdown)
    BY <2>1 DEF IInv, TypeOK
  <2>3. m \in Linkdown /\ m = linkdowns[peer[s]][1] /\ 1 \in 1..Len(linkdowns[peer[s]])
    BY <2>1, <2>2
  <2>4. /\ m.conn \in Conns /\ csession[m.conn] # "none"
        /\ m.word = LinkdownWord(convid[m.conn])
    BY <2>1, <2>3, LinkdownFields, Zenon DEF IInv, MessageNamesSlot
  <2>5. convid[m.conn] \in Convids
    BY <2>4 DEF IInv, OpenedHasSlot
  <2>6. server_disconnect_session_by_convid(m.word)
    BY DEF read_linkdown
  <2> HIDE DEF m
  <2>7. c = m.word
    BY <2>6 DEF IInv, TypeOK, server_disconnect_session_by_convid, server!Close
  <2>8. c = convid[m.conn]
    BY <2>4, <2>5, <2>7, WordIsOwnSlot
  <2>9. QED
    BY <2>8 DEF m
<1>2. IInv /\ [Next]_vars => [\A s \in Accepts, c \in Convids : own(s, c)]_vars
  BY <1>1
<1>3. QED
  BY <1>2, IInvHolds, PTL DEF Spec, LinkdownClosesOwnSlot
-----------------------------------------------------------------------------
(* The server's end of the sessions.                                       *)

\* An accepted session has a client session that was opened at its other end.
AcceptedHasPeer ==
  \A s \in Accepts :
    /\ ssession[s] # "none" => peer[s] \in Conns /\ csession[peer[s]] # "none"
    /\ ssession[s] = "none" => peer[s] = NoConn /\ reader[s] = "none"

ServerInv == AcceptedHasPeer /\ MemberUsable

LEMMA InitServerInv == Init => ServerInv
BY DEF Init, ServerInv, AcceptedHasPeer, MemberUsable, client!Init, server!Init

\* The client and the network: a session that was opened stays so, and keeps
\* its slot.
LEMMA ClientKeeps ==
  ASSUME IInv, ServerInv, UNCHANGED svars,
         \A o \in Conns : csession[o] # "none" =>
           csession'[o] # "none" /\ convid'[o] = convid[o]
  PROVE  ServerInv'
<1>1. AcceptedHasPeer'
  BY DEF ServerInv, AcceptedHasPeer, svars
<1>2. ASSUME NEW c \in Convids, smembers[c] # NoConn
      PROVE  convid'[peer[smembers[c]]] = c
  <2>1. smembers[c] \in Accepts /\ ssession[smembers[c]] = "open"
    BY <1>2 DEF IInv, TypeOK, ServerInv, MemberUsable
  <2>2. peer[smembers[c]] \in Conns /\ csession[peer[smembers[c]]] # "none"
    BY <2>1 DEF ServerInv, AcceptedHasPeer
  <2>3. QED
    BY <1>2, <2>2 DEF ServerInv, MemberUsable
<1>3. MemberUsable'
  BY <1>2 DEF ServerInv, MemberUsable, svars
<1>4. QED
  BY <1>1, <1>3 DEF ServerInv

LEMMA ClientSteps ==
  ASSUME IInv, ServerInv,
         NEW c \in Convids, (\E o \in Conns : connect(c, o)) \/ disconnect(c)
  PROVE  ServerInv'
<1>1. CASE disconnect(c)
  <2>1. /\ csession' = [csession EXCEPT ![cmembers[c]] = "closed"]
        /\ UNCHANGED <<convid, svars>>
    BY <1>1 DEF disconnect, client!Close
  <2>2. QED
    BY <2>1, ClientKeeps DEF IInv, TypeOK
<1>2. ASSUME NEW o \in Conns, connect(c, o) PROVE ServerInv'
  <2>1. /\ csession[o] = "none"
        /\ csession' = [csession EXCEPT ![o] = "open"]
        /\ convid' = [convid EXCEPT ![o] = c]
        /\ UNCHANGED svars
    BY <1>2 DEF connect, client!Open
  <2>2. QED
    BY <2>1, ClientKeeps DEF IInv, TypeOK
<1>3. QED
  BY <1>1, <1>2

\* A disconnect by convid, whoever asks for it, takes out the member of that
\* slot and closes no other, for each member's session was opened for its slot.
\* A reader that ends has just asked for the slot of its own session.
LEMMA DisconnectKeeps ==
  ASSUME IInv, ServerInv, UNCHANGED <<csession, convid, peer, deaf>>, NEW c,
         server_disconnect_session_by_convid(c),
         \A r \in Accepts : /\ reader[r] = "none" => reader'[r] = "none"
                            /\ \/ reader'[r] = reader[r]
                               \/ reader'[r] = "close"
                               \/ convid[peer[r]] = c
  PROVE  ServerInv'
<1>1. CASE c \in server!Bonded
  <2>1. /\ c \in Convids /\ smembers[c] # NoConn /\ smembers[c] \in Accepts
        /\ smembers' = [smembers EXCEPT ![c] = NoConn]
        /\ ssession' = [ssession EXCEPT ![smembers[c]] = "closed"]
    BY <1>1 DEF server_disconnect_session_by_convid, server!Close, server!Bonded, IInv, TypeOK
  <2>2. ssession[smembers[c]] = "open" /\ convid[peer[smembers[c]]] = c
    BY <2>1 DEF ServerInv, MemberUsable
  <2>3. \A r \in Accepts : /\ ssession'[r] = "none" <=> ssession[r] = "none"
                           /\ ssession'[r] = "open" => ssession[r] = "open"
    BY <2>1, <2>2 DEF IInv, TypeOK
  <2>4. AcceptedHasPeer'
    BY <2>3 DEF ServerInv, AcceptedHasPeer
  <2>6. ASSUME NEW d \in Convids, smembers'[d] # NoConn
        PROVE  /\ ssession'[smembers'[d]] = "open"
               /\ convid'[peer'[smembers'[d]]] = d
               /\ reader'[smembers'[d]] \in {"read", "close"}
    <3>1. d # c /\ smembers'[d] = smembers[d] /\ smembers[d] \in Accepts
      BY <2>6, <2>1 DEF IInv, TypeOK
    <3>2. /\ ssession[smembers[d]] = "open" /\ convid[peer[smembers[d]]] = d
          /\ reader[smembers[d]] \in {"read", "close"}
      BY <2>6, <3>1 DEF ServerInv, MemberUsable
    <3>3. smembers[d] # smembers[c]
      BY <3>1, <3>2, <2>2
    <3>4. ssession'[smembers[d]] = "open"
      BY <3>1, <3>2, <3>3, <2>1 DEF IInv, TypeOK
    <3>5. reader'[smembers[d]] \in {"read", "close"}
      BY <3>1, <3>2
    <3>6. QED
      BY <3>1, <3>2, <3>4, <3>5
  <2>7. QED
    BY <2>4, <2>6 DEF ServerInv, MemberUsable
<1>2. CASE c \notin server!Bonded
  <2>1. UNCHANGED <<smembers, ssession>>
    BY <1>2 DEF server_disconnect_session_by_convid
  <2>2. AcceptedHasPeer'
    BY <2>1 DEF ServerInv, AcceptedHasPeer
  <2>3. ASSUME NEW d \in Convids, smembers[d] # NoConn
        PROVE  reader'[smembers[d]] \in {"read", "close"}
    <3>1. smembers[d] \in Accepts /\ d # c
      BY <2>3, <1>2 DEF IInv, TypeOK, server!Bonded
    <3>2. convid[peer[smembers[d]]] = d /\ reader[smembers[d]] \in {"read", "close"}
      BY <2>3 DEF ServerInv, MemberUsable
    <3>3. QED
      BY <3>1, <3>2
  <2>4. QED
    BY <2>1, <2>2, <2>3 DEF ServerInv, MemberUsable
<1>3. QED
  BY <1>1, <1>2

\* An accepted session is a new one, in the slot its client has opened it for.
LEMMA AcceptKeeps ==
  ASSUME IInv, ServerInv, NEW o \in Conns, NEW s \in Accepts, accept(o, s)
  PROVE  ServerInv'
<1> USE NoConnIsNone
<1>1. /\ csession[o] # "none" /\ ssession[s] = "none"
      /\ ~\E r \in Accepts : peer[r] = o /\ ssession[r] = "open"
      /\ smembers' = [smembers EXCEPT ![convid[o]] = s]
      /\ ssession' = [ssession EXCEPT ![s] = "open"]
      /\ peer' = [peer EXCEPT ![s] = o]
      /\ deaf' = [deaf EXCEPT ![s] = Known(o)]
      /\ reader' = [reader EXCEPT ![s] = "read"]
      /\ UNCHANGED <<csession, convid>>
  BY DEF accept, server!Open, cvars
<1>2. convid[o] \in Convids
  BY <1>1 DEF IInv, OpenedHasSlot
<1>3. /\ ssession'[s] = "open" /\ peer'[s] = o /\ reader'[s] = "read"
      /\ deaf'[s] = Known(o)
      /\ \A r \in Accepts \ {s} : /\ ssession'[r] = ssession[r] /\ peer'[r] = peer[r]
                                  /\ reader'[r] = reader[r] /\ deaf'[r] = deaf[r]
  BY <1>1 DEF IInv, TypeOK
<1>4. AcceptedHasPeer'
  BY <1>1, <1>3 DEF ServerInv, AcceptedHasPeer
<1>6. MemberUsable'
  <2> SUFFICES ASSUME NEW d \in Convids, smembers'[d] # NoConn
               PROVE  /\ ssession'[smembers'[d]] = "open"
                      /\ convid[peer'[smembers'[d]]] = d
                      /\ reader'[smembers'[d]] \in {"read", "close"}
    BY <1>1 DEF MemberUsable
  <2>1. CASE d = convid[o]
    <3>1. smembers'[d] = s
      BY <2>1, <1>1, <1>2 DEF IInv, TypeOK
    <3>2. QED
      BY <3>1, <2>1, <1>3
  <2>2. CASE d # convid[o]
    <3>1. smembers'[d] = smembers[d] /\ smembers[d] # NoConn /\ smembers[d] \in Accepts
      BY <2>2, <1>1 DEF IInv, TypeOK
    <3>2. /\ ssession[smembers[d]] = "open" /\ convid[peer[smembers[d]]] = d
          /\ reader[smembers[d]] \in {"read", "close"}
      BY <3>1 DEF ServerInv, MemberUsable
    <3>3. smembers[d] # s
      BY <3>2, <1>1
    <3>4. QED
      BY <3>1, <3>2, <3>3, <1>3
  <2>3. QED
    BY <2>1, <2>2
<1>7. QED
  BY <1>4, <1>6 DEF ServerInv

\* Readers that go on or are about to end, and do nothing else.
LEMMA ReaderKeeps ==
  ASSUME IInv, ServerInv, UNCHANGED <<cvars, smembers, ssession, peer, deaf>>,
         NEW s \in Accepts, reader[s] = "read",
         NEW p \in {"read", "close"}, reader' = [reader EXCEPT ![s] = p]
  PROVE  ServerInv'
<1>1. \A r \in Accepts : /\ reader[r] = "none" => reader'[r] = "none"
                         /\ reader[r] \in {"read", "close"} => reader'[r] \in {"read", "close"}
  BY DEF IInv, TypeOK
<1>2. AcceptedHasPeer'
  BY <1>1 DEF ServerInv, AcceptedHasPeer, cvars
<1>3. MemberUsable'
  BY <1>1 DEF IInv, TypeOK, ServerInv, MemberUsable, cvars
<1>4. QED
  BY <1>2, <1>3 DEF ServerInv

LEMMA NextServerInv == IInv /\ ServerInv /\ [Next]_vars => ServerInv'
<1> SUFFICES ASSUME IInv, ServerInv, [Next]_vars PROVE ServerInv'
  OBVIOUS
<1>1. ASSUME NEW c \in Convids,
             (\E o \in Conns : connect(c, o)) \/ disconnect(c) \/ client_hello_timeout(c)
      PROVE  ServerInv'
  BY <1>1, ClientSteps DEF client_hello_timeout
<1>2. ASSUME NEW c \in Convids, server_hello_timeout(c) PROVE ServerInv'
  <2>1. /\ server_disconnect_session_by_convid(c)
        /\ UNCHANGED <<csession, convid, peer, deaf, reader>>
    BY <1>2 DEF server_hello_timeout, server_disconnect_session_by_convid, cvars
  <2>2. QED
    BY <2>1, DisconnectKeeps
<1>3. CASE client_restart
  <2>1. \A o \in Conns : csession[o] # "none" => csession'[o] # "none"
    BY <1>3 DEF client_restart
  <2>2. QED
    BY <2>1, <1>3, ClientKeeps DEF client_restart
<1>4. ASSUME NEW o \in Conns, wan_breaks(o) PROVE ServerInv'
  BY <1>4, ClientKeeps DEF wan_breaks, cvars
<1>5. ASSUME NEW o \in Conns, NEW s \in Accepts, accept(o, s) PROVE ServerInv'
  BY <1>5, AcceptKeeps
<1>6. ASSUME NEW s \in Accepts, read_linkdown(s) PROVE ServerInv'
  <2>1. PICK c : server_disconnect_session_by_convid(c)
    BY <1>6 DEF read_linkdown
  <2>2. UNCHANGED <<csession, convid, peer, deaf, reader>>
    BY <1>6 DEF read_linkdown, cvars
  <2>3. QED
    BY <2>1, <2>2, DisconnectKeeps
<1>7. ASSUME NEW s \in Accepts, read_glued(s) \/ reader_fails(s) PROVE ServerInv'
  <2>1. /\ reader[s] = "read"
        /\ \E p \in {"read", "close"} : reader' = [reader EXCEPT ![s] = p]
        /\ UNCHANGED <<cvars, smembers, ssession, peer, deaf>>
    BY <1>7 DEF read_glued, reader_fails, Readable
  <2>2. QED
    BY <2>1, ReaderKeeps
<1>8. ASSUME NEW s \in Accepts, reader_disconnect(s) PROVE ServerInv'
  <2>1. /\ server_disconnect_session_by_convid(convid[peer[s]])
        /\ reader[s] = "close" /\ reader' = [reader EXCEPT ![s] = "exit"]
        /\ UNCHANGED <<csession, convid, peer, deaf>>
    BY <1>8 DEF reader_disconnect, cvars
  <2>2. \A r \in Accepts : /\ reader[r] = "none" => reader'[r] = "none"
                           /\ reader'[r] = reader[r] \/ convid[peer[r]] = convid[peer[s]]
    BY <2>1 DEF IInv, TypeOK
  <2>3. QED
    BY <2>1, <2>2, DisconnectKeeps
<1>9. CASE UNCHANGED vars
  BY <1>9, ClientKeeps DEF vars, cvars
<1>10. QED
  BY <1>1, <1>2, <1>3, <1>4, <1>5, <1>6, <1>7, <1>8, <1>9 DEF Next

LEMMA ServerInvHolds == Spec => []ServerInv
BY InitServerInv, NextServerInv, IInvHolds, PTL DEF Spec

\* Late packets, LINKDOWNs read late and disconnects by convid never leave the
\* server with a member that is closed, that belongs to another slot or that
\* nobody reads (main.go, server_accept_conn, server_disconnect_session_by_convid).
THEOREM MembersCorrect == Spec => []MemberUsable
<1>1. ServerInv => MemberUsable
  BY DEF ServerInv
<1>2. QED
  BY <1>1, ServerInvHolds, PTL

=============================================================================
