------------------------------ MODULE BondTable ------------------------------
(***************************************************************************)
(* What a connection table promises, whichever side keeps it: an abstract  *)
(* specification of serverType.connections on the client (implemented by   *)
(* ClientBond) and of clientType.connections on the server (implemented by *)
(* ServerBond, once for each clientType).                                  *)
(*                                                                         *)
(* A session enters the table when it is opened, under one convid, and     *)
(* never comes back; it is closed exactly when it is taken out, in the     *)
(* same step.  The only way out of the table for a live session is to be   *)
(* displaced by a new one under the same convid.  Goroutines, locks, rings *)
(* and the moment a failure is noticed do not show.                        *)
(***************************************************************************)
CONSTANTS
  Convids,        \* keys of the table
  Conns,          \* connection objects
  NoConn          \* no entry

VARIABLES
  members,        \* convid -> the object registered under it, or NoConn
  session         \* object -> "none" (not opened yet), "open" or "closed"

bondvars == <<members, session>>

Bonded == {c \in Convids : members[c] # NoConn}

Init ==
  /\ members = [c \in Convids |-> NoConn]
  /\ session = [o \in Conns |-> "none"]

\* A new session joins the bond under the convid c.
Open(c, o) ==
  /\ session[o] = "none"
  /\ session' = [session EXCEPT ![o] = "open"]
  /\ members' = [members EXCEPT ![c] = o]

\* The member c leaves the bond and is closed.
Close(c) ==
  /\ c \in Bonded
  /\ session' = [session EXCEPT ![members[c]] = "closed"]
  /\ members' = [members EXCEPT ![c] = NoConn]

\* The process ends, and its sessions with it.
Die ==
  /\ members' = [c \in Convids |-> NoConn]
  /\ session' = [o \in Conns |-> "none"]

Next ==
  \/ \E c \in Convids, o \in Conns : Open(c, o)
  \/ \E c \in Convids : Close(c)
  \/ Die

Spec == Init /\ [][Next]_bondvars

=============================================================================
