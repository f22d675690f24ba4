----------------------------- MODULE Aggregator -----------------------------
(***************************************************************************)
(* The connectaggregator command: run_aggregator asks an MQTT broker for a *)
(* token, then for a command line, and starts the client with it.  The     *)
(* loop shares its globals, without a lock, with the callbacks of the MQTT *)
(* library, each of which runs in a goroutine of its own.                  *)
(*                                                                         *)
(* The library (external) calls things_connectHandler when a connection    *)
(* has come up and things_connectLostHandler when it is lost.  Before it   *)
(* can reconnect by itself it is told to disconnect.  A client object that *)
(* is disconnected, with no callback left, is used again for a new one.    *)
(***************************************************************************)
EXTENDS Settings

CONSTANTS
  Clients,        \* MQTT client objects
  Cmdlines,       \* command lines the process may be started with
  Argvs,          \* command lines the aggregator may send
  Broken,         \* an argv that is not JSON
  MaxStarting     \* bound: run_client goroutines that have yet to run

NoClient == 0
NoArgv   == [NoFlags EXCEPT !.addr = "none"]

ASSUME AggregatorAssumption ==
  /\ Clients \subseteq Nat \ {NoClient}
  /\ Cmdlines \cup Argvs \subseteq Cli
  /\ Broken \in Argvs
  /\ MaxStarting \in Nat \ {0}

VARIABLES
  connected,      \* g_things_mqtt_connected
  mqttclient,     \* g_things_mqttclient
  token,          \* g_mqtt_token is not empty
  argv,           \* g_mqtt_argv
  g,              \* the settings
  running,        \* g_run_client
  starting,       \* run_client goroutines that have not set it yet
  started,        \* run_client goroutines that have (two, or more)
  exited,         \* os.Exit, or a panic
  loop,           \* run_aggregator: "run", or a line of mqtt_connect_things
  onconnect,      \* things_connectHandler of each object: next line
  onlost,         \* things_connectLostHandler of each object: next line
  link,           \* each object's connection
  subs,           \* each object's subscriptions at the broker
  requests,       \* requests on their way to the aggregator
  cmdline         \* what the process was started with

globals == <<connected, mqttclient, token, argv>>
client  == <<g, running, starting, started>>
threads == <<loop, onconnect, onlost>>
broker  == <<link, subs, requests>>
vars    == <<globals, client, exited, threads, broker, cmdline>>

Running == ~exited

Up == mqttclient # NoClient /\ link[mqttclient] = "up"

Init ==
  /\ connected = FALSE /\ mqttclient = NoClient /\ token = FALSE /\ argv = NoArgv
  /\ cmdline \in Cmdlines
  /\ g = parse_cli(Defaults, cmdline)
  /\ running = FALSE /\ starting = 0 /\ started = 0
  /\ exited = Rejected(cmdline)
  /\ loop = "run"
  /\ onconnect = [o \in Clients |-> "idle"] /\ onlost = [o \in Clients |-> "idle"]
  /\ link = [o \in Clients |-> "gone"]
  /\ subs = [o \in Clients |-> {}]
  /\ requests = {}

-----------------------------------------------------------------------------
(* What the loop and the callbacks share.                                  *)

\* Disconnect(1000): the broker forgets a clean session.
Disconnect(o) ==
  /\ link' = [link EXCEPT ![o] = "gone"]
  /\ subs' = [subs EXCEPT ![o] = {}]

\* mqtt_send, quality of service 0.
mqtt_send(kind) ==
  requests' = IF connected /\ Up THEN requests \cup {kind} ELSE requests

\* mqtt_sub(g_things_mqttclient, ...) does not look at the outcome.
mqtt_sub(kind) ==
  subs' = IF connected /\ Up THEN [subs EXCEPT ![mqttclient] = @ \cup {kind}]
                             ELSE subs

\* do_mqtt_requests: a token, an argv, or the client.
do_mqtt_requests ==
  \/ /\ ~token
     /\ mqtt_send("token")
     /\ UNCHANGED <<client, exited>>
  \/ /\ token /\ argv = NoArgv
     /\ mqtt_send("argv")
     /\ UNCHANGED <<client, exited>>
  \/ /\ token /\ argv # NoArgv
     /\ running \/ argv = Broken
     /\ UNCHANGED <<client, exited, requests>>
  \/ /\ token /\ argv \notin {NoArgv, Broken}
     /\ ~running
     /\ IF Rejected(argv)
        THEN exited' = TRUE /\ UNCHANGED client
        ELSE /\ g' = parse_cli(g, argv)
             /\ starting' = starting + 1
             /\ UNCHANGED <<running, started, exited>>
     /\ UNCHANGED requests

-----------------------------------------------------------------------------
(* run_aggregator.                                                         *)

\* Every two seconds; a goroutine started by the previous turn has run.
loop_requests ==
  /\ Running
  /\ loop = "run" /\ connected /\ starting = 0
  /\ do_mqtt_requests
  /\ UNCHANGED <<globals, threads, link, subs, cmdline>>

\* mqtt_check_brokers, every 15 seconds and at the start: mqtt_connect_things
\* disconnects the old client...
mqtt_check_brokers ==
  /\ Running
  /\ loop = "run" /\ ~connected
  /\ IF mqttclient = NoClient THEN UNCHANGED <<link, subs>> ELSE Disconnect(mqttclient)
  /\ loop' = "forget"
  /\ UNCHANGED <<globals, client, exited, onconnect, onlost, requests, cmdline>>

\* ...forgets it...
connect_things_forgets ==
  /\ Running
  /\ loop = "forget"
  /\ mqttclient' = NoClient
  /\ loop' = "make"
  /\ UNCHANGED <<connected, token, argv, client, exited, onconnect, onlost, broker,
                 cmdline>>

\* ...then makes a new one and calls Connect...
mqtt_connect_things(o) ==
  /\ Running
  /\ loop = "make"
  /\ link[o] = "gone" /\ onconnect[o] = "idle" /\ onlost[o] = "idle"
  /\ mqttclient' = o
  /\ link' = [link EXCEPT ![o] = "new"]
  /\ loop' = "connecting"
  /\ UNCHANGED <<connected, token, argv, client, exited, onconnect, onlost,
                 subs, requests, cmdline>>

\* ...and waits for the outcome.
connect_succeeds(o) ==
  /\ Running
  /\ loop = "connecting" /\ link[o] = "new"
  /\ link' = [link EXCEPT ![o] = "up"]
  /\ onconnect' = [onconnect EXCEPT ![o] = "connected"]
  /\ loop' = "run"
  /\ UNCHANGED <<globals, client, exited, onlost, subs, requests, cmdline>>

connect_fails ==
  /\ Running
  /\ loop = "connecting"
  /\ link' = [o \in Clients |-> IF link[o] = "new" THEN "gone" ELSE link[o]]
  /\ loop' = "run"
  /\ UNCHANGED <<globals, client, exited, onconnect, onlost, subs, requests, cmdline>>

\* The head of run_client, in a goroutine of its own.
run_client ==
  /\ Running
  /\ starting > 0
  /\ starting' = starting - 1
  /\ IF g.tunnel_id = 0
     THEN exited' = TRUE /\ UNCHANGED <<running, started>>
     ELSE /\ running' = TRUE
          /\ started' = IF started = 2 THEN 2 ELSE started + 1
          /\ UNCHANGED exited
  /\ UNCHANGED <<globals, g, threads, broker, cmdline>>

-----------------------------------------------------------------------------
(* The callbacks.                                                          *)

\* things_connectHandler: two assignments, the subscription, the requests.
connectHandler_assigns(o) ==
  /\ Running
  /\ onconnect[o] = "connected"
  /\ connected' = TRUE
  /\ token' = FALSE
  /\ onconnect' = [onconnect EXCEPT ![o] = "subscribe"]
  /\ UNCHANGED <<mqttclient, argv, client, exited, loop, onlost, broker, cmdline>>

connectHandler_subscribes(o) ==
  /\ Running
  /\ onconnect[o] = "subscribe"
  /\ mqtt_sub("token")
  /\ onconnect' = [onconnect EXCEPT ![o] = "request"]
  /\ UNCHANGED <<globals, client, exited, loop, onlost, link, requests, cmdline>>

connectHandler_requests(o) ==
  /\ Running
  /\ onconnect[o] = "request" /\ starting < MaxStarting
  /\ do_mqtt_requests
  /\ onconnect' = [onconnect EXCEPT ![o] = "idle"]
  /\ UNCHANGED <<globals, loop, onlost, link, subs, cmdline>>

\* things_connectLostHandler disconnects whatever client is current, and
\* panics if there is none...
lostHandler_disconnects(o) ==
  /\ Running
  /\ onlost[o] = "disconnect"
  /\ IF mqttclient = NoClient
     THEN exited' = TRUE /\ UNCHANGED <<link, subs>>
     ELSE Disconnect(mqttclient) /\ UNCHANGED exited
  /\ onlost' = [onlost EXCEPT ![o] = "flag"]
  /\ UNCHANGED <<globals, client, loop, onconnect, requests, cmdline>>

\* ...then clears the flag...
lostHandler_flags(o) ==
  /\ Running
  /\ onlost[o] = "flag"
  /\ connected' = FALSE
  /\ onlost' = [onlost EXCEPT ![o] = "nil"]
  /\ UNCHANGED <<mqttclient, token, argv, client, exited, loop, onconnect, broker,
                 cmdline>>

\* ...then the reference and the token.
lostHandler_clears(o) ==
  /\ Running
  /\ onlost[o] = "nil"
  /\ mqttclient' = NoClient
  /\ token' = FALSE
  /\ onlost' = [onlost EXCEPT ![o] = "idle"]
  /\ UNCHANGED <<connected, argv, client, exited, loop, onconnect, broker, cmdline>>

\* Faulty: does not subscribe to the topics of the token.
token_received_Deaf(o) ==
  /\ Running
  /\ link[o] = "up" /\ "token" \in subs[o] /\ "token" \in requests
  /\ requests' = requests \ {"token"}
  /\ token' = TRUE
  /\ UNCHANGED <<connected, mqttclient, argv, client, exited, threads, link, subs,
                 cmdline>>

\* things_messagePubHandler, a token.
token_received(o) ==
  /\ Running
  /\ link[o] = "up" /\ "token" \in subs[o] /\ "token" \in requests
  /\ requests' = requests \ {"token"}
  /\ token' = TRUE
  /\ mqtt_sub("argv")
  /\ UNCHANGED <<connected, mqttclient, argv, client, exited, threads, link, cmdline>>

\* Faulty: takes the new one.
argv_received_Replace(o, a) ==
  /\ Running
  /\ link[o] = "up" /\ "argv" \in subs[o] /\ token
  /\ requests' = requests \ {"argv"}
  /\ argv' = a
  /\ UNCHANGED <<connected, mqttclient, token, client, exited, threads, link, subs,
                 cmdline>>

\* things_messagePubHandler, an argv, asked for or not.  Its topic names the
\* token.  A second one that differs ends the process.
argv_received(o, a) ==
  /\ Running
  /\ link[o] = "up" /\ "argv" \in subs[o] /\ token
  /\ requests' = requests \ {"argv"}
  /\ IF argv \notin {NoArgv, a}
     THEN exited' = TRUE /\ UNCHANGED argv
     ELSE argv' = a /\ UNCHANGED exited
  /\ UNCHANGED <<connected, mqttclient, token, client, threads, link, subs, cmdline>>

-----------------------------------------------------------------------------
(* The network and the library.                                            *)

connection_lost(o) ==
  /\ Running
  /\ link[o] = "up" /\ onlost[o] = "idle"
  /\ link' = [link EXCEPT ![o] = "down"]
  /\ subs' = [subs EXCEPT ![o] = {}]
  /\ onlost' = [onlost EXCEPT ![o] = "disconnect"]
  /\ UNCHANGED <<globals, client, exited, loop, onconnect, requests, cmdline>>

message_lost(kind) ==
  /\ Running
  /\ kind \in requests
  /\ requests' = requests \ {kind}
  /\ UNCHANGED <<globals, client, exited, threads, link, subs, cmdline>>

-----------------------------------------------------------------------------
connectHandler(o) ==
  connectHandler_assigns(o) \/ connectHandler_subscribes(o) \/ connectHandler_requests(o)

lostHandler(o) ==
  lostHandler_disconnects(o) \/ lostHandler_flags(o) \/ lostHandler_clears(o)

Next ==
  \/ loop_requests \/ mqtt_check_brokers \/ connect_things_forgets
  \/ connect_fails \/ run_client
  \/ \E o \in Clients :
       \/ mqtt_connect_things(o) \/ connect_succeeds(o)
       \/ connectHandler(o) \/ lostHandler(o)
       \/ token_received(o)
       \/ \E a \in Argvs : argv_received(o, a)
       \/ connection_lost(o)
  \/ \E kind \in {"token", "argv"} : message_lost(kind)

Spec == Init /\ [][Next]_vars

\* The loop and every goroutine go on; a broker that is dialled again and again
\* answers at last, and so does an aggregator that is asked again and again.
FairSpec ==
  /\ Spec
  /\ WF_vars(loop_requests) /\ WF_vars(mqtt_check_brokers) /\ WF_vars(run_client)
  /\ WF_vars(connect_things_forgets)
  /\ WF_vars(\E o \in Clients : mqtt_connect_things(o))
  /\ SF_vars(\E o \in Clients : connect_succeeds(o))
  /\ \A o \in Clients :
       /\ WF_vars(connectHandler(o)) /\ WF_vars(lostHandler(o))
       /\ SF_vars(token_received(o))
       /\ SF_vars("argv" \in requests /\ \E a \in Argvs : argv_received(o, a))

-----------------------------------------------------------------------------
(* Properties.                                                             *)

\* Every variable holds a value of its type.
TypeOK ==
  /\ {connected, token, running, exited} \subseteq BOOLEAN
  /\ mqttclient \in Clients \cup {NoClient}
  /\ argv \in Argvs \cup {NoArgv}
  /\ starting \in 0..MaxStarting /\ started \in 0..2
  /\ loop \in {"run", "forget", "make", "connecting"}
  /\ onconnect \in [Clients -> {"idle", "connected", "subscribe", "request"}]
  /\ onlost \in [Clients -> {"idle", "disconnect", "flag", "nil"}]
  /\ link \in [Clients -> {"new", "up", "down", "gone"}]
  /\ subs \in [Clients -> SUBSET {"token", "argv"}]
  /\ requests \subseteq {"token", "argv"}

\* A client that runs, or is about to, has the settings of the argv that is
\* held, on top of those the process was started with.
RunsHeldArgv ==
  starting + started > 0 /\ Running => g = parse_cli(parse_cli(Defaults, cmdline), argv)

\* The addresses of the /30 that ip is in.
Subnet(ip) == {[ip EXCEPT ![4] = 4 * (@ \div 4) + n] : n \in 0..3}

\* "The --tunnel-ip= parameter can be the same on both the client and server":
\* whichever address of the /30 the server is given, both take the same two, the
\* client the first host of it and the server the second.
TunnelEndsMeet ==
  starting + started > 0 /\ Running =>
    \A ip \in Subnet(g.client_tun_ip) :
      LET s == parse_cli(Defaults,
                         [NoFlags EXCEPT !.tunnel_ip = <<[ip |-> ip, prefix |-> 30]>>])
      IN  /\ s.client_tun_ip = g.client_tun_ip /\ s.server_tun_ip = g.server_tun_ip
          /\ g.client_tun_ip[4] % 4 = 1 /\ g.server_tun_ip[4] % 4 = 2

\* However loop and callbacks overlap, a connection that lasts gets the client
\* started: what a lost message or a cleared token undoes is asked for again.
StartsWhileUp ==
  <>[](connected /\ Up) => <>(running \/ exited \/ argv = Broken)

-----------------------------------------------------------------------------
(* What the repository says and the code does not do; TLC refutes each.    *)

\* "ratbond will automatically use the first available IP in the subnet for the
\* server and the second at the client."  (parse_cli has them the other way
\* round.)
ServerTakesFirst ==
  starting + started > 0 /\ Running =>
    g.server_tun_ip[4] % 4 = 1 /\ g.client_tun_ip[4] % 4 = 2

\* "is the client running ?": do_mqtt_requests starts no second one.  (The answer
\* is a flag that the new goroutine sets; the loop and the connect handler may
\* both ask before it has.)
StartedOnce == starting + started <= 1

\* "reconnect to mqtt every 5 seconds, if not connected": a connection that is
\* lost comes back.  (The connect handler of a connection that is lost at once may
\* set the flag after the lost handler has cleared it; then nothing dials again.)
Reconnects == ~Up ~> Up \/ exited

=============================================================================
