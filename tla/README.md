# TLA+ models of ratbond

ratbond bonds several WAN links into one tunnel. A client opens KCP sessions
to a server over each WAN and spreads the packets of a tun device over them;
the server does the same in the other direction. This directory holds TLA+
models of that program, TLC configurations that check them, and TLAPS proofs.
The models are translated from the Go source; line numbers are given in the
`map` of `PROJECT.json`.

## Inventory

| Component | State | Operations | Interaction |
|---|---|---|---|
| Client bond (`main.go`) | `serverType`: map of connections by convid, hash ring, `last_convid`, tun; one `serverConnection` per session | `client_connect_server`, disconnect by convid / source / interface, LINKDOWN, `client_check_paths` | shared by all client goroutines; `server.mu` covers part of the accesses |
| Netlink (`p_netlink.go`) | none of its own | route and link updates | calls connect and disconnect of the client bond; a poll every 15 s runs in a goroutine of its own next to the subscription |
| Server bond (`main.go`) | `g_client_list`, `clientType`, `clientConnection` | listener, `server_accept_conn`, disconnect by convid, hello check, `server_handle_tun` | one goroutine per session and per tun, the main loop |
| Packet scheduler | ring, `last_convid` | keys of a packet (`ExtractSrc`, `ExtractDst`), consistent hashing by flow, round robin | reads the map without the lock |
| KCP session wrapper (`r_tunnel.go`) | the session and its UDP socket | read, write, close, state; nil-safe | one per connection |
| Heartbeat | `last_hello`, `loopcount`, `rxtimeouts` | hello every 2 s, age limit 5 s, read deadline 5 s | main loops and readers of both sides, over the session |
| Tunnel configuration | the `g_` settings | `parse_cli`, `IpHosts`, `ipinc` | start-up, and once more before an aggregator's client starts |
| MQTT aggregator (`p_aggregator.go`, `p_mqtt.go`) | token, argv, `g_things_mqtt_connected`, `g_run_client` | three MQTT callbacks and a polling loop | no lock between them; starts the client |
| Status page, logging, helpers | none | formatting, running `ip` | read only |

What is hard in this code: the map of connections is changed by route
goroutines, the interface goroutine, readers, hello goroutines, the ping loop
and the tun goroutine; some accesses take the lock and some do not; a
goroutine remembers a *convid* and acts on it later, when the slot may hold
another connection; connecting takes two critical sections with an HTTP
request in between; error paths log and go on. The hazards are listed one by
one, with their lines, in `PROJECT.json`.

What makes a component correct: the ring names exactly the convids of the
table; what is in the table is open, filed under its own convid and read by
somebody; the tun has one reader; the connections of a WAN pass the mux limit
at most by what connects at the same moment; a failed connection leaves the
table, a lost one comes back, and the default route follows. Of the two sides
together: what one has dropped leaves the other's table, a healthy member
stays unless the ping loop is held up for too long, a dead one is gone within
ten seconds, a flow keeps its path and its order, and a LINKDOWN hits no other
slot. Of the aggregator: the client is started, with the argv that is held and
the address the server expects. Some things one would add to this list the
code does not do (an open session that is in no table, a client started
twice, a broker that never comes back); they are the findings below.

## Modules

| Module | Content | Source |
|---|---|---|
| `BondTable` | what a connection table promises, the abstract specification of both sides | both maps `connections` |
| `ClientBond` | the client bond with the netlink events that drive it; implements `BondTable` | `main.go`, `p_netlink.go` |
| `ServerBond` | the server bond; each `clientType` implements `BondTable` | `main.go` |
| `Tunnel` | client and server composed: two `BondTable`s, the sessions and messages between them | `main.go`, `r_tunnel.go` |
| `Heartbeat` | the timing of one session: main loops, hellos, age check, read deadlines | `main.go` |
| `Scheduler` | flow keys, the ring, the order of delivery | `main.go` |
| `Settings` | `parse_cli`, `IpHosts`, `ipinc` (no state) | `main.go`, `p_utils.go` |
| `Aggregator` | the MQTT loop and its callbacks, on top of `Settings` | `p_aggregator.go`, `p_mqtt.go` |
| `MC...` | constants, symmetry and the module TLC runs, for each of them | |
| `...Proofs` | TLAPS proofs: `ClientBondProofs`, `ClientLockProofs`, `ServerBondProofs`, `HeartbeatProofs`, `TunnelProofs`, `SchedulerProofs`, `AggregatorProofs` | |

`ClientBond` and `ServerBond` have the goroutines of one process each and take
the other side as an input; `Tunnel` has both sides and takes from the two
only what their refinement of `BondTable` guarantees, so that it stays small
enough for messages that are late, lost or joined.

Operators whose name ends in a suffix such as `_KeepRing` and whose comment
starts with "Faulty" are not used by the specifications. They are what a
plausible bug would make of the operator that follows; replacing the operator
by its faulty form must break a property (`mutants` in `PROJECT.json`).

### ClientBond

A `serverConnection` is an object with an identity (1, 2, ...), so that an
overwritten entry or a late disconnect can be told from the connection it
meant; `connections` maps a convid to an object. Each goroutine has a program
counter and the locals it carries over a point where others may run:

- route goroutines: `connect_begin` (first critical section: mux check and
  tun), `find_slot` (one unlocked test per step), `register` (second critical
  section), `wake` (first hello, start the goroutines), `connect_end`
  (`client_check_paths`); or `client_disconnect_session_by_src`, with one
  `close_by_src` per connection while `mu` is held;
- the interface goroutine: the same by interface name;
- readers: `handler_fails` (dead, too many timeouts, read error) and later
  `handler_disconnect`, or `handler_exit` when the session was set to nil;
- the main loop: `ping_too_old` then `ping_disconnect`, `ping_send`,
  `main_check_paths`;
- hello goroutines: `hello_done`, or `hello_timeout` then `hello_disconnect`;
- the tun goroutine: `tun_choose` (unlocked), `tun_send` (locked lookup),
  `tun_disconnect`.

A disconnect by convid looks at the table when it has the lock, not when the
failure was seen. A critical section is one step, except the closing loops.
`client_send_linkdown_message` changes the round robin's memory, which the
model keeps; the message itself is the server's input. The panics the code
can run into end the process (`Crash`).

Abstractions: an interface is determined by the source address (`IfnameOf`);
counters, hello ages and the WAN address are left out, so every age check may
fire at any time; a tun write error changes nothing on the client; `ip route`
succeeds. `connect_begin` includes the unlocked creation of the
`g_server_list` entry; the entry exists exactly while `iface` does. `alive`
is set once and never cleared, so it is not a variable. The Go runtime's
detection of concurrent map access is not modelled.

### ServerBond

Sessions, their `server_accept_conn` goroutine and the `clientType` that
goroutine may create share one number. `find_client` and `publish_client` are
separate steps because the code takes no lock there; everything after them
that is under `client.mu` is one step. `server_disconnect_session_by_convid`
looks up `g_client_list` again, as the code does. Any convid may arrive in a
LINKDOWN at any time, which stands for old and delayed ones; it is cut to 16
bits. `WarmInit` is a server that has served a client before, a state that
`Init` reaches; starting there gives more sessions for the same state space.
`net.ParseIP` of a `host:port` string is nil (standard library), modelled as
`None`.

### BondTable

A session enters the table when it is opened, is closed in the step that takes
it out, and never comes back; a session that is out of the table and open has
been displaced by one with its convid. Everything else about the two sides
(goroutines, locks, rings, who notices what) is hidden. `Die` is a panic.
The refinement mapping of the client takes `connections` and the state of each
session; on the server there is one table per `clientType`, raced ones
included, and a session counts as opened when its goroutine registers it.

### Tunnel

A client session has a slot (`convid`) and a path (`wan`) that may break; the
client may register a session over another one, which is then open and in no
table. The server accepts a session with its first packet. LINKDOWNs are
queued on the session they were written to, carry `uint16(disc_convid)` and
remember which session they were about only for the property. What a `Read`
returns may hold two messages, of which only the first is seen (stream mode).
A client may restart: its sessions are gone without a word, and packets still
on their way make the server accept them. When the server has closed its end,
any later packet of the session, also a late one of a session the client has
closed, makes the listener accept it anew, but the two KCP states do not
match: such a session is `deaf`, and the hello checks of both sides end it.
Which member the client drops, and when, is any step of `BondTable`.

The server of the composition has served this client before, so there is one
`clientType` and one table (`WarmServerIsSingle`, proved of `ServerBond`). The
race of two first sessions on a server that knows no client yet is the subject
of `server_cold` and `server_two_clients`, where the goroutines are.

`create_session` (`main.go:673`) uses the convid as the port of the address it
resolves; a convid above 65535 gives nil and the client panics at `main.go:312`.
This is `IsPort`; it is also why the 16 bits of a LINKDOWN are enough.

### Heartbeat

Time passes in ticks; in each, both main loops run once and count. The ping
and the age check happen when `loopcount` is a multiple of `PingEvery`;
`Recycle` (1500) is none, and the counter restarts at 1, so that once per cycle
the distance between two pings is `Gap` = `Recycle % PingEvery + PingEvery - 1`
(2.99 s instead of 2 s). The client's loop may lose up to `MaxStall` ticks
between two pings: it waits for `server.mu`, which a LINKDOWN write holds for up
to the write deadline of 2 s, once per connection that is closed, and for
`ip`; or it writes the LINKDOWN itself, when its pings find another session too
old. `late` says that it has once lost more than `Slack`, which is what age
limit, gap and delay leave (2.01 s less a delay). The link may be cut and come
back; KCP keeps what it has.

### Scheduler

A frame is the part of a packet that the key functions read: protocol, length,
the bytes from 20 on, the addresses. `Sprintf("%x%x")` is modelled by the
digits it writes (no leading zeros). The ring (a library) is a circle; the
place of each key on it is chosen at the start. Every registration makes a new
session, which delivers in order. Closing a session ends one side of it only:
what the sender's KCP has not sent yet is lost, from some packet on, the rest is
still delivered until the peer closes its end (`peer_closes`), possibly after
packets that were sent later over another member. A registration over an
occupied slot loses nothing.

### Settings and Aggregator

`parse_cli` is a function from settings and flags to settings, because the
code runs it twice on the same globals. An argv is a record of the flags that
the properties tell apart. Each callback is split where the loop or another
callback may run between two of its lines: the two assignments, the
subscription and the requests of `things_connectHandler`; the `Disconnect`, the
flag and the rest of `things_connectLostHandler`. So is `mqtt_connect_things`:
between the line that forgets the old client and the one that makes the new
one, a lost handler dereferences nil and ends the process. Nothing orders the
callbacks of one client or of two: paho runs each in a goroutine of its own.
What `mqtt_send` and `mqtt_sub` do, from the test of the flag to the use of the
client, is one step.

## Runs

| Run | Instance | States | Shows |
|---|---|---|---|
| `client_race` | 1 WAN, 2 route goroutines, a hello goroutine, 2 slots, mux 1, 3 connections, hashing | 3.0 M | ring, table, readers and tun stay together although hellos outlive their connection; the mux limit is passed by at most one; the closing loops have the table for themselves; `BondTable` is implemented |
| `client_live` | 1 WAN, 2 route goroutines, 2 slots, 2 connections, fairness | 96 k | reconnection, failed members leave, default route, lock |
| `server_cold` | 2 convids, 2 sessions, round robin, nothing known yet | 0.5 M | invariants survive the creation race; every `clientType` implements `BondTable` |
| `server_live` | 1 convid, 2 further sessions, fairness | 17 k | members are read, one `clientType`, silent members leave, readers end |
| `tunnel` | slots 65534 and 65535, 3 client sessions, 2 accepted ones, 1 LINKDOWN under way per session, fairness | 209 k | the server's members are usable; a LINKDOWN closes its own slot only; what one side dropped leaves the other's table |
| `heartbeat` | half-second ticks, all phases of both loops, a stall of 2 s between two pings, delays up to 1 s | 5.6 M | a member that works is dropped only after more than the slack was lost; a silent one is gone in ten seconds |
| `scheduler` | 2 convids, 2 packets per direction, 3 registrations per side, TCP and UDP flows, every ring | 2.7 M | order of delivery, also from closed sessions; the same member both ways |
| `aggregator` | 2 client objects, a good argv, one that is no /30, one that is no JSON, fairness | 271 k | the held argv, endpoints that meet, the client starts, with callbacks overlapping in every way |

Runs that TLC is expected to refute, each a disagreement between the code and
what a comment, message or the repository's README says (`findings`):

| Run | What happens |
|---|---|
| `client_slots_full` | a full table: the search returns a slot it never tested |
| `server_two_clients` | two `clientType` objects for one client |
| `server_leak` | a displaced session is never closed |
| `client_leak` | two route goroutines fill the same slot; the first one's session is open and unreachable |

Further disagreements, stated at the end of the modules as formulas that TLC
refutes when they are listed in a configuration; they are in no run of
`PROJECT.json`:

| Text | Code | Formula and instance |
|---|---|---|
| `README.md:12`: the first IP of the subnet is the server's, the second the client's | `parse_cli` (`main.go:1717`) does the reverse, consistently on both sides (`TunnelEndsMeet`) | `ServerTakesFirst`, `aggregator` |
| `main.go:749`: "2 seconds read deadline" | 5000 ms (`main.go:750`) | `TwoSecondDeadline`, `heartbeat` |
| `README.md:146`: a member is dead "if no HELLO's are received for 10 seconds" | one LINKDOWN write that blocks for its 2 s, and the server drops a member whose link works: `g_max_hello` is 5 s and the gap 2.99 s | `HealthyNeverDropped`, `heartbeat` in quarter-second ticks (ping 8, restart 20, limits 20, stall 8, delay 2) |
| `README.md:148`: "10 seconds being the worst case" | two such writes in a closing loop, and a silent member stays for 5 + 2.99 + 4 s | `SilentGoneInTime`, `heartbeat` with `MaxStall` = 8 |
| `README.md:146`: LINKDOWN "over the remaining WAN links" | with `--mux` above 1 it may be written to another connection of the dead interface (`main.go:426`) | `LinkdownAvoidsDeadIface`, `client_race` with `TwoIfaces`, one route goroutine, mux 2, 4 slots |
| `p_aggregator.go:31`: "is the client running ?" | the flag is set by the goroutine that is started; loop and connect handler may both start a client | `StartedOnce`, `aggregator` |
| `p_aggregator.go:99`: "reconnect to mqtt every 5 seconds, if not connected" | the check runs every 15 s, and a connect handler that sets the flag after the lost handler has cleared it ends reconnecting for good | `Reconnects`, `aggregator` |

The ten seconds of the repository's README thus hold for one blocked LINKDOWN
write (5 + 2.99 + 2 s) and not for several; `client_disconnect_session_by_ifname`
writes one for every connection of the interface. Without any blocked write the
worst case is below eight seconds.

### Further observations

Behaviours of the same kind that the models contain and no run is about:

- a reader or hello goroutine disconnects by convid (`main.go:766`) and may
  close the connection that has replaced its own in the slot; the server's
  readers do the same (`main.go:1272`);
- a LINKDOWN that arrives late closes the session that uses its slot by then
  (`main.go:1302`); it is the slot that is right, not the session;
- two route goroutines that pass the check at `main.go:207` together exceed
  `--mux` by one (`MuxOvershootBounded` is the bound that holds);
- packets of a flow that were sent before a member joined, or before the member
  that carried them left, may arrive after later ones: the peer goes on reading
  a session that was closed on one side only;
- nothing resets `connection.rxtimeouts` (`main.go:759`), so a connection is
  closed at its 21st read timeout, however far these are apart;
- `net.ParseIP` at `main.go:1202` is given `host:port`, so the private address
  check refuses nothing (`ParseIP` in `ServerBond`);
- `main.go:379` and `:223` and `p_netlink.go:58` log an error and then use the
  nil they have found (`route_update_panics`, `createTun_fails`);
- a flag with its default's value cannot be told from a missing one, so an
  argv's `--mux=1` does not undo `--mux=3`; an argv that is not JSON is kept
  and never asked for again;
- the key functions read bytes 20 to 23 of every TCP packet: with IP options,
  or in a later fragment, these are not ports, and the packet may take another
  member than its flow.

### Bounds

`MaxConns` bounds the objects created, not those alive: three let a slot be
used, freed and reused while the first user's goroutine is still about to
act, which is what every stale-convid hazard needs. `SlotSpan` is 10 in the
code; 0 leaves two slots, so that a full table is reached.
`SlotLimit` keeps the code's 100. Two route goroutines are what runs at any
time in practice (subscription and poll); the proofs are for any number. One
hello goroutine is enough to meet a reused slot. Route goroutines and hello
goroutines are interchangeable, so `client_race`, which checks safety only,
uses their symmetry.

`tunnel` takes the two largest slots a client can have, so that cutting to 16
bits, or reading them as a signed number, would show; three client sessions
let a slot be reused after a restart, and two accepts let the server meet an
old and a new session of it.

`heartbeat` counts in half seconds: ping 4, limits 10, ten seconds 20. The loop
counter restarts at 14 instead of 30; what matters of the restart is that it is
two ticks after a ping, as in the program (1500 is 100 more than a multiple of
200). `MaxStall` = 4 is one LINKDOWN write that blocks for its whole deadline.
The proofs are for all values with the relations of `HeartbeatAssumption`, the
program's among them, and for any stall.

In `scheduler`, two packets are what a reordering needs; two convids and three
registrations let a member leave, another stay, and a slot be used again, over a
live session or after one. In `aggregator`, two client objects are the current
one and one with late callbacks; `MaxStarting` = 2 allows the double start.
`client_leak` keeps the code's eleven slots, since it is about the race and not
about their number.

The client's passing runs have one WAN, with two route goroutines on it; that
closing by source or by interface leaves other WANs alone is in the proofs
(`LoopOwnsTable`, `ImplementsTable`), for any number.

### Fairness

`ClientBond`: a goroutine that can go on does, `sync.Mutex` does not starve a
waiter (it hands over after 1 ms), the routing table is polled for ever and
reports the default route of each source (`netlink_get_routes`, every 15 s),
and the main loop calls `client_check_paths` again and again. That a route
goroutine goes on also takes that the HTTP GET of `get_wan_ip`
(`p_utils.go:339`), which has no timeout of its own, ends.
`RouteGetsConnected` is therefore about sources whose route exists; it stops at
the bound (`Exhausted`). `ServerBond`: the ping loop reaches every silent entry
again and again (Go's map order is random), and a read on a closed session
fails once what was buffered is read. Nothing is assumed of peers, timeouts,
link events or panics.

`Tunnel`: the hello checks of both main loops, which are what `Heartbeat` is
about, and nothing else. No message has to arrive and no reader to end.

`Aggregator`: the loop and every goroutine go on (weak fairness); a broker that
is dialled again and again answers at last, and so does the aggregator
(strong fairness). Connections and messages may be lost for ever otherwise.

Deadlock is checked wherever the system cannot stop. `Dead` is the stuttering
of a process that has panicked; on the server also of one whose listener has
returned. `scheduler`, `tunnel` and `aggregator` may stop, when a bound or the
end of the process is reached.

## Proofs

All for every value of the constants that the named assumptions of the module
allow.

| Module | Theorem | Statement |
|---|---|---|
| `ClientBondProofs` | `TypeCorrect`, `RingCorrect`, `EntriesCorrect`, `ReadersCorrect`, `TunReaderCorrect` | `Spec => []` `TypeOK`, `RingMatchesTable`, `TableEntriesUsable`, `RegisteredIsRead`, `TunSpawnedOnce` |
| | `MuxCorrect` | `Spec => []MuxOvershootBounded` |
| | `ClientImplementsTable` | `Spec => ImplementsTable` |
| `ClientLockProofs` | `LockProtectsLoops` | `Spec => LoopOwnsTable` |
| `ServerBondProofs` | `TypeCorrect`, `RingCorrect`, `EntriesCorrect`, `TunReaderCorrect` | the same invariants, from a cold and from a warm start |
| | `ReadersCorrect`, `WarmServerIsSingle` | from a warm start, `[]RegisteredIsRead` and `[]OneClient` |
| | `ServerImplementsTables` | `Spec => ImplementsTables` |
| `HeartbeatProofs` | `TypeCorrect`, `HealthyCorrect` | `Spec => []TypeOK`, `Spec => []HealthyStays`, for any `MaxStall` |
| | `SilentCorrect` | if `MaxHello + Gap + MaxStall <= TenSeconds`, `Spec => []SilentGoneInTime` |
| `TunnelProofs` | `TypeCorrect`, `MembersCorrect`, `LinkdownCorrect` | `Spec => []TypeOK`, `Spec => []MemberUsable`, `Spec => LinkdownClosesOwnSlot` |
| `SchedulerProofs` | `TypeCorrect`, `BothWaysCorrect`, `InOrderCorrect` | `Spec => []TypeOK`, `Spec => []BothWays`, `Spec => InOrder` |
| `AggregatorProofs` | `TypeCorrect`, `RunsHeldArgvCorrect`, `TunnelEndsCorrect` | `Spec => []` `TypeOK`, `RunsHeldArgv`, `TunnelEndsMeet` |

Arguments:

- Client. Types alone are not inductive: `Locals` adds that a goroutine which
  is going to use a slot, a source or an object has one. `TableInv` is types,
  ring, entries and readers together: the ring equals the table because every
  close removes from both and `register` adds to both, also when it overwrites;
  an entry stays open because a close removes exactly the entry it closes, for
  which no object may be filed twice (it is filed under its own convid);
  readers leave only by a disconnect after which the convid has no entry.
  `TunInv` says that the set of goroutines with `spawn_tun` is a singleton
  exactly while the tun exists without a reader; it needs `SlotLimit >
  SlotSpan + 1` (100 against 11), because a goroutine that gave up there would
  forget to start the reader of the tun it has created. The mux bound counts the
  connections of a source and the goroutines between check and registration:
  only `connect_begin` adds to the sum, after it has seen fewer than the limit.
- Client, lock. `LockInv` says that whoever holds `server.mu` between steps is
  in one of the two closing loops, and the other way round; hence, with any
  number of goroutines, only the loop changes the table until it is done, and
  takes out only what it looks for (`LoopOwnsTable`).
- Server. The same, once for each `clientType`; `Settled` adds that a session
  in a table is filed with the `clientType` of its goroutine, so that a close
  in one leaves the others alone. `Single` says that on a warm server all
  goroutines found the same `clientType`, which is what readers need.
- Refinement. Under these invariants every step opens a session that had not
  been open, closes exactly one that is in the table, ends the process, or
  leaves table and sessions alone.
- Heartbeat. `Ages` bounds the age by the limit and the time since the last
  check, hence by limit plus `Gap` plus the lost time. `Healthy` bounds it, on
  a link that works and while no more than `Slack` was lost between two pings,
  by the time since the peer's last ping and the delay, hence by the limit. The
  loop counter is handled by lemmas on division with remainder. The assumption
  of the module is arithmetic on the periods and the delay of a working link
  and true of the program's values (200, 1500, 500, 500 ticks of 10 ms) with
  delays up to a second; it says nothing of the lost time.
- Tunnel. `OpenedHasSlot`, `MemberInSlot` and `MessageNamesSlot` follow a
  LINKDOWN back to the session it was written for; slots that differ by less
  than 65536 are told apart by 16 bits (`WordIsOwnSlot`). `ServerInv` follows
  the server's end: each accepted session has an opened session of the client
  at its other end (`AcceptedHasPeer`), whose slot never changes; so a
  disconnect by convid, from whichever reader, takes out and closes one member
  and leaves every other open, in its slot and read (`MemberUsable`).
- Scheduler. `OneKey`: all packets of a flow have one key, in both directions.
  `GetAfterLeave`: a member that leaves moves no key of another. So a packet
  under way on a session that is still in the table is, until the next
  registration, where the next packet goes (`AtHome`), and an earlier packet is
  on another session than a later one only if its session had left the table
  before the later one was sent (`Passed`, with `Departures`). `InOrder` follows
  from `Passed` and from the order within a session.
- Aggregator. `Configured` says that the settings are those of the command
  line, or of the command line and the held argv, and `ParseTwice` that
  applying an argv again changes nothing; neither depends on how callbacks and
  loop overlap. `TunnelEndsMeet` is arithmetic on the last byte: whichever
  address of a /30 `IpHosts` is given, its walk begins at the network address
  and meets the broadcast address after two hosts, without a carry
  (`HostsOf30`, from the recursive function unfolded for these steps, which
  needs no induction); then every call of `parse_cli` leaves the first two
  hosts of one /30, in this order (`ParseEnds`).

The types of `Scheduler` and `Aggregator` are stated beside their properties
and no run lists them; TLC agreed with them, and with the inductive invariants,
on the instances of the runs before they were proved.

Only model-checked: liveness, which is out of the prover's reach
(`RouteGetsConnected`, `FailedMemberLeaves`, `DefaultRouteFollows`,
`LockReleased`, `SilentMemberRemoved`, `ReaderEnds`, `StaleMemberLeaves`,
`OrphanDropped`, `MembersMeet`, `StartsWhileUp`). Every invariant and action
property that a passing run checks is stated by a theorem, under the hypotheses
named in the table.

## Not modelled

- KCP, encryption and FEC, the consistent-hashing ring and the MQTT client:
  libraries, modelled by what the code relies on.
- The status page, logging and the helpers that run `ip`: no state.
- `t/main_withchannels.go`: an older variant that is not built.
- The unlocked creation of the client's `g_server_list` entry (`main.go:196`):
  two route goroutines that are first at the same time may each create a
  `serverType`; `ClientBond` starts after that. The same race on the server is
  modelled and refuted by `server_two_clients`.
- A server that restarts, or meets its first client, in the composition: see
  Tunnel above.
- Ranging over the maps without the lock (`main.go:831` and others) may end the
  process through the Go runtime's detection of concurrent map access.
- Traffic counters, and hellos' contents.

Left to do: the `serverType` creation race with more than one object on the
client; round robin in `Scheduler`.
