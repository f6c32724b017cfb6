# NATMesh in TLA+

NATMesh connects devices behind NATs into virtual networks. A control server
authenticates nodes over WebSocket, hands out virtual addresses, tells nodes of
each other and signals pairs of them to punch UDP holes; the clients exchange
punches, run a two-message Noise handshake over the open path, and fall back to
a relay server when that fails. This directory holds the formal models of that
system: TLA+ modules, the TLC configurations that check them on small
instances, and TLAPS proofs of theorems that hold for every instance.

Paths below are relative to the repository; `cpp:line` means a line of the file
just named. `PROJECT.json` lists the components, the runs with their properties,
for each property a mutation of the code that breaks it, the source lines of
each definition, the hazards, the findings and the theorems.

## 1. Inventory

### Components, state and operations

| component | source | state | operations |
|---|---|---|---|
| Node sessions | `src/ws/ws_session.cpp`, `wss_session.cpp` | `authenticated_`, `stale_`, `writing_`, write queue, heartbeat timer, `last_heartbeat_` | `start`, `do_read`, `do_write`, `send_json`, `check_heartbeat`, `close`, `handle_auth_message` |
| Session map | `src/nat/session_manager.cpp` | node_id to session | `addSession`, `removeSession`, `sendTo`, `broadcastIf` |
| Node registry | `src/nat/node_registry.cpp` | node_id to entry: network, address, endpoint, keys, connection state, `last_seen` | `registerNode`, `updateSessionState`, `updateHeartbeat`, `updateNodeAddress`, `removeNode`, `findTimedOutNodes`, `listNetworkNodes` |
| Heartbeat monitor | `src/nat/heartbeat_monitor.cpp` | a timer | `do_check`: expire silent nodes |
| Control server | `src/http/http_server.cpp` | none of its own | node-auth, post-node-auth, message and disconnect callbacks; handlers of heartbeat, update_addr, connect_peer, tun_packet; REST routes; `assign_virtual_ip`, `signal_punch_start` |
| Address allocator | `src/ipam/IpAllocator.cpp` | a pool per network: base, range, set of allocated addresses | `addPool`, `allocate`, `free`, `getSubnet` |
| Network and device services, repositories | `src/service`, `src/repository` | SQLite: devices, networks, network_devices, users | create, join, leave, delete, set address, online flag |
| Client | `src/client/TestClient.cpp` | `mode_`, `punch_done_`, `punch_success_`, `puncher_`, `relay_registered_`, TUN device | connect and reconnect, `on_punch_start`, `on_punch_result`, `enter_relay_mode`, heartbeat, TUN routing |
| Hole puncher | `src/client/UdpPuncher.cpp` | role, target, `punching_`, `success_`, peer endpoint, last handshake message, three timers | punch bursts, acks, handshake, retry, timeout, packets, relay traffic |
| Noise handshake | `src/crypto/NoiseProtocol.cpp` | ephemerals, chaining key, split keys, packet counters | two handshake messages, `split`, packet encryption |
| WebSocket client | `src/client/WsClient.cpp` | socket, reader thread | connect, send, receive, asynchronous reader |
| Core client | `src/core/CoreClient.cpp` | worker and monitor threads, `running_` | start, stop |
| Relay server | `src/relay` | node_id to endpoint, network and last heartbeat | relay_register, relay_packet, relay_heartbeat, expiry |
| GUI window | `cmd/gui/main.cpp` | start time, indicator, events posted to it | Start, Stop, status poll, state and error events |
| Legacy signalling, user service, STUN server, TUN devices, certificates, configuration | see `PROJECT.json` | | out of scope, each with the reason |

### Interaction

The server's sessions, monitor and callbacks run on the one thread of its
`io_context`; a REST request has a thread of its own and meets them in the
allocator (a mutex), the node registry (a mutex) and the database. A client has a
main thread (control connection, reconnection), a reader thread per connection
and an io thread (`puncher_ioc_`) for everything UDP. In the GUI program the
main thread of the client is the worker thread of `CoreClient`, a monitor thread
polls the client's mode, and the window's thread starts and stops all of it.
The relay server has one io thread. Client and server exchange
WebSocket messages; clients exchange datagrams that are lost, repeated and
reordered.

### What is hard, and what makes each part correct

* **Sessions, map, registry, monitor.** A node reconnects while its old
  connection lingers; late reads, failed writes, idle timers and the monitor
  then run for a node that has a new session. Correct when the two maps agree,
  the registered session is the newest genuine one, no late callback evicts a
  live session, peers are told the truth, and a node that is gone is forgotten.
* **Addresses.** An address is held in five places (pool, registry entry,
  devices row, a request in progress, the TUN device) that change in separate
  steps on several threads and across restarts. Correct when registered nodes
  never share an address, keep the one they have, and it belongs to their network.
* **Punching.** One puncher per client, many signals; timers that are queued
  when cancelled; an unordered network. Correct when both ends of a session hold
  the same keys, an initiator's success means its peer is ready, a success is not
  undone, an attempt ends, and two ends that keep punching get through.
* **Packets.** The TUN packets of both ends share a key each way with a counter
  as nonce. Correct when an end in P2P mode can read what its peer sends and no
  key is ever used twice with one counter, whatever is punched again.
* **Relay.** Registration, heartbeats and expiry over UDP without
  acknowledgement or retry; a client opens new sockets and may come back in
  another network. Correct when a node that is registered and heard stays, at the
  socket it has; a silent one is removed; and packets stay within a network.
* **The client process.** Five threads, each of which may find the others
  anywhere when a connection breaks, the run ends or the user clicks. Correct
  when messages leave in order and none is stranded, the heartbeat follows the
  live connection, `stop()` returns and leaves nothing behind, and the window
  shows the state the client is in.

The complete list, at the line where each hazard bites and with the properties
that would catch it, is under `hazards` in `PROJECT.json`.

## 2. Modules

| module | models | role |
|---|---|---|
| `Presence` | what the server promises about presence | abstract specification |
| `NatSessions` | sessions, session map, registry, monitor, the callbacks that join them | implements `Presence` |
| `AddressPool` | arithmetic of a pool on wrapping integers | operators, used by the next two |
| `IpAllocator` | one pool: addPool, allocate, free | state machine |
| `AddressService` | pools, registry, database, authentication, REST removals, restarts, TUN | composes pools with their users |
| `Puncher` | punch_start signals, clients' puncher, timers, Noise handshake, datagrams, encrypted packets | state machine |
| `Relay` | relay server, its registry and expiry, clients in relay mode | state machine |
| `WsClient` | a control connection of the client with its reader thread | operators on a connection, used by the next |
| `CoreClient` | window, worker, monitor, io and reader threads of one client process | state machine, composes `WsClient` with its users |
| `MC...` | instances for TLC | values of constants |
| `...Proofs` | theorems | TLAPS |

### NatSessions

One action per completion handler; a handler is atomic because all run on one
thread. `link` and `inbox` are the TCP connection of a session (`up`, `silent`:
unreachable without the server knowing, `down`); the sessions' flags have their
source names. `Authenticate` is `handle_auth_message` with the node-auth and
post-node-auth callbacks it calls (`Registered`: registry, database, map, stale
mark on the replaced session, broadcasts). `tls` is the server's configuration,
fixed from the start to a member of `Transports`. `Disconnected` is the
disconnect handler; `Evict` decides which session it unregisters, with the early
return of the plain WebSocket version (`http_server.cpp:1798`) and without it for
TLS (`http_server.cpp:1014`). It runs from `ReadError`, `WriteError` and `HeartbeatExpired`, which check `stale_`
as the code does or does not. `BeginClose` and `EndClose` are the blocking close
handshake, during which (`ioc`) no other handler runs. `MonitorCheck` is a
whole `do_check`: every timed out node is removed and broadcast in turn.
`writer` is `writing_` with what becomes of the write: in the TLS and the plain
session a failed write never resets it. Time is an age per session and node in
ticks, capped at `Timeout`. `Timely` selects the network the liveness run
assumes: heartbeats arrive before a timeout and nothing arrives after a close.

### AddressPool, IpAllocator

Addresses are integers modulo `Space` (2^32 in the code), a CIDR an address and
a block size. `NewPool`, `IsNext`, `Lend`, `Return` are the code's
`base + 2 .. broadcast - 1` scan. `Hosts` is the independent definition the
properties compare with: the addresses that share the prefix, without the first
two and the last. Prefix 0 and the prefix 32 block at address 0 are left out
(undefined shift; a scan that never ends).

### AddressService

`auth` is the program counter of the authentication on the io thread, with the
steps between which a REST thread can run: `Assign` (`assign_virtual_ip`),
`Persist`, `Join`, `JoinLease` (`join_network`, which may allocate a second
address), `Register`. `leaving` holds the REST removals, one program counter per
thread: `LeaveRead` (the device row is read), `LeaveRemove`, `LeaveFree`
(the address that was read is freed), `LeaveClear`. `Expire`, `DeleteDevice`,
`ServerRestart` (the database is all that is kept; pools are created again with
nothing reserved) and `ClientRestart` complete it. `TunAfter` is what the client
does with the address it is told: a TUN device that exists keeps its own. `freed`
is a history variable, the addresses a removal has handed back since the server
started, and `MaxFreed` bounds it. The REST join is absent: its
route passes `"/<id>"` to `stoll`, which throws.

### Puncher

Clients are numbered in the order of their node_id. `UpdateAddr` and
`ConnectPeer` are the server's handlers that signal pairs; a signal (`Start`)
is the peer and the role its direction implies. `PunchStart` is
`on_punch_start` with `configureNoise` and `startPunching`, and with its failures
(a key that is none, a port that cannot be bound), which leave no puncher.
`ResetOutcome` and `DropPuncher` are the two halves of the teardown in
`connect_control_channel`, on the main thread: between them (`tearing`) handlers
of the io thread run, and an outcome that lands there mixes with the reset
(`Outcome`) and may stay when the puncher is gone; `torn` remembers it until
something clears it. `DropPuncher` also closes the connection: of the
punch_starts received, those already posted to the io thread still run. `SendPunch`, `RecvPunch`, `RecvAck`,
`RecvMsg1`, `RecvMsg2`, `NoiseRetry` and `Timeout` are the handlers of
`UdpPuncher`, with `Complete` and `Fallback` for `completeSecurePunch` and
`on_punch_result`. A timer is `armed` or `due`: cancelling reaches only armed
ones, as with `steady_timer`, so a `Timeout` handler can run after the success
that cancelled it. A datagram stays in `net` when it is received (duplication,
reordering, delay) and may be lost (`Lose`). Keys are symbolic: the two
ephemerals and two static keys mixed, by role, so two ends can decrypt each
other's packets exactly when their keys are equal; ephemerals are named by node
and puncher, since a puncher generates at most one.

`SendPacket` and `RecvPacket` are the TUN packets of an end whose handshake is
complete. In P2P mode every packet the TUN device yields goes to the one peer,
whatever its destination (`TestClient.cpp:1031`). `seq` is the number a client
gives its next packet, from which the nonce is made; `packets` holds the packets ever sent with the key and number that encrypted
them; one that is lost is never received, one that is repeated is handed up
again, since nothing remembers the counters seen. `Side` is which of the two
split keys an end encrypts with, `Opens` whether a packet's tag verifies.

Abstracted: an endpoint is a node (clients bind a fixed UDP port), NAT
behaviour beyond loss, the contents of punches, failures of sockets once
bound and of OpenSSL, `connect_peer` to a node that has no address yet (`make_address`
throws on the io thread).

### Relay

`nodes` is `RelayRegistry::nodes_`, an age `idle` standing for `last_seen`.
`HandleRegister`, `HandleHeartbeat`, `HandleRelayPacket` and `DoCleanup` are the
server's handlers, `MayRelay` the three checks of a packet, `RegisterNode` the
registry's update, which keeps the network of an entry that exists. At the
client `EnterRelayMode` is `enter_relay_mode` after a punching timeout, and
`ReenterRelayMode` the same once more, when an ack that came after the failure
has armed the timeout again (`retry`; `UdpPuncher.cpp:243`, `461`): it registers
again and starts the heartbeat timer anew. A late handshake message that makes
such a client P2P is not told apart, since its registration, heartbeats and test
timer go on.
`SendHeartbeat` the heartbeat timer, `SendRelayPacket` the test messages and the
TUN packets of relay mode, `RecvRegisterOk` and `HandsUp` what `on_relay_event`
does with an answer and a packet. A client's sockets are numbered: `Repunch` (a
punch_start in relay mode) and `Restart` (perhaps into another network) open a
new one, and a datagram to an old one is lost. Time passes in ticks (`Tick`):
timers that are due fire first, and a datagram that has not arrived when the
tick ends is lost; within a tick datagrams are reordered, repeated and lost at
will. `missed` and `moved` are history variables of the properties: the
heartbeats and repeated registers since the server heard one, and the clients whose entry is of a
network they have left.

### WsClient, CoreClient

`WsClient` has no variables: a connection is a record, and an operator per
method (`Send`, `FlushQueue`, `Close`) or handler of the reader thread
(`Flushed`, `Written`, `Arrived`, `Broken`, `Ended`) gives the record that
follows. `wire`, `writes` and `queue` are what has been written, what is being
written and what waits.

In `CoreClient` a step is what one thread does between two points where it waits
or where another can change what it has read; `gui`, `worker`, `handler` (the io
thread) and `monitor` are program counters. Where a thread tests `puncher_` or
`ws_` and then uses it, the test and the use are two steps, and the use of a
pointer that is gone sets `crashed`, as does `std::terminate`; two threads that
change a pointer at the same instant are left out.

* The window: `StartClicked` is `onStartClicked` with `CoreClient::start`;
  `StopClicked` and `StatusPoll` begin `CoreClient::stop`, whose stages are
  `StopClient`, `JoinReader`, `TestPuncher`, `StopPuncher` and `JoinIo`
  (`TestClient::stop`), `JoinWorker`, `JoinMonitor` and `DestroyClient`
  (`client_.reset`); `HandleEvent` is a queued event.
* The worker: `CreateClient`, the STUN query (`Connect`), then
  `connect_control_channel`: `BeginConnect` (which resets the outcome and tests
  `puncher_`), `DropPuncher`, `DropConnection`, `Authenticated` or
  `ConnectFails`, `Attach`, `Announce` or `AnnounceFails` and `Abandon`
  (`update_addr` cannot be sent), `StartHeartbeat`; then `Dial` and the wait of
  `run()`, which `Reconnect` leaves for another connection and `RunReturns` for
  good.
* The io thread looks at `stopping_` as a handler begins (`IoBegins`) and then
  goes on whatever `stop()` does: `PunchStart`, `PunchReset`, `CreatePuncher` or
  `CreateFails`, `BeginPunching` are `on_punch_start`; `PunchSucceeds`, or
  `PunchFails` and `EnterRelayMode`, then `ReportMode`, are `on_punch_result`;
  `SendRelayTest` the test timer of relay mode, which goes on after a reconnection
  has dropped the puncher it uses; `Heartbeat` and `SendHeartbeat` the heartbeat.

`worker` is `"none"` when the `std::thread` is not joinable. `leaked` is a
connection that is alive and belongs to no object. `Exposed` names the threads
that `stop()` must not meet, because they have looked before it and still act on
what they found, and the history variable `overlapped` records that it met one.
Punching is one step here, with any outcome (see `Puncher`).

## 3. Runs

| run | instance | what it shows |
|---|---|---|
| `sessions` | 2 nodes, 2 connections, plain or TLS, late messages | map, registry, database and peer lists agree; no late callback of plain WebSocket evicts a live session; implements `Presence` |
| `ws_live` | 1 node, 2 connections, plain, fair, timely | a gone node is forgotten, a connected client is registered |
| `wss_reach` | same, TLS | **violated**: a late disconnect of the replaced session evicts the new one for good |
| `pool` | 16 addresses, every subnet of 4 or more | first fit among the hosts, none twice, exhaustion exact |
| `address_shared` | 2 nodes, one with a TUN device, 1 REST thread, 16 addresses (subnet of 8) | registered nodes share an address only if a removal freed it; the database agrees; addresses stay within the network; a registered node keeps its own |
| `address_leave` | 2 nodes, 1 REST thread | **violated**: a removal frees an address that is in use |
| `address_tun` | 2 nodes, 1 TUN client | **violated**: the TUN device keeps an address the server replaced |
| `punch_once` | 2 clients, 1 signal, 1 packet, lossy, fair | the initiator succeeds second, each reads the other's packets, both get through or one times out |
| `punch_again` | 2 clients, 2 signals, 1 reconnection, 2 packets | client state tracks the puncher, success and keys are kept, no nonce is used twice, attempts end |
| `punch_mesh` | 3 clients, 3 signals | **violated**: two clients report P2P with each other and hold different keys |
| `relay` | 2 clients, 2 networks, 2 sockets each, late acks, 1 restart of the server | a node that is registered and heard stays, a silent one is removed, networks are kept apart |
| `client` | any number of runs, each with 2 events (broken connections, signals, heartbeats) | messages leave in order, heartbeat armed, `stop()` returns and leaves nothing unless it met an exposed thread, the window learns of every end and mode |

**Bounds.** Two connections are enough for a session, its successor and every
late callback between them; `sessions` has two nodes because what is compared is one
node with what the others are told. `Timeout` is 1 tick where only the order of
expiry and other events matters and 2 where a timely client must stay below it.
`MaxInbox` bounds messages not yet read: one suffices because each is handled on
its own. In `address_shared` the subnet has five hosts (`base + 2` to
`broadcast - 1`), more than nodes, and addresses that are never freed use them up;
one removal at every stage of an authentication is what the steps of
`AddressService` exist for, and `MaxFreed = 1` lets it hand back one address
between two restarts.
`MaxSignals` and `MaxReconnects` bound what the server sends and the network
breaks: the second signal is what meets a finished, a failed and a running
attempt, and `punch_again` has the second client dial the first, so both
assignments of roles occur. `MaxPackets` is per client: one is enough to be
read or not, two to use a counter again. In `relay` a tick is 5 s: heartbeats every
10 s (`Beat = 2`), a punching timeout of 5 s, expiry after 30 s (`Timeout = 6`)
and cleanup every 10 s (`Interval = 2`), so a cleanup can fall anywhere between
two heartbeats and between the last heartbeat and its expiry; two sockets are an
old one and a new one, in two networks. In `client` a process is started
any number of times, so every start meets what the run before it left;
`MaxEvents = 2` bounds, per run, the connections that break, the punch_starts that
arrive and the heartbeats together: two of them are a broken connection whose
reconnection meets a signal, a heartbeat or a second break.
`CHECK_DEADLOCK FALSE` appears in the punching configurations, where clients that
are done and have no signal stop, and in `CoreClient_process.cfg`, where a process
that has crashed does.

**Symmetry** is used for nodes, networks and connections in safety runs only,
never where nodes are ordered (punching) or liveness is checked.

**Fairness.** `ServerFairness`: the io thread runs every ready handler, timers
fire, TCP gives a dead connection up, a blocking close ends (an assumption about
the peer, not a property of the server: see the hazard at `ws_session.cpp:90`);
weak fairness, since a handler stays ready
until it runs. `ClientFairness`: a connected client sends its heartbeats
(`TestClient::schedule_heartbeat`). `LinkFairness`: a client's io thread runs
queued signals, bursts, and retries; and strong fairness of arrival per kind of
datagram, that is, a link on which a datagram is sent again and again delivers
one in the end. It is not assumed that any particular datagram arrives. In
`punch_once` the timeout may fire at any time and need not: `Converges` says
that nothing but the timeout ends an attempt without success. `TimedSpec` assumes
nothing but that the timeout timer expires and its handler runs: that alone makes
`AttemptEnds` true, whatever the network and the other handlers do. `Spec` of
`CoreClient`: the window handles events and polls (a `QTimer`), and the
monitor, the worker and the reader thread take the steps they can, and a handler
the io thread has begun comes to its end (`IoHandler`); that includes
that a server that was reached answers or drops the connection, since
`receive` has no timeout. The user need not click, and nothing need happen to the io thread.

## 4. Proofs

TLAPS checks every theorem for all values of the constants that satisfy the
ASSUMEs of the modules; the runs above evaluate those ASSUMEs and check the same
formulas on instances.

* **`NatSessionsProofs`**: `TypeCorrect`, `MapsAgree`, `RegisteredSessionGenuine`,
  `PlaceKept`, `GraceOnDisconnect`, `RegisteredOnlineInDb`, `PeerListsExact`,
  `PresenceImplemented`. The agreement of the
  maps is not inductive alone: `IInv` joins it with the typing,
  `CurrentIsGenuine` and `Accepted`: nothing happens on a connection that was
  never opened, an opened one has an owner, and only authenticated sessions are
  marked stale or written to. Without it a handler could run `Disconnected` for
  no node. `PlaceKept` and `GraceOnDisconnect` hold of both transports: what they
  say is of plain WebSocket and of TLS, by `tls` in the property. Who is online and
  who is registered changes in three ways only (`PlaceChanges`): an authentication,
  a `Disconnected` of the node, the monitor. `RegisteredOnlineInDb` and
  `PeerListsExact` go through these; the second assumes `OneNetwork`, since the
  broadcasts ignore the network and the lists are not exact with two (a hazard in
  `PROJECT.json`; the `sessions` run has one). `PresenceImplemented` maps `Authenticate` to
  `Arrive`, the handlers that call `Disconnected` to `Leave` or a stutter, and
  `MonitorCheck` to `Forget`.
* **`AddressPoolProofs`**: lemmas on `%` and `\div` and the ends of a block
  that lead to: the range of a new pool is exactly `Hosts` and what it reserves is
  not a host, for blocks of four or more addresses of any space.
* **`IpAllocatorProofs`**: `OnlyHostsLent`, `NeverLentTwice` and `LowestHostFirst`,
  from the invariant that a pool's range is the hosts of its subnet and the hosts
  marked allocated are exactly those lent; freeing the gateway, which the code
  allows, does not break it. They assume subnets of at least four addresses: with a prefix of 31
  or 32 the range leaves the subnet.
* **`AddressServiceProofs`**: `TypeCorrect`; `RegisteredNodeKeepsAddress` with no
  further assumption; `AddressesDistinct`, that two registered nodes of a network
  share an address only if a removal freed it, assuming every node stays in one
  network (`Settled`; without it a node keeps the address of another network);
  `AddressesPlaced`, that the address of a registered node is a host of its
  network, assuming besides that subnets have four addresses or more (`Roomy`).
  The invariant says that the address of every registered node, and of the
  authentication in progress, is allocated in its pool and, unless freed, held by
  nobody else. `DatabaseShowsRegistry` needs a second one, `Recorded`, which follows
  an authentication between its writes: until a removal frees an address the
  devices table shows what the node is, or is about to be, registered with, and
  `join_network` finds an address only where authentication found none.
* **`PuncherProofs`**: `TypeCorrect`, `ModeCorrect`, `SuccessKept`, `KeysKept` and
  `NoncesUsedOnce` for any number of clients, signals, reconnections and packets.
  `ModeCorrect` holds with the exception its property states, an outcome that
  lands while the main thread tears the P2P state down.
  The invariant of the first four is the typing, `ModeTracksPuncher`, and
  `BornBefore` (a puncher's number is one that has been given out), which tells a
  new puncher from an old one in `KeysKept`. `NoncesUsedOnce` needs `PacketInv`:
  the key an end holds belongs to that end, as one of its own ephemerals, named by
  node and puncher, is mixed into it (`KeyOwned`); every packet carries a key of its
  sender and a number the sender's client has counted (`Counted`); and a client
  uses a number once, whatever the session (`NumberOnce`, since `seq` outlives the
  puncher). So two packets with the same key, direction and number are by the
  same client, and are one packet.
* **`PuncherPairProofs`**: `FirstPairAgrees`, `FirstPairReads` and
  `FirstResponderReady`: what the two ends of a session owe each other, for any
  number of clients and packets and any loss, copy or delay, as long as the server
  has sent one signal (`signals <= 1`) and, for the last one, no control connection
  was lost (which takes the responder's puncher away after the initiator
  succeeded). The bound is the code's: a handshake message is not tied to an
  attempt, so with a further signal a message of one attempt completes another, as
  `punch_mesh` shows. The invariant `OnePair` says that nobody was told, or two
  clients were, once and in opposite roles: each creates one puncher from that
  (`ToldOnce`, `PairPunchers`), only the initiator's retries (a `retry` timer of a
  responder would send message 1 in the wrong role), every message in flight
  carries the ephemeral of its side (`PairMessages`), so only one key can be
  split, and there is no message 2 before the responder has it (`ResponderFirst`).
* **`RelayProofs`**: every property of the `relay` run, for any number of clients,
  networks and sockets and any of the four intervals: `TypeCorrect`;
  `SilentNodesForgotten`, since the age of an entry and the time to the next cleanup
  stay together below a timeout and an interval (`Aged`); `RegisteredReachable`,
  since a register in flight is of the socket its client has in relay mode, or of an
  older one and then no tick has passed since (`RegistersTimely`), so it cannot meet
  a client that counts on its entry; `HeardNodesKept`, since an entry's age and the
  client's timer never exceed a beat more than the beats missed (`HeardLately`);
  `NetworksKeptApart`, since entries, registers and forwarded packets are of the
  network their client is in or of one that has moved (`InPlace`). They rest on
  `Tick`: a datagram does not outlive the tick it was sent in.

* **`CoreClientProofs`**: every safety property of the `client` run, for any
  messages and any number of runs, broken connections, signals and heartbeats:
  `TypeCorrect` (types only), `MessagesInOrder`, `HeartbeatStaysArmed`,
  `StartFindsNothing`, `StoppingIsClean`, and `WorkerFindsItsOwn`. The operators of
  `WsClient` preserve `Sound`: at most one write is in progress, and what was
  written, is being written and is queued, in this order, is what `send()`
  accepted. `Lifecycle` says what exists at each place of the window's and the
  worker's threads; `WorkerFindsItsOwn` is the part of it that concerns pointers.
  `Halting` says how far `stop()` has got: unless it met an `Exposed` thread
  (`overlapped`), the worker stays out of `connect_control_channel` and the io
  thread out of `on_punch_start` once `stopping_` is set, so the connection whose
  reader was joined is not replaced, the puncher is the one that was tested, a
  report still has its connection, and at the end neither a reader nor the io
  thread is left for a destructor to find. That no handler ever meets a pointer
  that is gone is not claimed, being false of the code: `crashed` is reachable, by
  the exposed threads and by the relay test timer.

Every safety invariant and every action property of the passing runs is proved,
under the conditions given above. Only model-checked: the liveness properties
(`NodeForgotten`, `ConnectedIsReachable`, `Converges`,
`AttemptEnds`, `QueueDrains`, `StopReturns`, `EndNoticed`, `ModeShown`), since
liveness and ENABLED are out of the prover's reach; and of course what the
violated runs refute.

## 5. Findings

The four violated properties quote the repository in `PROJECT.json`. Met while
modelling, and not runs of their own:

* A peer list is broadcast to the nodes of every network
  (`http_server.cpp:1759`; the comment at 1751 says "in the network").
* A session whose own stream ends is covered by the guard at
  `http_server.cpp:1798`, so its node stays online until the monitor expires it.
* Addresses of expired nodes are never freed; a node that returns gets another,
  and a pool runs out after as many returns as it has hosts.
* A node that authenticates for another network keeps the address of the first
  (`http_server.cpp:596`).
* A punch_start for any peer tears down a P2P session in use
  (`TestClient.cpp:647`), while the peer keeps its end.
* A client whose relay registration is lost or expired does not register again
  (`TestClient.cpp:865`), unless a late ack makes it enter relay mode twice.
* `README.md:370` says 30 s heartbeats and 90 s timeouts; the configuration has
  15 s and 45 s. `README.md:456` gives the ack as the condition of success; the
  code waits for the handshake.
* `README.md:3` says that the server takes no part in forwarding VPN data;
  `handle_tun_packet` forwards packets between sessions
  (`http_server.cpp:744`).
* A client in P2P or relay mode sends every TUN packet to its one peer
  (`TestClient.cpp:1031`), and a `p2p_packet` that is repeated is handed to the TUN
  device again: the counter is a nonce, not a window.
* A `stop()` that meets the worker inside `connect_control_channel` may leave an
  io thread that nobody joins (its destructor terminates the process) or a live
  connection that nobody closes, or call `joinReader` through an empty `ws_`; one
  that meets `on_punch_start` past its look at `stopping_` (`TestClient.cpp:642`)
  tests a puncher (91) that the io thread resets or replaces (656, 714, 721)
  before it is used; and a report that has tested `ws_` (121) may use it (139)
  when the worker has reset it (167). These are `Exposed`, the exception in
  `StopsClean`, `StopReturns` and `EndNoticed`.
* The test timer of relay mode goes on after a reconnection has reset `puncher_`
  (`TestClient.cpp:159`), and the message it posts uses it (`TestClient.cpp:888`).
* An outcome that lands between the reset of the flags (`TestClient.cpp:149-151`)
  and that of `puncher_` stays: the client reports P2P without a puncher until the
  next punch_start, and does not ask for its peer again (`TestClient.cpp:240`).
* A `stop()` before the worker has created the client reaches nobody, and the
  window is frozen in `join` until `run()` returns by itself; `receive` has no
  timeout, so a server that accepts and never answers holds it for good.
* Events the monitor posted before `stop()` are shown after the window said
  Stopped.
* The monitor's call of `on_error` for a failed client is never reached
  (`CoreClient.cpp:181`: `last_mode` was set above).
* `run()` returns soon after a dialled peer is connected, and the window's poll
  then stops the client it was started for.
* A node whose registration at the relay was lost keeps the entry of its former
  socket alive with its heartbeats: packets to it go to a socket that is gone. One
  that registers again for another network keeps the former in the registry
  (`RelayRegistry.cpp:10`) until the entry expires.

## 6. Not modelled

Contents of messages and wording of replies; REST routing, users and passwords;
JWT sessions (they never set a node_id); the server's forwarding of tun packets,
which only reads the registry; the TUN devices' system calls and read loop; STUN
beyond a step that succeeds or throws; certificates and configuration files; the
layout and the log of the window; failures of SQLite, sockets and OpenSSL.
`PROJECT.json` gives the reason per component. Of the main and the io thread of a
client, the steps between test and use of a pointer interleave; two accesses at the
same instant are left out.

## 7. Plan

Done: the server's sessions and addresses, punching with the handshake and the
packets, and the relay server with its clients, with their theorems; the threads of a
client process with their control connection, and the proofs of every safety
property of these. Left, in this order:

1. The conditions under which the refuted properties do hold: `TunHasAssignedAddress`
   up to the first address the server replaces, `KeysAgree` beyond the first signal
   for two attempts whose messages do not overlap.
2. What the fair actions owe to the invariants: the steps of the liveness
   arguments that are safety (a stage of `stop()` is left only for the next, an
   attempt that ended stays ended), as theorems beside the checked liveness.
3. An abstract specification of the control connection (a queue that may break)
   for `WsClient`, and one of the relay's registry.
4. The server's routing of tun packets with the TLS session's write queue, and the
   read loop of the TUN devices.
