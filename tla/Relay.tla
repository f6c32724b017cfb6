------------------------------- MODULE Relay -------------------------------
(***************************************************************************)
(* The UDP relay server, its registry of nodes, and the clients that fall  *)
(* back to it when punching fails.                                         *)
(*                                                                         *)
(* The server's handlers and its cleanup run on one io thread, as do a     *)
(* client's on its puncher_ioc_, so each is one step.  Time passes in      *)
(* ticks: a timer that is due fires before the next one, and a datagram    *)
(* arrives, any number of times and in any order, or is lost within the    *)
(* tick it was sent in.  A client's sockets are numbered; each has an      *)
(* endpoint of its own.  The error replies of the server are left out: a   *)
(* client only logs them (on_relay_event), and so are payload and seq.  A  *)
(* client in relay mode that a late handshake message turns to P2P is not  *)
(* told apart: its registration, heartbeats and test timer go on.          *)
(***************************************************************************)
EXTENDS Integers, FiniteSets

CONSTANTS
  Nodes,        \* clients with --relay
  Networks,
  None,         \* not in the registry, no register taken
  Beat,         \* ticks between two heartbeats of a client
  Punch,        \* ticks a punching client waits before it has failed
  Timeout,      \* NODE_TIMEOUT_SEC, in ticks
  Interval,     \* CLEANUP_INTERVAL_SEC, in ticks
  MaxSockets,   \* bound on the sockets a client opens
  MaxRestarts   \* bound on the restarts of the relay server

ASSUME RelayAssumption ==
  /\ {Beat, Punch, Timeout, Interval} \subseteq Nat \ {0}
  /\ MaxSockets \in Nat
  /\ MaxRestarts \in Nat

VARIABLES
  nodes,        \* nodes_: entries of the registry
  cleanup,      \* ticks until the cleanup timer fires
  home,         \* opts_.network_id of each client
  mode,         \* mode_
  socket,       \* number of the puncher's socket
  timer,        \* ticks until a client's timeout or heartbeat timer fires
  retry,        \* ticks until the timeout a late ack has armed once more fires
  registered,   \* relay_registered_
  net,          \* datagrams sent in this tick
  restarts,     \* restarts of the relay server
  missed,       \* history: heartbeats and repeated registers since the server
                \* last heard one, None before a register of this stay in relay
                \* mode is taken
  moved         \* history: changed network while the relay knew them

serverVars == <<nodes, cleanup>>
clientVars == <<home, mode, socket, timer, retry, registered>>
historyVars == <<missed, moved>>
vars == <<serverVars, clientVars, net, restarts, historyVars>>

Entries == [endpoint : Nat, network_id : Networks, idle : Nat]
Modes == {"punching", "relay"}
Datagrams ==
  [kind : {"register"}, from : Nodes, at : Nat, network_id : Networks]
    \union [kind : {"heartbeat"}, from : Nodes, at : Nat]
    \union [kind : {"packet"}, from : Nodes, to : Nodes]
    \union [kind : {"ok", "forward"}, from : Nodes, to : Nodes, at : Nat]

ASSUME NoneAssumption == None \notin Entries /\ None \notin Nat

TypeOK ==
  /\ nodes \in [Nodes -> Entries \union {None}]
  /\ cleanup \in Nat
  /\ home \in [Nodes -> Networks]
  /\ mode \in [Nodes -> Modes]
  /\ socket \in [Nodes -> Nat]
  /\ timer \in [Nodes -> Nat]
  /\ retry \in [Nodes -> Nat \union {None}]
  /\ registered \in [Nodes -> BOOLEAN]
  /\ net \subseteq Datagrams
  /\ restarts \in Nat
  /\ missed \in [Nodes -> Nat \union {None}]
  /\ moved \subseteq Nodes

Init ==
  /\ nodes = [n \in Nodes |-> None]
  /\ cleanup = Interval
  /\ home \in [Nodes -> Networks]
  /\ mode = [n \in Nodes |-> "punching"]
  /\ socket = [n \in Nodes |-> 1]
  /\ timer = [n \in Nodes |-> Punch]
  /\ retry = [n \in Nodes |-> None]
  /\ registered = [n \in Nodes |-> FALSE]
  /\ net = {}
  /\ restarts = 0
  /\ missed = [n \in Nodes |-> None]
  /\ moved = {}

-----------------------------------------------------------------------------
(* The client.                                                             *)

RegisterMessage(n) ==
  [kind |-> "register", from |-> n, at |-> socket[n], network_id |-> home[n]]

\* Punching has failed: the client registers and starts its heartbeats.  An ack
\* that arrives only now, in the same tick, arms the timeout once more.
EnterRelayMode(n) ==
  /\ mode[n] = "punching"
  /\ timer[n] = 0
  /\ mode' = [mode EXCEPT ![n] = "relay"]
  /\ timer' = [timer EXCEPT ![n] = Beat]
  /\ \E late \in {None, Punch} : retry' = [retry EXCEPT ![n] = late]
  /\ net' = net \union {RegisterMessage(n)}
  /\ UNCHANGED <<serverVars, home, socket, registered, restarts, historyVars>>

\* One more unheard of a client whose register was taken.
OneMissed(n) == [missed EXCEPT ![n] = IF @ = None THEN None ELSE @ + 1]

\* That timeout fires as well: the client registers again and its heartbeat
\* timer starts anew.
ReenterRelayMode(n) ==
  /\ mode[n] = "relay"
  /\ retry[n] = 0
  /\ retry' = [retry EXCEPT ![n] = None]
  /\ timer' = [timer EXCEPT ![n] = Beat]
  /\ net' = net \union {RegisterMessage(n)}
  /\ missed' = OneMissed(n)
  /\ UNCHANGED <<serverVars, home, mode, socket, registered, restarts, moved>>

\* The heartbeat timer fires, whether or not the server knows the node, and is
\* armed again.
SendHeartbeat(n) ==
  /\ mode[n] = "relay"
  /\ timer[n] = 0
  /\ timer' = [timer EXCEPT ![n] = Beat]
  /\ net' = net \union {[kind |-> "heartbeat", from |-> n, at |-> socket[n]]}
  /\ missed' = OneMissed(n)
  /\ UNCHANGED <<serverVars, home, mode, socket, retry, registered, restarts, moved>>

\* A packet for the peer: a test message, or one the TUN device yields.  The
\* test timer goes on after the client has left relay mode.
SendRelayPacket(n, m) ==
  /\ registered[n]
  /\ n # m
  /\ net' = net \union {[kind |-> "packet", from |-> n, to |-> m]}
  /\ UNCHANGED <<serverVars, clientVars, restarts, historyVars>>

\* The client's timers and socket go with its puncher; a new one punches.
NewSocket(n) ==
  /\ socket[n] < MaxSockets
  /\ socket' = [socket EXCEPT ![n] = @ + 1]
  /\ mode' = [mode EXCEPT ![n] = "punching"]
  /\ timer' = [timer EXCEPT ![n] = Punch]
  /\ retry' = [retry EXCEPT ![n] = None]
  /\ missed' = [missed EXCEPT ![n] = None]
  /\ UNCHANGED <<serverVars, net, restarts>>

\* A punch_start reaches a client in relay mode.  Nothing is unregistered.
Repunch(n) ==
  /\ mode[n] = "relay"
  /\ NewSocket(n)
  /\ UNCHANGED <<home, registered, moved>>

\* The client is started anew, perhaps in another network.
Restart(n, network) ==
  /\ NewSocket(n)
  /\ home' = [home EXCEPT ![n] = network]
  /\ registered' = [registered EXCEPT ![n] = FALSE]
  /\ moved' = IF network # home[n] THEN moved \union {n} ELSE moved

\* relay_register_ok reaches the socket the client has.
RecvRegisterOk(d) ==
  /\ d.kind = "ok"
  /\ d.at = socket[d.to]
  /\ registered' = [registered EXCEPT ![d.to] = TRUE]
  /\ UNCHANGED <<serverVars, home, mode, socket, timer, retry, net, restarts, historyVars>>

\* A datagram whose payload client m hands to its TUN device or logs: it is
\* not compared with the node_id m has.
HandsUp(m, d) == d.kind = "forward" /\ d.to = m /\ d.at = socket[m]

-----------------------------------------------------------------------------
(* The relay server.                                                       *)

\* Mutant: a node that registers again keeps its endpoint.
RegisterNodeKeepsEndpoint(d) ==
  IF nodes[d.from] # None THEN [nodes[d.from] EXCEPT !.idle = 0]
  ELSE [endpoint |-> d.at, network_id |-> d.network_id, idle |-> 0]

\* registerNode: an entry that exists keeps its network_id.
RegisterNode(d) ==
  IF nodes[d.from] # None THEN [nodes[d.from] EXCEPT !.endpoint = d.at, !.idle = 0]
  ELSE [endpoint |-> d.at, network_id |-> d.network_id, idle |-> 0]

HandleRegister(d) ==
  /\ d.kind = "register"
  /\ nodes' = [nodes EXCEPT ![d.from] = RegisterNode(d)]
  /\ net' = net \union {[kind |-> "ok", from |-> d.from, to |-> d.from, at |-> d.at]}
  /\ missed' = [missed EXCEPT ![d.from] = IF d.at = socket[d.from] THEN 0 ELSE @]
  /\ UNCHANGED <<cleanup, clientVars, restarts, moved>>

\* Mutant: a heartbeat only proves that the node is registered.
HandleHeartbeatIdle(d) ==
  /\ d.kind = "heartbeat"
  /\ nodes[d.from] # None
  /\ missed' = [missed EXCEPT ![d.from] = IF @ = None THEN None ELSE 0]
  /\ UNCHANGED <<serverVars, clientVars, net, restarts, moved>>

\* updateHeartbeat refreshes last_seen, not the endpoint, whatever socket the
\* heartbeat comes from; of an unknown node it is answered with an error.
HandleHeartbeat(d) ==
  /\ d.kind = "heartbeat"
  /\ nodes[d.from] # None
  /\ nodes' = [nodes EXCEPT ![d.from].idle = 0]
  /\ missed' = [missed EXCEPT ![d.from] = IF @ = None THEN None ELSE 0]
  /\ UNCHANGED <<cleanup, clientVars, net, restarts, moved>>

\* Mutant: the networks of the two nodes are not compared.
MayRelayAcross(from, to) == nodes[from] # None /\ nodes[to] # None

\* The checks of handle_relay_packet.
MayRelay(from, to) ==
  /\ nodes[from] # None
  /\ nodes[to] # None
  /\ nodes[from].network_id = nodes[to].network_id

\* A packet goes to the endpoint the target registered from, whoever sent it.
HandleRelayPacket(d) ==
  /\ d.kind = "packet"
  /\ MayRelay(d.from, d.to)
  /\ net' = net \union {[kind |-> "forward", from |-> d.from, to |-> d.to,
                         at |-> nodes[d.to].endpoint]}
  /\ UNCHANGED <<serverVars, clientVars, restarts, historyVars>>

\* Mutant: an entry has to be older than the timeout by more than an interval.
ExpiredLate(n) == nodes[n] # None /\ nodes[n].idle > Timeout + Interval

Expired(n) == nodes[n] # None /\ nodes[n].idle >= Timeout

\* do_cleanup: cleanupExpired, and the timer is armed again.
DoCleanup ==
  /\ cleanup = 0
  /\ nodes' = [n \in Nodes |-> IF Expired(n) THEN None ELSE nodes[n]]
  /\ cleanup' = Interval
  /\ missed' = [n \in Nodes |-> IF Expired(n) THEN None ELSE missed[n]]
  /\ UNCHANGED <<clientVars, net, restarts, moved>>

\* The relay server stops and is started again with an empty registry.
ServerRestart ==
  /\ restarts < MaxRestarts
  /\ nodes' = [n \in Nodes |-> None]
  /\ cleanup' = Interval
  /\ missed' = [n \in Nodes |-> None]
  /\ restarts' = restarts + 1
  /\ UNCHANGED <<clientVars, net, moved>>

-----------------------------------------------------------------------------
(* Time.                                                                   *)

\* Mutant: the count goes on below zero.
CountdownOn(t) == t - 1

Countdown(t) == IF t = 0 THEN 0 ELSE t - 1

\* A tick passes when every timer that is due has fired, and what has not arrived
\* by then is lost.  A timeout that does not fire was cancelled by the success of the
\* attempt: of one still punching, which never needs the relay, or a late one.
Tick ==
  /\ cleanup > 0
  /\ \A n \in Nodes : mode[n] = "relay" => timer[n] > 0
  /\ cleanup' = cleanup - 1
  /\ timer' = [n \in Nodes |-> Countdown(timer[n])]
  /\ retry' = [n \in Nodes |-> IF retry[n] \in {None, 0} THEN None ELSE Countdown(retry[n])]
  /\ nodes' = [n \in Nodes |-> IF nodes[n] = None THEN None ELSE [nodes[n] EXCEPT !.idle = @ + 1]]
  /\ moved' = {n \in moved : nodes[n] # None}
  /\ net' = {}
  /\ UNCHANGED <<home, mode, socket, registered, restarts, missed>>

Receive(d) ==
  RecvRegisterOk(d) \/ HandleRegister(d) \/ HandleHeartbeat(d) \/ HandleRelayPacket(d)

Next ==
  \/ \E n \in Nodes :
       \/ EnterRelayMode(n)
       \/ ReenterRelayMode(n)
       \/ SendHeartbeat(n)
       \/ \E m \in Nodes : SendRelayPacket(n, m)
       \/ Repunch(n)
       \/ \E network \in Networks : Restart(n, network)
  \/ \E d \in net : Receive(d)
  \/ DoCleanup
  \/ ServerRestart
  \/ Tick

Spec == Init /\ [][Next]_vars

-----------------------------------------------------------------------------
(* Correctness.                                                            *)

\* A client whose register the server has taken is found at the socket it has,
\* as long as the server neither restarts nor expires it and the client stays
\* in relay mode: no late register or heartbeat of an older socket gets in
\* between.  (A client whose registers are lost is not covered: its
\* heartbeats keep an older entry alive, with a socket that is gone.)
RegisteredIsReachable ==
  \A n \in Nodes :
    missed[n] # None => nodes[n] # None /\ nodes[n].endpoint = socket[n] /\ mode[n] = "relay"

\* An entry nobody refreshes is gone within a timeout and a cleanup interval.
SilentForgotten == \A n \in Nodes : nodes[n] # None => nodes[n].idle < Timeout + Interval

\* The cleanup removes a client in relay mode only if so many of its heartbeats
\* (or repeated registers) in a row were missed that, with the one not yet due, they span the timeout:
\* with 10 s and 30 s, one lost heartbeat never disconnects a client.
KeptWhileHeard ==
  [][\A n \in Nodes :
       missed[n] # None /\ nodes'[n] = None /\ restarts' = restarts
         => (missed[n] + 1) * Beat >= Timeout]_vars

\* What reaches a client through the relay comes from its own network, unless
\* one of the two has moved and the relay still holds the entry it had before.
NetworksApart ==
  \A d \in net : \A m \in Nodes :
    HandsUp(m, d) => home[d.from] = home[m] \/ d.from \in moved \/ m \in moved
=============================================================================
