----------------------------- MODULE NatSessions -----------------------------
(***************************************************************************)
(* Session lifecycle of the NAT control server: WebSocket sessions         *)
(* (WsSession / WssSession), the SessionManager and NodeRegistry maps they *)
(* are registered in, the HeartbeatMonitor that expires nodes, and the     *)
(* disconnect and authentication callbacks of HttpServer that tie them     *)
(* together.                                                               *)
(*                                                                         *)
(* All of this runs on the one thread that calls io_context::run(), so an  *)
(* asynchronous completion handler is one atomic step; the interleaving    *)
(* that matters is the order in which handlers of different sessions run.  *)
(* The thread can also be stuck: WsSession::close() performs a blocking    *)
(* close handshake (variable ioc).                                         *)
(*                                                                         *)
(* Abstracted: message contents other than the type, punch signalling and  *)
(* tunnelled packets (they only queue output on other sessions), addresses *)
(* and transport mode.  Time is an age per node and per session, counted   *)
(* in ticks and capped at Timeout.                                         *)
(***************************************************************************)
EXTENDS Naturals, Sequences

CONSTANTS
  Nodes,      \* node_id values
  Networks,   \* network_id values
  Sessions,   \* accepted connections, each used once
  NoNode,     \* owner of a connection not yet accepted
  NoSession,  \* absence of a session
  Transports, \* values of config tls.enabled to consider
  Timely,     \* TRUE: heartbeats arrive in time, nothing arrives after a close
  Timeout,    \* websocket.heartbeat_timeout_sec, in ticks
  MaxInbox    \* bound on messages in flight on one connection

ASSUME SessionsAssumption == NoSession \notin Sessions /\ NoNode \notin Nodes
ASSUME ParameterAssumption ==
  /\ Networks # {}
  /\ Transports \in SUBSET BOOLEAN
  /\ Timely \in BOOLEAN
  /\ Timeout \in Nat \ {0}
  /\ MaxInbox \in Nat \ {0}

VARIABLES
  tls,        \* config tls.enabled: WssSession and its callbacks serve clients
  link,       \* the TCP connection, seen from the server
  owner,      \* the node_id its client will authenticate as
  home,       \* the network_id its client will authenticate with
  inbox,      \* messages sent by the client and not yet read
  authed,     \* WsSession::authenticated_
  stale,      \* WsSession::stale_
  reading,    \* an async_read is pending
  writer,     \* WsSession::writing_ and the fate of its async_write
  timer,      \* the heartbeat timer is armed
  closing,    \* a close() is posted to the strand
  idle,       \* ticks since last_heartbeat_, capped
  nodeState,  \* NodeRegistry: absent, or connection_state of the entry
  nodeNet,    \* NodeRegistry: network_id of the entry
  silence,    \* NodeRegistry: ticks since last_seen, capped
  current,    \* SessionManager::sessions_
  peers,      \* last peer_list sent to the registered session of a node
  dbOnline,   \* devices.online in the database
  ioc         \* the session whose blocking close holds the io thread

connVars == <<tls, link, owner, home, inbox>>
sessVars == <<authed, stale, reading, timer, closing, idle>>
nodeVars == <<nodeState, nodeNet, silence, current, dbOnline>>
vars == <<connVars, sessVars, writer, nodeVars, peers, ioc>>

AnyNetwork == CHOOSE w \in Networks : TRUE

Links == {"idle", "up", "silent", "down"}
Requests == {"heartbeat", "update_addr", "other"}
Messages == Requests \union {"auth"}

TypeOK ==
  /\ tls \in BOOLEAN
  /\ link \in [Sessions -> Links]
  /\ owner \in [Sessions -> Nodes \union {NoNode}]
  /\ home \in [Sessions -> Networks]
  /\ inbox \in [Sessions -> Seq(Messages)]
  /\ authed \in [Sessions -> BOOLEAN]
  /\ stale \in [Sessions -> BOOLEAN]
  /\ reading \in [Sessions -> BOOLEAN]
  /\ writer \in [Sessions -> {"free", "busy", "stuck"}]
  /\ timer \in [Sessions -> BOOLEAN]
  /\ closing \in [Sessions -> BOOLEAN]
  /\ idle \in [Sessions -> 0..Timeout]
  /\ nodeState \in [Nodes -> {"absent", "online", "grace"}]
  /\ nodeNet \in [Nodes -> Networks]
  /\ silence \in [Nodes -> 0..Timeout]
  /\ current \in [Nodes -> Sessions \union {NoSession}]
  /\ peers \in [Nodes -> SUBSET Nodes]
  /\ dbOnline \in [Nodes -> BOOLEAN]
  /\ ioc \in Sessions \union {NoSession}

Init ==
  /\ tls \in Transports
  /\ link = [s \in Sessions |-> "idle"]
  /\ owner = [s \in Sessions |-> NoNode]
  /\ home = [s \in Sessions |-> AnyNetwork]
  /\ inbox = [s \in Sessions |-> <<>>]
  /\ authed = [s \in Sessions |-> FALSE]
  /\ stale = [s \in Sessions |-> FALSE]
  /\ reading = [s \in Sessions |-> FALSE]
  /\ writer = [s \in Sessions |-> "free"]
  /\ timer = [s \in Sessions |-> FALSE]
  /\ closing = [s \in Sessions |-> FALSE]
  /\ idle = [s \in Sessions |-> 0]
  /\ nodeState = [n \in Nodes |-> "absent"]
  /\ nodeNet = [n \in Nodes |-> AnyNetwork]
  /\ silence = [n \in Nodes |-> 0]
  /\ current = [n \in Nodes |-> NoSession]
  /\ peers = [n \in Nodes |-> {}]
  /\ dbOnline = [n \in Nodes |-> FALSE]
  /\ ioc = NoSession

-----------------------------------------------------------------------------
(* Lookups and broadcasts *)

\* NodeRegistry::listNetworkNodes over a registry with the given contents.
NetworkNodes(state, net, w) == {m \in Nodes : state[m] = "online" /\ net[m] = w}

\* The nodes SessionManager::broadcastIf reaches with the filter every caller
\* passes: not the node itself, and NodeRegistry::isOnline.
Audience(n, cur, state) ==
  {m \in Nodes \ {n} : cur[m] # NoSession /\ state[m] = "online"}

\* WsSession::send_json on each session of a set: an idle writer starts.
Queue(wr, targets) ==
  [s \in Sessions |-> IF s \in targets /\ wr[s] = "free" THEN "busy" ELSE wr[s]]

SessionsOf(ns, cur) == {cur[m] : m \in ns}

\* Tell the audience of n that list is the set of online peers.
Broadcast(n, cur, state, wr, list) ==
  LET heard == Audience(n, cur, state) IN
  /\ peers' = [m \in Nodes |-> IF m \in heard THEN list
                               ELSE IF cur[m] = NoSession THEN {} ELSE peers[m]]
  /\ writer' = Queue(wr, SessionsOf(heard, cur))

-----------------------------------------------------------------------------
(* Clients and the network *)

\* A client opens a connection, having closed its previous one, and sends auth
\* as its first message.  The server accepts it, starts reading and arms the
\* heartbeat timer.
Open(s, n, w) ==
  /\ ioc = NoSession
  /\ link[s] = "idle"
  /\ \A r \in Sessions : owner[r] = n => link[r] # "up"
  /\ link' = [link EXCEPT ![s] = "up"]
  /\ owner' = [owner EXCEPT ![s] = n]
  /\ home' = [home EXCEPT ![s] = w]
  /\ inbox' = [inbox EXCEPT ![s] = <<"auth">>]
  /\ reading' = [reading EXCEPT ![s] = TRUE]
  /\ timer' = [timer EXCEPT ![s] = TRUE]
  /\ UNCHANGED <<tls, authed, stale, closing, idle, writer, nodeVars, peers,
                 ioc>>

\* An authenticated client sends one of its requests.
Send(s, m) ==
  /\ link[s] = "up"
  /\ authed[s]
  /\ Len(inbox[s]) < MaxInbox
  /\ inbox' = [inbox EXCEPT ![s] = Append(@, m)]
  /\ UNCHANGED <<tls, link, owner, home, sessVars, writer, nodeVars, peers, ioc>>

\* What is still in flight when a connection ends: it is read before the end of
\* stream is, even a retransmission that arrives after a later connection.
InFlight(s) == IF Timely THEN {<<>>} ELSE {inbox[s], <<>>}

\* The client closes, exits or resets the connection.
Hangup(s) ==
  /\ link[s] = "up"
  /\ link' = [link EXCEPT ![s] = "down"]
  /\ \E rest \in InFlight(s) : inbox' = [inbox EXCEPT ![s] = rest]
  /\ UNCHANGED <<tls, owner, home, sessVars, writer, nodeVars, peers, ioc>>

\* The peer becomes unreachable without a FIN or RST.
Vanish(s) ==
  /\ link[s] = "up"
  /\ link' = [link EXCEPT ![s] = "silent"]
  /\ \E rest \in InFlight(s) : inbox' = [inbox EXCEPT ![s] = rest]
  /\ UNCHANGED <<tls, owner, home, sessVars, writer, nodeVars, peers, ioc>>

\* Retransmission or the idle timeout of the stream gives the connection up.
TcpFail(s) ==
  /\ link[s] = "silent"
  /\ link' = [link EXCEPT ![s] = "down"]
  /\ UNCHANGED <<tls, owner, home, inbox, sessVars, writer, nodeVars, peers,
                 ioc>>

-----------------------------------------------------------------------------
(* Callbacks of HttpServer *)

\* Mutant of Disconnected: the plain handler without its early return.
DisconnectedUnguarded(n, wr) ==
  LET state == IF nodeState[n] = "absent" THEN nodeState
               ELSE [nodeState EXCEPT ![n] = "grace"]
      cur == [current EXCEPT ![n] = NoSession]
  IN /\ nodeState' = state
     /\ current' = cur
     /\ dbOnline' = [dbOnline EXCEPT ![n] = FALSE]
     /\ Broadcast(n, cur, state, wr,
                  NetworkNodes(state, nodeNet, nodeNet[n]) \ {n})
     /\ UNCHANGED <<nodeNet, silence>>

\* Mutant of Disconnected: set_offline runs before the early return.
DisconnectedOffline(n, wr) ==
  /\ writer' = wr
  /\ dbOnline' = [dbOnline EXCEPT ![n] = FALSE]
  /\ UNCHANGED <<nodeState, nodeNet, silence, current, peers>>

\* The disconnect handler over TLS: whichever session is registered for the node
\* goes, the node enters grace and the others are told.
Evict(n, wr) ==
  LET state == IF nodeState[n] = "absent" THEN nodeState
               ELSE [nodeState EXCEPT ![n] = "grace"]
      cur == [current EXCEPT ![n] = NoSession]
  IN /\ nodeState' = state
     /\ current' = cur
     /\ dbOnline' = [dbOnline EXCEPT ![n] = FALSE]
     /\ IF state[n] = "absent"
        THEN writer' = wr /\ peers' = [peers EXCEPT ![n] = {}]
        ELSE Broadcast(n, cur, state, wr,
                       NetworkNodes(state, nodeNet, nodeNet[n]) \ {n})
     /\ UNCHANGED <<nodeNet, silence>>

\* The disconnect handler.  Over plain WebSocket it returns early when any
\* session is registered for the node; the TLS one has no such guard.
Disconnected(n, wr) ==
  IF ~tls /\ current[n] # NoSession
  THEN /\ writer' = wr
       /\ UNCHANGED <<nodeVars, peers>>
  ELSE Evict(n, wr)

\* Mutant of Registered: the session to mark stale is looked up after the new
\* one was registered, and the others are not told.
RegisteredFirst(s) ==
  LET n == owner[s]
      state == [nodeState EXCEPT ![n] = "online"]
      net == [nodeNet EXCEPT ![n] = home[s]]
  IN /\ nodeState' = state
     /\ nodeNet' = net
     /\ silence' = [silence EXCEPT ![n] = 0]
     /\ current' = [current EXCEPT ![n] = s]
     /\ dbOnline' = [dbOnline EXCEPT ![n] = TRUE]
     /\ stale' = [stale EXCEPT ![s] = TRUE]
     /\ peers' = [peers EXCEPT ![n] = NetworkNodes(state, net, home[s]) \ {n}]
     /\ writer' = Queue(writer, {s})

\* The node-auth and post-node-auth callbacks: the node is registered online
\* and persisted, the session registered in its place, a session it replaces
\* marked stale, and the peer list sent to it and to the others.
Registered(s) ==
  LET n == owner[s]
      state == [nodeState EXCEPT ![n] = "online"]
      net == [nodeNet EXCEPT ![n] = home[s]]
      cur == [current EXCEPT ![n] = s]
      online == NetworkNodes(state, net, home[s])
      heard == Audience(n, cur, state)
  IN /\ nodeState' = state
     /\ nodeNet' = net
     /\ silence' = [silence EXCEPT ![n] = 0]
     /\ current' = cur
     /\ dbOnline' = [dbOnline EXCEPT ![n] = TRUE]
     /\ stale' = [r \in Sessions |-> stale[r] \/ r = current[n]]
     /\ peers' = [m \in Nodes |-> IF m = n THEN online \ {n}
                                  ELSE IF m \in heard THEN online ELSE peers[m]]
     /\ writer' = Queue(writer, {s} \union SessionsOf(heard, cur))

-----------------------------------------------------------------------------
(* Handlers of a session *)

\* A message is delivered: it counts as activity of the session.
Take(s) ==
  /\ ioc = NoSession
  /\ reading[s]
  /\ inbox[s] # <<>>
  /\ inbox' = [inbox EXCEPT ![s] = Tail(@)]
  /\ idle' = [idle EXCEPT ![s] = 0]
  /\ UNCHANGED <<tls, link, owner, home, reading, timer, closing, ioc>>

Authenticate(s) ==
  /\ Take(s)
  /\ ~authed[s] /\ Head(inbox[s]) = "auth"
  /\ authed' = [authed EXCEPT ![s] = TRUE]
  /\ Registered(s)

\* heartbeat refreshes the registry entry, if there is one, and the database.
Heartbeat(s) ==
  LET n == owner[s] IN
  /\ Take(s)
  /\ authed[s] /\ Head(inbox[s]) = "heartbeat"
  /\ silence' = [silence EXCEPT ![n] = IF nodeState[n] = "absent" THEN @ ELSE 0]
  /\ dbOnline' = [dbOnline EXCEPT ![n] = TRUE]
  /\ writer' = Queue(writer, {s})
  /\ UNCHANGED <<authed, stale, nodeState, nodeNet, current, peers>>

\* update_addr refreshes the registry entry, echoes the virtual address and
\* signals punching to some of the online nodes of the network.
UpdateAddr(s) ==
  LET n == owner[s] IN
  /\ Take(s)
  /\ authed[s] /\ Head(inbox[s]) = "update_addr"
  /\ IF nodeState[n] = "absent"
     THEN UNCHANGED <<silence, writer>>
     ELSE /\ silence' = [silence EXCEPT ![n] = 0]
          /\ \E others \in SUBSET NetworkNodes(nodeState, nodeNet, nodeNet[n]) :
               writer' = Queue(writer, {s} \union SessionsOf(others, current))
  /\ UNCHANGED <<authed, stale, nodeState, nodeNet, current, dbOnline, peers>>

\* transport_status, connect_peer and tun_packet: at most output is queued.
OtherRequest(s) ==
  /\ Take(s)
  /\ authed[s] /\ Head(inbox[s]) = "other"
  /\ \E ns \in SUBSET Nodes, answered \in BOOLEAN :
       writer' = Queue(writer, SessionsOf(ns, current)
                                 \union IF answered THEN {s} ELSE {})
  /\ UNCHANGED <<authed, stale, nodeVars, peers>>

\* do_read fails at the end of the stream: the loop ends, and the disconnect
\* handler runs unless the session is stale or never authenticated.  Any other
\* operation on the stream completes with operation_aborted from here on.
ReadError(s) ==
  /\ ioc = NoSession
  /\ reading[s]
  /\ link[s] = "down"
  /\ inbox[s] = <<>>
  /\ reading' = [reading EXCEPT ![s] = FALSE]
  /\ LET failed == [writer EXCEPT ![s] = "stuck"] IN
     IF authed[s] /\ ~stale[s]
     THEN Disconnected(owner[s], failed)
     ELSE writer' = failed /\ UNCHANGED <<nodeVars, peers>>
  /\ UNCHANGED <<connVars, authed, stale, timer, closing, idle, ioc>>

\* do_write drains the queue into the socket buffer.
WriteDone(s) ==
  /\ ioc = NoSession
  /\ writer[s] = "busy"
  /\ writer' = [writer EXCEPT ![s] = "free"]
  /\ UNCHANGED <<connVars, sessVars, nodeVars, peers, ioc>>

\* do_write fails: writing_ is never reset, and the disconnect handler runs
\* whether or not the session is stale.  The pending read is aborted.
WriteError(s) ==
  /\ ioc = NoSession
  /\ writer[s] = "busy"
  /\ link[s] = "down"
  /\ reading' = [reading EXCEPT ![s] = FALSE]
  /\ Disconnected(owner[s], [writer EXCEPT ![s] = "stuck"])
  /\ UNCHANGED <<connVars, authed, stale, timer, closing, idle, ioc>>

\* check_heartbeat finds the session idle for the timeout: disconnect handler,
\* then close() is posted.  A stale session only re-arms its timer.
HeartbeatExpired(s) ==
  /\ ioc = NoSession
  /\ timer[s]
  /\ ~stale[s]
  /\ idle[s] = Timeout
  /\ timer' = [timer EXCEPT ![s] = FALSE]
  /\ closing' = [closing EXCEPT ![s] = TRUE]
  /\ IF authed[s]
     THEN Disconnected(owner[s], writer)
     ELSE UNCHANGED <<writer, nodeVars, peers>>
  /\ UNCHANGED <<connVars, authed, stale, reading, idle, ioc>>

\* The posted close() starts: unless the stream has ended it sends a close frame
\* and blocks the thread until the peer answers or the connection fails.
BeginClose(s) ==
  /\ ioc = NoSession
  /\ closing[s]
  /\ closing' = [closing EXCEPT ![s] = FALSE]
  /\ ioc' = IF reading[s] THEN s ELSE NoSession
  /\ UNCHANGED <<connVars, authed, stale, reading, timer, idle, writer,
                 nodeVars, peers>>

\* It returns.  Messages in front of the close frame were discarded; a pending
\* read or write completes with operation_aborted: no disconnect handler.
EndClose(s) ==
  /\ ioc = s
  /\ link[s] # "silent"
  /\ ioc' = NoSession
  /\ link' = [link EXCEPT ![s] = "down"]
  /\ inbox' = [inbox EXCEPT ![s] = <<>>]
  /\ reading' = [reading EXCEPT ![s] = FALSE]
  /\ writer' = [writer EXCEPT ![s] = "stuck"]
  /\ UNCHANGED <<tls, owner, home, authed, stale, timer, closing, idle, nodeVars,
                 peers>>

-----------------------------------------------------------------------------
(* HeartbeatMonitor and time *)

\* Mutants of TimedOut: nodes of one of the two states are passed over.
TimedOutGrace == {n \in Nodes : nodeState[n] = "grace" /\ silence[n] = Timeout}
TimedOutOnline == {n \in Nodes : nodeState[n] = "online" /\ silence[n] = Timeout}

\* NodeRegistry::findTimedOutNodes
TimedOut == {n \in Nodes : nodeState[n] # "absent" /\ silence[n] = Timeout}

\* Mutant of MonitorCheck: removeSession is forgotten.
MonitorForgetsSessions ==
  /\ ioc = NoSession
  /\ TimedOut # {}
  /\ nodeState' = [n \in Nodes |-> IF n \in TimedOut THEN "absent"
                                   ELSE nodeState[n]]
  /\ dbOnline' = [n \in Nodes |-> dbOnline[n] /\ n \notin TimedOut]
  /\ UNCHANGED <<connVars, sessVars, nodeNet, silence, current, ioc, writer, peers>>

\* do_check: the timeout callback removes each timed out node in turn, from the
\* registry and the session map, and broadcasts to the nodes still online.  The
\* first removed hears nothing; the last removed decides what the others keep.
MonitorCheck ==
  /\ ioc = NoSession
  /\ TimedOut # {}
  /\ \E first \in TimedOut, last \in TimedOut :
       LET state == [n \in Nodes |-> IF n \in TimedOut THEN "absent"
                                     ELSE nodeState[n]]
           heard == Audience(first, current, nodeState)
           kept == {n \in heard : state[n] = "online"}
       IN /\ first = last => TimedOut = {first}
          /\ nodeState' = state
          /\ current' = [n \in Nodes |-> IF n \in TimedOut THEN NoSession
                                         ELSE current[n]]
          /\ dbOnline' = [n \in Nodes |-> dbOnline[n] /\ n \notin TimedOut]
          /\ peers' = [n \in Nodes |->
               IF n \in TimedOut THEN {}
               ELSE IF n \in kept
               THEN NetworkNodes(state, nodeNet, nodeNet[last]) ELSE peers[n]]
          /\ writer' = Queue(writer, SessionsOf(heard, current))
  /\ UNCHANGED <<connVars, sessVars, nodeNet, silence, ioc>>

\* Mutant of Older: the cap is one too high.
OlderByOne(age) == IF age <= Timeout THEN age + 1 ELSE age

\* The next age, in ticks.
Older(age) == IF age < Timeout THEN age + 1 ELSE age

\* Time passes.  On a timely network it does not outrun the heartbeats of a
\* client that is connected.
Tick ==
  /\ Timely => \A s \in Sessions :
       link[s] = "up" /\ authed[s] =>
         idle[s] + 1 < Timeout /\ silence[owner[s]] + 1 < Timeout
  /\ idle' = [s \in Sessions |-> IF timer[s] THEN Older(idle[s]) ELSE idle[s]]
  /\ silence' = [n \in Nodes |-> IF nodeState[n] = "absent" THEN silence[n]
                                 ELSE Older(silence[n])]
  /\ UNCHANGED <<connVars, authed, stale, reading, timer, closing, writer,
                 nodeState, nodeNet, current, dbOnline, peers, ioc>>

-----------------------------------------------------------------------------
(* Specification *)

Receive(s) == Authenticate(s) \/ Heartbeat(s) \/ UpdateAddr(s) \/ OtherRequest(s)

Next ==
  \/ \E s \in Sessions, n \in Nodes, w \in Networks : Open(s, n, w)
  \/ \E s \in Sessions, m \in Requests : Send(s, m)
  \/ \E s \in Sessions : Hangup(s)
  \/ \E s \in Sessions : Vanish(s)
  \/ \E s \in Sessions : TcpFail(s)
  \/ \E s \in Sessions : Authenticate(s)
  \/ \E s \in Sessions : Heartbeat(s)
  \/ \E s \in Sessions : UpdateAddr(s)
  \/ \E s \in Sessions : OtherRequest(s)
  \/ \E s \in Sessions : ReadError(s)
  \/ \E s \in Sessions : WriteDone(s)
  \/ \E s \in Sessions : WriteError(s)
  \/ \E s \in Sessions : HeartbeatExpired(s)
  \/ \E s \in Sessions : BeginClose(s)
  \/ \E s \in Sessions : EndClose(s)
  \/ MonitorCheck
  \/ Tick

Spec == Init /\ [][Next]_vars

\* The io thread serves every ready handler, timers fire, a lost connection is
\* eventually given up and a live client answers a close frame.  A connection
\* blocks the thread at most once, so weak fairness is enough.
ServerFairness ==
  /\ \A s \in Sessions :
       /\ WF_vars(Receive(s))
       /\ WF_vars(ReadError(s))
       /\ WF_vars(WriteDone(s) \/ WriteError(s))
       /\ WF_vars(HeartbeatExpired(s))
       /\ WF_vars(BeginClose(s))
       /\ WF_vars(EndClose(s))
       /\ WF_vars(TcpFail(s))
  /\ WF_vars(MonitorCheck)
  /\ WF_vars(Tick)

\* The clients keep sending heartbeats while connected.
ClientFairness == \A s \in Sessions : WF_vars(Send(s, "heartbeat"))

FairSpec == Spec /\ ServerFairness
LiveSpec == FairSpec /\ ClientFairness

-----------------------------------------------------------------------------
(* Properties *)

\* The two maps never disagree: a node is online in the NodeRegistry exactly
\* while the SessionManager holds a session for it, across re-authentication,
\* disconnects of old and new sessions, and expiry by the HeartbeatMonitor.
OnlineIffRegistered ==
  \A n \in Nodes : nodeState[n] = "online" <=> current[n] # NoSession

\* The session messages for a node are sent to is an authenticated session of
\* that node, and never one that a later authentication replaced.
CurrentIsGenuine ==
  \A n \in Nodes : current[n] # NoSession =>
    /\ owner[current[n]] = n
    /\ authed[current[n]]
    /\ ~stale[current[n]]

\* A registered node is online in the database and its heartbeat age restarts
\* with the registration, so set_offline never outlives a re-authentication.
RegisteredIsDbOnline == \A n \in Nodes : current[n] # NoSession => dbOnline[n]

\* The last peer_list a registered node was sent names exactly the other nodes
\* now online in its network (the list may name the node itself).
PeerListExact ==
  \A n \in Nodes : current[n] # NoSession =>
    peers[n] \ {n} = NetworkNodes(nodeState, nodeNet, nodeNet[n]) \ {n}

\* Over plain WebSocket a live registered session loses its place only to a
\* session that authenticates in that step, or because its node was silent for
\* the timeout: no late callback of an older session may evict it.
KeepsPlace(n) ==
  LET s == current[n] IN
  (s # NoSession /\ link[s] = "up" /\ current'[n] # s) =>
    \/ silence[n] = Timeout
    \/ /\ current'[n] # NoSession
       /\ ~authed[current'[n]] /\ authed'[current'[n]]
LiveSessionKept == [][~tls => \A n \in Nodes : KeepsPlace(n)]_vars

\* Over TLS, when the stream of the registered session of a node fails, the
\* session is removed in that step and the node, if still listed, enters the
\* grace state.  (One the server closes was removed when its timer fired.)
EndsInGrace(s) ==
  LET n == owner[s] IN
  (reading[s] /\ ~reading'[s] /\ ioc # s /\ n \in Nodes /\ current[n] = s) =>
    current'[n] = NoSession /\ nodeState'[n] # "online"
DisconnectEntersGrace == [][tls => \A s \in Sessions : EndsInGrace(s)]_vars

\* The server implements Presence: in particular a session that was replaced,
\* expired or disconnected never takes the place of its node again, and every
\* change of the two maps is an arrival, a departure or an expiry.
Abstract == INSTANCE Presence WITH
  state <- nodeState,
  holder <- current,
  spent <- {s \in Sessions : authed[s]}
ImplementsPresence == Abstract!Spec

\* Once a node has no live connection for good, it leaves both maps.
NodeForgotten ==
  \A n \in Nodes :
    <>[](\A s \in Sessions : owner[s] = n => link[s] # "up")
      => <>[](nodeState[n] = "absent" /\ current[n] = NoSession)

\* A client that stays connected ends up registered for good: what is sent to
\* its node reaches it.
ConnectedIsReachable ==
  \A s \in Sessions :
    <>[](link[s] = "up") => <>[](\E n \in Nodes : current[n] = s)

=============================================================================
