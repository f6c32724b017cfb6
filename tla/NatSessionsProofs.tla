-------------------------- MODULE NatSessionsProofs --------------------------
(* Theorems about the session lifecycle, for every set of nodes, networks     *)
(* and connections and every timeout, and their proofs.                       *)
EXTENDS NatSessions, SequenceTheorems, TLAPS

-----------------------------------------------------------------------------
(* Typing *)

\* The arbitrary network of the initial state is a network.
LEMMA AnyNetworkType == AnyNetwork \in Networks
  BY ParameterAssumption DEF AnyNetwork

\* Queueing output keeps the writer states well formed.
LEMMA QueueType ==
  ASSUME NEW wr \in [Sessions -> {"free", "busy", "stuck"}], NEW targets
  PROVE  Queue(wr, targets) \in [Sessions -> {"free", "busy", "stuck"}]
  BY DEF Queue

\* A broadcast keeps the writers and the lists sent well formed.
LEMMA BroadcastType ==
  ASSUME NEW n, NEW cur, NEW state, NEW list \in SUBSET Nodes,
         NEW wr \in [Sessions -> {"free", "busy", "stuck"}],
         peers \in [Nodes -> SUBSET Nodes],
         Broadcast(n, cur, state, wr, list)
  PROVE  /\ writer' \in [Sessions -> {"free", "busy", "stuck"}]
         /\ peers' \in [Nodes -> SUBSET Nodes]
  BY QueueType DEF Broadcast

\* What the disconnect handler assigns is well typed.
LEMMA DisconnectedType ==
  ASSUME TypeOK, NEW n \in Nodes,
         NEW wr \in [Sessions -> {"free", "busy", "stuck"}],
         Disconnected(n, wr)
  PROVE  /\ writer' \in [Sessions -> {"free", "busy", "stuck"}]
         /\ nodeState' \in [Nodes -> {"absent", "online", "grace"}]
         /\ nodeNet' \in [Nodes -> Networks]
         /\ silence' \in [Nodes -> 0..Timeout]
         /\ current' \in [Nodes -> Sessions \union {NoSession}]
         /\ peers' \in [Nodes -> SUBSET Nodes]
         /\ dbOnline' \in [Nodes -> BOOLEAN]
  <1>1. CASE ~tls /\ current[n] # NoSession
    BY <1>1 DEF Disconnected, TypeOK, nodeVars
  <1>2. CASE ~(~tls /\ current[n] # NoSession)
    <2> DEFINE state == IF nodeState[n] = "absent" THEN nodeState
                        ELSE [nodeState EXCEPT ![n] = "grace"]
               cur == [current EXCEPT ![n] = NoSession]
               list == NetworkNodes(state, nodeNet, nodeNet[n]) \ {n}
    <2>1. /\ nodeState' = state
          /\ current' = cur
          /\ dbOnline' = [dbOnline EXCEPT ![n] = FALSE]
          /\ UNCHANGED <<nodeNet, silence>>
          /\ \/ writer' = wr /\ peers' = [peers EXCEPT ![n] = {}]
             \/ Broadcast(n, cur, state, wr, list)
      BY <1>2 DEF Disconnected, Evict
    <2>2. list \in SUBSET Nodes
      BY DEF NetworkNodes
    <2>3. /\ writer' \in [Sessions -> {"free", "busy", "stuck"}]
          /\ peers' \in [Nodes -> SUBSET Nodes]
      <3> HIDE DEF state, cur, list
      <3> QED BY <2>1, <2>2, BroadcastType DEF TypeOK
    <2> QED BY <2>1, <2>3 DEF TypeOK
  <1> QED BY <1>1, <1>2

\* What registering a session assigns is well typed.
LEMMA RegisteredType ==
  ASSUME TypeOK, NEW s \in Sessions, owner[s] \in Nodes, Registered(s)
  PROVE  /\ writer' \in [Sessions -> {"free", "busy", "stuck"}]
         /\ nodeState' \in [Nodes -> {"absent", "online", "grace"}]
         /\ nodeNet' \in [Nodes -> Networks]
         /\ silence' \in [Nodes -> 0..Timeout]
         /\ current' \in [Nodes -> Sessions \union {NoSession}]
         /\ stale' \in [Sessions -> BOOLEAN]
         /\ peers' \in [Nodes -> SUBSET Nodes]
         /\ dbOnline' \in [Nodes -> BOOLEAN]
  <1>1. writer' \in [Sessions -> {"free", "busy", "stuck"}]
    BY QueueType DEF Registered, TypeOK
  <1>2. stale' \in [Sessions -> BOOLEAN]
    BY DEF Registered, TypeOK
  <1>3. peers' \in [Nodes -> SUBSET Nodes]
    BY DEF Registered, TypeOK, NetworkNodes
  <1>4. /\ nodeState' = [nodeState EXCEPT ![owner[s]] = "online"]
        /\ nodeNet' = [nodeNet EXCEPT ![owner[s]] = home[s]]
        /\ silence' = [silence EXCEPT ![owner[s]] = 0]
        /\ current' = [current EXCEPT ![owner[s]] = s]
        /\ dbOnline' = [dbOnline EXCEPT ![owner[s]] = TRUE]
    BY DEF Registered
  <1>5. 0 \in 0..Timeout
    BY ParameterAssumption
  <1> QED BY <1>1, <1>2, <1>3, <1>4, <1>5 DEF TypeOK

\* Ages stay within the timeout.
LEMMA OlderType == \A age \in 0..Timeout : Older(age) \in 0..Timeout
  BY ParameterAssumption DEF Older

\* The part of the inductive invariant about connections: nothing happens on a
\* connection that was never opened, and only authenticated sessions are
\* registered, replaced or written to.
Accepted ==
  \A s \in Sessions :
    /\ authed[s] \/ reading[s] \/ timer[s] \/ closing[s] \/ ioc = s
         => link[s] # "idle"
    /\ link[s] # "idle" => owner[s] \in Nodes
    /\ stale[s] \/ writer[s] = "busy" => authed[s]

IInv == TypeOK /\ Accepted /\ OnlineIffRegistered /\ CurrentIsGenuine

\* The initial state is well typed.
LEMMA TypeInit == Init => TypeOK
  BY AnyNetworkType, ParameterAssumption DEF Init, TypeOK, Links

\* Delivering a message keeps the variables of the connection well typed.
LEMMA TakeType ==
  ASSUME TypeOK, NEW s \in Sessions, Take(s)
  PROVE  /\ inbox' \in [Sessions -> Seq(Messages)]
         /\ idle' \in [Sessions -> 0..Timeout]
         /\ UNCHANGED <<tls, link, owner, home, reading, timer, closing, ioc>>
  <1>1. Tail(inbox[s]) \in Seq(Messages)
    BY HeadTailProperties DEF TypeOK, Take
  <1>2. 0 \in 0..Timeout
    BY ParameterAssumption
  <1> QED BY <1>1, <1>2 DEF TypeOK, Take

\* Every step keeps the types.
LEMMA TypeStep ==
  ASSUME TypeOK, Accepted, [Next]_vars
  PROVE  TypeOK'
  <1> USE DEF connVars, sessVars, nodeVars
  <1>1. ASSUME NEW s \in Sessions, NEW n \in Nodes, NEW w \in Networks,
               Open(s, n, w)
        PROVE  TypeOK'
    <2>1. <<"auth">> \in Seq(Messages)
      BY DEF Messages
    <2> QED BY <1>1, <2>1 DEF Open, TypeOK, Links
  <1>2. ASSUME NEW s \in Sessions, NEW m \in Requests, Send(s, m)
        PROVE  TypeOK'
    <2>1. Append(inbox[s], m) \in Seq(Messages)
      BY AppendProperties DEF TypeOK, Messages
    <2> QED BY <1>2, <2>1 DEF Send, TypeOK
  <1>3. ASSUME NEW s \in Sessions, Hangup(s) \/ Vanish(s) PROVE TypeOK'
    <2>1. PICK rest \in InFlight(s) : inbox' = [inbox EXCEPT ![s] = rest]
      BY <1>3 DEF Hangup, Vanish
    <2>2. rest \in Seq(Messages)
      <3>1. <<>> \in Seq(Messages)
        BY EmptySeq
      <3>2. inbox[s] \in Seq(Messages)
        BY DEF TypeOK
      <3>3. rest = inbox[s] \/ rest = <<>>
        BY Zenon DEF InFlight
      <3> QED BY <3>1, <3>2, <3>3, Zenon
    <2>3. /\ link' \in [Sessions -> Links]
          /\ UNCHANGED <<tls, owner, home, sessVars, writer, nodeVars, peers, ioc>>
      BY <1>3 DEF Hangup, Vanish, TypeOK, Links
    <2> QED BY <2>1, <2>2, <2>3 DEF TypeOK
  <1>4. ASSUME NEW s \in Sessions, TcpFail(s) PROVE TypeOK'
    BY <1>4 DEF TcpFail, TypeOK, Links
  <1>5. ASSUME NEW s \in Sessions, Authenticate(s) PROVE TypeOK'
    <2>1. owner[s] \in Nodes
      BY <1>5 DEF Authenticate, Take, Accepted
    <2>2. Registered(s) /\ authed' \in [Sessions -> BOOLEAN]
      BY <1>5 DEF Authenticate, TypeOK
    <2> QED BY <1>5, <2>1, <2>2, RegisteredType, TakeType
            DEF Authenticate, TypeOK
  <1>6. ASSUME NEW s \in Sessions, Heartbeat(s) PROVE TypeOK'
    <2>1. 0 \in 0..Timeout
      BY ParameterAssumption
    <2>2. silence' \in [Nodes -> 0..Timeout]
      BY <1>6, <2>1 DEF Heartbeat, TypeOK
    <2>3. writer' \in [Sessions -> {"free", "busy", "stuck"}]
      BY <1>6, QueueType DEF Heartbeat, TypeOK
    <2>4. dbOnline' \in [Nodes -> BOOLEAN]
      BY <1>6 DEF Heartbeat, TypeOK
    <2> QED BY <1>6, <2>2, <2>3, <2>4, TakeType DEF Heartbeat, TypeOK
  <1>7. ASSUME NEW s \in Sessions, UpdateAddr(s) PROVE TypeOK'
    <2>1. 0 \in 0..Timeout
      BY ParameterAssumption
    <2>2. silence' \in [Nodes -> 0..Timeout]
      BY <1>7, <2>1 DEF UpdateAddr, TypeOK
    <2>3. writer' \in [Sessions -> {"free", "busy", "stuck"}]
      <3>1. writer' = writer \/ \E ss : writer' = Queue(writer, ss)
        BY <1>7, Zenon DEF UpdateAddr
      <3>2. writer \in [Sessions -> {"free", "busy", "stuck"}]
        BY DEF TypeOK
      <3> QED BY <3>1, <3>2, QueueType, Zenon
    <2>4. /\ Take(s)
          /\ UNCHANGED <<authed, stale, nodeState, nodeNet, current, dbOnline,
                         peers>>
      BY <1>7 DEF UpdateAddr
    <2>5. /\ inbox' \in [Sessions -> Seq(Messages)]
          /\ idle' \in [Sessions -> 0..Timeout]
          /\ UNCHANGED <<tls, link, owner, home, reading, timer, closing, ioc>>
      BY <2>4, TakeType
    <2> QED BY <2>2, <2>3, <2>4, <2>5 DEF TypeOK
  <1>8. ASSUME NEW s \in Sessions, OtherRequest(s) PROVE TypeOK'
    <2>1. writer' \in [Sessions -> {"free", "busy", "stuck"}]
      <3>1. writer' = writer \/ \E ss : writer' = Queue(writer, ss)
        BY <1>8, Zenon DEF OtherRequest
      <3>2. writer \in [Sessions -> {"free", "busy", "stuck"}]
        BY DEF TypeOK
      <3> QED BY <3>1, <3>2, QueueType, Zenon
    <2>2. Take(s) /\ UNCHANGED <<authed, stale, nodeVars, peers>>
      BY <1>8 DEF OtherRequest
    <2>5. /\ inbox' \in [Sessions -> Seq(Messages)]
          /\ idle' \in [Sessions -> 0..Timeout]
          /\ UNCHANGED <<tls, link, owner, home, reading, timer, closing, ioc>>
      BY <2>2, TakeType
    <2> QED BY <2>1, <2>2, <2>5 DEF TypeOK
  <1>9. ASSUME NEW s \in Sessions, ReadError(s) PROVE TypeOK'
    <2>1. owner[s] \in Nodes
      BY <1>9 DEF ReadError, Accepted
    <2>2. [writer EXCEPT ![s] = "stuck"]
            \in [Sessions -> {"free", "busy", "stuck"}]
      BY DEF TypeOK
    <2>3. CASE authed[s] /\ ~stale[s]
      <3>1. Disconnected(owner[s], [writer EXCEPT ![s] = "stuck"])
        BY <1>9, <2>3 DEF ReadError
      <3> QED BY <1>9, <2>1, <2>2, <3>1, DisconnectedType
              DEF ReadError, TypeOK
    <2>4. CASE ~(authed[s] /\ ~stale[s])
      BY <1>9, <2>2, <2>4 DEF ReadError, TypeOK
    <2> QED BY <2>3, <2>4
  <1>10. ASSUME NEW s \in Sessions, WriteDone(s) PROVE TypeOK'
    BY <1>10 DEF WriteDone, TypeOK
  <1>11. ASSUME NEW s \in Sessions, WriteError(s) PROVE TypeOK'
    <2>1. owner[s] \in Nodes
      BY <1>11 DEF WriteError, Accepted
    <2>2. [writer EXCEPT ![s] = "stuck"]
            \in [Sessions -> {"free", "busy", "stuck"}]
      BY DEF TypeOK
    <2> QED BY <1>11, <2>1, <2>2, DisconnectedType DEF WriteError, TypeOK
  <1>12. ASSUME NEW s \in Sessions, HeartbeatExpired(s) PROVE TypeOK'
    <2>1. owner[s] \in Nodes
      BY <1>12 DEF HeartbeatExpired, Accepted
    <2>2. CASE authed[s]
      <3>1. Disconnected(owner[s], writer)
        BY <1>12, <2>2 DEF HeartbeatExpired
      <3>2. writer \in [Sessions -> {"free", "busy", "stuck"}]
        BY DEF TypeOK
      <3> QED BY <1>12, <2>1, <3>1, <3>2, DisconnectedType
              DEF HeartbeatExpired, TypeOK
    <2>3. CASE ~authed[s]
      BY <1>12, <2>3 DEF HeartbeatExpired, TypeOK
    <2> QED BY <2>2, <2>3
  <1>13. ASSUME NEW s \in Sessions, BeginClose(s) PROVE TypeOK'
    BY <1>13 DEF BeginClose, TypeOK
  <1>14. ASSUME NEW s \in Sessions, EndClose(s) PROVE TypeOK'
    <2>1. <<>> \in Seq(Messages)
      BY EmptySeq
    <2> QED BY <1>14, <2>1 DEF EndClose, TypeOK, Links
  <1>15. ASSUME MonitorCheck PROVE TypeOK'
    <2>1. PICK first \in TimedOut, last \in TimedOut :
            /\ nodeState' = [n \in Nodes |-> IF n \in TimedOut THEN "absent"
                                             ELSE nodeState[n]]
            /\ current' = [n \in Nodes |-> IF n \in TimedOut THEN NoSession
                                           ELSE current[n]]
            /\ dbOnline' = [n \in Nodes |-> dbOnline[n] /\ n \notin TimedOut]
            /\ peers' \in [Nodes -> SUBSET Nodes]
            /\ writer' = Queue(writer, SessionsOf(
                           Audience(first, current, nodeState), current))
      BY <1>15 DEF MonitorCheck, TypeOK, NetworkNodes
    <2>2. writer' \in [Sessions -> {"free", "busy", "stuck"}]
      BY <2>1, QueueType DEF TypeOK
    <2> QED BY <1>15, <2>1, <2>2 DEF MonitorCheck, TypeOK
  <1>16. ASSUME Tick PROVE TypeOK'
    BY <1>16, OlderType DEF Tick, TypeOK
  <1>17. CASE UNCHANGED vars
    BY <1>17 DEF vars, TypeOK
  <1> QED BY <1>1, <1>2, <1>3, <1>4, <1>5, <1>6, <1>7, <1>8, <1>9, <1>10,
             <1>11, <1>12, <1>13, <1>14, <1>15, <1>16, <1>17 DEF Next
-----------------------------------------------------------------------------
(* The maps agree and name genuine sessions *)

\* Sessions that output is queued for are authenticated if the targets are.
LEMMA QueueAuthed ==
  ASSUME NEW wr \in [Sessions -> {"free", "busy", "stuck"}], NEW targets,
         NEW auth,
         \A s \in Sessions : wr[s] = "busy" => auth[s],
         \A s \in Sessions : s \in targets => auth[s]
  PROVE  \A s \in Sessions : Queue(wr, targets)[s] = "busy" => auth[s]
  BY DEF Queue

\* The disconnect handler changes the two maps only for its node: it removes
\* the session and leaves the node absent or in grace, or changes nothing.
LEMMA DisconnectedEffect ==
  ASSUME IInv, NEW n \in Nodes,
         NEW wr \in [Sessions -> {"free", "busy", "stuck"}],
         \A s \in Sessions : wr[s] = "busy" => authed[s],
         Disconnected(n, wr)
  PROVE  /\ \/ UNCHANGED <<nodeState, current>>
            \/ /\ current' = [current EXCEPT ![n] = NoSession]
               /\ nodeState' = IF nodeState[n] = "absent" THEN nodeState
                               ELSE [nodeState EXCEPT ![n] = "grace"]
         /\ ~tls /\ current[n] # NoSession => UNCHANGED <<nodeState, current>>
         /\ \A s \in Sessions : writer'[s] = "busy" => authed[s]
  <1>1. CASE ~tls /\ current[n] # NoSession
    BY <1>1 DEF Disconnected, nodeVars
  <1>2. CASE ~(~tls /\ current[n] # NoSession)
    <2> DEFINE state == IF nodeState[n] = "absent" THEN nodeState
                        ELSE [nodeState EXCEPT ![n] = "grace"]
               cur == [current EXCEPT ![n] = NoSession]
               list == NetworkNodes(state, nodeNet, nodeNet[n]) \ {n}
               heard == SessionsOf(Audience(n, cur, state), cur)
    <2>1. /\ nodeState' = state
          /\ current' = cur
          /\ writer' = wr \/ writer' = Queue(wr, heard)
      BY <1>2 DEF Disconnected, Evict, Broadcast
    <2>2. \A s \in Sessions : s \in heard => authed[s]
      BY DEF IInv, CurrentIsGenuine, TypeOK, SessionsOf, Audience
    <2>3. \A s \in Sessions : Queue(wr, heard)[s] = "busy" => authed[s]
      BY <2>2, QueueAuthed
    <2> QED BY <1>2, <2>1, <2>3
  <1> QED BY <1>1, <1>2

\* The effect of registering a session on the two maps and on who is stale.
LEMMA RegisteredEffect ==
  ASSUME IInv, NEW s \in Sessions, owner[s] \in Nodes, Registered(s)
  PROVE  /\ nodeState' = [nodeState EXCEPT ![owner[s]] = "online"]
         /\ current' = [current EXCEPT ![owner[s]] = s]
         /\ stale' = [r \in Sessions |-> stale[r] \/ r = current[owner[s]]]
         /\ \A r \in Sessions : writer'[r] = "busy" => authed[r] \/ r = s
  <1> DEFINE state == [nodeState EXCEPT ![owner[s]] = "online"]
             cur == [current EXCEPT ![owner[s]] = s]
             told == {s} \union SessionsOf(Audience(owner[s], cur, state), cur)
             auth == [authed EXCEPT ![s] = TRUE]
  <1>1. /\ nodeState' = state
        /\ current' = cur
        /\ stale' = [r \in Sessions |-> stale[r] \/ r = current[owner[s]]]
        /\ writer' = Queue(writer, told)
    BY DEF Registered
  <1>2. \A r \in Sessions : r \in told => auth[r]
    BY DEF IInv, CurrentIsGenuine, TypeOK, SessionsOf, Audience
  <1>3. \A r \in Sessions : writer[r] = "busy" => auth[r]
    BY DEF IInv, Accepted, TypeOK
  <1>4. \A r \in Sessions : Queue(writer, told)[r] = "busy" => auth[r]
    <2> HIDE DEF auth, told
    <2> QED BY <1>2, <1>3, QueueAuthed DEF IInv, TypeOK
  <1> QED BY <1>1, <1>4 DEF IInv, TypeOK

\* A step that leaves the two maps and the flags of sessions alone, and the
\* owner of every authenticated one, keeps both invariants of the maps.
LEMMA QuietStep ==
  ASSUME IInv, UNCHANGED <<nodeState, current, authed, stale>>,
         \A s \in Sessions : authed[s] => owner'[s] = owner[s]
  PROVE  OnlineIffRegistered' /\ CurrentIsGenuine'
  BY DEF IInv, OnlineIffRegistered, CurrentIsGenuine, TypeOK

\* So does the disconnect handler.
LEMMA DisconnectStep ==
  ASSUME IInv, NEW n \in Nodes,
         NEW wr \in [Sessions -> {"free", "busy", "stuck"}],
         \A s \in Sessions : wr[s] = "busy" => authed[s],
         Disconnected(n, wr), UNCHANGED <<owner, authed, stale>>
  PROVE  OnlineIffRegistered' /\ CurrentIsGenuine'
  <1>1. CASE UNCHANGED <<nodeState, current>>
    BY <1>1, QuietStep
  <1>2. CASE /\ current' = [current EXCEPT ![n] = NoSession]
             /\ nodeState' = IF nodeState[n] = "absent" THEN nodeState
                             ELSE [nodeState EXCEPT ![n] = "grace"]
    <2>1. OnlineIffRegistered'
      BY <1>2 DEF IInv, OnlineIffRegistered, TypeOK
    <2>2. CurrentIsGenuine'
      BY <1>2, SessionsAssumption DEF IInv, CurrentIsGenuine, TypeOK
    <2> QED BY <2>1, <2>2
  <1> QED BY <1>1, <1>2, DisconnectedEffect

\* Output queued for registered sessions and for an authenticated one goes to
\* authenticated sessions only.
LEMMA QueueCurrent ==
  ASSUME IInv, NEW ns \in SUBSET Nodes, NEW own,
         \A r \in Sessions : r \in own => authed[r]
  PROVE  \A r \in Sessions :
           Queue(writer, own \union SessionsOf(ns, current))[r] = "busy"
             => authed[r]
  <1> DEFINE told == own \union SessionsOf(ns, current)
  <1>1. \A r \in Sessions : r \in told => authed[r]
    BY SessionsAssumption DEF IInv, CurrentIsGenuine, TypeOK, SessionsOf
  <1>2. \A r \in Sessions : writer[r] = "busy" => authed[r]
    BY DEF IInv, Accepted, TypeOK
  <1>3. writer \in [Sessions -> {"free", "busy", "stuck"}]
    BY DEF IInv, TypeOK
  <1> HIDE DEF told
  <1>4. \A r \in Sessions : Queue(writer, told)[r] = "busy" => authed[r]
    BY <1>1, <1>2, <1>3, QueueAuthed
  <1> QED BY <1>4 DEF told

\* The initial state satisfies the inductive invariant.
LEMMA InvInit == Init => IInv
  BY TypeInit, SessionsAssumption
     DEF Init, IInv, Accepted, OnlineIffRegistered, CurrentIsGenuine

\* Every step keeps the inductive invariant.
LEMMA InvStep ==
  ASSUME IInv, [Next]_vars
  PROVE  IInv'
  <1> USE DEF connVars, sessVars, nodeVars
  <1>t. TypeOK'
    BY TypeStep DEF IInv
  <1>1. ASSUME NEW s \in Sessions, NEW n \in Nodes, NEW w \in Networks,
               Open(s, n, w)
        PROVE  IInv'
    <2>1. OnlineIffRegistered' /\ CurrentIsGenuine'
      BY <1>1, QuietStep DEF Open, IInv, Accepted, TypeOK
    <2>2. Accepted'
      BY <1>1 DEF Open, IInv, Accepted, TypeOK
    <2> QED BY <1>t, <2>1, <2>2 DEF IInv
  <1>2. ASSUME NEW s \in Sessions, NEW m \in Requests, Send(s, m)
        PROVE  IInv'
    <2>1. OnlineIffRegistered' /\ CurrentIsGenuine'
      BY <1>2, QuietStep DEF Send
    <2>2. Accepted'
      BY <1>2 DEF Send, IInv, Accepted
    <2> QED BY <1>t, <2>1, <2>2 DEF IInv
  <1>3. ASSUME NEW s \in Sessions, Hangup(s) \/ Vanish(s) \/ TcpFail(s)
        PROVE  IInv'
    <2>1. OnlineIffRegistered' /\ CurrentIsGenuine'
      BY <1>3, QuietStep DEF Hangup, Vanish, TcpFail
    <2>2. Accepted'
      BY <1>3 DEF Hangup, Vanish, TcpFail, IInv, Accepted, TypeOK
    <2> QED BY <1>t, <2>1, <2>2 DEF IInv
  <1>5. ASSUME NEW s \in Sessions, Authenticate(s) PROVE IInv'
    <2>1. owner[s] \in Nodes /\ ~authed[s] /\ Registered(s)
      BY <1>5 DEF Authenticate, Take, IInv, Accepted
    <2>2. /\ authed' = [authed EXCEPT ![s] = TRUE]
          /\ UNCHANGED <<link, owner, reading, timer, closing, ioc>>
      BY <1>5 DEF Authenticate, Take
    <2>3. /\ nodeState' = [nodeState EXCEPT ![owner[s]] = "online"]
          /\ current' = [current EXCEPT ![owner[s]] = s]
          /\ stale' = [r \in Sessions |-> stale[r] \/ r = current[owner[s]]]
          /\ \A r \in Sessions : writer'[r] = "busy" => authed[r] \/ r = s
      BY <2>1, RegisteredEffect
    <2>4. link[s] # "idle"
      BY <1>5 DEF Authenticate, Take, IInv, Accepted
    <2>5. Accepted'
      <3>1. \A r \in Sessions : authed'[r] <=> authed[r] \/ r = s
        BY <2>2 DEF IInv, TypeOK
      <3>2. \A r \in Sessions : stale'[r] => authed'[r]
        BY <2>1, <2>3, <3>1, SessionsAssumption
           DEF IInv, Accepted, CurrentIsGenuine, TypeOK
      <3>3. \A r \in Sessions : writer'[r] = "busy" => authed'[r]
        BY <2>3, <3>1
      <3> QED BY <2>2, <2>4, <3>1, <3>2, <3>3 DEF IInv, Accepted
    <2>6. OnlineIffRegistered'
      BY <2>1, <2>3, SessionsAssumption DEF IInv, OnlineIffRegistered, TypeOK
    <2>7. CurrentIsGenuine'
      BY <2>1, <2>2, <2>3
         DEF IInv, CurrentIsGenuine, OnlineIffRegistered, Accepted, TypeOK
    <2> QED BY <1>t, <2>5, <2>6, <2>7 DEF IInv
  <1>6. ASSUME NEW s \in Sessions,
               Heartbeat(s) \/ UpdateAddr(s) \/ OtherRequest(s)
        PROVE  IInv'
    <2>1. /\ authed[s]
          /\ UNCHANGED <<link, owner, authed, stale, reading, timer, closing,
                         ioc, nodeState, current>>
      BY <1>6 DEF Heartbeat, UpdateAddr, OtherRequest, Take
    <2>2. \/ writer' = writer
          \/ \E ns \in SUBSET Nodes, own \in SUBSET {s} :
               writer' = Queue(writer, own \union SessionsOf(ns, current))
      <3>1. CASE Heartbeat(s)
        <4>1. {s} \union SessionsOf({}, current) = {s}
          BY DEF SessionsOf
        <4> QED BY <3>1, <4>1 DEF Heartbeat
      <3>2. CASE UpdateAddr(s)
        BY <3>2 DEF UpdateAddr, NetworkNodes
      <3>3. CASE OtherRequest(s)
        <4>1. PICK ns \in SUBSET Nodes, answered \in BOOLEAN :
                writer' = Queue(writer, SessionsOf(ns, current)
                                  \union IF answered THEN {s} ELSE {})
          BY <3>3 DEF OtherRequest
        <4> DEFINE own == IF answered THEN {s} ELSE {}
        <4>2. own \in SUBSET {s}
          OBVIOUS
        <4>3. SessionsOf(ns, current) \union own
                = own \union SessionsOf(ns, current)
          OBVIOUS
        <4> HIDE DEF own
        <4>4. writer' = Queue(writer, own \union SessionsOf(ns, current))
          BY <4>1, <4>3 DEF own
        <4> QED BY <4>2, <4>4
      <3> QED BY <1>6, <3>1, <3>2, <3>3
    <2>3. \A r \in Sessions : writer'[r] = "busy" => authed[r]
      <3>1. CASE writer' = writer
        BY <3>1 DEF IInv, Accepted
      <3>2. ASSUME NEW ns \in SUBSET Nodes, NEW own \in SUBSET {s},
                   writer' = Queue(writer, own \union SessionsOf(ns, current))
            PROVE  \A r \in Sessions : writer'[r] = "busy" => authed[r]
        BY <2>1, <3>2, QueueCurrent
      <3> QED BY <2>2, <3>1, <3>2
    <2>4. Accepted'
      BY <2>1, <2>3 DEF IInv, Accepted
    <2>5. OnlineIffRegistered' /\ CurrentIsGenuine'
      BY <2>1, QuietStep
    <2> QED BY <1>t, <2>4, <2>5 DEF IInv
  <1>9. ASSUME NEW s \in Sessions, NEW wr,
               wr \in {writer, [writer EXCEPT ![s] = "stuck"]},
               Disconnected(owner[s], wr) \/ UNCHANGED <<nodeVars, writer>>
                 \/ (writer' = wr /\ UNCHANGED nodeVars),
               owner[s] \in Nodes, link[s] # "idle",
               UNCHANGED <<link, owner, authed, stale, ioc>>,
               \A r \in Sessions : /\ reading'[r] => reading[r]
                                   /\ timer'[r] => timer[r]
                                   /\ closing'[r] => closing[r] \/ r = s
        PROVE  IInv'
    <2>1. /\ wr \in [Sessions -> {"free", "busy", "stuck"}]
          /\ \A r \in Sessions : wr[r] = "busy" => authed[r]
      BY <1>9 DEF IInv, Accepted, TypeOK
    <2>2. /\ OnlineIffRegistered' /\ CurrentIsGenuine'
          /\ \A r \in Sessions : writer'[r] = "busy" => authed[r]
      <3>1. CASE Disconnected(owner[s], wr)
        BY <1>9, <2>1, <3>1, DisconnectStep, DisconnectedEffect
      <3>2. CASE ~Disconnected(owner[s], wr)
        BY <1>9, <2>1, <3>2, QuietStep DEF IInv, Accepted
      <3> QED BY <3>1, <3>2
    <2>3. Accepted'
      BY <1>9, <2>2 DEF IInv, Accepted, TypeOK
    <2> QED BY <1>t, <2>2, <2>3 DEF IInv
  <1>10. ASSUME NEW s \in Sessions, ReadError(s) PROVE IInv'
    <2>1. owner[s] \in Nodes /\ link[s] # "idle"
      BY <1>10 DEF ReadError, IInv, Accepted
    <2> QED BY <1>9, <1>10, <2>1 DEF ReadError, IInv, TypeOK
  <1>11. ASSUME NEW s \in Sessions, WriteError(s) PROVE IInv'
    <2>1. owner[s] \in Nodes /\ link[s] # "idle"
      BY <1>11 DEF WriteError, IInv, Accepted
    <2> QED BY <1>9, <1>11, <2>1 DEF WriteError, IInv, TypeOK
  <1>12. ASSUME NEW s \in Sessions, HeartbeatExpired(s) PROVE IInv'
    <2>1. owner[s] \in Nodes /\ link[s] # "idle"
      BY <1>12 DEF HeartbeatExpired, IInv, Accepted
    <2> QED BY <1>9, <1>12, <2>1 DEF HeartbeatExpired, IInv, TypeOK
  <1>13. ASSUME NEW s \in Sessions, WriteDone(s) \/ BeginClose(s) \/ EndClose(s)
         PROVE  IInv'
    <2>1. OnlineIffRegistered' /\ CurrentIsGenuine'
      BY <1>13, QuietStep DEF WriteDone, BeginClose, EndClose
    <2>2. Accepted'
      BY <1>13, SessionsAssumption
         DEF WriteDone, BeginClose, EndClose, IInv, Accepted, TypeOK
    <2> QED BY <1>t, <2>1, <2>2 DEF IInv
  <1>15. ASSUME MonitorCheck PROVE IInv'
    <2>1. PICK first \in TimedOut :
            /\ nodeState' = [n \in Nodes |-> IF n \in TimedOut THEN "absent"
                                             ELSE nodeState[n]]
            /\ current' = [n \in Nodes |-> IF n \in TimedOut THEN NoSession
                                           ELSE current[n]]
            /\ writer' = Queue(writer, SessionsOf(
                           Audience(first, current, nodeState), current))
      BY <1>15 DEF MonitorCheck
    <2>2. UNCHANGED <<link, owner, authed, stale, reading, timer, closing, ioc>>
      BY <1>15 DEF MonitorCheck
    <2>3. \A r \in Sessions : writer'[r] = "busy" => authed[r]
      <3> DEFINE ns == Audience(first, current, nodeState)
      <3>1. ns \in SUBSET Nodes
        BY DEF Audience
      <3>2. writer' = Queue(writer, {} \union SessionsOf(ns, current))
        BY <2>1
      <3> HIDE DEF ns
      <3> QED BY <3>1, <3>2, QueueCurrent
    <2>4. Accepted'
      BY <2>2, <2>3 DEF IInv, Accepted
    <2>5. OnlineIffRegistered'
      BY <2>1 DEF IInv, OnlineIffRegistered, TypeOK
    <2>6. CurrentIsGenuine'
      BY <2>1, <2>2 DEF IInv, CurrentIsGenuine, TypeOK
    <2> QED BY <1>t, <2>4, <2>5, <2>6 DEF IInv
  <1>16. ASSUME Tick PROVE IInv'
    <2>1. OnlineIffRegistered' /\ CurrentIsGenuine'
      BY <1>16, QuietStep DEF Tick
    <2>2. Accepted'
      BY <1>16 DEF Tick, IInv, Accepted
    <2> QED BY <1>t, <2>1, <2>2 DEF IInv
  <1>17. CASE UNCHANGED vars
    <2>1. OnlineIffRegistered' /\ CurrentIsGenuine'
      BY <1>17, QuietStep DEF vars
    <2>2. Accepted'
      BY <1>17 DEF vars, IInv, Accepted
    <2> QED BY <1>t, <2>1, <2>2 DEF IInv
  <1> QED BY <1>1, <1>2, <1>3, <1>5, <1>6, <1>10, <1>11, <1>12, <1>13,
             <1>15, <1>16, <1>17 DEF Next

\* The inductive invariant holds throughout.
LEMMA Invariance == Spec => []IInv
  BY InvInit, InvStep, PTL DEF Spec

\* Every variable of the session lifecycle keeps its type.
THEOREM TypeCorrect == Spec => []TypeOK
  <1>1. IInv => TypeOK
    BY DEF IInv
  <1> QED BY <1>1, Invariance, PTL

\* NodeRegistry and SessionManager never disagree about who is online.
THEOREM MapsAgree == Spec => []OnlineIffRegistered
  <1>1. IInv => OnlineIffRegistered
    BY DEF IInv
  <1> QED BY <1>1, Invariance, PTL

\* The session registered for a node is an authenticated session of that node
\* which no later one has replaced.
THEOREM RegisteredSessionGenuine == Spec => []CurrentIsGenuine
  <1>1. IInv => CurrentIsGenuine
    BY DEF IInv
  <1> QED BY <1>1, Invariance, PTL


-----------------------------------------------------------------------------
(* What a step may do to the place of a node *)

\* Steps other than these leave the two maps, the networks, the peer lists and
\* the authenticated sessions be, and set no node offline in the database.
LEMMA PlaceChanges ==
  ASSUME IInv, [Next]_vars
  PROVE  \/ /\ UNCHANGED <<nodeState, current, authed>>
            /\ UNCHANGED <<nodeNet, peers>>
            /\ \A n \in Nodes : dbOnline[n] => dbOnline'[n]
         \/ \E s \in Sessions : Authenticate(s)
         \/ /\ UNCHANGED authed
            /\ \E n \in Nodes, wr \in [Sessions -> {"free", "busy", "stuck"}] :
                 /\ \A s \in Sessions : wr[s] = "busy" => authed[s]
                 /\ Disconnected(n, wr)
         \/ MonitorCheck
  <1> USE DEF connVars, sessVars, nodeVars
  <1> DEFINE Gone == \E n \in Nodes, wr \in [Sessions -> {"free", "busy", "stuck"}] :
                       /\ \A s \in Sessions : wr[s] = "busy" => authed[s]
                       /\ Disconnected(n, wr)
             Still == /\ UNCHANGED <<nodeState, current>>
                      /\ UNCHANGED <<nodeNet, peers>>
                      /\ \A n \in Nodes : dbOnline[n] => dbOnline'[n]
  <1>0. \A s \in Sessions : link[s] # "idle" => owner[s] \in Nodes
    BY DEF IInv, Accepted
  <1>w. \A s \in Sessions : \A wr \in {writer, [writer EXCEPT ![s] = "stuck"]} :
          /\ wr \in [Sessions -> {"free", "busy", "stuck"}]
          /\ \A r \in Sessions : wr[r] = "busy" => authed[r]
    BY DEF IInv, Accepted, TypeOK
  <1>1. ASSUME NEW s \in Sessions, ReadError(s)
        PROVE  UNCHANGED authed /\ (Still \/ Gone)
    <2>1. owner[s] \in Nodes
      BY <1>0, <1>1 DEF ReadError
    <2>2. \/ Still
          \/ Disconnected(owner[s], [writer EXCEPT ![s] = "stuck"])
      BY <1>1 DEF ReadError
    <2>3. UNCHANGED authed
      BY <1>1 DEF ReadError
    <2> QED BY <1>w, <2>1, <2>2, <2>3
  <1>2. ASSUME NEW s \in Sessions, WriteError(s)
        PROVE  UNCHANGED authed /\ Gone
    <2>1. owner[s] \in Nodes
      BY <1>0, <1>2 DEF WriteError
    <2>2. Disconnected(owner[s], [writer EXCEPT ![s] = "stuck"])
      BY <1>2 DEF WriteError
    <2>3. UNCHANGED authed
      BY <1>2 DEF WriteError
    <2> QED BY <1>w, <2>1, <2>2, <2>3
  <1>3. ASSUME NEW s \in Sessions, HeartbeatExpired(s)
        PROVE  UNCHANGED authed /\ (Still \/ Gone)
    <2>1. owner[s] \in Nodes
      BY <1>3 DEF HeartbeatExpired, IInv, Accepted
    <2>2. \/ Still
          \/ Disconnected(owner[s], writer)
      BY <1>3 DEF HeartbeatExpired
    <2>3. UNCHANGED authed
      BY <1>3 DEF HeartbeatExpired
    <2> QED BY <1>w, <2>1, <2>2, <2>3
  <1>4. ASSUME NEW s \in Sessions, Heartbeat(s)
        PROVE  UNCHANGED authed /\ Still
    BY <1>4 DEF Heartbeat, IInv, TypeOK
  <1> HIDE DEF Gone
  <1>5. \/ UNCHANGED authed /\ Still
        \/ \E s \in Sessions : Authenticate(s)
        \/ UNCHANGED authed /\ Gone
        \/ MonitorCheck
    BY <1>1, <1>2, <1>3, <1>4
       DEF Next, vars, Open, Send, Hangup, Vanish, TcpFail, UpdateAddr,
           OtherRequest, WriteDone, BeginClose, EndClose, Tick
  <1> QED BY <1>5 DEF Gone

\* Over plain WebSocket, a connected session keeps the place of its node until
\* the node was silent for the timeout or authenticates anew.
THEOREM PlaceKept == Spec => LiveSessionKept
  <1>1. ASSUME IInv, [Next]_vars, ~tls, NEW n \in Nodes
        PROVE  KeepsPlace(n)
    <2>1. CASE UNCHANGED <<nodeState, current, authed>>
      BY <2>1 DEF KeepsPlace
    <2>2. ASSUME NEW s \in Sessions, Authenticate(s)
          PROVE  KeepsPlace(n)
      <3>1. owner[s] \in Nodes /\ ~authed[s] /\ Registered(s)
        BY <1>1, <2>2 DEF Authenticate, Take, IInv, Accepted
      <3>2. current' = [current EXCEPT ![owner[s]] = s]
        BY <1>1, <3>1, RegisteredEffect
      <3>3. authed' = [authed EXCEPT ![s] = TRUE]
        BY <2>2 DEF Authenticate
      <3>4. authed'[s] /\ s # NoSession
        BY <1>1, <3>3, SessionsAssumption DEF IInv, TypeOK
      <3>5. current'[n] = current[n] \/ current'[n] = s
        BY <1>1, <3>2 DEF IInv, TypeOK
      <3> QED BY <3>1, <3>4, <3>5 DEF KeepsPlace
    <2>3. ASSUME NEW m \in Nodes,
                 NEW wr \in [Sessions -> {"free", "busy", "stuck"}],
                 \A s \in Sessions : wr[s] = "busy" => authed[s],
                 Disconnected(m, wr)
          PROVE  KeepsPlace(n)
      <3>1. \/ UNCHANGED <<nodeState, current>>
            \/ /\ current' = [current EXCEPT ![m] = NoSession]
               /\ current[m] = NoSession
        BY <1>1, <2>3, DisconnectedEffect
      <3> QED BY <1>1, <3>1 DEF KeepsPlace, IInv, TypeOK
    <2>4. CASE MonitorCheck
      <3>1. current'[n] = IF n \in TimedOut THEN NoSession ELSE current[n]
        BY <1>1, <2>4 DEF MonitorCheck
      <3> QED BY <3>1 DEF KeepsPlace, TimedOut
    <2> QED BY <1>1, <2>1, <2>2, <2>3, <2>4, PlaceChanges
  <1>2. IInv /\ [Next]_vars => [~tls => \A n \in Nodes : KeepsPlace(n)]_vars
    BY <1>1
  <1> QED BY <1>2, Invariance, PTL DEF Spec, LiveSessionKept

\* Over TLS, the failure of the stream of a registered session takes its place in
\* that very step, and leaves its node in grace if it was online.
THEOREM GraceOnDisconnect == Spec => DisconnectEntersGrace
  <1> USE DEF connVars, sessVars, nodeVars
  <1>1. ASSUME IInv, [Next]_vars, tls, NEW s \in Sessions
        PROVE  EndsInGrace(s)
    <2> SUFFICES ASSUME reading[s], ~reading'[s], ioc # s,
                        owner[s] \in Nodes, current[owner[s]] = s
                 PROVE  /\ current'[owner[s]] = NoSession
                        /\ nodeState'[owner[s]] # "online"
      BY DEF EndsInGrace
    <2>1. authed[s] /\ ~stale[s]
      BY <1>1, SessionsAssumption DEF IInv, CurrentIsGenuine
    <2>2. ReadError(s) \/ WriteError(s)
      <3>1. reading \in [Sessions -> BOOLEAN]
        BY <1>1 DEF IInv, TypeOK
      <3>2. ASSUME NEW r \in Sessions, NEW n \in Nodes, NEW w \in Networks,
                   Open(r, n, w)
            PROVE  FALSE
        BY <3>1, <3>2 DEF Open
      <3>3. ASSUME NEW r \in Sessions, ReadError(r) \/ WriteError(r)
            PROVE  r = s
        BY <3>1, <3>3 DEF ReadError, WriteError
      <3>4. ASSUME NEW r \in Sessions, EndClose(r)
            PROVE  FALSE
        BY <3>1, <3>4 DEF EndClose
      <3>5. reading' # reading
        OBVIOUS
      <3>6. \/ \E r \in Sessions, n \in Nodes, w \in Networks : Open(r, n, w)
            \/ \E r \in Sessions : ReadError(r) \/ WriteError(r)
            \/ \E r \in Sessions : EndClose(r)
        BY <1>1, <3>5
           DEF Next, vars, Send, Hangup, Vanish, TcpFail, Authenticate, Take,
               Heartbeat, UpdateAddr, OtherRequest, WriteDone, HeartbeatExpired,
               BeginClose, MonitorCheck, Tick
      <3> QED BY <3>2, <3>3, <3>4, <3>6
    <2>3. Disconnected(owner[s], [writer EXCEPT ![s] = "stuck"])
      BY <2>1, <2>2 DEF ReadError, WriteError
    <2>4. /\ current' = [current EXCEPT ![owner[s]] = NoSession]
          /\ \/ nodeState[owner[s]] = "absent" /\ nodeState' = nodeState
             \/ nodeState' = [nodeState EXCEPT ![owner[s]] = "grace"]
      BY <1>1, <2>3 DEF Disconnected, Evict
    <2> QED BY <1>1, <2>4 DEF IInv, TypeOK
  <1>2. IInv /\ [Next]_vars => [tls => \A s \in Sessions : EndsInGrace(s)]_vars
    BY <1>1
  <1> QED BY <1>2, Invariance, PTL DEF Spec, DisconnectEntersGrace

-----------------------------------------------------------------------------
(* The database and the peer lists follow the maps *)

\* What the disconnect handler does, when it does anything, to the database and
\* to the lists sent: nobody but its node goes offline, and when that node was
\* listed every other session is sent the list of who is left.
LEMMA DisconnectedLists ==
  ASSUME IInv, NEW n \in Nodes,
         NEW wr \in [Sessions -> {"free", "busy", "stuck"}],
         Disconnected(n, wr)
  PROVE  \/ UNCHANGED <<nodeState, nodeNet, current, peers, dbOnline>>
         \/ /\ UNCHANGED nodeNet
            /\ current'[n] = NoSession
            /\ \A m \in Nodes \ {n} : dbOnline'[m] = dbOnline[m]
            /\ \/ /\ UNCHANGED <<nodeState, current>>
                  /\ \A m \in Nodes \ {n} : peers'[m] = peers[m]
               \/ \A m \in Nodes \ {n} : current'[m] # NoSession =>
                    peers'[m] = NetworkNodes(nodeState', nodeNet, nodeNet[n]) \ {n}
            /\ nodeState'[n] # "online"
            /\ \A m \in Nodes \ {n} : /\ nodeState'[m] = nodeState[m]
                                      /\ current'[m] = current[m]
  <1>1. CASE ~tls /\ current[n] # NoSession
    BY <1>1 DEF Disconnected, nodeVars
  <1>2. CASE ~(~tls /\ current[n] # NoSession)
    <2> DEFINE state == IF nodeState[n] = "absent" THEN nodeState
                        ELSE [nodeState EXCEPT ![n] = "grace"]
               cur == [current EXCEPT ![n] = NoSession]
               list == NetworkNodes(state, nodeNet, nodeNet[n]) \ {n}
    <2>1. /\ nodeState' = state
          /\ current' = cur
          /\ dbOnline' = [dbOnline EXCEPT ![n] = FALSE]
          /\ UNCHANGED nodeNet
          /\ IF state[n] = "absent" THEN peers' = [peers EXCEPT ![n] = {}]
             ELSE Broadcast(n, cur, state, wr, list)
      BY <1>2 DEF Disconnected, Evict
    <2>2. /\ current'[n] = NoSession
          /\ nodeState'[n] # "online"
          /\ \A m \in Nodes \ {n} : /\ nodeState'[m] = nodeState[m]
                                    /\ current'[m] = current[m]
                                    /\ dbOnline'[m] = dbOnline[m]
      BY <2>1 DEF IInv, TypeOK
    <2>3. CASE nodeState[n] = "absent"
      <3>1. current[n] = NoSession
        BY <2>3 DEF IInv, OnlineIffRegistered
      <3>2. UNCHANGED <<nodeState, current>>
        BY <2>1, <2>3, <3>1 DEF IInv, TypeOK
      <3>3. \A m \in Nodes \ {n} : peers'[m] = peers[m]
        BY <2>1, <2>3 DEF IInv, TypeOK
      <3> QED BY <2>1, <2>2, <3>2, <3>3
    <2>4. CASE nodeState[n] # "absent"
      <3>1. state[n] # "absent"
        BY <2>4 DEF IInv, TypeOK
      <3>2. Broadcast(n, cur, state, wr, list)
        BY <2>1, <3>1
      <3>3. ASSUME NEW m \in Nodes \ {n}, current'[m] # NoSession
            PROVE  peers'[m] = list
        <4>1. state[m] = "online" /\ cur[m] # NoSession
          BY <2>1, <2>2, <3>3 DEF IInv, OnlineIffRegistered
        <4>2. m \in Audience(n, cur, state)
          BY <4>1 DEF Audience
        <4> HIDE DEF state, cur, list
        <4> QED BY <3>2, <4>2 DEF Broadcast
      <3> QED BY <2>1, <2>2, <3>3
    <2> QED BY <2>3, <2>4
  <1> QED BY <1>1, <1>2

\* The part of the invariant about the database: registering writes online, and
\* nothing writes offline without taking the session.
LEMMA OnlineInDbStep ==
  ASSUME IInv, RegisteredIsDbOnline, [Next]_vars
  PROVE  RegisteredIsDbOnline'
  <1> SUFFICES ASSUME NEW n \in Nodes, current'[n] # NoSession
               PROVE  dbOnline'[n]
    BY DEF RegisteredIsDbOnline
  <1>1. CASE UNCHANGED current /\ \A m \in Nodes : dbOnline[m] => dbOnline'[m]
    BY <1>1 DEF RegisteredIsDbOnline
  <1>2. ASSUME NEW s \in Sessions, Authenticate(s)
        PROVE  dbOnline'[n]
    <2>1. /\ dbOnline' = [dbOnline EXCEPT ![owner[s]] = TRUE]
          /\ current' = [current EXCEPT ![owner[s]] = s]
      BY <1>2 DEF Authenticate, Registered
    <2> QED BY <2>1 DEF IInv, TypeOK, RegisteredIsDbOnline
  <1>3. ASSUME NEW m \in Nodes,
               NEW wr \in [Sessions -> {"free", "busy", "stuck"}],
               Disconnected(m, wr)
        PROVE  dbOnline'[n]
    BY <1>3, DisconnectedLists DEF RegisteredIsDbOnline
  <1>4. CASE MonitorCheck
    <2>1. /\ current'[n] = IF n \in TimedOut THEN NoSession ELSE current[n]
          /\ dbOnline'[n] = (dbOnline[n] /\ n \notin TimedOut)
      BY <1>4 DEF MonitorCheck
    <2> QED BY <2>1 DEF RegisteredIsDbOnline
  <1> QED BY <1>1, <1>2, <1>3, <1>4, PlaceChanges

\* A node with a registered session is online in the database: a set_offline of
\* an earlier session or of the monitor never outlives a re-authentication.
THEOREM RegisteredOnlineInDb == Spec => []RegisteredIsDbOnline
  <1>1. Init => RegisteredIsDbOnline
    BY DEF Init, RegisteredIsDbOnline
  <1>2. IInv /\ RegisteredIsDbOnline /\ [Next]_vars => RegisteredIsDbOnline'
    BY OnlineInDbStep
  <1> QED BY <1>1, <1>2, Invariance, PTL DEF Spec

\* The registry holds one network: the broadcasts of the server do not
\* distinguish networks, and with two of them the lists are not exact.
OneNetwork == \A v, w \in Networks : v = w

\* With one network, its online nodes are all the online nodes.
LEMMA OneNetworkNodes ==
  ASSUME OneNetwork, NEW state, NEW net \in [Nodes -> Networks],
         NEW w \in Networks
  PROVE  NetworkNodes(state, net, w) = {m \in Nodes : state[m] = "online"}
  BY DEF OneNetwork, NetworkNodes

\* A step that changes who is online sends the new list to every session that is
\* registered after it.
LEMMA PeerListStep ==
  ASSUME OneNetwork, IInv, IInv', PeerListExact, [Next]_vars
  PROVE  PeerListExact'
  <1> DEFINE Online == {m \in Nodes : nodeState[m] = "online"}
             Online1 == {m \in Nodes : nodeState'[m] = "online"}
  <1>a. ASSUME NEW n \in Nodes, current[n] # NoSession
        PROVE  peers[n] \ {n} = Online \ {n}
    <2>1. nodeNet \in [Nodes -> Networks] /\ nodeNet[n] \in Networks
      BY DEF IInv, TypeOK
    <2>2. NetworkNodes(nodeState, nodeNet, nodeNet[n]) = Online
      BY <2>1, OneNetworkNodes
    <2> QED BY <1>a, <2>2 DEF PeerListExact
  <1> SUFFICES ASSUME NEW n \in Nodes, current'[n] # NoSession
               PROVE  peers'[n] \ {n} = Online1 \ {n}
    <2>1. nodeNet' \in [Nodes -> Networks]
      BY DEF IInv, TypeOK
    <2>2. \A m \in Nodes :
            {k \in Nodes : nodeState'[k] = "online" /\ nodeNet'[k] = nodeNet'[m]}
              = Online1
      BY <2>1 DEF OneNetwork
    <2> QED BY <2>2 DEF PeerListExact, NetworkNodes
  <1>1. CASE UNCHANGED <<nodeState, current, peers>>
    BY <1>1, <1>a
  <1>2. ASSUME NEW s \in Sessions, Authenticate(s)
        PROVE  peers'[n] \ {n} = Online1 \ {n}
    <2> DEFINE o == owner[s]
               state == [nodeState EXCEPT ![o] = "online"]
               net == [nodeNet EXCEPT ![o] = home[s]]
               cur == [current EXCEPT ![o] = s]
               online == NetworkNodes(state, net, home[s])
    <2>1. o \in Nodes /\ Registered(s)
      BY <1>2 DEF Authenticate, Take, IInv, Accepted
    <2>2. /\ nodeState' = state /\ nodeNet' = net /\ current' = cur
          /\ peers' = [m \in Nodes |->
               IF m = o THEN online \ {o}
               ELSE IF m \in Audience(o, cur, state) THEN online ELSE peers[m]]
      BY <2>1 DEF Registered
    <2>3. online = Online1
      <3>1. net \in [Nodes -> Networks] /\ home[s] \in Networks
        BY DEF IInv, TypeOK
      <3>2. online = {m \in Nodes : state[m] = "online"}
        <4> HIDE DEF net, state
        <4> QED BY <3>1, OneNetworkNodes
      <3> QED BY <2>2, <3>2
    <2>4. n # o => n \in Audience(o, cur, state)
      <3>1. state[n] = "online" /\ cur[n] # NoSession
        BY <2>2 DEF IInv, OnlineIffRegistered
      <3> QED BY <3>1 DEF Audience
    <2>5. peers'[n] = online \/ peers'[n] = online \ {n}
      <3> HIDE DEF o, state, cur, online
      <3> QED BY <2>2, <2>4
    <2> HIDE DEF online, Online1
    <2> QED BY <2>3, <2>5
  <1>3. ASSUME NEW m \in Nodes,
               NEW wr \in [Sessions -> {"free", "busy", "stuck"}],
               Disconnected(m, wr)
        PROVE  peers'[n] \ {n} = Online1 \ {n}
    <2>1. CASE UNCHANGED <<nodeState, current, peers>>
      BY <2>1, <1>1
    <2>2. CASE ~UNCHANGED <<nodeState, current, peers>>
      <3>1. n # m /\ nodeState'[m] # "online"
        BY <1>3, <2>2, DisconnectedLists
      <3>2. CASE UNCHANGED <<nodeState, current>> /\ peers'[n] = peers[n]
        BY <3>2, <1>a
      <3>3. CASE peers'[n] = NetworkNodes(nodeState', nodeNet, nodeNet[m]) \ {m}
        <4>1. NetworkNodes(nodeState', nodeNet, nodeNet[m]) = Online1
          <5>1. nodeNet \in [Nodes -> Networks] /\ nodeNet[m] \in Networks
            BY DEF IInv, TypeOK
          <5> QED BY <5>1, OneNetworkNodes
        <4>2. m \notin Online1
          BY <3>1
        <4>3. peers'[n] = Online1 \ {m}
          BY <3>3, <4>1
        <4> QED BY <4>2, <4>3
      <3> QED BY <1>3, <2>2, <3>1, <3>2, <3>3, DisconnectedLists
    <2> QED BY <2>1, <2>2
  <1>4. CASE MonitorCheck
    <2> DEFINE state == [m \in Nodes |-> IF m \in TimedOut THEN "absent"
                                         ELSE nodeState[m]]
    <2>1. PICK first \in TimedOut, last \in TimedOut :
            /\ nodeState' = state
            /\ current' = [m \in Nodes |-> IF m \in TimedOut THEN NoSession
                                           ELSE current[m]]
            /\ peers' = [m \in Nodes |->
                 IF m \in TimedOut THEN {}
                 ELSE IF m \in {k \in Audience(first, current, nodeState) :
                                  state[k] = "online"}
                 THEN NetworkNodes(state, nodeNet, nodeNet[last]) ELSE peers[m]]
      BY <1>4 DEF MonitorCheck
    <2>2. n \notin TimedOut /\ current[n] # NoSession
      BY <2>1
    <2>3. nodeState[n] = "online" /\ state[n] = "online"
      BY <2>2 DEF IInv, OnlineIffRegistered
    <2>4. n \in Audience(first, current, nodeState)
      BY <2>2, <2>3 DEF Audience
    <2>5. peers'[n] = NetworkNodes(state, nodeNet, nodeNet[last])
      <3> HIDE DEF state
      <3> QED BY <2>1, <2>2, <2>3, <2>4
    <2>6. last \in Nodes
      BY DEF TimedOut
    <2>7. NetworkNodes(nodeState', nodeNet, nodeNet[last]) = Online1
      <3>1. nodeNet \in [Nodes -> Networks] /\ nodeNet[last] \in Networks
        BY <2>6 DEF IInv, TypeOK
      <3> QED BY <3>1, OneNetworkNodes
    <2> QED BY <2>1, <2>5, <2>7
  <1>5. \/ nodeState' = nodeState /\ current' = current /\ peers' = peers
        \/ \E s \in Sessions : Authenticate(s)
        \/ \E m \in Nodes, wr \in [Sessions -> {"free", "busy", "stuck"}] :
             Disconnected(m, wr)
        \/ MonitorCheck
    BY PlaceChanges
  <1> HIDE DEF Online, Online1
  <1> QED BY <1>1, <1>2, <1>3, <1>4, <1>5

\* With one network, the last peer list a registered node was sent names exactly
\* the other nodes online now, whoever came, left or expired, in whatever order.
THEOREM PeerListsExact == OneNetwork => (Spec => []PeerListExact)
  <1> SUFFICES ASSUME OneNetwork PROVE Spec => []PeerListExact
    OBVIOUS
  <1>1. Init => PeerListExact
    BY DEF Init, PeerListExact
  <1>2. IInv /\ IInv' /\ PeerListExact /\ [Next]_vars => PeerListExact'
    BY PeerListStep
  <1> QED BY <1>1, <1>2, Invariance, PTL DEF Spec

-----------------------------------------------------------------------------
(* The server implements Presence *)

\* Every step is a step of Presence or leaves it unchanged.
LEMMA PresenceStep ==
  ASSUME IInv, [Next]_vars
  PROVE  [Abstract!Next]_(Abstract!vars)
  <1> DEFINE spent == {s \in Sessions : authed[s]}
  <1>1. CASE UNCHANGED <<nodeState, current, authed>>
    BY <1>1 DEF Abstract!vars
  <1>2. ASSUME NEW s \in Sessions, Authenticate(s)
        PROVE  Abstract!Next
    <2>1. owner[s] \in Nodes /\ ~authed[s] /\ Registered(s)
      BY <1>2 DEF Authenticate, Take, IInv, Accepted
    <2>2. authed' = [authed EXCEPT ![s] = TRUE]
      BY <1>2 DEF Authenticate
    <2>3. s \notin spent /\ spent' = spent \union {s}
      BY <2>1, <2>2 DEF IInv, TypeOK
    <2>4. /\ nodeState' = [nodeState EXCEPT ![owner[s]] = "online"]
          /\ current' = [current EXCEPT ![owner[s]] = s]
      BY <2>1, RegisteredEffect
    <2>5. Abstract!Arrive(owner[s], s)
      BY <2>3, <2>4 DEF Abstract!Arrive
    <2> QED BY <2>1, <2>5 DEF Abstract!Next
  <1>3. ASSUME UNCHANGED authed, NEW n \in Nodes,
               NEW wr \in [Sessions -> {"free", "busy", "stuck"}],
               \A s \in Sessions : wr[s] = "busy" => authed[s],
               Disconnected(n, wr)
        PROVE  [Abstract!Next]_(Abstract!vars)
    <2>1. spent' = spent
      BY <1>3
    <2>2. \/ UNCHANGED <<nodeState, current>>
          \/ /\ current' = [current EXCEPT ![n] = NoSession]
             /\ nodeState' = IF nodeState[n] = "absent" THEN nodeState
                             ELSE [nodeState EXCEPT ![n] = "grace"]
      BY <1>3, DisconnectedEffect
    <2>3. CASE nodeState[n] = "online"
      <3>1. UNCHANGED <<nodeState, current>> \/ Abstract!Leave(n)
        BY <2>1, <2>2, <2>3 DEF Abstract!Leave
      <3> QED BY <2>1, <3>1 DEF Abstract!Next, Abstract!vars
    <2>4. CASE nodeState[n] # "online"
      <3>1. UNCHANGED <<nodeState, current>>
        BY <2>2, <2>4 DEF IInv, TypeOK, OnlineIffRegistered
      <3> QED BY <2>1, <3>1 DEF Abstract!vars
    <2> QED BY <2>3, <2>4
  <1>4. CASE MonitorCheck
    <2>1. /\ TimedOut # {} /\ TimedOut \in SUBSET Nodes
          /\ \A n \in TimedOut : nodeState[n] # "absent"
          /\ nodeState' = [n \in Nodes |-> IF n \in TimedOut THEN "absent"
                                           ELSE nodeState[n]]
          /\ current' = [n \in Nodes |-> IF n \in TimedOut THEN NoSession
                                         ELSE current[n]]
          /\ UNCHANGED authed
      BY <1>4 DEF MonitorCheck, TimedOut, sessVars
    <2>2. Abstract!Forget(TimedOut)
      BY <2>1 DEF Abstract!Forget
    <2> QED BY <2>1, <2>2 DEF Abstract!Next
  <1> QED BY <1>1, <1>2, <1>3, <1>4, PlaceChanges

\* The server implements Presence: every change of the registry and the session
\* map is an arrival, a departure or an expiry, and no session returns.
THEOREM PresenceImplemented == Spec => ImplementsPresence
  <1>1. Init => Abstract!Init
    BY DEF Init, Abstract!Init
  <1>2. IInv /\ [Next]_vars => [Abstract!Next]_(Abstract!vars)
    BY PresenceStep
  <1> QED BY <1>1, <1>2, Invariance, PTL DEF Spec, ImplementsPresence, Abstract!Spec
=============================================================================
