---------------------------- MODULE RelayProofs ----------------------------
(***************************************************************************)
(* Theorems about the relay server: typing, and that the entry of a silent *)
(* node goes in time, for any number of nodes, networks and sockets and    *)
(* any of the four intervals.                                              *)
(***************************************************************************)
EXTENDS Relay, TLAPS

\* A heartbeat timer, a punching timeout, and both timers of the server are at
\* least one tick.
LEMMA Intervals ==
  /\ Beat \in Nat /\ Punch \in Nat /\ Timeout \in Nat /\ Interval \in Nat
  /\ Beat > 0 /\ Punch > 0 /\ Timeout > 0 /\ Interval > 0
BY RelayAssumption

\* The fields of a datagram that a handler of its kind reads.
LEMMA DatagramFields ==
  ASSUME NEW d \in Datagrams
  PROVE  /\ d.from \in Nodes
         /\ d.kind = "register" => d.at \in Nat /\ d.network_id \in Networks
         /\ d.kind = "ok" => d.to \in Nodes
BY DEF Datagrams

\* What the server makes of a register is an entry.
LEMMA RegisteredEntry ==
  ASSUME TypeOK, NEW d \in net, d.kind = "register"
  PROVE  RegisterNode(d) \in Entries /\ RegisterNode(d).idle = 0
<1>1. d.from \in Nodes /\ d.at \in Nat /\ d.network_id \in Networks
  BY DatagramFields DEF TypeOK
<1>2. CASE nodes[d.from] = None
  BY <1>1, <1>2 DEF RegisterNode, Entries
<1>3. CASE nodes[d.from] # None
  <2>1. nodes[d.from] \in Entries
    BY <1>1, <1>3 DEF TypeOK
  <2> QED
    BY <1>1, <1>3, <2>1 DEF RegisterNode, Entries
<1> QED BY <1>2, <1>3

\* The steps of a client preserve the typing.
LEMMA ClientTyped ==
  ASSUME TypeOK, NEW n \in Nodes,
         \/ EnterRelayMode(n)
         \/ ReenterRelayMode(n)
         \/ SendHeartbeat(n)
         \/ \E m \in Nodes : SendRelayPacket(n, m)
         \/ Repunch(n)
         \/ \E network \in Networks : Restart(n, network)
  PROVE  TypeOK'
<1> USE NoneAssumption, Intervals
<1>1. CASE EnterRelayMode(n)
  <2>1. RegisterMessage(n) \in Datagrams
    BY DEF RegisterMessage, Datagrams, TypeOK
  <2> QED
    BY <1>1, <2>1 DEF EnterRelayMode, TypeOK, Modes, serverVars, historyVars
<1>0. OneMissed(n) \in [Nodes -> Nat \union {None}]
  BY DEF OneMissed, TypeOK
<1>2. CASE SendHeartbeat(n)
  <2>1. [kind |-> "heartbeat", from |-> n, at |-> socket[n]] \in Datagrams
    BY DEF Datagrams, TypeOK
  <2> QED
    BY <1>0, <1>2, <2>1 DEF SendHeartbeat, TypeOK, serverVars
<1>6. CASE ReenterRelayMode(n)
  <2>1. RegisterMessage(n) \in Datagrams
    BY DEF RegisterMessage, Datagrams, TypeOK
  <2> QED
    BY <1>0, <1>6, <2>1 DEF ReenterRelayMode, TypeOK, serverVars
<1>3. ASSUME NEW m \in Nodes, SendRelayPacket(n, m) PROVE TypeOK'
  <2>1. [kind |-> "packet", from |-> n, to |-> m] \in Datagrams
    BY DEF Datagrams
  <2> QED
    BY <1>3, <2>1 DEF SendRelayPacket, TypeOK, serverVars, clientVars, historyVars
<1>4. CASE Repunch(n)
  BY <1>4 DEF Repunch, NewSocket, TypeOK, Modes, serverVars
<1>5. ASSUME NEW network \in Networks, Restart(n, network) PROVE TypeOK'
  BY <1>5 DEF Restart, NewSocket, TypeOK, Modes, serverVars
<1> QED BY <1>1, <1>2, <1>3, <1>4, <1>5, <1>6

\* The receipt of a datagram preserves the typing.
LEMMA DatagramTyped ==
  ASSUME TypeOK, NEW d \in net, Receive(d)
  PROVE  TypeOK'
<1> USE NoneAssumption
<1>0. d \in Datagrams /\ d.from \in Nodes
  BY DatagramFields DEF TypeOK
<1>1. CASE RecvRegisterOk(d)
  BY <1>0, <1>1, DatagramFields DEF RecvRegisterOk, TypeOK, serverVars, historyVars
<1>2. CASE HandleRegister(d)
  <2>1. RegisterNode(d) \in Entries /\ d.at \in Nat
    BY <1>0, <1>2, RegisteredEntry, DatagramFields DEF HandleRegister
  <2>2. [kind |-> "ok", from |-> d.from, to |-> d.from, at |-> d.at] \in Datagrams
    BY <1>0, <2>1 DEF Datagrams
  <2>3. (IF d.at = socket[d.from] THEN 0 ELSE missed[d.from]) \in Nat \union {None}
    BY <1>0 DEF TypeOK
  <2> QED
    BY <1>0, <1>2, <2>1, <2>2, <2>3 DEF HandleRegister, TypeOK, clientVars
<1>3. CASE HandleHeartbeat(d)
  <2>1. [nodes[d.from] EXCEPT !.idle = 0] \in Entries
    BY <1>0, <1>3 DEF HandleHeartbeat, TypeOK, Entries
  <2>2. nodes' = [nodes EXCEPT ![d.from] = [nodes[d.from] EXCEPT !.idle = 0]]
    BY <1>0, <1>3 DEF HandleHeartbeat, TypeOK
  <2> QED
    BY <1>0, <1>3, <2>1, <2>2 DEF HandleHeartbeat, TypeOK, clientVars
<1>4. CASE HandleRelayPacket(d)
  <2>1. d.to \in Nodes
    BY <1>0, <1>4 DEF HandleRelayPacket, Datagrams
  <2>2. nodes[d.to].endpoint \in Nat
    BY <1>4, <2>1 DEF HandleRelayPacket, MayRelay, TypeOK, Entries
  <2>3. [kind |-> "forward", from |-> d.from, to |-> d.to,
         at |-> nodes[d.to].endpoint] \in Datagrams
    BY <1>0, <2>1, <2>2 DEF Datagrams
  <2> QED
    BY <1>4, <2>3 DEF HandleRelayPacket, TypeOK, serverVars, clientVars, historyVars
<1> QED BY <1>1, <1>2, <1>3, <1>4 DEF Receive

\* The server's timer, its restart and the passing of time preserve the typing.
LEMMA ServerTyped ==
  ASSUME TypeOK, DoCleanup \/ ServerRestart \/ Tick
  PROVE  TypeOK'
<1> USE NoneAssumption, Intervals
<1>1. CASE DoCleanup
  BY <1>1 DEF DoCleanup, TypeOK, clientVars
<1>2. CASE ServerRestart
  BY <1>2 DEF ServerRestart, TypeOK, clientVars
<1>3. CASE Tick
  <2>1. \A n \in Nodes : nodes[n] # None => [nodes[n] EXCEPT !.idle = @ + 1] \in Entries
    BY DEF TypeOK, Entries
  <2>2. \A t \in Nat : Countdown(t) \in Nat
    BY DEF Countdown
  <2>3. cleanup' \in Nat
    BY <1>3 DEF Tick, TypeOK
  <2> QED
    BY <1>3, <2>1, <2>2, <2>3 DEF Tick, TypeOK
<1> QED BY <1>1, <1>2, <1>3

\* Type correctness: entries, timers and datagrams stay what their types say,
\* for any number of clients.
THEOREM TypeCorrect == Spec => []TypeOK
<1>1. Init => TypeOK
  BY NoneAssumption, Intervals DEF Init, TypeOK, Modes
<1>2. TypeOK /\ [Next]_vars => TypeOK'
  <2> SUFFICES ASSUME TypeOK, [Next]_vars PROVE TypeOK'
    OBVIOUS
  <2>1. CASE Next
    BY <2>1, ClientTyped, DatagramTyped, ServerTyped DEF Next
  <2>2. CASE UNCHANGED vars
    BY <2>2 DEF vars, TypeOK, serverVars, clientVars, historyVars
  <2> QED BY <2>1, <2>2
<1> QED BY <1>1, <1>2, PTL DEF Spec

-----------------------------------------------------------------------------

\* The age of an entry and the time to the next cleanup together stay below a
\* timeout and an interval: whatever makes one grow takes from the other.
Aged ==
  /\ cleanup <= Interval
  /\ \A n \in Nodes : nodes[n] # None => nodes[n].idle + cleanup < Timeout + Interval

\* A register or a heartbeat makes an entry young, and leaves the others alone.
LEMMA FreshAged ==
  ASSUME TypeOK, Aged, NEW d \in net, HandleRegister(d) \/ HandleHeartbeat(d)
  PROVE  Aged'
<1> USE NoneAssumption, Intervals
<1>1. d.from \in Nodes /\ cleanup \in Nat /\ cleanup' = cleanup
  BY DatagramFields DEF TypeOK, HandleRegister, HandleHeartbeat
<1>2. nodes'[d.from].idle = 0
  <2>1. CASE HandleRegister(d)
    BY <1>1, <2>1, RegisteredEntry DEF HandleRegister, TypeOK
  <2>2. CASE HandleHeartbeat(d)
    BY <1>1, <2>2 DEF HandleHeartbeat, TypeOK, Entries
  <2> QED BY <2>1, <2>2
<1>3. \A n \in Nodes \ {d.from} : nodes'[n] = nodes[n]
  BY <1>1 DEF HandleRegister, HandleHeartbeat, TypeOK
<1>4. cleanup < Timeout + Interval
  BY <1>1 DEF Aged
<1> QED BY <1>1, <1>2, <1>3, <1>4 DEF Aged

\* A cleanup leaves entries younger than the timeout and starts a full interval.
LEMMA CleanupAged ==
  ASSUME TypeOK, Aged, DoCleanup
  PROVE  Aged'
<1> USE NoneAssumption, Intervals
<1>1. \A n \in Nodes : nodes'[n] # None => nodes'[n] = nodes[n] /\ ~Expired(n)
  BY DEF DoCleanup
<1>2. \A n \in Nodes : nodes[n] # None => nodes[n].idle \in Nat
  BY DEF TypeOK, Entries
<1>3. \A n \in Nodes : nodes'[n] # None => nodes'[n].idle < Timeout /\ nodes'[n].idle \in Nat
  BY <1>1, <1>2 DEF Expired
<1> QED BY <1>3 DEF DoCleanup, Aged

\* A tick makes every entry older by what brings the cleanup nearer.
LEMMA TickAged ==
  ASSUME TypeOK, Aged, Tick
  PROVE  Aged'
<1> USE NoneAssumption, Intervals
<1>1. cleanup \in Nat /\ cleanup' = cleanup - 1
  BY DEF TypeOK, Tick
<1>2. ASSUME NEW n \in Nodes, nodes'[n] # None
      PROVE  nodes'[n].idle + cleanup' < Timeout + Interval
  <2>1. nodes[n] \in Entries /\ nodes'[n] = [nodes[n] EXCEPT !.idle = @ + 1]
    BY <1>2 DEF Tick, TypeOK
  <2>2. nodes[n].idle \in Nat /\ nodes'[n].idle = nodes[n].idle + 1
    BY <2>1 DEF Entries
  <2>3. nodes[n].idle + cleanup < Timeout + Interval
    BY <2>1 DEF Aged
  <2> QED BY <1>1, <2>2, <2>3
<1> QED BY <1>1, <1>2 DEF Aged

\* An entry that nobody refreshes is gone within a timeout and one cleanup
\* interval (RelayRegistry::cleanupExpired run by RelayServer::do_cleanup), however
\* registers, heartbeats and restarts fall between the cleanups.
THEOREM SilentNodesForgotten == Spec => []SilentForgotten
<1>1. Init => Aged
  BY Intervals, NoneAssumption DEF Init, Aged
<1>2. TypeOK /\ Aged /\ [Next]_vars => Aged'
  <2> SUFFICES ASSUME TypeOK, Aged, [Next]_vars PROVE Aged'
    OBVIOUS
  <2>1. ASSUME UNCHANGED serverVars PROVE Aged'
    BY <2>1 DEF serverVars, Aged
  <2>2. ASSUME NEW n \in Nodes,
               \/ EnterRelayMode(n)
               \/ ReenterRelayMode(n)
               \/ SendHeartbeat(n)
               \/ \E m \in Nodes : SendRelayPacket(n, m)
               \/ Repunch(n)
               \/ \E network \in Networks : Restart(n, network)
        PROVE  Aged'
    BY <2>1, <2>2 DEF EnterRelayMode, ReenterRelayMode, SendHeartbeat, SendRelayPacket, Repunch,
                      Restart, NewSocket
  <2>3. ASSUME NEW d \in net, Receive(d) PROVE Aged'
    <3>1. CASE HandleRegister(d) \/ HandleHeartbeat(d)
      BY <3>1, FreshAged
    <3>2. CASE RecvRegisterOk(d) \/ HandleRelayPacket(d)
      BY <2>1, <3>2 DEF RecvRegisterOk, HandleRelayPacket
    <3> QED BY <2>3, <3>1, <3>2 DEF Receive
  <2>4. CASE DoCleanup
    BY <2>4, CleanupAged
  <2>5. CASE ServerRestart
    BY <2>5, Intervals DEF ServerRestart, Aged
  <2>6. CASE Tick
    BY <2>6, TickAged
  <2>7. CASE UNCHANGED vars
    BY <2>1, <2>7 DEF vars
  <2> QED BY <2>2, <2>3, <2>4, <2>5, <2>6, <2>7 DEF Next
<1>3. TypeOK /\ Aged => SilentForgotten
  <2> SUFFICES ASSUME TypeOK, Aged, NEW n \in Nodes, nodes[n] # None
      PROVE nodes[n].idle < Timeout + Interval
    BY DEF SilentForgotten
  <2>1. nodes[n].idle \in Nat /\ cleanup \in Nat
    BY DEF TypeOK, Entries
  <2>2. nodes[n].idle + cleanup < Timeout + Interval
    BY DEF Aged
  <2> QED BY <2>1, <2>2, Intervals
<1> QED BY <1>1, <1>2, <1>3, TypeCorrect, PTL DEF Spec

-----------------------------------------------------------------------------

\* A register in flight is of the socket a client in relay mode has, or of an
\* older one, and then no tick has passed since the client left that socket.
RegistersTimely ==
  \A d \in net : d.kind = "register" =>
    /\ d.at <= socket[d.from]
    /\ d.at = socket[d.from] => mode[d.from] = "relay"
    /\ d.at # socket[d.from] => mode[d.from] = "punching" /\ timer[d.from] = Punch

\* The clock of a client in relay mode never shows more than a beat, and the
\* entry of a client that was heard is no older than the heartbeats since.
HeardLately ==
  /\ \A n \in Nodes : mode[n] = "relay" => timer[n] <= Beat
  /\ \A n \in Nodes : missed[n] # None => nodes[n].idle + timer[n] <= (missed[n] + 1) * Beat

Reached == TypeOK /\ RegistersTimely /\ RegisteredIsReachable /\ HeardLately

\* One heartbeat more is one beat more.
LEMMA OneBeatMore ==
  ASSUME NEW k \in Nat
  PROVE  /\ (k + 1) * Beat \in Nat
         /\ ((k + 1) + 1) * Beat = (k + 1) * Beat + Beat
         /\ (0 + 1) * Beat = Beat
BY Intervals

\* The entry and the count of a client in relay mode whose register was taken.
LEMMA HeardFields ==
  ASSUME Reached, NEW n \in Nodes, missed[n] # None
  PROVE  /\ missed[n] \in Nat
         /\ nodes[n] \in Entries /\ nodes[n] # None /\ nodes[n].idle \in Nat
         /\ nodes[n].endpoint = socket[n]
         /\ mode[n] = "relay"
         /\ timer[n] \in Nat
         /\ nodes[n].idle + timer[n] <= (missed[n] + 1) * Beat
BY DEF Reached, TypeOK, RegisteredIsReachable, HeardLately, Entries

\* A client that registers has no register of another socket in flight.
LEMMA EnterReached ==
  ASSUME Reached, NEW n \in Nodes, EnterRelayMode(n)
  PROVE  RegistersTimely' /\ RegisteredIsReachable' /\ HeardLately'
<1> USE NoneAssumption, Intervals
<1>1. /\ mode' = [mode EXCEPT ![n] = "relay"] /\ timer' = [timer EXCEPT ![n] = Beat]
      /\ net' = net \union {RegisterMessage(n)}
      /\ UNCHANGED <<nodes, socket, missed>>
      /\ mode[n] = "punching" /\ timer[n] = 0
  BY DEF EnterRelayMode, serverVars, historyVars
<1>2. /\ mode \in [Nodes -> Modes] /\ timer \in [Nodes -> Nat] /\ socket \in [Nodes -> Nat]
      /\ net \subseteq Datagrams
  BY DEF Reached, TypeOK
<1>3. missed[n] = None
  BY <1>1, HeardFields
<1>4. RegistersTimely'
  <2> SUFFICES ASSUME NEW d \in net', d.kind = "register"
      PROVE /\ d.at <= socket'[d.from]
            /\ d.at = socket'[d.from] => mode'[d.from] = "relay"
            /\ d.at # socket'[d.from] => mode'[d.from] = "punching" /\ timer'[d.from] = Punch
    BY DEF RegistersTimely
  <2>1. CASE d \in net
    <3>1. d.from \in Nodes
      BY <1>2, <2>1, DatagramFields
    <3>2. d.from # n
      BY <1>1, <2>1 DEF Reached, RegistersTimely
    <3> QED
      BY <1>1, <1>2, <2>1, <3>1, <3>2 DEF Reached, RegistersTimely
  <2>2. CASE d = RegisterMessage(n)
    BY <1>1, <1>2, <2>2 DEF RegisterMessage
  <2> QED BY <1>1, <2>1, <2>2
<1>5. RegisteredIsReachable'
  BY <1>1, <1>2, <1>3 DEF Reached, RegisteredIsReachable
<1>6. HeardLately'
  BY <1>1, <1>2, <1>3 DEF Reached, HeardLately
<1> QED BY <1>4, <1>5, <1>6

\* A heartbeat or a repeated register is one more the server has not heard, and
\* starts one more beat of time.
LEMMA BeatReached ==
  ASSUME Reached, NEW n \in Nodes, SendHeartbeat(n) \/ ReenterRelayMode(n)
  PROVE  RegistersTimely' /\ RegisteredIsReachable' /\ HeardLately'
<1> USE NoneAssumption, Intervals
<1>1. /\ timer' = [timer EXCEPT ![n] = Beat]
      /\ missed' = OneMissed(n)
      /\ \A d \in net' : d \in net \/ d.kind # "register" \/ d = RegisterMessage(n)
      /\ UNCHANGED <<nodes, socket, mode>>
      /\ mode[n] = "relay"
  BY DEF SendHeartbeat, ReenterRelayMode, serverVars
<1>2. /\ timer \in [Nodes -> Nat] /\ missed \in [Nodes -> Nat \union {None}]
      /\ socket \in [Nodes -> Nat] /\ net \subseteq Datagrams
  BY DEF Reached, TypeOK
<1>3. RegistersTimely'
  <2> SUFFICES ASSUME NEW d \in net', d.kind = "register"
      PROVE /\ d.at <= socket'[d.from]
            /\ d.at = socket'[d.from] => mode'[d.from] = "relay"
            /\ d.at # socket'[d.from] => mode'[d.from] = "punching" /\ timer'[d.from] = Punch
    BY DEF RegistersTimely
  <2>1. CASE d \in net
    <3>1. d.from \in Nodes
      BY <1>2, <2>1, DatagramFields
    <3>2. CASE d.from = n
      BY <1>1, <2>1, <3>2 DEF Reached, RegistersTimely
    <3>3. CASE d.from # n
      BY <1>1, <1>2, <2>1, <3>1, <3>3 DEF Reached, RegistersTimely
    <3> QED BY <3>2, <3>3
  <2>2. CASE d = RegisterMessage(n)
    BY <1>1, <1>2, <2>2 DEF RegisterMessage
  <2> QED BY <1>1, <2>1, <2>2
<1>4. \A m \in Nodes : missed'[m] # None => missed[m] # None
  BY <1>1, <1>2 DEF OneMissed
<1>5. RegisteredIsReachable'
  BY <1>1, <1>4 DEF Reached, RegisteredIsReachable
<1>6. ASSUME NEW m \in Nodes, missed'[m] # None
      PROVE  nodes'[m].idle + timer'[m] <= (missed'[m] + 1) * Beat
  <2>1. missed[m] # None
    BY <1>4, <1>6
  <2>2. CASE m = n
    <3>1. timer'[m] = Beat /\ missed'[m] = missed[m] + 1
      BY <1>1, <1>2, <2>1, <2>2 DEF OneMissed
    <3>2. nodes[m].idle <= (missed[m] + 1) * Beat
      BY <2>1, HeardFields, OneBeatMore
    <3> QED
      BY <1>1, <2>1, <3>1, <3>2, HeardFields, OneBeatMore
  <2>3. CASE m # n
    BY <1>1, <1>2, <2>1, <2>3, HeardFields DEF OneMissed
  <2> QED BY <2>2, <2>3
<1>7. HeardLately'
  BY <1>1, <1>2, <1>6 DEF Reached, HeardLately
<1> QED BY <1>3, <1>5, <1>7

\* With a new socket every register in flight becomes one of an older socket.
LEMMA SocketReached ==
  ASSUME Reached, NEW n \in Nodes, NewSocket(n)
  PROVE  RegistersTimely' /\ RegisteredIsReachable' /\ HeardLately'
<1> USE NoneAssumption, Intervals
<1>1. /\ socket' = [socket EXCEPT ![n] = @ + 1]
      /\ mode' = [mode EXCEPT ![n] = "punching"] /\ timer' = [timer EXCEPT ![n] = Punch]
      /\ missed' = [missed EXCEPT ![n] = None]
      /\ UNCHANGED <<nodes, net>>
  BY DEF NewSocket, serverVars
<1>2. /\ mode \in [Nodes -> Modes] /\ timer \in [Nodes -> Nat] /\ socket \in [Nodes -> Nat]
      /\ missed \in [Nodes -> Nat \union {None}] /\ net \subseteq Datagrams
  BY DEF Reached, TypeOK
<1>3. RegistersTimely'
  <2> SUFFICES ASSUME NEW d \in net, d.kind = "register"
      PROVE /\ d.at <= socket'[d.from]
            /\ d.at = socket'[d.from] => mode'[d.from] = "relay"
            /\ d.at # socket'[d.from] => mode'[d.from] = "punching" /\ timer'[d.from] = Punch
    BY <1>1 DEF RegistersTimely
  <2>1. d.from \in Nodes /\ d.at \in Nat
    BY <1>2, DatagramFields
  <2>2. d.at <= socket[d.from]
    BY DEF Reached, RegistersTimely
  <2>3. CASE d.from = n
    BY <1>1, <1>2, <2>1, <2>2, <2>3
  <2>4. CASE d.from # n
    BY <1>1, <1>2, <2>1, <2>4 DEF Reached, RegistersTimely
  <2> QED BY <2>3, <2>4
<1>4. RegisteredIsReachable'
  BY <1>1, <1>2 DEF Reached, RegisteredIsReachable
<1>5. HeardLately'
  BY <1>1, <1>2 DEF Reached, HeardLately
<1> QED BY <1>3, <1>4, <1>5

\* A register of the present socket makes the entry lead there; one of an older
\* socket is of a client that does not count on its entry.
LEMMA RegisterReached ==
  ASSUME Reached, NEW d \in net, HandleRegister(d)
  PROVE  RegistersTimely' /\ RegisteredIsReachable' /\ HeardLately'
<1> USE NoneAssumption, Intervals
<1>1. /\ nodes' = [nodes EXCEPT ![d.from] = RegisterNode(d)]
      /\ missed' = [missed EXCEPT ![d.from] = IF d.at = socket[d.from] THEN 0 ELSE @]
      /\ \A e \in net' : e \in net \/ e.kind # "register"
      /\ UNCHANGED <<socket, mode, timer>>
      /\ d.kind = "register"
  BY DEF HandleRegister, clientVars
<1>2. /\ d.from \in Nodes /\ d.at \in Nat
      /\ nodes \in [Nodes -> Entries \union {None}] /\ missed \in [Nodes -> Nat \union {None}]
      /\ timer \in [Nodes -> Nat] /\ TypeOK
  BY <1>1, DatagramFields DEF Reached, TypeOK
<1>3. RegisterNode(d) \in Entries /\ RegisterNode(d).idle = 0 /\ RegisterNode(d).endpoint = d.at
  <2>1. RegisterNode(d) \in Entries /\ RegisterNode(d).idle = 0
    BY <1>1, <1>2, RegisteredEntry
  <2>2. CASE nodes[d.from] = None
    BY <2>1, <2>2 DEF RegisterNode
  <2>3. CASE nodes[d.from] # None
    BY <1>2, <2>1, <2>3 DEF RegisterNode, Entries
  <2> QED BY <2>1, <2>2, <2>3
<1>4. RegistersTimely'
  BY <1>1 DEF Reached, RegistersTimely
<1>5. ASSUME NEW n \in Nodes, missed'[n] # None
      PROVE  /\ nodes'[n] # None /\ nodes'[n].endpoint = socket'[n] /\ mode'[n] = "relay"
             /\ nodes'[n].idle + timer'[n] <= (missed'[n] + 1) * Beat
  <2>1. CASE n # d.from
    BY <1>1, <1>2, <1>5, <2>1, HeardFields
  <2>2. CASE n = d.from /\ d.at = socket[n]
    <3>1. mode[n] = "relay" /\ timer[n] <= Beat /\ timer[n] \in Nat
      BY <1>1, <1>2, <2>2 DEF Reached, RegistersTimely, HeardLately
    <3>2. missed'[n] = 0 /\ nodes'[n] = RegisterNode(d)
      BY <1>1, <1>2, <2>2
    <3> QED
      BY <1>1, <1>3, <2>2, <3>1, <3>2, OneBeatMore
  <2>3. CASE n = d.from /\ d.at # socket[n]
    <3>1. mode[n] = "punching"
      BY <1>1, <2>3 DEF Reached, RegistersTimely
    <3>2. missed[n] # None
      BY <1>1, <1>2, <1>5, <2>3
    <3> QED BY <3>1, <3>2, HeardFields
  <2> QED BY <2>1, <2>2, <2>3
<1>6. RegisteredIsReachable'
  BY <1>5 DEF RegisteredIsReachable
<1>7. HeardLately'
  BY <1>1, <1>5 DEF Reached, HeardLately
<1> QED BY <1>4, <1>6, <1>7

\* A heartbeat makes the entry young and the count start anew.
LEMMA HeartbeatReached ==
  ASSUME Reached, NEW d \in net, HandleHeartbeat(d)
  PROVE  RegistersTimely' /\ RegisteredIsReachable' /\ HeardLately'
<1> USE NoneAssumption, Intervals
<1>1. /\ nodes' = [nodes EXCEPT ![d.from].idle = 0]
      /\ missed' = [missed EXCEPT ![d.from] = IF @ = None THEN None ELSE 0]
      /\ UNCHANGED <<socket, mode, timer, net>>
      /\ nodes[d.from] # None
  BY DEF HandleHeartbeat, clientVars
<1>2. /\ d.from \in Nodes
      /\ nodes \in [Nodes -> Entries \union {None}] /\ missed \in [Nodes -> Nat \union {None}]
      /\ timer \in [Nodes -> Nat]
  BY DatagramFields DEF Reached, TypeOK
<1>3. RegistersTimely'
  BY <1>1 DEF Reached, RegistersTimely
<1>4. /\ nodes'[d.from] \in Entries /\ nodes'[d.from].idle = 0
      /\ nodes'[d.from].endpoint = nodes[d.from].endpoint
  BY <1>1, <1>2 DEF Entries
<1>5. ASSUME NEW n \in Nodes, missed'[n] # None
      PROVE  /\ nodes'[n] # None /\ nodes'[n].endpoint = socket'[n] /\ mode'[n] = "relay"
             /\ nodes'[n].idle + timer'[n] <= (missed'[n] + 1) * Beat
  <2>1. missed[n] # None
    BY <1>1, <1>2, <1>5
  <2>2. CASE n # d.from
    BY <1>1, <1>2, <2>1, <2>2, HeardFields
  <2>3. CASE n = d.from
    <3>1. missed'[n] = 0 /\ mode[n] = "relay" /\ nodes[n].endpoint = socket[n]
      BY <1>1, <1>2, <2>1, <2>3, HeardFields
    <3>2. timer[n] <= Beat /\ timer[n] \in Nat
      BY <1>2, <3>1 DEF Reached, HeardLately
    <3> QED
      BY <1>1, <1>4, <2>3, <3>1, <3>2, OneBeatMore
  <2> QED BY <2>2, <2>3
<1>6. RegisteredIsReachable'
  BY <1>5 DEF RegisteredIsReachable
<1>7. HeardLately'
  BY <1>1, <1>5 DEF Reached, HeardLately
<1> QED BY <1>3, <1>6, <1>7

\* A cleanup or a restart leaves every entry alone that the client counts on.
LEMMA RemovalReached ==
  ASSUME Reached, DoCleanup \/ ServerRestart
  PROVE  RegistersTimely' /\ RegisteredIsReachable' /\ HeardLately'
<1>1. /\ \A n \in Nodes : missed'[n] # None => missed'[n] = missed[n] /\ nodes'[n] = nodes[n]
      /\ UNCHANGED <<socket, mode, timer, net>>
  BY DEF DoCleanup, ServerRestart, clientVars
<1> QED BY <1>1 DEF Reached, RegistersTimely, RegisteredIsReachable, HeardLately

\* A tick leaves nothing in flight and passes with every heartbeat sent.
LEMMA TickReached ==
  ASSUME Reached, Tick
  PROVE  RegistersTimely' /\ RegisteredIsReachable' /\ HeardLately'
<1> USE NoneAssumption, Intervals
<1>1. RegistersTimely'
  BY DEF Tick, RegistersTimely
<1>2. /\ timer' = [n \in Nodes |-> Countdown(timer[n])]
      /\ UNCHANGED <<socket, mode, missed>>
      /\ \A n \in Nodes : mode[n] = "relay" => timer[n] > 0
      /\ timer \in [Nodes -> Nat]
  BY DEF Tick, Reached, TypeOK
<1>3. \A n \in Nodes : mode[n] = "relay" => timer'[n] = timer[n] - 1
  BY <1>2 DEF Countdown
<1>4. ASSUME NEW n \in Nodes, missed[n] # None
      PROVE  /\ nodes'[n] # None /\ nodes'[n].endpoint = nodes[n].endpoint
             /\ nodes'[n].idle = nodes[n].idle + 1
  <2>1. nodes[n] \in Entries /\ nodes[n] # None
    BY <1>4, HeardFields
  <2>2. nodes'[n] = [nodes[n] EXCEPT !.idle = @ + 1]
    BY <2>1 DEF Tick
  <2>3. nodes'[n] \in Entries
    BY <2>1, <2>2 DEF Entries
  <2> QED BY <2>1, <2>2, <2>3 DEF Entries
<1>5. RegisteredIsReachable'
  BY <1>2, <1>4 DEF Reached, RegisteredIsReachable
<1>6. ASSUME NEW n \in Nodes, missed'[n] # None
      PROVE  nodes'[n].idle + timer'[n] <= (missed'[n] + 1) * Beat
  <2>1. nodes'[n].idle + timer'[n] = nodes[n].idle + timer[n]
    BY <1>2, <1>3, <1>4, <1>6, HeardFields
  <2> QED BY <1>2, <1>6, <2>1, HeardFields
<1>7. HeardLately'
  BY <1>2, <1>3, <1>6 DEF Reached, HeardLately
<1> QED BY <1>1, <1>5, <1>7

\* The invariant of every step.
LEMMA NextReached == Reached /\ TypeOK' /\ [Next]_vars => Reached'
<1> SUFFICES ASSUME Reached, TypeOK', [Next]_vars
    PROVE RegistersTimely' /\ RegisteredIsReachable' /\ HeardLately'
  BY DEF Reached
<1>1. ASSUME UNCHANGED <<nodes, socket, mode, timer, missed>>,
             \A d \in net' : d \in net \/ d.kind # "register"
      PROVE  RegistersTimely' /\ RegisteredIsReachable' /\ HeardLately'
  BY <1>1 DEF Reached, RegistersTimely, RegisteredIsReachable, HeardLately
<1>2. ASSUME NEW n \in Nodes, NEW m \in Nodes, SendRelayPacket(n, m)
      PROVE  RegistersTimely' /\ RegisteredIsReachable' /\ HeardLately'
  BY <1>1, <1>2 DEF SendRelayPacket, serverVars, clientVars, historyVars
<1>3. ASSUME NEW n \in Nodes, Repunch(n) \/ \E network \in Networks : Restart(n, network)
      PROVE  RegistersTimely' /\ RegisteredIsReachable' /\ HeardLately'
  BY <1>3, SocketReached DEF Repunch, Restart
<1>4. ASSUME NEW d \in net, RecvRegisterOk(d) \/ HandleRelayPacket(d)
      PROVE  RegistersTimely' /\ RegisteredIsReachable' /\ HeardLately'
  BY <1>1, <1>4 DEF RecvRegisterOk, HandleRelayPacket, serverVars, clientVars, historyVars
<1>5. CASE UNCHANGED vars
  BY <1>1, <1>5 DEF vars, serverVars, clientVars, historyVars
<1> QED
  BY <1>2, <1>3, <1>4, <1>5, EnterReached, BeatReached, RegisterReached, HeartbeatReached,
     RemovalReached, TickReached DEF Next, Receive

\* It holds from the start on.
LEMMA AlwaysReached == Spec => []Reached
<1>1. Init => RegistersTimely /\ RegisteredIsReachable /\ HeardLately
  BY Intervals, NoneAssumption DEF Init, RegistersTimely, RegisteredIsReachable, HeardLately
<1>2. Init /\ TypeOK => Reached
  BY <1>1 DEF Reached
<1> QED BY <1>2, NextReached, TypeCorrect, PTL DEF Spec

\* A client whose register the relay has taken is found at the socket it has
\* (RelayRegistry::registerNode, TestClient::enter_relay_mode), however many sockets
\* it has had and whatever was lost, repeated or late.
THEOREM RegisteredReachable == Spec => []RegisteredIsReachable
<1>1. Reached => RegisteredIsReachable
  BY DEF Reached
<1> QED BY <1>1, AlwaysReached, PTL

\* The cleanup removes a client in relay mode only after so many heartbeats in a
\* row were missed that they span the timeout, whatever the four intervals are.
THEOREM HeardNodesKept == Spec => KeptWhileHeard
<1>1. Reached /\ TypeOK' /\ [Next]_vars
        => [\A n \in Nodes :
              missed[n] # None /\ nodes'[n] = None /\ restarts' = restarts
                => (missed[n] + 1) * Beat >= Timeout]_vars
  <2> SUFFICES ASSUME Reached, TypeOK', [Next]_vars,
                      NEW n \in Nodes, missed[n] # None, nodes'[n] = None, restarts' = restarts
      PROVE (missed[n] + 1) * Beat >= Timeout
    OBVIOUS
  <2> USE NoneAssumption
  <2>1. nodes[n] # None /\ nodes[n] \in Entries
    BY HeardFields
  <2>2. CASE DoCleanup
    <3>1. nodes[n].idle >= Timeout
      BY <2>1, <2>2 DEF DoCleanup, Expired
    <3> QED
      BY <3>1, HeardFields, OneBeatMore, Intervals
  <2>3. CASE ServerRestart
    BY <2>3 DEF ServerRestart, Reached, TypeOK
  <2>4. CASE Tick
    <3>1. nodes'[n] = [nodes[n] EXCEPT !.idle = @ + 1]
      BY <2>1, <2>4 DEF Tick
    <3>2. nodes'[n] \in Entries
      BY <2>1, <3>1 DEF Entries
    <3> QED BY <3>2
  <2>5. ASSUME NEW d \in net, HandleRegister(d) PROVE FALSE
    <3>1. RegisterNode(d) \in Entries /\ d.from \in Nodes
      BY <2>5, RegisteredEntry, DatagramFields DEF HandleRegister, Reached, TypeOK
    <3> QED
      BY <2>1, <2>5, <3>1 DEF HandleRegister, Reached, TypeOK
  <2>6. ASSUME NEW d \in net, HandleHeartbeat(d) PROVE FALSE
    <3>1. d.from \in Nodes /\ nodes[d.from] \in Entries
      BY <2>6, DatagramFields DEF HandleHeartbeat, Reached, TypeOK
    <3>2. [nodes[d.from] EXCEPT !.idle = 0] \in Entries
      BY <3>1 DEF Entries
    <3>3. nodes' = [nodes EXCEPT ![d.from] = [nodes[d.from] EXCEPT !.idle = 0]]
      BY <2>6, <3>1 DEF HandleHeartbeat, Reached, TypeOK
    <3> QED
      BY <2>1, <3>1, <3>2, <3>3 DEF Reached, TypeOK
  <2>7. ASSUME UNCHANGED nodes PROVE FALSE
    BY <2>1, <2>7
  <2>8. ASSUME NEW m \in Nodes,
               \/ EnterRelayMode(m)
               \/ ReenterRelayMode(m)
               \/ SendHeartbeat(m)
               \/ \E k \in Nodes : SendRelayPacket(m, k)
               \/ Repunch(m)
               \/ \E network \in Networks : Restart(m, network)
        PROVE  FALSE
    BY <2>7, <2>8 DEF EnterRelayMode, ReenterRelayMode, SendHeartbeat, SendRelayPacket, Repunch, Restart,
                      NewSocket, serverVars
  <2>9. ASSUME NEW d \in net, RecvRegisterOk(d) \/ HandleRelayPacket(d) PROVE FALSE
    BY <2>7, <2>9 DEF RecvRegisterOk, HandleRelayPacket, serverVars
  <2>10. CASE UNCHANGED vars
    BY <2>7, <2>10 DEF vars, serverVars
  <2> QED
    BY <2>2, <2>3, <2>4, <2>5, <2>6, <2>8, <2>9, <2>10 DEF Next, Receive
<1> QED BY <1>1, AlwaysReached, TypeCorrect, PTL DEF Spec, KeptWhileHeard

-----------------------------------------------------------------------------

\* Entries, registers and forwarded packets are of the network their client is
\* in, or of a client that has moved.
InPlace ==
  /\ \A n \in Nodes \ moved : nodes[n] # None => nodes[n].network_id = home[n]
  /\ \A d \in net : d.kind = "register" => d.network_id = home[d.from] \/ d.from \in moved
  /\ \A d \in net :
       d.kind = "forward" => home[d.from] = home[d.to] \/ d.from \in moved \/ d.to \in moved

\* An entry keeps its network, and a new one takes that of the register.
LEMMA RegisterInPlace ==
  ASSUME TypeOK, InPlace, NEW d \in net, HandleRegister(d)
  PROVE  InPlace'
<1> USE NoneAssumption
<1>1. /\ nodes' = [nodes EXCEPT ![d.from] = RegisterNode(d)]
      /\ \A e \in net' : e \in net \/ e.kind = "ok"
      /\ UNCHANGED <<home, moved>>
      /\ d.kind = "register" /\ d.from \in Nodes
      /\ nodes \in [Nodes -> Entries \union {None}]
  BY DatagramFields DEF HandleRegister, clientVars, TypeOK
<1>2. d.from \notin moved => RegisterNode(d).network_id = home[d.from]
  <2>1. CASE nodes[d.from] = None
    BY <1>1, <2>1 DEF RegisterNode, InPlace
  <2>2. CASE nodes[d.from] # None
    BY <1>1, <2>2 DEF RegisterNode, InPlace, Entries
  <2> QED BY <2>1, <2>2
<1> QED BY <1>1, <1>2 DEF InPlace

\* A packet is forwarded between entries of one network.
LEMMA ForwardInPlace ==
  ASSUME TypeOK, InPlace, NEW d \in net, HandleRelayPacket(d)
  PROVE  InPlace'
<1>1. /\ net' = net \union {[kind |-> "forward", from |-> d.from, to |-> d.to,
                             at |-> nodes[d.to].endpoint]}
      /\ UNCHANGED <<nodes, home, moved>>
      /\ nodes[d.from] # None /\ nodes[d.to] # None
      /\ nodes[d.from].network_id = nodes[d.to].network_id
      /\ d.from \in Nodes /\ d.to \in Nodes
  BY DEF HandleRelayPacket, MayRelay, serverVars, clientVars, historyVars, TypeOK, Datagrams
<1>2. home[d.from] = home[d.to] \/ d.from \in moved \/ d.to \in moved
  BY <1>1 DEF InPlace
<1> QED BY <1>1, <1>2 DEF InPlace

\* A client that moves is remembered as one that has.
LEMMA RestartInPlace ==
  ASSUME TypeOK, InPlace, NEW n \in Nodes, NEW network \in Networks, Restart(n, network)
  PROVE  InPlace'
<1>1. /\ home' = [home EXCEPT ![n] = network]
      /\ moved' = IF network # home[n] THEN moved \union {n} ELSE moved
      /\ UNCHANGED <<nodes, net>>
      /\ home \in [Nodes -> Networks]
  BY DEF Restart, NewSocket, serverVars, TypeOK
<1>2. CASE network = home[n]
  BY <1>1, <1>2 DEF InPlace
<1>3. CASE network # home[n]
  <2>1. \A m : m \notin moved' => m \notin moved /\ m # n /\ home'[m] = home[m]
    BY <1>1, <1>3
  <2>2. moved \subseteq moved'
    BY <1>1, <1>3
  <2> QED BY <1>1, <2>1, <2>2 DEF InPlace
<1> QED BY <1>2, <1>3

\* Whatever else happens leaves networks alone; a tick forgets only the moves of
\* nodes without an entry, and leaves nothing in flight.
LEMMA NextInPlace == TypeOK /\ InPlace /\ [Next]_vars => InPlace'
<1> SUFFICES ASSUME TypeOK, InPlace, [Next]_vars PROVE InPlace'
  OBVIOUS
<1> USE NoneAssumption
<1>1. ASSUME UNCHANGED <<home, moved>>,
             \A n \in Nodes : nodes'[n] # None
               => nodes[n] # None /\ nodes'[n].network_id = nodes[n].network_id,
             \A d \in net' : d \in net \/ d.kind \notin {"register", "forward"}
      PROVE  InPlace'
  BY <1>1 DEF InPlace
<1>2. ASSUME NEW n \in Nodes, EnterRelayMode(n) \/ ReenterRelayMode(n) PROVE InPlace'
  <2>1. /\ UNCHANGED <<nodes, home, moved>>
        /\ \A d \in net' : d \in net \/ d = RegisterMessage(n)
    BY <1>2 DEF EnterRelayMode, ReenterRelayMode, serverVars, historyVars
  <2> QED BY <2>1 DEF RegisterMessage, InPlace
<1>3. ASSUME NEW n \in Nodes, SendHeartbeat(n) \/ \E m \in Nodes : SendRelayPacket(n, m)
      PROVE  InPlace'
  BY <1>1, <1>3 DEF SendHeartbeat, SendRelayPacket, serverVars, clientVars, historyVars
<1>4. ASSUME NEW n \in Nodes, Repunch(n) PROVE InPlace'
  BY <1>1, <1>4 DEF Repunch, NewSocket, serverVars
<1>5. ASSUME NEW d \in net, HandleHeartbeat(d) PROVE InPlace'
  <2>1. d.from \in Nodes /\ nodes \in [Nodes -> Entries \union {None}]
    BY DatagramFields DEF TypeOK
  <2>2. nodes[d.from] # None /\ nodes' = [nodes EXCEPT ![d.from].idle = 0]
    BY <1>5 DEF HandleHeartbeat
  <2>3. \A n \in Nodes : nodes'[n] # None
          => nodes[n] # None /\ nodes'[n].network_id = nodes[n].network_id
    BY <2>1, <2>2 DEF Entries
  <2> QED BY <1>1, <1>5, <2>3 DEF HandleHeartbeat, clientVars
<1>6. ASSUME NEW d \in net, RecvRegisterOk(d) PROVE InPlace'
  BY <1>1, <1>6 DEF RecvRegisterOk, serverVars, historyVars
<1>7. CASE DoCleanup \/ ServerRestart
  BY <1>1, <1>7 DEF DoCleanup, ServerRestart, clientVars
<1>8. CASE Tick
  <2>1. net' = {} /\ home' = home /\ moved' = {n \in moved : nodes[n] # None}
    BY <1>8 DEF Tick
  <2>2. ASSUME NEW n \in Nodes, nodes'[n] # None
        PROVE  nodes[n] # None /\ nodes'[n].network_id = nodes[n].network_id
    <3>1. nodes[n] \in Entries /\ nodes[n] # None
      BY <1>8, <2>2 DEF Tick, TypeOK
    <3>2. nodes'[n] = [nodes[n] EXCEPT !.idle = @ + 1]
      BY <1>8, <3>1 DEF Tick
    <3> QED BY <3>1, <3>2 DEF Entries
  <2> QED BY <2>1, <2>2 DEF InPlace
<1>9. CASE UNCHANGED vars
  BY <1>1, <1>9 DEF vars, serverVars, clientVars, historyVars
<1> QED
  BY <1>2, <1>3, <1>4, <1>5, <1>6, <1>7, <1>8, <1>9,
     RegisterInPlace, ForwardInPlace, RestartInPlace DEF Next, Receive

\* What a client hands up from the relay comes from its own network, unless one
\* of the two has moved (RelayServer::handle_relay_packet), for any number of
\* networks and moves.
THEOREM NetworksKeptApart == Spec => []NetworksApart
<1>1. Init => InPlace
  BY NoneAssumption DEF Init, InPlace
<1>2. InPlace => NetworksApart
  BY DEF InPlace, NetworksApart, HandsUp
<1> QED BY <1>1, <1>2, NextInPlace, TypeCorrect, PTL DEF Spec
=============================================================================
