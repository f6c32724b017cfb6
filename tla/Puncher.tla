------------------------------ MODULE Puncher ------------------------------
(***************************************************************************)
(* Hole punching between clients: the control server's punch_start         *)
(* signals, the client's single UdpPuncher with its timers, the Noise      *)
(* handshake that turns an open path into a session, and the encrypted     *)
(* packets of the session, over UDP that loses, duplicates and reorders.   *)
(*                                                                         *)
(* All the handlers of a client run on its one puncher_ioc_ thread, so     *)
(* each is one step.  Nodes are numbers in the order of their node_id      *)
(* strings.  A node is reached at its own endpoint whichever of its        *)
(* addresses is used (a fixed udp_port), so an endpoint is a node; a punch *)
(* to the endpoint of a third node is ignored there (its to_node_id        *)
(* differs) and is left out.  An ephemeral key is named by the puncher     *)
(* that generated it, and a session key by the ephemerals and the static   *)
(* keys mixed into it, in the role each plays: two ends can talk exactly   *)
(* when these are the same.  The worker thread of a client tears the P2P   *)
(* state down when the control connection is lost, in two steps (flags,    *)
(* then puncher) between which the io thread runs its handlers; that the   *)
(* two threads use the pointer puncher_ at the same instant, with a crash  *)
(* for an outcome, is left to CoreClient.  Failures of the crypto library  *)
(* and of an open socket and stopping clients are left out.                *)
(***************************************************************************)
EXTENDS Integers, FiniteSets, Sequences, SequencesExt

CONSTANTS
  Nodes,          \* clients of one network, numbered in the order of node_id
  None,           \* no puncher, no endpoint, no key
  Dials,          \* <<r, t>>: the client of r runs with --connect t
  HasRelay,       \* the clients run with --relay
  Lossy,          \* datagrams may be lost
  MaxSignals,     \* bound on the punch_start pairs the server sends
  MaxPackets,     \* bound on the packets a client reads from its TUN device
  MaxReconnects   \* bound on the control connections that are lost

ASSUME PuncherAssumption ==
  /\ Nodes \subseteq Nat
  /\ IsFiniteSet(Nodes)
  /\ None \notin Nodes
  /\ Dials \subseteq {p \in Nodes \X Nodes : p[1] # p[2]}
  /\ HasRelay \in BOOLEAN
  /\ Lossy \in BOOLEAN
  /\ MaxSignals \in Nat
  /\ MaxPackets \in Nat
  /\ MaxReconnects \in Nat

VARIABLES
  addressed,   \* online nodes that have reported their addresses
  ctl,         \* punch_start messages on their way to each client
  mode,        \* mode_ of each client
  done,        \* punch_done_
  succeeded,   \* punch_success_
  tearing,     \* the worker has reset these three, and not yet puncher_
  torn,        \* history: an outcome landed meanwhile, and nothing cleared it since
  puncher,     \* puncher_: a record or None
  born,        \* punchers each client has created
  net,         \* datagrams in flight; delivery leaves a copy behind
  seq,         \* relay_seq_ of each client
  packets,     \* p2p_packet datagrams sent; one that is lost is never received
  signals,     \* punch_start pairs sent so far
  reconnects   \* control connections lost so far

outcomeVars == <<mode, done, succeeded, tearing, torn>>
clientVars == <<outcomeVars, puncher, born>>
packetVars == <<seq, packets>>
boundVars == <<signals, reconnects>>
vars == <<addressed, ctl, clientVars, net, packetVars, boundVars>>

Roles == {"initiator", "responder"}
Modes == {"punching", "p2p", "failed", "relay"}
Timers == {"timeout", "retry"}
Ephemerals == Nodes \X Nat
Keys == [ei : Ephemerals, er : Ephemerals, init : Nodes, resp : Nodes]
Starts == [peer : Nodes, role : Roles]

Punchers ==
  [inc : Nat, role : Roles, target : Nodes,
   punching : BOOLEAN, success : BOOLEAN,
   endpoint : Nodes \union {None},     \* peer_endpoint_
   stage : 0..2,                       \* last_noise_stage_
   key : Keys \union {None},           \* the split keys of a complete handshake
   armed : SUBSET Timers,              \* timers waiting
   due : SUBSET Timers]                \* expired, handler queued: cancel() is too late

Datagrams ==
  [kind : {"punch", "ack"}, from : Nodes, to : Nodes, at : Nodes, eph : {None}]
    \union
  [kind : {"msg1", "msg2"}, from : Nodes, to : Nodes, at : Nodes \union {None}, eph : Ephemerals]

\* A p2p_packet: its payload is encrypted with the half of the session key
\* of the side that sends it, its sequence number being the nonce.
Packets ==
  [from : Nodes, to : Nodes, at : Nodes, seq : Nat, key : Keys, side : Roles]

ASSUME NoneAssumption == None \notin Keys /\ None \notin Punchers

TypeOK ==
  /\ addressed \subseteq Nodes
  /\ ctl \in [Nodes -> Seq(Starts)]
  /\ mode \in [Nodes -> Modes]
  /\ done \in [Nodes -> BOOLEAN]
  /\ succeeded \in [Nodes -> BOOLEAN]
  /\ tearing \in [Nodes -> BOOLEAN]
  /\ torn \in [Nodes -> BOOLEAN]
  /\ puncher \in [Nodes -> Punchers \union {None}]
  /\ born \in [Nodes -> Nat]
  /\ net \subseteq Datagrams
  /\ seq \in [Nodes -> Nat]
  /\ packets \subseteq Packets
  /\ signals \in Nat
  /\ reconnects \in Nat

Init ==
  /\ addressed = {}
  /\ ctl = [n \in Nodes |-> <<>>]
  /\ mode = [n \in Nodes |-> "punching"]
  /\ done = [n \in Nodes |-> FALSE]
  /\ succeeded = [n \in Nodes |-> FALSE]
  /\ tearing = [n \in Nodes |-> FALSE]
  /\ torn = [n \in Nodes |-> FALSE]
  /\ puncher = [n \in Nodes |-> None]
  /\ born = [n \in Nodes |-> 0]
  /\ net = {}
  /\ seq = [n \in Nodes |-> 0]
  /\ packets = {}
  /\ signals = 0
  /\ reconnects = 0

-----------------------------------------------------------------------------
(* The control server.                                                     *)

\* signal_punch_start tells one side of a pair about the other: its direction
\* is "outgoing" (the requester, who initiates) or "incoming".
Start(peer, role) == [peer |-> peer, role |-> role]

\* What n is told about p when n, or p, reports its address: the smaller
\* node_id requests the connection.
AutoStart(n, p) == Start(p, IF n < p THEN "initiator" ELSE "responder")

\* n reports its address; the server pairs it with every node of the network
\* that has one, in the order its node map yields them.
UpdateAddr(n) ==
  LET peers == addressed \ {n} IN
  /\ n \notin addressed
  /\ signals + Cardinality(peers) <= MaxSignals
  /\ \E order \in SetToSeqs(peers) :
       ctl' = [m \in Nodes |->
                 IF m = n
                 THEN ctl[n] \o [i \in DOMAIN order |-> AutoStart(n, order[i])]
                 ELSE IF m \in peers THEN Append(ctl[m], AutoStart(m, n)) ELSE ctl[m]]
  /\ addressed' = addressed \union {n}
  /\ signals' = signals + Cardinality(peers)
  /\ UNCHANGED <<clientVars, net, packetVars, reconnects>>

\* r asks to be connected to t: whatever the order of their ids, r initiates.
ConnectPeer(r, t) ==
  /\ <<r, t>> \in Dials
  /\ {r, t} \subseteq addressed
  /\ signals < MaxSignals
  /\ ctl' = [ctl EXCEPT ![r] = Append(@, Start(t, "initiator")),
                        ![t] = Append(@, Start(r, "responder"))]
  /\ signals' = signals + 1
  /\ UNCHANGED <<addressed, clientVars, net, packetVars, reconnects>>

-----------------------------------------------------------------------------
(* The client.                                                             *)

\* Mutant: startPunching without armTimeout.
NewPuncherUntimed(n, start) ==
  [inc |-> born[n] + 1, role |-> start.role, target |-> start.peer,
   punching |-> TRUE, success |-> FALSE, endpoint |-> None, stage |-> 0,
   key |-> None, armed |-> {}, due |-> {}]

\* configureNoise and startPunching on a fresh UdpPuncher.
NewPuncher(n, start) ==
  [inc |-> born[n] + 1, role |-> start.role, target |-> start.peer,
   punching |-> TRUE, success |-> FALSE, endpoint |-> None, stage |-> 0,
   key |-> None, armed |-> {"timeout"}, due |-> {}]

\* A finished client starts again, whatever the outcome was; one that is
\* still punching, for anyone, ignores the message.  What it starts has no
\* puncher if the peer's key is no key or the port cannot be bound.
PunchStart(n) ==
  /\ ctl[n] # <<>>
  /\ ctl' = [ctl EXCEPT ![n] = Tail(@)]
  /\ IF succeeded[n] \/ done[n] \/ puncher[n] = None
     THEN /\ mode' = [mode EXCEPT ![n] = IF succeeded[n] \/ done[n] THEN "punching" ELSE @]
          /\ done' = [done EXCEPT ![n] = FALSE]
          /\ succeeded' = [succeeded EXCEPT ![n] = FALSE]
          /\ torn' = [torn EXCEPT ![n] = FALSE]
          /\ \/ /\ puncher' = [puncher EXCEPT ![n] = NewPuncher(n, Head(ctl[n]))]
                /\ born' = [born EXCEPT ![n] = @ + 1]
             \/ /\ puncher' = [puncher EXCEPT ![n] = None]
                /\ UNCHANGED born
          /\ UNCHANGED tearing
     ELSE UNCHANGED clientVars
  /\ UNCHANGED <<addressed, net, packetVars, boundVars>>

\* The control connection is lost: the worker begins to connect again and
\* resets what the last attempt came to.
ResetOutcome(n) ==
  /\ n \in addressed
  /\ ~tearing[n]
  /\ reconnects < MaxReconnects
  /\ mode' = [mode EXCEPT ![n] = "punching"]
  /\ done' = [done EXCEPT ![n] = FALSE]
  /\ succeeded' = [succeeded EXCEPT ![n] = FALSE]
  /\ tearing' = [tearing EXCEPT ![n] = TRUE]
  /\ torn' = [torn EXCEPT ![n] = FALSE]
  /\ reconnects' = reconnects + 1
  /\ UNCHANGED <<addressed, ctl, puncher, born, net, packetVars, signals>>

\* Then it drops the puncher and the old connection: of the messages on it,
\* those the reader has posted still run, the others are gone, and the server
\* has no address of the node until its next update_addr.
DropPuncher(n) ==
  /\ tearing[n]
  /\ tearing' = [tearing EXCEPT ![n] = FALSE]
  /\ puncher' = [puncher EXCEPT ![n] = None]
  /\ addressed' = addressed \ {n}
  /\ \E posted \in 0..Len(ctl[n]) : ctl' = [ctl EXCEPT ![n] = SubSeq(@, 1, posted)]
  /\ UNCHANGED <<mode, done, succeeded, torn, born, net, packetVars, boundVars>>

-----------------------------------------------------------------------------
(* The UDP engine.                                                         *)

Own(n) == <<n, puncher[n].inc>>

Datagram(kind, n, to, at, eph) ==
  [kind |-> kind, from |-> n, to |-> to, at |-> at, eph |-> eph]

\* Mutant: the message is sent before its payload is written into it.
HandshakeEmpty(n, p, stage) ==
  Datagram(IF stage = 1 THEN "msg1" ELSE "msg2", n, p.target, p.endpoint, None)

\* sendNoiseHandshake: addressed to the target, sent to the endpoint p knows.
Handshake(n, p, stage) ==
  Datagram(IF stage = 1 THEN "msg1" ELSE "msg2", n, p.target, p.endpoint, <<n, p.inc>>)

\* A burst of do_send_punch; the next one is scheduled while it may be.
SendPunch(n) ==
  /\ puncher[n] # None
  /\ puncher[n].punching
  /\ ~puncher[n].success
  /\ net' = net \union {Datagram("punch", n, puncher[n].target, puncher[n].target, None)}
  /\ UNCHANGED <<addressed, ctl, clientVars, packetVars, boundVars>>

\* n's socket yields a datagram for n; others are dropped by handle_receive.
Arrives(n, d, kind) ==
  /\ puncher[n] # None
  /\ d.kind = kind
  /\ d.at = n
  /\ d.to = n

\* A punch from anybody is answered; one from the target tells where it is.
RecvPunch(n, d) ==
  /\ Arrives(n, d, "punch")
  /\ puncher' = [puncher EXCEPT ![n].endpoint = IF d.from = puncher[n].target THEN d.from ELSE @]
  /\ net' = net \union {Datagram("ack", n, d.from, d.from, None)}
  /\ UNCHANGED <<addressed, ctl, outcomeVars, born, packetVars, boundVars>>

\* Mutant: an ack starts the handshake afresh.
AckedAfresh(n, d) ==
  [puncher[n] EXCEPT !.endpoint = d.from, !.punching = FALSE, !.stage = 0, !.key = None]

\* The puncher of n with the sender of an ack as its endpoint, not punching.
Acked(n, d) == [puncher[n] EXCEPT !.endpoint = d.from, !.punching = FALSE]

\* startNoiseHandshake the first time: message 1 is built, the timers armed.
Started(p) == [p EXCEPT !.stage = 1, !.armed = Timers]

\* An ack, from anybody, ends the punching.  The initiator sends message 1,
\* arming its timers with the first copy; the responder waits anew.
RecvAck(n, d) ==
  LET p == Acked(n, d) IN
  /\ Arrives(n, d, "ack")
  /\ \/ /\ p.role = "responder"
        /\ puncher' = [puncher EXCEPT ![n] = [p EXCEPT !.armed = @ \union {"timeout"}]]
        /\ UNCHANGED net
     \/ /\ p.role = "initiator"
        /\ p.success
        /\ puncher' = [puncher EXCEPT ![n] = p]
        /\ UNCHANGED net
     \/ /\ p.role = "initiator"
        /\ ~p.success
        /\ puncher' = [puncher EXCEPT ![n] =
                         IF p.stage = 1 THEN p ELSE Started(p)]
        /\ net' = net \union {Handshake(n, p, 1)}
  /\ UNCHANGED <<addressed, ctl, outcomeVars, born, packetVars, boundVars>>

\* on_punch_result stores the outcome: the mode m and the success s.  If the
\* worker is tearing down, its stores may also come between or after these.
Outcome(n, m, s) ==
  \E o \in {<<m, TRUE, s>>} \union
           (IF tearing[n] THEN {"punching"} \X BOOLEAN \X {FALSE, s} ELSE {}) :
    /\ mode' = [mode EXCEPT ![n] = o[1]]
    /\ done' = [done EXCEPT ![n] = o[2]]
    /\ succeeded' = [succeeded EXCEPT ![n] = o[3]]
    /\ torn' = [torn EXCEPT ![n] = @ \/ tearing[n]]
    /\ UNCHANGED tearing

\* completeSecurePunch: p is done, and so is the client.
Complete(n, p) ==
  /\ puncher' = [puncher EXCEPT ![n] =
                   [p EXCEPT !.success = TRUE, !.punching = FALSE, !.armed = {}]]
  /\ Outcome(n, "p2p", TRUE)

\* Mutant: message 2 goes out before the keys are split.
RecvMsg1Unsplit(n, d) ==
  LET p == [puncher[n] EXCEPT !.endpoint = d.from] IN
  /\ Arrives(n, d, "msg1")
  /\ p.role = "responder"
  /\ puncher' = [puncher EXCEPT ![n] = p]
  /\ net' = net \union {Handshake(n, p, 2)}
  /\ UNCHANGED <<addressed, ctl, outcomeVars, born, packetVars, boundVars>>

\* The keys a responder splits on message 1, and an initiator on message 2.
ResponderKey(n, eph) == [ei |-> eph, er |-> Own(n), init |-> puncher[n].target, resp |-> n]
InitiatorKey(n, eph) == [ei |-> Own(n), er |-> eph, init |-> n, resp |-> puncher[n].target]

\* A responder takes the first message 1, completes and answers; it answers
\* later ones with the message 2 it already has.  The sender is not checked.
RecvMsg1(n, d) ==
  LET p == [puncher[n] EXCEPT !.endpoint = d.from] IN
  /\ Arrives(n, d, "msg1")
  /\ \/ /\ p.role = "initiator"
        /\ puncher' = [puncher EXCEPT ![n] = p]
        /\ UNCHANGED <<outcomeVars, net>>
     \/ /\ p.role = "responder"
        /\ p.key = None
        /\ Complete(n, [p EXCEPT !.key = ResponderKey(n, d.eph), !.stage = 2])
        /\ net' = net \union {Handshake(n, p, 2)}
     \/ /\ p.role = "responder"
        /\ p.key # None
        /\ puncher' = [puncher EXCEPT ![n] = p]
        /\ net' = net \union {Handshake(n, p, 2)}
        /\ UNCHANGED outcomeVars
  /\ UNCHANGED <<addressed, ctl, born, packetVars, boundVars>>

\* The initiator that has sent message 1 completes on the first message 2.
RecvMsg2(n, d) ==
  LET p == [puncher[n] EXCEPT !.endpoint = d.from]
      accepted == p.role = "initiator" /\ p.stage = 1 /\ p.key = None IN
  /\ Arrives(n, d, "msg2")
  /\ \/ /\ accepted
        /\ Complete(n, [p EXCEPT !.key = InitiatorKey(n, d.eph)])
     \/ /\ ~accepted
        /\ puncher' = [puncher EXCEPT ![n] = p]
        /\ UNCHANGED outcomeVars
  /\ UNCHANGED <<addressed, ctl, born, net, packetVars, boundVars>>

\* A waiting timer expires: its handler is queued.
Expire(n, t) ==
  /\ puncher[n] # None
  /\ t \in puncher[n].armed
  /\ puncher' = [puncher EXCEPT ![n].armed = @ \ {t}, ![n].due = @ \union {t}]
  /\ UNCHANGED <<addressed, ctl, outcomeVars, born, net, packetVars, boundVars>>

\* Mutant: the retry handler does not schedule the next retry.
NoiseRetryOnce(n) ==
  /\ puncher[n] # None
  /\ "retry" \in puncher[n].due
  /\ puncher' = [puncher EXCEPT ![n].due = @ \ {"retry"}]
  /\ net' = IF puncher[n].success THEN net ELSE net \union {Handshake(n, puncher[n], 1)}
  /\ UNCHANGED <<addressed, ctl, outcomeVars, born, packetVars, boundVars>>

\* The retry handler sends the last message again and schedules itself.
NoiseRetry(n) ==
  /\ puncher[n] # None
  /\ "retry" \in puncher[n].due
  /\ IF puncher[n].success
     THEN /\ puncher' = [puncher EXCEPT ![n].due = @ \ {"retry"}]
          /\ UNCHANGED net
     ELSE /\ puncher' = [puncher EXCEPT ![n].due = @ \ {"retry"}, ![n].armed = @ \union {"retry"}]
          /\ net' = net \union {Handshake(n, puncher[n], 1)}
  /\ UNCHANGED <<addressed, ctl, outcomeVars, born, packetVars, boundVars>>

\* The mode after a failure.
Fallback == IF HasRelay THEN "relay" ELSE "failed"

\* Mutant: a queued timeout handler does not look at success_.
TimeoutUnchecked(n) ==
  /\ puncher[n] # None
  /\ "timeout" \in puncher[n].due
  /\ puncher' = [puncher EXCEPT ![n].due = @ \ {"timeout"}, ![n].punching = FALSE,
                                ![n].armed = @ \ {"retry"}]
  /\ Outcome(n, Fallback, succeeded[n])
  /\ UNCHANGED <<addressed, ctl, born, net, packetVars, boundVars>>

\* An attempt without success has failed; the client falls back.
Timeout(n) ==
  /\ puncher[n] # None
  /\ "timeout" \in puncher[n].due
  /\ IF puncher[n].success
     THEN /\ puncher' = [puncher EXCEPT ![n].due = @ \ {"timeout"}, ![n].punching = FALSE]
          /\ UNCHANGED outcomeVars
     ELSE /\ puncher' = [puncher EXCEPT ![n].due = @ \ {"timeout"}, ![n].punching = FALSE,
                                        ![n].armed = @ \ {"retry"}]
          /\ Outcome(n, Fallback, succeeded[n])
  /\ UNCHANGED <<addressed, ctl, born, net, packetVars, boundVars>>

-----------------------------------------------------------------------------
(* Packets of the TUN device, once P2P.                                    *)

\* Mutant: both roles encrypt with the first of the two split keys.
SideFirst(n) == "initiator"

\* The one of the two split keys that n encrypts with.
Side(n) == puncher[n].role

\* sendPeerPacket can encrypt and send.
CanSend(n) == puncher[n].success /\ puncher[n].endpoint # None /\ puncher[n].key # None

\* The datagram that carries the next packet of n.
Packet(n) ==
  [from |-> n, to |-> puncher[n].target, at |-> puncher[n].endpoint,
   seq |-> seq[n] + 1, key |-> puncher[n].key, side |-> Side(n)]

\* A client in P2P sends what its TUN device yields to its peer, whatever the
\* destination, and to the server when its puncher cannot send it.
SendPacket(n) ==
  /\ mode[n] = "p2p"
  /\ puncher[n] # None
  /\ seq[n] < MaxPackets
  /\ seq' = [seq EXCEPT ![n] = @ + 1]
  /\ packets' = IF CanSend(n) THEN packets \union {Packet(n)} ELSE packets
  /\ UNCHANGED <<addressed, ctl, clientVars, net, boundVars>>

\* n has keys and d decrypts with the one it receives with.
Opens(n, d) ==
  /\ puncher[n].key # None
  /\ d.key = puncher[n].key
  /\ d.side # Side(n)

\* A packet of the target tells where it is, whether it decrypts or not; what
\* decrypts is written to the TUN device, a copy as often as it arrives.
RecvPacket(n, d) ==
  /\ puncher[n] # None
  /\ d.at = n
  /\ d.to = n
  /\ puncher' = [puncher EXCEPT ![n].endpoint = IF d.from = puncher[n].target THEN d.from ELSE @]
  /\ UNCHANGED <<addressed, ctl, outcomeVars, born, net, packetVars, boundVars>>

-----------------------------------------------------------------------------
(* The network.                                                            *)

Lose(d) ==
  /\ Lossy
  /\ net' = net \ {d}
  /\ UNCHANGED <<addressed, ctl, clientVars, packetVars, boundVars>>

Receive(n) ==
  \E d \in net : RecvPunch(n, d) \/ RecvAck(n, d) \/ RecvMsg1(n, d) \/ RecvMsg2(n, d)

Next ==
  \/ \E n \in Nodes :
       \/ UpdateAddr(n)
       \/ \E t \in Nodes : ConnectPeer(n, t)
       \/ PunchStart(n)
       \/ ResetOutcome(n)
       \/ DropPuncher(n)
       \/ SendPunch(n)
       \/ Receive(n)
       \/ \E t \in Timers : Expire(n, t)
       \/ NoiseRetry(n)
       \/ Timeout(n)
       \/ SendPacket(n)
       \/ \E d \in packets : RecvPacket(n, d)
  \/ \E d \in net : Lose(d)

Spec == Init /\ [][Next]_vars

-----------------------------------------------------------------------------
(* Fairness: the io threads run what is ready (queued signals and handlers, *)
(* bursts and retries that are due), and a link that is used again and      *)
(* again lets a datagram of each kind through in the end.                   *)

Arrive(n, kind) ==
  \E d \in net : d.kind = kind /\ (RecvPunch(n, d) \/ RecvAck(n, d) \/ RecvMsg1(n, d) \/ RecvMsg2(n, d))

LinkFairness(n) ==
  /\ WF_vars(PunchStart(n))
  /\ WF_vars(DropPuncher(n))
  /\ WF_vars(SendPunch(n))
  /\ WF_vars(Expire(n, "retry"))
  /\ WF_vars(NoiseRetry(n))
  /\ \A kind \in {"punch", "ack", "msg1", "msg2"} : SF_vars(Arrive(n, kind))

FairSpec == Spec /\ \A n \in Nodes : LinkFairness(n)

\* The timers alone, and the worker, which stops a puncher without waiting.
TimedSpec ==
  Spec /\ \A n \in Nodes :
    WF_vars(Expire(n, "timeout")) /\ WF_vars(Timeout(n)) /\ WF_vars(DropPuncher(n))

-----------------------------------------------------------------------------
(* Correctness.                                                            *)

BothComplete(n, m) ==
  /\ n # m
  /\ puncher[n] # None /\ puncher[m] # None
  /\ puncher[n].target = m /\ puncher[m].target = n
  /\ puncher[n].key # None /\ puncher[m].key # None

\* Two clients that punched for each other and both completed the handshake
\* hold the same session keys, whatever was lost, repeated or late: packets
\* one encrypts are packets the other can decrypt.
KeysAgree ==
  \A n, m \in Nodes : BothComplete(n, m) => puncher[n].key = puncher[m].key

\* The initiator reports success only when its target already holds the very
\* keys it has: message 2 is not sent before the responder can decrypt.
PeerReadyFirst ==
  \A n \in Nodes :
    puncher[n] # None /\ puncher[n].role = "initiator" /\ puncher[n].success =>
      LET peer == puncher[puncher[n].target] IN
        peer # None /\ peer.success /\ peer.key = puncher[n].key

\* What a client encrypts in its current session, its peer decrypts once it
\* reports P2P with it: no packet between two clients in P2P is dropped as
\* unready or undecryptable.
PacketsReadable ==
  \A d \in packets :
    LET p == puncher[d.from]
        q == puncher[d.to] IN
    /\ p # None /\ p.key = d.key
    /\ q # None /\ q.success /\ q.target = d.from
    => Opens(d.to, d)

\* ChaCha20-Poly1305 needs every nonce of a key used once: no two packets are
\* ever encrypted with the same key and sequence number, in however many
\* attempts and in either role.
NonceOnce ==
  \A d, e \in packets :
    d.key = e.key /\ d.side = e.side /\ d.seq = e.seq => d = e

\* What a client tells the rest of the program (mode_, punch_success_,
\* punch_done_) is what its current puncher did: P2P exactly when that
\* puncher succeeded; a relay or failed client has a puncher (its socket
\* carries the relay traffic) that no longer punches.  The exception is an
\* outcome that lands while the worker tears the P2P state down: it stays, as
\* P2P even, when the puncher is gone.  Then too a client with an outcome has
\* punch_done_ set, so that it takes the next punch_start, which clears it.
ModeTracksPuncher ==
  \A n \in Nodes :
    /\ mode[n] # "punching" => done[n]
    /\ mode[n] = "p2p" => succeeded[n]
    /\ ~torn[n] =>
         /\ done[n] <=> mode[n] # "punching"
         /\ succeeded[n] <=> mode[n] = "p2p"
         /\ mode[n] # "punching" => puncher[n] # None /\ ~puncher[n].punching
         /\ succeeded[n] => puncher[n].success
         /\ puncher[n] # None /\ puncher[n].success => succeeded[n] \/ tearing[n]

\* A client leaves P2P only to punch again: no late timer handler, ack or
\* handshake copy turns a success into a failure or a relay fallback.
NeverDemoted ==
  [][\A n \in Nodes : mode[n] = "p2p" => mode'[n] \in {"p2p", "punching"}]_vars

\* A puncher that has its keys keeps them: repeated handshake messages never
\* rekey it, and only a new puncher starts without keys.
KeyStable ==
  [][\A n \in Nodes :
       puncher[n] # None /\ puncher'[n] # None /\ puncher'[n].inc = puncher[n].inc
         /\ puncher[n].key # None
       => puncher'[n].key = puncher[n].key]_vars

\* Two clients that punch for each other both get to P2P, in spite of losses,
\* unless one of them runs out of time.
Converges ==
  \A n, m \in Nodes :
    (n # m /\ puncher[n] # None /\ puncher[m] # None)
      ~> (mode[n] = "p2p" /\ mode[m] = "p2p") \/ \E k \in {n, m} : mode[k] \in {"failed", "relay"}

\* Every attempt ends: a client that punches is done in the end.
AttemptEnds ==
  \A n \in Nodes : puncher[n] # None ~> (done[n] \/ puncher[n] = None)
=============================================================================
