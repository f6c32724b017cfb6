------------------------- MODULE PuncherPairProofs -------------------------
(***************************************************************************)
(* Proofs about the first pair of clients the server tells about each      *)
(* other, for any number of clients, packets and lost, repeated or late    *)
(* datagrams: as long as the server has sent no other signal the two agree *)
(* on the session keys and read each other's packets, and the initiator    *)
(* has not completed before the responder.  The next signal ends that: a   *)
(* message of the first attempt can then complete the second.              *)
(***************************************************************************)
EXTENDS PuncherProofs

\* What the server tells the two clients of a pair, i to initiate.
Told(i, r, n) == IF n = i THEN Start(r, "initiator") ELSE Start(i, "responder")

\* The only keys the two can split.
PairKey(i, r) == [ei |-> <<i, 1>>, er |-> <<r, 1>>, init |-> i, resp |-> r]

\* Only the two are told, each once, and create one puncher from it.
ToldOnce(i, r) ==
  \A n \in Nodes :
    /\ born[n] <= 1
    /\ ctl[n] # <<>> => n \in {i, r} /\ ctl[n] = <<Told(i, r, n)>> /\ born[n] = 0

\* The puncher of a client is the one the signal asked for; its keys, if any,
\* are those of the pair, and only the initiator ever sends a message again.
ToldPuncher(i, r, n, p) ==
  /\ n \in {i, r}
  /\ p.inc = 1
  /\ p.target = Told(i, r, n).peer
  /\ p.role = Told(i, r, n).role
  /\ p.key \in {None, PairKey(i, r)}
  /\ "retry" \in p.armed \union p.due => n = i

PairPunchers(i, r) ==
  \A n \in Nodes : puncher[n] # None => ToldPuncher(i, r, n, puncher[n])

\* The handshake messages on their way carry the ephemerals of the pair.
PairMessages(i, r) ==
  \A d \in net :
    /\ d.kind = "msg1" => d.eph = <<i, 1>>
    /\ d.kind = "msg2" => d.eph = <<r, 1>>

\* The responder has its keys before there is a message 2, and so before the
\* initiator has any; only a lost control connection takes them away.
ResponderFirst(i, r) ==
  /\ reconnects = 0
  /\ (\E d \in net : d.kind = "msg2") \/ (puncher[i] # None /\ puncher[i].key # None)
  => puncher[r] # None /\ puncher[r].key # None

\* What every step preserves while i and r are the only pair.
PairInv(i, r) ==
  ToldOnce(i, r) /\ PairPunchers(i, r) /\ PairMessages(i, r) /\ ResponderFirst(i, r)

\* Nobody has been told about anybody.
Untold ==
  /\ \A n \in Nodes : ctl[n] = <<>> /\ born[n] = 0 /\ puncher[n] = None
  /\ net = {}

\* The server has told nobody, or one pair.
OnePair ==
  \/ signals = 0 /\ Untold
  \/ signals = 1 /\ \E i, r \in Nodes : i # r /\ PairInv(i, r)

-----------------------------------------------------------------------------
(* Signals.                                                                *)

\* The two ends of a signal are told once, in opposite roles.
Paired(i, r) ==
  ctl' = [m \in Nodes |-> IF m \in {i, r} THEN Append(ctl[m], Told(i, r, m)) ELSE ctl[m]]

\* A reported address that the server pairs with one other node tells the two.
LEMMA UpdateAddrPairs ==
  ASSUME IInv, NEW n \in Nodes, UpdateAddr(n), signals' <= 1
  PROVE  \/ signals' = signals /\ UNCHANGED ctl
         \/ /\ signals = 0 /\ signals' = 1
            /\ \E i, r \in Nodes : i # r /\ Paired(i, r)
<1> DEFINE peers == addressed \ {n}
<1>1. IsFiniteSet(peers) /\ Cardinality(peers) \in Nat /\ peers \subseteq Nodes /\ n \notin peers
  BY PuncherAssumption, FS_Subset, FS_CardinalityType DEF IInv, TypeOK
<1>2. signals \in Nat /\ signals' = signals + Cardinality(peers) /\ ctl \in [Nodes -> Seq(Starts)]
  BY DEF UpdateAddr, IInv, TypeOK
<1>3. PICK order \in SetToSeqs(peers) :
        ctl' = [m \in Nodes |->
                  IF m = n
                  THEN ctl[n] \o [k \in DOMAIN order |-> AutoStart(n, order[k])]
                  ELSE IF m \in peers THEN Append(ctl[m], AutoStart(m, n)) ELSE ctl[m]]
  BY DEF UpdateAddr
<1>4. order \in [1..Cardinality(peers) -> peers]
  BY DEF SetToSeqs
<1> DEFINE starts == [k \in DOMAIN order |-> AutoStart(n, order[k])]
<1>5. CASE Cardinality(peers) = 0
  <2>1. peers = {}
    BY <1>1, <1>5, FS_EmptySet
  <2>2. starts = <<>>
    BY <1>4, <1>5
  <2>3. ctl[n] \o starts = ctl[n]
    BY <1>2, <2>2, ConcatEmptySeq
  <2> HIDE DEF starts
  <2>4. ctl' = ctl
    BY <1>2, <1>3, <2>1, <2>3 DEF starts
  <2>5. QED
    BY <1>2, <1>5, <2>4
<1>6. CASE Cardinality(peers) = 1
  <2>1. PICK p : peers = {p}
    BY <1>1, <1>6, FS_Singleton
  <2>2. p \in Nodes /\ p # n /\ n \in Int /\ p \in Int
    <3>1. p \in peers
      BY <2>1
    <3> HIDE DEF peers
    <3>2. p \in Nodes /\ p # n
      BY <1>1, <3>1
    <3>3. QED
      BY <3>2, PuncherAssumption
  <2>3. starts = <<AutoStart(n, p)>>
    <3>1. order \in [1..1 -> {p}]
      BY <1>4, <1>6, <2>1
    <3>2. DOMAIN order = 1..1 /\ order[1] = p
      BY <3>1
    <3>3. starts = [k \in 1..1 |-> AutoStart(n, p)]
      BY <3>2
    <3> HIDE DEF starts
    <3>4. QED
      BY <3>3
  <2>4. ctl[n] \o starts = Append(ctl[n], AutoStart(n, p))
    BY <1>2, <2>3
  <2> HIDE DEF starts
  <2> DEFINE i == IF n < p THEN n ELSE p
             r == IF n < p THEN p ELSE n
  <2>5. /\ i \in Nodes /\ r \in Nodes /\ i # r /\ {i, r} = {n, p}
        /\ AutoStart(n, p) = Told(i, r, n) /\ AutoStart(p, n) = Told(i, r, p)
    BY <2>2 DEF AutoStart, Told
  <2> HIDE DEF i, r
  <2>6. Paired(i, r)
    BY <1>3, <2>1, <2>2, <2>4, <2>5 DEF Paired, starts
  <2>7. QED
    BY <1>2, <1>6, <2>5, <2>6
<1>7. QED
  BY <1>1, <1>2, <1>5, <1>6

\* So does a requested connection.
LEMMA ConnectPeerPairs ==
  ASSUME IInv, NEW i \in Nodes, NEW r \in Nodes, ConnectPeer(i, r)
  PROVE  i # r /\ signals' = signals + 1 /\ Paired(i, r)
<1>1. i # r /\ ctl \in [Nodes -> Seq(Starts)] /\ signals' = signals + 1
  BY PuncherAssumption DEF ConnectPeer, IInv, TypeOK
<1>2. ctl' = [ctl EXCEPT ![i] = Append(@, Told(i, r, i)), ![r] = Append(@, Told(i, r, r))]
  BY <1>1 DEF ConnectPeer, Told
<1>3. QED
  BY <1>1, <1>2 DEF Paired

\* The first signal makes its ends the pair: neither has a puncher yet.
LEMMA FirstPair ==
  ASSUME IInv, Untold, NEW i \in Nodes, NEW r \in Nodes, i # r, Paired(i, r),
         UNCHANGED <<clientVars, net>>
  PROVE  PairInv(i, r)'
<1>1. \A n \in Nodes : ctl'[n] = IF n \in {i, r} THEN <<Told(i, r, n)>> ELSE <<>>
  <2>1. \A start : Append(<<>>, start) = <<start>>
    OBVIOUS
  <2>2. \A n \in Nodes : ctl'[n] = IF n \in {i, r} THEN Append(ctl[n], Told(i, r, n)) ELSE ctl[n]
    BY DEF Paired
  <2>3. \A n \in Nodes : ctl[n] = <<>>
    BY DEF Untold
  <2>4. QED
    BY <2>1, <2>2, <2>3
<1>2. /\ \A n \in Nodes : born'[n] = 0 /\ puncher'[n] = None
      /\ net' = {}
  BY DEF Untold, clientVars
<1>3. ToldOnce(i, r)'
  <2>1. SUFFICES ASSUME NEW n \in Nodes
                 PROVE  /\ born'[n] <= 1
                        /\ ctl'[n] # <<>> => n \in {i, r} /\ ctl'[n] = <<Told(i, r, n)>> /\ born'[n] = 0
    BY DEF ToldOnce
  <2>2. born'[n] = 0
    BY <1>2
  <2>3. ctl'[n] # <<>> => n \in {i, r} /\ ctl'[n] = <<Told(i, r, n)>>
    BY <1>1
  <2>4. QED
    BY <2>2, <2>3
<1>4. PairPunchers(i, r)' /\ PairMessages(i, r)' /\ ResponderFirst(i, r)'
  BY <1>2 DEF PairPunchers, PairMessages, ResponderFirst
<1>5. QED
  BY <1>3, <1>4 DEF PairInv

\* A puncher of the pair knows its role and its peer.
LEMMA PairRoles ==
  ASSUME IInv, NEW i \in Nodes, NEW r \in Nodes, i # r, PairInv(i, r),
         NEW n \in Nodes, puncher[n] # None
  PROVE  /\ ToldPuncher(i, r, n, puncher[n])
         /\ puncher[n].role = "initiator" => n = i /\ puncher[n].target = r
         /\ puncher[n].role = "responder" => n = r /\ puncher[n].target = i
         /\ Own(n) = <<n, 1>>
  BY DEF PairInv, PairPunchers, ToldPuncher, Told, Start, Own

-----------------------------------------------------------------------------
(* Steps of the pair.                                                      *)

\* The pair has been told and has no new puncher.
LEMMA ToldQuiet ==
  ASSUME NEW i \in Nodes, NEW r \in Nodes, ToldOnce(i, r), UNCHANGED <<ctl, born>>
  PROVE  ToldOnce(i, r)'
  BY DEF ToldOnce

\* A handler of n replaces its puncher by p and may send: the invariant of the
\* pair asks that p is still the puncher the signal asked for, that a message
\* carries its sender's ephemeral, and that message 2 and the keys of the
\* initiator wait for those of the responder.
LEMMA EngineStep ==
  ASSUME IInv, NEW i \in Nodes, NEW r \in Nodes, i # r, PairInv(i, r),
         NEW n \in Nodes, puncher[n] # None, NEW p \in Punchers,
         puncher' = [puncher EXCEPT ![n] = p], UNCHANGED <<ctl, born, reconnects>>,
         ToldPuncher(i, r, n, p),
         puncher[n].key # None => p.key # None,
         \A d \in net' \ net :
           /\ d.kind = "msg1" => d.eph = <<i, 1>>
           /\ d.kind = "msg2" => d.eph = <<r, 1>> /\ n = r /\ p.key # None,
         /\ reconnects = 0 /\ n = i /\ p.key # None /\ puncher[n].key = None
         => puncher[r] # None /\ puncher[r].key # None
  PROVE  PairInv(i, r)'
<1>1. puncher \in [Nodes -> Punchers \union {None}]
  BY DEF IInv, TypeOK
<1>2. p # None /\ \A m \in Nodes : puncher'[m] = IF m = n THEN p ELSE puncher[m]
  BY <1>1, NoneAssumption
<1>3. ToldOnce(i, r)'
  BY ToldQuiet DEF PairInv
<1>4. PairPunchers(i, r)'
  BY <1>2 DEF PairInv, PairPunchers
<1>5. PairMessages(i, r)'
  BY DEF PairInv, PairMessages
<1>6. ResponderFirst(i, r)'
  <2>1. SUFFICES ASSUME reconnects = 0,
                        (\E d \in net' : d.kind = "msg2") \/ (puncher'[i] # None /\ puncher'[i].key # None)
                 PROVE  puncher'[r] # None /\ puncher'[r].key # None
    BY DEF ResponderFirst
  <2>2. puncher[r] # None /\ puncher[r].key # None => puncher'[r] # None /\ puncher'[r].key # None
    BY <1>2
  <2>3. CASE \E d \in net : d.kind = "msg2"
    BY <2>1, <2>2, <2>3 DEF PairInv, ResponderFirst
  <2>4. CASE \E d \in net' \ net : d.kind = "msg2"
    BY <1>2, <2>4
  <2>5. CASE puncher'[i] # None /\ puncher'[i].key # None
    BY <1>2, <2>1, <2>2, <2>5 DEF PairInv, ResponderFirst
  <2>6. QED
    BY <2>1, <2>3, <2>4, <2>5
<1>7. QED
  BY <1>3, <1>4, <1>5, <1>6 DEF PairInv

\* A client reads its signal and creates the puncher it asks for.
LEMMA PairPunchStart ==
  ASSUME IInv, NEW i \in Nodes, NEW r \in Nodes, i # r, PairInv(i, r),
         NEW n \in Nodes, PunchStart(n)
  PROVE  PairInv(i, r)'
<1>1. /\ n \in {i, r} /\ ctl[n] = <<Told(i, r, n)>> /\ born[n] = 0
      /\ ctl \in [Nodes -> Seq(Starts)] /\ born \in [Nodes -> Nat]
      /\ puncher \in [Nodes -> Punchers \union {None}]
  BY DEF PunchStart, PairInv, ToldOnce, IInv, TypeOK
<1>2. puncher[n] = None
  <2>1. puncher[n] # None => puncher[n].inc = 1
    BY DEF PairInv, PairPunchers, ToldPuncher
  <2>2. puncher[n] # None => puncher[n].inc <= 0
    BY <1>1 DEF IInv, OutcomeInv, BornBefore
  <2>3. QED
    BY <2>1, <2>2
<1> DEFINE p == NewPuncher(n, Told(i, r, n))
<1>3. ToldPuncher(i, r, n, p) /\ p.key = None
  BY <1>1 DEF NewPuncher, ToldPuncher
<1>4. Head(ctl[n]) = Told(i, r, n) /\ Tail(ctl[n]) = <<>>
  BY <1>1
<1>5. /\ ctl' = [ctl EXCEPT ![n] = <<>>]
      /\ UNCHANGED <<net, reconnects>>
      /\ \/ puncher' = [puncher EXCEPT ![n] = p] /\ born' = [born EXCEPT ![n] = @ + 1]
         \/ puncher' = [puncher EXCEPT ![n] = None] /\ UNCHANGED born
  BY <1>2, <1>4 DEF PunchStart, boundVars
<1> HIDE DEF p
<1>6. ToldOnce(i, r)'
  BY <1>1, <1>5 DEF PairInv, ToldOnce
<1>7. PairPunchers(i, r)'
  BY <1>1, <1>3, <1>5 DEF PairInv, PairPunchers
<1>8. PairMessages(i, r)'
  BY <1>5 DEF PairInv, PairMessages
<1>9. ResponderFirst(i, r)'
  BY <1>1, <1>2, <1>3, <1>5 DEF PairInv, ResponderFirst
<1>10. QED
  BY <1>6, <1>7, <1>8, <1>9 DEF PairInv

\* A lost control connection takes a puncher away, and whoever waits for the
\* responder no longer has the promise that it is ready.
LEMMA PairReconnect ==
  ASSUME IInv, NEW i \in Nodes, NEW r \in Nodes, i # r, PairInv(i, r),
         NEW n \in Nodes, DropPuncher(n)
  PROVE  PairInv(i, r)'
<1>0. PICK k \in 0..Len(ctl[n]) : ctl' = [ctl EXCEPT ![n] = SubSeq(@, 1, k)]
  BY DEF DropPuncher
<1>1. /\ puncher' = [puncher EXCEPT ![n] = None]
      /\ UNCHANGED <<born, net>> /\ reconnects' # 0
      /\ ctl \in [Nodes -> Seq(Starts)] /\ puncher \in [Nodes -> Punchers \union {None}]
      /\ \A m \in Nodes : ctl'[m] = ctl[m] \/ ctl'[m] = <<>>
  <2>1. ctl \in [Nodes -> Seq(Starts)]
    BY DEF IInv, TypeOK
  <2>2. ctl[n] \in Seq(Starts) /\ Len(ctl[n]) \in {0, 1}
    <3>1. ctl[n] = <<>> \/ ctl[n] = <<Told(i, r, n)>>
      BY DEF PairInv, ToldOnce
    <3>2. \A x : Len(<<x>>) = 1
      OBVIOUS
    <3>3. Len(<<>>) = 0
      OBVIOUS
    <3>4. QED
      BY <2>1, <3>1, <3>2, <3>3
  <2>3. SubSeq(ctl[n], 1, k) \in {<<>>, ctl[n]}
    <3>1. SubSeq(ctl[n], 1, 0) = <<>>
      BY SubSeqEmpty
    <3>2. SubSeq(ctl[n], 1, Len(ctl[n])) = ctl[n]
      BY <2>2, SubSeqFull
    <3>3. k = 0 \/ k = Len(ctl[n])
      BY <1>0, <2>2
    <3>4. QED
      BY <3>1, <3>2, <3>3
  <2>4. \A m \in Nodes : ctl'[m] = ctl[m] \/ ctl'[m] = <<>>
    BY <1>0, <2>1, <2>3
  <2>5. reconnects' # 0
    BY DEF DropPuncher, IInv, OutcomeInv, TearingClears, boundVars
  <2>6. QED
    BY <2>1, <2>4, <2>5 DEF DropPuncher, IInv, TypeOK
<1>2. ToldOnce(i, r)'
  BY <1>1 DEF PairInv, ToldOnce
<1>3. PairPunchers(i, r)'
  BY <1>1 DEF PairInv, PairPunchers
<1>4. PairMessages(i, r)' /\ ResponderFirst(i, r)'
  BY <1>1 DEF PairInv, PairMessages, ResponderFirst
<1>5. QED
  BY <1>2, <1>3, <1>4 DEF PairInv

\* Steps that change no client and send no handshake message.
LEMMA PairQuiet ==
  ASSUME NEW i \in Nodes, NEW r \in Nodes, PairInv(i, r), UNCHANGED <<ctl, puncher, born, reconnects>>,
         \A d \in net' \ net : d.kind \notin {"msg1", "msg2"}
  PROVE  PairInv(i, r)'
<1>1. ToldOnce(i, r)' /\ PairPunchers(i, r)' /\ PairMessages(i, r)'
  BY DEF PairInv, ToldOnce, PairPunchers, PairMessages
<1>2. ResponderFirst(i, r)'
  BY DEF PairInv, ResponderFirst
<1>3. QED
  BY <1>1, <1>2 DEF PairInv

\* A puncher stays the one the signal asked for while its handlers change its
\* endpoint, its progress and its timers, and only the initiator's retries.
LEMMA ToldSame ==
  ASSUME NEW i, NEW r, NEW n, NEW p, NEW q, ToldPuncher(i, r, n, p),
         q.inc = p.inc, q.target = p.target, q.role = p.role,
         q.key \in {p.key, PairKey(i, r)},
         "retry" \in q.armed \union q.due => "retry" \in p.armed \union p.due \/ n = i
  PROVE  ToldPuncher(i, r, n, q)
  BY DEF ToldPuncher

\* The keys of the pair are keys.
LEMMA PairKeyType ==
  ASSUME NEW i \in Nodes, NEW r \in Nodes
  PROVE  PairKey(i, r) \in Keys /\ PairKey(i, r) # None
<1>1. <<i, 1>> \in Ephemerals /\ <<r, 1>> \in Ephemerals
  BY DEF Ephemerals
<1>2. PairKey(i, r) \in Keys
  BY <1>1 DEF PairKey, Keys
<1>3. QED
  BY <1>2, NoneAssumption

\* A handler that keeps the keys of the puncher of n and sends messages only
\* of its own ephemeral, message 2 only as the responder that has its keys.
LEMMA PairSame ==
  ASSUME IInv, NEW i \in Nodes, NEW r \in Nodes, i # r, PairInv(i, r),
         NEW n \in Nodes, puncher[n] # None, NEW p \in Punchers,
         puncher' = [puncher EXCEPT ![n] = p], UNCHANGED <<ctl, born, reconnects>>,
         p.inc = puncher[n].inc, p.target = puncher[n].target,
         p.role = puncher[n].role, p.key = puncher[n].key,
         "retry" \in p.armed \union p.due =>
           "retry" \in puncher[n].armed \union puncher[n].due \/ n = i,
         \A d \in net' \ net :
           /\ d.kind = "msg1" => n = i /\ d.eph = Own(n)
           /\ d.kind = "msg2" => n = r /\ d.eph = Own(n) /\ puncher[n].key # None
  PROVE  PairInv(i, r)'
<1>1. ToldPuncher(i, r, n, puncher[n]) /\ Own(n) = <<n, 1>>
  BY PairRoles
<1>2. ToldPuncher(i, r, n, p)
  BY <1>1, ToldSame
<1>3. \A d \in net' \ net :
        /\ d.kind = "msg1" => d.eph = <<i, 1>>
        /\ d.kind = "msg2" => d.eph = <<r, 1>> /\ n = r /\ p.key # None
  BY <1>1
<1>4. QED
  BY <1>2, <1>3, EngineStep

\* Punches and packets change an endpoint.
LEMMA PairEndpoint ==
  ASSUME IInv, NEW i \in Nodes, NEW r \in Nodes, i # r, PairInv(i, r), NEW n \in Nodes,
         (\E d \in net : RecvPunch(n, d)) \/ (\E d \in packets : RecvPacket(n, d))
  PROVE  PairInv(i, r)'
<1>1. PICK d \in net \union packets :
        d.from \in Nodes /\ ((d \in net /\ RecvPunch(n, d)) \/ (d \in packets /\ RecvPacket(n, d)))
  BY ArrivalType DEF IInv, TypeOK, RecvPunch, Packets
<1> DEFINE p == [puncher[n] EXCEPT !.endpoint = IF d.from = puncher[n].target THEN d.from ELSE @]
<1>2. puncher[n] # None /\ puncher' = [puncher EXCEPT ![n] = p]
  BY <1>1 DEF RecvPunch, RecvPacket, Arrives
<1>3. /\ p \in Punchers
      /\ p.inc = puncher[n].inc /\ p.target = puncher[n].target /\ p.role = puncher[n].role
      /\ p.key = puncher[n].key /\ p.armed = puncher[n].armed /\ p.due = puncher[n].due
  BY <1>1, <1>2, PuncherFields DEF IInv, Punchers
<1> HIDE DEF p
<1>4. UNCHANGED <<ctl, born, reconnects>> /\ \A e \in net' \ net : e.kind = "ack"
  <2>1. CASE RecvPunch(n, d)
    BY <2>1 DEF RecvPunch, boundVars, Datagram
  <2>2. CASE RecvPacket(n, d)
    BY <2>2 DEF RecvPacket, boundVars
  <2>3. QED
    BY <1>1, <2>1, <2>2
<1>5. QED
  BY <1>2, <1>3, <1>4, PairSame

\* Expiring timers and the timeout handler arm nothing.
LEMMA PairTimers ==
  ASSUME IInv, NEW i \in Nodes, NEW r \in Nodes, i # r, PairInv(i, r), NEW n \in Nodes,
         (\E t \in Timers : Expire(n, t)) \/ Timeout(n)
  PROVE  PairInv(i, r)'
<1>1. puncher[n] # None /\ UNCHANGED <<ctl, born, net, reconnects>>
  BY DEF Expire, Timeout, boundVars
<1>2. ASSUME NEW t \in Timers, Expire(n, t) PROVE PairInv(i, r)'
  <2> DEFINE p == [puncher[n] EXCEPT !.armed = @ \ {t}, !.due = @ \union {t}]
  <2>1. /\ p \in Punchers
        /\ p.inc = puncher[n].inc /\ p.target = puncher[n].target /\ p.role = puncher[n].role
        /\ p.key = puncher[n].key
        /\ p.armed \union p.due = puncher[n].armed \union puncher[n].due
    BY <1>1, <1>2, PuncherFields DEF IInv, Punchers, Expire
  <2>2. puncher' = [puncher EXCEPT ![n] = p]
    BY <1>2 DEF Expire, IInv, TypeOK
  <2> HIDE DEF p
  <2>3. QED
    BY <1>1, <2>1, <2>2, PairSame
<1>3. CASE Timeout(n)
  <2> DEFINE p == [puncher[n] EXCEPT !.due = @ \ {"timeout"}, !.punching = FALSE]
             q == [puncher[n] EXCEPT !.due = @ \ {"timeout"}, !.punching = FALSE,
                                     !.armed = @ \ {"retry"}]
  <2>1. /\ p \in Punchers
        /\ p.inc = puncher[n].inc /\ p.target = puncher[n].target /\ p.role = puncher[n].role
        /\ p.key = puncher[n].key
        /\ p.armed \union p.due \subseteq puncher[n].armed \union puncher[n].due
    BY <1>1, PuncherFields DEF IInv, Punchers
  <2>2. /\ q \in Punchers
        /\ q.inc = puncher[n].inc /\ q.target = puncher[n].target /\ q.role = puncher[n].role
        /\ q.key = puncher[n].key
        /\ q.armed \union q.due \subseteq puncher[n].armed \union puncher[n].due
    BY <1>1, PuncherFields DEF IInv, Punchers
  <2>3. puncher' = [puncher EXCEPT ![n] = p] \/ puncher' = [puncher EXCEPT ![n] = q]
    BY <1>3 DEF Timeout, IInv, TypeOK
  <2> HIDE DEF p, q
  <2>4. CASE puncher' = [puncher EXCEPT ![n] = p]
    BY <1>1, <2>1, <2>4, PairSame
  <2>5. CASE puncher' = [puncher EXCEPT ![n] = q]
    BY <1>1, <2>2, <2>5, PairSame
  <2>6. QED
    BY <2>3, <2>4, <2>5
<1>4. QED
  BY <1>2, <1>3

\* Only the initiator has a retry timer, so what it repeats is message 1.
LEMMA PairRetry ==
  ASSUME IInv, NEW i \in Nodes, NEW r \in Nodes, i # r, PairInv(i, r), NEW n \in Nodes,
         NoiseRetry(n)
  PROVE  PairInv(i, r)'
<1>1. puncher[n] # None /\ "retry" \in puncher[n].due /\ UNCHANGED <<ctl, born, reconnects>>
  BY DEF NoiseRetry, boundVars
<1>2. n = i
  BY <1>1, PairRoles DEF ToldPuncher
<1> DEFINE p == [puncher[n] EXCEPT !.due = @ \ {"retry"}]
           q == [puncher[n] EXCEPT !.due = @ \ {"retry"}, !.armed = @ \union {"retry"}]
<1>3. /\ p \in Punchers
      /\ p.inc = puncher[n].inc /\ p.target = puncher[n].target /\ p.role = puncher[n].role
      /\ p.key = puncher[n].key
  BY <1>1, PuncherFields DEF IInv, Punchers
<1>4. /\ q \in Punchers
      /\ q.inc = puncher[n].inc /\ q.target = puncher[n].target /\ q.role = puncher[n].role
      /\ q.key = puncher[n].key
  BY <1>1, PuncherFields DEF IInv, Punchers, Timers
<1>5. puncher' = [puncher EXCEPT ![n] = p] \/ puncher' = [puncher EXCEPT ![n] = q]
  BY DEF NoiseRetry, IInv, TypeOK
<1>6. \A d \in net' \ net : d.kind = "msg1" /\ d.eph = Own(n)
  BY DEF NoiseRetry, Handshake, Datagram, Own
<1> HIDE DEF p, q
<1>7. CASE puncher' = [puncher EXCEPT ![n] = p]
  BY <1>1, <1>2, <1>3, <1>6, <1>7, PairSame
<1>8. CASE puncher' = [puncher EXCEPT ![n] = q]
  BY <1>1, <1>2, <1>4, <1>6, <1>8, PairSame
<1>9. QED
  BY <1>5, <1>7, <1>8

\* An ack starts the handshake of the initiator and no other.
LEMMA PairAck ==
  ASSUME IInv, NEW i \in Nodes, NEW r \in Nodes, i # r, PairInv(i, r), NEW n \in Nodes,
         NEW d \in net, RecvAck(n, d)
  PROVE  PairInv(i, r)'
<1> DEFINE p == Acked(n, d)
           q == [p EXCEPT !.armed = @ \union {"timeout"}]
           s == Started(p)
<1>1. puncher[n] # None /\ d.from \in Nodes /\ UNCHANGED <<ctl, born, reconnects>>
  BY ArrivalType DEF RecvAck, Arrives, IInv, boundVars
<1>2. /\ p \in Punchers
      /\ p.inc = puncher[n].inc /\ p.target = puncher[n].target /\ p.role = puncher[n].role
      /\ p.key = puncher[n].key /\ p.armed = puncher[n].armed /\ p.due = puncher[n].due
  BY <1>1, PuncherFields DEF IInv, Acked, Punchers
<1>3. p.role = "initiator" => n = i
  BY <1>1, <1>2, PairRoles
<1>4. /\ q \in Punchers
      /\ q.inc = p.inc /\ q.target = p.target /\ q.role = p.role /\ q.key = p.key
      /\ "retry" \in q.armed \union q.due => "retry" \in p.armed \union p.due
  BY <1>2 DEF Punchers, Timers
<1>5. /\ s \in Punchers
      /\ s.inc = p.inc /\ s.target = p.target /\ s.role = p.role /\ s.key = p.key
  <2>1. 1 \in 0..2 /\ Timers \in SUBSET Timers
    OBVIOUS
  <2>2. s \in Punchers
    <3> HIDE DEF p
    <3> QED BY <1>2, <2>1, StageType DEF Started
  <2>3. QED
    BY <1>2, <2>2 DEF Punchers, Started
<1>6. \/ puncher' = [puncher EXCEPT ![n] = p] /\ net' = net
      \/ puncher' = [puncher EXCEPT ![n] = q] /\ net' = net
      \/ /\ p.role = "initiator"
         /\ puncher' = [puncher EXCEPT ![n] = p] \/ puncher' = [puncher EXCEPT ![n] = s]
         /\ net' = net \union {Handshake(n, p, 1)}
  BY DEF RecvAck
<1>7. Handshake(n, p, 1).kind = "msg1" /\ Handshake(n, p, 1).eph = Own(n)
  BY <1>2 DEF Handshake, Datagram, Own
<1> HIDE DEF p, q, s
<1>8. CASE puncher' = [puncher EXCEPT ![n] = p]
  <2>1. \A e \in net' \ net : n = i /\ e.kind = "msg1" /\ e.eph = Own(n)
    BY <1>3, <1>6, <1>7
  <2>2. QED
    BY <1>1, <1>2, <1>8, <2>1, PairSame
<1>9. CASE puncher' = [puncher EXCEPT ![n] = q] /\ net' = net
  BY <1>1, <1>2, <1>4, <1>9, PairSame
<1>10. CASE /\ p.role = "initiator" /\ puncher' = [puncher EXCEPT ![n] = s]
            /\ net' = net \union {Handshake(n, p, 1)}
  <2>1. \A e \in net' \ net : n = i /\ e.kind = "msg1" /\ e.eph = Own(n)
    BY <1>3, <1>7, <1>10
  <2>2. /\ s \in Punchers /\ n = i
        /\ s.inc = puncher[n].inc /\ s.target = puncher[n].target
        /\ s.role = puncher[n].role /\ s.key = puncher[n].key
    BY <1>2, <1>3, <1>5, <1>10
  <2>3. puncher' = [puncher EXCEPT ![n] = s]
    BY <1>10
  <2>4. QED
    BY <1>1, <2>1, <2>2, <2>3, PairSame
<1>11. QED
  BY <1>6, <1>8, <1>9, <1>10

\* A handler that gives the puncher of n the keys of the pair and cancels its
\* timers, the initiator's only when the responder has them.
LEMMA PairKeyed ==
  ASSUME IInv, NEW i \in Nodes, NEW r \in Nodes, i # r, PairInv(i, r),
         NEW n \in Nodes, puncher[n] # None, NEW p \in Punchers,
         puncher' = [puncher EXCEPT ![n] = p], UNCHANGED <<ctl, born, reconnects>>,
         p.inc = puncher[n].inc, p.target = puncher[n].target,
         p.role = puncher[n].role, p.key = PairKey(i, r),
         "retry" \in p.armed \union p.due =>
           "retry" \in puncher[n].armed \union puncher[n].due \/ n = i,
         \A d \in net' \ net : d.kind = "msg2" /\ n = r /\ d.eph = <<r, 1>>,
         reconnects = 0 /\ n = i => puncher[r] # None /\ puncher[r].key # None
  PROVE  PairInv(i, r)'
<1>1. ToldPuncher(i, r, n, puncher[n])
  BY PairRoles
<1>2. ToldPuncher(i, r, n, p)
  BY <1>1, ToldSame
<1>3. p.key # None
  BY PairKeyType
<1>4. \A d \in net' \ net :
        /\ d.kind = "msg1" => d.eph = <<i, 1>>
        /\ d.kind = "msg2" => d.eph = <<r, 1>> /\ n = r /\ p.key # None
  BY <1>3
<1>5. QED
  BY <1>2, <1>3, <1>4, EngineStep

\* completeSecurePunch leaves a puncher that differs in success and timers.
LEMMA CompletedPuncher ==
  ASSUME NEW n \in Nodes, NEW p \in Punchers, Complete(n, p)
  PROVE  \E q \in Punchers :
           /\ puncher' = [puncher EXCEPT ![n] = q]
           /\ q.inc = p.inc /\ q.target = p.target /\ q.role = p.role /\ q.key = p.key
           /\ q.armed \union q.due \subseteq p.due
<1> DEFINE q == [p EXCEPT !.success = TRUE, !.punching = FALSE, !.armed = {}]
<1>1. puncher' = [puncher EXCEPT ![n] = q]
  BY DEF Complete
<1>2. /\ q \in Punchers
      /\ q.inc = p.inc /\ q.target = p.target /\ q.role = p.role /\ q.key = p.key
      /\ q.armed = {} /\ q.due = p.due
  BY DEF Punchers
<1> HIDE DEF q
<1>3. QED
  BY <1>1, <1>2

\* The responder splits the keys of the pair on message 1 and answers.
LEMMA PairMsg1 ==
  ASSUME IInv, NEW i \in Nodes, NEW r \in Nodes, i # r, PairInv(i, r), NEW n \in Nodes,
         NEW d \in net, RecvMsg1(n, d)
  PROVE  PairInv(i, r)'
<1> DEFINE p == [puncher[n] EXCEPT !.endpoint = d.from]
           key == ResponderKey(n, d.eph)
           q == [p EXCEPT !.key = key, !.stage = 2]
           answer == Handshake(n, p, 2)
<1>1. /\ puncher[n] # None /\ d.from \in Nodes /\ d.kind = "msg1" /\ d.eph \in Ephemerals
      /\ UNCHANGED <<ctl, born, reconnects>>
  BY ArrivalType DEF RecvMsg1, Arrives, IInv, boundVars
<1>2. /\ p \in Punchers
      /\ p.inc = puncher[n].inc /\ p.target = puncher[n].target /\ p.role = puncher[n].role
      /\ p.key = puncher[n].key /\ p.armed = puncher[n].armed /\ p.due = puncher[n].due
  BY <1>1, PuncherFields DEF IInv, Punchers
<1>3. /\ d.eph = <<i, 1>> /\ Own(n) = <<n, 1>>
      /\ p.role = "responder" => n = r /\ p.target = i
  BY <1>1, <1>2, PairRoles DEF PairInv, PairMessages
<1>4. p.role = "responder" => key = PairKey(i, r)
  BY <1>2, <1>3 DEF ResponderKey, PairKey
<1>5. answer.kind = "msg2" /\ answer.eph = Own(n)
  BY <1>2 DEF Handshake, Datagram, Own
<1>6. \/ puncher' = [puncher EXCEPT ![n] = p] /\ net' = net
      \/ /\ p.role = "responder" /\ p.key # None
         /\ puncher' = [puncher EXCEPT ![n] = p] /\ net' = net \union {answer}
      \/ p.role = "responder" /\ Complete(n, q) /\ net' = net \union {answer}
  BY DEF RecvMsg1
<1>7. p.role = "responder" =>
        /\ q \in Punchers
        /\ q.inc = p.inc /\ q.target = p.target /\ q.role = p.role
        /\ q.key = PairKey(i, r) /\ q.due = p.due
  <2> HIDE DEF p, key
  <2>1. SUFFICES ASSUME p.role = "responder"
                 PROVE  /\ q \in Punchers
                        /\ q.inc = p.inc /\ q.target = p.target /\ q.role = p.role
                        /\ q.key = PairKey(i, r) /\ q.due = p.due
    OBVIOUS
  <2>2. 2 \in 0..2 /\ key \in Keys \union {None} /\ key = PairKey(i, r)
    BY <1>4, <2>1, PairKeyType
  <2>3. q \in Punchers
    BY <1>2, <2>2, StageType
  <2>4. QED
    BY <1>2, <2>2, <2>3 DEF Punchers
<1> HIDE DEF p, key, q, answer
<1>8. CASE puncher' = [puncher EXCEPT ![n] = p] /\ net' = net
  BY <1>1, <1>2, <1>8, PairSame
<1>9. CASE /\ p.role = "responder" /\ p.key # None
           /\ puncher' = [puncher EXCEPT ![n] = p] /\ net' = net \union {answer}
  <2>1. \A e \in net' \ net :
          /\ e.kind = "msg1" => n = i /\ e.eph = Own(n)
          /\ e.kind = "msg2" => n = r /\ e.eph = Own(n) /\ puncher[n].key # None
    BY <1>2, <1>3, <1>5, <1>9
  <2>2. puncher' = [puncher EXCEPT ![n] = p]
    BY <1>9
  <2>3. QED
    BY <1>1, <1>2, <2>1, <2>2, PairSame
<1>10. CASE p.role = "responder" /\ Complete(n, q) /\ net' = net \union {answer}
  <2>1. \A e \in net' \ net : e.kind = "msg2" /\ n = r /\ e.eph = <<r, 1>>
    BY <1>3, <1>5, <1>10
  <2>2. PICK s \in Punchers :
          /\ puncher' = [puncher EXCEPT ![n] = s]
          /\ s.inc = q.inc /\ s.target = q.target /\ s.role = q.role /\ s.key = q.key
          /\ s.armed \union s.due \subseteq q.due
    BY <1>7, <1>10, CompletedPuncher
  <2>3. /\ s.inc = puncher[n].inc /\ s.target = puncher[n].target /\ s.role = puncher[n].role
        /\ s.key = PairKey(i, r) /\ s.armed \union s.due \subseteq puncher[n].due
    BY <1>2, <1>7, <1>10, <2>2
  <2>4. n # i
    BY <1>3, <1>10
  <2>5. QED
    BY <1>1, <2>1, <2>2, <2>3, <2>4, PairKeyed
<1>11. QED
  BY <1>6, <1>8, <1>9, <1>10

\* The initiator splits them on message 2, which the responder sent with its
\* keys already split.
LEMMA PairMsg2 ==
  ASSUME IInv, NEW i \in Nodes, NEW r \in Nodes, i # r, PairInv(i, r), NEW n \in Nodes,
         NEW d \in net, RecvMsg2(n, d)
  PROVE  PairInv(i, r)'
<1> DEFINE p == [puncher[n] EXCEPT !.endpoint = d.from]
           key == InitiatorKey(n, d.eph)
           q == [p EXCEPT !.key = key]
<1>1. /\ puncher[n] # None /\ d.from \in Nodes /\ d.kind = "msg2" /\ d.eph \in Ephemerals
      /\ UNCHANGED <<ctl, born, net, reconnects>>
  BY ArrivalType DEF RecvMsg2, Arrives, IInv, boundVars
<1>2. /\ p \in Punchers
      /\ p.inc = puncher[n].inc /\ p.target = puncher[n].target /\ p.role = puncher[n].role
      /\ p.key = puncher[n].key /\ p.armed = puncher[n].armed /\ p.due = puncher[n].due
  BY <1>1, PuncherFields DEF IInv, Punchers
<1>3. /\ d.eph = <<r, 1>> /\ Own(n) = <<n, 1>>
      /\ p.role = "initiator" => n = i /\ p.target = r
  BY <1>1, <1>2, PairRoles DEF PairInv, PairMessages
<1>4. p.role = "initiator" => key = PairKey(i, r)
  BY <1>2, <1>3 DEF InitiatorKey, PairKey
<1>5. \/ puncher' = [puncher EXCEPT ![n] = p]
      \/ p.role = "initiator" /\ Complete(n, q)
  BY DEF RecvMsg2
<1>6. q.inc = p.inc /\ q.target = p.target /\ q.role = p.role /\ q.key = key /\ q.due = p.due
  <2> HIDE DEF p, key
  <2>1. QED
    BY <1>2 DEF Punchers
<1>7. p.role = "initiator" => q \in Punchers
  <2> HIDE DEF p, key
  <2>1. QED
    BY <1>2, <1>4, PairKeyType DEF Punchers
<1>8. reconnects = 0 => puncher[r] # None /\ puncher[r].key # None
  BY <1>1 DEF PairInv, ResponderFirst
<1> HIDE DEF p, key, q
<1>9. CASE puncher' = [puncher EXCEPT ![n] = p]
  BY <1>1, <1>2, <1>9, PairSame
<1>10. CASE p.role = "initiator" /\ Complete(n, q)
  <2>1. PICK s \in Punchers :
          /\ puncher' = [puncher EXCEPT ![n] = s]
          /\ s.inc = q.inc /\ s.target = q.target /\ s.role = q.role /\ s.key = q.key
          /\ s.armed \union s.due \subseteq q.due
    BY <1>7, <1>10, CompletedPuncher
  <2>2. /\ s.inc = puncher[n].inc /\ s.target = puncher[n].target /\ s.role = puncher[n].role
        /\ s.key = PairKey(i, r) /\ s.armed \union s.due \subseteq puncher[n].due
    BY <1>2, <1>4, <1>6, <1>10, <2>1
  <2>3. QED
    BY <1>1, <1>8, <2>1, <2>2, PairKeyed
<1>11. QED
  BY <1>5, <1>9, <1>10

-----------------------------------------------------------------------------
(* The invariant.                                                          *)

\* The flags a teardown resets first are not those of the pair.
LEMMA PairReset ==
  ASSUME IInv, NEW i \in Nodes, NEW r \in Nodes, i # r, PairInv(i, r),
         NEW n \in Nodes, ResetOutcome(n)
  PROVE  PairInv(i, r)'
<1>1. UNCHANGED <<ctl, puncher, born, net>> /\ reconnects' # 0
  BY DEF ResetOutcome, IInv, TypeOK
<1>2. QED
  BY <1>1 DEF PairInv, ToldOnce, PairPunchers, PairMessages, ResponderFirst

\* Every step of the clients keeps the invariant of the pair.
LEMMA ClientStep ==
  ASSUME IInv, NEW i \in Nodes, NEW r \in Nodes, i # r, PairInv(i, r), NEW n \in Nodes,
         \/ PunchStart(n) \/ ResetOutcome(n) \/ DropPuncher(n) \/ SendPunch(n) \/ Receive(n)
         \/ (\E t \in Timers : Expire(n, t)) \/ NoiseRetry(n) \/ Timeout(n)
         \/ SendPacket(n) \/ (\E d \in packets : RecvPacket(n, d))
  PROVE  PairInv(i, r)'
<1>0. CASE ResetOutcome(n)
  BY <1>0, PairReset
<1>1. CASE SendPunch(n) \/ SendPacket(n)
  <2>1. UNCHANGED <<ctl, puncher, born, reconnects>>
    BY <1>1 DEF SendPunch, SendPacket, clientVars, boundVars
  <2>2. \A d \in net' \ net : d.kind \notin {"msg1", "msg2"}
    BY <1>1 DEF SendPunch, SendPacket, Datagram
  <2>3. QED
    BY <2>1, <2>2, PairQuiet
<1>2. CASE Receive(n)
  BY <1>2, PairEndpoint, PairAck, PairMsg1, PairMsg2 DEF Receive
<1>3. QED
  BY <1>0, <1>1, <1>2, PairPunchStart, PairReconnect, PairEndpoint, PairTimers, PairRetry

\* While the server has told nobody, nothing happens but reported addresses,
\* a requested connection and lost control connections.
LEMMA UntoldStep ==
  ASSUME IInv, Untold, NEW n \in Nodes,
         \/ PunchStart(n) \/ SendPunch(n) \/ Receive(n)
         \/ (\E t \in Timers : Expire(n, t)) \/ NoiseRetry(n) \/ Timeout(n)
         \/ SendPacket(n) \/ (\E d \in packets : RecvPacket(n, d))
  PROVE  FALSE
<1>1. ctl[n] = <<>> /\ puncher[n] = None /\ net = {}
  BY DEF Untold
<1>2. QED
  BY <1>1 DEF PunchStart, SendPunch, Receive, Expire, NoiseRetry, Timeout, SendPacket, RecvPacket

\* A lost control connection of a client that was told nothing.
LEMMA UntoldReconnect ==
  ASSUME IInv, Untold, NEW n \in Nodes, ResetOutcome(n) \/ DropPuncher(n)
  PROVE  Untold'
<1>1. CASE ResetOutcome(n)
  BY <1>1 DEF Untold, ResetOutcome, IInv, TypeOK
<1>2. CASE DropPuncher(n)
  <2>1. ctl[n] = <<>> /\ ctl \in [Nodes -> Seq(Starts)]
    BY DEF Untold, IInv, TypeOK
  <2>2. PICK k \in 0..Len(ctl[n]) : ctl' = [ctl EXCEPT ![n] = SubSeq(@, 1, k)]
    BY <1>2 DEF DropPuncher
  <2>3. UNCHANGED ctl
    BY <2>1, <2>2
  <2>4. QED
    BY <1>2, <2>3 DEF Untold, DropPuncher, IInv, TypeOK
<1>3. QED
  BY <1>1, <1>2

\* The step of the server, and of the network.
LEMMA ServerStep ==
  ASSUME IInv, OnePair, signals' <= 1,
         \/ \E n \in Nodes : UpdateAddr(n)
         \/ \E i, r \in Nodes : ConnectPeer(i, r)
  PROVE  OnePair'
<1>1. UNCHANGED <<clientVars, net, reconnects>> /\ signals \in {0, 1}
  BY DEF UpdateAddr, ConnectPeer, OnePair
<1>2. \/ signals' = signals /\ UNCHANGED ctl
      \/ signals = 0 /\ signals' = 1 /\ \E i, r \in Nodes : i # r /\ Paired(i, r)
  <2>1. ASSUME NEW n \in Nodes, UpdateAddr(n) PROVE <1>2
    BY <2>1, UpdateAddrPairs
  <2>2. ASSUME NEW i \in Nodes, NEW r \in Nodes, ConnectPeer(i, r) PROVE <1>2
    BY <1>1, <2>2, ConnectPeerPairs
  <2>3. QED
    BY <2>1, <2>2
<1>3. CASE signals' = signals /\ UNCHANGED ctl
  <2>1. CASE signals = 0 /\ Untold
    BY <1>1, <1>3, <2>1 DEF OnePair, Untold, clientVars
  <2>2. ASSUME signals = 1, NEW i \in Nodes, NEW r \in Nodes, i # r, PairInv(i, r) PROVE OnePair'
    <3>1. UNCHANGED <<ctl, puncher, born, reconnects>> /\ net' = net
      BY <1>1, <1>3 DEF clientVars
    <3>2. PairInv(i, r)'
      BY <2>2, <3>1, PairQuiet
    <3>3. QED
      BY <1>3, <2>2, <3>2 DEF OnePair
  <2>3. QED
    BY <2>1, <2>2 DEF OnePair
<1>4. ASSUME signals = 0, signals' = 1, NEW i \in Nodes, NEW r \in Nodes, i # r, Paired(i, r)
      PROVE  OnePair'
  <2>1. Untold
    BY <1>4 DEF OnePair
  <2>2. PairInv(i, r)'
    BY <1>1, <1>4, <2>1, FirstPair
  <2>3. QED
    BY <1>4, <2>2 DEF OnePair
<1>5. QED
  BY <1>2, <1>3, <1>4

\* The number of signals never goes down, and only the server raises it.
LEMMA SignalsGrow ==
  ASSUME IInv, [Next]_vars
  PROVE  /\ signals \in Nat /\ signals' \in Nat /\ signals' >= signals
         /\ signals' = signals \/ (\E n \in Nodes : UpdateAddr(n)) \/ (\E i, r \in Nodes : ConnectPeer(i, r))
<1>1. signals \in Nat /\ signals' \in Nat
  BY NextIInv DEF IInv, TypeOK
<1>2. ASSUME NEW n \in Nodes, UpdateAddr(n) PROVE signals' >= signals
  <2>1. IsFiniteSet(addressed \ {n})
    BY PuncherAssumption, FS_Subset DEF IInv, TypeOK
  <2>2. Cardinality(addressed \ {n}) \in Nat
    BY <2>1, FS_CardinalityType
  <2>3. QED
    BY <1>1, <1>2, <2>2 DEF UpdateAddr
<1>3. ASSUME NEW i \in Nodes, NEW r \in Nodes, ConnectPeer(i, r) PROVE signals' >= signals
  BY <1>1, <1>3 DEF ConnectPeer
<1>4. ASSUME NEW n \in Nodes, \/ PunchStart(n) \/ ResetOutcome(n) \/ DropPuncher(n)
                              \/ SendPunch(n) \/ SendPacket(n)
      PROVE  signals' = signals
  BY <1>4 DEF PunchStart, ResetOutcome, DropPuncher, SendPunch, SendPacket, boundVars
<1>5. ASSUME NEW n \in Nodes, Receive(n) PROVE signals' = signals
  BY <1>5 DEF Receive, RecvPunch, RecvAck, RecvMsg1, RecvMsg2, boundVars
<1>6. ASSUME NEW n \in Nodes, (\E t \in Timers : Expire(n, t)) \/ NoiseRetry(n) \/ Timeout(n)
      PROVE  signals' = signals
  BY <1>6 DEF Expire, NoiseRetry, Timeout, boundVars
<1>7. ASSUME NEW n \in Nodes, NEW d \in packets, RecvPacket(n, d) PROVE signals' = signals
  BY <1>7 DEF RecvPacket, boundVars
<1>8. ASSUME NEW d \in net, Lose(d) PROVE signals' = signals
  BY <1>8 DEF Lose, boundVars
<1>9. UNCHANGED vars => signals' = signals
  BY DEF vars, boundVars
<1>10. \/ \E n \in Nodes : UpdateAddr(n)
       \/ \E i, r \in Nodes : ConnectPeer(i, r)
       \/ signals' = signals
  BY <1>4, <1>5, <1>6, <1>7, <1>8, <1>9 DEF Next
<1>11. QED
  BY <1>1, <1>2, <1>3, <1>10

\* A step that sends no second signal leaves one pair at most.
LEMMA OnePairStep ==
  ASSUME IInv, signals <= 1 => OnePair, [Next]_vars, signals' <= 1
  PROVE  OnePair'
<1>1. signals <= 1 /\ OnePair
  BY SignalsGrow
<1>2. CASE (\E n \in Nodes : UpdateAddr(n)) \/ (\E i, r \in Nodes : ConnectPeer(i, r))
  BY <1>1, <1>2, ServerStep
<1>3. CASE ~((\E n \in Nodes : UpdateAddr(n)) \/ (\E i, r \in Nodes : ConnectPeer(i, r)))
  <2>1. signals' = signals
    BY <1>3, SignalsGrow
  <2>2. CASE UNCHANGED vars
    BY <1>1, <2>2 DEF vars, clientVars, boundVars, OnePair, Untold, PairInv, ToldOnce,
                      PairPunchers, PairMessages, ResponderFirst
  <2>3. CASE \E d \in net : Lose(d)
    <3>1. UNCHANGED <<ctl, puncher, born, reconnects>> /\ net' \subseteq net
      BY <2>3 DEF Lose, clientVars, boundVars
    <3>2. CASE signals = 0 /\ Untold
      BY <2>3, <3>2 DEF Untold
    <3>3. ASSUME signals = 1, NEW i \in Nodes, NEW r \in Nodes, i # r, PairInv(i, r) PROVE OnePair'
      <4>1. PairInv(i, r)'
        BY <3>1, <3>3, PairQuiet
      <4>2. QED
        BY <2>1, <3>3, <4>1 DEF OnePair
    <3>4. QED
      BY <1>1, <3>2, <3>3 DEF OnePair
  <2>4. ASSUME NEW n \in Nodes,
               \/ PunchStart(n) \/ ResetOutcome(n) \/ DropPuncher(n) \/ SendPunch(n) \/ Receive(n)
               \/ (\E t \in Timers : Expire(n, t)) \/ NoiseRetry(n) \/ Timeout(n)
               \/ SendPacket(n) \/ (\E d \in packets : RecvPacket(n, d))
        PROVE  OnePair'
    <3>1. CASE signals = 0 /\ Untold
      <4>1. ResetOutcome(n) \/ DropPuncher(n)
        BY <2>4, <3>1, UntoldStep
      <4>2. QED
        BY <2>1, <3>1, <4>1, UntoldReconnect DEF OnePair
    <3>2. ASSUME signals = 1, NEW i \in Nodes, NEW r \in Nodes, i # r, PairInv(i, r) PROVE OnePair'
      <4>1. PairInv(i, r)'
        BY <2>4, <3>2, ClientStep
      <4>2. QED
        BY <2>1, <3>2, <4>1 DEF OnePair
    <3>3. QED
      BY <1>1, <3>1, <3>2 DEF OnePair
  <2>5. QED
    BY <1>3, <2>2, <2>3, <2>4 DEF Next
<1>4. QED
  BY <1>2, <1>3

\* As long as the server has sent one signal, the attempt is that of one pair.
LEMMA PairInvariance == Spec => [](signals <= 1 => OnePair)
<1>1. Init => (signals <= 1 => OnePair)
  BY DEF Init, OnePair, Untold
<1>2. IInv /\ (signals <= 1 => OnePair) /\ [Next]_vars => (signals <= 1 => OnePair)'
  BY OnePairStep
<1>3. QED
  BY <1>1, <1>2, Invariance, PTL DEF Spec

-----------------------------------------------------------------------------
(* What the first pair can rely on.                                        *)

\* While the server has sent one signal, the two ends of it that have
\* completed their handshakes hold the same keys, whatever was lost, late or
\* repeated and however often either lost its control connection.
THEOREM FirstPairAgrees == Spec => [](signals <= 1 => KeysAgree)
<1>1. IInv /\ (signals <= 1 => OnePair) => (signals <= 1 => KeysAgree)
  <2>1. SUFFICES ASSUME IInv, OnePair, NEW n \in Nodes, NEW m \in Nodes, BothComplete(n, m)
                 PROVE  puncher[n].key = puncher[m].key
    BY DEF KeysAgree
  <2>2. PICK i \in Nodes, r \in Nodes : PairPunchers(i, r)
    BY <2>1 DEF OnePair, Untold, BothComplete, PairInv
  <2>3. QED
    BY <2>1, <2>2 DEF BothComplete, PairPunchers, ToldPuncher
<1>2. QED
  BY <1>1, Invariance, PairInvariance, PTL

\* And no packet between the two is dropped as unready or undecryptable, for
\* the sender's current session and a receiver that reports P2P with it.
THEOREM FirstPairReads == Spec => [](signals <= 1 => PacketsReadable)
<1>1. IInv /\ PacketInv /\ (signals <= 1 => OnePair) => (signals <= 1 => PacketsReadable)
  <2>1. SUFFICES ASSUME IInv, PacketInv, OnePair, NEW d \in packets,
                        puncher[d.from] # None, puncher[d.from].key = d.key,
                        puncher[d.to] # None, puncher[d.to].success,
                        puncher[d.to].target = d.from
                 PROVE  Opens(d.to, d)
    BY DEF PacketsReadable
  <2>2. d.from \in Nodes /\ d.to \in Nodes /\ d.key \in Keys /\ d.side \in Roles
    BY <2>1 DEF IInv, TypeOK, Packets
  <2>3. PICK i \in Nodes, r \in Nodes : i # r /\ PairPunchers(i, r)
    BY <2>1, <2>2 DEF OnePair, Untold, PairInv
  <2>4. d.key # None /\ puncher[d.to].key # None
    BY <2>1, <2>2, NoneAssumption DEF IInv, OutcomeInv, KeyedOnSuccess
  <2>5. d.key = PairKey(i, r) /\ puncher[d.to].key = PairKey(i, r)
    BY <2>1, <2>2, <2>3, <2>4 DEF PairPunchers, ToldPuncher
  <2>6. OwnerOf(d.key, d.side) = d.from
    BY <2>1 DEF PacketInv, Counted
  <2>7. /\ d.side = "initiator" => d.from = i
        /\ d.side # "initiator" => d.from = r
    BY <2>5, <2>6 DEF OwnerOf, PairKey
  <2>8. /\ d.to = i => puncher[d.to].role = "initiator" /\ puncher[d.to].target = r
        /\ d.to = r => puncher[d.to].role = "responder" /\ puncher[d.to].target = i
        /\ d.to \in {i, r}
    BY <2>1, <2>2, <2>3 DEF PairPunchers, ToldPuncher, Told, Start
  <2>9. d.side # Side(d.to)
    BY <2>1, <2>3, <2>7, <2>8 DEF Side
  <2>10. QED
    BY <2>4, <2>5, <2>9 DEF Opens
<1>2. QED
  BY <1>1, Invariance, PacketInvariance, PairInvariance, PTL

\* Unless a control connection was lost, the initiator of the first pair
\* reports success only when its peer has succeeded with the same keys.
THEOREM FirstResponderReady == Spec => [](signals <= 1 /\ reconnects = 0 => PeerReadyFirst)
<1>1. IInv /\ (signals <= 1 => OnePair) => (signals <= 1 /\ reconnects = 0 => PeerReadyFirst)
  <2>1. SUFFICES ASSUME IInv, OnePair, reconnects = 0, NEW n \in Nodes,
                        puncher[n] # None, puncher[n].role = "initiator", puncher[n].success
                 PROVE  LET peer == puncher[puncher[n].target]
                        IN  peer # None /\ peer.success /\ peer.key = puncher[n].key
    BY DEF PeerReadyFirst
  <2>2. PICK i \in Nodes, r \in Nodes : i # r /\ PairInv(i, r)
    BY <2>1 DEF OnePair, Untold
  <2>3. n = i /\ puncher[n].target = r
    BY <2>1, <2>2, PairRoles
  <2>4. puncher[i].key # None
    BY <2>1, <2>3 DEF IInv, OutcomeInv, KeyedOnSuccess
  <2>5. puncher[r] # None /\ puncher[r].key # None
    BY <2>1, <2>2, <2>3, <2>4 DEF PairInv, ResponderFirst
  <2>6. puncher[i].key = PairKey(i, r) /\ puncher[r].key = PairKey(i, r)
    BY <2>1, <2>2, <2>3, <2>4, <2>5 DEF PairInv, PairPunchers, ToldPuncher
  <2>7. puncher[r].success
    BY <2>1, <2>5 DEF IInv, OutcomeInv, KeyedOnSuccess
  <2>8. QED
    BY <2>3, <2>5, <2>6, <2>7
<1>2. QED
  BY <1>1, Invariance, PairInvariance, PTL
=============================================================================
