--------------------------- MODULE PuncherProofs ---------------------------
(***************************************************************************)
(* Proofs about Puncher, for any number of clients, signals, lost control  *)
(* connections and datagrams: the client's mode tracks its puncher, up to  *)
(* an outcome that lands during a teardown, a success is never demoted,    *)
(* and a completed handshake is never rekeyed.                             *)
(***************************************************************************)
EXTENDS Puncher, FiniteSetTheorems, SequenceTheorems, TLAPS

\* A puncher is not younger than the last one its client created.
BornBefore == \A n \in Nodes : puncher[n] # None => puncher[n].inc <= born[n]

\* A puncher has succeeded exactly when it has split its keys.
KeyedOnSuccess == \A n \in Nodes : puncher[n] # None => (puncher[n].success <=> puncher[n].key # None)

\* A client in P2P has no puncher, after a teardown, or one that succeeded.
P2PSucceeded == \A n \in Nodes : mode[n] = "p2p" /\ puncher[n] # None => puncher[n].success

\* A teardown is of a lost connection, and between its halves there is no
\* outcome but one that landed.
TearingClears ==
  \A n \in Nodes : tearing[n] => reconnects # 0 /\ (~torn[n] => mode[n] = "punching")

\* What every step preserves of an outcome and its puncher.
OutcomeInv == ModeTracksPuncher /\ KeyedOnSuccess /\ P2PSucceeded /\ TearingClears /\ BornBefore

\* What every step preserves.
IInv == TypeOK /\ OutcomeInv

\* A puncher record a handler changes is again one.
LEMMA PuncherFields ==
  ASSUME TypeOK, NEW n \in Nodes, puncher[n] # None
  PROVE  /\ puncher[n] \in Punchers
         /\ puncher[n].inc \in Nat
         /\ puncher[n].role \in Roles
         /\ puncher[n].target \in Nodes
         /\ puncher[n].punching \in BOOLEAN
         /\ puncher[n].success \in BOOLEAN
         /\ puncher[n].endpoint \in Nodes \union {None}
         /\ puncher[n].stage \in 0..2
         /\ puncher[n].key \in Keys \union {None}
         /\ puncher[n].armed \subseteq Timers
         /\ puncher[n].due \subseteq Timers
  BY DEF TypeOK, Punchers

\* Setting the stage keeps a puncher a puncher.
LEMMA StageType ==
  ASSUME NEW p \in Punchers, NEW stage \in 0..2, NEW k \in Keys \union {None},
         NEW a \in SUBSET Timers
  PROVE  /\ [p EXCEPT !.stage = stage, !.armed = a] \in Punchers
         /\ [p EXCEPT !.key = k, !.stage = stage] \in Punchers
  BY DEF Punchers

\* A handshake message a node sends is a datagram.
LEMMA HandshakeType ==
  ASSUME NEW n \in Nodes, NEW p \in Punchers, NEW stage \in 1..2
  PROVE  Handshake(n, p, stage) \in Datagrams
  BY DEF Handshake, Datagram, Datagrams, Punchers, Ephemerals

\* The datagrams that arrive are datagrams of their kind.
LEMMA ArrivalType ==
  ASSUME TypeOK, NEW n \in Nodes, NEW d \in net, NEW kind, Arrives(n, d, kind)
  PROVE  /\ d.from \in Nodes
         /\ d.kind = kind
         /\ kind \in {"msg1", "msg2"} => d.eph \in Ephemerals
  BY DEF TypeOK, Arrives, Datagrams

\* The parts of the state of a client other than its puncher stay; a handler
\* replaces the puncher of n by p, with the keys and the success it had.
LEMMA PuncherStep ==
  ASSUME IInv, NEW n \in Nodes, NEW p \in Punchers, puncher[n] # None,
         puncher' = [puncher EXCEPT ![n] = p],
         UNCHANGED <<outcomeVars, born, reconnects>>,
         p.inc = puncher[n].inc, p.key = puncher[n].key, p.success = puncher[n].success,
         p.punching => puncher[n].punching
  PROVE  /\ puncher' \in [Nodes -> Punchers \union {None}]
         /\ OutcomeInv'
<1>1. /\ puncher \in [Nodes -> Punchers \union {None}] /\ p # None
      /\ \A m \in Nodes : puncher'[m] = IF m = n THEN p ELSE puncher[m]
  BY NoneAssumption DEF IInv, TypeOK
<1>2. UNCHANGED <<mode, done, succeeded, tearing, torn, born, reconnects>>
  BY DEF outcomeVars
<1>3. ModeTracksPuncher'
  BY <1>1, <1>2 DEF IInv, OutcomeInv, ModeTracksPuncher, Punchers
<1>4. KeyedOnSuccess' /\ P2PSucceeded' /\ TearingClears'
  BY <1>1, <1>2 DEF IInv, OutcomeInv, KeyedOnSuccess, P2PSucceeded, TearingClears
<1>5. BornBefore'
  BY <1>1, <1>2 DEF IInv, OutcomeInv, BornBefore
<1>6. QED
  BY <1>1, <1>3, <1>4, <1>5 DEF OutcomeInv, IInv, TypeOK

\* An outcome of a client leaves flags, and those of the others alone: its
\* own say the outcome unless the worker is tearing down.
LEMMA OutcomeStep ==
  ASSUME IInv, NEW n \in Nodes, NEW m \in Modes \ {"punching"}, NEW s \in BOOLEAN,
         Outcome(n, m, s), m = "p2p" => s
  PROVE  /\ mode' \in [Nodes -> Modes]
         /\ done' \in [Nodes -> BOOLEAN]
         /\ succeeded' \in [Nodes -> BOOLEAN]
         /\ tearing' \in [Nodes -> BOOLEAN]
         /\ torn' \in [Nodes -> BOOLEAN]
         /\ tearing' = tearing
         /\ \A k \in Nodes \ {n} : mode'[k] = mode[k] /\ done'[k] = done[k]
                                    /\ succeeded'[k] = succeeded[k] /\ torn'[k] = torn[k]
         /\ mode'[n] \in {m, "punching"}
         /\ mode'[n] # "punching" => done'[n] /\ succeeded'[n] = s
         /\ ~torn'[n] => mode'[n] = m /\ done'[n] /\ succeeded'[n] = s
         /\ tearing[n] => torn'[n]
<1>1. PICK o \in {<<m, TRUE, s>>} \union
                 (IF tearing[n] THEN {"punching"} \X BOOLEAN \X {FALSE, s} ELSE {}) :
        /\ mode' = [mode EXCEPT ![n] = o[1]]
        /\ done' = [done EXCEPT ![n] = o[2]]
        /\ succeeded' = [succeeded EXCEPT ![n] = o[3]]
        /\ torn' = [torn EXCEPT ![n] = @ \/ tearing[n]]
        /\ UNCHANGED tearing
  BY DEF Outcome
<1>2. /\ o[1] \in {m, "punching"} /\ o[2] \in BOOLEAN /\ o[3] \in BOOLEAN
      /\ o[1] # "punching" => o[2] = TRUE /\ o[3] = s
      /\ ~tearing[n] => o[1] = m /\ o[2] = TRUE /\ o[3] = s
  <2>1. CASE o = <<m, TRUE, s>>
    BY <2>1
  <2>2. CASE tearing[n] /\ o \in {"punching"} \X BOOLEAN \X {FALSE, s}
    BY <2>2
  <2>3. QED
    BY <1>1, <2>1, <2>2
<1>3. /\ mode \in [Nodes -> Modes] /\ done \in [Nodes -> BOOLEAN]
      /\ succeeded \in [Nodes -> BOOLEAN]
  BY DEF IInv, TypeOK
<1>4. tearing \in [Nodes -> BOOLEAN] /\ torn \in [Nodes -> BOOLEAN]
  BY DEF IInv, TypeOK
<1>5. mode' \in [Nodes -> Modes] /\ done' \in [Nodes -> BOOLEAN] /\ succeeded' \in [Nodes -> BOOLEAN]
  BY <1>1, <1>2, <1>3 DEF Modes
<1>6. torn' \in [Nodes -> BOOLEAN] /\ tearing' \in [Nodes -> BOOLEAN] /\ tearing' = tearing
      /\ torn'[n] = (torn[n] \/ tearing[n])
  BY <1>1, <1>4
<1>7. mode'[n] = o[1] /\ done'[n] = o[2] /\ succeeded'[n] = o[3]
  BY <1>1, <1>3
<1>8. \A k \in Nodes \ {n} : mode'[k] = mode[k] /\ done'[k] = done[k]
                              /\ succeeded'[k] = succeeded[k] /\ torn'[k] = torn[k]
  BY <1>1, <1>3, <1>4
<1>9. QED
  BY <1>2, <1>5, <1>6, <1>7, <1>8

\* A handler completes the puncher p of n, which had no keys.
LEMMA CompleteStep ==
  ASSUME IInv, NEW n \in Nodes, NEW p \in Punchers, puncher[n] # None,
         Complete(n, p), UNCHANGED <<born, reconnects>>,
         p.inc = puncher[n].inc, p.key # None
  PROVE  /\ puncher' \in [Nodes -> Punchers \union {None}]
         /\ mode' \in [Nodes -> Modes]
         /\ done' \in [Nodes -> BOOLEAN]
         /\ succeeded' \in [Nodes -> BOOLEAN]
         /\ tearing' \in [Nodes -> BOOLEAN]
         /\ torn' \in [Nodes -> BOOLEAN]
         /\ OutcomeInv'
<1> DEFINE q == [p EXCEPT !.success = TRUE, !.punching = FALSE, !.armed = {}]
<1>1. /\ q \in Punchers /\ q # None
      /\ q.success /\ ~q.punching /\ q.key = p.key /\ q.inc = p.inc
  BY NoneAssumption DEF Punchers
<1>2. puncher' = [puncher EXCEPT ![n] = q] /\ Outcome(n, "p2p", TRUE)
  BY DEF Complete
<1> HIDE DEF q
<1>3. /\ puncher \in [Nodes -> Punchers \union {None}]
      /\ puncher' \in [Nodes -> Punchers \union {None}]
      /\ puncher'[n] = q /\ \A k \in Nodes \ {n} : puncher'[k] = puncher[k]
  BY <1>1, <1>2 DEF IInv, TypeOK
<1> DEFINE Landed ==
         /\ mode' \in [Nodes -> Modes]
         /\ done' \in [Nodes -> BOOLEAN]
         /\ succeeded' \in [Nodes -> BOOLEAN]
         /\ tearing' \in [Nodes -> BOOLEAN]
         /\ torn' \in [Nodes -> BOOLEAN]
         /\ tearing' = tearing
         /\ \A k \in Nodes \ {n} : mode'[k] = mode[k] /\ done'[k] = done[k]
                                    /\ succeeded'[k] = succeeded[k] /\ torn'[k] = torn[k]
         /\ mode'[n] \in {"p2p", "punching"}
         /\ mode'[n] # "punching" => done'[n] /\ succeeded'[n] = TRUE
         /\ ~torn'[n] => mode'[n] = "p2p" /\ done'[n] /\ succeeded'[n] = TRUE
         /\ tearing[n] => torn'[n]
<1>4. Landed
  BY <1>2, OutcomeStep DEF Modes
<1>5. ModeTracksPuncher'
  BY <1>1, <1>3, <1>4 DEF IInv, OutcomeInv, ModeTracksPuncher
<1>6. KeyedOnSuccess' /\ P2PSucceeded' /\ TearingClears'
  BY <1>1, <1>3, <1>4 DEF IInv, OutcomeInv, KeyedOnSuccess, P2PSucceeded, TearingClears
<1>7. BornBefore'
  BY <1>1, <1>3 DEF IInv, OutcomeInv, BornBefore
<1>8. QED
  BY <1>3, <1>4, <1>5, <1>6, <1>7 DEF OutcomeInv

-----------------------------------------------------------------------------
(* What the server and the client's control connection do.                 *)

\* What a signal tells a client is a peer and a role.
LEMMA AutoStartType ==
  ASSUME NEW n \in Nodes, NEW p \in Nodes
  PROVE  AutoStart(n, p) \in Starts
  BY DEF AutoStart, Start, Starts, Roles

\* A reported address only queues signals (update_addr).
LEMMA UpdateAddrStep ==
  ASSUME IInv, NEW n \in Nodes, UpdateAddr(n)
  PROVE  IInv'
<1> DEFINE peers == addressed \ {n}
<1>1. PICK order \in SetToSeqs(peers) :
        ctl' = [m \in Nodes |->
                  IF m = n
                  THEN ctl[n] \o [i \in DOMAIN order |-> AutoStart(n, order[i])]
                  ELSE IF m \in peers THEN Append(ctl[m], AutoStart(m, n)) ELSE ctl[m]]
  BY DEF UpdateAddr
<1>2. peers \subseteq Nodes /\ IsFiniteSet(peers) /\ Cardinality(peers) \in Nat
  BY PuncherAssumption, FS_Subset, FS_CardinalityType DEF IInv, TypeOK
<1>3. order \in [1..Cardinality(peers) -> peers]
  BY DEF SetToSeqs
<1> DEFINE starts == [i \in DOMAIN order |-> AutoStart(n, order[i])]
<1>4. starts \in Seq(Starts)
  <2>1. starts \in [1..Cardinality(peers) -> Starts]
    BY <1>2, <1>3, AutoStartType
  <2> HIDE DEF starts, peers
  <2>2. QED
    BY <1>2, <2>1, SeqDef, Zenon
<1>5. ctl' \in [Nodes -> Seq(Starts)]
  <2>1. ctl[n] \o starts \in Seq(Starts)
    BY <1>4 DEF IInv, TypeOK
  <2>2. \A m \in peers : Append(ctl[m], AutoStart(m, n)) \in Seq(Starts)
    BY <1>2, AutoStartType DEF IInv, TypeOK
  <2>3. QED
    BY <1>1, <1>2, <2>1, <2>2 DEF IInv, TypeOK
<1>6. TypeOK'
  BY <1>2, <1>5 DEF UpdateAddr, IInv, TypeOK, clientVars, outcomeVars, packetVars
<1>7. OutcomeInv'
  BY DEF UpdateAddr, IInv, OutcomeInv, ModeTracksPuncher, KeyedOnSuccess, P2PSucceeded, TearingClears, BornBefore, clientVars, outcomeVars
<1>8. QED
  BY <1>6, <1>7 DEF IInv

\* A requested connection only queues two signals (connect_peer).
LEMMA ConnectPeerStep ==
  ASSUME IInv, NEW r \in Nodes, NEW t \in Nodes, ConnectPeer(r, t)
  PROVE  IInv'
<1>1. Start(t, "initiator") \in Starts /\ Start(r, "responder") \in Starts
  BY DEF Start, Starts, Roles
<1> DEFINE out == Append(ctl[r], Start(t, "initiator"))
           in == Append(ctl[t], Start(r, "responder"))
<1>2. out \in Seq(Starts) /\ in \in Seq(Starts)
  BY <1>1 DEF IInv, TypeOK
<1>3. TypeOK'
  <2>1. r # t
    BY PuncherAssumption DEF ConnectPeer
  <2>2. ctl' = [[ctl EXCEPT ![r] = out] EXCEPT ![t] = in]
    BY <2>1 DEF ConnectPeer, IInv, TypeOK
  <2> HIDE DEF out, in
  <2>3. ctl' \in [Nodes -> Seq(Starts)]
    BY <1>2, <2>2 DEF IInv, TypeOK
  <2>4. signals' \in Nat /\ UNCHANGED <<addressed, clientVars, net, packetVars, reconnects>>
    BY DEF ConnectPeer, IInv, TypeOK
  <2>5. QED
    BY <2>3, <2>4 DEF IInv, TypeOK, clientVars, outcomeVars, packetVars
<1>4. OutcomeInv'
  BY DEF ConnectPeer, IInv, OutcomeInv, ModeTracksPuncher, KeyedOnSuccess, P2PSucceeded, TearingClears, BornBefore, clientVars, outcomeVars
<1>5. QED
  BY <1>3, <1>4 DEF IInv

\* A fresh puncher has no keys, has not succeeded and is punching.
LEMMA NewPuncherType ==
  ASSUME TypeOK, NEW n \in Nodes, NEW start \in Starts
  PROVE  /\ NewPuncher(n, start) \in Punchers
         /\ NewPuncher(n, start).inc = born[n] + 1
         /\ NewPuncher(n, start).key = None
         /\ NewPuncher(n, start).success = FALSE
  BY DEF NewPuncher, TypeOK, Punchers, Starts, Timers

\* on_punch_start replaces the puncher and the outcome together.
LEMMA PunchStartStep ==
  ASSUME IInv, NEW n \in Nodes, PunchStart(n)
  PROVE  IInv'
<1>1. ctl[n] \in Seq(Starts) /\ ctl[n] # <<>> /\ ctl' = [ctl EXCEPT ![n] = Tail(@)]
  BY DEF PunchStart, IInv, TypeOK
<1>2. ctl' \in [Nodes -> Seq(Starts)] /\ Head(ctl[n]) \in Starts
  BY <1>1 DEF IInv, TypeOK
<1>3. CASE succeeded[n] \/ done[n] \/ puncher[n] = None
  <2> DEFINE p == NewPuncher(n, Head(ctl[n]))
  <2>1. p \in Punchers /\ p.inc = born[n] + 1 /\ p.key = None /\ p.success = FALSE
    BY <1>2, NewPuncherType DEF IInv
  <2>2. /\ mode' = [mode EXCEPT ![n] = IF succeeded[n] \/ done[n] THEN "punching" ELSE @]
        /\ done' = [done EXCEPT ![n] = FALSE]
        /\ succeeded' = [succeeded EXCEPT ![n] = FALSE]
        /\ torn' = [torn EXCEPT ![n] = FALSE]
        /\ UNCHANGED <<tearing, addressed, net, packetVars, boundVars>>
    BY <1>3 DEF PunchStart
  <2>3. \/ puncher' = [puncher EXCEPT ![n] = p] /\ born' = [born EXCEPT ![n] = @ + 1]
        \/ puncher' = [puncher EXCEPT ![n] = None] /\ UNCHANGED born
    BY <1>3 DEF PunchStart
  <2> HIDE DEF p
  <2>4. /\ puncher' \in [Nodes -> Punchers \union {None}] /\ born' \in [Nodes -> Nat]
        /\ \A k \in Nodes \ {n} : puncher'[k] = puncher[k] /\ born'[k] = born[k]
        /\ puncher'[n] # None => puncher'[n] = p /\ born'[n] = p.inc
    <3>1. puncher \in [Nodes -> Punchers \union {None}] /\ born \in [Nodes -> Nat]
      BY DEF IInv, TypeOK
    <3>2. CASE puncher' = [puncher EXCEPT ![n] = p] /\ born' = [born EXCEPT ![n] = @ + 1]
      BY <2>1, <3>1, <3>2
    <3>3. CASE puncher' = [puncher EXCEPT ![n] = None] /\ UNCHANGED born
      BY <3>1, <3>3
    <3>4. QED
      BY <2>3, <3>2, <3>3
  <2>5. TypeOK'
    BY <1>2, <2>2, <2>4 DEF IInv, TypeOK, Modes, packetVars, boundVars
  <2>6. mode'[n] = "punching" /\ ~done'[n] /\ ~succeeded'[n]
    BY <2>2 DEF IInv, TypeOK, OutcomeInv, ModeTracksPuncher
  <2>7. \A k \in Nodes \ {n} : mode'[k] = mode[k] /\ done'[k] = done[k] /\ tearing'[k] = tearing[k]
                                /\ succeeded'[k] = succeeded[k] /\ torn'[k] = torn[k]
    BY <2>2 DEF IInv, TypeOK
  <2>8. ModeTracksPuncher'
    BY <2>1, <2>4, <2>6, <2>7 DEF IInv, OutcomeInv, ModeTracksPuncher
  <2>9. KeyedOnSuccess' /\ P2PSucceeded' /\ TearingClears'
    BY <2>1, <2>2, <2>4, <2>6, <2>7 DEF IInv, OutcomeInv, KeyedOnSuccess, P2PSucceeded, TearingClears,
       boundVars
  <2>10. BornBefore'
    <3>1. p.inc \in Nat
      BY <2>1 DEF Punchers
    <3>2. QED
      BY <2>4, <3>1 DEF IInv, OutcomeInv, BornBefore
  <2>11. QED
    BY <2>5, <2>8, <2>9, <2>10 DEF IInv, OutcomeInv
<1>4. CASE ~(succeeded[n] \/ done[n] \/ puncher[n] = None)
  <2>1. UNCHANGED <<clientVars, addressed, net, packetVars, boundVars>>
    BY <1>4 DEF PunchStart
  <2>2. TypeOK'
    BY <1>2, <2>1 DEF IInv, TypeOK, clientVars, outcomeVars, packetVars, boundVars
  <2>3. OutcomeInv'
    BY <2>1 DEF IInv, OutcomeInv, ModeTracksPuncher, KeyedOnSuccess, P2PSucceeded, TearingClears, BornBefore,
       clientVars, outcomeVars, boundVars
  <2>4. QED
    BY <2>2, <2>3 DEF IInv
<1>5. QED
  BY <1>3, <1>4

\* The first half of a teardown clears the outcome and leaves the puncher.
LEMMA ResetOutcomeStep ==
  ASSUME IInv, NEW n \in Nodes, ResetOutcome(n)
  PROVE  IInv'
<1>1. TypeOK'
  BY DEF ResetOutcome, IInv, TypeOK, Modes, packetVars
<1>2. ModeTracksPuncher'
  BY DEF ResetOutcome, IInv, TypeOK, OutcomeInv, ModeTracksPuncher
<1>3. KeyedOnSuccess' /\ P2PSucceeded' /\ TearingClears' /\ BornBefore'
  BY DEF ResetOutcome, IInv, TypeOK, OutcomeInv, KeyedOnSuccess, P2PSucceeded, TearingClears, BornBefore
<1>4. QED
  BY <1>1, <1>2, <1>3 DEF IInv, OutcomeInv

\* The second half drops the puncher; an outcome that landed in between stays.
LEMMA DropPuncherStep ==
  ASSUME IInv, NEW n \in Nodes, DropPuncher(n)
  PROVE  IInv'
<1>1. /\ puncher' = [puncher EXCEPT ![n] = None]
      /\ tearing[n] /\ tearing' = [tearing EXCEPT ![n] = FALSE]
      /\ UNCHANGED <<mode, done, succeeded, torn, born>>
  BY DEF DropPuncher
<1>2. PICK k \in 0..Len(ctl[n]) : ctl' = [ctl EXCEPT ![n] = SubSeq(@, 1, k)]
  BY DEF DropPuncher
<1>3. ctl[n] \in Seq(Starts) /\ SubSeq(ctl[n], 1, k) \in Seq(Starts)
  BY DEF IInv, TypeOK
<1>4. ctl' \in [Nodes -> Seq(Starts)]
  BY <1>2, <1>3 DEF IInv, TypeOK
<1>5. TypeOK'
  BY <1>1, <1>4 DEF DropPuncher, IInv, TypeOK, packetVars, boundVars
<1>6. /\ puncher'[n] = None /\ ~tearing'[n]
      /\ \A m \in Nodes \ {n} : puncher'[m] = puncher[m] /\ tearing'[m] = tearing[m]
  BY <1>1 DEF IInv, TypeOK
<1>7. ~torn[n] => mode[n] = "punching" /\ ~succeeded[n] /\ ~done[n]
  BY <1>1 DEF IInv, OutcomeInv, TearingClears, ModeTracksPuncher
<1>8. ModeTracksPuncher'
  BY <1>1, <1>6, <1>7 DEF IInv, OutcomeInv, ModeTracksPuncher
<1>9. KeyedOnSuccess' /\ P2PSucceeded' /\ TearingClears' /\ BornBefore'
  BY <1>1, <1>6 DEF DropPuncher, IInv, OutcomeInv, KeyedOnSuccess, P2PSucceeded, TearingClears, BornBefore,
     boundVars
<1>10. QED
  BY <1>5, <1>8, <1>9 DEF IInv, OutcomeInv

-----------------------------------------------------------------------------
(* What the UDP engine does.                                               *)

\* A burst of punches adds a datagram and changes no client.
LEMMA SendPunchStep ==
  ASSUME IInv, NEW n \in Nodes, SendPunch(n)
  PROVE  IInv'
<1>1. Datagram("punch", n, puncher[n].target, puncher[n].target, None) \in Datagrams
  BY PuncherFields DEF IInv, SendPunch, Datagram, Datagrams
<1>2. TypeOK'
  BY <1>1 DEF SendPunch, IInv, TypeOK, clientVars, outcomeVars, packetVars, boundVars
<1>3. OutcomeInv'
  BY DEF SendPunch, IInv, OutcomeInv, ModeTracksPuncher, KeyedOnSuccess, P2PSucceeded,
     TearingClears, BornBefore, clientVars, outcomeVars, boundVars
<1>4. QED
  BY <1>2, <1>3 DEF IInv

\* A punch changes the endpoint of a puncher and nothing its mode tells.
LEMMA RecvPunchStep ==
  ASSUME IInv, NEW n \in Nodes, NEW d \in net, RecvPunch(n, d)
  PROVE  IInv'
<1> DEFINE p == [puncher[n] EXCEPT !.endpoint = IF d.from = puncher[n].target THEN d.from ELSE @]
<1>1. Arrives(n, d, "punch") /\ puncher[n] # None
  BY DEF RecvPunch, Arrives
<1>2. d.from \in Nodes
  BY <1>1, ArrivalType DEF IInv
<1>3. /\ p \in Punchers /\ p.inc = puncher[n].inc /\ p.key = puncher[n].key
      /\ p.success = puncher[n].success /\ p.punching = puncher[n].punching
  BY <1>1, <1>2, PuncherFields DEF IInv, Punchers
<1>4. puncher' = [puncher EXCEPT ![n] = p]
  BY DEF RecvPunch
<1> HIDE DEF p
<1>5. Datagram("ack", n, d.from, d.from, None) \in Datagrams
  BY <1>2 DEF Datagram, Datagrams
<1>6. QED
  BY <1>1, <1>3, <1>4, <1>5, PuncherStep DEF RecvPunch, IInv, TypeOK, outcomeVars, packetVars, boundVars

\* An ack ends the punching and arms timers; keys and success stay.
LEMMA RecvAckStep ==
  ASSUME IInv, NEW n \in Nodes, NEW d \in net, RecvAck(n, d)
  PROVE  IInv'
<1> DEFINE p == Acked(n, d)
           q == [p EXCEPT !.armed = @ \union {"timeout"}]
           r == Started(p)
<1>1. Arrives(n, d, "ack") /\ puncher[n] # None /\ d.from \in Nodes
  BY ArrivalType DEF RecvAck, Arrives, IInv
<1>2. /\ p \in Punchers /\ p.inc = puncher[n].inc /\ p.key = puncher[n].key
      /\ p.success = puncher[n].success /\ p.punching = FALSE
  BY <1>1, PuncherFields DEF IInv, Acked, Punchers
<1>3. /\ q \in Punchers /\ q.inc = p.inc /\ q.key = p.key
      /\ q.success = p.success /\ q.punching = p.punching
  BY <1>2 DEF Punchers, Timers
<1>4. /\ r \in Punchers /\ r.inc = p.inc /\ r.key = p.key
      /\ r.success = p.success /\ r.punching = p.punching
  <2>0. 1 \in 0..2 /\ Timers \in SUBSET Timers
    OBVIOUS
  <2>1. r \in Punchers
    <3> HIDE DEF p
    <3> QED BY <1>2, <2>0, StageType DEF Started
  <2>2. QED
    BY <1>2, <2>1 DEF Punchers, Started
<1>5. \E x \in {p, q, r} : puncher' = [puncher EXCEPT ![n] = x]
  BY DEF RecvAck
<1>6. net' \subseteq Datagrams
  <2>1. Handshake(n, p, 1) \in Datagrams
    BY <1>2, HandshakeType
  <2>2. net' = net \/ net' = net \union {Handshake(n, p, 1)}
    BY DEF RecvAck
  <2>3. QED
    BY <2>1, <2>2 DEF IInv, TypeOK
<1>7. UNCHANGED <<addressed, ctl, outcomeVars, born, packetVars, boundVars>>
  BY DEF RecvAck
<1> HIDE DEF p, q, r
<1>8. PICK x \in {p, q, r} : puncher' = [puncher EXCEPT ![n] = x]
  BY <1>5
<1>9. /\ x \in Punchers /\ x.inc = puncher[n].inc /\ x.key = puncher[n].key
      /\ x.success = puncher[n].success /\ x.punching = FALSE
  BY <1>2, <1>3, <1>4, <1>8
<1>10. QED
  BY <1>1, <1>6, <1>7, <1>8, <1>9, PuncherStep DEF IInv, TypeOK, outcomeVars, packetVars, boundVars

\* Message 1 gives a responder its keys and its success in one handler.
LEMMA RecvMsg1Step ==
  ASSUME IInv, NEW n \in Nodes, NEW d \in net, RecvMsg1(n, d)
  PROVE  IInv'
<1> DEFINE p == [puncher[n] EXCEPT !.endpoint = d.from]
           key == ResponderKey(n, d.eph)
           q == [p EXCEPT !.key = key, !.stage = 2]
<1>1. /\ Arrives(n, d, "msg1") /\ puncher[n] # None
      /\ d.from \in Nodes /\ d.eph \in Ephemerals
  BY ArrivalType DEF RecvMsg1, Arrives, IInv
<1>2. /\ p \in Punchers /\ p.inc = puncher[n].inc /\ p.key = puncher[n].key
      /\ p.success = puncher[n].success /\ p.punching = puncher[n].punching
      /\ p.target \in Nodes
  BY <1>1, PuncherFields DEF IInv, Punchers
<1>3. Own(n) \in Ephemerals
  BY <1>1, PuncherFields DEF IInv, Own, Ephemerals
<1>4. key \in Keys
  BY <1>1, <1>3, PuncherFields DEF IInv, Keys, ResponderKey
<1>5. key # None
  BY <1>4, NoneAssumption
<1> HIDE DEF key
<1>6. q \in Punchers /\ q.inc = p.inc /\ q.key = key
  <2>0. 2 \in 0..2 /\ key \in Keys \union {None}
    BY <1>4
  <2>1. q \in Punchers
    <3> HIDE DEF p
    <3> QED BY <1>2, <2>0, StageType
  <2>2. QED
    BY <1>2, <2>1 DEF Punchers
<1>7. Handshake(n, p, 2) \in Datagrams
  BY <1>2, HandshakeType
<1>8. \/ /\ puncher' = [puncher EXCEPT ![n] = p]
         /\ UNCHANGED outcomeVars
         /\ net' \subseteq net \union {Handshake(n, p, 2)}
      \/ /\ Complete(n, q)
         /\ net' = net \union {Handshake(n, p, 2)}
  BY DEF RecvMsg1, key
<1>9. UNCHANGED <<addressed, ctl, born, packetVars, boundVars>>
  BY DEF RecvMsg1
<1> HIDE DEF p, q
<1>10. CASE puncher' = [puncher EXCEPT ![n] = p] /\ UNCHANGED outcomeVars
              /\ net' \subseteq net \union {Handshake(n, p, 2)}
  BY <1>1, <1>2, <1>7, <1>9, <1>10, PuncherStep DEF IInv, TypeOK, outcomeVars, packetVars, boundVars
<1>11. CASE Complete(n, q) /\ net' = net \union {Handshake(n, p, 2)}
  BY <1>1, <1>2, <1>5, <1>6, <1>7, <1>9, <1>11, CompleteStep DEF IInv, TypeOK, outcomeVars, packetVars, boundVars
<1>12. QED
  BY <1>8, <1>10, <1>11

\* Message 2 gives an initiator its keys and its success in one handler.
LEMMA RecvMsg2Step ==
  ASSUME IInv, NEW n \in Nodes, NEW d \in net, RecvMsg2(n, d)
  PROVE  IInv'
<1> DEFINE p == [puncher[n] EXCEPT !.endpoint = d.from]
           key == InitiatorKey(n, d.eph)
           q == [p EXCEPT !.key = key]
<1>1. /\ Arrives(n, d, "msg2") /\ puncher[n] # None
      /\ d.from \in Nodes /\ d.eph \in Ephemerals
  BY ArrivalType DEF RecvMsg2, Arrives, IInv
<1>2. /\ p \in Punchers /\ p.inc = puncher[n].inc /\ p.key = puncher[n].key
      /\ p.success = puncher[n].success /\ p.punching = puncher[n].punching
      /\ p.target \in Nodes
  BY <1>1, PuncherFields DEF IInv, Punchers
<1>3. Own(n) \in Ephemerals
  BY <1>1, PuncherFields DEF IInv, Own, Ephemerals
<1>4. key \in Keys
  BY <1>1, <1>3, PuncherFields DEF IInv, Keys, InitiatorKey
<1>5. key # None
  BY <1>4, NoneAssumption
<1> HIDE DEF key
<1>6. q \in Punchers /\ q.inc = p.inc /\ q.key = key
  BY <1>2, <1>4 DEF Punchers
<1>7. \/ puncher' = [puncher EXCEPT ![n] = p] /\ UNCHANGED outcomeVars
      \/ Complete(n, q)
  BY DEF RecvMsg2, key
<1>8. UNCHANGED <<addressed, ctl, born, net, packetVars, boundVars>>
  BY DEF RecvMsg2
<1> HIDE DEF p, q
<1>9. CASE puncher' = [puncher EXCEPT ![n] = p] /\ UNCHANGED outcomeVars
  BY <1>1, <1>2, <1>8, <1>9, PuncherStep DEF IInv, TypeOK, outcomeVars, packetVars, boundVars
<1>10. CASE Complete(n, q)
  BY <1>1, <1>2, <1>5, <1>6, <1>8, <1>10, CompleteStep DEF IInv, TypeOK, outcomeVars, packetVars, boundVars
<1>11. QED
  BY <1>7, <1>9, <1>10

\* An expiring timer moves from the waiting to the queued ones.
LEMMA ExpireStep ==
  ASSUME IInv, NEW n \in Nodes, NEW t \in Timers, Expire(n, t)
  PROVE  IInv'
<1> DEFINE p == [puncher[n] EXCEPT !.armed = @ \ {t}, !.due = @ \union {t}]
<1>1. puncher[n] # None
  BY DEF Expire
<1>2. /\ p \in Punchers /\ p.inc = puncher[n].inc /\ p.key = puncher[n].key
      /\ p.success = puncher[n].success /\ p.punching = puncher[n].punching
  BY <1>1, PuncherFields DEF IInv, Punchers
<1>3. puncher' = [puncher EXCEPT ![n] = p]
  BY DEF Expire, IInv, TypeOK
<1> HIDE DEF p
<1>4. QED
  BY <1>1, <1>2, <1>3, PuncherStep DEF Expire, IInv, TypeOK, outcomeVars, packetVars, boundVars

\* The retry handler sends a copy and changes timers only.
LEMMA NoiseRetryStep ==
  ASSUME IInv, NEW n \in Nodes, NoiseRetry(n)
  PROVE  IInv'
<1> DEFINE p == [puncher[n] EXCEPT !.due = @ \ {"retry"}]
           q == [puncher[n] EXCEPT !.due = @ \ {"retry"}, !.armed = @ \union {"retry"}]
<1>1. puncher[n] # None
  BY DEF NoiseRetry
<1>2. /\ p \in Punchers /\ p.inc = puncher[n].inc /\ p.key = puncher[n].key
      /\ p.success = puncher[n].success /\ p.punching = puncher[n].punching
  BY <1>1, PuncherFields DEF IInv, Punchers
<1>3. /\ q \in Punchers /\ q.inc = puncher[n].inc /\ q.key = puncher[n].key
      /\ q.success = puncher[n].success /\ q.punching = puncher[n].punching
  BY <1>1, PuncherFields DEF IInv, Punchers, Timers
<1>4. puncher' = [puncher EXCEPT ![n] = p] \/ puncher' = [puncher EXCEPT ![n] = q]
  BY DEF NoiseRetry, IInv, TypeOK
<1>5. net' \subseteq Datagrams
  <2>1. Handshake(n, puncher[n], 1) \in Datagrams
    BY <1>1, PuncherFields, HandshakeType DEF IInv
  <2>2. QED
    BY <2>1 DEF NoiseRetry, IInv, TypeOK
<1>6. UNCHANGED <<addressed, ctl, outcomeVars, born, packetVars, boundVars>>
  BY DEF NoiseRetry
<1> HIDE DEF p, q
<1>7. QED
  BY <1>1, <1>2, <1>3, <1>4, <1>5, <1>6, PuncherStep DEF IInv, TypeOK, outcomeVars, packetVars, boundVars

\* The timeout handler ends an attempt, with a failure only if it had no success.
LEMMA TimeoutStep ==
  ASSUME IInv, NEW n \in Nodes, Timeout(n)
  PROVE  IInv'
<1> DEFINE p == [puncher[n] EXCEPT !.due = @ \ {"timeout"}, !.punching = FALSE]
           q == [puncher[n] EXCEPT !.due = @ \ {"timeout"}, !.punching = FALSE,
                                   !.armed = @ \ {"retry"}]
<1>1. puncher[n] # None /\ UNCHANGED <<addressed, ctl, born, net, packetVars, boundVars>>
  BY DEF Timeout
<1>2. /\ p \in Punchers /\ p.inc = puncher[n].inc /\ p.key = puncher[n].key
      /\ p.success = puncher[n].success /\ p.punching = FALSE
  BY <1>1, PuncherFields DEF IInv, Punchers
<1>3. /\ q \in Punchers /\ q.inc = puncher[n].inc /\ q.key = puncher[n].key
      /\ q.success = puncher[n].success /\ q.punching = FALSE
  BY <1>1, PuncherFields DEF IInv, Punchers
<1>4. CASE puncher[n].success
  <2>1. puncher' = [puncher EXCEPT ![n] = p] /\ UNCHANGED outcomeVars
    BY <1>4 DEF Timeout, IInv, TypeOK
  <2> HIDE DEF p
  <2>2. QED
    BY <1>1, <1>2, <2>1, PuncherStep DEF IInv, TypeOK, outcomeVars, packetVars, boundVars
<1>5. CASE ~puncher[n].success
  <2>1. puncher' = [puncher EXCEPT ![n] = q] /\ Outcome(n, Fallback, succeeded[n])
    BY <1>5 DEF Timeout, IInv, TypeOK
  <2> HIDE DEF q
  <2>2. /\ puncher \in [Nodes -> Punchers \union {None}] /\ q # None
        /\ puncher' \in [Nodes -> Punchers \union {None}]
        /\ puncher'[n] = q /\ \A k \in Nodes \ {n} : puncher'[k] = puncher[k]
    BY <1>3, <2>1, NoneAssumption DEF IInv, TypeOK
  <2>3. ~torn[n] => ~succeeded[n]
    BY <1>1, <1>5 DEF IInv, OutcomeInv, ModeTracksPuncher
  <2>4. Fallback \in Modes \ {"punching", "p2p"} /\ succeeded[n] \in BOOLEAN
    BY DEF Fallback, Modes, IInv, TypeOK
  <2> DEFINE Landed ==
         /\ mode' \in [Nodes -> Modes]
         /\ done' \in [Nodes -> BOOLEAN]
         /\ succeeded' \in [Nodes -> BOOLEAN]
         /\ tearing' \in [Nodes -> BOOLEAN]
         /\ torn' \in [Nodes -> BOOLEAN]
         /\ tearing' = tearing
         /\ \A k \in Nodes \ {n} : mode'[k] = mode[k] /\ done'[k] = done[k]
                                    /\ succeeded'[k] = succeeded[k] /\ torn'[k] = torn[k]
         /\ mode'[n] \in {Fallback, "punching"}
         /\ mode'[n] # "punching" => done'[n] /\ succeeded'[n] = succeeded[n]
         /\ ~torn'[n] => mode'[n] = Fallback /\ done'[n] /\ succeeded'[n] = succeeded[n]
         /\ tearing[n] => torn'[n]
  <2>5. Landed
    BY <2>1, <2>4, OutcomeStep
  <2>6. ~torn'[n] => ~torn[n]
    BY <2>1 DEF Outcome, IInv, TypeOK
  <2>7. TypeOK'
    BY <1>1, <2>2, <2>5 DEF IInv, TypeOK, packetVars, boundVars
  <2>8. ModeTracksPuncher'
    BY <1>3, <1>5, <2>2, <2>3, <2>4, <2>5, <2>6 DEF IInv, OutcomeInv, ModeTracksPuncher
  <2>9. KeyedOnSuccess' /\ P2PSucceeded' /\ TearingClears'
    BY <1>1, <1>3, <2>2, <2>4, <2>5 DEF IInv, OutcomeInv, KeyedOnSuccess, P2PSucceeded, TearingClears,
       boundVars
  <2>10. BornBefore'
    BY <1>1, <1>3, <2>2 DEF IInv, OutcomeInv, BornBefore
  <2>11. QED
    BY <2>7, <2>8, <2>9, <2>10 DEF IInv, OutcomeInv
<1>6. QED
  BY <1>4, <1>5

\* The peer of a client in P2P has its keys; what it sends is a packet.
LEMMA SendPacketStep ==
  ASSUME IInv, NEW n \in Nodes, SendPacket(n)
  PROVE  IInv'
<1>1. puncher[n] # None /\ seq[n] \in Nat /\ seq' = [seq EXCEPT ![n] = @ + 1]
  BY DEF SendPacket, IInv, TypeOK
<1>2. CanSend(n) => Packet(n) \in Packets
  BY <1>1, PuncherFields DEF IInv, CanSend, Packet, Packets, Side
<1>3. TypeOK'
  BY <1>1, <1>2 DEF SendPacket, IInv, TypeOK, clientVars, outcomeVars, boundVars
<1>4. OutcomeInv'
  BY DEF SendPacket, IInv, OutcomeInv, ModeTracksPuncher, KeyedOnSuccess, P2PSucceeded,
     TearingClears, BornBefore, clientVars, outcomeVars, boundVars
<1>5. QED
  BY <1>3, <1>4 DEF IInv

\* A packet that arrives changes the endpoint of a puncher at most.
LEMMA RecvPacketStep ==
  ASSUME IInv, NEW n \in Nodes, NEW d \in packets, RecvPacket(n, d)
  PROVE  IInv'
<1> DEFINE p == [puncher[n] EXCEPT !.endpoint = IF d.from = puncher[n].target THEN d.from ELSE @]
<1>1. puncher[n] # None /\ d.from \in Nodes
  BY DEF RecvPacket, IInv, TypeOK, Packets
<1>2. /\ p \in Punchers /\ p.inc = puncher[n].inc /\ p.key = puncher[n].key
      /\ p.success = puncher[n].success /\ p.punching = puncher[n].punching
  BY <1>1, PuncherFields DEF IInv, Punchers
<1>3. puncher' = [puncher EXCEPT ![n] = p]
  BY DEF RecvPacket
<1> HIDE DEF p
<1>4. QED
  BY <1>1, <1>2, <1>3, PuncherStep DEF RecvPacket, IInv, TypeOK, outcomeVars, packetVars, boundVars

\* A lost datagram changes no client.
LEMMA LoseStep ==
  ASSUME IInv, NEW d \in net, Lose(d)
  PROVE  IInv'
  BY DEF Lose, IInv, TypeOK, OutcomeInv, ModeTracksPuncher, KeyedOnSuccess, P2PSucceeded,
     TearingClears, BornBefore, clientVars, outcomeVars, packetVars, boundVars

-----------------------------------------------------------------------------

\* The inductive invariant holds before any client has punched.
LEMMA InitIInv == Init => IInv
<1> SUFFICES ASSUME Init PROVE IInv
  OBVIOUS
<1>1. TypeOK
  BY DEF Init, TypeOK, Modes
<1>2. ModeTracksPuncher
  BY DEF Init, ModeTracksPuncher
<1>3. KeyedOnSuccess /\ P2PSucceeded /\ TearingClears /\ BornBefore
  BY DEF Init, KeyedOnSuccess, P2PSucceeded, TearingClears, BornBefore
<1>4. QED
  BY <1>1, <1>2, <1>3 DEF IInv, OutcomeInv

\* Every step keeps the inductive invariant: one step of the proof per action.
LEMMA NextIInv == IInv /\ [Next]_vars => IInv'
<1> SUFFICES ASSUME IInv, [Next]_vars PROVE IInv'
  OBVIOUS
<1>1. CASE UNCHANGED vars
  BY <1>1 DEF vars, clientVars, outcomeVars, packetVars, boundVars, IInv, TypeOK, OutcomeInv,
     ModeTracksPuncher, KeyedOnSuccess, P2PSucceeded, TearingClears, BornBefore
<1>2. ASSUME NEW n \in Nodes, UpdateAddr(n) PROVE IInv'
  BY <1>2, UpdateAddrStep
<1>3. ASSUME NEW n \in Nodes, NEW t \in Nodes, ConnectPeer(n, t) PROVE IInv'
  BY <1>3, ConnectPeerStep
<1>4. ASSUME NEW n \in Nodes, PunchStart(n) \/ ResetOutcome(n) \/ DropPuncher(n) \/ SendPunch(n)
      PROVE  IInv'
  BY <1>4, PunchStartStep, ResetOutcomeStep, DropPuncherStep, SendPunchStep
<1>5. ASSUME NEW n \in Nodes, Receive(n) PROVE IInv'
  BY <1>5, RecvPunchStep, RecvAckStep, RecvMsg1Step, RecvMsg2Step DEF Receive
<1>6. ASSUME NEW n \in Nodes, NEW t \in Timers, Expire(n, t) PROVE IInv'
  BY <1>6, ExpireStep
<1>7. ASSUME NEW n \in Nodes, NoiseRetry(n) \/ Timeout(n) PROVE IInv'
  BY <1>7, NoiseRetryStep, TimeoutStep
<1>8. ASSUME NEW d \in net, Lose(d) PROVE IInv'
  BY <1>8, LoseStep
<1>9. ASSUME NEW n \in Nodes, SendPacket(n) PROVE IInv'
  BY <1>9, SendPacketStep
<1>10. ASSUME NEW n \in Nodes, NEW d \in packets, RecvPacket(n, d) PROVE IInv'
  BY <1>10, RecvPacketStep
<1>11. QED
  BY <1>1, <1>2, <1>3, <1>4, <1>5, <1>6, <1>7, <1>8, <1>9, <1>10 DEF Next

\* The inductive invariant holds of every reachable state.
LEMMA Invariance == Spec => []IInv
  BY InitIInv, NextIInv, PTL DEF Spec

\* Every reachable state is well typed: a puncher keeps its shape, and keys are
\* made of ephemerals that somebody generated.
THEOREM TypeCorrect == Spec => []TypeOK
<1>1. IInv => TypeOK
  BY DEF IInv
<1>2. QED
  BY <1>1, Invariance, PTL

\* mode_, punch_done_ and punch_success_ say what the current puncher did,
\* whatever was lost, late or repeated and however often the client was
\* signalled or lost its control connection, except after an outcome that
\* landed between the halves of a teardown and until the next punch_start or
\* reconnection; and even then an outcome in mode_ has punch_done_ set.
THEOREM ModeCorrect == Spec => []ModeTracksPuncher
<1>1. IInv => ModeTracksPuncher
  BY DEF IInv, OutcomeInv
<1>2. QED
  BY <1>1, Invariance, PTL

-----------------------------------------------------------------------------
(* What a step may not do.                                                 *)

\* The step of NeverDemoted: only on_punch_start and a lost control connection
\* take a client out of P2P, both to punch again.
LEMMA StepKeepsP2P ==
  ASSUME IInv, [Next]_vars, NEW m \in Nodes, mode[m] = "p2p"
  PROVE  mode'[m] \in {"p2p", "punching"}
<1>1. /\ mode \in [Nodes -> Modes] /\ succeeded[m]
      /\ puncher[m] # None => puncher[m].success
  BY DEF IInv, TypeOK, OutcomeInv, ModeTracksPuncher, P2PSucceeded
<1>2. CASE UNCHANGED mode
  BY <1>2
<1>3. ASSUME NEW n \in Nodes, PunchStart(n) PROVE mode'[m] \in {"p2p", "punching"}
  BY <1>1, <1>3 DEF PunchStart, clientVars, outcomeVars
<1>4. ASSUME NEW n \in Nodes, ResetOutcome(n) \/ DropPuncher(n)
      PROVE  mode'[m] \in {"p2p", "punching"}
  BY <1>1, <1>4 DEF ResetOutcome, DropPuncher
<1>5. ASSUME NEW n \in Nodes, NEW p, Complete(n, p) PROVE mode'[m] \in {"p2p", "punching"}
  <2>1. Outcome(n, "p2p", TRUE)
    BY <1>5 DEF Complete
  <2>2. \E x \in {"p2p", "punching"} : mode' = [mode EXCEPT ![n] = x]
    <3>1. PICK o \in {<<"p2p", TRUE, TRUE>>} \union
                     (IF tearing[n] THEN {"punching"} \X BOOLEAN \X {FALSE, TRUE} ELSE {}) :
            mode' = [mode EXCEPT ![n] = o[1]]
      BY <2>1 DEF Outcome
    <3>2. CASE o = <<"p2p", TRUE, TRUE>>
      BY <3>1, <3>2
    <3>3. CASE o \in {"punching"} \X BOOLEAN \X {FALSE, TRUE}
      BY <3>1, <3>3
    <3>4. QED
      BY <3>1, <3>2, <3>3
  <2>3. QED
    BY <1>1, <2>2
<1>6. ASSUME NEW n \in Nodes, Timeout(n) PROVE mode'[m] \in {"p2p", "punching"}
  <2>1. CASE UNCHANGED outcomeVars
    BY <2>1, <1>2 DEF outcomeVars
  <2>2. CASE n # m /\ Outcome(n, Fallback, succeeded[n])
    <3>1. \E x : mode' = [mode EXCEPT ![n] = x]
      BY <2>2 DEF Outcome
    <3>2. QED
      BY <1>1, <2>2, <3>1
  <2>3. QED
    BY <1>1, <1>6, <2>1, <2>2 DEF Timeout
<1>7. ASSUME NEW n \in Nodes, Receive(n) PROVE mode'[m] \in {"p2p", "punching"}
  <2>1. PICK d \in net : RecvPunch(n, d) \/ RecvAck(n, d) \/ RecvMsg1(n, d) \/ RecvMsg2(n, d)
    BY <1>7 DEF Receive
  <2>2. UNCHANGED mode \/ \E p : Complete(n, p)
    BY <2>1 DEF RecvPunch, RecvAck, RecvMsg1, RecvMsg2, outcomeVars
  <2>3. QED
    BY <1>2, <1>5, <2>2
<1>8. QED
  BY <1>2, <1>3, <1>4, <1>6, <1>7
     DEF Next, vars, clientVars, outcomeVars, UpdateAddr, ConnectPeer, SendPunch, Expire,
         NoiseRetry, Lose, SendPacket, RecvPacket

\* No late handler, acknowledgement or copy takes a client out of P2P other
\* than to punch again for a new signal or a new control connection.
THEOREM SuccessKept == Spec => NeverDemoted
<1>1. IInv /\ [Next]_vars => [\A n \in Nodes : mode[n] = "p2p" => mode'[n] \in {"p2p", "punching"}]_vars
  BY StepKeepsP2P
<1>2. QED
  BY <1>1, Invariance, PTL DEF Spec, NeverDemoted

\* The step of KeyStable: a handler that splits keys finds none, and a new
\* puncher has a number of its own.
LEMMA StepKeepsKey ==
  ASSUME IInv, [Next]_vars, NEW m \in Nodes,
         puncher[m] # None, puncher'[m] # None,
         puncher'[m].inc = puncher[m].inc, puncher[m].key # None
  PROVE  puncher'[m].key = puncher[m].key
<1> DEFINE Same == puncher'[m].key = puncher[m].key
<1>1. /\ puncher \in [Nodes -> Punchers \union {None}]
      /\ puncher[m].success /\ puncher[m].inc <= born[m] /\ born[m] \in Nat
  BY DEF IInv, TypeOK, OutcomeInv, KeyedOnSuccess, BornBefore
<1>2. CASE UNCHANGED puncher
  BY <1>2
<1>3. ASSUME NEW n \in Nodes, PunchStart(n) PROVE Same
  <2>1. CASE UNCHANGED puncher
    BY <2>1
  <2>2. CASE puncher' = [puncher EXCEPT ![n] = NewPuncher(n, Head(ctl[n]))]
    <3>1. NewPuncher(n, Head(ctl[n])).inc = born[n] + 1
      BY DEF NewPuncher
    <3>2. n # m
      BY <1>1, <2>2, <3>1
    <3>3. QED
      BY <1>1, <2>2, <3>2
  <2>3. CASE puncher' = [puncher EXCEPT ![n] = None]
    BY <1>1, <2>3
  <2>4. QED
    BY <1>3, <2>1, <2>2, <2>3 DEF PunchStart, clientVars
<1>4. ASSUME NEW n \in Nodes, ResetOutcome(n) \/ DropPuncher(n) PROVE Same
  BY <1>1, <1>4 DEF ResetOutcome, DropPuncher
<1>5. ASSUME NEW n \in Nodes, NEW d \in net, RecvPunch(n, d) PROVE Same
  BY <1>1, <1>5 DEF RecvPunch, Punchers
<1>6. ASSUME NEW n \in Nodes, NEW d \in net, RecvAck(n, d) PROVE Same
  <2> DEFINE p == Acked(n, d)
             q == [p EXCEPT !.armed = @ \union {"timeout"}]
             r == Started(p)
  <2>1. n = m => p.key = puncher[m].key /\ q.key = puncher[m].key /\ r.key = puncher[m].key
    BY <1>1 DEF Acked, Started, Punchers
  <2>2. \E x \in {p, q, r} : puncher' = [puncher EXCEPT ![n] = x]
    BY <1>6 DEF RecvAck
  <2> HIDE DEF p, q, r
  <2>3. QED
    BY <1>1, <2>1, <2>2
<1>7. ASSUME NEW n \in Nodes, NEW d \in net, RecvMsg1(n, d) \/ RecvMsg2(n, d) PROVE Same
  <2> DEFINE p == [puncher[n] EXCEPT !.endpoint = d.from]
  <2>1. n = m => p.key = puncher[m].key
    BY <1>1 DEF Punchers
  <2>2. \/ puncher' = [puncher EXCEPT ![n] = p]
        \/ puncher[n].key = None /\ \E x : Complete(n, x)
    <3>1. p.key = puncher[n].key
      BY <1>1, <1>7 DEF RecvMsg1, RecvMsg2, Arrives, Punchers
    <3>2. QED
      BY <1>7, <3>1 DEF RecvMsg1, RecvMsg2
  <2> HIDE DEF p
  <2>3. \E x : /\ puncher' = [puncher EXCEPT ![n] = x]
               /\ n = m => x.key = puncher[m].key
    BY <2>1, <2>2 DEF Complete
  <2>4. QED
    BY <1>1, <2>3
<1>8. ASSUME NEW n \in Nodes, NEW t \in Timers, Expire(n, t) PROVE Same
  BY <1>1, <1>8 DEF Expire, Punchers
<1>9. ASSUME NEW n \in Nodes, NoiseRetry(n) PROVE Same
  BY <1>1, <1>9 DEF NoiseRetry, Punchers
<1>10. ASSUME NEW n \in Nodes, Timeout(n) PROVE Same
  BY <1>1, <1>10 DEF Timeout, Punchers
<1>11. ASSUME NEW n \in Nodes, NEW d \in packets, RecvPacket(n, d) PROVE Same
  BY <1>1, <1>11 DEF RecvPacket, Punchers
<1>12. QED
  BY <1>2, <1>3, <1>4, <1>5, <1>6, <1>7, <1>8, <1>9, <1>10, <1>11
     DEF Next, Receive, vars, clientVars, UpdateAddr, ConnectPeer, SendPunch, Lose, SendPacket

\* A puncher that completed the handshake keeps its keys for good: copies of
\* handshake messages, late or repeated, never rekey it.
THEOREM KeysKept == Spec => KeyStable
<1> DEFINE Kept == \A n \in Nodes :
             puncher[n] # None /\ puncher'[n] # None /\ puncher'[n].inc = puncher[n].inc
               /\ puncher[n].key # None
             => puncher'[n].key = puncher[n].key
<1>1. IInv /\ [Next]_vars => [Kept]_vars
  BY StepKeepsKey
<1>2. QED
  BY <1>1, Invariance, PTL DEF Spec, KeyStable
-----------------------------------------------------------------------------
(* What the packets are encrypted with.                                    *)

\* The node that encrypts with the key of a side: the one whose static key
\* was mixed into it in that role.
OwnerOf(key, side) == IF side = "initiator" THEN key.init ELSE key.resp

\* The keys of a puncher were split in its own role.
KeyOwned ==
  \A n \in Nodes :
    puncher[n] # None /\ puncher[n].key # None => OwnerOf(puncher[n].key, puncher[n].role) = n

\* A packet was encrypted with a key of its sender, under a number its client
\* has counted.
Counted ==
  \A d \in packets : OwnerOf(d.key, d.side) = d.from /\ d.seq <= seq[d.from]

\* A client uses a number once, whatever the session.
NumberOnce ==
  \A d, e \in packets : d.from = e.from /\ d.seq = e.seq => d = e

\* What every step preserves of the packets and their keys.
PacketInv == KeyOwned /\ Counted /\ NumberOnce

\* An acknowledgement leaves the keys and the role of a puncher alone.
LEMMA OwnerAck ==
  ASSUME IInv, KeyOwned, NEW n \in Nodes, NEW d \in net, RecvAck(n, d)
  PROVE  KeyOwned'
<1> DEFINE p == Acked(n, d)
           q == [p EXCEPT !.armed = @ \union {"timeout"}]
           r == Started(p)
<1>1. puncher[n] # None /\ puncher[n] \in Punchers
  BY PuncherFields DEF RecvAck, Arrives, IInv
<1>2. \A x \in {p, q, r} : x.key = puncher[n].key /\ x.role = puncher[n].role
  BY <1>1 DEF Acked, Started, Punchers
<1>3. \E x \in {p, q, r} : puncher' = [puncher EXCEPT ![n] = x]
  BY DEF RecvAck
<1> HIDE DEF p, q, r
<1>4. QED
  BY <1>1, <1>2, <1>3 DEF IInv, TypeOK, KeyOwned

\* The two handshake messages split keys in the role of the receiver.
LEMMA OwnerHandshake ==
  ASSUME IInv, KeyOwned, NEW n \in Nodes, NEW d \in net, RecvMsg1(n, d) \/ RecvMsg2(n, d)
  PROVE  KeyOwned'
<1> DEFINE p == [puncher[n] EXCEPT !.endpoint = d.from]
           r == [p EXCEPT !.key = ResponderKey(n, d.eph), !.stage = 2]
           i == [p EXCEPT !.key = InitiatorKey(n, d.eph)]
<1>1. puncher[n] # None /\ puncher[n] \in Punchers
  BY PuncherFields DEF RecvMsg1, RecvMsg2, Arrives, IInv
<1>2. p.key = puncher[n].key /\ p.role = puncher[n].role
  BY <1>1 DEF Punchers
<1>3. /\ r.key = ResponderKey(n, d.eph) /\ r.role = puncher[n].role
      /\ i.key = InitiatorKey(n, d.eph) /\ i.role = puncher[n].role
  BY <1>1 DEF Punchers
<1>4. /\ ResponderKey(n, d.eph).resp = n
      /\ InitiatorKey(n, d.eph).init = n
  BY DEF ResponderKey, InitiatorKey
<1>5. puncher[n].role = "responder" => OwnerOf(r.key, r.role) = n
  BY <1>3, <1>4 DEF OwnerOf
<1>6. puncher[n].role = "initiator" => OwnerOf(i.key, i.role) = n
  BY <1>3, <1>4 DEF OwnerOf
<1>7. \/ puncher' = [puncher EXCEPT ![n] = p]
      \/ puncher[n].role = "responder" /\ Complete(n, r)
      \/ puncher[n].role = "initiator" /\ Complete(n, i)
  BY <1>2 DEF RecvMsg1, RecvMsg2
<1> DEFINE rd == [r EXCEPT !.success = TRUE, !.punching = FALSE, !.armed = {}]
           id == [i EXCEPT !.success = TRUE, !.punching = FALSE, !.armed = {}]
<1>8. /\ rd.key = r.key /\ rd.role = r.role
      /\ id.key = i.key /\ id.role = i.role
  BY <1>1 DEF Punchers
<1>9. /\ Complete(n, r) => puncher' = [puncher EXCEPT ![n] = rd]
      /\ Complete(n, i) => puncher' = [puncher EXCEPT ![n] = id]
  BY DEF Complete
<1>10. r.role = puncher[n].role /\ i.role = puncher[n].role
  BY <1>3
<1> HIDE DEF p, r, i, rd, id
<1>11. puncher \in [Nodes -> Punchers \union {None}]
  BY DEF IInv, TypeOK
<1>12. PICK x : /\ puncher' = [puncher EXCEPT ![n] = x]
                /\ \/ x.key = puncher[n].key /\ x.role = puncher[n].role
                   \/ OwnerOf(x.key, x.role) = n
  BY <1>2, <1>5, <1>6, <1>7, <1>8, <1>9, <1>10
<1>13. QED
  BY <1>1, <1>11, <1>12 DEF KeyOwned

\* Every step keeps the keys of a puncher those of its role.
LEMMA NextKeyOwned == IInv /\ KeyOwned /\ [Next]_vars => KeyOwned'
<1> SUFFICES ASSUME IInv, KeyOwned, [Next]_vars PROVE KeyOwned'
  OBVIOUS
<1>1. CASE UNCHANGED puncher
  BY <1>1 DEF KeyOwned
<1>2. ASSUME NEW n \in Nodes, PunchStart(n) \/ ResetOutcome(n) \/ DropPuncher(n) PROVE KeyOwned'
  <2> DEFINE p == NewPuncher(n, Head(ctl[n]))
  <2>1. p.key = None
    BY DEF NewPuncher
  <2>2. \/ puncher' = [puncher EXCEPT ![n] = p]
        \/ puncher' = [puncher EXCEPT ![n] = None]
        \/ UNCHANGED puncher
    BY <1>2 DEF PunchStart, ResetOutcome, DropPuncher, clientVars
  <2> HIDE DEF p
  <2>3. QED
    BY <2>1, <2>2 DEF KeyOwned, IInv, TypeOK
<1>3. ASSUME NEW n \in Nodes, NEW d \in net, RecvPunch(n, d) PROVE KeyOwned'
  BY <1>3 DEF RecvPunch, Arrives, KeyOwned, IInv, TypeOK, Punchers
<1>4. ASSUME NEW n \in Nodes, NEW d \in net, RecvAck(n, d) \/ RecvMsg1(n, d) \/ RecvMsg2(n, d)
      PROVE KeyOwned'
  BY <1>4, OwnerAck, OwnerHandshake
<1>5. ASSUME NEW n \in Nodes, NEW t \in Timers, Expire(n, t) PROVE KeyOwned'
  BY <1>5 DEF Expire, KeyOwned, IInv, TypeOK, Punchers
<1>6. ASSUME NEW n \in Nodes, NoiseRetry(n) \/ Timeout(n) PROVE KeyOwned'
  <2> DEFINE a == [puncher[n] EXCEPT !.due = @ \ {"retry"}]
             b == [puncher[n] EXCEPT !.due = @ \ {"retry"}, !.armed = @ \union {"retry"}]
             c == [puncher[n] EXCEPT !.due = @ \ {"timeout"}, !.punching = FALSE]
             e == [puncher[n] EXCEPT !.due = @ \ {"timeout"}, !.punching = FALSE,
                                     !.armed = @ \ {"retry"}]
  <2>1. puncher \in [Nodes -> Punchers \union {None}] /\ puncher[n] # None
    BY <1>6 DEF NoiseRetry, Timeout, IInv, TypeOK
  <2>2. \A x \in {a, b, c, e} : x.key = puncher[n].key /\ x.role = puncher[n].role
    BY <2>1 DEF Punchers
  <2>3. CASE NoiseRetry(n)
    <3>1. puncher' = [puncher EXCEPT ![n] = a] \/ puncher' = [puncher EXCEPT ![n] = b]
      BY <2>1, <2>3 DEF NoiseRetry
    <3> HIDE DEF a, b
    <3>2. QED
      BY <2>1, <2>2, <3>1 DEF KeyOwned
  <2>4. CASE Timeout(n)
    <3>1. puncher' = [puncher EXCEPT ![n] = c] \/ puncher' = [puncher EXCEPT ![n] = e]
      BY <2>1, <2>4 DEF Timeout
    <3> HIDE DEF c, e
    <3>2. QED
      BY <2>1, <2>2, <3>1 DEF KeyOwned
  <2>5. QED
    BY <1>6, <2>3, <2>4
<1>7. ASSUME NEW n \in Nodes, NEW d \in packets, RecvPacket(n, d) PROVE KeyOwned'
  BY <1>7 DEF RecvPacket, KeyOwned, IInv, TypeOK, Punchers
<1>8. QED
  BY <1>1, <1>2, <1>3, <1>4, <1>5, <1>6, <1>7
     DEF Next, Receive, vars, clientVars, UpdateAddr, ConnectPeer, SendPunch, Lose, SendPacket

\* Every step keeps the numbers of packets counted and used once: a packet
\* that is sent has a number above those its client has used.
LEMMA NextPackets == IInv /\ PacketInv /\ [Next]_vars => (Counted /\ NumberOnce)'
<1> SUFFICES ASSUME IInv, PacketInv, [Next]_vars PROVE (Counted /\ NumberOnce)'
  OBVIOUS
<1>1. CASE UNCHANGED packetVars
  BY <1>1 DEF PacketInv, Counted, NumberOnce, packetVars
<1>2. ASSUME NEW n \in Nodes, SendPacket(n) PROVE (Counted /\ NumberOnce)'
  <2>1. seq \in [Nodes -> Nat] /\ seq' = [seq EXCEPT ![n] = @ + 1] /\ packets \subseteq Packets
    BY <1>2 DEF SendPacket, IInv, TypeOK
  <2> DEFINE new == Packet(n)
  <2>2. packets' = packets \/ (CanSend(n) /\ packets' = packets \union {new})
    BY <1>2 DEF SendPacket
  <2>3. new.from = n /\ new.seq = seq[n] + 1 /\ (CanSend(n) => OwnerOf(new.key, new.side) = n)
    BY <1>2 DEF SendPacket, Packet, Side, CanSend, PacketInv, KeyOwned
  <2>4. \A d \in packets : /\ d.from \in Nodes /\ d.seq \in Nat
                            /\ d.seq <= seq'[d.from] /\ (d.from = n => d.seq < new.seq)
    BY <2>1, <2>3 DEF PacketInv, Counted, Packets
  <2> HIDE DEF new
  <2>5. Counted'
    BY <2>1, <2>2, <2>3, <2>4 DEF PacketInv, Counted
  <2>6. NumberOnce'
    BY <2>2, <2>3, <2>4 DEF PacketInv, NumberOnce
  <2>7. QED
    BY <2>5, <2>6
<1>3. CASE UNCHANGED vars
  BY <1>1, <1>3 DEF vars
<1>4. ASSUME NEW n \in Nodes, \/ UpdateAddr(n) \/ PunchStart(n) \/ SendPunch(n)
                              \/ ResetOutcome(n) \/ DropPuncher(n)
      PROVE  UNCHANGED packetVars
  BY <1>4 DEF UpdateAddr, PunchStart, SendPunch, ResetOutcome, DropPuncher
<1>5. ASSUME NEW n \in Nodes, NEW t \in Nodes, ConnectPeer(n, t) PROVE UNCHANGED packetVars
  BY <1>5 DEF ConnectPeer
<1>6. ASSUME NEW n \in Nodes, Receive(n) PROVE UNCHANGED packetVars
  BY <1>6 DEF Receive, RecvPunch, RecvAck, RecvMsg1, RecvMsg2
<1>7. ASSUME NEW n \in Nodes, (\E t \in Timers : Expire(n, t)) \/ NoiseRetry(n) \/ Timeout(n)
      PROVE  UNCHANGED packetVars
  BY <1>7 DEF Expire, NoiseRetry, Timeout
<1>8. ASSUME NEW n \in Nodes, NEW d \in packets, RecvPacket(n, d) PROVE UNCHANGED packetVars
  BY <1>8 DEF RecvPacket
<1>9. ASSUME NEW d \in net, Lose(d) PROVE UNCHANGED packetVars
  BY <1>9 DEF Lose
<1>10. QED
  BY <1>1, <1>2, <1>3, <1>4, <1>5, <1>6, <1>7, <1>8, <1>9 DEF Next

\* The packets and their keys stay as PacketInv says.
LEMMA PacketInvariance == Spec => []PacketInv
<1>1. Init => PacketInv
  BY DEF Init, PacketInv, KeyOwned, Counted, NumberOnce
<1>2. IInv /\ PacketInv /\ [Next]_vars => PacketInv'
  BY NextKeyOwned, NextPackets DEF PacketInv
<1>3. QED
  BY <1>1, <1>2, Invariance, PTL DEF Spec

\* No two packets are encrypted with the same key and nonce, in however many
\* attempts, whatever is lost or repeated and however often the control
\* connection is lost: keys have one owner in each role, and relay_seq_ of a
\* client never goes back.
THEOREM NoncesUsedOnce == Spec => []NonceOnce
<1>1. PacketInv => NonceOnce
  <2>1. SUFFICES ASSUME PacketInv, NEW d \in packets, NEW e \in packets,
                        d.key = e.key, d.side = e.side, d.seq = e.seq
                 PROVE  d = e
    BY DEF NonceOnce
  <2>2. d.from = e.from
    BY <2>1 DEF PacketInv, Counted
  <2>3. QED
    BY <2>1, <2>2 DEF PacketInv, NumberOnce
<1>2. QED
  BY <1>1, PacketInvariance, PTL
=============================================================================
