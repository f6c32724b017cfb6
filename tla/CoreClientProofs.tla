-------------------------- MODULE CoreClientProofs --------------------------
(***************************************************************************)
(* Theorems about the client process, for any configurations and any       *)
(* number of starts, broken connections, signals and heartbeats: what the  *)
(* connection writes, what is left when Start can be clicked, and what a   *)
(* stop meets and leaves behind.                                           *)
(***************************************************************************)
EXTENDS CoreClient, SequenceTheorems, TLAPS

-----------------------------------------------------------------------------
(* Connections *)

\* At most one write is in progress, and what was written, is being written and
\* is queued is what was accepted, in that order.
Sound ==
  {c \in Conns : /\ Len(c.writes) <= 1
                 /\ c.wire \o c.writes \o c.queue = c.sent}

\* A sound connection knows the type of each of its parts.
LEMMA SoundFields ==
  ASSUME NEW c \in Sound
  PROVE  /\ c \in Conns
         /\ c.connected \in BOOLEAN /\ c.reader \in BOOLEAN
         /\ c.closed \in BOOLEAN /\ c.reading \in BOOLEAN
         /\ c.queue \in Seq(Messages) /\ c.writes \in Seq(Messages)
         /\ c.sent \in Seq(Messages) /\ c.wire \in Seq(Messages)
         /\ c.inbox \in Nat
         /\ Len(c.writes) <= 1
         /\ c.wire \o c.writes \o c.queue = c.sent
  BY DEF Sound, Conns

\* Appending to the second of two sequences appends to their concatenation.
LEMMA ConcatAppend ==
  ASSUME NEW s \in Seq(Messages), NEW t \in Seq(Messages), NEW m \in Messages
  PROVE  s \o Append(t, m) = Append(s \o t, m)
  <1>1. <<m>> \in Seq(Messages)
    OBVIOUS
  <1>2. Append(t, m) = t \o <<m>>
    BY AppendIsConcat
  <1>3. s \o t \in Seq(Messages)
    BY ConcatProperties
  <1>4. Append(s \o t, m) = (s \o t) \o <<m>>
    BY <1>3, AppendIsConcat
  <1> QED BY <1>1, <1>2, <1>4, ConcatAssociative

\* A sequence that is not empty is its head followed by its tail.
LEMMA HeadThenTail ==
  ASSUME NEW q \in Seq(Messages), q # <<>>
  PROVE  /\ Head(q) \in Messages /\ Tail(q) \in Seq(Messages)
         /\ Append(<<>>, Head(q)) \o Tail(q) = q
  <1>1. /\ Head(q) \in Messages /\ Tail(q) \in Seq(Messages)
        /\ Len(Tail(q)) = Len(q) - 1
        /\ \A i \in 1..Len(Tail(q)) : Tail(q)[i] = q[i + 1]
    BY HeadTailProperties
  <1> DEFINE h == Append(<<>>, Head(q))
  <1>2. /\ h \in Seq(Messages) /\ Len(h) = 1 /\ h[1] = Head(q)
    BY <1>1
  <1>3. /\ h \o Tail(q) \in Seq(Messages)
        /\ Len(h \o Tail(q)) = Len(q)
        /\ \A i \in 1..Len(q) : (h \o Tail(q))[i] =
             IF i <= 1 THEN h[i] ELSE Tail(q)[i - 1]
    <2> DEFINE r == Tail(q)
    <2>1. h \in Seq(Messages) /\ r \in Seq(Messages)
      BY <1>1, <1>2
    <2>2. Len(h) = 1 /\ Len(r) = Len(q) - 1 /\ Len(q) \in Nat
      BY <1>1, <1>2, LenProperties
    <2> HIDE DEF h, r
    <2>3. /\ h \o r \in Seq(Messages)
          /\ Len(h \o r) = Len(h) + Len(r)
          /\ \A i \in 1..Len(h) + Len(r) : (h \o r)[i] =
               IF i <= Len(h) THEN h[i] ELSE r[i - Len(h)]
      BY <2>1, ConcatProperties
    <2>4. /\ h \o r \in Seq(Messages)
          /\ Len(h \o r) = Len(q)
          /\ \A i \in 1..Len(q) : (h \o r)[i] = IF i <= 1 THEN h[i] ELSE r[i - 1]
      BY <2>2, <2>3
    <2> QED BY <2>4 DEF r
  <1>4. q[1] = Head(q) /\ Len(q) \in Nat
    BY LenProperties
  <1>5. \A i \in 1..Len(q) : (h \o Tail(q))[i] = q[i]
    <2> HIDE DEF h
    <2> TAKE i \in 1..Len(q)
    <2>1. CASE i = 1
      BY <1>2, <1>3, <1>4, <2>1
    <2>2. CASE i # 1
      <3>1. i - 1 \in 1..Len(Tail(q)) /\ (i - 1) + 1 = i
        BY <1>1, <1>4, <2>2
      <3> QED BY <1>1, <1>3, <2>2, <3>1
    <2> QED BY <2>1, <2>2
  <1>6. h \o Tail(q) = q
    <2> HIDE DEF h
    <2> QED BY <1>3, <1>5, SeqEqual
  <1> QED BY <1>1, <1>6

\* Queueing a message adds it at the end of all that was accepted.
LEMMA QueueAtEnd ==
  ASSUME NEW wire \in Seq(Messages), NEW writes \in Seq(Messages),
         NEW queue \in Seq(Messages), NEW m \in Messages
  PROVE  wire \o writes \o Append(queue, m) = Append(wire \o writes \o queue, m)
  <1>1. wire \o writes \in Seq(Messages)
    BY ConcatProperties
  <1> QED BY <1>1, ConcatAppend

\* Moving the head of the queue to an idle writer changes no order.
LEMMA WriteFromQueue ==
  ASSUME NEW wire \in Seq(Messages), NEW queue \in Seq(Messages), queue # <<>>
  PROVE  wire \o Append(<<>>, Head(queue)) \o Tail(queue) = wire \o <<>> \o queue
  <1> DEFINE h == Append(<<>>, Head(queue))
             r == Tail(queue)
  <1>0. h \in Seq(Messages) /\ r \in Seq(Messages)
    BY HeadThenTail
  <1>1. h \o r = queue
    BY HeadThenTail
  <1>2. wire \o <<>> = wire
    BY ConcatEmptySeq
  <1> HIDE DEF h, r
  <1>3. (wire \o h) \o r = wire \o (h \o r)
    BY <1>0, ConcatAssociative
  <1>4. wire \o h \o r = wire \o <<>> \o queue
    BY <1>1, <1>2, <1>3
  <1> QED BY <1>4 DEF h, r

\* Moving the one write in progress to what was written changes no order.
LEMMA WriteToWire ==
  ASSUME NEW wire \in Seq(Messages), NEW writes \in Seq(Messages),
         NEW queue \in Seq(Messages), Len(writes) = 1
  PROVE  /\ writes[1] \in Messages
         /\ Append(wire, writes[1]) \in Seq(Messages)
         /\ Append(wire, writes[1]) \o <<>> \o queue = wire \o writes \o queue
  <1>1. writes[1] \in Messages
    <2>1. 1 \in 1..Len(writes)
      OBVIOUS
    <2> QED BY <2>1, ElementOfSeq
  <1>2. writes = <<writes[1]>>
    OBVIOUS
  <1>3. Append(wire, writes[1]) = wire \o writes
    BY <1>1, <1>2, AppendIsConcat
  <1>4. Append(wire, writes[1]) \in Seq(Messages)
    BY <1>1, AppendProperties
  <1>5. Append(wire, writes[1]) \o <<>> = Append(wire, writes[1])
    BY <1>4, ConcatEmptySeq
  <1> QED BY <1>1, <1>3, <1>4, <1>5

\* A new connection is sound.
LEMMA AttachedSound == Attached \in Sound
  <1>1. <<>> \in Seq(Messages)
    BY EmptySeq
  <1>2. Attached \in Conns
    BY <1>1 DEF Attached, Conns
  <1>3. /\ Attached.writes = <<>> /\ Attached.queue = <<>>
        /\ Attached.wire = <<>> /\ Attached.sent = <<>>
    BY DEF Attached
  <1>4. <<>> \o <<>> \o <<>> = <<>>
    BY <1>1, ConcatEmptySeq
  <1>5. Len(<<>>) <= 1
    OBVIOUS
  <1> QED BY <1>2, <1>3, <1>4, <1>5 DEF Sound

\* send() keeps a connection sound, and changes neither its state nor its reader.
LEMMA SendSound ==
  ASSUME NEW c \in Sound, NEW m \in Messages
  PROVE  /\ Send(c, m) \in Sound
         /\ Send(c, m).connected = c.connected
         /\ Send(c, m).reader = c.reader
  <1>1. CASE ~c.connected
    BY <1>1 DEF Send
  <1>2. CASE c.connected
    <2> DEFINE d == [c EXCEPT !.queue = Append(@, m), !.flush = TRUE,
                              !.sent = Append(@, m)]
    <2>1. Send(c, m) = d
      BY <1>2 DEF Send
    <2>2. /\ Append(c.queue, m) \in Seq(Messages)
          /\ Append(c.sent, m) \in Seq(Messages)
          /\ c.wire \o c.writes \in Seq(Messages)
      BY SoundFields, AppendProperties, ConcatProperties
    <2>3. d \in Conns
      BY <2>2, SoundFields DEF Conns
    <2>4. /\ d.connected = c.connected /\ d.reader = c.reader
          /\ d.writes = c.writes /\ d.wire = c.wire
          /\ d.queue = Append(c.queue, m) /\ d.sent = Append(c.sent, m)
      BY SoundFields DEF Conns
    <2>5. d.wire \o d.writes \o d.queue = d.sent
      <3>1. c.wire \o c.writes \o Append(c.queue, m) = Append(c.sent, m)
        <4>1. /\ c.wire \in Seq(Messages) /\ c.writes \in Seq(Messages)
              /\ c.queue \in Seq(Messages)
          BY SoundFields
        <4>2. c.wire \o c.writes \o c.queue = c.sent
          BY SoundFields
        <4>3. c.wire \o c.writes \o Append(c.queue, m)
                = Append(c.wire \o c.writes \o c.queue, m)
          BY <4>1, QueueAtEnd
        <4> QED BY <4>2, <4>3
      <3> HIDE DEF d
      <3> QED BY <2>4, <3>1
    <2>6. d \in Sound
      <3> HIDE DEF d
      <3> QED BY <2>3, <2>4, <2>5, SoundFields DEF Sound
    <2> QED BY <2>1, <2>4, <2>6
  <1> QED BY <1>1, <1>2, SoundFields

\* A flush keeps a connection sound, and changes neither its state nor its reader.
LEMMA FlushSound ==
  ASSUME NEW c \in Sound
  PROVE  /\ FlushQueue(c) \in Sound
         /\ FlushQueue(c).connected = c.connected
         /\ FlushQueue(c).reader = c.reader
         /\ FlushQueue(c).inbox = c.inbox
  <1>1. CASE ~c.connected \/ c.writes # <<>> \/ c.queue = <<>>
    BY <1>1 DEF FlushQueue
  <1>2. CASE ~(~c.connected \/ c.writes # <<>> \/ c.queue = <<>>)
    <2> DEFINE d == [c EXCEPT !.queue = Tail(@),
                              !.writes = Append(@, Head(c.queue))]
    <2>1. FlushQueue(c) = d
      BY <1>2 DEF FlushQueue
    <2>2. /\ Head(c.queue) \in Messages /\ Tail(c.queue) \in Seq(Messages)
          /\ Append(<<>>, Head(c.queue)) \o Tail(c.queue) = c.queue
      BY <1>2, SoundFields, HeadThenTail
    <2>3. /\ Append(<<>>, Head(c.queue)) \in Seq(Messages)
          /\ Len(Append(<<>>, Head(c.queue))) = 1
      BY <2>2
    <2>4. d \in Conns
      BY <1>2, <2>2, <2>3, SoundFields DEF Conns
    <2>5. /\ d.connected = c.connected /\ d.reader = c.reader
          /\ d.inbox = c.inbox
          /\ d.writes = Append(<<>>, Head(c.queue)) /\ d.wire = c.wire
          /\ d.queue = Tail(c.queue) /\ d.sent = c.sent
      BY <1>2, SoundFields DEF Conns
    <2>6. d.wire \o d.writes \o d.queue = d.sent
      <3>1. c.wire \o Append(<<>>, Head(c.queue)) \o Tail(c.queue) = c.sent
        <4>1. /\ c.wire \in Seq(Messages) /\ c.queue \in Seq(Messages)
              /\ c.wire \o c.writes \o c.queue = c.sent
          BY SoundFields
        <4> QED BY <1>2, <4>1, WriteFromQueue
      <3> HIDE DEF d
      <3> QED BY <2>5, <3>1
    <2>8. d \in Sound
      <3>1. Len(d.writes) <= 1
        BY <2>3, <2>5
      <3> HIDE DEF d
      <3> QED BY <2>4, <2>6, <3>1 DEF Sound
    <2> QED BY <2>1, <2>5, <2>8
  <1> QED BY <1>1, <1>2, SoundFields

\* A write in progress completes: the connection stays sound.
LEMMA WrittenSound ==
  ASSUME NEW c \in Sound, NEW d \in Written(c)
  PROVE  d \in Sound /\ d.connected = c.connected /\ d.reader = c.reader
  <1>1. PICK i \in DOMAIN c.writes :
          d = FlushQueue([c EXCEPT !.writes = RemoveAt(@, i),
                                   !.wire = Append(@, c.writes[i])])
    BY DEF Written
  <1>2. Len(c.writes) = 1 /\ i = 1
    <2>1. c.writes \in Seq(Messages) /\ Len(c.writes) <= 1
      BY SoundFields
    <2>2. DOMAIN c.writes = 1..Len(c.writes) /\ Len(c.writes) \in Nat
      BY <2>1, LenProperties
    <2>3. i \in 1..Len(c.writes)
      BY <2>2
    <2> DEFINE k == Len(c.writes)
    <2>4. k \in Nat /\ k <= 1 /\ i \in 1..k
      BY <2>1, <2>2, <2>3
    <2> HIDE DEF k
    <2>5. k = 1 /\ i = 1
      BY <2>4
    <2> QED BY <2>5 DEF k
  <1> DEFINE e == [c EXCEPT !.writes = <<>>, !.wire = Append(@, c.writes[1])]
  <1>3. RemoveAt(c.writes, 1) = <<>>
    BY <1>2, SoundFields DEF RemoveAt
  <1>4. d = FlushQueue(e)
    BY <1>1, <1>2, <1>3
  <1>5. /\ Append(c.wire, c.writes[1]) \in Seq(Messages)
        /\ Append(c.wire, c.writes[1]) \o <<>> \o c.queue = c.sent
    BY <1>2, SoundFields, WriteToWire
  <1>6. e \in Conns
    BY <1>5, SoundFields, EmptySeq DEF Conns
  <1>7. /\ e.connected = c.connected /\ e.reader = c.reader
        /\ e.writes = <<>> /\ e.wire = Append(c.wire, c.writes[1])
        /\ e.queue = c.queue /\ e.sent = c.sent
    BY SoundFields DEF Conns
  <1>8. e \in Sound
    <2> HIDE DEF e
    <2>1. Len(e.writes) <= 1
      BY <1>7
    <2>2. e.wire \o e.writes \o e.queue = e.sent
      BY <1>5, <1>7
    <2> QED BY <1>6, <2>1, <2>2 DEF Sound
  <1> HIDE DEF e
  <1> QED BY <1>4, <1>7, <1>8, FlushSound

\* A connection that is over is sound and not connected.
LEMMA OverSound ==
  ASSUME NEW c \in Sound
  PROVE  /\ Over(c) \in Sound
         /\ ~Over(c).connected /\ Over(c).reader = c.reader
         /\ Close(c) \in Sound
         /\ ~Close(c).connected /\ Close(c).reader = c.reader
  <1>1. /\ Attached \in Sound /\ Attached \in Conns
        /\ c.reader \in BOOLEAN /\ c.inbox \in Nat
    BY AttachedSound, SoundFields
  <1>2. ASSUME NEW k \in Conns, k.writes = Attached.writes, k.wire = Attached.wire,
               k.queue = Attached.queue, k.sent = Attached.sent
        PROVE  k \in Sound
    BY <1>1, <1>2 DEF Sound
  <1>3. /\ Over(c) \in Conns /\ Close(c) \in Conns
        /\ ~Over(c).connected /\ Over(c).reader = c.reader
        /\ ~Close(c).connected /\ Close(c).reader = c.reader
    BY <1>1 DEF Over, Close, Conns
  <1>4. /\ Over(c).writes = Attached.writes /\ Over(c).wire = Attached.wire
        /\ Over(c).queue = Attached.queue /\ Over(c).sent = Attached.sent
        /\ Close(c).writes = Attached.writes /\ Close(c).wire = Attached.wire
        /\ Close(c).queue = Attached.queue /\ Close(c).sent = Attached.sent
    BY <1>1 DEF Over, Close, Conns
  <1> QED BY <1>2, <1>3, <1>4

\* A connection that differs in its reader, its flush or its inbox only is sound.
LEMMA SideSound ==
  ASSUME NEW c \in Sound
  PROVE  /\ [c EXCEPT !.flush = FALSE] \in Sound
         /\ [c EXCEPT !.reader = FALSE] \in Sound
         /\ \A k \in Nat : [c EXCEPT !.inbox = k] \in Sound
  <1>1. c \in Conns
    BY SoundFields
  <1>2. ASSUME NEW k \in Conns, k.writes = c.writes, k.wire = c.wire,
               k.queue = c.queue, k.sent = c.sent
        PROVE  k \in Sound
    BY <1>2 DEF Sound
  <1>3. [c EXCEPT !.flush = FALSE] \in Sound
    BY <1>1, <1>2 DEF Conns
  <1>4. [c EXCEPT !.reader = FALSE] \in Sound
    BY <1>1, <1>2 DEF Conns
  <1>5. ASSUME NEW k \in Nat PROVE [c EXCEPT !.inbox = k] \in Sound
    BY <1>1, <1>2 DEF Conns
  <1> QED BY <1>3, <1>4, <1>5

\* Whatever the reader thread does, the connection stays sound, does not come
\* back to life, and a reader that ended stays ended.
LEMMA ReaderSound ==
  ASSUME NEW c \in Sound,
         NEW d \in Flushed(c) \union Written(c) \union Ended(c)
                     \union Arrived(c) \union Broken(c)
  PROVE  /\ d \in Sound
         /\ d.connected => c.connected
         /\ d.reader => c.reader
  <1>1. CASE d \in Flushed(c)
    <2> DEFINE e == [c EXCEPT !.flush = FALSE]
    <2>1. d = FlushQueue(e)
      BY <1>1 DEF Flushed
    <2>2. e \in Sound /\ e.connected = c.connected /\ e.reader = c.reader
      BY SideSound, SoundFields DEF Conns
    <2> HIDE DEF e
    <2> QED BY <2>1, <2>2, FlushSound
  <1>2. CASE d \in Written(c)
    BY <1>2, WrittenSound
  <1>3. CASE d \in Ended(c)
    <2>1. d = [c EXCEPT !.reader = FALSE]
      BY <1>3 DEF Ended
    <2>2. d.connected = c.connected /\ d.reader = FALSE
      BY <2>1, SoundFields DEF Conns
    <2> QED BY <2>1, <2>2, SideSound
  <1>4. CASE d \in Arrived(c)
    <2> DEFINE e == FlushQueue(c)
    <2>1. d = [e EXCEPT !.inbox = @ + 1]
      BY <1>4 DEF Arrived
    <2>2. /\ e \in Sound /\ e.connected = c.connected /\ e.reader = c.reader
          /\ e \in Conns /\ e.inbox + 1 \in Nat
      <3>1. e \in Sound /\ e.connected = c.connected /\ e.reader = c.reader
        BY FlushSound
      <3> HIDE DEF e
      <3>2. e \in Conns /\ e.inbox \in Nat
        BY <3>1, SoundFields
      <3> QED BY <3>1, <3>2
    <2> HIDE DEF e
    <2>3. d \in Sound
      BY <2>1, <2>2, SideSound
    <2>4. d.connected = e.connected /\ d.reader = e.reader
      BY <2>1, <2>2 DEF Conns
    <2> QED BY <2>2, <2>3, <2>4
  <1>5. CASE d \in Broken(c)
    BY <1>5, OverSound DEF Broken
  <1> QED BY <1>1, <1>2, <1>3, <1>4, <1>5

-----------------------------------------------------------------------------
(* The inductive invariant of the process *)

\* What exists when: no thread and no client before the first click on Start and
\* after a stop, a client from the worker's first step on, a handler only with a
\* client, a connection where the worker relies on one and none where it is about
\* to make one, and no thread by the time the client is destroyed.
Lifecycle ==
  /\ ~started => gui = "idle" /\ worker = "none" /\ monitor = None
                   /\ client = None /\ ws = None
  /\ started /\ gui = "idle" => worker # "none"
  /\ worker = "create" => client = None /\ ws = None
  /\ worker \notin {"none", "create"} => client # None
  /\ handler # "none" => client # None
  /\ gui \in {"client", "reader", "test", "puncher", "io"} => client # None
  /\ gui \in {"client", "reader", "test", "puncher", "io"} /\ worker = "none"
       => monitor = None
  /\ gui = "monitor" => worker = "none"
  /\ gui = "reset" => worker = "none" /\ monitor = None
  /\ worker \in {"await", "attach"} => ws = None
  /\ worker \in {"announce", "abandon", "beat", "dial"} => ws # None

\* How far a stop has got: unless it met a thread that was Exposed, the worker
\* stays out of connect_control_channel and the io thread out of on_punch_start,
\* so that the connection is not replaced and the puncher is the one stop() has
\* tested, and the reader and then the io thread have ended.
Halting ==
  /\ gui \in {"reader", "test", "puncher", "io"} => client.stopping
  /\ gui = "reset" /\ client # None => client.stopping
  /\ client # None /\ client.stopping /\ ~overlapped =>
       /\ worker \notin Connecting
       /\ handler \notin Starting
       /\ handler \in Sending => ws # None
       /\ gui = "reader" => ws # None
       /\ gui = "puncher" => client.puncher
       /\ gui \in {"test", "puncher", "io", "worker", "monitor", "reset"} => ~Reading
       /\ gui \in {"worker", "monitor", "reset"} => ~client.io

IInv ==
  /\ TypeOK
  /\ ws = None \/ ws \in Sound
  /\ Lifecycle
  /\ Halting
  /\ HeartbeatArmed

\* A client knows the type of each of its parts.
LEMMA ClientFields ==
  ASSUME NEW c \in Clients
  PROVE  /\ c.stopping \in BOOLEAN /\ c.mode \in Modes /\ c.done \in BOOLEAN
         /\ c.puncher \in BOOLEAN /\ c.io \in BOOLEAN /\ c.beating \in BOOLEAN
         /\ c.relaying \in BOOLEAN
  BY DEF Clients

\* The marker for nothing is no client and no connection.
LEMMA IsClient ==
  ASSUME IInv
  PROVE  /\ client # None <=> client \in Clients
         /\ ws # None <=> ws \in Sound
         /\ None \notin Clients /\ None \notin Sound /\ None \notin Modes
         /\ None # "ended"
  BY NoneAssumption DEF IInv, TypeOK, Sound

\* The initial state satisfies the invariant.
LEMMA InvInit == Init => IInv
  <1> SUFFICES ASSUME Init PROVE IInv
    OBVIOUS
  <1>1. TypeOK
    <2>1. events \in Seq(Modes \union {"error"})
      BY EmptySeq DEF Init
    <2> QED BY <2>1 DEF Init, TypeOK
  <1> QED BY <1>1 DEF Init, IInv, Lifecycle, Halting, HeartbeatArmed

\* Steps of the GUI thread keep the invariant: Start, and the beginning of a stop.
LEMMA ClickStep ==
  ASSUME IInv
  PROVE  /\ \A c \in Configs : StartClicked(c) => IInv'
         /\ Stop => IInv'
         /\ HandleEvent => IInv'
  <1> USE DEF guiVars, flags, fate
  <1>0. TypeOK /\ Lifecycle /\ Halting /\ HeartbeatArmed
    BY DEF IInv
  <1>1. ASSUME NEW c \in Configs, StartClicked(c) PROVE IInv'
    <2>1. /\ started' = TRUE /\ worker' = "create" /\ monitor' = "punching"
          /\ client = None /\ ws = None /\ gui = "idle"
          /\ UNCHANGED <<gui, client, ws, handler>>
      BY <1>0, <1>1 DEF StartClicked, Start, Lifecycle
    <2>2. TypeOK'
      <3>2. monitor' \in Modes
        BY <2>1 DEF Modes
      <3> QED BY <1>0, <1>1, <2>1, <3>2 DEF StartClicked, Start, TypeOK
    <2> QED BY <1>0, <2>1, <2>2 DEF IInv, Lifecycle, Halting, HeartbeatArmed
  <1>2. ASSUME Stop PROVE IInv'
    <2>1. /\ gui = "idle" /\ started
          /\ gui' = IF client = None THEN "worker" ELSE "client"
          /\ UNCHANGED <<started, worker, handler, monitor, client, ws, overlapped>>
      BY <1>2 DEF Stop
    <2>2. TypeOK'
      <3>1. gui' \in {"client", "worker"} /\ running' = FALSE /\ stopRequested' = TRUE
        BY <1>2, <2>1 DEF Stop
      <3>2. UNCHANGED <<started, shown, events, config, worker, again, handler, monitor,
                        client, ws, fate, count>>
        BY <1>2 DEF Stop
      <3>3. /\ gui' \in {"idle", "client", "reader", "test", "puncher", "io", "worker",
                         "monitor", "reset"}
            /\ running' \in BOOLEAN /\ stopRequested' \in BOOLEAN
        BY <3>1
      <3>4. /\ events' \in Seq(Modes \union {"error"}) /\ config' \in Configs
            /\ handler' \in {"none", "begin", "fallback"} \union Starting \union Sending
            /\ monitor' \in Modes \union {"ended", None}
            /\ client' \in Clients \union {None} /\ ws' \in Conns \union {None}
            /\ leaked' \in BOOLEAN /\ crashed' \in BOOLEAN /\ overlapped' \in BOOLEAN
        BY <1>0, <3>2 DEF TypeOK
      <3>5. /\ started' \in BOOLEAN /\ again' \in BOOLEAN /\ count' \in Nat
            /\ shown' \in {"stopped", "connecting", "p2p", "relay", "failed", "error"}
            /\ worker' \in {"none", "create", "stun", "dial", "wait", "ended"} \union Connecting
        BY <1>0, <3>2 DEF TypeOK
      <3> QED BY <3>3, <3>4, <3>5 DEF TypeOK
    <2>3. Lifecycle' /\ HeartbeatArmed'
      BY <1>0, <2>1 DEF Lifecycle, HeartbeatArmed, Connected
    <2>4. Halting'
      BY <1>0, <2>1 DEF Halting
    <2> QED BY <2>1, <2>2, <2>3, <2>4 DEF IInv
  <1>3. ASSUME HandleEvent PROVE IInv'
    <2>1. UNCHANGED <<gui, started, worker, handler, monitor, client, ws, overlapped>>
      BY <1>3 DEF HandleEvent
    <2>2. /\ Head(events) \in Modes \union {"error"}
          /\ Tail(events) \in Seq(Modes \union {"error"})
      BY <1>0, <1>3, HeadTailProperties DEF HandleEvent, TypeOK
    <2>3. TypeOK'
      BY <1>0, <1>3, <2>2 DEF HandleEvent, Shown, TypeOK, Modes
    <2> QED BY <1>0, <2>1, <2>3
            DEF IInv, Lifecycle, Halting, HeartbeatArmed, Connected, Reading
  <1> QED BY <1>1, <1>2, <1>3

\* The rest of a stop keeps it, join by join.
LEMMA StopStep ==
  ASSUME IInv,
         \/ StopClient \/ JoinReader \/ TestPuncher \/ StopPuncher \/ JoinIo
         \/ JoinWorker \/ JoinMonitor \/ DestroyClient
  PROVE  IInv'
  <1> USE DEF guiVars, flags, fate
  <1>0. TypeOK /\ Lifecycle /\ Halting /\ HeartbeatArmed
    BY DEF IInv
  <1>c. ws = None \/ ws \in Sound
    BY DEF IInv
  <1>1. CASE StopClient
    <2>1. client \in Clients
      BY <1>0, <1>1 DEF StopClient, Lifecycle, TypeOK
    <2>2. /\ client' = [client EXCEPT !.stopping = TRUE]
          /\ gui' = IF ws = None THEN "test" ELSE "reader"
          /\ ws' = IF ws = None THEN None ELSE Close(ws)
          /\ overlapped' = (overlapped \/ Exposed)
          /\ gui = "client"
          /\ UNCHANGED <<started, worker, handler, monitor>>
      BY <1>1 DEF StopClient
    <2>3. client' \in Clients /\ client'.stopping
      BY <2>1, <2>2 DEF Clients
    <2>4. /\ ws = None => ws' = None
          /\ ws # None => ws' \in Sound /\ ws' # None
      BY <1>c, <2>2, OverSound, NoneAssumption DEF Sound
    <2>5. TypeOK'
      <3>1. overlapped' \in BOOLEAN
        BY <1>0, <2>2 DEF TypeOK, Exposed
      <3> QED BY <1>0, <1>1, <2>2, <2>3, <2>4, <3>1 DEF StopClient, TypeOK, Sound
    <2>6. Lifecycle' /\ HeartbeatArmed'
      BY <1>0, <2>2, <2>3, <2>4, IsClient DEF Lifecycle, HeartbeatArmed
    <2>7. Halting'
      BY <1>0, <2>2, <2>3, <2>4, IsClient DEF Halting, Reading, Exposed
    <2> QED BY <2>4, <2>5, <2>6, <2>7 DEF IInv
  <1>2. CASE JoinReader \/ TestPuncher \/ StopPuncher
    <2>1. /\ gui \in {"reader", "test", "puncher"} /\ gui' \in {"test", "puncher", "io"}
          /\ gui = "reader" => ~Reading /\ gui' = "test"
          /\ gui = "test" /\ gui' = "puncher" => client.puncher
          /\ gui = "puncher" => gui' = "io"
          /\ UNCHANGED <<started, worker, handler, monitor, client, ws, overlapped>>
      BY <1>2 DEF JoinReader, TestPuncher, StopPuncher
    <2>2. TypeOK'
      <3>1. client \in Clients
        BY <1>0, <2>1, IsClient DEF Lifecycle
      <3>2. crashed' \in BOOLEAN
        BY <1>0, <1>2, <3>1, ClientFields
           DEF JoinReader, TestPuncher, StopPuncher, TypeOK
      <3>3. UNCHANGED <<started, shown, events, config, flags, worker, again, handler,
                        monitor, client, ws, leaked, overlapped, count>>
        BY <1>2 DEF JoinReader, TestPuncher, StopPuncher
      <3> QED BY <1>0, <2>1, <3>2, <3>3 DEF TypeOK
    <2> QED BY <1>0, <1>c, <2>1, <2>2
            DEF IInv, Lifecycle, Halting, HeartbeatArmed, Reading, Connected
  <1>3. CASE JoinIo
    <2>1. client \in Clients /\ client.stopping
      BY <1>0, <1>3 DEF JoinIo, Lifecycle, Halting, TypeOK
    <2>2. /\ client' = [client EXCEPT !.beating = FALSE, !.io = FALSE]
          /\ gui = "io" /\ gui' = IF worker = "none" THEN "reset" ELSE "worker"
          /\ handler' = "none"
          /\ UNCHANGED <<started, worker, monitor, ws, overlapped>>
      BY <1>3 DEF JoinIo, Silenced
    <2>3. client' \in Clients /\ client'.stopping /\ ~client'.io
      BY <2>1, <2>2 DEF Clients
    <2>4. TypeOK'
      BY <1>0, <1>3, <2>3 DEF JoinIo, TypeOK
    <2>5. Lifecycle' /\ HeartbeatArmed'
      BY <1>0, <2>1, <2>2, <2>3, IsClient DEF Lifecycle, HeartbeatArmed
    <2>6. Halting'
      BY <1>0, <2>1, <2>2, <2>3, IsClient DEF Halting, Reading, Sending, Starting
    <2> QED BY <1>c, <2>2, <2>4, <2>5, <2>6 DEF IInv
  <1>4. CASE JoinWorker
    <2>1. /\ gui = "worker" /\ gui' = "monitor"
          /\ worker = "ended" /\ worker' = "none"
          /\ UNCHANGED <<started, handler, monitor, client, ws, overlapped>>
      BY <1>4 DEF JoinWorker
    <2>2. TypeOK'
      BY <1>0, <1>4 DEF JoinWorker, TypeOK
    <2> QED BY <1>0, <1>c, <2>1, <2>2
            DEF IInv, Lifecycle, Halting, HeartbeatArmed, Reading, Connected,
                Connecting
  <1>5. CASE JoinMonitor
    <2>1. /\ gui = "monitor" /\ monitor' = None
          /\ gui' = IF client # None /\ ~client.stopping THEN "client" ELSE "reset"
          /\ UNCHANGED <<started, worker, handler, client, ws, overlapped>>
      BY <1>5 DEF JoinMonitor
    <2>2. worker = "none"
      BY <1>0, <2>1 DEF Lifecycle
    <2>3. TypeOK'
      BY <1>0, <1>5 DEF JoinMonitor, TypeOK
    <2> QED BY <1>0, <1>c, <2>1, <2>2, <2>3
            DEF IInv, Lifecycle, Halting, HeartbeatArmed, Reading, Connected
  <1>6. CASE DestroyClient
    <2>1. /\ gui = "reset" /\ gui' = "idle"
          /\ started' = FALSE /\ client' = None /\ ws' = None
          /\ handler' = "none"
          /\ UNCHANGED <<worker, monitor, overlapped>>
      BY <1>6 DEF DestroyClient
    <2>2. worker = "none" /\ monitor = None
      BY <1>0, <2>1 DEF Lifecycle
    <2>3. crashed' \in BOOLEAN /\ leaked' \in BOOLEAN
      BY <1>0, <1>c, <1>6, IsClient, ClientFields, SoundFields
         DEF DestroyClient, TypeOK, Reading
    <2>4. TypeOK'
      BY <1>0, <1>6, <2>3 DEF DestroyClient, TypeOK
    <2> QED BY <2>1, <2>2, <2>4
            DEF IInv, Lifecycle, Halting, HeartbeatArmed, Connecting
  <1> QED BY <1>1, <1>2, <1>3, <1>4, <1>5, <1>6

\* Steps of the monitor keep it.
LEMMA MonitorStep ==
  ASSUME IInv, MonitorReports \/ MonitorEnds
  PROVE  IInv'
  <1> USE DEF guiVars, flags, fate
  <1>0. TypeOK /\ Lifecycle /\ Halting /\ HeartbeatArmed
    BY DEF IInv
  <1>1. /\ monitor # None /\ monitor' # None
        /\ UNCHANGED <<gui, started, worker, handler, client, ws, overlapped>>
    <2>1. monitor # None
      BY IsClient DEF MonitorReports, MonitorEnds
    <2>2. CASE MonitorReports
      BY <1>0, <2>1, <2>2, IsClient, ClientFields DEF MonitorReports
    <2>3. CASE MonitorEnds
      BY <2>1, <2>3, IsClient DEF MonitorEnds
    <2> QED BY <2>2, <2>3
  <1>2. TypeOK'
    <2>1. CASE MonitorReports
      <3>1. client.mode \in Modes \union {"error"}
        BY <2>1, IsClient, ClientFields DEF MonitorReports
      <3>2. Append(events, client.mode) \in Seq(Modes \union {"error"})
        BY <1>0, <3>1, AppendProperties DEF TypeOK
      <3>3. client.mode \in Modes
        BY <2>1, IsClient, ClientFields DEF MonitorReports
      <3> QED BY <1>0, <2>1, <3>2, <3>3 DEF MonitorReports, TypeOK
    <2>2. CASE MonitorEnds
      BY <1>0, <2>2 DEF MonitorEnds, TypeOK
    <2> QED BY <2>1, <2>2
  <1>3. Lifecycle'
    BY <1>0, <1>1 DEF Lifecycle
  <1> QED BY <1>0, <1>1, <1>2, <1>3
          DEF IInv, Halting, HeartbeatArmed, Reading, Connected

\* A step of the worker keeps the types if what it assigns has its type.
LEMMA WorkerTyped ==
  ASSUME TypeOK,
         UNCHANGED <<gui, started, shown, config, stopRequested, handler, monitor, count>>,
         worker' \in {"none", "create", "stun", "dial", "wait", "ended"} \union Connecting,
         running' \in BOOLEAN, again' \in BOOLEAN,
         events' \in Seq(Modes \union {"error"}),
         client' \in Clients \union {None}, ws' \in Conns \union {None},
         leaked' \in BOOLEAN, crashed' \in BOOLEAN, overlapped' \in BOOLEAN
  PROVE  TypeOK'
  BY DEF TypeOK

\* The worker before it has a connection: creating the client, failing, finding
\* that it is to stop, and taking the connection down.
LEMMA ConnectStep ==
  ASSUME IInv,
         \/ CreateClient \/ RunThrows \/ Connect \/ ConnectRefused \/ Reconnect
         \/ DropPuncher \/ DropConnection \/ ConnectFails \/ Authenticated \/ RunReturns
  PROVE  IInv'
  <1> USE DEF guiVars, flags, fate, WorkerStep
  <1>0. TypeOK /\ Lifecycle /\ Halting /\ HeartbeatArmed
    BY DEF IInv
  <1>c. ws = None \/ ws \in Sound
    BY DEF IInv
  <1>1. CASE CreateClient
    <2> DEFINE new == [stopping |-> FALSE, mode |-> "punching", done |-> FALSE,
                       puncher |-> FALSE, relaying |-> FALSE, io |-> FALSE,
                       beating |-> FALSE]
    <2>1. /\ worker = "create" /\ worker' = "stun" /\ client' = new
          /\ UNCHANGED <<gui, started, handler, monitor, ws, overlapped>>
      BY <1>1 DEF CreateClient
    <2>2. client' \in Clients /\ ~client'.stopping
      BY <2>1 DEF Clients, Modes
    <2>3. client' # None
      BY <2>2, NoneAssumption
    <2>4. TypeOK'
      BY <1>0, <1>1, <2>1, <2>2 DEF CreateClient, TypeOK
    <2>5. gui \notin {"client", "reader", "test", "puncher", "io", "reset"}
      BY <1>0, <2>1 DEF Lifecycle
    <2> QED BY <1>0, <1>c, <2>1, <2>2, <2>3, <2>4, <2>5
            DEF IInv, Lifecycle, Halting, HeartbeatArmed
  <1>2. CASE RunThrows
    <2>1. /\ worker = "stun" /\ worker' = "ended"
          /\ UNCHANGED <<gui, started, handler, monitor, client, ws, overlapped>>
      BY <1>2 DEF RunThrows
    <2>2. Append(events, "error") \in Seq(Modes \union {"error"})
      BY <1>0, AppendProperties DEF TypeOK
    <2>3. TypeOK'
      <3>1. /\ running' = FALSE /\ events' = Append(events, "error")
            /\ UNCHANGED <<gui, started, shown, config, stopRequested, again,
                           handler, monitor, client, ws, fate, count>>
        BY <1>2 DEF RunThrows
      <3>2. /\ running' \in BOOLEAN /\ again' \in BOOLEAN
            /\ events' \in Seq(Modes \union {"error"})
            /\ client' \in Clients \union {None} /\ ws' \in Conns \union {None}
            /\ leaked' \in BOOLEAN /\ crashed' \in BOOLEAN /\ overlapped' \in BOOLEAN
        BY <1>0, <2>2, <3>1 DEF TypeOK
      <3> QED BY <1>0, <2>1, <3>1, <3>2, WorkerTyped
    <2> QED BY <1>0, <1>c, <2>1, <2>3
            DEF IInv, Lifecycle, Halting, HeartbeatArmed, Reading, Connecting
  <1>w. /\ ws = None => ClosedIfAny = None
        /\ ws # None => ClosedIfAny \in Sound /\ ClosedIfAny # None
    BY <1>c, OverSound, NoneAssumption DEF Sound, ClosedIfAny
  <1>3. ASSUME NEW from \in {"stun", "wait"}, NEW reconnecting \in BOOLEAN,
               BeginConnect(from, reconnecting)
        PROVE  IInv'
    <2>1. /\ worker = from /\ worker' \in {"drop", "close"} /\ ~client.stopping
          /\ ws' \in {ws, ClosedIfAny}
          /\ client' = IF reconnecting
                       THEN [client EXCEPT !.mode = "punching", !.done = FALSE]
                       ELSE client
          /\ UNCHANGED <<gui, started, handler, monitor, overlapped>>
      BY <1>3 DEF BeginConnect
    <2>2. client \in Clients
      BY <1>0, <2>1, IsClient DEF Lifecycle
    <2>3. client' \in Clients /\ ~client'.stopping
      BY <2>1, <2>2 DEF Clients, Modes
    <2>4. client' # None
      BY <2>3, NoneAssumption
    <2>5. /\ ws = None => ws' = None
          /\ ws # None => ws' \in Sound /\ ws' # None
      BY <1>c, <1>w, <2>1
    <2>6. TypeOK'
      <3>1. UNCHANGED <<guiVars, config, flags, handler, monitor, fate, count>>
            /\ again' = reconnecting
        BY <1>3 DEF BeginConnect
      <3>2. /\ running' \in BOOLEAN /\ events' \in Seq(Modes \union {"error"})
            /\ leaked' \in BOOLEAN /\ crashed' \in BOOLEAN /\ overlapped' \in BOOLEAN
        BY <1>0, <3>1 DEF TypeOK
      <3>3. ws' \in Conns \union {None}
        BY <2>5 DEF Sound
      <3>4. worker' \in Connecting
        BY <2>1 DEF Connecting
      <3> QED BY <1>0, <2>3, <3>1, <3>2, <3>3, <3>4, WorkerTyped
    <2>7. gui \notin {"reader", "test", "puncher", "io", "reset"}
      BY <1>0, <2>1, <2>2, IsClient DEF Halting
    <2>8. Lifecycle'
      BY <1>0, <2>1, <2>4, <2>5, <2>7 DEF Lifecycle
    <2> QED BY <2>1, <2>3, <2>4, <2>5, <2>6, <2>7, <2>8
            DEF IInv, Halting, HeartbeatArmed
  <1>7. CASE DropPuncher
    <2>1. /\ worker = "drop" /\ worker' = "close"
          /\ client' = [client EXCEPT !.puncher = FALSE]
          /\ ws' = ClosedIfAny
          /\ UNCHANGED <<gui, started, handler, monitor, overlapped>>
      BY <1>7 DEF DropPuncher
    <2>2. client \in Clients
      BY <1>0, <2>1, IsClient DEF Lifecycle
    <2>3. client' \in Clients /\ client'.stopping = client.stopping
      BY <2>1, <2>2 DEF Clients
    <2>4. client' # None
      BY <2>3, NoneAssumption
    <2>5. /\ ws = None => ws' = None
          /\ ws # None => ws' \in Sound /\ ws' # None
      BY <1>c, <1>w, <2>1
    <2>6. TypeOK'
      <3>1. /\ UNCHANGED <<guiVars, config, flags, again, handler, monitor, leaked,
                           overlapped, count>>
            /\ crashed' \in BOOLEAN
        BY <1>7, <2>2, ClientFields DEF DropPuncher
      <3>2. /\ running' \in BOOLEAN /\ again' \in BOOLEAN
            /\ events' \in Seq(Modes \union {"error"})
            /\ leaked' \in BOOLEAN /\ overlapped' \in BOOLEAN
        BY <1>0, <3>1 DEF TypeOK
      <3>3. ws' \in Conns \union {None}
        BY <2>5 DEF Sound
      <3>4. worker' \in Connecting
        BY <2>1 DEF Connecting
      <3> QED BY <1>0, <2>3, <3>1, <3>2, <3>3, <3>4, WorkerTyped
    <2>7. client.stopping => overlapped
      BY <1>0, <2>1, <2>2, IsClient DEF Halting, Connecting
    <2>8. Lifecycle'
      BY <1>0, <2>1, <2>4, <2>5 DEF Lifecycle
    <2>9. gui \in {"reader", "test", "puncher", "io", "reset"} => client.stopping
      BY <1>0, <2>2, IsClient DEF Halting
    <2> QED BY <2>1, <2>3, <2>4, <2>5, <2>6, <2>7, <2>8, <2>9
            DEF IInv, Halting, HeartbeatArmed
  <1>4. CASE ConnectRefused \/ RunReturns
    <2>1. /\ worker \in {"stun", "wait"} /\ worker' = "ended"
          /\ UNCHANGED <<gui, started, handler, monitor, client, ws, overlapped>>
      BY <1>4 DEF ConnectRefused, RunReturns
    <2>2. TypeOK'
      <3>1. running' = FALSE /\ UNCHANGED <<guiVars, config, stopRequested, again,
                                            handler, monitor, client, ws, fate, count>>
        BY <1>4 DEF ConnectRefused, RunReturns
      <3>2. /\ again' \in BOOLEAN /\ events' \in Seq(Modes \union {"error"})
            /\ client' \in Clients \union {None} /\ ws' \in Conns \union {None}
            /\ leaked' \in BOOLEAN /\ crashed' \in BOOLEAN /\ overlapped' \in BOOLEAN
        BY <1>0, <3>1 DEF TypeOK
      <3> QED BY <1>0, <2>1, <3>1, <3>2, WorkerTyped
    <2> QED BY <1>0, <1>c, <2>1, <2>2
            DEF IInv, Lifecycle, Halting, HeartbeatArmed, Reading, Connecting
  <1>5. CASE DropConnection
    <2>1. /\ worker = "close" /\ worker' = "await" /\ ws' = None
          /\ UNCHANGED <<gui, started, handler, monitor, client, overlapped>>
      BY <1>5 DEF DropConnection
    <2>2. TypeOK'
      BY <1>0, <1>5 DEF DropConnection, TypeOK, Connecting
    <2> QED BY <1>0, <2>1, <2>2
            DEF IInv, Lifecycle, Halting, HeartbeatArmed, Connecting
  <1>6. CASE ConnectFails \/ Authenticated
    <2>1. /\ worker = "await" /\ worker' \in {"wait", "ended", "attach"}
          /\ UNCHANGED <<gui, started, handler, monitor, client, ws, overlapped>>
      BY <1>6 DEF ConnectFails, Authenticated
    <2>2. TypeOK'
      BY <1>0, <1>6 DEF ConnectFails, Authenticated, TypeOK, Connecting
    <2> QED BY <1>0, <1>c, <2>1, <2>2
            DEF IInv, Lifecycle, Halting, HeartbeatArmed, Reading, Connected,
                Connecting
  <1> QED BY <1>1, <1>2, <1>3, <1>4, <1>5, <1>6, <1>7 DEF Connect, Reconnect

\* The messages of the client are among those it may send.
LEMMA MessageNames ==
  {"update_addr", "connect_peer", "heartbeat", "server", "p2p", "relay"}
    \subseteq Messages
  BY CoreAssumption

\* The worker on a new connection: its first messages, giving it up, the
\* heartbeat, dialling.
LEMMA ServeStep ==
  ASSUME IInv,
         Attach \/ Announce \/ AnnounceFails \/ Abandon \/ StartHeartbeat \/ Dial
  PROVE  IInv'
  <1> USE DEF guiVars, flags, fate, WorkerStep
  <1>0. TypeOK /\ Lifecycle /\ Halting /\ HeartbeatArmed
    BY DEF IInv
  <1>1. ASSUME UNCHANGED <<guiVars, config, flags, again, handler, monitor, client,
                           fate, count>>,
               worker \in {"attach", "announce"},
               worker' \in {"announce", "abandon", "beat"},
               ws' \in Sound
        PROVE  IInv'
    <2>1. ws' # None
      BY <1>1, IsClient
    <2>2. TypeOK'
      BY <1>0, <1>1 DEF TypeOK, Sound, Connecting
    <2> QED BY <1>0, <1>1, <2>1, <2>2
            DEF IInv, Lifecycle, Halting, HeartbeatArmed, Connecting
  <1>2. CASE Attach
    <2>1. [Over(Attached) EXCEPT !.reader = FALSE] \in Sound
      BY AttachedSound, OverSound, SideSound
    <2>2. ws' \in Sound
      BY <1>2, <2>1, AttachedSound DEF Attach
    <2> QED BY <1>1, <1>2, <2>2 DEF Attach
  <1>3. CASE Announce
    <2> DEFINE c == Send(ws, "update_addr")
    <2>1. ws \in Sound
      BY <1>0, <1>3, IsClient DEF Announce, Lifecycle
    <2>2. c \in Sound
      BY <2>1, MessageNames, SendSound
    <2>3. Send(c, "connect_peer") \in Sound
      <3> HIDE DEF c
      <3> QED BY <2>2, MessageNames, SendSound
    <2>4. ws' \in Sound
      BY <1>3, <2>2, <2>3 DEF Announce, FirstMessages
    <2> QED BY <1>1, <1>3, <2>4 DEF Announce
  <1>4. CASE AnnounceFails
    <2>1. ws \in Sound
      BY <1>0, <1>4, IsClient DEF AnnounceFails, Lifecycle
    <2>2. ws' \in Sound
      BY <1>4, <2>1, OverSound DEF AnnounceFails
    <2> QED BY <1>1, <1>4, <2>2 DEF AnnounceFails
  <1>5. CASE Abandon
    <2>1. /\ worker = "abandon" /\ worker' \in {"wait", "ended"} /\ ws' = None
          /\ UNCHANGED <<gui, started, handler, monitor, client, overlapped>>
      BY <1>5 DEF Abandon
    <2>2. TypeOK'
      BY <1>0, <1>5 DEF Abandon, TypeOK
    <2> QED BY <1>0, <2>1, <2>2
            DEF IInv, Lifecycle, Halting, HeartbeatArmed, Connected, Connecting
  <1>6. CASE StartHeartbeat
    <2>1. /\ worker = "beat" /\ worker' \in {"wait", "dial"}
          /\ client' = [client EXCEPT !.io = TRUE,
                          !.beating = ~client.stopping /\ ws.connected]
          /\ ws' = Send(ws, "server")
          /\ UNCHANGED <<gui, started, handler, monitor, overlapped>>
      BY <1>6 DEF StartHeartbeat
    <2>2. client \in Clients /\ ws \in Sound
      BY <1>0, <2>1, IsClient DEF Lifecycle
    <2>3. /\ ws' \in Sound /\ ws' # None /\ ws'.connected = ws.connected
      BY <2>1, <2>2, MessageNames, SendSound, IsClient
    <2>4. /\ client' \in Clients /\ client'.stopping = client.stopping
          /\ client'.beating = (~client.stopping /\ ws.connected)
      BY <2>1, <2>2, SoundFields DEF Clients
    <2>5. client' # None
      BY <2>4, NoneAssumption
    <2>6. TypeOK'
      BY <1>0, <1>6, <2>3, <2>4 DEF StartHeartbeat, TypeOK, Sound
    <2>7. client.stopping => overlapped
      BY <1>0, <2>1, <2>2, IsClient DEF Halting, Connecting
    <2>8. gui \in {"reader", "test", "puncher", "io", "reset"} => client.stopping
      BY <1>0, <2>2, IsClient DEF Halting
    <2>9. Lifecycle' /\ Halting' /\ HeartbeatArmed'
      BY <1>0, <2>1, <2>3, <2>4, <2>5, <2>7, <2>8
         DEF Lifecycle, Halting, HeartbeatArmed, Connected
    <2> QED BY <2>3, <2>6, <2>9 DEF IInv
  <1>7. CASE Dial
    <2>1. /\ worker = "dial" /\ worker' \in {"wait", "ended"}
          /\ ws' = Send(ws, "connect_peer")
          /\ UNCHANGED <<gui, started, handler, monitor, client, overlapped>>
      BY <1>7 DEF Dial
    <2>2. ws \in Sound /\ ws # None
      BY <1>0, <2>1, IsClient DEF Lifecycle
    <2>3. /\ ws' \in Sound /\ ws' # None /\ ws'.connected = ws.connected
          /\ ws'.reader = ws.reader
      BY <2>1, <2>2, MessageNames, SendSound, IsClient
    <2>4. running' \in BOOLEAN
      BY <1>0, <1>7, <2>2, SoundFields DEF Dial, TypeOK
    <2>5. TypeOK'
      BY <1>0, <1>7, <2>3, <2>4 DEF Dial, TypeOK, Sound
    <2> QED BY <1>0, <2>1, <2>2, <2>3, <2>5
            DEF IInv, Lifecycle, Halting, HeartbeatArmed, Connected, Reading,
                Connecting
  <1> QED BY <1>2, <1>3, <1>4, <1>5, <1>6, <1>7

\* A step of another thread than the GUI's, the worker and the monitor keeps the
\* invariant if a client that was told to stop stays so, keeps its io thread and,
\* unless on_punch_start was past its look at stopping_, its puncher, no handler
\* begins then, and the connection is as much connected and read from as before,
\* or less.
LEMMA QuietStep ==
  ASSUME IInv, TypeOK',
         UNCHANGED <<gui, started, worker, monitor, overlapped>>,
         client = None => client' = None /\ handler' = "none",
         client # None =>
           /\ client' # None /\ client'.stopping = client.stopping
           /\ client.stopping => client'.io = client.io
           /\ client.stopping /\ handler \notin Starting
                => client'.puncher = client.puncher /\ handler' \notin Starting
           /\ client.stopping /\ handler \notin Sending => handler' \notin Sending,
         ws = None => ws' = None,
         ws # None =>
           /\ ws' # None /\ ws' \in Sound
           /\ ws'.reader => ws.reader,
         HeartbeatArmed'
  PROVE  IInv'
  <1>1. Lifecycle'
    BY DEF IInv, Lifecycle
  <1>2. Halting'
    <2>1. gui \in {"reader", "test", "puncher", "io"} => client # None
      BY DEF IInv, Lifecycle
    <2> QED BY <2>1 DEF IInv, Halting, Reading
  <1> QED BY <1>1, <1>2 DEF IInv

\* A handler that begins or goes on without the connection: the client changes,
\* and perhaps crashes the process.
LEMMA ClientStep ==
  ASSUME IInv,
         UNCHANGED <<guiVars, config, flags, worker, again, monitor, ws, leaked,
                     overlapped>>,
         crashed' \in BOOLEAN, count' \in Nat,
         handler' \in {"none", "begin", "fallback"} \union Starting \union Sending,
         client # None, client' \in Clients,
         client'.stopping = client.stopping, client'.io = client.io,
         ~client.stopping \/ handler \in Starting \/ client'.puncher = client.puncher,
         handler' \in Starting => ~client.stopping \/ handler \in Starting,
         handler' \in Sending => ~client.stopping,
         client'.beating = client.beating \/ client'.beating = Connected
  PROVE  IInv'
  <1> USE DEF guiVars, flags
  <1>1. client' # None /\ client \in Clients
    BY IsClient
  <1>2. TypeOK'
    BY DEF IInv, TypeOK
  <1>3. HeartbeatArmed'
    BY <1>1 DEF IInv, HeartbeatArmed, Connected
  <1>4. ws # None => ws \in Sound
    BY IsClient
  <1> QED BY <1>1, <1>2, <1>3, <1>4, QuietStep

\* What the io thread begins keeps the invariant.
LEMMA IoEventStep ==
  ASSUME IInv, IoEvent
  PROVE  IInv'
  <1> USE DEF guiVars, flags, fate, IoBegins
  <1>0. TypeOK /\ Lifecycle /\ Halting /\ HeartbeatArmed
    BY DEF IInv
  <1>b. client # None /\ ~client.stopping /\ handler = "none"
    BY DEF IoEvent, PunchStart, PunchSucceeds, PunchFails, SendRelayTest, Heartbeat
  <1>c. client \in Clients
    BY <1>b, IsClient
  <1>d. Connected \in BOOLEAN
    BY IsClient, SoundFields DEF Connected
  <1>1. CASE PunchStart
    <2>1. /\ ws # None /\ ws.inbox > 0
          /\ ws' = [ws EXCEPT !.inbox = ws.inbox - 1]
          /\ handler' = "start"
          /\ UNCHANGED <<gui, started, worker, monitor, client, overlapped>>
      BY <1>1 DEF PunchStart
    <2>2. ws \in Sound
      BY <2>1, IsClient
    <2>3. ws.inbox - 1 \in Nat
      <3>1. ws.inbox \in Nat
        BY <2>2, SoundFields
      <3> QED BY <2>1, <3>1
    <2>4. ws' \in Sound
      BY <2>1, <2>2, <2>3, SideSound
    <2>5. ws'.connected = ws.connected /\ ws'.reader = ws.reader
      BY <2>1, <2>2, SoundFields DEF Conns
    <2>6. ws' # None
      BY <2>4, IsClient
    <2>7. TypeOK'
      BY <1>0, <1>1, <2>1, <2>4 DEF PunchStart, TypeOK, Sound, Starting
    <2>8. HeartbeatArmed'
      BY <1>0, <2>1, <2>5, <2>6 DEF HeartbeatArmed, Connected
    <2> QED BY <1>b, <2>1, <2>4, <2>5, <2>6, <2>7, <2>8, QuietStep
  <1>2. CASE PunchSucceeds
    <2>1. /\ client' = [client EXCEPT !.mode = "p2p", !.done = ~Connected]
          /\ handler' \in {"p2p", "none"}
          /\ UNCHANGED <<guiVars, config, flags, worker, again, monitor, ws, fate, count>>
      BY <1>2 DEF PunchSucceeds
    <2>2. /\ client' \in Clients /\ client'.stopping = client.stopping
          /\ client'.io = client.io /\ client'.beating = client.beating
      BY <1>c, <1>d, <2>1 DEF Clients, Modes
    <2>3. crashed' \in BOOLEAN /\ count' \in Nat
      BY <1>0, <2>1 DEF TypeOK
    <2>4. handler' \in {"none", "begin", "fallback"} \union Starting \union Sending
      BY <2>1 DEF Sending
    <2> QED BY <1>b, <2>1, <2>2, <2>3, <2>4, ClientStep
  <1>3. CASE PunchFails
    <2>1. /\ client' = [client EXCEPT !.mode = "failed", !.done = ~config.relay]
          /\ handler' \in {"fallback", "none"}
          /\ UNCHANGED <<guiVars, config, flags, worker, again, monitor, ws, fate, count>>
      BY <1>3 DEF PunchFails
    <2>2. config.relay \in BOOLEAN
      BY <1>0, CoreAssumption DEF TypeOK, Config
    <2>3. /\ client' \in Clients /\ client'.stopping = client.stopping
          /\ client'.io = client.io /\ client'.beating = client.beating
      BY <1>c, <2>1, <2>2 DEF Clients, Modes
    <2>4. crashed' \in BOOLEAN /\ count' \in Nat
      BY <1>0, <2>1 DEF TypeOK
    <2>5. handler' \in {"none", "begin", "fallback"} \union Starting \union Sending
      BY <2>1
    <2> QED BY <1>b, <2>1, <2>3, <2>4, <2>5, ClientStep
  <1>4. CASE SendRelayTest
    <2>1. /\ crashed' = ~client.puncher
          /\ UNCHANGED <<guiVars, config, flags, worker, again, handler, monitor, client,
                         ws, leaked, overlapped, count>>
      BY <1>4 DEF SendRelayTest
    <2>2. crashed' \in BOOLEAN /\ count' \in Nat
      BY <1>0, <1>c, <2>1, ClientFields DEF TypeOK
    <2>3. handler' \in {"none", "begin", "fallback"} \union Starting \union Sending
      BY <1>b, <2>1
    <2> QED BY <1>b, <1>c, <2>1, <2>2, <2>3, ClientStep
  <1>5. CASE Heartbeat
    <2>1. /\ client' = [client EXCEPT !.beating = Connected]
          /\ handler' \in {"heartbeat", "none"}
          /\ count' = count + 1
          /\ UNCHANGED <<guiVars, config, flags, worker, again, monitor, ws, fate>>
      BY <1>5 DEF Heartbeat
    <2>2. /\ client' \in Clients /\ client'.stopping = client.stopping
          /\ client'.io = client.io /\ client'.beating = Connected
      BY <1>c, <1>d, <2>1 DEF Clients
    <2>3. crashed' \in BOOLEAN /\ count' \in Nat
      BY <1>0, <2>1 DEF TypeOK
    <2>4. handler' \in {"none", "begin", "fallback"} \union Starting \union Sending
      BY <2>1 DEF Sending
    <2> QED BY <1>b, <2>1, <2>2, <2>3, <2>4, ClientStep
  <1> QED BY <1>1, <1>2, <1>3, <1>4, <1>5 DEF IoEvent

\* So does what a handler that has begun goes on to do.
LEMMA IoHandlerStep ==
  ASSUME IInv, IoHandler
  PROVE  IInv'
  <1> USE DEF guiVars, flags, fate, IoStep
  <1>0. TypeOK /\ Lifecycle /\ Halting /\ HeartbeatArmed
    BY DEF IInv
  <1>b. client # None
    BY <1>0 DEF IoHandler, PunchReset, CreatePuncher, CreateFails, BeginPunching,
                EnterRelayMode, ReportMode, SendChecked, SendHeartbeat, Lifecycle
  <1>c. client \in Clients
    BY <1>b, IsClient
  <1>d. Connected \in BOOLEAN
    BY IsClient, SoundFields DEF Connected
  <1>1. CASE PunchReset \/ CreatePuncher \/ CreateFails
    <2>1. /\ client' \in {client,
                          [client EXCEPT !.mode = "punching", !.done = FALSE,
                                         !.puncher = FALSE],
                          [client EXCEPT !.puncher = TRUE],
                          [client EXCEPT !.puncher = FALSE]}
          /\ handler \in {"start", "create"} /\ handler' \in {"create", "begin", "none"}
          /\ UNCHANGED <<guiVars, config, flags, worker, again, monitor, ws, fate, count>>
      BY <1>1 DEF PunchReset, CreatePuncher, CreateFails
    <2>2. /\ client' \in Clients /\ client'.stopping = client.stopping
          /\ client'.io = client.io /\ client'.beating = client.beating
      BY <1>c, <2>1 DEF Clients, Modes
    <2>3. crashed' \in BOOLEAN /\ count' \in Nat
      BY <1>0, <2>1 DEF TypeOK
    <2>4. /\ handler' \in {"none", "begin", "fallback"} \union Starting \union Sending
          /\ handler \in Starting /\ handler' \notin Sending
      BY <2>1 DEF Sending, Starting
    <2> QED BY <1>b, <2>1, <2>2, <2>3, <2>4, ClientStep
  <1>2. CASE BeginPunching
    <2>1. /\ crashed' = (~client.stopping /\ ~client.puncher)
          /\ handler' = "none"
          /\ UNCHANGED <<guiVars, config, flags, worker, again, monitor, client, ws,
                         leaked, overlapped, count>>
      BY <1>2 DEF BeginPunching
    <2>2. crashed' \in BOOLEAN /\ count' \in Nat
      BY <1>0, <1>c, <2>1, ClientFields DEF TypeOK
    <2>3. /\ handler' \in {"none", "begin", "fallback"} \union Starting \union Sending
          /\ handler' \notin Starting /\ handler' \notin Sending
      BY <2>1 DEF Starting, Sending
    <2> QED BY <1>b, <1>c, <2>1, <2>2, <2>3, ClientStep
  <1>3. CASE EnterRelayMode
    <2>1. /\ client' = IF client.stopping THEN client
                       ELSE [client EXCEPT !.mode = "relay", !.done = ~Connected,
                                           !.relaying = ~Connected]
          /\ handler' = IF Connected /\ ~client.stopping THEN "relay" ELSE "none"
          /\ UNCHANGED <<guiVars, config, flags, worker, again, monitor, ws, fate, count>>
      BY <1>3 DEF EnterRelayMode
    <2>2. /\ client' \in Clients /\ client'.stopping = client.stopping
          /\ client'.io = client.io /\ client'.beating = client.beating
          /\ client'.puncher = client.puncher
      BY <1>c, <1>d, <2>1 DEF Clients, Modes
    <2>3. crashed' \in BOOLEAN /\ count' \in Nat
      BY <1>0, <2>1 DEF TypeOK
    <2>4. /\ handler' \in {"none", "begin", "fallback"} \union Starting \union Sending
          /\ handler' \notin Starting
          /\ handler' \in Sending => ~client.stopping
      BY <2>1 DEF Starting, Sending
    <2> QED BY <1>b, <2>1, <2>2, <2>3, <2>4, ClientStep
  <1>4. ASSUME NEW m \in Sending, SendChecked(m),
               client' \in Clients, client'.stopping = client.stopping,
               client'.io = client.io, client'.puncher = client.puncher,
               \/ client'.beating = client.beating
               \/ client'.beating = (~client.stopping /\ Connected')
        PROVE  IInv'
    <2>1. /\ handler = m /\ handler' = "none"
          /\ crashed' = (ws = None)
          /\ ws' = IF ws = None THEN None ELSE Send(ws, m)
          /\ UNCHANGED <<guiVars, config, flags, worker, again, monitor, leaked,
                         overlapped, count>>
      BY <1>4 DEF SendChecked
    <2>2. m \in Messages
      BY MessageNames DEF Sending
    <2>3. /\ ws = None => ws' = None
          /\ ws # None => /\ ws' \in Sound /\ ws' # None
                          /\ ws'.connected = ws.connected
                          /\ ws'.reader = ws.reader
      BY <2>1, <2>2, SendSound, IsClient
    <2>4. client' # None
      BY <1>4, IsClient
    <2>5. TypeOK'
      <3>1. ws' \in Conns \union {None} /\ crashed' \in BOOLEAN
        BY <2>1, <2>3 DEF Sound
      <3> QED BY <1>0, <1>4, <2>1, <3>1 DEF TypeOK
    <2>6. HeartbeatArmed'
      BY <1>0, <1>4, <1>b, <2>1, <2>3 DEF HeartbeatArmed, Connected
    <2>7. handler' \notin Starting /\ handler' \notin Sending
      BY <2>1 DEF Starting, Sending
    <2> QED BY <1>4, <1>b, <2>1, <2>3, <2>4, <2>5, <2>6, <2>7, QuietStep
  <1>5. CASE ReportMode
    <2>1. PICK m \in {"p2p", "relay"} :
            /\ SendChecked(m)
            /\ client' = [client EXCEPT !.done = TRUE,
                                        !.relaying = client.relaying \/ m = "relay"]
      BY <1>5 DEF ReportMode
    <2>2. m \in Sending
      BY DEF Sending
    <2>3. /\ client' \in Clients /\ client'.stopping = client.stopping
          /\ client'.io = client.io /\ client'.puncher = client.puncher
          /\ client'.beating = client.beating
      BY <1>c, <2>1 DEF Clients
    <2> QED BY <1>4, <2>1, <2>2, <2>3
  <1>6. CASE SendHeartbeat
    <2>1. /\ SendChecked("heartbeat")
          /\ client' = [client EXCEPT !.beating = ~client.stopping /\ Connected]
      BY <1>6 DEF SendHeartbeat
    <2>2. "heartbeat" \in Sending /\ "heartbeat" \in Messages
      BY MessageNames DEF Sending
    <2>3. Connected' = Connected
      BY <2>1, <2>2, SendSound, IsClient DEF SendChecked, Connected
    <2>4. /\ client' \in Clients /\ client'.stopping = client.stopping
          /\ client'.io = client.io /\ client'.puncher = client.puncher
          /\ client'.beating = (~client.stopping /\ Connected)
      BY <1>c, <1>d, <2>1 DEF Clients
    <2> QED BY <1>4, <2>1, <2>2, <2>3, <2>4
  <1> QED BY <1>1, <1>2, <1>3, <1>5, <1>6 DEF IoHandler

\* Steps of the reader thread and of the network keep it.
LEMMA ReadStep ==
  ASSUME IInv, Reader \/ ReaderRead \/ ConnectionBreaks
  PROVE  IInv'
  <1> USE DEF guiVars, flags, fate
  <1>0. TypeOK /\ Lifecycle /\ HeartbeatArmed
    BY DEF IInv
  <1>1. /\ ws # None
        /\ ws' \in Flushed(ws) \union Written(ws) \union Ended(ws)
                     \union Arrived(ws) \union Broken(ws)
        /\ UNCHANGED <<guiVars, config, flags, worker, again, handler, monitor, client, fate>>
    BY DEF Reader, ReaderFlush, ReaderWrite, ReaderEnd, ReaderRead,
           ConnectionBreaks, ReaderStep
  <1>2. ws \in Sound
    BY <1>1, IsClient
  <1>3. /\ ws' \in Sound /\ ws' # None
        /\ ws'.connected => ws.connected
        /\ ws'.reader => ws.reader
    BY <1>1, <1>2, ReaderSound, IsClient
  <1>4. count' \in Nat
    BY <1>0 DEF Reader, ReaderFlush, ReaderWrite, ReaderEnd, ReaderRead,
                ConnectionBreaks, TypeOK
  <1>5. TypeOK'
    BY <1>0, <1>1, <1>3, <1>4 DEF TypeOK, Sound
  <1>6. HeartbeatArmed'
    BY <1>0, <1>1, <1>3 DEF HeartbeatArmed, Connected
  <1>7. client = None => handler = "none"
    BY <1>0 DEF Lifecycle
  <1> QED BY <1>1, <1>3, <1>5, <1>6, <1>7, QuietStep

\* Every step keeps the invariant.
LEMMA InvStep ==
  ASSUME IInv, [Next]_vars
  PROVE  IInv'
  <1>1. CASE UNCHANGED vars
    BY <1>1 DEF vars, guiVars, flags, fate, IInv, TypeOK, Lifecycle,
                Halting, HeartbeatArmed, Connected, Reading
  <1>2. CASE Next
    <2>1. CASE \E c \in Configs : StartClicked(c)
      BY <2>1, ClickStep
    <2>2. CASE StopClicked \/ StatusPoll
      BY <2>2, ClickStep DEF StopClicked, StatusPoll
    <2>3. CASE Gui
      BY <2>2, <2>3, ClickStep, StopStep DEF Gui
    <2>4. CASE Monitor
      BY <2>4, MonitorStep DEF Monitor
    <2>5. CASE Worker
      BY <2>5, ConnectStep, ServeStep DEF Worker
    <2> QED BY <1>2, <2>1, <2>2, <2>3, <2>4, <2>5, IoEventStep, IoHandlerStep, ReadStep
            DEF Next
  <1> QED BY <1>1, <1>2

-----------------------------------------------------------------------------
(* What follows for every run of the process *)

\* The invariant holds throughout.
LEMMA Invariance == Spec => []IInv
  BY InvInit, InvStep, PTL DEF Spec

\* Every variable of the process keeps its type.
THEOREM TypeCorrect == Spec => []TypeOK
  <1>1. IInv => TypeOK
    BY DEF IInv
  <1> QED BY <1>1, Invariance, PTL

\* The client of a thread that runs in it, and the connection from the moment
\* the worker has attached it until the first messages are sent or given up:
\* what its tests of ws_ find there, and what it closes if update_addr fails.
HeldWhereUsed ==
  /\ worker \notin {"none", "create"} => client # None
  /\ handler # "none" => client # None
  /\ worker \in {"announce", "abandon", "beat", "dial"} => ws # None

\* No worker or io handler outlives its client (CoreClient::stop joins before
\* client_.reset), and the worker finds the connection it has just attached
\* (TestClient::connect_control_channel, run), wherever a stop() or a lost
\* connection falls in between.  What the io thread and stop() itself may miss, with ws_
\* and puncher_ tested and then used, is the business of StoppingIsClean.
THEOREM WorkerFindsItsOwn == Spec => []HeldWhereUsed
  <1>1. IInv => HeldWhereUsed
    BY DEF IInv, Lifecycle, HeldWhereUsed
  <1> QED BY <1>1, Invariance, PTL

\* What the server gets of a connection is what send() accepted, in that order
\* and without a gap, however the threads that send, flush and write interleave.
THEOREM MessagesInOrder == Spec => []SentInOrder
  <1>1. IInv => SentInOrder
    BY IsClient, SoundFields DEF SentInOrder, Connected
  <1> QED BY <1>1, Invariance, PTL

\* A client that waits on a live connection has its heartbeat armed, on every
\* connection it makes.
THEOREM HeartbeatStaysArmed == Spec => []HeartbeatArmed
  <1>1. IInv => HeartbeatArmed
    BY DEF IInv
  <1> QED BY <1>1, Invariance, PTL

\* When Start can be clicked both threads of the last run have been joined and
\* its client is gone.
THEOREM StartFindsNothing == Spec => []Startable
  <1>1. IInv => Startable
    BY DEF IInv, Lifecycle, Startable
  <1> QED BY <1>1, Invariance, PTL

\* A stop that does not meet the worker inside connect_control_channel, nor
\* on_punch_start past its look at stopping_, nor a report on a connection that
\* is gone, joins every thread it destroys, leaves no connection behind, and
\* neither it nor a handler that still runs uses a pointer that is gone.
THEOREM StoppingIsClean == Spec => StopsClean
  <1> USE DEF guiVars, flags, fate
  <1> DEFINE Clean == client # None /\ client.stopping
                        /\ (crashed' # crashed \/ leaked' # leaked) => overlapped
             Harm == \/ JoinReader \/ StopPuncher \/ DestroyClient \/ DropPuncher
                     \/ BeginPunching \/ ReportMode \/ SendHeartbeat \/ SendRelayTest
                     \/ \E c \in Configs : StartClicked(c)
  <1>1. ASSUME IInv, [Next]_vars
        PROVE  Clean
    <2> SUFFICES ASSUME client # None, client.stopping, ~overlapped
                 PROVE  crashed' = crashed /\ leaked' = leaked
      OBVIOUS
    <2>0. TypeOK /\ Lifecycle /\ Halting
      BY <1>1 DEF IInv
    <2>h. /\ worker \notin Connecting
          /\ handler \in Sending => ws # None
          /\ gui = "reader" => ws # None
          /\ gui = "puncher" => client.puncher
          /\ gui = "reset" => ~Reading /\ ~client.io
      BY <2>0 DEF Halting
    <2>1. CASE JoinReader
      BY <2>1, <2>h, <2>0 DEF JoinReader, TypeOK
    <2>2. CASE StopPuncher
      BY <2>2, <2>h, <2>0 DEF StopPuncher, TypeOK
    <2>3. CASE DestroyClient
      BY <2>3, <2>h, <2>0 DEF DestroyClient, TypeOK
    <2>4. CASE DropPuncher
      BY <2>4, <2>h DEF DropPuncher, WorkerStep, Connecting
    <2>5. CASE BeginPunching
      BY <2>5, <2>0 DEF BeginPunching, IoStep, TypeOK
    <2>6. ASSUME NEW m \in Sending, SendChecked(m)
          PROVE  crashed' = crashed /\ leaked' = leaked
      BY <2>6, <2>h, <2>0 DEF SendChecked, IoStep, TypeOK
    <2>7. CASE ReportMode \/ SendHeartbeat
      BY <2>6, <2>7 DEF ReportMode, SendHeartbeat, Sending
    <2>8. CASE SendRelayTest
      BY <2>8 DEF SendRelayTest, IoBegins
    <2>9. CASE \E c \in Configs : StartClicked(c)
      BY <2>9, <2>0 DEF StartClicked, Lifecycle
    <2>10. Harm \/ UNCHANGED <<crashed, leaked>>
      BY <1>1
         DEF Next, vars, Gui, Monitor, Worker, IoEvent, IoHandler, Reader,
             StopClicked, StatusPoll, Stop, StopClient, TestPuncher, JoinIo, JoinWorker,
             JoinMonitor, HandleEvent, MonitorReports, MonitorEnds, CreateClient,
             RunThrows, Connect, ConnectRefused, Reconnect, BeginConnect, DropConnection,
             ConnectFails, Authenticated, Attach, Announce, AnnounceFails, Abandon,
             StartHeartbeat, Dial, RunReturns, PunchStart, PunchReset, CreatePuncher,
             CreateFails, PunchSucceeds, PunchFails, EnterRelayMode, Heartbeat,
             ReaderFlush, ReaderWrite, ReaderEnd, ReaderRead, ConnectionBreaks,
             ReaderStep
    <2> QED BY <2>1, <2>2, <2>3, <2>4, <2>5, <2>7, <2>8, <2>9, <2>10
  <1>2. IInv /\ [Next]_vars => [Clean]_vars
    BY <1>1
  <1> QED BY <1>2, Invariance, PTL DEF Spec, StopsClean
=============================================================================
