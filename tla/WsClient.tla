------------------------------ MODULE WsClient ------------------------------
(***************************************************************************)
(* The client's WebSocket: a connection as a value, and what each method   *)
(* of WsClient and each handler of its reader thread makes of it.  ws://   *)
(* and wss:// behave alike.  The messages of the connection set-up, which  *)
(* are written and read synchronously, are left out.                       *)
(***************************************************************************)
EXTENDS Naturals, Sequences, SequencesExt

CONSTANT Messages     \* what the client sends once the reader runs

Conns ==
  [connected : BOOLEAN,      \* connected_
   closed : BOOLEAN,         \* close() was called: ioc_ is stopped
   reading : BOOLEAN,        \* an async_read is pending
   reader : BOOLEAN,         \* reader_thread_ is in ioc_.run()
   queue : Seq(Messages),    \* write_queue_
   flush : BOOLEAN,          \* a do_flush_queue is posted to ioc_
   writes : Seq(Messages),   \* async_writes in progress
   inbox : Nat,              \* punch_start callbacks posted to the client's io thread
   sent : Seq(Messages),     \* history: messages send() returned true for
   wire : Seq(Messages)]     \* history: messages written

\* connect, the handshakes and startAsync.
Attached ==
  [connected |-> TRUE, closed |-> FALSE, reading |-> TRUE, reader |-> TRUE,
   queue |-> <<>>, flush |-> FALSE, writes |-> <<>>, inbox |-> 0, sent |-> <<>>, wire |-> <<>>]

\* send() queues the message and posts a flush; it returns connected_.
Send(c, message) ==
  IF ~c.connected THEN c
  ELSE [c EXCEPT !.queue = Append(@, message), !.flush = TRUE, !.sent = Append(@, message)]

\* Mutant: a flush does not look at async_write_pending_.
FlushQueueAgain(c) ==
  IF ~c.connected \/ c.queue = <<>> THEN c
  ELSE [c EXCEPT !.queue = Tail(@), !.writes = Append(@, Head(c.queue))]

\* do_flush_queue: one write at a time.
FlushQueue(c) ==
  IF ~c.connected \/ c.writes # <<>> \/ c.queue = <<>> THEN c
  ELSE [c EXCEPT !.queue = Tail(@), !.writes = Append(@, Head(c.queue))]

\* A connection that is over: what is queued is never written, though send()
\* returned true for it.  Callbacks that were posted stay posted.
Over(c) == [Attached EXCEPT !.connected = FALSE, !.reading = FALSE, !.reader = c.reader,
                            !.inbox = c.inbox]

\* setMessageCallback(nullptr) and close(): ioc_ is stopped, callbacks are void.
Close(c) == [Over(c) EXCEPT !.closed = TRUE, !.inbox = 0]

-----------------------------------------------------------------------------
(* The reader thread: each is the value after one handler of ioc_.          *)

Runs(c) == c.reader /\ ~c.closed

\* A posted flush.
Flushed(c) == IF Runs(c) /\ c.flush THEN {FlushQueue([c EXCEPT !.flush = FALSE])} ELSE {}

\* Mutant: a completed write does not start the next one.
WrittenAlone(c) ==
  IF ~Runs(c) THEN {}
  ELSE { [c EXCEPT !.writes = RemoveAt(@, i),
                   !.wire = Append(@, c.writes[i])] : i \in DOMAIN c.writes }

\* A write completes and the next one starts.
Written(c) ==
  IF ~Runs(c) THEN {}
  ELSE { FlushQueue([c EXCEPT !.writes = RemoveAt(@, i),
                              !.wire = Append(@, c.writes[i])]) : i \in DOMAIN c.writes }

\* A punch_start arrives: writes are flushed, its callback is posted, reading goes on.
Arrived(c) ==
  IF Runs(c) /\ c.reading /\ c.connected THEN {[FlushQueue(c) EXCEPT !.inbox = @ + 1]} ELSE {}

\* The connection breaks: a read or a write ends with an error.
Broken(c) == IF Runs(c) /\ c.connected THEN {Over(c)} ELSE {}

\* ioc_.run() returns when it was stopped or has nothing left to wait for.
Ended(c) ==
  IF c.reader /\ (c.closed \/ (~c.reading /\ c.writes = <<>> /\ ~c.flush))
  THEN {[c EXCEPT !.reader = FALSE]} ELSE {}
=============================================================================
