----------------------------- MODULE CoreClient -----------------------------
(***************************************************************************)
(* The client process behind the GUI: MainWindow on the GUI thread, the    *)
(* worker and monitor threads of CoreClient, the io thread of TestClient   *)
(* and the reader thread of its WsClient; how they start, what they tell   *)
(* each other, and how they stop.                                          *)
(*                                                                         *)
(* A step is what a thread does between two points where it waits or where *)
(* another thread can act on what it has read: the pointers puncher_ and   *)
(* ws_ are tested in one step and used in the next, and what was tested    *)
(* may be gone (that two threads change a pointer at the very same instant *)
(* is left out).  Punching is one step with any outcome (see Puncher); what *)
(* the monitor reports besides the mode (success, the virtual address)     *)
(* goes the same way and is left out, as is the TUN device.                *)
(***************************************************************************)
EXTENDS WsClient, FiniteSets

CONSTANTS
  None,         \* no client, no connection, no monitor
  Configs,      \* what the user starts: see Config
  MaxEvents     \* bound, in a run, on connections that break, punch_start
                \* messages that arrive, and heartbeats, together

\* A configuration: a node to connect to, a relay, TUN mode.
Config == [dial : BOOLEAN, relay : BOOLEAN, tun : BOOLEAN]

ASSUME CoreAssumption ==
  /\ Configs \subseteq Config
  /\ MaxEvents \in Nat
  /\ Messages = {"update_addr", "connect_peer", "heartbeat", "server", "p2p", "relay"}

VARIABLES
  gui,          \* where the GUI thread is: handling events, or inside stop()
  started,      \* m_startTime > 0: Stop is enabled, otherwise Start is
  shown,        \* state of the indicator
  events,       \* events posted to the GUI thread
  config,
  running, stopRequested,   \* running_, stop_requested_
  worker,       \* where worker_thread_ is, "none" when it is not joinable
  again,        \* the worker is reconnecting
  handler,      \* where puncher_thread_ is in a handler, or "none"
  monitor,      \* last_mode of monitor_thread_, "ended", or None
  client,       \* client_: a record or None
  ws,           \* the ws_ of the client: a connection or None
  leaked,       \* the last run left a connection alive that no object refers to
  crashed,      \* std::terminate was called, or a null pointer used
  overlapped,   \* history: stop() met a thread that was Exposed
  count         \* events of the run, for the bound

flags == <<running, stopRequested>>
guiVars == <<gui, started, shown, events>>
fate == <<leaked, crashed, overlapped>>
vars == <<guiVars, config, flags, worker, again, handler, monitor, client, ws, fate, count>>

Modes == {"punching", "p2p", "relay", "failed"}
\* Inside connect_control_channel.
Connecting == {"drop", "close", "await", "attach", "announce", "abandon", "beat"}
\* Inside on_punch_start, past its look at stopping_.
Starting == {"start", "create"}
\* Past the look at ws_, about to send this on it.
Sending == {"p2p", "relay", "heartbeat"}
Clients ==
  [stopping : BOOLEAN, mode : Modes, done : BOOLEAN, puncher : BOOLEAN,
   relaying : BOOLEAN,  \* relay_test_timer_ runs
   io : BOOLEAN,        \* puncher_thread_ runs
   beating : BOOLEAN]   \* the heartbeat timer is armed

ASSUME NoneAssumption == None \notin Modes \union Clients \union Conns \union {"ended"}

TypeOK ==
  /\ gui \in {"idle", "client", "reader", "test", "puncher", "io", "worker", "monitor", "reset"}
  /\ started \in BOOLEAN
  /\ shown \in {"stopped", "connecting", "p2p", "relay", "failed", "error"}
  /\ events \in Seq(Modes \union {"error"})
  /\ config \in Configs
  /\ running \in BOOLEAN /\ stopRequested \in BOOLEAN
  /\ worker \in {"none", "create", "stun", "dial", "wait", "ended"} \union Connecting
  /\ again \in BOOLEAN
  /\ handler \in {"none", "begin", "fallback"} \union Starting \union Sending
  /\ monitor \in Modes \union {"ended", None}
  /\ client \in Clients \union {None}
  /\ ws \in Conns \union {None}
  /\ leaked \in BOOLEAN /\ crashed \in BOOLEAN /\ overlapped \in BOOLEAN
  /\ count \in Nat

Init ==
  /\ gui = "idle"
  /\ started = FALSE
  /\ shown = "stopped"
  /\ events = <<>>
  /\ config \in Configs
  /\ running = FALSE /\ stopRequested = FALSE
  /\ worker = "none"
  /\ again = FALSE
  /\ handler = "none"
  /\ monitor = None
  /\ client = None
  /\ ws = None
  /\ leaked = FALSE /\ crashed = FALSE /\ overlapped = FALSE
  /\ count = 0

\* The client has a live connection, one with a reader thread.
Connected == ws # None /\ ws.connected
Reading == ws # None /\ ws.reader

\* CoreClient::mode.
Mode == IF client = None THEN "failed" ELSE client.mode

-----------------------------------------------------------------------------
(* The GUI thread.                                                         *)

\* CoreClient::start launches both threads.
Start ==
  /\ running' = TRUE /\ stopRequested' = FALSE
  /\ worker' = "create" /\ again' = FALSE
  /\ monitor' = "punching"

\* onStartClicked.  The window handles what was posted to it before the next
\* click.
StartClicked(c) ==
  /\ ~crashed /\ gui = "idle" /\ ~started /\ events = <<>>
  /\ config' = c
  /\ started' = TRUE
  /\ shown' = "connecting"
  /\ Start
  /\ leaked' = FALSE /\ overlapped' = FALSE
  /\ count' = 0
  /\ UNCHANGED <<gui, events, handler, client, ws, crashed>>

\* CoreClient::stop: the flags, and the client if there is one yet.
Stop ==
  /\ ~crashed /\ gui = "idle" /\ started
  /\ running' = FALSE /\ stopRequested' = TRUE
  /\ gui' = IF client = None THEN "worker" ELSE "client"
  /\ UNCHANGED <<started, shown, events, config, worker, again, handler, monitor, client, ws, fate, count>>

StopClicked == Stop

\* Mutant: a client that ended by itself is only shown as stopped.
StatusPollOnly ==
  /\ ~crashed /\ gui = "idle" /\ started /\ ~running
  /\ started' = FALSE
  /\ shown' = "stopped"
  /\ UNCHANGED <<gui, events, config, flags, worker, again, handler, monitor, client, ws, fate, count>>

\* onStatusPoll: a client that ended by itself is stopped.
StatusPoll == ~running /\ Stop

\* What stop() must not meet: a worker in connect_control_channel, which looks
\* at stopping_ only as it begins; a punch_start whose handler has looked at it;
\* a report on a connection that is gone.
Exposed ==
  \/ worker \in Connecting
  \/ handler \in Starting
  \/ handler \in Sending /\ ws = None

\* TestClient::stop: handlers are silenced, the connection is closed.
StopClient ==
  /\ ~crashed /\ gui = "client"
  /\ gui' = IF ws = None THEN "test" ELSE "reader"
  /\ client' = [client EXCEPT !.stopping = TRUE]
  /\ ws' = IF ws = None THEN None ELSE Close(ws)
  /\ overlapped' = (overlapped \/ Exposed)
  /\ UNCHANGED <<started, shown, events, config, flags, worker, again, handler, monitor,
                 leaked, crashed, count>>

\* joinReader, of the connection ws_ refers to by now.
JoinReader ==
  /\ ~crashed /\ gui = "reader"
  /\ ~Reading
  /\ gui' = "test"
  /\ crashed' = (ws = None)
  /\ UNCHANGED <<started, shown, events, config, flags, worker, again, handler, monitor, client,
                 ws, leaked, overlapped, count>>

\* puncher_ is tested ...
TestPuncher ==
  /\ ~crashed /\ gui = "test"
  /\ gui' = IF client.puncher THEN "puncher" ELSE "io"
  /\ UNCHANGED <<started, shown, events, config, flags, worker, again, handler, monitor, client,
                 ws, fate, count>>

\* ... and used.
StopPuncher ==
  /\ ~crashed /\ gui = "puncher"
  /\ gui' = "io"
  /\ crashed' = ~client.puncher
  /\ UNCHANGED <<started, shown, events, config, flags, worker, again, handler, monitor, client,
                 ws, leaked, overlapped, count>>

\* Mutant: the io thread is not joined.
SilencedOnly(c) == [c EXCEPT !.beating = FALSE]

\* Timers cancelled, the io thread stopped and joined.
Silenced(c) == [c EXCEPT !.beating = FALSE, !.io = FALSE]

\* The rest of TestClient::stop: the handler that runs comes to its end, what
\* is posted does not begin.
JoinIo ==
  /\ ~crashed /\ gui = "io"
  /\ handler \in {"none", "begin"}
  /\ handler' = "none"
  /\ gui' = IF worker = "none" THEN "reset" ELSE "worker"
  /\ client' = Silenced(client)
  /\ UNCHANGED <<started, shown, events, config, flags, worker, again, monitor, ws, fate, count>>

JoinWorker ==
  /\ ~crashed /\ gui = "worker"
  /\ worker = "ended"
  /\ worker' = "none"
  /\ gui' = "monitor"
  /\ UNCHANGED <<started, shown, events, config, flags, again, handler, monitor, client, ws,
                 fate, count>>

\* client_.reset() follows: ~TestClient calls stop(), which does nothing the
\* second time and everything if stop() had not found the client.
JoinMonitor ==
  /\ ~crashed /\ gui = "monitor"
  /\ monitor = "ended"
  /\ monitor' = None
  /\ gui' = IF client # None /\ ~client.stopping THEN "client" ELSE "reset"
  /\ UNCHANGED <<started, shown, events, config, flags, worker, again, handler, client, ws,
                 fate, count>>

\* The members of the client go: a thread that is joinable when it is destroyed
\* terminates the process, and a reader thread keeps its connection.  Then the
\* buttons and the indicator.
DestroyClient ==
  /\ ~crashed /\ gui = "reset"
  /\ crashed' = (client # None /\ client.io)
  /\ leaked' = (leaked \/ Reading)
  /\ client' = None
  /\ ws' = None
  /\ handler' = "none"
  /\ gui' = "idle"
  /\ started' = FALSE
  /\ shown' = "stopped"
  /\ UNCHANGED <<events, config, flags, worker, again, monitor, overlapped, count>>

\* Mutant: the indicator shows the event as it is.
ShownRaw(event) == event

\* setState and setError.
Shown(event) == IF event = "punching" THEN "connecting" ELSE event

\* The window handles a posted event, also after stop() has returned.
HandleEvent ==
  /\ ~crashed /\ gui = "idle" /\ events # <<>>
  /\ shown' = Shown(Head(events))
  /\ events' = Tail(events)
  /\ UNCHANGED <<gui, started, config, flags, worker, again, handler, monitor, client, ws, fate, count>>

-----------------------------------------------------------------------------
(* The monitor thread.                                                     *)

\* Mutant: a mode is reported one poll late, if there is another.
MonitorReportsLate ==
  /\ ~crashed /\ monitor \in Modes /\ running /\ ~stopRequested
  /\ client # None
  /\ client.mode # monitor
  /\ monitor' = client.mode
  /\ events' = Append(events, monitor)
  /\ UNCHANGED <<gui, started, shown, config, flags, worker, again, handler, client, ws, fate, count>>

\* A poll of monitorFunc that finds another mode than the one before.  (Its
\* test for FAILED, to call on_error, comes after last_mode is set.)
MonitorReports ==
  /\ ~crashed /\ monitor \in Modes /\ running /\ ~stopRequested
  /\ client # None
  /\ client.mode # monitor
  /\ monitor' = client.mode
  /\ events' = Append(events, client.mode)
  /\ UNCHANGED <<gui, started, shown, config, flags, worker, again, handler, client, ws, fate, count>>

\* The loop ends, whether or not the last mode was reported.
MonitorEnds ==
  /\ ~crashed /\ monitor \in Modes
  /\ ~running \/ stopRequested
  /\ monitor' = "ended"
  /\ UNCHANGED <<guiVars, config, flags, worker, again, handler, client, ws, fate, count>>

-----------------------------------------------------------------------------
(* The worker thread: workerFunc, TestClient::run.                         *)

WorkerStep(from, to) ==
  /\ ~crashed
  /\ worker = from
  /\ worker' = to

CreateClient ==
  /\ WorkerStep("create", "stun")
  /\ client' = [stopping |-> FALSE, mode |-> "punching", done |-> FALSE, puncher |-> FALSE,
                relaying |-> FALSE, io |-> FALSE, beating |-> FALSE]
  /\ UNCHANGED <<guiVars, config, flags, again, handler, monitor, ws, fate, count>>

\* run() throws: an address in the configuration does not parse.
RunThrows ==
  /\ WorkerStep("stun", "ended")
  /\ running' = FALSE
  /\ events' = Append(events, "error")
  /\ UNCHANGED <<gui, started, shown, config, stopRequested, again, handler, monitor, client, ws, fate, count>>

ClosedIfAny == IF ws = None THEN None ELSE Close(ws)

\* connect_control_channel begins: a reconnection resets what the last attempt
\* came to and tests puncher_.  With none to drop, the old connection is closed.
BeginConnect(from, reconnecting) ==
  LET drops == reconnecting /\ client.puncher IN
  /\ WorkerStep(from, IF drops THEN "drop" ELSE "close")
  /\ ~client.stopping
  /\ again' = reconnecting
  /\ client' = IF reconnecting
               THEN [client EXCEPT !.mode = "punching", !.done = FALSE]
               ELSE client
  /\ ws' = IF drops THEN ws ELSE ClosedIfAny
  /\ UNCHANGED <<guiVars, config, flags, handler, monitor, fate, count>>

\* The puncher that was found is stopped and dropped, the connection closed.
DropPuncher ==
  /\ WorkerStep("drop", "close")
  /\ crashed' = ~client.puncher
  /\ client' = [client EXCEPT !.puncher = FALSE]
  /\ ws' = ClosedIfAny
  /\ UNCHANGED <<guiVars, config, flags, again, handler, monitor, leaked, overlapped, count>>

\* The STUN query is over.
Connect == BeginConnect("stun", FALSE)

\* maintain_control_connection finds the connection lost.
Reconnect == ~Connected /\ BeginConnect("wait", TRUE)

\* joinReader returns and the old connection is gone.
DropConnection ==
  /\ ~Reading
  /\ WorkerStep("close", "await")
  /\ ws' = None
  /\ UNCHANGED <<guiVars, config, flags, again, handler, monitor, client, fate, count>>

\* The connection cannot be made, or the server refuses the node: the first
\* attempt ends the run, a later one is repeated.
ConnectFails ==
  /\ WorkerStep("await", IF again THEN "wait" ELSE "ended")
  /\ running' = (running /\ again)
  /\ UNCHANGED <<guiVars, config, stopRequested, again, handler, monitor, client, ws, fate, count>>

\* auth_ok and a peer list are received, without a timeout.
Authenticated ==
  /\ WorkerStep("await", "attach")
  /\ UNCHANGED <<guiVars, config, flags, again, handler, monitor, client, ws, fate, count>>

\* startAsync, and the connection is the client's; if the peer list was not
\* received, the connection is already over.
Attach ==
  /\ WorkerStep("attach", "announce")
  /\ ws' \in {Attached, [Over(Attached) EXCEPT !.reader = FALSE]}
  /\ UNCHANGED <<guiVars, config, flags, again, handler, monitor, client, fate, count>>

FirstMessages(dialling) ==
  LET c == Send(ws, "update_addr") IN IF dialling THEN Send(c, "connect_peer") ELSE c

\* The first messages are sent.  Nobody looks at stopping_ again before the next
\* pass of the loop.
Announce ==
  /\ WorkerStep("announce", "beat")
  /\ ws.connected
  /\ ws' = FirstMessages(config.dial /\ ~client.done)
  /\ UNCHANGED <<guiVars, config, flags, again, handler, monitor, client, fate, count>>

\* update_addr cannot be sent: the connection is closed ...
AnnounceFails ==
  /\ WorkerStep("announce", "abandon")
  /\ ~ws.connected
  /\ ws' = Close(ws)
  /\ UNCHANGED <<guiVars, config, flags, again, handler, monitor, client, fate, count>>

\* ... and given up, as one that cannot be made.
Abandon ==
  /\ ~Reading
  /\ WorkerStep("abandon", IF again THEN "wait" ELSE "ended")
  /\ ws' = None
  /\ running' = (running /\ again)
  /\ UNCHANGED <<guiVars, config, stopRequested, again, handler, monitor, client, fate, count>>

\* Mutant: the heartbeat is started for the first connection only.
StartHeartbeatOnce ==
  /\ WorkerStep("beat", IF again \/ ~config.dial THEN "wait" ELSE "dial")
  /\ client' = [client EXCEPT !.io = TRUE,
                              !.beating = IF again THEN @ ELSE ~client.stopping /\ ws.connected]
  /\ ws' = Send(ws, "server")
  /\ UNCHANGED <<guiVars, config, flags, again, handler, monitor, fate, count>>

\* start_heartbeat, which starts the io thread if there is none, and the first
\* transport_status.  The first connection goes on to dial.
StartHeartbeat ==
  /\ WorkerStep("beat", IF again \/ ~config.dial THEN "wait" ELSE "dial")
  /\ client' = [client EXCEPT !.io = TRUE, !.beating = ~client.stopping /\ ws.connected]
  /\ ws' = Send(ws, "server")
  /\ UNCHANGED <<guiVars, config, flags, again, handler, monitor, fate, count>>

\* After half a second connect_peer is sent (again); run() fails if it cannot be.
Dial ==
  /\ WorkerStep("dial", IF ws.connected THEN "wait" ELSE "ended")
  /\ ws' = Send(ws, "connect_peer")
  /\ running' = (running /\ ws.connected)
  /\ UNCHANGED <<guiVars, config, stopRequested, again, handler, monitor, client, fate, count>>

\* Mutant: the loops of run() do not look at stopping_.
RunOverUnlessStopped == ~(config.tun /\ ~config.dial) /\ (client.done \/ config.dial)

\* When run() returns: it is told to stop; or, unless it serves a TUN device
\* for whoever connects, the attempt is over (after 30 s more, with a relay)
\* or a node that was dialled has not answered in 30 s.
RunOver == client.stopping \/ RunOverUnlessStopped

\* Mutant: the end of the run is left to stop() to record.
RunReturnsRunning ==
  /\ WorkerStep("wait", "ended")
  /\ RunOver
  /\ UNCHANGED <<guiVars, config, flags, again, handler, monitor, client, ws, fate, count>>

RunReturns ==
  /\ WorkerStep("wait", "ended")
  /\ RunOver
  /\ running' = FALSE
  /\ UNCHANGED <<guiVars, config, stopRequested, again, handler, monitor, client, ws, fate, count>>

\* maintain_control_connection and run() return without more when told to stop.
ConnectRefused ==
  /\ WorkerStep("stun", "ended")
  /\ client.stopping
  /\ running' = FALSE
  /\ UNCHANGED <<guiVars, config, stopRequested, again, handler, monitor, client, ws, fate, count>>

-----------------------------------------------------------------------------
(* The io thread of the client.  A handler looks at stopping_ as it begins. *)

IoBegins ==
  /\ ~crashed /\ client # None /\ client.io /\ ~client.stopping
  /\ handler = "none"

\* The handler goes on, or returns.
IoStep(from, to) ==
  /\ ~crashed
  /\ handler = from
  /\ handler' = to

\* on_punch_start has looked at stopping_.
PunchStart ==
  /\ IoBegins /\ ws # None /\ ws.inbox > 0
  /\ handler' = "start"
  /\ ws' = [ws EXCEPT !.inbox = @ - 1]
  /\ UNCHANGED <<guiVars, config, flags, worker, again, monitor, client, fate, count>>

\* A client that is done starts again; one that is still punching does not.
PunchReset ==
  /\ IoStep("start", IF client.done \/ ~client.puncher THEN "create" ELSE "none")
  /\ client' = IF client.done
               THEN [client EXCEPT !.mode = "punching", !.done = FALSE, !.puncher = FALSE]
               ELSE client
  /\ UNCHANGED <<guiVars, config, flags, worker, again, monitor, ws, fate, count>>

\* The new puncher and its callbacks; what starts it is posted.
CreatePuncher ==
  /\ IoStep("create", "begin")
  /\ client' = [client EXCEPT !.puncher = TRUE]
  /\ UNCHANGED <<guiVars, config, flags, worker, again, monitor, ws, fate, count>>

\* The peer's key is no key, or the port cannot be bound.
CreateFails ==
  /\ IoStep("create", "none")
  /\ client' = [client EXCEPT !.puncher = FALSE]
  /\ UNCHANGED <<guiVars, config, flags, worker, again, monitor, ws, fate, count>>

\* The posted start uses puncher_ as it is by then.
BeginPunching ==
  /\ IoStep("begin", "none")
  /\ crashed' = (~client.stopping /\ ~client.puncher)
  /\ UNCHANGED <<guiVars, config, flags, worker, again, monitor, client, ws, leaked, overlapped,
                 count>>

\* on_punch_result, a success: it is reported, if ws_ is connected.
PunchSucceeds ==
  /\ IoBegins /\ client.puncher /\ ~client.done
  /\ client' = [client EXCEPT !.mode = "p2p", !.done = ~Connected]
  /\ handler' = IF Connected THEN "p2p" ELSE "none"
  /\ UNCHANGED <<guiVars, config, flags, worker, again, monitor, ws, fate, count>>

\* A failure, which the monitor may see before the relay is fallen back to.
PunchFails ==
  /\ IoBegins /\ client.puncher /\ ~client.done
  /\ client' = [client EXCEPT !.mode = "failed", !.done = ~config.relay]
  /\ handler' = IF config.relay THEN "fallback" ELSE "none"
  /\ UNCHANGED <<guiVars, config, flags, worker, again, monitor, ws, fate, count>>

\* enter_relay_mode looks at stopping_, then reports, if ws_ is connected.
EnterRelayMode ==
  /\ IoStep("fallback", IF Connected /\ ~client.stopping THEN "relay" ELSE "none")
  /\ client' = IF client.stopping THEN client
               ELSE [client EXCEPT !.mode = "relay", !.done = ~Connected, !.relaying = ~Connected]
  /\ UNCHANGED <<guiVars, config, flags, worker, again, monitor, ws, fate, count>>

\* The message goes out on ws_ as it is by now.
SendChecked(message) ==
  /\ IoStep(message, "none")
  /\ crashed' = (ws = None)
  /\ ws' = IF ws = None THEN None ELSE Send(ws, message)
  /\ UNCHANGED <<guiVars, config, flags, worker, again, monitor, leaked, overlapped, count>>

\* The rest of on_punch_result and enter_relay_mode.
ReportMode ==
  \E mode \in {"p2p", "relay"} :
    /\ SendChecked(mode)
    /\ client' = [client EXCEPT !.done = TRUE, !.relaying = @ \/ mode = "relay"]

\* The test message of a client that has fallen back uses puncher_ unchecked.
SendRelayTest ==
  /\ IoBegins /\ client.relaying
  /\ crashed' = ~client.puncher
  /\ UNCHANGED <<guiVars, config, flags, worker, again, handler, monitor, client, ws, leaked,
                 overlapped, count>>

\* The heartbeat timer fires; it is not armed again without a connection.
Heartbeat ==
  /\ IoBegins /\ client.beating
  /\ count < MaxEvents
  /\ count' = count + 1
  /\ client' = [client EXCEPT !.beating = Connected]
  /\ handler' = IF Connected THEN "heartbeat" ELSE "none"
  /\ UNCHANGED <<guiVars, config, flags, worker, again, monitor, ws, fate>>

\* It is sent, and the timer armed again.
SendHeartbeat ==
  /\ SendChecked("heartbeat")
  /\ client' = [client EXCEPT !.beating = ~client.stopping /\ Connected]

-----------------------------------------------------------------------------
(* The reader thread of the connection, and the network.                   *)

ReaderStep(results) ==
  /\ ~crashed /\ ws # None
  /\ ws' \in results
  /\ UNCHANGED <<guiVars, config, flags, worker, again, handler, monitor, client, fate>>

ReaderFlush == ReaderStep(Flushed(ws)) /\ UNCHANGED count
ReaderWrite == ReaderStep(Written(ws)) /\ UNCHANGED count
ReaderEnd == ReaderStep(Ended(ws)) /\ UNCHANGED count

ReaderRead ==
  /\ count < MaxEvents
  /\ ReaderStep(Arrived(ws))
  /\ count' = count + 1

ConnectionBreaks ==
  /\ count < MaxEvents
  /\ ReaderStep(Broken(ws))
  /\ count' = count + 1

-----------------------------------------------------------------------------

Gui ==
  \/ StatusPoll \/ StopClient \/ JoinReader \/ TestPuncher \/ StopPuncher \/ JoinIo
  \/ JoinWorker \/ JoinMonitor \/ DestroyClient \/ HandleEvent
Monitor == MonitorReports \/ MonitorEnds
Worker ==
  \/ CreateClient \/ RunThrows \/ Connect \/ ConnectRefused \/ Reconnect \/ DropPuncher
  \/ DropConnection \/ ConnectFails \/ Authenticated \/ Attach \/ Announce \/ AnnounceFails
  \/ Abandon \/ StartHeartbeat \/ Dial \/ RunReturns
IoEvent == PunchStart \/ PunchSucceeds \/ PunchFails \/ SendRelayTest \/ Heartbeat
IoHandler ==
  \/ PunchReset \/ CreatePuncher \/ CreateFails \/ BeginPunching \/ EnterRelayMode
  \/ ReportMode \/ SendHeartbeat
Reader == ReaderFlush \/ ReaderWrite \/ ReaderEnd

Next ==
  \/ \E c \in Configs : StartClicked(c)
  \/ StopClicked
  \/ Gui
  \/ Monitor
  \/ Worker
  \/ IoEvent
  \/ IoHandler
  \/ Reader
  \/ ReaderRead
  \/ ConnectionBreaks

\* The threads take the steps they can, the window polls, and a server that was
\* reached answers or drops the connection (receive has no timeout).  Nothing
\* need happen to the io thread, but a handler that has begun goes on.
Spec ==
  /\ Init /\ [][Next]_vars
  /\ WF_vars(Gui) /\ WF_vars(Monitor) /\ WF_vars(Worker) /\ WF_vars(IoHandler) /\ WF_vars(Reader)

-----------------------------------------------------------------------------
(* Correctness.                                                            *)

\* Whatever threads send, and however flushes, writes and reads interleave, the
\* server gets a connection's messages in the order send() accepted them, and
\* none is lost before the connection is.
SentInOrder == Connected => ws.wire \o ws.writes \o ws.queue = ws.sent

\* No wake-up of the writer is lost: what was accepted is written, unless the
\* connection breaks first.
QueueDrains == []<>(crashed \/ (Connected => ws.queue = <<>> /\ ws.writes = <<>>))

\* A client that waits on a live connection has its heartbeat armed, however
\* often the timer found the connection gone and was not armed again: the
\* server does not take it for silent.
HeartbeatArmed ==
  /\ worker \in {"dial", "wait"}
  /\ ~client.stopping
  /\ Connected
  => client.beating

\* Start can be clicked only when nothing of the last run is left: start()
\* assigns to the two std::threads and would terminate the process if one were
\* still joinable, as they are when a run ends by itself.
Startable == ~started => worker = "none" /\ monitor = None /\ client = None

\* Once stop() has told the client to stop, no thread terminates the process or
\* uses a pointer that is gone, and no connection is left, unless stop() met a
\* thread that had looked before it and was still to use what it found: the
\* worker inside connect_control_channel, which may then start an io thread
\* nobody joins or a connection nobody closes; on_punch_start, which replaces
\* the puncher that stop() has tested; or a report on a connection that is gone.
StopsClean ==
  [][client # None /\ client.stopping /\ (crashed' # crashed \/ leaked' # leaked)
     => overlapped]_vars

\* A client that was told to stop is gone in the end, and stop() has returned,
\* unless it met such a thread.  (If the worker has not created the client yet,
\* nobody tells it to stop, and the window is frozen until run() returns.)
StopReturns == []<>(client # None /\ client.stopping => overlapped)

\* A run that ends by itself is noticed: the window joins its thread, unless a
\* click on Stop came before and met such a thread.
EndNoticed == []<>(worker = "ended" => crashed \/ overlapped)

\* While a run goes on, the indicator always comes to show the mode the client
\* has by then, through the monitor's polls and the events it posts.
ModeShown == []<>(crashed \/ worker # "wait" \/ ~running \/ shown = Shown(Mode))
=============================================================================
