---------------------------- MODULE BaseWebSocket ----------------------------
(***************************************************************************)
(* BaseWebSocketConnector: connect(), disconnect() and the message stream  *)
(* with its reconnection loop, run by asyncio tasks that share one         *)
(* connector.                                                              *)
(*                                                                         *)
(* The event loop is single threaded: a task keeps control (running = t)   *)
(* until it awaits, and only then may another task or the network move.    *)
(* An action is what a task does from one control point to the next; the   *)
(* labels a running task stops at are never seen by another task.          *)
(*                                                                         *)
(* External to the repository, modelled from how it is used: asyncio.Lock  *)
(* (a FIFO queue, no barging), Task.cancel, and the websockets library     *)
(* (a socket that is opened, closes by itself or because it is told to).   *)
(***************************************************************************)
EXTENDS ConnectionState, Naturals, Sequences, SequencesExt

CONSTANTS
  Callers,               \* tasks that call connect() and disconnect()
  Streamer,              \* the task that iterates over stream_market_data()
  Cancellable,           \* the tasks that may be cancelled from outside
  Sockets,               \* identities of websockets (reused once closed)
  None,                  \* Python's None
  MaxReconnectAttempts,  \* config.max_reconnect_attempts, 0 = no limit
  AttemptCap             \* where the attempt counter saturates when unlimited

Tasks == Callers \cup {Streamer}

ASSUME TasksAssumption ==
  /\ Streamer \notin Callers
  /\ Cancellable \subseteq Tasks
  /\ Tasks \cap Sockets = {}
  /\ None \notin Tasks \cup Sockets
ASSUME AttemptsAssumption ==
  /\ MaxReconnectAttempts \in Nat
  /\ AttemptCap \in Nat \ {0}

VARIABLES
  state,              \* _state
  websocket,          \* _websocket: a socket or None
  reconnectAttempts,  \* _reconnect_attempts
  connectLock,        \* _connect_lock: the task that holds it or None
  lockQueue,          \* the tasks waiting for the lock, oldest first
  connectingTask,     \* _connecting_task
  open,               \* the sockets the network still keeps open
  running,            \* the task the event loop is executing or None
  pc,                 \* where each task is
  awaits,             \* the task or the socket a suspended task waits for
  frame,              \* what the streamer called connect() from
  outcome             \* how each task's last call, or the task itself, ended

connectorVars == <<state, websocket, reconnectAttempts>>
lockVars == <<connectLock, lockQueue>>
taskVars == <<running, pc, awaits, outcome>>
vars == <<connectorVars, lockVars, connectingTask, open, taskVars, frame>>

------------------------------------------------------------------------------
(* Control points.                                                         *)

\* Points at which a task is suspended in an await (or outside the connector).
SuspendedPCs ==
  {"idle", "awaitTask", "connLock", "opening", "subscribing", "failClose",
   "discLock", "discClose", "receiving", "yielded", "handClose", "backoff",
   "done"}

\* Points a task passes without giving up control.
RunningPCs ==
  {"connect", "connBody", "connFail", "discBody", "loop", "receive",
   "handler", "retry", "retryFailed"}

\* Inside "async with self._connect_lock".
CriticalPCs ==
  {"connBody", "opening", "subscribing", "connFail", "failClose",
   "discBody", "discClose"}

\* Between the assignments to _connecting_task.
FlightPCs == {"opening", "subscribing", "connFail", "failClose"}

\* Waiting for websocket.close() in _cleanup.
ClosingPCs == {"failClose", "discClose", "handClose"}

\* Points only the streamer reaches.
StreamPCs ==
  {"connect", "loop", "receive", "receiving", "yielded", "handler",
   "handClose", "retry", "retryFailed", "backoff"}

Outcomes == {"none", "ok", "failed", "invalid", "closed", "cancelled"}
Raised == {"failed", "invalid", "closed"}

TypeOK ==
  /\ state \in ConnectionStates
  /\ websocket \in Sockets \cup {None}
  /\ reconnectAttempts \in Nat
  /\ connectLock \in Tasks \cup {None}
  /\ lockQueue \in Seq(Tasks)
  /\ connectingTask \in Tasks \cup {None}
  /\ open \subseteq Sockets
  /\ running \in Tasks \cup {None}
  /\ pc \in [Tasks -> SuspendedPCs \cup RunningPCs]
  /\ awaits \in [Tasks -> Tasks \cup Sockets \cup {None}]
  /\ frame \in {"loop", "handler"}
  /\ outcome \in [Tasks -> Outcomes]

Init ==
  /\ state = DISCONNECTED
  /\ websocket = None
  /\ reconnectAttempts = 0
  /\ connectLock = None
  /\ lockQueue = <<>>
  /\ connectingTask = None
  /\ open = {}
  /\ running = None
  /\ pc = [t \in Tasks |-> "idle"]
  /\ awaits = [t \in Tasks |-> None]
  /\ frame = "loop"
  /\ outcome = [t \in Tasks |-> "none"]

------------------------------------------------------------------------------
(* The event loop: a task runs, suspends in an await, or ends.             *)

At(t, label) == running = t /\ pc[t] = label
Suspended(t, label) == running = None /\ pc[t] = label

Move(t, label, awaited) ==
  /\ pc' = [pc EXCEPT ![t] = label]
  /\ awaits' = [awaits EXCEPT ![t] = awaited]

\* The task goes on without giving up control.
Continue(t, label) ==
  /\ running' = t
  /\ Move(t, label, None)
  /\ UNCHANGED outcome

\* The task awaits: the event loop may execute another one.
Suspend(t, label, awaited) ==
  /\ running' = None
  /\ Move(t, label, awaited)
  /\ UNCHANGED outcome

\* The call a caller made is over, or (label "done") the whole task is.
Finish(t, label, result) ==
  /\ running' = None
  /\ Move(t, label, None)
  /\ outcome' = [outcome EXCEPT ![t] = result]

\* Mutant: the fast path of the lock does not look whether it is held.
TakeLockHeld(t, granted, queued) ==
  \/ /\ lockQueue = <<>>
     /\ connectLock' = t
     /\ UNCHANGED lockQueue
     /\ Continue(t, granted)
  \/ /\ lockQueue # <<>>
     /\ lockQueue' = Append(lockQueue, t)
     /\ UNCHANGED connectLock
     /\ Suspend(t, queued, None)

\* "async with lock": at once when it is free and nobody queues for it.
TakeLock(t, granted, queued) ==
  \/ /\ connectLock = None
     /\ lockQueue = <<>>
     /\ connectLock' = t
     /\ UNCHANGED lockQueue
     /\ Continue(t, granted)
  \/ /\ connectLock # None \/ lockQueue # <<>>
     /\ lockQueue' = Append(lockQueue, t)
     /\ UNCHANGED connectLock
     /\ Suspend(t, queued, None)

\* Mutant: the lock is never released.
ReleaseNothing == UNCHANGED lockVars

ReleaseLock == connectLock' = None /\ UNCHANGED lockQueue

\* The lock goes to the task that has waited longest.
LockGranted(t) ==
  /\ pc[t] \in {"connLock", "discLock"}
  /\ running = None
  /\ connectLock = None
  /\ lockQueue # <<>>
  /\ t = Head(lockQueue)
  /\ connectLock' = t
  /\ lockQueue' = Tail(lockQueue)
  /\ Continue(t, IF pc[t] = "connLock" THEN "connBody" ELSE "discBody")
  /\ UNCHANGED <<connectorVars, connectingTask, open, frame>>

------------------------------------------------------------------------------
(* _transition_state                                                       *)

CanGo(target) == IsValidTransition(state, target)

Transition(target) == CanGo(target) /\ state' = target

------------------------------------------------------------------------------
(* connect()                                                               *)

\* connect() returned ("ok") or raised ConnectionFailedError ("failed"): a
\* caller is back in its own code, the streamer where it called from.
ReturnConnect(t, result) ==
  \/ /\ t \in Callers
     /\ Finish(t, "idle", result)
  \/ /\ t = Streamer
     /\ Continue(t, IF frame = "loop"
                    THEN IF result = "ok" THEN "receive" ELSE "handler"
                    ELSE IF result = "ok" THEN "loop" ELSE "retryFailed")

\* connect() up to its first await: connected already, an attempt in flight
\* (await the task that makes it), or the lock.
Connect(t) ==
  /\ UNCHANGED <<connectorVars, connectingTask, open, frame>>
  /\ \/ /\ state = CONNECTED
        /\ ReturnConnect(t, "ok")
        /\ UNCHANGED lockVars
     \/ /\ state # CONNECTED
        /\ connectingTask # None
        /\ Suspend(t, "awaitTask", connectingTask)
        /\ UNCHANGED lockVars
     \/ /\ state # CONNECTED
        /\ connectingTask = None
        /\ TakeLock(t, "connBody", "connLock")

CallConnect(t) == t \in Callers /\ Suspended(t, "idle") /\ Connect(t)

StreamerConnect == At(Streamer, "connect") /\ Connect(Streamer)

\* "await self._connecting_task" ends with the awaited task: it returned, it
\* raised (the waiter then tries for itself), or it was cancelled, which
\* "except Exception" does not catch.
AwaitedTaskEnds(t) ==
  /\ Suspended(t, "awaitTask")
  /\ pc[awaits[t]] = "done"
  /\ UNCHANGED <<connectorVars, connectingTask, open, frame>>
  /\ \/ /\ outcome[awaits[t]] = "ok"
        /\ ReturnConnect(t, "ok")
        /\ UNCHANGED lockVars
     \/ /\ outcome[awaits[t]] \in Raised
        /\ TakeLock(t, "connBody", "connLock")
     \/ /\ outcome[awaits[t]] = "cancelled"
        /\ Finish(t, "done", "cancelled")
        /\ UNCHANGED lockVars

\* Mutant: the check under the lock that the connection is up is missing.
ConnBodyUnchecked(t) ==
  /\ At(t, "connBody")
  /\ UNCHANGED <<websocket, reconnectAttempts, open, frame>>
  /\ connectingTask' = t
  /\ \/ /\ Transition(CONNECTING)
        /\ Suspend(t, "opening", None)
        /\ UNCHANGED lockVars
     \/ /\ ~CanGo(CONNECTING)
        /\ Continue(t, "connFail")
        /\ UNCHANGED <<state, lockVars>>

\* With the lock: connected in the meantime, or a new attempt. From FAILED
\* and RECONNECTING the transition to CONNECTING raises.
ConnBody(t) ==
  /\ At(t, "connBody")
  /\ UNCHANGED <<websocket, reconnectAttempts, open, frame>>
  /\ \/ /\ state = CONNECTED
        /\ ReturnConnect(t, "ok")
        /\ ReleaseLock
        /\ UNCHANGED <<state, connectingTask>>
     \/ /\ state # CONNECTED
        /\ Transition(CONNECTING)
        /\ connectingTask' = t
        /\ Suspend(t, "opening", None)
        /\ UNCHANGED lockVars
     \/ /\ state # CONNECTED
        /\ ~CanGo(CONNECTING)
        /\ connectingTask' = t
        /\ Continue(t, "connFail")
        /\ UNCHANGED <<state, lockVars>>

\* websockets.connect() returns a socket nobody refers to yet.
OpenSucceeds(t) ==
  /\ Suspended(t, "opening")
  /\ \E s \in Sockets :
       /\ s \notin open
       /\ s # websocket
       /\ \A u \in Tasks : awaits[u] # s
       /\ websocket' = s
       /\ open' = open \cup {s}
       /\ Suspend(t, "subscribing", s)
  /\ UNCHANGED <<state, reconnectAttempts, lockVars, connectingTask, frame>>

\* Mutant: "finally" does not clear the flight marker.
LeaveConnectInFlight(t, result) ==
  /\ ReleaseLock
  /\ ReturnConnect(t, result)
  /\ UNCHANGED connectingTask

\* End of connect(): the flight marker is cleared and the lock released.
LeaveConnect(t, result) ==
  /\ connectingTask' = None
  /\ ReleaseLock
  /\ ReturnConnect(t, result)

\* The subscription messages are sent, on the socket the attempt opened, and the
\* transition to CONNECTED is allowed: the attempt counter starts over.
SubscribeSucceeds(t) ==
  /\ Suspended(t, "subscribing")
  /\ awaits[t] \in open
  /\ Transition(CONNECTED)
  /\ reconnectAttempts' = 0
  /\ LeaveConnect(t, "ok")
  /\ UNCHANGED <<websocket, open, frame>>

\* websockets.connect(), the subscription or the transition to CONNECTED
\* raises.
ConnectRaises(t) ==
  /\ running = None
  /\ pc[t] \in {"opening", "subscribing"}
  /\ Continue(t, "connFail")
  /\ UNCHANGED <<connectorVars, lockVars, connectingTask, open, frame>>

\* "except Exception": FAILED, then _cleanup of the socket if there is one.
ConnFail(t) ==
  /\ At(t, "connFail")
  /\ Transition(FAILED)
  /\ \/ /\ websocket # None
        /\ Suspend(t, "failClose", websocket)
        /\ UNCHANGED <<lockVars, connectingTask>>
     \/ /\ websocket = None
        /\ LeaveConnect(t, "failed")
  /\ UNCHANGED <<websocket, reconnectAttempts, open, frame>>

FailClosed(t) ==
  /\ Suspended(t, "failClose")
  /\ awaits[t] \notin open
  /\ websocket' = None
  /\ LeaveConnect(t, "failed")
  /\ UNCHANGED <<state, reconnectAttempts, open, frame>>

------------------------------------------------------------------------------
(* disconnect()                                                            *)

CallDisconnect(t) ==
  /\ t \in Callers
  /\ Suspended(t, "idle")
  /\ \/ /\ state = DISCONNECTED
        /\ Finish(t, "idle", "ok")
        /\ UNCHANGED lockVars
     \/ /\ state # DISCONNECTED
        /\ TakeLock(t, "discBody", "discLock")
  /\ UNCHANGED <<connectorVars, connectingTask, open, frame>>

\* The last lines of disconnect(): the transition raises from CONNECTING.
FinishDisconnect(t) ==
  /\ ReleaseLock
  /\ \/ /\ Transition(DISCONNECTED)
        /\ Finish(t, "idle", "ok")
     \/ /\ ~CanGo(DISCONNECTED)
        /\ Finish(t, "idle", "invalid")
        /\ UNCHANGED state

\* Mutant: the socket is forgotten without being closed.
DiscBodyForgets(t) ==
  /\ At(t, "discBody")
  /\ FinishDisconnect(t)
  /\ websocket' = None
  /\ UNCHANGED <<reconnectAttempts, connectingTask, open, frame>>

DiscBody(t) ==
  /\ At(t, "discBody")
  /\ \/ /\ state = DISCONNECTED
        /\ ReleaseLock
        /\ Finish(t, "idle", "ok")
        /\ UNCHANGED state
     \/ /\ state # DISCONNECTED
        /\ websocket # None
        /\ Suspend(t, "discClose", websocket)
        /\ UNCHANGED <<state, lockVars>>
     \/ /\ state # DISCONNECTED
        /\ websocket = None
        /\ FinishDisconnect(t)
  /\ UNCHANGED <<websocket, reconnectAttempts, connectingTask, open, frame>>

DiscClosed(t) ==
  /\ Suspended(t, "discClose")
  /\ awaits[t] \notin open
  /\ websocket' = None
  /\ FinishDisconnect(t)
  /\ UNCHANGED <<reconnectAttempts, connectingTask, open, frame>>

\* A caller's task ends: normally, or with the exception its last call raised.
EndCaller(t) ==
  /\ t \in Callers
  /\ Suspended(t, "idle")
  /\ \E result \in {"ok"} \cup (Raised \cap {outcome[t]}) :
       Finish(t, "done", result)
  /\ UNCHANGED <<connectorVars, lockVars, connectingTask, open, frame>>

------------------------------------------------------------------------------
(* stream_market_data()                                                    *)

StartStream ==
  /\ Suspended(Streamer, "idle")
  /\ Continue(Streamer, "loop")
  /\ UNCHANGED <<connectorVars, lockVars, connectingTask, open, frame>>

\* Top of the loop: connect when not connected.
Loop ==
  /\ At(Streamer, "loop")
  /\ \/ /\ state # CONNECTED
        /\ Continue(Streamer, "connect")
     \/ /\ state = CONNECTED
        /\ Continue(Streamer, "receive")
  /\ frame' = "loop"
  /\ UNCHANGED <<connectorVars, lockVars, connectingTask, open>>

\* Without a socket ConnectionClosedError is raised, else recv() is awaited.
Receive ==
  /\ At(Streamer, "receive")
  /\ \/ /\ websocket = None
        /\ Continue(Streamer, "handler")
     \/ /\ websocket # None
        /\ Suspend(Streamer, "receiving", websocket)
  /\ UNCHANGED <<connectorVars, lockVars, connectingTask, open, frame>>

\* A message arrives: it is yielded, or dropped by the parser (None, an empty
\* conversion, or an error that "continue"s).
RecvMessage ==
  /\ Suspended(Streamer, "receiving")
  /\ awaits[Streamer] \in open
  /\ \/ Suspend(Streamer, "yielded", None)
     \/ Continue(Streamer, "loop")
  /\ UNCHANGED <<connectorVars, lockVars, connectingTask, open, frame>>

\* recv() or the parsing raises something that calls for a reconnection.
RecvRaises ==
  /\ Suspended(Streamer, "receiving")
  /\ Continue(Streamer, "handler")
  /\ UNCHANGED <<connectorVars, lockVars, connectingTask, open, frame>>

\* The consumer asks for the next message, or leaves its "async for".
ConsumerResumes ==
  /\ Suspended(Streamer, "yielded")
  /\ Continue(Streamer, "loop")
  /\ UNCHANGED <<connectorVars, lockVars, connectingTask, open, frame>>

ConsumerStops ==
  /\ Suspended(Streamer, "yielded")
  /\ Finish(Streamer, "done", "ok")
  /\ UNCHANGED <<connectorVars, lockVars, connectingTask, open, frame>>

------------------------------------------------------------------------------
(* _handle_connection_closed()                                             *)

\* CONNECTED becomes RECONNECTING, FAILED becomes DISCONNECTED, and the
\* socket is closed, without the lock.
Handler ==
  /\ At(Streamer, "handler")
  /\ state' = CASE state = CONNECTED -> RECONNECTING
                [] state = FAILED    -> DISCONNECTED
                [] OTHER             -> state
  /\ \/ /\ websocket # None
        /\ Suspend(Streamer, "handClose", websocket)
     \/ /\ websocket = None
        /\ Continue(Streamer, "retry")
  /\ UNCHANGED <<websocket, reconnectAttempts, lockVars, connectingTask, open,
                 frame>>

HandClosed ==
  /\ Suspended(Streamer, "handClose")
  /\ awaits[Streamer] \notin open
  /\ websocket' = None
  /\ Continue(Streamer, "retry")
  /\ UNCHANGED <<state, reconnectAttempts, lockVars, connectingTask, open,
                 frame>>

ShouldAttemptReconnect ==
  \/ MaxReconnectAttempts = 0
  \/ reconnectAttempts < MaxReconnectAttempts

\* Mutant: the attempts are counted down.
NextAttemptDown == reconnectAttempts - 1

\* Unlimited attempts are told apart only up to AttemptCap.
NextAttempt ==
  IF MaxReconnectAttempts = 0 /\ reconnectAttempts >= AttemptCap
  THEN reconnectAttempts
  ELSE reconnectAttempts + 1

\* Count the attempt and sleep before it.
Retry ==
  /\ At(Streamer, "retry")
  /\ ShouldAttemptReconnect
  /\ reconnectAttempts' = NextAttempt
  /\ Suspend(Streamer, "backoff", None)
  /\ UNCHANGED <<state, websocket, lockVars, connectingTask, open, frame>>

\* No attempt is left: FAILED unless the connection is down already, and
\* ConnectionClosedError ends the stream.
GiveUp ==
  /\ At(Streamer, "retry")
  /\ ~ShouldAttemptReconnect
  /\ state' = IF state \in {CONNECTING, CONNECTED, RECONNECTING}
              THEN FAILED
              ELSE state
  /\ Finish(Streamer, "done", "closed")
  /\ UNCHANGED <<websocket, reconnectAttempts, lockVars, connectingTask, open,
                 frame>>

\* Mutant: DISCONNECTED is assigned without validating the transition.
BackoffForces ==
  /\ Suspended(Streamer, "backoff")
  /\ state' = DISCONNECTED
  /\ Continue(Streamer, "connect")
  /\ frame' = "handler"
  /\ UNCHANGED <<websocket, reconnectAttempts, lockVars, connectingTask, open>>

\* The sleep ends: whatever happened meanwhile, the state is forced to
\* DISCONNECTED and connect() called; from CONNECTING that raises.
BackoffEnds ==
  /\ Suspended(Streamer, "backoff")
  /\ \/ /\ Transition(DISCONNECTED)
        /\ Continue(Streamer, "connect")
        /\ frame' = "handler"
     \/ /\ ~CanGo(DISCONNECTED)
        /\ Finish(Streamer, "done", "invalid")
        /\ UNCHANGED <<state, frame>>
  /\ UNCHANGED <<websocket, reconnectAttempts, lockVars, connectingTask, open>>

\* Mutant: a failed attempt starts the count over.
RetryFailedResets ==
  /\ At(Streamer, "retryFailed")
  /\ Transition(DISCONNECTED)
  /\ Continue(Streamer, "retry")
  /\ reconnectAttempts' = 0
  /\ UNCHANGED <<websocket, lockVars, connectingTask, open, frame>>

\* The attempt raised ConnectionFailedError: back to DISCONNECTED.
RetryFailed ==
  /\ At(Streamer, "retryFailed")
  /\ Transition(DISCONNECTED)
  /\ Continue(Streamer, "retry")
  /\ UNCHANGED <<websocket, reconnectAttempts, lockVars, connectingTask, open,
                 frame>>

------------------------------------------------------------------------------
(* Cancellation and the network.                                           *)

\* Mutant: a cancelled task keeps the lock.
CancelKeepsLock(t) ==
  /\ t \in Cancellable
  /\ running = None
  /\ pc[t] \in SuspendedPCs \ {"awaitTask", "connLock", "discLock", "done"}
  /\ Finish(t, "done", "cancelled")
  /\ connectingTask' = IF connectingTask = t THEN None ELSE connectingTask
  /\ UNCHANGED <<connectorVars, lockVars, open, frame>>

\* Mutant: a cancelled attempt stays the attempt in flight.
CancelStaysInFlight(t) ==
  /\ t \in Cancellable
  /\ running = None
  /\ pc[t] \in SuspendedPCs \ {"awaitTask", "connLock", "discLock", "done"}
  /\ Finish(t, "done", "cancelled")
  /\ connectLock' = IF connectLock = t THEN None ELSE connectLock
  /\ UNCHANGED <<connectorVars, lockQueue, connectingTask, open, frame>>

\* CancelledError reaches a task in an await. "finally" and "async with"
\* clear the flight marker and release the lock; state and socket stay as
\* they are. Cancelling a task in "awaitTask" cancels the task it awaits
\* (Task.cancel forwards), which is the same step of that other task.
Cancel(t) ==
  /\ t \in Cancellable
  /\ running = None
  /\ pc[t] \in SuspendedPCs \ {"awaitTask", "connLock", "discLock", "done"}
  /\ Finish(t, "done", "cancelled")
  /\ connectingTask' = IF connectingTask = t THEN None ELSE connectingTask
  /\ connectLock' = IF connectLock = t THEN None ELSE connectLock
  /\ UNCHANGED <<connectorVars, lockQueue, open, frame>>

\* Mutant: a cancelled waiter stays in the queue.
CancelStaysQueued(t) ==
  /\ t \in Cancellable
  /\ running = None
  /\ pc[t] \in {"connLock", "discLock"}
  /\ Finish(t, "done", "cancelled")
  /\ UNCHANGED <<connectorVars, lockVars, connectingTask, open, frame>>

\* A task cancelled while it queues for the lock leaves the queue.
CancelQueued(t) ==
  /\ t \in Cancellable
  /\ running = None
  /\ pc[t] \in {"connLock", "discLock"}
  /\ \E i \in DOMAIN lockQueue :
       /\ lockQueue[i] = t
       /\ lockQueue' = RemoveAt(lockQueue, i)
  /\ Finish(t, "done", "cancelled")
  /\ UNCHANGED <<connectorVars, connectLock, connectingTask, open, frame>>

\* A socket closes, by itself or because close() was called on it.
SocketCloses(s) ==
  /\ running = None
  /\ s \in open
  /\ open' = open \ {s}
  /\ UNCHANGED <<connectorVars, lockVars, connectingTask, taskVars, frame>>

\* Every task has ended: nothing is left to do.
Terminated ==
  /\ \A t \in Tasks : pc[t] = "done"
  /\ UNCHANGED vars

------------------------------------------------------------------------------
ConnectStep(t) ==
  \/ AwaitedTaskEnds(t)
  \/ ConnBody(t)
  \/ OpenSucceeds(t)
  \/ SubscribeSucceeds(t)
  \/ ConnectRaises(t)
  \/ ConnFail(t)
  \/ FailClosed(t)

DisconnectStep(t) ==
  \/ DiscBody(t)
  \/ DiscClosed(t)

StreamStep ==
  \/ StreamerConnect
  \/ Loop
  \/ Receive
  \/ Handler
  \/ HandClosed
  \/ Retry
  \/ GiveUp
  \/ BackoffEnds
  \/ RetryFailed

\* What a task does, by itself or when what it awaits has happened.
TaskStep(t) ==
  \/ LockGranted(t)
  \/ ConnectStep(t)
  \/ DisconnectStep(t)
  \/ t = Streamer /\ StreamStep

\* What the users of the connector and the network decide.
CallStep(t) ==
  \/ CallConnect(t)
  \/ CallDisconnect(t)
  \/ EndCaller(t)
  \/ Cancel(t)
  \/ CancelQueued(t)

ConsumerStep ==
  \/ StartStream
  \/ RecvMessage
  \/ RecvRaises
  \/ ConsumerResumes
  \/ ConsumerStops

Next ==
  \/ \E t \in Tasks :
       \/ LockGranted(t)
       \/ ConnectStep(t)
       \/ DisconnectStep(t)
       \/ CallStep(t)
  \/ StreamStep
  \/ ConsumerStep
  \/ \E s \in Sockets : SocketCloses(s)
  \/ Terminated

Spec == Init /\ [][Next]_vars

\* The event loop runs every task that is ready, in turn: a step that is ready
\* again and again, whenever control comes back to the loop, is not passed over
\* for ever (hence strong fairness: no step is ready while another task runs).
\* Opening, closing and sending have timeouts of their own in the websockets
\* library, so they end; close() closes the socket and recv() on a closed socket
\* raises. Nobody has to call, send, cancel, or close a connection that works.
Fairness ==
  /\ \A t \in Tasks : SF_vars(TaskStep(t))
  /\ SF_vars(RecvRaises /\ awaits[Streamer] \notin open)
  /\ \A s \in Sockets :
       SF_vars(/\ \E t \in Tasks : pc[t] \in ClosingPCs /\ awaits[t] = s
               /\ SocketCloses(s))

FairSpec == Spec /\ Fairness

------------------------------------------------------------------------------
(* The abstract life cycle, read off the connector's state.                *)

Lifecycle ==
  INSTANCE ConnectionLifecycle WITH phase <- state, flight <- connectingTask

\* The connector implements ConnectionLifecycle: CONNECTED is entered only by
\* the one task whose attempt is in flight, from CONNECTING, and no other task
\* moves the state under that attempt except to FAILED (or, once it has
\* failed, on to DISCONNECTED).
ImplementsLifecycle == Lifecycle!LifecycleSpec

------------------------------------------------------------------------------
(* Safety.                                                                 *)

\* The lock is held by exactly the task that is inside "async with
\* self._connect_lock" of connect() or disconnect(): no return, exception or
\* cancellation in either leaves it locked or unlocks it early.
LockDiscipline ==
  \A t \in Tasks : connectLock = t <=> pc[t] \in CriticalPCs

\* _connecting_task names exactly the task between the assignment and the
\* "finally" of connect(): no exit path forgets to clear it, or clears
\* another task's, so nobody awaits an attempt that no longer exists.
SingleFlight ==
  \A t \in Tasks : connectingTask = t <=> pc[t] \in FlightPCs

\* While the connection is up no attempt is in flight: CONNECTED is entered
\* only on the way out of connect(), and no attempt starts before it is left.
NoFlightWhileConnected ==
  state = CONNECTED => connectingTask = None

\* The branch of connect() that looks for a connecting task a second time,
\* under the lock, never finds one (which is why Connect has no such case).
DoubleCheckUnreachable ==
  \A t \in Tasks : pc[t] = "connBody" => connectingTask = None

\* Inside "except Exception" of connect() the transition to FAILED is always
\* allowed, and after a failed attempt of the reconnection loop the one to
\* DISCONNECTED: no InvalidTransitionError replaces ConnectionFailedError.
FailurePathLegal ==
  /\ \A t \in Tasks : pc[t] = "connFail" => CanGo(FAILED)
  /\ pc[Streamer] = "retryFailed" => state = FAILED

\* The queue of the lock holds every task suspended in its acquisition, once.
LockQueueExact ==
  /\ \A i, j \in DOMAIN lockQueue : lockQueue[i] = lockQueue[j] => i = j
  /\ \A t \in Tasks :
       pc[t] \in {"connLock", "discLock"} <=>
         \E i \in DOMAIN lockQueue : lockQueue[i] = t

\* Tasks that await each other's end never form a cycle: every set of them
\* has a member that awaits a task outside of it.
NoAwaitCycle ==
  \A S \in SUBSET {t \in Tasks : pc[t] = "awaitTask"} :
    S # {} => \E t \in S : awaits[t] \notin S

\* As long as no task was cancelled the stream never waits for messages on an
\* open socket that is not the connector's: no attempt, disconnect() or clean up
\* of another task replaces or forgets the socket under it. (A cancelled attempt
\* leaves its socket behind, open, for the next attempt to replace.)
ReadsOwnSocket ==
  /\ \A t \in Tasks : outcome[t] # "cancelled"
  /\ pc[Streamer] = "receiving"
  /\ awaits[Streamer] \in open
  => awaits[Streamer] = websocket

------------------------------------------------------------------------------
(* Liveness.                                                               *)

\* disconnect() comes back, whoever else holds or waits for the lock.
DisconnectCompletes ==
  \A t \in Callers :
    pc[t] \in {"discLock", "discBody", "discClose"} ~> pc[t] \in {"idle", "done"}

\* A loss the stream notices is resolved: the connection is up again, the
\* stream has ended, or it waits for the task whose attempt it joined. With a
\* limit on the attempts it never stays in the reconnection loop for ever.
LossIsResolved ==
  pc[Streamer] = "handler" ~>
    (state = CONNECTED \/ pc[Streamer] \in {"done", "awaitTask"})

------------------------------------------------------------------------------
(* A promise of the documents that the code does not keep.                 *)

\* A single connection: an attempt never replaces a socket that is still open.
SingleConnection ==
  [][\A t \in Tasks :
       pc[t] = "opening" /\ pc'[t] = "subscribing"
         => websocket = None \/ websocket \notin open]_vars

==============================================================================
