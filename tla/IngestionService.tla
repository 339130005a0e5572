--------------------------- MODULE IngestionService ---------------------------
(***************************************************************************)
(* IngestionService: start(), stop() and the consumption loop they create  *)
(* and end, over the two ports the service is given. Any number of tasks   *)
(* may call start() and stop(); every start() creates a loop of its own.   *)
(*                                                                         *)
(* Abstracted: the connector is up or down and its stream delivers         *)
(* messages or raises; the publisher accepts a message or raises; the      *)
(* service's asyncio.Lock is granted to any waiter.                        *)
(***************************************************************************)
EXTENDS Naturals, FiniteSets

CONSTANTS
  Callers,                  \* tasks that call start() and stop()
  MaxStarts,                \* bound: how many loops are ever created
  MaxConsecutiveFailures,   \* max_consecutive_failures
  None

ASSUME CallersAssumption == IsFiniteSet(Callers) /\ None \notin Callers
ASSUME LimitsAssumption ==
  /\ MaxStarts \in Nat
  /\ MaxConsecutiveFailures \in Nat \ {0}

VARIABLES
  serviceRunning,       \* _running
  serviceLock,          \* _lock: the task that holds it or None
  backgroundTask,       \* _background_task: the last loop created, 0 = none
  consecutiveFailures,  \* _consecutive_failures
  loop,                 \* each loop: how far it is, or how it ended
  connectorHasConfig,   \* the connector has the attribute "config"
  connected,            \* the connector is connected
  pc,                   \* where each caller is
  waitsFor              \* the loop a stop() waits for

serviceVars == <<serviceRunning, serviceLock, backgroundTask>>
loopVars == <<consecutiveFailures, loop>>
portVars == <<connectorHasConfig, connected>>
callerVars == <<pc, waitsFor>>
vars == <<serviceVars, loopVars, portVars, callerVars>>

Loops == 1 .. MaxStarts
Alive == {"receiving", "publishing"}
Ended == {"returned", "raised", "cancelled"}

CallerPCs ==
  {"idle", "starting", "connecting", "stopping", "waiting", "cancelling",
   "flushing", "disconnecting"}

TypeOK ==
  /\ serviceRunning \in BOOLEAN
  /\ serviceLock \in Callers \cup {None}
  /\ backgroundTask \in Loops \cup {0}
  /\ consecutiveFailures \in 0 .. MaxConsecutiveFailures + MaxStarts
  /\ loop \in [Loops -> {"none"} \cup Alive \cup Ended]
  /\ connectorHasConfig \in BOOLEAN
  /\ connected \in BOOLEAN
  /\ pc \in [Callers -> CallerPCs]
  /\ waitsFor \in [Callers -> Loops \cup {0}]

Init ==
  /\ serviceRunning = FALSE
  /\ serviceLock = None
  /\ backgroundTask = 0
  /\ consecutiveFailures = 0
  /\ loop = [i \in Loops |-> "none"]
  /\ connectorHasConfig \in BOOLEAN
  /\ connected = FALSE
  /\ pc = [c \in Callers |-> "idle"]
  /\ waitsFor = [c \in Callers |-> 0]

GoTo(c, label) == pc' = [pc EXCEPT ![c] = label]
LoopTo(i, label) == loop' = [loop EXCEPT ![i] = label]

------------------------------------------------------------------------------
(* start()                                                                 *)

Starters == {c \in Callers : pc[c] \in {"starting", "connecting"}}

CallStart(c) ==
  /\ pc[c] = "idle"
  /\ backgroundTask + Cardinality(Starters) < MaxStarts
  /\ GoTo(c, "starting")
  /\ UNCHANGED <<serviceVars, loopVars, portVars, waitsFor>>

\* Mutant: a service that runs already is started once more.
StartLockedUnchecked(c) ==
  /\ pc[c] = "starting"
  /\ serviceLock = None
  /\ serviceLock' = c
  /\ GoTo(c, "connecting")
  /\ UNCHANGED <<serviceRunning, backgroundTask, loopVars, portVars, waitsFor>>

\* With the lock: RuntimeError when it runs already, else connect().
StartLocked(c) ==
  /\ pc[c] = "starting"
  /\ serviceLock = None
  /\ \/ /\ serviceRunning
        /\ GoTo(c, "idle")
        /\ UNCHANGED serviceLock
     \/ /\ ~serviceRunning
        /\ serviceLock' = c
        /\ GoTo(c, "connecting")
  /\ UNCHANGED <<serviceRunning, backgroundTask, loopVars, portVars, waitsFor>>

\* connect() returned: the service runs and a new loop is created.
Started(c) ==
  /\ pc[c] = "connecting"
  /\ connected' = TRUE
  /\ serviceRunning' = TRUE
  /\ backgroundTask' = backgroundTask + 1
  /\ LoopTo(backgroundTask + 1, "receiving")
  /\ serviceLock' = None
  /\ GoTo(c, "idle")
  /\ UNCHANGED <<consecutiveFailures, connectorHasConfig, waitsFor>>

\* connect() raised ConnectionFailedError: nothing was started.
StartFails(c) ==
  /\ pc[c] = "connecting"
  /\ ~connected
  /\ serviceLock' = None
  /\ GoTo(c, "idle")
  /\ UNCHANGED <<serviceRunning, backgroundTask, loopVars, portVars, waitsFor>>

------------------------------------------------------------------------------
(* stop()                                                                  *)

CallStop(c) ==
  /\ pc[c] = "idle"
  /\ GoTo(c, "stopping")
  /\ UNCHANGED <<serviceVars, loopVars, portVars, waitsFor>>

\* Mutant: the loop is not waited for.
StopLockedOnly(c) ==
  /\ pc[c] = "stopping"
  /\ serviceLock = None
  /\ serviceRunning
  /\ serviceRunning' = FALSE
  /\ waitsFor' = [waitsFor EXCEPT ![c] = backgroundTask]
  /\ GoTo(c, "flushing")
  /\ UNCHANGED <<serviceLock, backgroundTask, loopVars, portVars>>

\* With the lock: nothing to do when it does not run; else the flag is cleared
\* and, the lock released, the stop waits for the loop.
StopLocked(c) ==
  /\ pc[c] = "stopping"
  /\ serviceLock = None
  /\ \/ /\ ~serviceRunning
        /\ GoTo(c, "idle")
        /\ UNCHANGED <<serviceRunning, waitsFor>>
     \/ /\ serviceRunning
        /\ serviceRunning' = FALSE
        /\ waitsFor' = [waitsFor EXCEPT ![c] = backgroundTask]
        /\ GoTo(c, "waiting")
  /\ UNCHANGED <<serviceLock, backgroundTask, loopVars, portVars>>

\* wait_for ends with the loop: its exception, or its cancellation, leaves
\* stop() there, before the flush and the disconnect.
LoopEnded(c) ==
  /\ pc[c] = "waiting"
  /\ \/ /\ loop[waitsFor[c]] = "returned"
        /\ GoTo(c, "flushing")
     \/ /\ loop[waitsFor[c]] \in {"raised", "cancelled"}
        /\ GoTo(c, "idle")
  /\ UNCHANGED <<serviceVars, loopVars, portVars, waitsFor>>

\* Mutant: the loop is left alone after the timeout.
StopTimesOutOnly(c) ==
  /\ pc[c] = "waiting"
  /\ loop[waitsFor[c]] \in Alive
  /\ GoTo(c, "flushing")
  /\ UNCHANGED <<serviceVars, loopVars, portVars, waitsFor>>

\* Mutant: stop() waits without a timeout.
StopNeverTimesOut(c) ==
  /\ pc[c] = "waiting"
  /\ loop[waitsFor[c]] = "none"
  /\ UNCHANGED vars

\* After 5 seconds wait_for cancels the loop it waits for.
StopTimesOut(c) ==
  /\ pc[c] = "waiting"
  /\ loop[waitsFor[c]] \in Alive
  /\ LoopTo(waitsFor[c], "cancelled")
  /\ GoTo(c, "cancelling")
  /\ UNCHANGED <<serviceVars, consecutiveFailures, portVars, waitsFor>>

\* stop() then cancels and awaits _background_task, which may be a later loop
\* by now; only CancelledError is caught.
CancelBackgroundTask(c) ==
  /\ pc[c] = "cancelling"
  /\ \/ /\ loop[backgroundTask] \in Alive
        /\ LoopTo(backgroundTask, "cancelled")
        /\ GoTo(c, "flushing")
     \/ /\ loop[backgroundTask] \in {"returned", "cancelled"}
        /\ GoTo(c, "flushing")
        /\ UNCHANGED loop
     \/ /\ loop[backgroundTask] = "raised"
        /\ GoTo(c, "idle")
        /\ UNCHANGED loop
  /\ UNCHANGED <<serviceVars, consecutiveFailures, portVars, waitsFor>>

\* flush() returns, or raises and is logged; disconnect() follows.
Flush(c) ==
  /\ pc[c] = "flushing"
  /\ GoTo(c, "disconnecting")
  /\ UNCHANGED <<serviceVars, loopVars, portVars, waitsFor>>

\* disconnect() returns, or raises and is logged: it closes the connection
\* before anything in it raises. stop() returns.
Disconnect(c) ==
  /\ pc[c] = "disconnecting"
  /\ connected' = FALSE
  /\ GoTo(c, "idle")
  /\ UNCHANGED <<serviceVars, loopVars, connectorHasConfig, waitsFor>>

------------------------------------------------------------------------------
(* _consume_and_publish                                                    *)

\* A message is received. The loop ends when the service was stopped; the
\* filter reads self._connector.config and raises AttributeError when there is
\* none; a message of another market, or one that cannot be converted, is
\* skipped; any other is published.
Receive(i) ==
  /\ loop[i] = "receiving"
  /\ connected
  /\ \/ /\ ~serviceRunning
        /\ LoopTo(i, "returned")
     \/ /\ serviceRunning
        /\ ~connectorHasConfig
        /\ LoopTo(i, "raised")
     \/ /\ serviceRunning
        /\ connectorHasConfig
        /\ LoopTo(i, "publishing")
  /\ UNCHANGED <<serviceVars, consecutiveFailures, portVars, callerVars>>

\* Under the stream the connection may be lost. The stream reconnects, or gives
\* up and raises.
ConnectionLost ==
  /\ connected
  /\ connected' = FALSE
  /\ UNCHANGED <<serviceVars, loopVars, connectorHasConfig, callerVars>>

StreamReconnects(i) ==
  /\ loop[i] = "receiving"
  /\ ~connected
  /\ connected' = TRUE
  /\ UNCHANGED <<serviceVars, loopVars, connectorHasConfig, callerVars>>

StreamGivesUp(i) ==
  /\ loop[i] = "receiving"
  /\ ~connected
  /\ LoopTo(i, "raised")
  /\ UNCHANGED <<serviceVars, consecutiveFailures, portVars, callerVars>>

Published(i) ==
  /\ loop[i] = "publishing"
  /\ consecutiveFailures' = 0
  /\ LoopTo(i, "receiving")
  /\ UNCHANGED <<serviceVars, connected, connectorHasConfig, callerVars>>

\* Mutant: the limit of failures in a row is not applied.
PublishFailsOn(i) ==
  /\ loop[i] = "publishing"
  /\ consecutiveFailures' = consecutiveFailures + 1
  /\ LoopTo(i, "receiving")
  /\ UNCHANGED <<serviceVars, portVars, callerVars>>

\* PublishException: the loop goes on until the limit of failures in a row.
PublishFails(i) ==
  /\ loop[i] = "publishing"
  /\ consecutiveFailures' = consecutiveFailures + 1
  /\ LoopTo(i, IF consecutiveFailures + 1 >= MaxConsecutiveFailures
               THEN "raised" ELSE "receiving")
  /\ UNCHANGED <<serviceVars, portVars, callerVars>>

------------------------------------------------------------------------------
StopStep(c) ==
  \/ StopLocked(c)
  \/ LoopEnded(c)
  \/ StopTimesOut(c)
  \/ CancelBackgroundTask(c)
  \/ Flush(c)
  \/ Disconnect(c)

StartStep(c) ==
  \/ StartLocked(c)
  \/ Started(c)
  \/ StartFails(c)

LoopStep(i) ==
  \/ Receive(i)
  \/ StreamReconnects(i)
  \/ StreamGivesUp(i)
  \/ Published(i)
  \/ PublishFails(i)

Next ==
  \/ \E c \in Callers :
       \/ CallStart(c)
       \/ CallStop(c)
       \/ StartStep(c)
       \/ StopStep(c)
  \/ \E i \in Loops : LoopStep(i)
  \/ ConnectionLost

Spec == Init /\ [][Next]_vars

\* Tasks that are ready run, a waiter of the lock is served in turn, connect(),
\* flush() and disconnect() end, and wait_for has its timeout.
Fairness ==
  \A c \in Callers : SF_vars(StartStep(c)) /\ SF_vars(StopStep(c))

FairSpec == Spec /\ Fairness

------------------------------------------------------------------------------
\* However start() and stop() overlap, no consumption loop is orphaned: one
\* that is alive is the running service's own, or a stop() is about to end it.
NoOrphanLoop ==
  \A i \in Loops : loop[i] \in Alive =>
    \/ serviceRunning /\ backgroundTask = i
    \/ \E c \in Callers : pc[c] = "waiting" /\ waitsFor[c] = i

\* The flush of a stop() comes after the loop it stopped: nothing that loop
\* publishes is missed by it.
FlushAfterLoop ==
  \A c \in Callers :
    pc[c] \in {"flushing", "disconnecting"} => loop[waitsFor[c]] \in Ended

\* The limit of failures in a row is kept across loops that overlap and
\* restarts: each failure at or over it has ended a loop.
FailuresBounded ==
  consecutiveFailures <
    MaxConsecutiveFailures + Cardinality({i \in Loops : loop[i] = "raised"})

\* stop() comes back, whether or not messages still arrive.
StopReturns ==
  \A c \in Callers : pc[c] \in {"stopping", "waiting"} ~> pc[c] = "idle"

\* A service that was started, does not run and is not being started or
\* stopped has left no connection behind.
StoppedMeansDisconnected ==
  ~serviceRunning /\ (\A c \in Callers : pc[c] = "idle") => ~connected

==============================================================================
