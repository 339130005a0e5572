------------------------ MODULE BaseWebSocket_proofs -------------------------
(***************************************************************************)
(* Theorems about BaseWebSocket, for every set of callers and sockets and  *)
(* every limit on the reconnection attempts: its types, the lock and the   *)
(* flight, the joins, the state under an attempt, that it implements       *)
(* ConnectionLifecycle, the queue of the lock, and the stream's socket.    *)
(***************************************************************************)
EXTENDS BaseWebSocket, SequenceTheorems, TLAPS

USE DEF Tasks

------------------------------------------------------------------------------
(* Type correctness.                                                       *)

\* Taking an element out of the queue leaves a queue.
LEMMA RemoveAtType ==
  ASSUME NEW S, NEW q \in Seq(S), NEW i \in DOMAIN q
  PROVE  RemoveAt(q, i) \in Seq(S)
  BY DEF RemoveAt

\* What the moves of a task do to the variables of the event loop.
LEMMA MoveType ==
  ASSUME TypeOK, NEW t \in Tasks,
         NEW label \in SuspendedPCs \cup RunningPCs,
         NEW awaited \in Tasks \cup Sockets \cup {None},
         Move(t, label, awaited)
  PROVE  /\ pc' \in [Tasks -> SuspendedPCs \cup RunningPCs]
         /\ awaits' \in [Tasks -> Tasks \cup Sockets \cup {None}]
  BY DEF TypeOK, Move

LEMMA ContinueType ==
  ASSUME TypeOK, NEW t \in Tasks,
         NEW label \in SuspendedPCs \cup RunningPCs, Continue(t, label)
  PROVE  /\ running' \in Tasks \cup {None}
         /\ pc' \in [Tasks -> SuspendedPCs \cup RunningPCs]
         /\ awaits' \in [Tasks -> Tasks \cup Sockets \cup {None}]
         /\ outcome' \in [Tasks -> Outcomes]
  BY DEF TypeOK, Continue, Move

LEMMA SuspendType ==
  ASSUME TypeOK, NEW t \in Tasks,
         NEW label \in SuspendedPCs \cup RunningPCs,
         NEW awaited \in Tasks \cup Sockets \cup {None},
         Suspend(t, label, awaited)
  PROVE  /\ running' \in Tasks \cup {None}
         /\ pc' \in [Tasks -> SuspendedPCs \cup RunningPCs]
         /\ awaits' \in [Tasks -> Tasks \cup Sockets \cup {None}]
         /\ outcome' \in [Tasks -> Outcomes]
  BY DEF TypeOK, Suspend, Move

LEMMA FinishType ==
  ASSUME TypeOK, NEW t \in Tasks,
         NEW label \in SuspendedPCs \cup RunningPCs,
         NEW result \in Outcomes, Finish(t, label, result)
  PROVE  /\ running' \in Tasks \cup {None}
         /\ pc' \in [Tasks -> SuspendedPCs \cup RunningPCs]
         /\ awaits' \in [Tasks -> Tasks \cup Sockets \cup {None}]
         /\ outcome' \in [Tasks -> Outcomes]
  BY DEF TypeOK, Finish, Move

LEMMA TakeLockType ==
  ASSUME TypeOK, NEW t \in Tasks,
         NEW granted \in SuspendedPCs \cup RunningPCs,
         NEW queued \in SuspendedPCs \cup RunningPCs,
         TakeLock(t, granted, queued)
  PROVE  /\ connectLock' \in Tasks \cup {None}
         /\ lockQueue' \in Seq(Tasks)
         /\ running' \in Tasks \cup {None}
         /\ pc' \in [Tasks -> SuspendedPCs \cup RunningPCs]
         /\ awaits' \in [Tasks -> Tasks \cup Sockets \cup {None}]
         /\ outcome' \in [Tasks -> Outcomes]
<1>1. CASE Continue(t, granted) /\ connectLock' = t /\ UNCHANGED lockQueue
  BY <1>1, ContinueType DEF TypeOK
<1>2. CASE /\ Suspend(t, queued, None)
           /\ lockQueue' = Append(lockQueue, t)
           /\ UNCHANGED connectLock
  BY <1>2, SuspendType DEF TypeOK
<1> QED
  BY <1>1, <1>2 DEF TakeLock

LEMMA ReturnConnectType ==
  ASSUME TypeOK, NEW t \in Tasks, NEW result \in Outcomes,
         ReturnConnect(t, result)
  PROVE  /\ running' \in Tasks \cup {None}
         /\ pc' \in [Tasks -> SuspendedPCs \cup RunningPCs]
         /\ awaits' \in [Tasks -> Tasks \cup Sockets \cup {None}]
         /\ outcome' \in [Tasks -> Outcomes]
<1>1. CASE Finish(t, "idle", result)
  BY <1>1, FinishType DEF SuspendedPCs
<1>2. ASSUME NEW label \in {"receive", "handler", "loop", "retryFailed"},
             Continue(t, label)
      PROVE  /\ running' \in Tasks \cup {None}
             /\ pc' \in [Tasks -> SuspendedPCs \cup RunningPCs]
             /\ awaits' \in [Tasks -> Tasks \cup Sockets \cup {None}]
             /\ outcome' \in [Tasks -> Outcomes]
  BY <1>2, ContinueType DEF RunningPCs
<1> QED
  BY <1>1, <1>2 DEF ReturnConnect

LEMMA TypeInit == Init => TypeOK
  BY DEF Init, TypeOK, ConnectionStates, DISCONNECTED, SuspendedPCs, Outcomes

LEMMA TypeNext == TypeOK /\ [Next]_vars => TypeOK'
<1> SUFFICES ASSUME TypeOK, [Next]_vars
             PROVE  TypeOK'
  OBVIOUS
<1> USE DEF SuspendedPCs, RunningPCs, Outcomes, Raised, ConnectionStates
<1>1. ASSUME NEW t \in Tasks, LockGranted(t)
      PROVE  TypeOK'
  <2>1. Tail(lockQueue) \in Seq(Tasks)
    BY <1>1, HeadTailProperties DEF LockGranted, TypeOK
  <2> QED
    BY <1>1, <2>1, ContinueType DEF LockGranted, TypeOK, connectorVars
<1>2. ASSUME NEW t \in Tasks, AwaitedTaskEnds(t)
      PROVE  TypeOK'
  BY <1>2, TakeLockType, ReturnConnectType, FinishType
     DEF AwaitedTaskEnds, Suspended, connectorVars, lockVars, TypeOK
<1>3. ASSUME NEW t \in Tasks, ConnBody(t)
      PROVE  TypeOK'
  BY <1>3, ReturnConnectType, SuspendType, ContinueType
     DEF ConnBody, ReleaseLock, Transition, lockVars, CONNECTING, TypeOK
<1>4. ASSUME NEW t \in Tasks, OpenSucceeds(t)
      PROVE  TypeOK'
  BY <1>4, SuspendType
     DEF OpenSucceeds, lockVars, TypeOK
<1>5. ASSUME NEW t \in Tasks, SubscribeSucceeds(t)
      PROVE  TypeOK'
  BY <1>5, ReturnConnectType
     DEF SubscribeSucceeds, LeaveConnect, ReleaseLock, Transition, CONNECTED, TypeOK
<1>6. ASSUME NEW t \in Tasks, ConnectRaises(t)
      PROVE  TypeOK'
  BY <1>6, ContinueType
     DEF ConnectRaises, connectorVars, lockVars, TypeOK
<1>7. ASSUME NEW t \in Tasks, ConnFail(t)
      PROVE  TypeOK'
  BY <1>7, ReturnConnectType, SuspendType
     DEF ConnFail, LeaveConnect, ReleaseLock, Transition, lockVars, FAILED, TypeOK
<1>8. ASSUME NEW t \in Tasks, FailClosed(t)
      PROVE  TypeOK'
  BY <1>8, ReturnConnectType
     DEF FailClosed, LeaveConnect, ReleaseLock, TypeOK
<1>9. ASSUME NEW t \in Tasks, DiscBody(t)
      PROVE  TypeOK'
  BY <1>9, FinishType, SuspendType
     DEF DiscBody, FinishDisconnect, ReleaseLock, Transition, lockVars, DISCONNECTED, TypeOK
<1>10. ASSUME NEW t \in Tasks, DiscClosed(t)
      PROVE  TypeOK'
  BY <1>10, FinishType
     DEF DiscClosed, FinishDisconnect, ReleaseLock, Transition, DISCONNECTED, TypeOK
<1>11. ASSUME NEW t \in Tasks, CallConnect(t)
      PROVE  TypeOK'
  BY <1>11, TakeLockType, ReturnConnectType, SuspendType
     DEF CallConnect, Connect, connectorVars, lockVars, TypeOK
<1>12. ASSUME NEW t \in Tasks, CallDisconnect(t)
      PROVE  TypeOK'
  BY <1>12, TakeLockType, FinishType
     DEF CallDisconnect, connectorVars, lockVars, TypeOK
<1>13. ASSUME NEW t \in Tasks, EndCaller(t)
      PROVE  TypeOK'
  BY <1>13, FinishType
     DEF EndCaller, connectorVars, lockVars, TypeOK
<1>14. ASSUME NEW t \in Tasks, Cancel(t)
      PROVE  TypeOK'
  BY <1>14, FinishType
     DEF Cancel, connectorVars, TypeOK
<1>15. ASSUME NEW t \in Tasks, CancelQueued(t)
      PROVE  TypeOK'
  BY <1>15, FinishType, RemoveAtType
     DEF CancelQueued, connectorVars, TypeOK
<1>16. ASSUME StreamerConnect
      PROVE  TypeOK'
  BY <1>16, TakeLockType, ReturnConnectType, SuspendType
     DEF StreamerConnect, Connect, connectorVars, lockVars, TypeOK
<1>17. ASSUME StartStream
      PROVE  TypeOK'
  BY <1>17, ContinueType
     DEF StartStream, connectorVars, lockVars, TypeOK
<1>18. ASSUME Loop
      PROVE  TypeOK'
  BY <1>18, ContinueType
     DEF Loop, connectorVars, lockVars, TypeOK
<1>19. ASSUME Receive
      PROVE  TypeOK'
  BY <1>19, ContinueType, SuspendType
     DEF Receive, connectorVars, lockVars, TypeOK
<1>20. ASSUME RecvMessage
      PROVE  TypeOK'
  BY <1>20, ContinueType, SuspendType
     DEF RecvMessage, connectorVars, lockVars, TypeOK
<1>21. ASSUME RecvRaises
      PROVE  TypeOK'
  BY <1>21, ContinueType
     DEF RecvRaises, connectorVars, lockVars, TypeOK
<1>22. ASSUME ConsumerResumes
      PROVE  TypeOK'
  BY <1>22, ContinueType
     DEF ConsumerResumes, connectorVars, lockVars, TypeOK
<1>23. ASSUME ConsumerStops
      PROVE  TypeOK'
  BY <1>23, FinishType
     DEF ConsumerStops, connectorVars, lockVars, TypeOK
<1>24. ASSUME Handler
      PROVE  TypeOK'
  BY <1>24, ContinueType, SuspendType
     DEF Handler, lockVars, DISCONNECTED, RECONNECTING, TypeOK
<1>25. ASSUME HandClosed
      PROVE  TypeOK'
  BY <1>25, ContinueType
     DEF HandClosed, lockVars, TypeOK
<1>26. ASSUME Retry
      PROVE  TypeOK'
  <2>1. reconnectAttempts' \in Nat
    BY <1>26 DEF Retry, NextAttempt, TypeOK
  <2> QED
    BY <1>26, <2>1, SuspendType DEF Retry, lockVars, TypeOK
<1>27. ASSUME GiveUp
      PROVE  TypeOK'
  BY <1>27, FinishType
     DEF GiveUp, lockVars, FAILED, TypeOK
<1>28. ASSUME BackoffEnds
      PROVE  TypeOK'
  BY <1>28, ContinueType, FinishType
     DEF BackoffEnds, Transition, lockVars, DISCONNECTED, TypeOK
<1>29. ASSUME RetryFailed
      PROVE  TypeOK'
  BY <1>29, ContinueType
     DEF RetryFailed, Transition, lockVars, DISCONNECTED, TypeOK
<1>30. ASSUME NEW s \in Sockets, SocketCloses(s)
      PROVE  TypeOK'
  BY <1>30 DEF SocketCloses, connectorVars, lockVars, taskVars, TypeOK
<1>31. ASSUME UNCHANGED vars
      PROVE  TypeOK'
  BY <1>31 DEF vars, connectorVars, lockVars, taskVars, TypeOK
<1> QED
  BY <1>1, <1>2, <1>3, <1>4, <1>5, <1>6, <1>7, <1>8, <1>9, <1>10, <1>11, <1>12, <1>13, <1>14, <1>15, <1>16, <1>17, <1>18, <1>19, <1>20, <1>21, <1>22, <1>23, <1>24, <1>25, <1>26, <1>27, <1>28, <1>29, <1>30, <1>31
     DEF Next, ConnectStep, DisconnectStep, CallStep, StreamStep, ConsumerStep, Terminated

\* Every variable keeps to its type, whatever tasks use the connector.
THEOREM TypeCorrect == Spec => []TypeOK
  BY TypeInit, TypeNext, PTL DEF Spec

------------------------------------------------------------------------------
(* The lock and the attempt in flight.                                     *)

\* The inductive invariant: who is inside the lock is what says that no second
\* attempt can start while one is in flight.
LockInv ==
  /\ TypeOK
  /\ LockDiscipline
  /\ SingleFlight
  /\ NoFlightWhileConnected

LEMMA LockInit == Init => LockInv
  BY TypeInit, TasksAssumption
     DEF Init, LockInv, LockDiscipline, SingleFlight, NoFlightWhileConnected,
         CriticalPCs, FlightPCs, DISCONNECTED, CONNECTED

\* A task inside the lock that makes no attempt leaves no room for another
\* one: nobody is in flight.
LEMMA NoOtherFlight ==
  ASSUME LockInv, NEW t \in Tasks, pc[t] \in CriticalPCs \ FlightPCs
  PROVE  connectingTask = None
  BY TasksAssumption
     DEF LockInv, TypeOK, LockDiscipline, SingleFlight, CriticalPCs, FlightPCs

\* The four ways a step concerns the lock: a task moves outside of it,
\* enters, moves inside, or leaves.
LEMMA MoveOutside ==
  ASSUME LockInv, TypeOK', NEW t \in Tasks, NEW label, NEW awaited,
         pc[t] \notin CriticalPCs, label \notin CriticalPCs,
         Move(t, label, awaited),
         UNCHANGED <<connectLock, connectingTask>>,
         state' = CONNECTED => state = CONNECTED
  PROVE  LockInv'
  BY DEF LockInv, TypeOK, LockDiscipline, SingleFlight,
         NoFlightWhileConnected, CriticalPCs, FlightPCs, Move

LEMMA EnterLock ==
  ASSUME LockInv, TypeOK', NEW t \in Tasks, NEW label, NEW awaited,
         pc[t] \notin CriticalPCs, label \in CriticalPCs \ FlightPCs,
         connectLock = None, connectLock' = t,
         Move(t, label, awaited),
         UNCHANGED <<state, connectingTask>>
  PROVE  LockInv'
  BY TasksAssumption
     DEF LockInv, TypeOK, LockDiscipline, SingleFlight,
         NoFlightWhileConnected, CriticalPCs, FlightPCs, Move

LEMMA MoveInside ==
  ASSUME LockInv, TypeOK', NEW t \in Tasks, NEW label, NEW awaited,
         pc[t] \in CriticalPCs, label \in CriticalPCs,
         Move(t, label, awaited),
         UNCHANGED connectLock,
         IF label \in FlightPCs
           THEN connectingTask' = t /\ state' # CONNECTED
           ELSE pc[t] \notin FlightPCs /\ UNCHANGED connectingTask
  PROVE  LockInv'
<1>1. \A u \in Tasks : u # t => pc[u] \notin CriticalPCs /\ pc'[u] = pc[u]
  BY DEF LockInv, TypeOK, LockDiscipline, Move
<1>2. pc'[t] = label
  BY DEF LockInv, TypeOK, Move
<1>3. LockDiscipline'
  BY <1>1, <1>2 DEF LockInv, LockDiscipline
<1>4. CASE label \in FlightPCs
  BY <1>1, <1>2, <1>3, <1>4, TasksAssumption
     DEF LockInv, SingleFlight, NoFlightWhileConnected, CriticalPCs, FlightPCs
<1>5. CASE label \notin FlightPCs
  <2>1. connectingTask = None
    BY <1>5, NoOtherFlight
  <2> QED
    BY <1>1, <1>2, <1>3, <1>5, <2>1, TasksAssumption
       DEF LockInv, SingleFlight, NoFlightWhileConnected, CriticalPCs, FlightPCs
<1> QED
  BY <1>4, <1>5

LEMMA LeaveLock ==
  ASSUME LockInv, TypeOK', NEW t \in Tasks, NEW label, NEW awaited,
         pc[t] \in CriticalPCs, label \notin CriticalPCs,
         Move(t, label, awaited),
         connectLock' = None,
         connectingTask' = None
  PROVE  LockInv'
<1>1. \A u \in Tasks : u # t => pc[u] \notin CriticalPCs /\ pc'[u] = pc[u]
  BY DEF LockInv, TypeOK, LockDiscipline, Move
<1>2. pc'[t] = label
  BY DEF LockInv, TypeOK, Move
<1> QED
  BY <1>1, <1>2, TasksAssumption
     DEF LockInv, LockDiscipline, SingleFlight, NoFlightWhileConnected,
         CriticalPCs, FlightPCs

\* What an acquisition and the end of connect() do, in these terms.
LEMMA TakeLockStep ==
  ASSUME LockInv, TypeOK', NEW t \in Tasks,
         pc[t] \notin CriticalPCs,
         NEW granted \in CriticalPCs \ FlightPCs,
         NEW queued, queued \notin CriticalPCs,
         TakeLock(t, granted, queued),
         UNCHANGED <<state, connectingTask>>
  PROVE  LockInv'
<1>1. CASE connectLock = None /\ connectLock' = t /\ Continue(t, granted)
  BY <1>1, EnterLock DEF Continue
<1>2. CASE Suspend(t, queued, None) /\ UNCHANGED connectLock
  BY <1>2, MoveOutside DEF Suspend
<1> QED
  BY <1>1, <1>2 DEF TakeLock

LEMMA ReturnMoves ==
  ASSUME NEW t, NEW result, ReturnConnect(t, result)
  PROVE  \E label \in {"idle", "receive", "handler", "loop", "retryFailed"} :
           Move(t, label, None)
  BY DEF ReturnConnect, Finish, Continue

LEMMA LeaveConnectStep ==
  ASSUME LockInv, TypeOK', NEW t \in Tasks, NEW result,
         pc[t] \in CriticalPCs, LeaveConnect(t, result)
  PROVE  LockInv'
  BY ReturnMoves, LeaveLock DEF LeaveConnect, ReleaseLock, CriticalPCs

LEMMA LockNext == LockInv /\ [Next]_vars => LockInv'
<1> SUFFICES ASSUME LockInv, [Next]_vars
             PROVE  LockInv'
  OBVIOUS
<1>0. TypeOK /\ TypeOK'
  BY TypeNext DEF LockInv
<1>1. ASSUME NEW t \in Tasks, LockGranted(t)
      PROVE  LockInv'
  BY <1>0, <1>1, EnterLock
     DEF LockGranted, Continue, connectorVars, CriticalPCs, FlightPCs
<1>2. ASSUME NEW t \in Tasks, AwaitedTaskEnds(t)
      PROVE  LockInv'
  <2>1. CASE ReturnConnect(t, "ok") /\ UNCHANGED lockVars
    BY <1>0, <1>2, <2>1, ReturnMoves, MoveOutside
       DEF AwaitedTaskEnds, Suspended, connectorVars, lockVars, CriticalPCs
  <2>2. CASE TakeLock(t, "connBody", "connLock")
    BY <1>0, <1>2, <2>2, TakeLockStep
       DEF AwaitedTaskEnds, Suspended, connectorVars, CriticalPCs, FlightPCs
  <2>3. CASE Finish(t, "done", "cancelled") /\ UNCHANGED lockVars
    BY <1>0, <1>2, <2>3, MoveOutside
       DEF AwaitedTaskEnds, Suspended, Finish, connectorVars, lockVars, CriticalPCs
  <2> QED
    BY <1>2, <2>1, <2>2, <2>3 DEF AwaitedTaskEnds
<1>3. ASSUME NEW t \in Tasks, ConnBody(t)
      PROVE  LockInv'
  <2>1. pc[t] \in CriticalPCs \ FlightPCs
    BY <1>3 DEF ConnBody, At, CriticalPCs, FlightPCs
  <2>2. CASE ReturnConnect(t, "ok") /\ ReleaseLock /\ UNCHANGED connectingTask
    BY <1>0, <2>1, <2>2, NoOtherFlight, ReturnMoves, LeaveLock
       DEF ReleaseLock, CriticalPCs
  <2>3. CASE /\ state' = CONNECTING
             /\ connectingTask' = t
             /\ Suspend(t, "opening", None)
             /\ UNCHANGED lockVars
    BY <1>0, <2>1, <2>3, MoveInside
       DEF Suspend, lockVars, CriticalPCs, FlightPCs, CONNECTING, CONNECTED
  <2>4. CASE /\ state # CONNECTED
             /\ connectingTask' = t
             /\ Continue(t, "connFail")
             /\ UNCHANGED <<state, lockVars>>
    BY <1>0, <2>1, <2>4, MoveInside
       DEF Continue, lockVars, CriticalPCs, FlightPCs
  <2> QED
    BY <1>3, <2>2, <2>3, <2>4 DEF ConnBody, Transition
<1>4. ASSUME NEW t \in Tasks, OpenSucceeds(t)
      PROVE  LockInv'
  <2>1. connectingTask = t /\ state # CONNECTED
    BY <1>0, <1>4, TasksAssumption
       DEF OpenSucceeds, Suspended, At, LockInv, SingleFlight, NoFlightWhileConnected, FlightPCs
  <2> QED
    BY <1>0, <1>4, <2>1, MoveInside
       DEF OpenSucceeds, Suspended, Suspend, lockVars, CriticalPCs, FlightPCs
<1>5. ASSUME NEW t \in Tasks, SubscribeSucceeds(t)
      PROVE  LockInv'
  BY <1>0, <1>5, LeaveConnectStep
     DEF SubscribeSucceeds, Suspended, CriticalPCs
<1>6. ASSUME NEW t \in Tasks, ConnectRaises(t)
      PROVE  LockInv'
  <2>1. connectingTask = t /\ state # CONNECTED
    BY <1>0, <1>6, TasksAssumption
       DEF ConnectRaises, Suspended, At, LockInv, SingleFlight, NoFlightWhileConnected, FlightPCs
  <2> QED
    BY <1>0, <1>6, <2>1, MoveInside
       DEF ConnectRaises, Continue, connectorVars, lockVars, CriticalPCs, FlightPCs
<1>7. ASSUME NEW t \in Tasks, ConnFail(t)
      PROVE  LockInv'
  <2>1. connectingTask = t /\ state # CONNECTED
    BY <1>0, <1>7, TasksAssumption
       DEF ConnFail, Suspended, At, LockInv, SingleFlight, NoFlightWhileConnected, FlightPCs
  <2>2. CASE /\ Suspend(t, "failClose", websocket)
             /\ UNCHANGED <<lockVars, connectingTask>>
    BY <1>0, <1>7, <2>1, <2>2, MoveInside
       DEF ConnFail, At, Transition, Suspend, lockVars, CriticalPCs, FlightPCs,
           FAILED, CONNECTED
  <2>3. CASE LeaveConnect(t, "failed")
    BY <1>0, <1>7, <2>3, LeaveConnectStep DEF ConnFail, At, CriticalPCs
  <2> QED
    BY <1>7, <2>2, <2>3 DEF ConnFail
<1>8. ASSUME NEW t \in Tasks, FailClosed(t)
      PROVE  LockInv'
  BY <1>0, <1>8, LeaveConnectStep
     DEF FailClosed, Suspended, CriticalPCs
<1>9. ASSUME NEW t \in Tasks, DiscBody(t)
      PROVE  LockInv'
  <2>1. connectingTask = None /\ pc[t] \in CriticalPCs
    BY <1>9, NoOtherFlight DEF DiscBody, At, Suspended, CriticalPCs, FlightPCs
  <2>2. CASE Suspend(t, "discClose", websocket) /\ UNCHANGED <<state, lockVars>>
    BY <1>0, <1>9, <2>1, <2>2, MoveInside
       DEF DiscBody, At, Suspend, lockVars, CriticalPCs, FlightPCs
  <2>3. CASE ReleaseLock /\ \E result \in Outcomes : Finish(t, "idle", result)
    BY <1>0, <1>9, <2>1, <2>3, LeaveLock
       DEF DiscBody, ReleaseLock, Finish, CriticalPCs
  <2> QED
    BY <1>9, <2>2, <2>3 DEF DiscBody, FinishDisconnect, Outcomes
<1>10. ASSUME NEW t \in Tasks, DiscClosed(t)
      PROVE  LockInv'
  <2>1. connectingTask = None /\ pc[t] \in CriticalPCs
    BY <1>10, NoOtherFlight DEF DiscClosed, At, Suspended, CriticalPCs, FlightPCs
  <2> QED
    BY <1>0, <1>10, <2>1, LeaveLock
       DEF DiscClosed, FinishDisconnect, ReleaseLock, Finish, CriticalPCs
<1>11. ASSUME NEW t \in Tasks, CallConnect(t)
      PROVE  LockInv'
  <2>1. CASE ReturnConnect(t, "ok") /\ UNCHANGED lockVars
    BY <1>0, <1>11, <2>1, ReturnMoves, MoveOutside
       DEF CallConnect, Suspended, Connect, connectorVars, lockVars, CriticalPCs
  <2>2. CASE Suspend(t, "awaitTask", connectingTask) /\ UNCHANGED lockVars
    BY <1>0, <1>11, <2>2, MoveOutside
       DEF CallConnect, Suspended, Connect, Suspend, connectorVars, lockVars, CriticalPCs
  <2>3. CASE TakeLock(t, "connBody", "connLock")
    BY <1>0, <1>11, <2>3, TakeLockStep
       DEF CallConnect, Suspended, Connect, connectorVars, CriticalPCs, FlightPCs
  <2> QED
    BY <1>11, <2>1, <2>2, <2>3 DEF CallConnect, Connect
<1>12. ASSUME NEW t \in Tasks, CallDisconnect(t)
      PROVE  LockInv'
  <2>1. CASE Finish(t, "idle", "ok") /\ UNCHANGED lockVars
    BY <1>0, <1>12, <2>1, MoveOutside
       DEF CallDisconnect, Suspended, Finish, connectorVars, lockVars, CriticalPCs
  <2>2. CASE TakeLock(t, "discBody", "discLock")
    BY <1>0, <1>12, <2>2, TakeLockStep
       DEF CallDisconnect, Suspended, connectorVars, CriticalPCs, FlightPCs
  <2> QED
    BY <1>12, <2>1, <2>2 DEF CallDisconnect
<1>13. ASSUME NEW t \in Tasks, EndCaller(t)
      PROVE  LockInv'
  BY <1>0, <1>13, MoveOutside
     DEF EndCaller, Suspended, Finish, connectorVars, lockVars, CriticalPCs
<1>14. ASSUME NEW t \in Tasks, Cancel(t)
      PROVE  LockInv'
  <2>1. CASE pc[t] \in CriticalPCs
    <3>1. connectLock = t /\ connectingTask \in {t, None}
      BY <2>1, NoOtherFlight DEF LockInv, LockDiscipline, SingleFlight
    <3> QED
      BY <1>0, <1>14, <2>1, <3>1, LeaveLock DEF Cancel, Finish, CriticalPCs
  <2>2. CASE pc[t] \notin CriticalPCs
    <3>1. connectLock # t /\ connectingTask # t
      BY <2>2 DEF LockInv, LockDiscipline, SingleFlight, CriticalPCs, FlightPCs
    <3> QED
      BY <1>0, <1>14, <2>2, <3>1, MoveOutside
         DEF Cancel, Finish, connectorVars, CriticalPCs
  <2> QED
    BY <2>1, <2>2
<1>15. ASSUME NEW t \in Tasks, CancelQueued(t)
      PROVE  LockInv'
  BY <1>0, <1>15, MoveOutside
     DEF CancelQueued, Finish, connectorVars, CriticalPCs
<1>16. ASSUME StreamerConnect
      PROVE  LockInv'
  <2>1. CASE ReturnConnect(Streamer, "ok") /\ UNCHANGED lockVars
    BY <1>0, <1>16, <2>1, ReturnMoves, MoveOutside
       DEF StreamerConnect, At, Connect, connectorVars, lockVars, CriticalPCs
  <2>2. CASE Suspend(Streamer, "awaitTask", connectingTask) /\ UNCHANGED lockVars
    BY <1>0, <1>16, <2>2, MoveOutside
       DEF StreamerConnect, At, Connect, Suspend, connectorVars, lockVars, CriticalPCs
  <2>3. CASE TakeLock(Streamer, "connBody", "connLock")
    BY <1>0, <1>16, <2>3, TakeLockStep
       DEF StreamerConnect, At, Connect, connectorVars, CriticalPCs, FlightPCs
  <2> QED
    BY <1>16, <2>1, <2>2, <2>3 DEF StreamerConnect, Connect
<1>17. ASSUME StartStream
      PROVE  LockInv'
  BY <1>0, <1>17, MoveOutside
     DEF StartStream, Suspended, Continue, connectorVars, lockVars, CriticalPCs
<1>18. ASSUME Loop
      PROVE  LockInv'
  BY <1>0, <1>18, MoveOutside
     DEF Loop, At, Continue, connectorVars, lockVars, CriticalPCs
<1>19. ASSUME Receive
      PROVE  LockInv'
  BY <1>0, <1>19, MoveOutside
     DEF Receive, At, Continue, Suspend, connectorVars, lockVars, CriticalPCs
<1>20. ASSUME RecvMessage
      PROVE  LockInv'
  BY <1>0, <1>20, MoveOutside
     DEF RecvMessage, Suspended, Continue, Suspend, connectorVars, lockVars, CriticalPCs
<1>21. ASSUME RecvRaises
      PROVE  LockInv'
  BY <1>0, <1>21, MoveOutside
     DEF RecvRaises, Suspended, Continue, connectorVars, lockVars, CriticalPCs
<1>22. ASSUME ConsumerResumes
      PROVE  LockInv'
  BY <1>0, <1>22, MoveOutside
     DEF ConsumerResumes, Suspended, Continue, connectorVars, lockVars, CriticalPCs
<1>23. ASSUME ConsumerStops
      PROVE  LockInv'
  BY <1>0, <1>23, MoveOutside
     DEF ConsumerStops, Suspended, Finish, connectorVars, lockVars, CriticalPCs
<1>24. ASSUME Handler
      PROVE  LockInv'
  BY <1>0, <1>24, MoveOutside
     DEF Handler, At, Continue, Suspend, lockVars, CONNECTED, RECONNECTING, DISCONNECTED, CriticalPCs
<1>25. ASSUME HandClosed
      PROVE  LockInv'
  BY <1>0, <1>25, MoveOutside
     DEF HandClosed, Suspended, Continue, lockVars, CriticalPCs
<1>26. ASSUME Retry
      PROVE  LockInv'
  BY <1>0, <1>26, MoveOutside
     DEF Retry, At, Suspend, lockVars, CriticalPCs
<1>27. ASSUME GiveUp
      PROVE  LockInv'
  BY <1>0, <1>27, MoveOutside
     DEF GiveUp, At, Finish, lockVars, FAILED, CONNECTED, CriticalPCs
<1>28. ASSUME BackoffEnds
      PROVE  LockInv'
  BY <1>0, <1>28, MoveOutside
     DEF BackoffEnds, Suspended, Continue, Finish, Transition, lockVars, DISCONNECTED, CONNECTED, CriticalPCs
<1>29. ASSUME RetryFailed
      PROVE  LockInv'
  BY <1>0, <1>29, MoveOutside
     DEF RetryFailed, At, Continue, Transition, lockVars, DISCONNECTED, CONNECTED, CriticalPCs
<1>30. ASSUME NEW s \in Sockets, SocketCloses(s)
      PROVE  LockInv'
  BY <1>0, <1>30
     DEF SocketCloses, connectorVars, lockVars, taskVars, LockInv,
         LockDiscipline, SingleFlight, NoFlightWhileConnected
<1>31. ASSUME UNCHANGED vars
      PROVE  LockInv'
  BY <1>0, <1>31
     DEF vars, connectorVars, lockVars, taskVars, LockInv,
         LockDiscipline, SingleFlight, NoFlightWhileConnected
<1> QED
  BY <1>1, <1>2, <1>3, <1>4, <1>5, <1>6, <1>7, <1>8, <1>9, <1>10, <1>11,
     <1>12, <1>13, <1>14, <1>15, <1>16, <1>17, <1>18, <1>19, <1>20, <1>21,
     <1>22, <1>23, <1>24, <1>25, <1>26, <1>27, <1>28, <1>29, <1>30, <1>31
     DEF Next, ConnectStep, DisconnectStep, CallStep, StreamStep, ConsumerStep,
         Terminated

THEOREM LockInvariant == Spec => []LockInv
  BY LockInit, LockNext, PTL DEF Spec

\* connect() and disconnect() exclude each other and leave the lock on every
\* exit, cancellation included.
THEOREM LockSafe == Spec => []LockDiscipline
  BY LockInvariant, PTL DEF LockInv

\* At most one attempt is in flight, and _connecting_task names it.
THEOREM SingleFlightSafe == Spec => []SingleFlight
  BY LockInvariant, PTL DEF LockInv

\* No attempt is in flight while the connection is up.
THEOREM ConnectedIsQuiet == Spec => []NoFlightWhileConnected
  BY LockInvariant, PTL DEF LockInv

\* The second look at _connecting_task, under the lock, is dead code.
THEOREM DoubleCheckIsDead == Spec => []DoubleCheckUnreachable
<1>1. LockInv => DoubleCheckUnreachable
  BY NoOtherFlight DEF DoubleCheckUnreachable, CriticalPCs, FlightPCs
<1> QED
  BY <1>1, LockInvariant, PTL

------------------------------------------------------------------------------
(* Tasks that await tasks.                                                 *)

Waiting == {t \in Tasks : pc[t] = "awaitTask"}

\* A step that makes nobody wait, and leaves alone what the waiting tasks
\* await, makes no cycle.
LEMMA NoNewWaiter ==
  ASSUME TypeOK, NoAwaitCycle, NEW t \in Tasks, NEW label, NEW awaited,
         label # "awaitTask", Move(t, label, awaited)
  PROVE  NoAwaitCycle'
<1>1. SUFFICES ASSUME NEW S \in SUBSET Waiting', S # {}
               PROVE  \E u \in S : awaits'[u] \notin S
  BY DEF NoAwaitCycle, Waiting
<1>2. t \notin S /\ S \in SUBSET Waiting
  BY <1>1 DEF TypeOK, Move, Waiting
<1>3. PICK u \in S : awaits[u] \notin S
  BY <1>1, <1>2 DEF NoAwaitCycle, Waiting
<1>4. awaits'[u] = awaits[u]
  BY <1>2, <1>3 DEF TypeOK, Move, Waiting
<1> QED
  BY <1>3, <1>4

\* Waiting for a task that does not wait closes no cycle either.
LEMMA WaiterAwaitsRunner ==
  ASSUME TypeOK, NoAwaitCycle, NEW t \in Tasks, NEW u \in Tasks,
         pc[t] # "awaitTask", pc[u] # "awaitTask", u # t,
         Move(t, "awaitTask", u)
  PROVE  NoAwaitCycle'
<1>1. SUFFICES ASSUME NEW S \in SUBSET Waiting', S # {}
               PROVE  \E v \in S : awaits'[v] \notin S
  BY DEF NoAwaitCycle, Waiting
<1>2. u \notin S /\ \A v \in S \ {t} : awaits'[v] = awaits[v]
  BY <1>1 DEF TypeOK, Move, Waiting
<1>3. CASE t \in S
  BY <1>2, <1>3 DEF TypeOK, Move
<1>4. CASE t \notin S
  <2>1. S \in SUBSET Waiting
    BY <1>1, <1>4 DEF TypeOK, Move, Waiting
  <2>2. PICK v \in S : awaits[v] \notin S
    BY <1>1, <2>1 DEF NoAwaitCycle, Waiting
  <2> QED
    BY <1>2, <1>4, <2>2
<1> QED
  BY <1>3, <1>4

\* Only connect() makes a task wait for a task, and every other step moves
\* one task elsewhere, or none.
LEMMA StepMoves ==
  ASSUME Next
  PROVE  \/ \E t \in Tasks, label \in (SuspendedPCs \cup RunningPCs) \ {"awaitTask"} :
              \E awaited : Move(t, label, awaited)
         \/ \E t \in Tasks :
              /\ pc[t] # "awaitTask"
              /\ connectingTask # None
              /\ pc[t] \notin FlightPCs
              /\ Move(t, "awaitTask", connectingTask)
         \/ UNCHANGED <<pc, awaits>>
<1> DEFINE Elsewhere ==
             \E t \in Tasks, label \in (SuspendedPCs \cup RunningPCs) \ {"awaitTask"} :
               \E awaited : Move(t, label, awaited)
           Waits ==
             \E t \in Tasks :
               /\ pc[t] # "awaitTask"
               /\ connectingTask # None
               /\ pc[t] \notin FlightPCs
               /\ Move(t, "awaitTask", connectingTask)
<1> USE DEF SuspendedPCs, RunningPCs
<1>1. ASSUME NEW t \in Tasks, NEW label, NEW awaited, Move(t, label, awaited),
             label \in (SuspendedPCs \cup RunningPCs) \ {"awaitTask"}
      PROVE  Elsewhere
  BY <1>1
<1>2. ASSUME NEW t \in Tasks, NEW granted, NEW queued, TakeLock(t, granted, queued),
             granted \in RunningPCs, queued \in {"connLock", "discLock"}
      PROVE  Elsewhere
  BY <1>1, <1>2 DEF TakeLock, Continue, Suspend
<1>3. ASSUME NEW t \in Tasks, NEW result, ReturnConnect(t, result)
      PROVE  Elsewhere
  <2>1. PICK label \in {"idle", "receive", "handler", "loop", "retryFailed"} :
          Move(t, label, None)
    BY <1>3, ReturnMoves
  <2> QED
    BY <1>1, <2>1
<1>4. ASSUME NEW t \in Tasks, Connect(t), pc[t] \in {"idle", "connect"}
      PROVE  Elsewhere \/ Waits
  BY <1>2, <1>3, <1>4 DEF Connect, Suspend, FlightPCs
<1>5. ASSUME NEW t \in Tasks, LockGranted(t)
      PROVE  Elsewhere \/ Waits
  BY <1>1, <1>2, <1>3, <1>4, <1>5 DEF LockGranted, Continue
<1>6. ASSUME NEW t \in Tasks, AwaitedTaskEnds(t)
      PROVE  Elsewhere \/ Waits
  BY <1>1, <1>2, <1>3, <1>4, <1>6 DEF AwaitedTaskEnds, Finish
<1>7. ASSUME NEW t \in Tasks, ConnBody(t)
      PROVE  Elsewhere \/ Waits
  BY <1>1, <1>2, <1>3, <1>4, <1>7 DEF ConnBody, Suspend, Continue
<1>8. ASSUME NEW t \in Tasks, OpenSucceeds(t)
      PROVE  Elsewhere \/ Waits
  BY <1>1, <1>2, <1>3, <1>4, <1>8 DEF OpenSucceeds, Suspend
<1>9. ASSUME NEW t \in Tasks, SubscribeSucceeds(t)
      PROVE  Elsewhere \/ Waits
  BY <1>1, <1>2, <1>3, <1>4, <1>9 DEF SubscribeSucceeds, LeaveConnect
<1>10. ASSUME NEW t \in Tasks, ConnectRaises(t)
      PROVE  Elsewhere \/ Waits
  BY <1>1, <1>2, <1>3, <1>4, <1>10 DEF ConnectRaises, Continue
<1>11. ASSUME NEW t \in Tasks, ConnFail(t)
      PROVE  Elsewhere \/ Waits
  BY <1>1, <1>2, <1>3, <1>4, <1>11 DEF ConnFail, Suspend, LeaveConnect
<1>12. ASSUME NEW t \in Tasks, FailClosed(t)
      PROVE  Elsewhere \/ Waits
  BY <1>1, <1>2, <1>3, <1>4, <1>12 DEF FailClosed, LeaveConnect
<1>13. ASSUME NEW t \in Tasks, DiscBody(t)
      PROVE  Elsewhere \/ Waits
  BY <1>1, <1>2, <1>3, <1>4, <1>13 DEF DiscBody, Suspend, FinishDisconnect, Finish
<1>14. ASSUME NEW t \in Tasks, DiscClosed(t)
      PROVE  Elsewhere \/ Waits
  BY <1>1, <1>2, <1>3, <1>4, <1>14 DEF DiscClosed, FinishDisconnect, Finish
<1>15. ASSUME NEW t \in Tasks, CallConnect(t)
      PROVE  Elsewhere \/ Waits
  BY <1>1, <1>2, <1>3, <1>4, <1>15 DEF CallConnect, Suspended
<1>16. ASSUME NEW t \in Tasks, CallDisconnect(t)
      PROVE  Elsewhere \/ Waits
  BY <1>1, <1>2, <1>3, <1>4, <1>16 DEF CallDisconnect, Finish
<1>17. ASSUME NEW t \in Tasks, EndCaller(t)
      PROVE  Elsewhere \/ Waits
  BY <1>1, <1>2, <1>3, <1>4, <1>17 DEF EndCaller, Finish
<1>18. ASSUME NEW t \in Tasks, Cancel(t)
      PROVE  Elsewhere \/ Waits
  BY <1>1, <1>2, <1>3, <1>4, <1>18 DEF Cancel, Finish
<1>19. ASSUME NEW t \in Tasks, CancelQueued(t)
      PROVE  Elsewhere \/ Waits
  BY <1>1, <1>2, <1>3, <1>4, <1>19 DEF CancelQueued, Finish
<1>20. ASSUME StreamStep \/ ConsumerStep
      PROVE  Elsewhere \/ Waits
  <2>1. CASE StreamerConnect
    BY <1>4, <2>1 DEF StreamerConnect, At
  <2>2. CASE ConsumerStep \/ Loop \/ Receive \/ Handler \/ HandClosed
    BY <1>1, <2>2
       DEF ConsumerStep, StartStream, RecvMessage, RecvRaises, ConsumerResumes,
           ConsumerStops, Loop, Receive, Handler, HandClosed, Continue, Suspend,
           Finish
  <2>3. CASE Retry \/ GiveUp \/ BackoffEnds \/ RetryFailed
    BY <1>1, <2>3
       DEF Retry, GiveUp, BackoffEnds, RetryFailed, Continue, Suspend, Finish
  <2> QED
    BY <1>20, <2>1, <2>2, <2>3 DEF StreamStep
<1>21. ASSUME \/ \E s \in Sockets : SocketCloses(s)
             \/ Terminated
      PROVE  UNCHANGED <<pc, awaits>>
  BY <1>21 DEF SocketCloses, Terminated, vars, taskVars
<1> QED
  BY <1>5, <1>6, <1>7, <1>8, <1>9, <1>10, <1>11, <1>12, <1>13, <1>14, <1>15,
     <1>16, <1>17, <1>18, <1>19, <1>20, <1>21
     DEF Next, ConnectStep, DisconnectStep, CallStep

LEMMA AwaitNext == LockInv /\ NoAwaitCycle /\ [Next]_vars => NoAwaitCycle'
<1> SUFFICES ASSUME LockInv, NoAwaitCycle, [Next]_vars
             PROVE  NoAwaitCycle'
  OBVIOUS
<1>1. CASE UNCHANGED <<pc, awaits>>
  BY <1>1 DEF NoAwaitCycle
<1>2. ASSUME NEW t \in Tasks,
             NEW label \in (SuspendedPCs \cup RunningPCs) \ {"awaitTask"},
             NEW awaited, Move(t, label, awaited)
      PROVE  NoAwaitCycle'
  BY <1>2, NoNewWaiter DEF LockInv
<1>3. ASSUME NEW t \in Tasks, pc[t] # "awaitTask", connectingTask # None,
             pc[t] \notin FlightPCs, Move(t, "awaitTask", connectingTask)
      PROVE  NoAwaitCycle'
  <2>1. connectingTask \in Tasks /\ pc[connectingTask] \in FlightPCs
    BY <1>3 DEF LockInv, TypeOK, SingleFlight
  <2> QED
    BY <1>3, <2>1, WaiterAwaitsRunner DEF LockInv, FlightPCs
<1>4. CASE UNCHANGED vars
  BY <1>1, <1>4 DEF vars, taskVars
<1> QED
  BY <1>1, <1>2, <1>3, <1>4, StepMoves

\* However many tasks join attempts of other tasks, they never wait for each
\* other in a circle.
THEOREM AwaitsAcyclic == Spec => []NoAwaitCycle
<1>1. Init => NoAwaitCycle
  BY DEF Init, NoAwaitCycle
<1> QED
  BY <1>1, AwaitNext, LockInvariant, PTL DEF Spec

------------------------------------------------------------------------------
(* The state under an attempt.                                             *)

\* Only the task that has control is between two awaits.
RunningOnly == \A t \in Tasks : pc[t] \in RunningPCs => running = t

\* While an attempt opens and subscribes the state is CONNECTING, unless the
\* stream has given up meanwhile, and ended.
Flying ==
  \A t \in Tasks :
    pc[t] \in {"opening", "subscribing"} =>
      state = CONNECTING \/ (state = FAILED /\ pc[Streamer] = "done")

\* An attempt fails from a state FAILED can be reached from.
Failing ==
  \A t \in Tasks :
    pc[t] = "connFail" => state \in {CONNECTING, FAILED, RECONNECTING}

\* Between its own failure and its next attempt the stream finds FAILED.
StreamFails ==
  pc[Streamer] \in {"failClose", "retryFailed"} => state = FAILED

AttemptInv ==
  /\ LockInv
  /\ RunningOnly
  /\ Flying
  /\ Failing
  /\ StreamFails

\* Whoever is inside the lock is there alone.
LEMMA Alone ==
  ASSUME LockInv, NEW t \in Tasks, NEW u \in Tasks,
         pc[t] \in CriticalPCs, pc[u] \in CriticalPCs
  PROVE  t = u
  BY DEF LockInv, LockDiscipline

LEMMA AttemptInit == Init => AttemptInv
  BY LockInit
     DEF Init, AttemptInv, RunningOnly, Flying, Failing, StreamFails, RunningPCs

\* After a move of one task, the points of all tasks.
LEMMA Moved ==
  ASSUME TypeOK, NEW t \in Tasks, NEW label, NEW awaited,
         Move(t, label, awaited)
  PROVE  /\ pc'[t] = label
         /\ awaits'[t] = awaited
         /\ \A u \in Tasks \ {t} : pc'[u] = pc[u] /\ awaits'[u] = awaits[u]
  BY DEF TypeOK, Move

\* Control: a step is the move of a task that has control, or could have it,
\* and keeps control exactly at the points between two awaits.
LEMMA ControlStep ==
  ASSUME TypeOK, RunningOnly, NEW t \in Tasks, NEW label, NEW awaited,
         Move(t, label, awaited), running \in {t, None},
         \/ running' = t
         \/ running' = None /\ label \notin RunningPCs
  PROVE  RunningOnly'
  BY Moved, TasksAssumption DEF RunningOnly, TypeOK

LEMMA RunningNext == TypeOK /\ RunningOnly /\ [Next]_vars => RunningOnly'
<1> SUFFICES ASSUME TypeOK, RunningOnly, [Next]_vars
             PROVE  RunningOnly'
  OBVIOUS
<1> USE ControlStep DEF Continue, Suspend, Finish, RunningPCs
<1>1. ASSUME NEW t \in Tasks, LockGranted(t)
      PROVE  RunningOnly'
  BY <1>1 DEF LockGranted
<1>2. ASSUME NEW t \in Tasks, AwaitedTaskEnds(t)
      PROVE  RunningOnly'
  BY <1>2 DEF AwaitedTaskEnds, Suspended, ReturnConnect, TakeLock
<1>3. ASSUME NEW t \in Tasks, ConnBody(t)
      PROVE  RunningOnly'
  BY <1>3 DEF ConnBody, At, ReturnConnect, ReleaseLock
<1>4. ASSUME NEW t \in Tasks, OpenSucceeds(t)
      PROVE  RunningOnly'
  BY <1>4 DEF OpenSucceeds, Suspended
<1>5. ASSUME NEW t \in Tasks, SubscribeSucceeds(t)
      PROVE  RunningOnly'
  BY <1>5
     DEF SubscribeSucceeds, Suspended, LeaveConnect, ReleaseLock,
         ReturnConnect
<1>6. ASSUME NEW t \in Tasks, ConnectRaises(t)
      PROVE  RunningOnly'
  BY <1>6 DEF ConnectRaises
<1>7. ASSUME NEW t \in Tasks, ConnFail(t)
      PROVE  RunningOnly'
  BY <1>7 DEF ConnFail, At, LeaveConnect, ReleaseLock, ReturnConnect
<1>8. ASSUME NEW t \in Tasks, FailClosed(t)
      PROVE  RunningOnly'
  BY <1>8 DEF FailClosed, Suspended, LeaveConnect, ReleaseLock, ReturnConnect
<1>9. ASSUME NEW t \in Tasks, DiscBody(t)
      PROVE  RunningOnly'
  BY <1>9 DEF DiscBody, At, FinishDisconnect
<1>10. ASSUME NEW t \in Tasks, DiscClosed(t)
      PROVE  RunningOnly'
  BY <1>10 DEF DiscClosed, Suspended, FinishDisconnect
<1>11. ASSUME NEW t \in Tasks, CallConnect(t)
      PROVE  RunningOnly'
  BY <1>11 DEF CallConnect, Suspended, Connect, ReturnConnect, TakeLock
<1>12. ASSUME NEW t \in Tasks, CallDisconnect(t)
      PROVE  RunningOnly'
  BY <1>12 DEF CallDisconnect, Suspended, TakeLock
<1>13. ASSUME NEW t \in Tasks, EndCaller(t)
      PROVE  RunningOnly'
  BY <1>13 DEF EndCaller, Suspended
<1>14. ASSUME NEW t \in Tasks, Cancel(t)
      PROVE  RunningOnly'
  BY <1>14 DEF Cancel
<1>15. ASSUME NEW t \in Tasks, CancelQueued(t)
      PROVE  RunningOnly'
  BY <1>15 DEF CancelQueued
<1>16. ASSUME StreamerConnect
      PROVE  RunningOnly'
  BY <1>16 DEF StreamerConnect, At, Connect, ReturnConnect, TakeLock
<1>17. ASSUME StartStream
      PROVE  RunningOnly'
  BY <1>17 DEF StartStream, Suspended
<1>18. ASSUME Loop
      PROVE  RunningOnly'
  BY <1>18 DEF Loop, At
<1>19. ASSUME Receive
      PROVE  RunningOnly'
  BY <1>19 DEF Receive, At
<1>20. ASSUME RecvMessage
      PROVE  RunningOnly'
  BY <1>20 DEF RecvMessage, Suspended
<1>21. ASSUME RecvRaises
      PROVE  RunningOnly'
  BY <1>21 DEF RecvRaises, Suspended
<1>22. ASSUME ConsumerResumes
      PROVE  RunningOnly'
  BY <1>22 DEF ConsumerResumes, Suspended
<1>23. ASSUME ConsumerStops
      PROVE  RunningOnly'
  BY <1>23 DEF ConsumerStops, Suspended
<1>24. ASSUME Handler
      PROVE  RunningOnly'
  BY <1>24 DEF Handler, At
<1>25. ASSUME HandClosed
      PROVE  RunningOnly'
  BY <1>25 DEF HandClosed, Suspended
<1>26. ASSUME Retry
      PROVE  RunningOnly'
  BY <1>26 DEF Retry, At
<1>27. ASSUME GiveUp
      PROVE  RunningOnly'
  BY <1>27 DEF GiveUp, At
<1>28. ASSUME BackoffEnds
      PROVE  RunningOnly'
  BY <1>28 DEF BackoffEnds, Suspended
<1>29. ASSUME RetryFailed
      PROVE  RunningOnly'
  BY <1>29 DEF RetryFailed, At
<1>30. ASSUME UNCHANGED <<running, pc>>
      PROVE  RunningOnly'
  BY <1>30 DEF RunningOnly
<1> QED
  BY <1>1, <1>2, <1>3, <1>4, <1>5, <1>6, <1>7, <1>8, <1>9, <1>10, <1>11,
     <1>12, <1>13, <1>14, <1>15, <1>16, <1>17, <1>18, <1>19, <1>20, <1>21,
     <1>22, <1>23, <1>24, <1>25, <1>26, <1>27, <1>28, <1>29, <1>30
     DEF Next, ConnectStep, DisconnectStep, CallStep, StreamStep, ConsumerStep,
         SocketCloses, Terminated, vars, taskVars

LEMMA AttemptNext == AttemptInv /\ [Next]_vars => AttemptInv'
<1> SUFFICES ASSUME AttemptInv, [Next]_vars
             PROVE  Flying' /\ Failing' /\ StreamFails'
  BY LockNext, RunningNext DEF AttemptInv, LockInv
<1> USE Moved, Alone, TasksAssumption
    DEF Continue, Suspend, Finish, AttemptInv, RunningOnly, Flying, Failing,
        StreamFails, RunningPCs, CriticalPCs, connectorVars, Transition, CanGo,
        IsValidTransition, ValidTransitions, ConnectionStates, CONNECTING,
        FAILED, RECONNECTING, CONNECTED, DISCONNECTED
<1>0. TypeOK /\ LockInv
  BY DEF LockInv
<1>1. ASSUME NEW t \in Tasks, LockGranted(t)
      PROVE  Flying' /\ Failing' /\ StreamFails'
  BY <1>0, <1>1 DEF LockGranted
<1>2. ASSUME NEW t \in Tasks, AwaitedTaskEnds(t)
      PROVE  Flying' /\ Failing' /\ StreamFails'
  BY <1>0, <1>2 DEF AwaitedTaskEnds, Suspended, ReturnConnect, TakeLock
<1>3. ASSUME NEW t \in Tasks, ConnBody(t)
      PROVE  Flying' /\ Failing' /\ StreamFails'
  <2>1. /\ running = t
        /\ \A u \in Tasks \ {t} : pc[u] \notin CriticalPCs \cup {"retryFailed"}
    BY <1>0, <1>3 DEF ConnBody, At
  <2>2. CASE state = CONNECTED
    BY <1>0, <1>3, <2>1, <2>2 DEF ConnBody, At, ReturnConnect
  <2>3. CASE state' = CONNECTING /\ Move(t, "opening", None)
    BY <1>0, <2>1, <2>3
  <2>4. CASE /\ state \in {CONNECTING, FAILED, RECONNECTING}
             /\ Move(t, "connFail", None)
             /\ UNCHANGED state
    BY <1>0, <2>1, <2>4
  <2> QED
    BY <1>0, <1>3, <2>2, <2>3, <2>4 DEF ConnBody, LockInv, TypeOK
<1>4. ASSUME NEW t \in Tasks, OpenSucceeds(t)
      PROVE  Flying' /\ Failing' /\ StreamFails'
  BY <1>0, <1>4 DEF OpenSucceeds, Suspended
<1>5. ASSUME NEW t \in Tasks, SubscribeSucceeds(t)
      PROVE  Flying' /\ Failing' /\ StreamFails'
  BY <1>0, <1>5
     DEF SubscribeSucceeds, Suspended, LeaveConnect, ReleaseLock,
         ReturnConnect
<1>6. ASSUME NEW t \in Tasks, ConnectRaises(t)
      PROVE  Flying' /\ Failing' /\ StreamFails'
  BY <1>0, <1>6 DEF ConnectRaises
<1>7. ASSUME NEW t \in Tasks, ConnFail(t)
      PROVE  Flying' /\ Failing' /\ StreamFails'
  BY <1>0, <1>7 DEF ConnFail, At, LeaveConnect, ReleaseLock, ReturnConnect
<1>8. ASSUME NEW t \in Tasks, FailClosed(t)
      PROVE  Flying' /\ Failing' /\ StreamFails'
  BY <1>0, <1>8
     DEF FailClosed, Suspended, LeaveConnect, ReleaseLock, ReturnConnect
<1>9. ASSUME NEW t \in Tasks, DiscBody(t)
      PROVE  Flying' /\ Failing' /\ StreamFails'
  BY <1>0, <1>9 DEF DiscBody, At, FinishDisconnect
<1>10. ASSUME NEW t \in Tasks, DiscClosed(t)
      PROVE  Flying' /\ Failing' /\ StreamFails'
  BY <1>0, <1>10 DEF DiscClosed, Suspended, FinishDisconnect
<1>11. ASSUME NEW t \in Tasks, CallConnect(t)
      PROVE  Flying' /\ Failing' /\ StreamFails'
  BY <1>0, <1>11 DEF CallConnect, Suspended, Connect, ReturnConnect, TakeLock
<1>12. ASSUME NEW t \in Tasks, CallDisconnect(t)
      PROVE  Flying' /\ Failing' /\ StreamFails'
  BY <1>0, <1>12 DEF CallDisconnect, Suspended, TakeLock
<1>13. ASSUME NEW t \in Tasks, EndCaller(t)
      PROVE  Flying' /\ Failing' /\ StreamFails'
  BY <1>0, <1>13 DEF EndCaller, Suspended
<1>14. ASSUME NEW t \in Tasks, Cancel(t)
      PROVE  Flying' /\ Failing' /\ StreamFails'
  BY <1>0, <1>14 DEF Cancel
<1>15. ASSUME NEW t \in Tasks, CancelQueued(t)
      PROVE  Flying' /\ Failing' /\ StreamFails'
  BY <1>0, <1>15 DEF CancelQueued
<1>16. ASSUME StreamerConnect
      PROVE  Flying' /\ Failing' /\ StreamFails'
  BY <1>0, <1>16 DEF StreamerConnect, At, Connect, ReturnConnect, TakeLock
<1>17. ASSUME StartStream
      PROVE  Flying' /\ Failing' /\ StreamFails'
  BY <1>0, <1>17 DEF StartStream, Suspended
<1>18. ASSUME Loop
      PROVE  Flying' /\ Failing' /\ StreamFails'
  BY <1>0, <1>18 DEF Loop, At
<1>19. ASSUME Receive
      PROVE  Flying' /\ Failing' /\ StreamFails'
  BY <1>0, <1>19 DEF Receive, At
<1>20. ASSUME RecvMessage
      PROVE  Flying' /\ Failing' /\ StreamFails'
  BY <1>0, <1>20 DEF RecvMessage, Suspended
<1>21. ASSUME RecvRaises
      PROVE  Flying' /\ Failing' /\ StreamFails'
  BY <1>0, <1>21 DEF RecvRaises, Suspended
<1>22. ASSUME ConsumerResumes
      PROVE  Flying' /\ Failing' /\ StreamFails'
  BY <1>0, <1>22 DEF ConsumerResumes, Suspended
<1>23. ASSUME ConsumerStops
      PROVE  Flying' /\ Failing' /\ StreamFails'
  BY <1>0, <1>23 DEF ConsumerStops, Suspended
<1>24. ASSUME Handler
      PROVE  Flying' /\ Failing' /\ StreamFails'
  BY <1>0, <1>24 DEF Handler, At
<1>25. ASSUME HandClosed
      PROVE  Flying' /\ Failing' /\ StreamFails'
  BY <1>0, <1>25 DEF HandClosed, Suspended
<1>26. ASSUME Retry
      PROVE  Flying' /\ Failing' /\ StreamFails'
  BY <1>0, <1>26 DEF Retry, At
<1>27. ASSUME GiveUp
      PROVE  Flying' /\ Failing' /\ StreamFails'
  BY <1>0, <1>27 DEF GiveUp, At
<1>28. ASSUME BackoffEnds
      PROVE  Flying' /\ Failing' /\ StreamFails'
  BY <1>0, <1>28 DEF BackoffEnds, Suspended
<1>29. ASSUME RetryFailed
      PROVE  Flying' /\ Failing' /\ StreamFails'
  BY <1>0, <1>29 DEF RetryFailed, At
<1>30. ASSUME UNCHANGED <<state, pc>>
      PROVE  Flying' /\ Failing' /\ StreamFails'
  BY <1>30
<1> QED
  BY <1>1, <1>2, <1>3, <1>4, <1>5, <1>6, <1>7, <1>8, <1>9, <1>10, <1>11,
     <1>12, <1>13, <1>14, <1>15, <1>16, <1>17, <1>18, <1>19, <1>20, <1>21,
     <1>22, <1>23, <1>24, <1>25, <1>26, <1>27, <1>28, <1>29, <1>30
     DEF Next, ConnectStep, DisconnectStep, CallStep, StreamStep, ConsumerStep,
         SocketCloses, Terminated, vars, taskVars

\* The invariant is what FailurePathLegal says, state by state.
LEMMA AttemptPath == AttemptInv => FailurePathLegal
  BY DEF AttemptInv, Failing, StreamFails, FailurePathLegal, CanGo,
         IsValidTransition, ValidTransitions, ConnectionStates, CONNECTING,
         FAILED, RECONNECTING, CONNECTED, DISCONNECTED

\* Whatever tasks interleave, an attempt in progress finds the state it left.
THEOREM AttemptInvariant == Spec => []AttemptInv
  BY AttemptInit, AttemptNext, PTL DEF Spec

\* The failure paths of connect() and of the reconnection loop never meet an
\* illegal transition (_transition_state raising inside "except Exception").
THEOREM FailuresAreLegal == Spec => []FailurePathLegal
  BY AttemptInvariant, AttemptPath, PTL

------------------------------------------------------------------------------
(* The connector implements ConnectionLifecycle.                           *)

\* Every step of the connector is a step of the life cycle, or leaves its two
\* variables alone.
LEMMA LifecycleNext ==
  AttemptInv /\ [Next]_vars =>
    [Lifecycle!LifecycleNext]_<<state, connectingTask>>
<1> DEFINE Step == [Lifecycle!LifecycleNext]_<<state, connectingTask>>
<1> SUFFICES ASSUME AttemptInv, [Next]_vars
             PROVE  Step
  OBVIOUS
<1> USE TasksAssumption
    DEF AttemptInv, LockInv, TypeOK, SingleFlight, NoFlightWhileConnected,
       FlightPCs,
        connectorVars, Transition, CanGo, IsValidTransition, ValidTransitions,
        ConnectionStates, CONNECTING, FAILED, RECONNECTING, CONNECTED,
        DISCONNECTED,
        Lifecycle!LifecycleNext, Lifecycle!Attempt, Lifecycle!Establish,
        Lifecycle!Fail, Lifecycle!Leave, Lifecycle!Lose, Lifecycle!Drop,
        Lifecycle!IsValidTransition, Lifecycle!ValidTransitions,
        Lifecycle!ConnectionStates, Lifecycle!CONNECTING, Lifecycle!FAILED,
        Lifecycle!RECONNECTING, Lifecycle!CONNECTED, Lifecycle!DISCONNECTED
<1>1. ASSUME NEW t \in Tasks, LockGranted(t)
      PROVE  Step
  BY <1>1 DEF LockGranted
<1>2. ASSUME NEW t \in Tasks, AwaitedTaskEnds(t)
      PROVE  Step
  BY <1>2 DEF AwaitedTaskEnds, Suspended, ReturnConnect, TakeLock
<1>3. ASSUME NEW t \in Tasks, ConnBody(t)
      PROVE  Step
  <2>1. connectingTask = None
    BY <1>3, NoOtherFlight DEF ConnBody, At, CriticalPCs
  <2>2. CASE state = CONNECTED
    BY <1>3, <2>2 DEF ConnBody
  <2>3. CASE state # CONNECTED /\ connectingTask' = t
    BY <1>3, <2>1, <2>3 DEF ConnBody
  <2> QED
    BY <1>3, <2>2, <2>3 DEF ConnBody
<1>4. ASSUME NEW t \in Tasks, OpenSucceeds(t)
      PROVE  Step
  BY <1>4 DEF OpenSucceeds, Suspended
<1>5. ASSUME NEW t \in Tasks, SubscribeSucceeds(t)
      PROVE  Step
  <2>1. connectingTask # None /\ state = CONNECTING
    BY <1>5 DEF SubscribeSucceeds, Suspended, Flying
  <2> QED
    BY <1>5, <2>1 DEF SubscribeSucceeds, LeaveConnect
<1>6. ASSUME NEW t \in Tasks, ConnectRaises(t)
      PROVE  Step
  BY <1>6 DEF ConnectRaises
<1>7. ASSUME NEW t \in Tasks, ConnFail(t)
      PROVE  Step
  BY <1>7 DEF ConnFail, At, LeaveConnect, ReleaseLock, ReturnConnect
<1>8. ASSUME NEW t \in Tasks, FailClosed(t)
      PROVE  Step
  BY <1>8 DEF FailClosed, Suspended, LeaveConnect, ReleaseLock, ReturnConnect
<1>9. ASSUME NEW t \in Tasks, DiscBody(t)
      PROVE  Step
  BY <1>9 DEF DiscBody, At, FinishDisconnect
<1>10. ASSUME NEW t \in Tasks, DiscClosed(t)
      PROVE  Step
  BY <1>10 DEF DiscClosed, Suspended, FinishDisconnect
<1>11. ASSUME NEW t \in Tasks, CallConnect(t)
      PROVE  Step
  BY <1>11 DEF CallConnect, Suspended, Connect, ReturnConnect, TakeLock
<1>12. ASSUME NEW t \in Tasks, CallDisconnect(t)
      PROVE  Step
  BY <1>12 DEF CallDisconnect, Suspended, TakeLock
<1>13. ASSUME NEW t \in Tasks, EndCaller(t)
      PROVE  Step
  BY <1>13 DEF EndCaller, Suspended
<1>14. ASSUME NEW t \in Tasks, Cancel(t)
      PROVE  Step
  BY <1>14 DEF Cancel
<1>15. ASSUME NEW t \in Tasks, CancelQueued(t)
      PROVE  Step
  BY <1>15 DEF CancelQueued
<1>16. ASSUME StreamerConnect
      PROVE  Step
  BY <1>16 DEF StreamerConnect, At, Connect, ReturnConnect, TakeLock
<1>17. ASSUME StartStream
      PROVE  Step
  BY <1>17 DEF StartStream, Suspended
<1>18. ASSUME Loop
      PROVE  Step
  BY <1>18 DEF Loop, At
<1>19. ASSUME Receive
      PROVE  Step
  BY <1>19 DEF Receive, At
<1>20. ASSUME RecvMessage
      PROVE  Step
  BY <1>20 DEF RecvMessage, Suspended
<1>21. ASSUME RecvRaises
      PROVE  Step
  BY <1>21 DEF RecvRaises, Suspended
<1>22. ASSUME ConsumerResumes
      PROVE  Step
  BY <1>22 DEF ConsumerResumes, Suspended
<1>23. ASSUME ConsumerStops
      PROVE  Step
  BY <1>23 DEF ConsumerStops, Suspended
<1>24. ASSUME Handler
      PROVE  Step
  BY <1>24 DEF Handler, At
<1>25. ASSUME HandClosed
      PROVE  Step
  BY <1>25 DEF HandClosed, Suspended
<1>26. ASSUME Retry
      PROVE  Step
  BY <1>26 DEF Retry, At
<1>27. ASSUME GiveUp
      PROVE  Step
  BY <1>27 DEF GiveUp, At
<1>28. ASSUME BackoffEnds
      PROVE  Step
  BY <1>28 DEF BackoffEnds, Suspended
<1>29. ASSUME RetryFailed
      PROVE  Step
  BY <1>29 DEF RetryFailed, At
<1>30. ASSUME UNCHANGED <<state, connectingTask>>
      PROVE  Step
  BY <1>30
<1> HIDE DEF Step
<1> QED
    BY <1>1, <1>2, <1>3, <1>4, <1>5, <1>6, <1>7, <1>8, <1>9, <1>10, <1>11,
     <1>12, <1>13, <1>14, <1>15, <1>16, <1>17, <1>18, <1>19, <1>20, <1>21,
     <1>22, <1>23, <1>24, <1>25, <1>26, <1>27, <1>28, <1>29, <1>30
     DEF Next, ConnectStep, DisconnectStep, CallStep, StreamStep, ConsumerStep,
         SocketCloses, Terminated, vars, taskVars

\* The refinement: for every set of callers, the connector's state changes along
\* the matrix, one attempt at a time, and only that attempt connects.
THEOREM LifecycleImplemented == Spec => ImplementsLifecycle
<1>1. Init => Lifecycle!LifecycleInit
  BY DEF Init, Lifecycle!LifecycleInit, Lifecycle!DISCONNECTED, DISCONNECTED
<1> QED
  BY <1>1, AttemptInvariant, LifecycleNext, PTL
     DEF Spec, ImplementsLifecycle, Lifecycle!LifecycleSpec,
        Lifecycle!lifecycleVars

------------------------------------------------------------------------------
(* The queue of the lock.                                                  *)

WaitingPCs == {"connLock", "discLock"}

\* What is left of a sequence when one of its places is taken out.
LEMMA RemoveAtElements ==
  ASSUME NEW S, NEW q \in Seq(S), NEW i \in DOMAIN q
  PROVE  /\ RemoveAt(q, i) \in Seq(S)
         /\ Len(RemoveAt(q, i)) = Len(q) - 1
         /\ \A j \in 1..(i - 1) : RemoveAt(q, i)[j] = q[j]
         /\ \A j \in i..(Len(q) - 1) : RemoveAt(q, i)[j] = q[j + 1]
<1> DEFINE before == SubSeq(q, 1, i - 1)
           after  == SubSeq(q, i + 1, Len(q))
<1>1. Len(q) \in Nat /\ i \in 1..Len(q)
  OBVIOUS
<1>2. /\ before \in Seq(S)
      /\ Len(before) = i - 1
      /\ \A j \in 1..(i - 1) : before[j] = q[j]
  BY <1>1
<1>3. /\ after \in Seq(S)
      /\ Len(after) = Len(q) - i
      /\ \A j \in 1..(Len(q) - i) : after[j] = q[j + i]
  BY <1>1
<1> HIDE DEF before, after
<1>4. /\ before \o after \in Seq(S)
      /\ Len(before \o after) = Len(q) - 1
      /\ \A j \in 1..(Len(q) - 1) :
           (before \o after)[j] =
             IF j <= i - 1 THEN before[j] ELSE after[j - (i - 1)]
  <2>1. /\ before \o after \in Seq(S)
        /\ Len(before \o after) = Len(before) + Len(after)
        /\ \A j \in 1..(Len(before) + Len(after)) :
             (before \o after)[j] =
               IF j <= Len(before) THEN before[j] ELSE after[j - Len(before)]
    BY <1>2, <1>3, ConcatProperties, Zenon
  <2>2. Len(before) = i - 1 /\ Len(before) + Len(after) = Len(q) - 1
    BY <1>1, <1>2, <1>3
  <2> QED
    BY <2>1, <2>2
<1>5. \A j \in 1..(i - 1) : (before \o after)[j] = q[j]
  BY <1>1, <1>2, <1>4
<1>6. \A j \in i..(Len(q) - 1) : (before \o after)[j] = q[j + 1]
  <2> SUFFICES ASSUME NEW j \in i..(Len(q) - 1)
               PROVE  (before \o after)[j] = q[j + 1]
    OBVIOUS
  <2>1. /\ j \in 1..(Len(q) - 1) /\ ~(j <= i - 1)
        /\ j - (i - 1) \in 1..(Len(q) - i)
        /\ (j - (i - 1)) + i = j + 1
    BY <1>1
  <2> QED
    BY <1>3, <1>4, <2>1
<1>7. RemoveAt(q, i) = before \o after
  BY DEF RemoveAt, before, after
<1> QED
  BY <1>4, <1>5, <1>6, <1>7

LEMMA QueueKept ==
  ASSUME TypeOK, LockQueueExact, NEW t \in Tasks, NEW label, NEW awaited,
         Move(t, label, awaited), UNCHANGED lockQueue,
         pc[t] \notin WaitingPCs, label \notin WaitingPCs
  PROVE  LockQueueExact'
<1>1. \A u \in Tasks : pc'[u] \in WaitingPCs <=> pc[u] \in WaitingPCs
  BY Moved
<1> QED
  BY <1>1 DEF LockQueueExact, WaitingPCs

LEMMA QueueJoined ==
  ASSUME TypeOK, LockQueueExact, NEW t \in Tasks, NEW label, NEW awaited,
         Move(t, label, awaited), lockQueue' = Append(lockQueue, t),
         pc[t] \notin WaitingPCs, label \in WaitingPCs
  PROVE  LockQueueExact'
<1>1. /\ DOMAIN lockQueue' = DOMAIN lockQueue \cup {Len(lockQueue) + 1}
      /\ Len(lockQueue) + 1 \notin DOMAIN lockQueue
      /\ \A i \in DOMAIN lockQueue : lockQueue'[i] = lockQueue[i]
      /\ lockQueue'[Len(lockQueue) + 1] = t
  BY DEF TypeOK
<1>2. \A i \in DOMAIN lockQueue : lockQueue[i] # t
  BY DEF LockQueueExact, WaitingPCs
<1>3. pc'[t] = label /\ \A u \in Tasks \ {t} : pc'[u] = pc[u]
  BY Moved
<1>4. \A i, j \in DOMAIN lockQueue' : lockQueue'[i] = lockQueue'[j] => i = j
  BY <1>1, <1>2 DEF LockQueueExact, WaitingPCs
<1>5. ASSUME NEW u \in Tasks
      PROVE  pc'[u] \in WaitingPCs <=>
               \E i \in DOMAIN lockQueue' : lockQueue'[i] = u
  <2>1. CASE u = t
    BY <1>1, <1>3, <2>1
  <2>2. CASE u # t
    BY <1>1, <1>3, <2>2 DEF LockQueueExact, WaitingPCs
  <2> QED
    BY <2>1, <2>2
<1> QED
  BY <1>4, <1>5 DEF LockQueueExact, WaitingPCs

LEMMA QueueLeft ==
  ASSUME TypeOK, LockQueueExact, NEW t \in Tasks, NEW label, NEW awaited,
         Move(t, label, awaited), label \notin WaitingPCs,
         NEW i \in DOMAIN lockQueue, lockQueue[i] = t,
         lockQueue' = RemoveAt(lockQueue, i)
  PROVE  LockQueueExact'
<1> DEFINE Place(j) == IF j < i THEN j ELSE j + 1
<1>1. /\ Len(lockQueue) \in Nat
      /\ DOMAIN lockQueue = 1..Len(lockQueue)
      /\ DOMAIN lockQueue' = 1..(Len(lockQueue) - 1)
      /\ i \in 1..Len(lockQueue)
  BY RemoveAtElements DEF TypeOK
<1>2. ASSUME NEW j \in DOMAIN lockQueue'
      PROVE  /\ Place(j) \in DOMAIN lockQueue \ {i}
             /\ lockQueue'[j] = lockQueue[Place(j)]
  <2>1. /\ \A k \in 1..(i - 1) : lockQueue'[k] = lockQueue[k]
        /\ \A k \in i..(Len(lockQueue) - 1) : lockQueue'[k] = lockQueue[k + 1]
    BY RemoveAtElements DEF TypeOK
  <2>2. CASE j < i
    BY <1>1, <2>1, <2>2
  <2>3. CASE ~(j < i)
    BY <1>1, <2>1, <2>3
  <2> QED
    BY <2>2, <2>3
<1>3. pc'[t] = label /\ \A u \in Tasks \ {t} : pc'[u] = pc[u]
  BY Moved
<1>4. ASSUME NEW j \in DOMAIN lockQueue', NEW k \in DOMAIN lockQueue',
             lockQueue'[j] = lockQueue'[k]
      PROVE  j = k
  <2>1. Place(j) = Place(k)
    BY <1>2, <1>4 DEF LockQueueExact
  <2> QED
    BY <1>1, <2>1
<1>5. \A j \in DOMAIN lockQueue' : lockQueue'[j] # t
  BY <1>2 DEF LockQueueExact
<1>6. ASSUME NEW u \in Tasks, u # t
      PROVE  (\E j \in DOMAIN lockQueue' : lockQueue'[j] = u)
               <=> \E j \in DOMAIN lockQueue : lockQueue[j] = u
  <2>1. ASSUME NEW j \in DOMAIN lockQueue, lockQueue[j] = u
        PROVE  \E k \in DOMAIN lockQueue' : lockQueue'[k] = u
    <3>1. \E k \in DOMAIN lockQueue' : Place(k) = j
      <4>1. CASE j < i
        BY <1>1, <4>1
      <4>2. CASE j > i
        <5>1. j - 1 \in DOMAIN lockQueue' /\ Place(j - 1) = j
          BY <1>1, <4>2
        <5> QED
          BY <5>1
      <4> QED
        BY <1>1, <1>6, <2>1, <4>1, <4>2
    <3> QED
      BY <1>2, <2>1, <3>1
  <2>2. ASSUME NEW j \in DOMAIN lockQueue', lockQueue'[j] = u
        PROVE  \E k \in DOMAIN lockQueue : lockQueue[k] = u
    BY <1>2, <2>2
  <2> QED
    BY <2>1, <2>2
<1> HIDE DEF Place
<1> QED
  BY <1>3, <1>4, <1>5, <1>6 DEF LockQueueExact, WaitingPCs

\* What the head of the queue leaves behind is the queue without its first
\* place.
LEMMA HeadLeaves ==
  ASSUME NEW S, NEW q \in Seq(S), q # <<>>
  PROVE  1 \in DOMAIN q /\ q[1] = Head(q) /\ RemoveAt(q, 1) = Tail(q)
<1> DEFINE rest == RemoveAt(q, 1)
<1>1. Len(q) \in Nat \ {0} /\ DOMAIN q = 1..Len(q)
  BY EmptySeq
<1>2. 1 \in DOMAIN q /\ q[1] = Head(q)
  BY <1>1
<1>3. /\ rest \in Seq(S)
      /\ Len(rest) = Len(q) - 1
      /\ \A k \in 1..(Len(q) - 1) : rest[k] = q[k + 1]
  BY <1>1, <1>2, RemoveAtElements
<1>4. /\ Tail(q) \in Seq(S)
      /\ Len(Tail(q)) = Len(q) - 1
      /\ \A k \in 1..(Len(q) - 1) : Tail(q)[k] = q[k + 1]
  BY <1>1, HeadTailProperties
<1> HIDE DEF rest
<1>5. rest = Tail(q)
  BY <1>3, <1>4, SeqEqual
<1> QED
  BY <1>2, <1>5 DEF rest

LEMMA QueueInit == Init => LockQueueExact
  BY DEF Init, LockQueueExact

LEMMA QueueNext ==
  TypeOK /\ LockQueueExact /\ [Next]_vars => LockQueueExact'
<1> SUFFICES ASSUME TypeOK, LockQueueExact, [Next]_vars
             PROVE  LockQueueExact'
  OBVIOUS
<1> USE QueueKept, QueueJoined
    DEF Continue, Suspend, Finish, WaitingPCs, lockVars
<1>1. ASSUME NEW t \in Tasks, LockGranted(t)
      PROVE  LockQueueExact'
  BY <1>1, HeadLeaves, QueueLeft DEF LockGranted, TypeOK
<1>2. ASSUME NEW t \in Tasks, AwaitedTaskEnds(t)
      PROVE  LockQueueExact'
  BY <1>2 DEF AwaitedTaskEnds, Suspended, ReturnConnect, TakeLock
<1>3. ASSUME NEW t \in Tasks, ConnBody(t)
      PROVE  LockQueueExact'
  BY <1>3 DEF ConnBody, At, ReturnConnect, ReleaseLock
<1>4. ASSUME NEW t \in Tasks, OpenSucceeds(t)
      PROVE  LockQueueExact'
  BY <1>4 DEF OpenSucceeds, Suspended
<1>5. ASSUME NEW t \in Tasks, SubscribeSucceeds(t)
      PROVE  LockQueueExact'
  BY <1>5
     DEF SubscribeSucceeds, Suspended, LeaveConnect, ReleaseLock,
         ReturnConnect
<1>6. ASSUME NEW t \in Tasks, ConnectRaises(t)
      PROVE  LockQueueExact'
  BY <1>6 DEF ConnectRaises
<1>7. ASSUME NEW t \in Tasks, ConnFail(t)
      PROVE  LockQueueExact'
  BY <1>7 DEF ConnFail, At, LeaveConnect, ReleaseLock, ReturnConnect
<1>8. ASSUME NEW t \in Tasks, FailClosed(t)
      PROVE  LockQueueExact'
  BY <1>8 DEF FailClosed, Suspended, LeaveConnect, ReleaseLock, ReturnConnect
<1>9. ASSUME NEW t \in Tasks, DiscBody(t)
      PROVE  LockQueueExact'
  BY <1>9 DEF DiscBody, At, FinishDisconnect, ReleaseLock
<1>10. ASSUME NEW t \in Tasks, DiscClosed(t)
      PROVE  LockQueueExact'
  BY <1>10 DEF DiscClosed, Suspended, FinishDisconnect, ReleaseLock
<1>11. ASSUME NEW t \in Tasks, CallConnect(t)
      PROVE  LockQueueExact'
  BY <1>11 DEF CallConnect, Suspended, Connect, ReturnConnect, TakeLock
<1>12. ASSUME NEW t \in Tasks, CallDisconnect(t)
      PROVE  LockQueueExact'
  BY <1>12 DEF CallDisconnect, Suspended, TakeLock
<1>13. ASSUME NEW t \in Tasks, EndCaller(t)
      PROVE  LockQueueExact'
  BY <1>13 DEF EndCaller, Suspended
<1>14. ASSUME NEW t \in Tasks, Cancel(t)
      PROVE  LockQueueExact'
  BY <1>14 DEF Cancel
<1>15. ASSUME NEW t \in Tasks, CancelQueued(t)
      PROVE  LockQueueExact'
  BY <1>15, QueueLeft DEF CancelQueued
<1>16. ASSUME StreamerConnect
      PROVE  LockQueueExact'
  BY <1>16 DEF StreamerConnect, At, Connect, ReturnConnect, TakeLock
<1>17. ASSUME StartStream
      PROVE  LockQueueExact'
  BY <1>17 DEF StartStream, Suspended
<1>18. ASSUME Loop
      PROVE  LockQueueExact'
  BY <1>18 DEF Loop, At
<1>19. ASSUME Receive
      PROVE  LockQueueExact'
  BY <1>19 DEF Receive, At
<1>20. ASSUME RecvMessage
      PROVE  LockQueueExact'
  BY <1>20 DEF RecvMessage, Suspended
<1>21. ASSUME RecvRaises
      PROVE  LockQueueExact'
  BY <1>21 DEF RecvRaises, Suspended
<1>22. ASSUME ConsumerResumes
      PROVE  LockQueueExact'
  BY <1>22 DEF ConsumerResumes, Suspended
<1>23. ASSUME ConsumerStops
      PROVE  LockQueueExact'
  BY <1>23 DEF ConsumerStops, Suspended
<1>24. ASSUME Handler
      PROVE  LockQueueExact'
  BY <1>24 DEF Handler, At
<1>25. ASSUME HandClosed
      PROVE  LockQueueExact'
  BY <1>25 DEF HandClosed, Suspended
<1>26. ASSUME Retry
      PROVE  LockQueueExact'
  BY <1>26 DEF Retry, At
<1>27. ASSUME GiveUp
      PROVE  LockQueueExact'
  BY <1>27 DEF GiveUp, At
<1>28. ASSUME BackoffEnds
      PROVE  LockQueueExact'
  BY <1>28 DEF BackoffEnds, Suspended
<1>29. ASSUME RetryFailed
      PROVE  LockQueueExact'
  BY <1>29 DEF RetryFailed, At
<1>30. ASSUME UNCHANGED <<lockQueue, pc>>
      PROVE  LockQueueExact'
  BY <1>30 DEF LockQueueExact
<1> QED
  BY <1>1, <1>2, <1>3, <1>4, <1>5, <1>6, <1>7, <1>8, <1>9, <1>10, <1>11,
     <1>12, <1>13, <1>14, <1>15, <1>16, <1>17, <1>18, <1>19, <1>20, <1>21,
     <1>22, <1>23, <1>24, <1>25, <1>26, <1>27, <1>28, <1>29, <1>30
     DEF Next, ConnectStep, DisconnectStep, CallStep, StreamStep, ConsumerStep,
         SocketCloses, Terminated, vars, taskVars

\* Whatever cancellations and exceptions happen, the queue of the lock holds
\* exactly the tasks that wait for it, once each: nobody is forgotten in it, and
\* the lock is never given to a task that has gone.
THEOREM QueueIsExact == Spec => []LockQueueExact
  BY TypeCorrect, QueueInit, QueueNext, PTL DEF Spec

------------------------------------------------------------------------------
(* The socket the stream reads.                                            *)

Uncancelled == \A t \in Tasks : outcome[t] # "cancelled"

\* A cancelled task never comes back.
CancelledGone == \A t \in Tasks : outcome[t] = "cancelled" => pc[t] = "done"

LEMMA CancelledNext ==
  TypeOK /\ CancelledGone /\ [Next]_vars =>
    CancelledGone' /\ (Uncancelled' => Uncancelled)
<1> DEFINE Goal == CancelledGone' /\ (Uncancelled' => Uncancelled)
<1> SUFFICES ASSUME TypeOK, CancelledGone, [Next]_vars
             PROVE  Goal
  OBVIOUS
<1>0. ASSUME NEW t \in Tasks, NEW label, NEW awaited, Move(t, label, awaited),
             pc[t] # "done",
             \/ UNCHANGED outcome
             \/ \E result :
                  /\ outcome' = [outcome EXCEPT ![t] = result]
                  /\ result = "cancelled" => label = "done"
      PROVE  Goal
  BY <1>0, Moved DEF CancelledGone, Uncancelled, TypeOK
<1> HIDE DEF Goal
<1> USE <1>0 DEF Continue, Suspend, Finish
<1>1. ASSUME NEW t \in Tasks, LockGranted(t)
      PROVE  Goal
  BY <1>1 DEF LockGranted
<1>2. ASSUME NEW t \in Tasks, AwaitedTaskEnds(t)
      PROVE  Goal
  BY <1>2 DEF AwaitedTaskEnds, Suspended, ReturnConnect, TakeLock
<1>3. ASSUME NEW t \in Tasks, ConnBody(t)
      PROVE  Goal
  BY <1>3 DEF ConnBody, At, ReturnConnect, ReleaseLock
<1>4. ASSUME NEW t \in Tasks, OpenSucceeds(t)
      PROVE  Goal
  BY <1>4 DEF OpenSucceeds, Suspended
<1>5. ASSUME NEW t \in Tasks, SubscribeSucceeds(t)
      PROVE  Goal
  BY <1>5
     DEF SubscribeSucceeds, Suspended, LeaveConnect, ReleaseLock,
         ReturnConnect
<1>6. ASSUME NEW t \in Tasks, ConnectRaises(t)
      PROVE  Goal
  BY <1>6 DEF ConnectRaises
<1>7. ASSUME NEW t \in Tasks, ConnFail(t)
      PROVE  Goal
  BY <1>7 DEF ConnFail, At, LeaveConnect, ReleaseLock, ReturnConnect
<1>8. ASSUME NEW t \in Tasks, FailClosed(t)
      PROVE  Goal
  BY <1>8 DEF FailClosed, Suspended, LeaveConnect, ReleaseLock, ReturnConnect
<1>9. ASSUME NEW t \in Tasks, DiscBody(t)
      PROVE  Goal
  BY <1>9 DEF DiscBody, At, FinishDisconnect
<1>10. ASSUME NEW t \in Tasks, DiscClosed(t)
      PROVE  Goal
  BY <1>10 DEF DiscClosed, Suspended, FinishDisconnect
<1>11. ASSUME NEW t \in Tasks, CallConnect(t)
      PROVE  Goal
  BY <1>11 DEF CallConnect, Suspended, Connect, ReturnConnect, TakeLock
<1>12. ASSUME NEW t \in Tasks, CallDisconnect(t)
      PROVE  Goal
  BY <1>12 DEF CallDisconnect, Suspended, TakeLock
<1>13. ASSUME NEW t \in Tasks, EndCaller(t)
      PROVE  Goal
  BY <1>13 DEF EndCaller, Suspended, Raised
<1>14. ASSUME NEW t \in Tasks, Cancel(t)
      PROVE  Goal
  BY <1>14 DEF Cancel
<1>15. ASSUME NEW t \in Tasks, CancelQueued(t)
      PROVE  Goal
  BY <1>15 DEF CancelQueued
<1>16. ASSUME StreamerConnect
      PROVE  Goal
  BY <1>16 DEF StreamerConnect, At, Connect, ReturnConnect, TakeLock
<1>17. ASSUME StartStream
      PROVE  Goal
  BY <1>17 DEF StartStream, Suspended
<1>18. ASSUME Loop
      PROVE  Goal
  BY <1>18 DEF Loop, At
<1>19. ASSUME Receive
      PROVE  Goal
  BY <1>19 DEF Receive, At
<1>20. ASSUME RecvMessage
      PROVE  Goal
  BY <1>20 DEF RecvMessage, Suspended
<1>21. ASSUME RecvRaises
      PROVE  Goal
  BY <1>21 DEF RecvRaises, Suspended
<1>22. ASSUME ConsumerResumes
      PROVE  Goal
  BY <1>22 DEF ConsumerResumes, Suspended
<1>23. ASSUME ConsumerStops
      PROVE  Goal
  BY <1>23 DEF ConsumerStops, Suspended
<1>24. ASSUME Handler
      PROVE  Goal
  BY <1>24 DEF Handler, At
<1>25. ASSUME HandClosed
      PROVE  Goal
  BY <1>25 DEF HandClosed, Suspended
<1>26. ASSUME Retry
      PROVE  Goal
  BY <1>26 DEF Retry, At
<1>27. ASSUME GiveUp
      PROVE  Goal
  BY <1>27 DEF GiveUp, At
<1>28. ASSUME BackoffEnds
      PROVE  Goal
  BY <1>28 DEF BackoffEnds, Suspended
<1>29. ASSUME RetryFailed
      PROVE  Goal
  BY <1>29 DEF RetryFailed, At
<1>30. ASSUME UNCHANGED <<outcome, pc>>
      PROVE  Goal
  BY <1>30 DEF Goal, CancelledGone, Uncancelled
<1> QED
  BY <1>1, <1>2, <1>3, <1>4, <1>5, <1>6, <1>7, <1>8, <1>9, <1>10, <1>11,
     <1>12, <1>13, <1>14, <1>15, <1>16, <1>17, <1>18, <1>19, <1>20, <1>21,
     <1>22, <1>23, <1>24, <1>25, <1>26, <1>27, <1>28, <1>29, <1>30
     DEF Next, ConnectStep, DisconnectStep, CallStep, StreamStep,
         ConsumerStep, SocketCloses, Terminated, vars, taskVars

\* Whoever closes a socket closes the connector's, or finds it gone.
ClosesOwn ==
  \A t \in Tasks :
    pc[t] \in {"failClose", "discClose"} => websocket \in {awaits[t], None}

\* The reconnection loop counts its attempts without a socket.
RetriesWithout ==
  pc[Streamer] \in {"retry", "retryFailed"} => websocket = None

\* As long as nobody was cancelled, an open socket is one of a connection that
\* is up, or one an attempt is about to keep or close, or the stream is on its
\* way to close it or to replace it.
Accounted ==
  Uncancelled /\ websocket \in open =>
    \/ state = CONNECTED
    \/ \E t \in Tasks : pc[t] \in {"subscribing", "connFail", "failClose"}
    \/ pc[Streamer] \in {"connLock", "connBody", "opening", "handClose"}
    \/ pc[Streamer] = "connect" /\ connectingTask = None

SocketInv ==
  /\ AttemptInv
  /\ CancelledGone
  /\ ClosesOwn
  /\ RetriesWithout
  /\ Accounted
  /\ ReadsOwnSocket

LEMMA SocketInit == Init => SocketInv
  BY AttemptInit, TasksAssumption
     DEF Init, SocketInv, CancelledGone, ClosesOwn, RetriesWithout, Accounted,
         ReadsOwnSocket

\* Nobody but the tasks inside the lock replaces, forgets or closes the socket,
\* and of an accounted one the stream is not the reader.
LEMMA OwnNext ==
  SocketInv /\ [Next]_vars =>
    ClosesOwn' /\ RetriesWithout' /\ ReadsOwnSocket'
<1> DEFINE Own == ClosesOwn /\ RetriesWithout /\ ReadsOwnSocket
<1> SUFFICES ASSUME SocketInv, [Next]_vars
             PROVE  Own'
  OBVIOUS
<1>0. TypeOK /\ LockInv /\ (Uncancelled' => Uncancelled)
  BY CancelledNext DEF SocketInv, AttemptInv, LockInv
<1> USE Moved, Alone, TasksAssumption
    DEF Continue, Suspend, Finish, AttemptInv, RunningOnly, RunningPCs,
        SocketInv, CriticalPCs, connectorVars, Flying, Failing, StreamFails,
        ClosesOwn, RetriesWithout, Accounted, ReadsOwnSocket, Uncancelled, Transition,
        CanGo, IsValidTransition, ValidTransitions, ConnectionStates,
        CONNECTING, FAILED, RECONNECTING, CONNECTED, DISCONNECTED
<1>1. ASSUME NEW t \in Tasks, LockGranted(t)
      PROVE  Own'
  BY <1>0, <1>1 DEF LockGranted
<1>2. ASSUME NEW t \in Tasks, AwaitedTaskEnds(t)
      PROVE  Own'
  BY <1>0, <1>2 DEF AwaitedTaskEnds, Suspended, ReturnConnect, TakeLock
<1>3. ASSUME NEW t \in Tasks, ConnBody(t)
      PROVE  Own'
  BY <1>0, <1>3 DEF ConnBody, At, ReturnConnect, ReleaseLock
<1>4. ASSUME NEW t \in Tasks, OpenSucceeds(t)
      PROVE  Own'
  BY <1>0, <1>4 DEF OpenSucceeds, Suspended
<1>5. ASSUME NEW t \in Tasks, SubscribeSucceeds(t)
      PROVE  Own'
  BY <1>0, <1>5
     DEF SubscribeSucceeds, Suspended, LeaveConnect, ReleaseLock,
         ReturnConnect
<1>6. ASSUME NEW t \in Tasks, ConnectRaises(t)
      PROVE  Own'
  BY <1>0, <1>6 DEF ConnectRaises
<1>7. ASSUME NEW t \in Tasks, ConnFail(t)
      PROVE  Own'
  BY <1>0, <1>7 DEF ConnFail, At, LeaveConnect, ReleaseLock, ReturnConnect
<1>8. ASSUME NEW t \in Tasks, FailClosed(t)
      PROVE  Own'
  BY <1>0, <1>8
     DEF FailClosed, Suspended, LeaveConnect, ReleaseLock, ReturnConnect
<1>9. ASSUME NEW t \in Tasks, DiscBody(t)
      PROVE  Own'
  BY <1>0, <1>9 DEF DiscBody, At, FinishDisconnect
<1>10. ASSUME NEW t \in Tasks, DiscClosed(t)
      PROVE  Own'
  BY <1>0, <1>10 DEF DiscClosed, Suspended, FinishDisconnect
<1>11. ASSUME NEW t \in Tasks, CallConnect(t)
      PROVE  Own'
  BY <1>0, <1>11 DEF CallConnect, Suspended, Connect, ReturnConnect, TakeLock
<1>12. ASSUME NEW t \in Tasks, CallDisconnect(t)
      PROVE  Own'
  BY <1>0, <1>12 DEF CallDisconnect, Suspended, TakeLock
<1>13. ASSUME NEW t \in Tasks, EndCaller(t)
      PROVE  Own'
  BY <1>0, <1>13 DEF EndCaller, Suspended
<1>14. ASSUME NEW t \in Tasks, Cancel(t)
      PROVE  Own'
  BY <1>0, <1>14 DEF Cancel
<1>15. ASSUME NEW t \in Tasks, CancelQueued(t)
      PROVE  Own'
  BY <1>0, <1>15 DEF CancelQueued
<1>16. ASSUME StreamerConnect
      PROVE  Own'
  BY <1>0, <1>16 DEF StreamerConnect, At, Connect, ReturnConnect, TakeLock
<1>17. ASSUME StartStream
      PROVE  Own'
  BY <1>0, <1>17 DEF StartStream, Suspended
<1>18. ASSUME Loop
      PROVE  Own'
  BY <1>0, <1>18 DEF Loop, At
<1>19. ASSUME Receive
      PROVE  Own'
  BY <1>0, <1>19 DEF Receive, At
<1>20. ASSUME RecvMessage
      PROVE  Own'
  BY <1>0, <1>20 DEF RecvMessage, Suspended
<1>21. ASSUME RecvRaises
      PROVE  Own'
  BY <1>0, <1>21 DEF RecvRaises, Suspended
<1>22. ASSUME ConsumerResumes
      PROVE  Own'
  BY <1>0, <1>22 DEF ConsumerResumes, Suspended
<1>23. ASSUME ConsumerStops
      PROVE  Own'
  BY <1>0, <1>23 DEF ConsumerStops, Suspended
<1>24. ASSUME Handler
      PROVE  Own'
  BY <1>0, <1>24 DEF Handler, At
<1>25. ASSUME HandClosed
      PROVE  Own'
  BY <1>0, <1>25 DEF HandClosed, Suspended
<1>26. ASSUME Retry
      PROVE  Own'
  BY <1>0, <1>26 DEF Retry, At
<1>27. ASSUME GiveUp
      PROVE  Own'
  BY <1>0, <1>27 DEF GiveUp, At
<1>28. ASSUME BackoffEnds
      PROVE  Own'
  BY <1>0, <1>28 DEF BackoffEnds, Suspended
<1>29. ASSUME RetryFailed
      PROVE  Own'
  BY <1>0, <1>29 DEF RetryFailed, At
<1>30. ASSUME UNCHANGED <<connectorVars, pc, awaits, outcome, connectingTask>>,
             open' \subseteq open
      PROVE  Own'
  BY <1>30
<1> QED
  BY <1>1, <1>2, <1>3, <1>4, <1>5, <1>6, <1>7, <1>8, <1>9, <1>10, <1>11,
     <1>12, <1>13, <1>14, <1>15, <1>16, <1>17, <1>18, <1>19, <1>20, <1>21,
     <1>22, <1>23, <1>24, <1>25, <1>26, <1>27, <1>28, <1>29, <1>30
     DEF Next, ConnectStep, DisconnectStep, CallStep, StreamStep,
         ConsumerStep, SocketCloses, Terminated, vars, taskVars

\* A socket that is open stays accounted for.
LEMMA AccountedNext == SocketInv /\ [Next]_vars => Accounted'
<1> SUFFICES ASSUME SocketInv, [Next]_vars
             PROVE  Accounted'
  OBVIOUS
<1>0. /\ TypeOK /\ LockInv
      /\ Uncancelled' => Uncancelled
      /\ None \notin open /\ None \notin open'
      /\ state = CONNECTED => connectingTask = None
      /\ \A u \in Tasks :
           outcome' = [outcome EXCEPT ![u] = "cancelled"] => ~Uncancelled'
  <2>1. TypeOK /\ LockInv /\ TypeOK'
    BY TypeNext DEF SocketInv, AttemptInv, LockInv
  <2>2. Uncancelled' => Uncancelled
    BY <2>1, CancelledNext DEF SocketInv
  <2>3. None \notin open /\ None \notin open'
    BY <2>1, TasksAssumption DEF TypeOK
  <2>4. \A u \in Tasks :
          outcome' = [outcome EXCEPT ![u] = "cancelled"] => ~Uncancelled'
    BY <2>1 DEF TypeOK, Uncancelled
  <2> QED
    BY <2>1, <2>2, <2>3, <2>4 DEF LockInv, NoFlightWhileConnected
<1> USE Moved, Alone, TasksAssumption
    DEF Continue, Suspend, Finish, AttemptInv, RunningOnly, RunningPCs,
        SocketInv, CriticalPCs, connectorVars, Flying, Failing, StreamFails,
        Accounted, ClosesOwn, RetriesWithout, Transition, CanGo,
        IsValidTransition, ValidTransitions, ConnectionStates, CONNECTING,
        FAILED, RECONNECTING, CONNECTED, DISCONNECTED
<1>1. ASSUME NEW t \in Tasks, LockGranted(t)
      PROVE  Accounted'
  BY <1>0, <1>1 DEF LockGranted
<1>2. ASSUME NEW t \in Tasks, AwaitedTaskEnds(t)
      PROVE  Accounted'
  BY <1>0, <1>2 DEF AwaitedTaskEnds, Suspended, ReturnConnect, TakeLock
<1>3. ASSUME NEW t \in Tasks, ConnBody(t)
      PROVE  Accounted'
  BY <1>0, <1>3 DEF ConnBody, At, ReturnConnect, ReleaseLock
<1>4. ASSUME NEW t \in Tasks, OpenSucceeds(t)
      PROVE  Accounted'
  BY <1>0, <1>4 DEF OpenSucceeds, Suspended
<1>5. ASSUME NEW t \in Tasks, SubscribeSucceeds(t)
      PROVE  Accounted'
  BY <1>0, <1>5
     DEF SubscribeSucceeds, Suspended, LeaveConnect, ReleaseLock,
         ReturnConnect
<1>6. ASSUME NEW t \in Tasks, ConnectRaises(t)
      PROVE  Accounted'
  BY <1>0, <1>6 DEF ConnectRaises
<1>7. ASSUME NEW t \in Tasks, ConnFail(t)
      PROVE  Accounted'
  BY <1>0, <1>7 DEF ConnFail, At, LeaveConnect, ReleaseLock, ReturnConnect
<1>8. ASSUME NEW t \in Tasks, FailClosed(t)
      PROVE  Accounted'
  BY <1>0, <1>8
     DEF FailClosed, Suspended, LeaveConnect, ReleaseLock, ReturnConnect
<1>9. ASSUME NEW t \in Tasks, DiscBody(t)
      PROVE  Accounted'
  BY <1>0, <1>9 DEF DiscBody, At, FinishDisconnect
<1>10. ASSUME NEW t \in Tasks, DiscClosed(t)
      PROVE  Accounted'
  BY <1>0, <1>10 DEF DiscClosed, Suspended, FinishDisconnect
<1>11. ASSUME NEW t \in Tasks, CallConnect(t)
      PROVE  Accounted'
  BY <1>0, <1>11 DEF CallConnect, Suspended, Connect, ReturnConnect, TakeLock
<1>12. ASSUME NEW t \in Tasks, CallDisconnect(t)
      PROVE  Accounted'
  BY <1>0, <1>12 DEF CallDisconnect, Suspended, TakeLock
<1>13. ASSUME NEW t \in Tasks, EndCaller(t)
      PROVE  Accounted'
  BY <1>0, <1>13 DEF EndCaller, Suspended
<1>14. ASSUME NEW t \in Tasks, Cancel(t)
      PROVE  Accounted'
  BY <1>0, <1>14 DEF Cancel
<1>15. ASSUME NEW t \in Tasks, CancelQueued(t)
      PROVE  Accounted'
  BY <1>0, <1>15 DEF CancelQueued
<1>16. ASSUME StreamerConnect
      PROVE  Accounted'
  BY <1>0, <1>16 DEF StreamerConnect, At, Connect, ReturnConnect, TakeLock
<1>17. ASSUME StartStream
      PROVE  Accounted'
  BY <1>0, <1>17 DEF StartStream, Suspended
<1>18. ASSUME Loop
      PROVE  Accounted'
  BY <1>0, <1>18 DEF Loop, At
<1>19. ASSUME Receive
      PROVE  Accounted'
  BY <1>0, <1>19 DEF Receive, At
<1>20. ASSUME RecvMessage
      PROVE  Accounted'
  BY <1>0, <1>20 DEF RecvMessage, Suspended
<1>21. ASSUME RecvRaises
      PROVE  Accounted'
  BY <1>0, <1>21 DEF RecvRaises, Suspended
<1>22. ASSUME ConsumerResumes
      PROVE  Accounted'
  BY <1>0, <1>22 DEF ConsumerResumes, Suspended
<1>23. ASSUME ConsumerStops
      PROVE  Accounted'
  BY <1>0, <1>23 DEF ConsumerStops, Suspended
<1>24. ASSUME Handler
      PROVE  Accounted'
  BY <1>0, <1>24 DEF Handler, At
<1>25. ASSUME HandClosed
      PROVE  Accounted'
  BY <1>0, <1>25 DEF HandClosed, Suspended
<1>26. ASSUME Retry
      PROVE  Accounted'
  BY <1>0, <1>26 DEF Retry, At
<1>27. ASSUME GiveUp
      PROVE  Accounted'
  BY <1>0, <1>27 DEF GiveUp, At
<1>28. ASSUME BackoffEnds
      PROVE  Accounted'
  BY <1>0, <1>28 DEF BackoffEnds, Suspended
<1>29. ASSUME RetryFailed
      PROVE  Accounted'
  BY <1>0, <1>29 DEF RetryFailed, At
<1>30. ASSUME UNCHANGED <<connectorVars, pc, awaits, outcome, connectingTask>>,
             open' \subseteq open
      PROVE  Accounted'
  BY <1>30 DEF Uncancelled
<1> QED
  BY <1>1, <1>2, <1>3, <1>4, <1>5, <1>6, <1>7, <1>8, <1>9, <1>10, <1>11,
     <1>12, <1>13, <1>14, <1>15, <1>16, <1>17, <1>18, <1>19, <1>20, <1>21,
     <1>22, <1>23, <1>24, <1>25, <1>26, <1>27, <1>28, <1>29, <1>30
     DEF Next, ConnectStep, DisconnectStep, CallStep, StreamStep,
         ConsumerStep, SocketCloses, Terminated, vars, taskVars

LEMMA SocketNext == SocketInv /\ [Next]_vars => SocketInv'
<1> SUFFICES ASSUME SocketInv, [Next]_vars
             PROVE  SocketInv'
  OBVIOUS
<1>1. AttemptInv' /\ CancelledGone'
  BY AttemptNext, CancelledNext DEF SocketInv, AttemptInv, LockInv
<1> QED
  BY <1>1, OwnNext, AccountedNext DEF SocketInv

\* However the calls, the attempts and the losses of any number of tasks
\* interleave, a stream that waits for messages waits on the connector's own
\* socket, unless a task was cancelled.
THEOREM StreamReadsOwnSocket == Spec => []ReadsOwnSocket
<1>1. Spec => []SocketInv
  BY SocketInit, SocketNext, PTL DEF Spec
<1> QED
  BY <1>1, PTL DEF SocketInv

==============================================================================
