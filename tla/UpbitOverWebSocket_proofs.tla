---------------------- MODULE UpbitOverWebSocket_proofs ----------------------
(***************************************************************************)
(* Theorems about UpbitWebSocketConnector as it runs, for every set of     *)
(* callers, subscribers, sockets and codes: it implements the registry of  *)
(* UpbitConnector over the sockets BaseWebSocket opens and drops.          *)
(***************************************************************************)
EXTENDS UpbitOverWebSocket, BaseWebSocket_proofs

USE DEF Tasks

\* The theorems of the registry, over the real connector's socket.
Proved == INSTANCE UpbitConnector_proofs WITH websocket <- socketStatus

\* They are about the same steps as ImplementsRegistry.
LEMMA SameRegistry ==
  /\ Registry!Init <=> Proved!Init
  /\ [Registry!Next]_(Registry!vars) <=> [Proved!Next]_(Proved!vars)
  /\ Registry!SentOnce <=> Proved!SentOnce
<1>1. Registry!Init <=> Proved!Init
  BY DEF Registry!Init, Proved!Init
<1>2. Registry!vars' = Registry!vars <=> Proved!vars' = Proved!vars
  BY DEF Registry!vars, Proved!vars, Registry!sendVars, Proved!sendVars,
         Registry!socketVars, Proved!socketVars
<1>3. Registry!SentOnce <=> Proved!SentOnce
  BY DEF Registry!SentOnce, Proved!SentOnce, Registry!SendingPCs,
         Proved!SendingPCs
<1> USE DEF Registry!sendVars, Proved!sendVars, Registry!socketVars,
            Proved!socketVars, Registry!SocketLost,
            Proved!SocketLost, Registry!Store, Proved!Store,
            Registry!NewTicket, Proved!NewTicket, Registry!SendingPCs,
            Proved!SendingPCs, Registry!SubTypes, Proved!SubTypes,
            Registry!Sent, Proved!Sent, Registry!Tickets, Proved!Tickets
<1>4. Registry!Open <=> Proved!Open
  BY DEF Registry!Open, Proved!Open, Registry!SendAll, Proved!SendAll
<1>5. Registry!SendingStep <=> Proved!SendingStep
  BY DEF Registry!SendingStep, Proved!SendingStep, Registry!TradeSeeded,
         Proved!TradeSeeded, Registry!OrderbookSeeded,
         Proved!OrderbookSeeded, Registry!ResendNext, Proved!ResendNext,
         Registry!SendingEnds, Proved!SendingEnds
<1>6. /\ Registry!SocketCloses <=> Proved!SocketCloses
      /\ Registry!Cleanup <=> Proved!Cleanup
      /\ Registry!Left <=> Proved!Left
  BY DEF Registry!SocketCloses, Proved!SocketCloses, Registry!Cleanup,
         Proved!Cleanup, Registry!Left, Proved!Left
<1>7. \A u, type, codes :
        Registry!Subscribe(u, type, codes) <=> Proved!Subscribe(u, type, codes)
  BY DEF Registry!Subscribe, Proved!Subscribe
<1>8. \A u : /\ Registry!SubscribeSent(u) <=> Proved!SubscribeSent(u)
             /\ Registry!SubscribeCancelled(u) <=> Proved!SubscribeCancelled(u)
  BY DEF Registry!SubscribeSent, Proved!SubscribeSent,
         Registry!SubscribeCancelled, Proved!SubscribeCancelled
<1>9. \A type, code :
        Registry!Message(type, code) <=> Proved!Message(type, code)
  BY DEF Registry!Message, Proved!Message, Registry!MarkActive,
         Proved!MarkActive, Registry!Matches, Proved!Matches
<1>10. Registry!Next <=> Proved!Next
  BY <1>4, <1>5, <1>6, <1>7, <1>8, <1>9 DEF Registry!Next, Proved!Next
<1> QED
  BY <1>1, <1>2, <1>3, <1>10

LEMMA RegistryStepKeeps ==
  Proved!RegistryInv /\ [Registry!Next]_(Registry!vars) => Proved!RegistryInv'
  BY MarketsAssumption, SameRegistry, Proved!RegistryNext
     DEF Proved!MarketsKnown

------------------------------------------------------------------------------
(* The connector below.                                                    *)

\* Every step is a step of BaseWebSocket, or leaves it alone.
LEMMA BaseStep == [UpbitNext]_upbitVars => [Next]_vars
  BY DEF UpbitNext, upbitVars, Opened, SendsNext, Subscribed, SendingFails,
         Parsed, OtherStep, Subscribe, Next, ConnectStep, CallStep, ConsumerStep

\* What a step that sends nothing does to the connection, at most.
Undisturbing ==
  /\ \A t \in Tasks :
       /\ pc'[t] = "subscribing" <=> pc[t] = "subscribing"
       /\ pc[t] = "subscribing" => awaits'[t] = awaits[t]
  /\ state' = CONNECTED => state = CONNECTED
  /\ \/ websocket' = websocket /\ open' \subseteq open
     \/ websocket' = None /\ open' = open

\* The move of a task that is not sending, to a point where it is not either.
LEMMA QuietMove ==
  ASSUME TypeOK, NEW t \in Tasks, NEW label, NEW awaited,
         Move(t, label, awaited),
         pc[t] # "subscribing", label # "subscribing",
         state' = CONNECTED => state = CONNECTED,
         websocket' \in {websocket, None}, open' = open
  PROVE  Undisturbing
  BY Moved DEF Undisturbing

LEMMA OtherMoves == LockInv /\ OtherStep => Undisturbing
<1> SUFFICES ASSUME LockInv, OtherStep
             PROVE  Undisturbing
  OBVIOUS
<1>0. TypeOK
  BY DEF LockInv
<1> USE <1>0, QuietMove
    DEF Continue, Suspend, Finish, connectorVars, Transition, CONNECTED,
        CONNECTING, FAILED, DISCONNECTED, RECONNECTING
<1>1. ASSUME NEW t \in Tasks, LockGranted(t)
      PROVE  Undisturbing
  BY <1>1 DEF LockGranted
<1>2. ASSUME NEW t \in Tasks, AwaitedTaskEnds(t)
      PROVE  Undisturbing
  BY <1>2 DEF AwaitedTaskEnds, Suspended, ReturnConnect, TakeLock
<1>3. ASSUME NEW t \in Tasks, ConnBody(t)
      PROVE  Undisturbing
  BY <1>3 DEF ConnBody, At, ReturnConnect, ReleaseLock
<1>4. ASSUME NEW t \in Tasks, ConnectRaises(t), pc[t] # "subscribing"
      PROVE  Undisturbing
  BY <1>4 DEF ConnectRaises
<1>5. ASSUME NEW t \in Tasks, ConnFail(t)
      PROVE  Undisturbing
  BY <1>5 DEF ConnFail, At, LeaveConnect, ReleaseLock, ReturnConnect
<1>6. ASSUME NEW t \in Tasks, FailClosed(t)
      PROVE  Undisturbing
  BY <1>6 DEF FailClosed, Suspended, LeaveConnect, ReleaseLock, ReturnConnect
<1>7. ASSUME NEW t \in Tasks, DiscBody(t)
      PROVE  Undisturbing
  BY <1>7 DEF DiscBody, At, FinishDisconnect, ReleaseLock
<1>8. ASSUME NEW t \in Tasks, DiscClosed(t)
      PROVE  Undisturbing
  BY <1>8 DEF DiscClosed, Suspended, FinishDisconnect, ReleaseLock
<1>9. ASSUME NEW t \in Tasks, CallConnect(t)
      PROVE  Undisturbing
  BY <1>9 DEF CallConnect, Suspended, Connect, ReturnConnect, TakeLock
<1>10. ASSUME NEW t \in Tasks, CallDisconnect(t)
      PROVE  Undisturbing
  BY <1>10 DEF CallDisconnect, Suspended, TakeLock
<1>11. ASSUME NEW t \in Tasks, EndCaller(t)
      PROVE  Undisturbing
  BY <1>11 DEF EndCaller, Suspended
<1>12. ASSUME NEW t \in Tasks, Cancel(t), pc[t] # "subscribing"
      PROVE  Undisturbing
  BY <1>12 DEF Cancel
<1>13. ASSUME NEW t \in Tasks, CancelQueued(t)
      PROVE  Undisturbing
  BY <1>13 DEF CancelQueued
<1>14. ASSUME StreamerConnect
      PROVE  Undisturbing
  BY <1>14 DEF StreamerConnect, At, Connect, ReturnConnect, TakeLock
<1>15. ASSUME StartStream
      PROVE  Undisturbing
  BY <1>15 DEF StartStream, Suspended
<1>16. ASSUME Loop
      PROVE  Undisturbing
  BY <1>16 DEF Loop, At
<1>17. ASSUME Receive
      PROVE  Undisturbing
  BY <1>17 DEF Receive, At
<1>18. ASSUME RecvRaises
      PROVE  Undisturbing
  BY <1>18 DEF RecvRaises, Suspended
<1>19. ASSUME ConsumerResumes
      PROVE  Undisturbing
  BY <1>19 DEF ConsumerResumes, Suspended
<1>20. ASSUME ConsumerStops
      PROVE  Undisturbing
  BY <1>20 DEF ConsumerStops, Suspended
<1>21. ASSUME Handler
      PROVE  Undisturbing
  BY <1>21 DEF Handler, At
<1>22. ASSUME HandClosed
      PROVE  Undisturbing
  BY <1>22 DEF HandClosed, Suspended
<1>23. ASSUME Retry
      PROVE  Undisturbing
  BY <1>23 DEF Retry, At
<1>24. ASSUME GiveUp
      PROVE  Undisturbing
  BY <1>24 DEF GiveUp, At
<1>25. ASSUME BackoffEnds
      PROVE  Undisturbing
  BY <1>25 DEF BackoffEnds, Suspended
<1>26. ASSUME RetryFailed
      PROVE  Undisturbing
  BY <1>26 DEF RetryFailed, At
<1>30. ASSUME UNCHANGED <<connectorVars, pc, awaits>>, open' \subseteq open
      PROVE  Undisturbing
  BY <1>30 DEF Undisturbing
<1> QED
  BY <1>1, <1>2, <1>3, <1>4, <1>5, <1>6, <1>7, <1>8, <1>9, <1>10, <1>11,
     <1>12, <1>13, <1>14, <1>15, <1>16, <1>17, <1>18, <1>19, <1>20, <1>21,
     <1>22, <1>23, <1>24, <1>25, <1>26, <1>30
     DEF OtherStep, DisconnectStep, StreamStep, SocketCloses, Terminated,
         vars, taskVars

\* It is a BaseWebSocket, whatever it sends: every theorem about that one holds
\* of it.
THEOREM UpbitIsAConnector == UpbitSpec => Spec
  BY BaseStep, PTL DEF UpbitSpec, UpbitInit, Spec

------------------------------------------------------------------------------
(* The registry above.                                                     *)

\* The registry's attempt is sending exactly while a task of the connector is,
\* and is otherwise what the connection is.
AttemptsAgree ==
  /\ attempt \in Registry!SendingPCs <=>
       \E t \in Tasks : pc[t] = "subscribing"
  /\ attempt \notin Registry!SendingPCs => attempt = Standing

\* An attempt sends over the connector's socket, or over one that is forgotten.
SendsOnOwn ==
  \A t \in Tasks :
    pc[t] = "subscribing" => websocket \in {awaits[t], None}

UpbitInv ==
  /\ LockInv
  /\ Proved!RegistryInv
  /\ AttemptsAgree
  /\ SendsOnOwn

LEMMA UpbitInitial == UpbitInit => UpbitInv /\ Registry!Init
<1> SUFFICES ASSUME UpbitInit
             PROVE  UpbitInv
  BY DEF UpbitInit
<1>1. LockInv
  BY LockInit DEF UpbitInit
<1>2. Proved!RegistryInv
  BY SameRegistry, Proved!RegistryInit DEF UpbitInit
<1>3. AttemptsAgree /\ SendsOnOwn
  BY TasksAssumption
     DEF UpbitInit, Init, Registry!Init, AttemptsAgree, SendsOnOwn, Standing,
         Registry!SendingPCs, DISCONNECTED, CONNECTED
<1> QED
  BY <1>1, <1>2, <1>3 DEF UpbitInv

\* Whoever sends is inside the lock, alone, and the connection is not up.
LEMMA SenderAlone ==
  ASSUME LockInv, NEW t \in Tasks, pc[t] \in {"opening", "subscribing"}
  PROVE  /\ state # CONNECTED
         /\ \A u \in Tasks \ {t} : pc[u] \notin {"opening", "subscribing"}
<1>1. connectingTask = t /\ t # None
  BY TasksAssumption DEF LockInv, SingleFlight, FlightPCs
<1>2. state # CONNECTED
  BY <1>1 DEF LockInv, NoFlightWhileConnected
<1>3. \A u \in Tasks \ {t} : pc[u] \notin {"opening", "subscribing"}
  BY Alone DEF CriticalPCs
<1> QED
  BY <1>2, <1>3

LEMMA UpbitStep ==
  UpbitInv /\ [UpbitNext]_upbitVars =>
    [Registry!Next]_(Registry!vars) /\ AttemptsAgree' /\ SendsOnOwn'
<1> DEFINE Goal ==
      [Registry!Next]_(Registry!vars) /\ AttemptsAgree' /\ SendsOnOwn'
<1> SUFFICES ASSUME UpbitInv, [UpbitNext]_upbitVars
             PROVE  Goal
  OBVIOUS
<1>0. /\ TypeOK /\ LockInv /\ TypeOK'
      /\ None \notin open /\ None \notin open'
  BY BaseStep, TypeNext, TasksAssumption DEF UpbitInv, LockInv, TypeOK
<1> USE DEF Registry!SendingPCs, Registry!vars, Registry!sendVars,
            Registry!socketVars, socketVars
<1>1. ASSUME NEW t \in Tasks, Opened(t)
      PROVE  Goal
  <2>1. /\ pc[t] = "opening" /\ pc'[t] = "subscribing"
        /\ awaits'[t] = websocket'
        /\ websocket' \in open'
        /\ \A u \in Tasks \ {t} : pc'[u] = pc[u]
    BY <1>0, <1>1, Moved DEF Opened, OpenSucceeds, Suspended, Suspend
  <2>2. /\ \A u \in Tasks : pc[u] # "subscribing"
        /\ state # CONNECTED
    BY <1>0, <2>1, SenderAlone
  <2>3. attempt = "down"
    BY <2>2 DEF UpbitInv, AttemptsAgree, Standing
  <2>4. socketStatus' = "open"
    BY <1>0, <2>1 DEF socketStatus
  <2>5. Registry!Open /\ attempt' \in Registry!SendingPCs
    BY <1>1, <2>3, <2>4 DEF Opened, Registry!Open, Registry!SendAll
  <2>6. AttemptsAgree' /\ SendsOnOwn'
    BY <2>1, <2>2, <2>5 DEF AttemptsAgree, SendsOnOwn
  <2> QED
    BY <2>5, <2>6 DEF Registry!Next
<1>2. ASSUME NEW t \in Tasks, SendsNext(t)
      PROVE  Goal
  <2>1. UNCHANGED <<pc, awaits, websocket, open, state>>
    BY <1>2 DEF SendsNext, vars, connectorVars, taskVars
  <2>2. attempt \in Registry!SendingPCs /\ attempt' \in Registry!SendingPCs
    BY <1>2 DEF SendsNext, Registry!TradeSeeded, Registry!ResendNext
  <2>3. Registry!SendingStep
    BY <1>2, <2>1 DEF SendsNext, Registry!SendingStep, socketStatus
  <2> QED
    BY <2>1, <2>2, <2>3
       DEF UpbitInv, AttemptsAgree, SendsOnOwn, Registry!Next
<1>3. ASSUME NEW t \in Tasks, Subscribed(t)
      PROVE  Goal
  <2>1. /\ pc[t] = "subscribing" /\ pc'[t] # "subscribing"
        /\ \A u \in Tasks \ {t} : pc'[u] = pc[u]
        /\ UNCHANGED <<websocket, open>>
        /\ state' = CONNECTED
    BY <1>0, <1>3, Moved
       DEF Subscribed, SubscribeSucceeds, Suspended, LeaveConnect,
           ReturnConnect,
           Continue, Finish, Transition
  <2>2. \A u \in Tasks : pc'[u] # "subscribing"
    BY <1>0, <2>1, SenderAlone
  <2>3. Registry!SendingStep
    BY <1>3, <2>1 DEF Subscribed, Registry!SendingStep, socketStatus
  <2>4. CASE attempt' = "up" /\ socketStatus = "open"
    BY <2>1, <2>2, <2>3, <2>4
       DEF AttemptsAgree, SendsOnOwn, Standing, socketStatus, Registry!Next
  <2>5. CASE attempt' = "down" /\ awaits[t] # websocket
    <3>1. websocket = None
      BY <2>1, <2>5 DEF UpbitInv, SendsOnOwn
    <3> QED
      BY <1>0, <2>1, <2>2, <2>3, <2>5, <3>1
         DEF AttemptsAgree, SendsOnOwn, Standing, Registry!Next
  <2> QED
    BY <1>3, <2>4, <2>5
       DEF Subscribed, Registry!OrderbookSeeded, Registry!ResendNext,
           Registry!SendingEnds, Registry!Sent
<1>4. ASSUME NEW t \in Tasks, SendingFails(t)
      PROVE  Goal
  <2>1. /\ pc[t] = "subscribing" /\ pc'[t] # "subscribing"
        /\ \A u \in Tasks \ {t} : pc'[u] = pc[u]
        /\ UNCHANGED <<state, websocket, open>>
    BY <1>0, <1>4, Moved
       DEF SendingFails, ConnectRaises, Cancel, Continue, Finish,
           connectorVars
  <2>2. /\ \A u \in Tasks : pc'[u] # "subscribing"
        /\ state # CONNECTED
    BY <1>0, <2>1, SenderAlone
  <2>3. Registry!SendingStep /\ attempt' = "down"
    BY <1>4, <2>1
       DEF SendingFails, Registry!SendingStep, Registry!SendingEnds,
           socketStatus
  <2> QED
    BY <2>1, <2>2, <2>3
       DEF AttemptsAgree, SendsOnOwn, Standing, Registry!Next
<1>5. ASSUME Parsed
      PROVE  Goal
  <2>1. /\ UNCHANGED <<state, websocket, open>>
        /\ \A u \in Tasks : /\ pc'[u] = "subscribing" <=> pc[u] = "subscribing"
                            /\ pc[u] = "subscribing" => awaits'[u] = awaits[u]
    BY <1>0, <1>5, Moved
       DEF Parsed, RecvMessage, Suspended, Continue, Suspend, connectorVars
  <2>2. UNCHANGED <<socketStatus, attempt, position, size, registered, sending,
                    abandoned>>
    BY <1>5, <2>1 DEF Parsed, socketStatus
  <2>3. AttemptsAgree' /\ SendsOnOwn'
    BY <2>1, <2>2 DEF UpbitInv, AttemptsAgree, SendsOnOwn, Standing
  <2>4. [Registry!Next]_(Registry!vars)
    <3>1. CASE UNCHANGED subscriptions
      BY <2>2, <3>1
    <3>2. ASSUME NEW type \in Registry!SubTypes, NEW code \in Markets,
                 Registry!MarkActive(type, code)
          PROVE  Registry!Next
      BY <2>2, <3>2, MarketsAssumption DEF Registry!Message, Registry!Next
    <3> QED
      BY <1>5, <3>1, <3>2 DEF Parsed
  <2> QED
    BY <2>3, <2>4
<1>6. ASSUME OtherStep
      PROVE  Goal
  <2>1. Undisturbing /\ Follow
    BY <1>0, <1>6, OtherMoves DEF OtherStep
  <2>2. AttemptsAgree' /\ SendsOnOwn'
    BY <2>1
       DEF UpbitInv, AttemptsAgree, SendsOnOwn, Undisturbing, Follow, Standing
  <2>3. UNCHANGED <<subscriptions, position, size>>
    BY <2>1 DEF Follow
  <2>4. attempt' =
          IF attempt \in Registry!SendingPCs THEN attempt ELSE Standing'
    BY <2>1 DEF Follow
  <2>5. attempt \notin Registry!SendingPCs => attempt = Standing
    BY DEF UpbitInv, AttemptsAgree
  <2>6. CASE websocket' = websocket /\ websocket \in open'
    <3>1. /\ UNCHANGED <<registered, sending, abandoned, socketStatus>>
          /\ websocket \in open
      BY <1>0, <2>1, <2>6 DEF Follow, Undisturbing, socketStatus
    <3>2. CASE attempt' = attempt
      BY <2>2, <2>3, <3>1, <3>2
    <3>3. CASE attempt' # attempt
      <4>1. attempt = "up" /\ attempt' = "down"
        BY <2>1, <2>4, <2>5, <2>6, <3>1, <3>3 DEF Standing, Undisturbing
      <4> QED
        BY <2>2, <2>3, <3>1, <4>1 DEF Registry!Left, Registry!Next
    <3> QED
      BY <2>2, <3>2, <3>3
  <2>7. CASE ~(websocket' = websocket /\ websocket \in open')
    <3>1. Registry!SocketLost
      BY <2>1, <2>7 DEF Follow
    <3>2. attempt' = IF attempt = "up" THEN "down" ELSE attempt
      BY <1>0, <2>1, <2>4, <2>5, <2>7 DEF Standing, Undisturbing
    <3>3. CASE websocket' = websocket /\ websocket \in open
      <4>1. socketStatus = "open" /\ socketStatus' = "closed"
        BY <1>0, <2>7, <3>3 DEF socketStatus
      <4> QED
        BY <2>2, <2>3, <3>1, <3>2, <4>1
           DEF Registry!SocketCloses, Registry!Next
    <3>4. CASE websocket' # websocket
      <4>1. socketStatus # "none" /\ socketStatus' = "none"
        BY <1>0, <2>1, <3>4 DEF Undisturbing, socketStatus
      <4> QED
        BY <2>2, <2>3, <3>1, <3>2, <4>1 DEF Registry!Cleanup, Registry!Next
    <3>5. CASE websocket' = websocket /\ websocket \notin open
      <4>1. socketStatus # "open" /\ UNCHANGED socketStatus
        BY <1>0, <2>1, <3>5 DEF Undisturbing, socketStatus
      <4>2. /\ attempt # "up"
            /\ registered = {} /\ abandoned = {}
            /\ sending = [u \in Subscribers |-> 0]
        BY <4>1
           DEF UpbitInv, Proved!RegistryInv, Proved!LostWithSocket,
               Proved!TypeOK
      <4> QED
        BY <2>2, <2>3, <3>1, <3>2, <4>1, <4>2 DEF Registry!SocketLost
    <3> QED
      BY <3>3, <3>4, <3>5
  <2> QED
    BY <2>6, <2>7
<1>7. ASSUME NEW u \in Subscribers, Subscribe(u)
      PROVE  Goal
  <2>1. UNCHANGED <<pc, awaits, websocket, open, state>>
    BY <1>7 DEF Subscribe, vars, connectorVars, taskVars
  <2>2. UNCHANGED attempt
    BY <1>7 DEF Subscribe, Registry!SubscribeSent, Registry!SubscribeCancelled,
                Registry!Subscribe
  <2> QED
    BY <1>7, <2>1, <2>2
       DEF UpbitInv, AttemptsAgree, SendsOnOwn, Standing, Subscribe,
           Registry!Next
<1>8. ASSUME UNCHANGED upbitVars
      PROVE  Goal
  BY <1>8
     DEF upbitVars, vars, connectorVars, taskVars, registryVars, UpbitInv,
         AttemptsAgree, SendsOnOwn, Standing, socketStatus
<1> HIDE DEF Goal
<1> QED
  BY <1>1, <1>2, <1>3, <1>4, <1>5, <1>6, <1>7, <1>8 DEF UpbitNext

LEMMA UpbitNextKeeps == UpbitInv /\ [UpbitNext]_upbitVars => UpbitInv'
  BY UpbitStep, RegistryStepKeeps, BaseStep, LockNext DEF UpbitInv

THEOREM UpbitInvariant == UpbitSpec => []UpbitInv
  BY UpbitInitial, UpbitNextKeeps, PTL DEF UpbitSpec

\* The connector with its sockets, tasks and reconnections is the registry over
\* an abstract socket: nothing BaseWebSocket does, in any order, makes it send
\* or lose a subscription in a way UpbitConnector does not.
THEOREM RegistryImplemented == UpbitSpec => ImplementsRegistry
<1>1. UpbitSpec => [][Registry!Next]_(Registry!vars)
  BY UpbitInvariant, UpbitStep, PTL DEF UpbitSpec
<1> QED
  BY <1>1, UpbitInitial, PTL DEF UpbitSpec, ImplementsRegistry, Registry!Spec

\* A connection that is up over an open socket serves the whole registry, but for
\* what a subscribe() cancelled on that socket left unsent.
THEOREM ConnectedIsServed == UpbitSpec => []ServedWhenConnected
<1>1. UpbitInv => ServedWhenConnected
  <2> SUFFICES ASSUME UpbitInv, state = CONNECTED, websocket \in open
               PROVE  \A k \in DOMAIN subscriptions :
                        \/ k \in registered \cup abandoned
                        \/ \E u \in Subscribers : sending[u] = k
    BY DEF ServedWhenConnected
  <2>1. \A t \in Tasks : pc[t] # "subscribing"
    BY SenderAlone DEF UpbitInv
  <2>2. attempt = "up"
    BY <2>1 DEF UpbitInv, AttemptsAgree, Standing
  <2> QED
    BY <2>2, Proved!RegistryServes
       DEF UpbitInv, Proved!RestoredWhenUp, Proved!Tickets
<1> QED
  BY <1>1, UpbitInvariant, PTL

\* No subscription goes twice over one socket.
THEOREM SendsOncePerSocket == UpbitSpec => []SentOncePerSocket
<1>1. UpbitInv => SentOncePerSocket
  BY Proved!RegistryServes, SameRegistry DEF UpbitInv, SentOncePerSocket
<1> QED
  BY <1>1, UpbitInvariant, PTL

\* Both the connector and its registry keep their types.
THEOREM UpbitTypes == UpbitSpec => []UpbitTypeOK
<1>1. Proved!TypeOK => Registry!TypeOK
  BY DEF Proved!TypeOK, Registry!TypeOK, Proved!Entries, Registry!Entries,
         Proved!SubTypes, Registry!SubTypes, Proved!Statuses, Registry!Statuses,
         Proved!SendingPCs, Registry!SendingPCs, Proved!Tickets,
         Registry!Tickets
<1>2. UpbitInv => UpbitTypeOK
  BY <1>1 DEF UpbitInv, LockInv, Proved!RegistryInv, UpbitTypeOK
<1> QED
  BY <1>2, UpbitInvariant, PTL

==============================================================================
