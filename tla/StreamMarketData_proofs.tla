------------------------- MODULE StreamMarketData_proofs -------------------------
(***************************************************************************)
(* Theorems about the use case as a process, for every set of requests and *)
(* frames, any number of messages and any limits: it implements both the   *)
(* adapter and the service it is made of, and what that makes of the       *)
(* messages, the failures, the flush and the end of the use case.          *)
(***************************************************************************)
EXTENDS StreamMarketData, KafkaProducer_proofs, FiniteSetTheorems

\* The theorems of the service, for the one task and the one loop of a process.
Proved == INSTANCE IngestionService_proofs
  WITH Callers <- {Main}, MaxStarts <- 1, pc <- mainPC

USE LimitsAssumption, PublishersAssumption, ServiceAssumption

------------------------------------------------------------------------------
(* The inductive invariant.                                                *)

\* Where the use case is, where its task is in the service and how far the loop
\* is belong together.
Control ==
  /\ DOMAIN mainPC = {Main} /\ DOMAIN waitsFor = {Main} /\ DOMAIN loop = {1}
  /\ loop[1] \in {"none"} \cup Service!Alive \cup Service!Ended
  /\ useCase \in {"called", "refused", "starting", "streaming", "leaving",
                  "stopping", "ended"}
  /\ useCase \notin {"starting", "stopping"} => mainPC[Main] = "idle"
  /\ useCase = "starting" => mainPC[Main] \in {"starting", "connecting"}
  /\ useCase = "stopping" =>
       mainPC[Main] \in {"stopping", "waiting", "cancelling", "flushing",
                         "disconnecting"}
  /\ serviceLock = (IF mainPC[Main] = "connecting" THEN Main ELSE None)
  /\ backgroundTask = (IF loop[1] = "none" THEN 0 ELSE 1)
  /\ useCase \in {"called", "refused", "starting"} => loop[1] = "none"
  /\ useCase = "streaming" => loop[1] # "none"

\* The service runs from the creation of its loop to the stop.
Running ==
  /\ serviceRunning <=>
       /\ loop[1] # "none"
       /\ useCase \in {"streaming", "leaving"} \/ mainPC[Main] = "stopping"
  /\ loop[1] = "none" => ~connected

\* A start() that left its socket is over, and made no loop.
SocketLeft ==
  /\ socketLeft \in BOOLEAN
  /\ socketLeft => /\ loop[1] = "none"
                   /\ useCase \in {"leaving", "stopping", "ended"}

\* What the loop is when the stop is beyond waiting for it.
Stopping ==
  /\ mainPC[Main] \in {"waiting", "cancelling", "flushing", "disconnecting"} =>
       waitsFor[Main] = 1 /\ loop[1] # "none"
  /\ mainPC[Main] = "cancelling" => loop[1] = "cancelled"
  /\ mainPC[Main] \in {"flushing", "disconnecting"} =>
       loop[1] \in {"returned", "cancelled"}
  /\ loop[1] = "cancelled" =>
       \/ mainPC[Main] \in {"cancelling", "flushing", "disconnecting"}
       \/ useCase = "ended"
  /\ useCase = "ended" =>
       \/ loop[1] \in {"none", "raised"}
       \/ loop[1] \in {"returned", "cancelled"} /\ ~connected

\* The loop is the adapter's publisher.
LoopPublishes ==
  /\ loop[1] = "publishing" <=> pc[1] # "idle"
  /\ message # None => loop[1] = "publishing"

\* What the flush of the stop said still holds: no loop adds to the queue.
FlushIsLast ==
  /\ unsent # None =>
       /\ unsent \in 0 .. Cardinality(Messages)
       /\ mainPC[Main] = "disconnecting" \/ useCase = "ended"
       /\ loop[1] \notin Service!Alive
  /\ unsent = 0 => queue = {}

\* The message being published was made of a frame that passed every check.
MessageChecked ==
  /\ request \in Requests
  /\ useCase \notin {"called", "refused"} => AcceptsMarkets(request)
  /\ message # None =>
       \E frame \in Frames :
         /\ Parses(frame, markets)
         /\ Converts(frame)
         /\ message = MarketDataMessage(frame, Now)
         /\ ConvertsToProto(message)

\* The calls of publish() that ended, and those of them that returned.
CallsEnded == {k \in 1 .. sent[1] : outcome[<<1, k>>] # "none"}
CallsAccepted == {k \in CallsEnded : outcome[<<1, k>>] = "returned"}

After(calls, m) == {k \in calls : k > m}

\* No call after the m-th was accepted, and the counter counts those that ended.
Counts(m) ==
  /\ After(CallsAccepted, m) = {}
  /\ consecutiveFailures = Cardinality(After(CallsEnded, m))

FailuresCounted ==
  loop[1] # "cancelled" => \E m \in {0} \cup CallsAccepted : Counts(m)

ProcessInv ==
  /\ ProducerInv
  /\ Control
  /\ Running
  /\ SocketLeft
  /\ Stopping
  /\ LoopPublishes
  /\ FlushIsLast
  /\ MessageChecked
  /\ FailuresCounted

------------------------------------------------------------------------------
(* The process implements the adapter.                                     *)

LEMMA AdapterStep == [ProcessNext]_processVars => [Next]_vars
<1> SUFFICES ASSUME [ProcessNext]_processVars
             PROVE  Next \/ UNCHANGED vars
  OBVIOUS
<1>0. 1 \in Publishers
  OBVIOUS
<1>1. CASE UNCHANGED processVars
  BY <1>1 DEF processVars
<1>2. CASE Validate \/ Start \/ Leave \/ Interrupt \/ ConnectionChanges
  BY <1>2 DEF Validate, Start, Leave, Interrupt, ConnectionChanges
<1>3. CASE Stop
  BY <1>0, <1>3 DEF Stop, CancelLoop, FlushAdapter, Next
<1>4. ASSUME NEW frame \in Frames, Deliver(frame)
      PROVE  Next \/ UNCHANGED vars
  BY <1>0, <1>4 DEF Deliver, Next
<1>5. CASE Publish
  BY <1>0, <1>5 DEF Publish, Next
<1>6. CASE AdapterChanges
  BY <1>6 DEF AdapterChanges, Next
<1> QED
  BY <1>1, <1>2, <1>3, <1>4, <1>5, <1>6 DEF ProcessNext, MainStep

\* Whatever the use case and its service do, the adapter sees calls it may get:
\* the process implements KafkaProducer.
THEOREM AdapterImplemented == ProcessSpec => Spec
<1>1. ProcessInit => Init
  BY DEF ProcessInit
<1> QED
  BY <1>1, AdapterStep, PTL DEF ProcessSpec, Spec

\* So publish() returns for exactly the messages produce() took, each of them
\* once, also when the stop of the service cancels it.
THEOREM ProcessPublishesOnce == ProcessSpec => []AcceptedOnce
  BY AdapterImplemented, PublishedOnce, PTL

\* And nothing of the process reaches a producer that close() has dropped.
THEOREM ProcessRespectsClose == ProcessSpec => NothingAfterClose
  BY AdapterImplemented, ClosedIsFinal, PTL

\* The whole process publishes through a MessagePublisher.
THEOREM ProcessPublishes == ProcessSpec => ImplementsPublisher
  BY AdapterImplemented, PublisherImplemented, PTL

------------------------------------------------------------------------------
(* The inductive invariant holds at first.                                 *)

LEMMA MessagesFinite == IsFiniteSet(Messages)
<1>1. IsFiniteSet({1})
  BY FS_Singleton
<1>2. IsFiniteSet(1 .. MaxMessages)
  BY FS_Interval
<1>3. IsFiniteSet({1} \X (1 .. MaxMessages))
  BY <1>1, <1>2, FS_Product
<1> QED
  BY <1>3 DEF Messages

LEMMA ProcessStarts == ProcessInit => ProcessInv
<1> SUFFICES ASSUME ProcessInit PROVE ProcessInv
  OBVIOUS
<1>1. ProducerInv
  BY ProducerInit DEF ProcessInit
<1>2. /\ DOMAIN mainPC = {Main} /\ DOMAIN waitsFor = {Main} /\ DOMAIN loop = {1}
      /\ mainPC[Main] = "idle"
      /\ loop[1] = "none"
  BY DEF ProcessInit, Service!Init, Service!Loops
<1>3. Control /\ Running /\ SocketLeft /\ Stopping
  BY <1>2 DEF ProcessInit, Service!Init, Control, Running, SocketLeft, Stopping
<1>4. LoopPublishes /\ FlushIsLast /\ MessageChecked
  BY <1>2 DEF ProcessInit, Init, LoopPublishes, FlushIsLast, MessageChecked
<1>5. FailuresCounted
  <2>1. CallsEnded = {}
    BY DEF ProcessInit, Init, CallsEnded
  <2>2. Counts(0)
    BY <2>1, FS_EmptySet
       DEF ProcessInit, Service!Init, Counts, CallsAccepted, After
  <2> QED
    BY <2>2 DEF FailuresCounted
<1> QED
  BY <1>1, <1>3, <1>4, <1>5 DEF ProcessInv

------------------------------------------------------------------------------
(* Use case, task and loop stay together.                                  *)

Together == Control /\ Running /\ SocketLeft /\ Stopping

LEMMA MainKeepsTogether ==
  ASSUME Together, MainStep \/ Interrupt
  PROVE  Together'
<1> USE DEF Control, Running, SocketLeft, Stopping, Service!GoTo, Service!LoopTo,
            serviceVars, Service!serviceVars, Service!loopVars,
            Service!portVars, Service!callerVars, Service!Loops,
            Service!Alive, Service!Ended
<1>1. CASE Validate
  BY <1>1 DEF Together, Validate, Service!CallStart
<1>2. CASE Start
  <2>1. CASE Service!StartLocked(Main) /\ UNCHANGED useCase
    BY <1>2, <2>1 DEF Together, Start, Service!StartLocked
  <2>2. CASE Service!Started(Main) /\ useCase' = "streaming"
    BY <1>2, <2>2 DEF Together, Start, Service!Started
  <2>3. CASE Service!StartFails(Main) /\ useCase' = "leaving"
    BY <1>2, <2>3 DEF Together, Start, Service!StartFails
  <2> QED
    BY <1>2, <2>1, <2>2, <2>3 DEF Start
<1>3. CASE Leave
  BY <1>3 DEF Together, Leave, Service!CallStop
<1>4. CASE Stop
  <2> USE <1>4 DEF Together, Stop
  <2>1. CASE Service!StopLocked(Main)
    BY <2>1 DEF Service!StopLocked
  <2>2. CASE Service!LoopEnded(Main)
    BY <2>2 DEF Service!LoopEnded
  <2>3. CASE Service!Disconnect(Main)
    BY <2>3 DEF Service!Disconnect
  <2>4. CASE Service!StopTimesOut(Main)
    BY <2>4 DEF Service!StopTimesOut
  <2>5. CASE Service!CancelBackgroundTask(Main)
    BY <2>5 DEF Service!CancelBackgroundTask
  <2>6. CASE Service!Flush(Main)
    BY <2>6 DEF Service!Flush
  <2> QED
    BY <2>1, <2>2, <2>3, <2>4, <2>5, <2>6
<1>5. CASE Interrupt
  BY <1>5 DEF Together, Interrupt
<1> QED
  BY <1>1, <1>2, <1>3, <1>4, <1>5 DEF MainStep

LEMMA LoopKeepsTogether ==
  ASSUME Together, [ProcessNext]_processVars, ~MainStep, ~Interrupt
  PROVE  Together'
<1> USE DEF Together, Control, Running, SocketLeft, Stopping,
            Service!GoTo, Service!LoopTo,
            serviceVars, Service!serviceVars, Service!loopVars,
            Service!portVars, Service!callerVars, Service!Loops,
            Service!Alive, Service!Ended
<1>1. ASSUME NEW frame \in Frames, Deliver(frame)
      PROVE  Together'
  BY <1>1 DEF Deliver, Service!Receive
<1>2. CASE Publish
  BY <1>2 DEF Publish, Service!Published, Service!PublishFails
<1>3. CASE ConnectionChanges
  BY <1>3 DEF ConnectionChanges, Service!ConnectionLost,
     Service!StreamReconnects, Service!StreamGivesUp
<1>4. CASE UNCHANGED <<useCase, socketLeft, serviceVars>>
  BY <1>4
<1> QED
  BY <1>1, <1>2, <1>3, <1>4 DEF ProcessNext, AdapterChanges, processVars

------------------------------------------------------------------------------
(* The loop and the adapter.                                               *)

LEMMA LoopPublishesNext ==
  ASSUME ProcessInv, [ProcessNext]_processVars
  PROVE  LoopPublishes'
<1> USE DEF ProcessInv, LoopPublishes, Service!LoopTo, serviceVars,
            Service!loopVars, Service!Loops
<1>0. /\ DOMAIN loop = {1}
      /\ pc \in [{1} -> {"idle", "trying", "sleeping"}]
      /\ useCase = "starting" => loop[1] = "none"
  BY DEF Control, ProducerInv, TypeOK
<1>1. CASE Validate \/ Leave \/ Interrupt
  <2>1. UNCHANGED <<loop, pc, message>>
    BY <1>1 DEF Validate, Leave, Interrupt, Service!CallStart,
       Service!CallStop, vars, callVars
  <2> QED
    BY <2>1
<1>2. CASE Start
  <2>1. UNCHANGED <<pc, message>>
    BY <1>2 DEF Start, vars, callVars
  <2> QED
    BY <1>0, <1>2, <2>1 DEF Start, Service!StartLocked, Service!Started,
       Service!StartFails
<1>3. CASE Stop
  <2>1. CASE UNCHANGED <<loop, pc, message>>
    BY <2>1
  <2>2. CASE CancelLoop /\ loop' = [loop EXCEPT ![1] = "cancelled"]
    BY <1>0, <2>2 DEF CancelLoop, Cancel, EndPublish, vars, callVars
  <2>3. CASE CancelLoop /\ loop' = loop /\ loop[1] = "cancelled"
    BY <2>3 DEF CancelLoop, vars, callVars
  <2>4. CASE Service!StopTimesOut(Main) /\ CancelLoop
    BY <2>2, <2>4 DEF Service!StopTimesOut, Stopping
  <2>5. CASE Service!CancelBackgroundTask(Main) /\ CancelLoop
    <3>1. loop[1] = "cancelled" /\ backgroundTask = 1
      BY <2>5 DEF Service!CancelBackgroundTask, Stopping, Control
    <3>2. loop' = loop
      BY <2>5, <3>1 DEF Service!CancelBackgroundTask, Service!Alive
    <3> QED
      BY <2>3, <2>5, <3>1, <3>2
  <2>6. CASE Service!Flush(Main) /\ FlushAdapter
    BY <2>1, <2>6 DEF Service!Flush, FlushAdapter, Flush, vars, callVars
  <2>7. CASE /\ \/ Service!StopLocked(Main)
                \/ Service!LoopEnded(Main)
                \/ Service!Disconnect(Main)
             /\ UNCHANGED <<vars, message>>
    BY <2>1, <2>7 DEF Service!StopLocked, Service!LoopEnded,
       Service!Disconnect, vars, callVars
  <2> QED
    BY <1>3, <2>4, <2>5, <2>6, <2>7 DEF Stop
<1>4. ASSUME NEW frame \in Frames, Deliver(frame)
      PROVE  LoopPublishes'
  BY <1>0, <1>4 DEF Deliver, Service!Receive, CallPublish, vars, callVars
<1>5. CASE Publish
  <2>1. \/ pc[1] # "idle" /\ pc'[1] # "idle" /\ UNCHANGED <<loop, message>>
        \/ pc'[1] = "idle" /\ loop'[1] # "publishing" /\ message' = None
    BY <1>0, <1>5 DEF Publish, Attempt, Wake, Service!Published,
       Service!PublishFails
  <2> QED
    BY <2>1
<1>6. CASE ConnectionChanges
  <2>1. UNCHANGED <<pc, message>>
    BY <1>6 DEF ConnectionChanges, vars, callVars
  <2> QED
    BY <1>0, <1>6, <2>1 DEF ConnectionChanges, Service!ConnectionLost,
       Service!StreamReconnects, Service!StreamGivesUp
<1>7. CASE AdapterChanges \/ UNCHANGED processVars
  BY <1>7 DEF AdapterChanges, Answer, Close, processVars, vars, callVars
<1> QED
  BY <1>1, <1>2, <1>3, <1>4, <1>5, <1>6, <1>7 DEF ProcessNext, MainStep

\* A flush reports no more than there are messages, and no less than is left.
LEMMA QueueCounted ==
  ASSUME NEW q \in SUBSET Messages
  PROVE  /\ Cardinality(q) \in 0 .. Cardinality(Messages)
         /\ Cardinality(q) = 0 => q = {}
<1>1. /\ IsFiniteSet(q)
      /\ Cardinality(q) <= Cardinality(Messages)
  BY MessagesFinite, FS_Subset
<1>2. Cardinality(q) \in Nat /\ Cardinality(Messages) \in Nat
  BY <1>1, MessagesFinite, FS_CardinalityType
<1> QED
  BY <1>1, <1>2, FS_EmptySet

LEMMA FlushIsLastNext ==
  ASSUME ProcessInv, [ProcessNext]_processVars
  PROVE  FlushIsLast'
<1> USE DEF ProcessInv, Service!Alive
<1>1. CASE Stop /\ Service!Flush(Main)
  <2>1. /\ loop[1] \in {"returned", "cancelled"}
        /\ loop' = loop
        /\ mainPC'[Main] = "disconnecting"
        /\ FlushAdapter
    BY <1>1 DEF Stop, Stopping, Control, Service!Flush, Service!GoTo,
       Service!loopVars, Service!StopLocked, Service!LoopEnded,
       Service!Disconnect, Service!StopTimesOut, Service!CancelBackgroundTask
  <2>2. CASE unsent' = None
    BY <2>2 DEF FlushIsLast
  <2>3. CASE Flush /\ unsent' = Cardinality(queue')
    <3>1. queue' \in SUBSET Messages
      BY <2>3, ServedQueue DEF ProducerInv, Flush
    <3> QED
      BY <2>1, <2>3, <3>1, QueueCounted DEF FlushIsLast
  <2> QED
    BY <2>1, <2>2, <2>3 DEF FlushAdapter
<1>2. CASE unsent = None /\ unsent' = unsent
  BY <1>2 DEF FlushIsLast
<1>3. CASE unsent # None /\ unsent' = unsent
  <2>1. /\ mainPC[Main] = "disconnecting" \/ useCase = "ended"
        /\ loop[1] \notin Service!Alive
        /\ pc[1] = "idle"
        /\ unsent = 0 => queue = {}
    BY <1>3 DEF FlushIsLast, LoopPublishes
  <2>2. useCase = "ended" \/ (useCase = "stopping" /\ mainPC[Main] = "disconnecting")
    BY <2>1 DEF Control
  <2>3. CASE UNCHANGED <<useCase, mainPC, loop>> /\ queue' \subseteq queue
    BY <1>3, <2>1, <2>3 DEF FlushIsLast
  <2>4. CASE MainStep \/ Interrupt
    <3>1. Service!Disconnect(Main) /\ Stop
      BY <2>2, <2>4 DEF MainStep, Validate, Start, Leave, Stop, Interrupt,
         Service!StopLocked, Service!LoopEnded, Service!StopTimesOut,
         Service!CancelBackgroundTask, Service!Flush
    <3>2. /\ UNCHANGED <<loop, queue>>
          /\ useCase' = "ended"
      BY <3>1 DEF Stop, Control, Service!Disconnect, Service!GoTo,
         Service!loopVars, Service!StopLocked, Service!LoopEnded,
         Service!StopTimesOut, Service!CancelBackgroundTask, Service!Flush,
         vars, queueVars
    <3> QED
      BY <1>3, <2>1, <3>2 DEF FlushIsLast
  <2>5. ASSUME NEW frame \in Frames, Deliver(frame)
        PROVE  FALSE
    BY <2>1, <2>5 DEF Deliver, Service!Receive
  <2>6. ~Publish
    BY <2>1 DEF Publish, Attempt, Wake
  <2>7. CASE ConnectionChanges
    BY <2>1, <2>3, <2>7 DEF ConnectionChanges, Service!ConnectionLost,
       Service!StreamReconnects, Service!StreamGivesUp, Service!loopVars,
       Service!callerVars, vars, queueVars
  <2>8. CASE AdapterChanges \/ UNCHANGED processVars
    <3>1. UNCHANGED <<useCase, mainPC, loop>>
      BY <2>8 DEF AdapterChanges, processVars, serviceVars
    <3>2. queue' \subseteq queue
      BY <2>8 DEF AdapterChanges, processVars, Answer, Close,
         ServesUntilTimeout, Serves, vars, queueVars
    <3> QED
      BY <2>3, <3>1, <3>2
  <2> QED
    BY <2>4, <2>5, <2>6, <2>7, <2>8 DEF ProcessNext
<1>4. unsent' = unsent \/ (Stop /\ Service!Flush(Main))
  BY DEF ProcessNext, MainStep, Validate, Start, Leave, Stop, Interrupt,
     Deliver, Publish, ConnectionChanges, AdapterChanges, processVars
<1> QED
  BY <1>1, <1>2, <1>3, <1>4

------------------------------------------------------------------------------
(* The message and the failures.                                           *)

LEMMA MessageCheckedNext ==
  ASSUME ProcessInv, [ProcessNext]_processVars
  PROVE  MessageChecked'
<1> USE DEF ProcessInv
<1>1. request' = request /\ markets' = markets
  BY DEF ProcessNext, MainStep, Validate, Start, Leave, Stop, Interrupt,
     Deliver, Publish, ConnectionChanges, AdapterChanges, processVars, markets
<1>2. request \in Requests
  BY DEF MessageChecked
<1>3. useCase' \notin {"called", "refused"} => AcceptsMarkets(request)
  BY DEF MessageChecked, ProcessNext, MainStep, Validate, Start, Leave, Stop,
     Interrupt, Deliver, Publish, ConnectionChanges, AdapterChanges,
     processVars
<1>4. CASE message' = message \/ message' = None
  BY <1>1, <1>2, <1>3, <1>4 DEF MessageChecked
<1>5. ASSUME NEW frame \in Frames, Deliver(frame),
             message' = MarketDataMessage(frame, Now)
      PROVE  MessageChecked'
  <2>1. CASE message' = message
    BY <1>4, <2>1
  <2>2. CASE message' # message
    <3>1. /\ Parses(frame, markets)
          /\ Converts(frame)
          /\ ConvertsToProto(message')
      BY <1>5, <2>2 DEF Deliver
    <3> QED
      BY <1>1, <1>2, <1>3, <1>5, <3>1 DEF MessageChecked
  <2> QED
    BY <2>1, <2>2
<1>6. \/ message' = message
      \/ message' = None
      \/ \E frame \in Frames :
           Deliver(frame) /\ message' = MarketDataMessage(frame, Now)
  BY DEF ProcessNext, MainStep, Validate, Start, Leave, Stop, CancelLoop,
     FlushAdapter, Interrupt, Deliver, Publish, ConnectionChanges,
     AdapterChanges, processVars
<1> QED
  BY <1>4, <1>5, <1>6

\* The calls after the m-th are one more when the n-th has ended.
LEMMA OneMoreCall ==
  ASSUME NEW n \in Nat, NEW S \in SUBSET (1 .. n - 1), NEW m \in 0 .. n - 1
  PROVE  /\ Cardinality(After(S, m)) \in Nat
         /\ Cardinality(After(S \cup {n}, m)) = Cardinality(After(S, m)) + 1
<1>1. IsFiniteSet(1 .. n - 1)
  BY FS_Interval
<1>2. IsFiniteSet(After(S, m))
  BY <1>1, FS_Subset DEF After
<1>3. After(S \cup {n}, m) = After(S, m) \cup {n} /\ n \notin After(S, m)
  BY DEF After
<1>4. Cardinality(After(S, m)) \in Nat
  BY <1>2, FS_CardinalityType
<1>5. Cardinality(After(S, m) \cup {n}) = Cardinality(After(S, m)) + 1
  BY <1>2, <1>3, FS_AddElement
<1> QED
  BY <1>3, <1>4, <1>5

LEMMA FailuresCountedNext ==
  ASSUME ProcessInv, [ProcessNext]_processVars, LoopPublishes'
  PROVE  FailuresCounted'
<1> USE DEF ProcessInv
<1>0. /\ sent[1] \in 0 .. MaxMessages
      /\ pc \in [{1} -> {"idle", "trying", "sleeping"}]
      /\ DOMAIN sent = {1}
      /\ outcome \in [Messages -> {"none", "returned", "raised"}]
      /\ \A n \in 1 .. MaxMessages : <<1, n>> \in Messages
      /\ \A n \in 1 .. MaxMessages :
           sent[1] < n \/ (sent[1] = n /\ pc[1] # "idle") =>
             outcome[<<1, n>>] = "none"
  BY DEF ProducerInv, TypeOK, Undecided, Messages
<1>1. CASE loop'[1] = "cancelled"
  BY <1>1 DEF FailuresCounted
<1>2. CASE UNCHANGED <<sent, outcome, consecutiveFailures>> /\ loop[1] # "cancelled"
  BY <1>2 DEF FailuresCounted, Counts, CallsEnded, CallsAccepted
<1>3. CASE Publish /\ loop[1] # "cancelled"
  <2>1. CASE pc'[1] # "idle"
    <3>1. UNCHANGED <<sent, outcome, consecutiveFailures>>
      BY <1>0, <1>3, <2>1 DEF Publish, Attempt, Wake, Produce, BufferFull,
         ProduceRaises, EndPublish, serviceVars
    <3> QED
      BY <1>2, <1>3, <3>1
  <2>2. CASE pc'[1] = "idle"
    <3> DEFINE n == sent[1]
    <3>1. /\ pc[1] # "idle"
          /\ n \in 1 .. MaxMessages
          /\ sent' = sent
          /\ n - 1 \in Nat
      BY <1>0, <1>3 DEF Publish, Attempt, Wake, ProducerInv, HasMessage
    <3>2. PICK result \in {"returned", "raised"} :
            outcome' = [outcome EXCEPT ![<<1, n>>] = result]
      BY <1>0, <1>3, <2>2 DEF Publish, Attempt, Wake, Produce, BufferFull,
         ProduceRaises, EndPublish, Message
    <3>3. /\ outcome[<<1, n>>] = "none"
          /\ outcome'[<<1, n>>] = result
          /\ \A k \in 1 .. n : k # n => outcome'[<<1, k>>] = outcome[<<1, k>>]
      BY <1>0, <3>1, <3>2
    <3>4. /\ CallsEnded \in SUBSET (1 .. n - 1)
          /\ CallsEnded' = CallsEnded \cup {n}
          /\ CallsAccepted' = IF result = "returned" THEN CallsAccepted \cup {n}
                                                     ELSE CallsAccepted
      BY <3>1, <3>3 DEF CallsEnded, CallsAccepted
    <3>5. CASE result = "returned"
      <4>1. consecutiveFailures' = 0
        BY <1>3, <2>2, <3>1, <3>3, <3>5 DEF Publish, Service!Published, Message
      <4>2. \A k \in CallsEnded' : ~(k > n)
        <5>1. \A k \in CallsEnded : k \in 1 .. n - 1
          BY <3>4
        <5> QED
          BY <3>1, <3>4, <5>1
      <4>3. After(CallsEnded', n) = {} /\ After(CallsAccepted', n) = {}
        BY <4>2 DEF After, CallsAccepted
      <4>4. Counts(n)'
        BY <3>1, <4>1, <4>3, FS_EmptySet DEF Counts
      <4> QED
        BY <3>1, <3>4, <3>5, <4>4 DEF FailuresCounted
    <3>6. CASE result = "raised"
      <4>1. consecutiveFailures' = consecutiveFailures + 1
        BY <1>3, <2>2, <3>1, <3>3, <3>6 DEF Publish, Service!PublishFails, Message
      <4>2. PICK m \in {0} \cup CallsAccepted : Counts(m)
        BY <1>3 DEF FailuresCounted
      <4>3. m \in 0 .. n - 1
        BY <3>1, <3>4, <4>2 DEF CallsAccepted
      <4>4. Cardinality(After(CallsEnded', m)) =
              Cardinality(After(CallsEnded, m)) + 1
        BY <3>1, <3>4, <4>3, OneMoreCall
      <4>5. Counts(m)'
        BY <3>4, <3>6, <4>1, <4>2, <4>4 DEF Counts
      <4> QED
        BY <3>4, <3>6, <4>2, <4>5 DEF FailuresCounted
    <3> QED
      BY <3>5, <3>6
  <2> QED
    BY <2>1, <2>2
<1>4. CASE loop[1] # "cancelled" /\ consecutiveFailures' = consecutiveFailures
           /\ CallPublish(1)
  <2>1. /\ outcome' = outcome
        /\ sent[1] + 1 \in 1 .. MaxMessages
        /\ sent'[1] = sent[1] + 1
        /\ outcome[<<1, sent[1] + 1>>] = "none"
    BY <1>0, <1>4 DEF CallPublish
  <2>2. CallsEnded' = CallsEnded
    BY <1>0, <2>1 DEF CallsEnded
  <2>3. CallsAccepted' = CallsAccepted
    BY <2>1, <2>2 DEF CallsAccepted
  <2> QED
    BY <1>4, <2>2, <2>3 DEF FailuresCounted, Counts
<1>5. CASE loop[1] # "cancelled" /\ loop'[1] # "cancelled" /\ ~Publish
  <2> USE DEF vars, callVars, Service!loopVars, serviceVars
  <2>1. CASE Validate \/ Start \/ Leave \/ Interrupt
    <3>1. UNCHANGED <<sent, outcome, consecutiveFailures>>
      BY <2>1 DEF Validate, Start, Leave, Interrupt, Service!CallStart,
         Service!CallStop, Service!StartLocked, Service!Started,
         Service!StartFails
    <3> QED
      BY <1>2, <1>5, <3>1
  <2>2. CASE Stop
    <3>1. ~Service!StopTimesOut(Main)
      BY <1>5 DEF Service!StopTimesOut, Stopping, Control, Service!LoopTo
    <3>2. ~Service!CancelBackgroundTask(Main)
      BY <1>5 DEF Service!CancelBackgroundTask, Stopping
    <3>3. UNCHANGED <<sent, outcome, consecutiveFailures>>
      BY <2>2, <3>1, <3>2 DEF Stop, Service!StopLocked, Service!LoopEnded,
         Service!Disconnect, Service!Flush, FlushAdapter, Flush
    <3> QED
      BY <1>2, <1>5, <3>3
  <2>3. ASSUME NEW frame \in Frames, Deliver(frame)
        PROVE  FailuresCounted'
    <3>1. consecutiveFailures' = consecutiveFailures
      BY <2>3 DEF Deliver, Service!Receive
    <3>2. CallPublish(1) \/ UNCHANGED <<sent, outcome>>
      BY <2>3 DEF Deliver
    <3> QED
      BY <1>2, <1>4, <1>5, <3>1, <3>2
  <2>4. CASE ConnectionChanges \/ AdapterChanges \/ UNCHANGED processVars
    <3>1. UNCHANGED <<sent, outcome, consecutiveFailures>>
      BY <2>4 DEF ConnectionChanges, AdapterChanges, processVars, Answer, Close,
         Service!ConnectionLost, Service!StreamReconnects, Service!StreamGivesUp
    <3> QED
      BY <1>2, <1>5, <3>1
  <2> QED
    BY <1>5, <2>1, <2>2, <2>3, <2>4 DEF ProcessNext, MainStep
<1>6. loop[1] = "cancelled" => loop'[1] = "cancelled"
  <2> SUFFICES ASSUME loop[1] = "cancelled"
               PROVE  loop'[1] = "cancelled"
    OBVIOUS
  <2> USE DEF Service!loopVars, serviceVars, Service!Alive, LoopPublishes
  <2>1. CASE Validate \/ Start \/ Leave \/ Interrupt
    BY <2>1 DEF Control, Validate, Start, Leave, Interrupt,
       Service!CallStart, Service!CallStop, Service!StartLocked,
       Service!Started, Service!StartFails
  <2>2. CASE Stop
    BY <2>2 DEF Control, Stop, Stopping, Service!StopLocked, Service!LoopEnded,
       Service!Disconnect, Service!Flush, Service!StopTimesOut,
       Service!CancelBackgroundTask
  <2>3. CASE UNCHANGED loop
    BY <2>3
  <2>4. ASSUME NEW frame \in Frames, Deliver(frame)
        PROVE  FALSE
    BY <2>4 DEF Deliver, Service!Receive
  <2>5. ~Publish
    BY DEF Publish, Attempt, Wake
  <2>6. CASE ConnectionChanges
    BY <2>6 DEF ConnectionChanges, Service!ConnectionLost,
       Service!StreamReconnects, Service!StreamGivesUp
  <2> QED
    BY <2>1, <2>2, <2>3, <2>4, <2>5, <2>6
       DEF ProcessNext, MainStep, AdapterChanges, processVars
<1> QED
  BY <1>1, <1>3, <1>5, <1>6

------------------------------------------------------------------------------
(* The invariant, and the process implements the service.                  *)

LEMMA ProcessKeeps == ProcessInv /\ [ProcessNext]_processVars => ProcessInv'
<1> SUFFICES ASSUME ProcessInv, [ProcessNext]_processVars
             PROVE  ProcessInv'
  OBVIOUS
<1>1. ProducerInv'
  BY AdapterStep, ProducerNext DEF ProcessInv
<1>2. Together'
  BY MainKeepsTogether, LoopKeepsTogether DEF ProcessInv, Together
<1>3. LoopPublishes'
  BY LoopPublishesNext
<1>4. FlushIsLast' /\ MessageChecked' /\ FailuresCounted'
  BY <1>3, FlushIsLastNext, MessageCheckedNext, FailuresCountedNext
<1> QED
  BY <1>1, <1>2, <1>3, <1>4 DEF ProcessInv, Together

\* The inductive invariant of the process: where the task is, how far the loop
\* is, what the adapter does and what was flushed belong together.
THEOREM ProcessInvariant == ProcessSpec => []ProcessInv
  BY ProcessStarts, ProcessKeeps, PTL DEF ProcessSpec

\* An interrupted connect() leaves the service as a failed one does, because
\* the one connection of the use case cannot be up before.
LEMMA ServiceStep ==
  ASSUME ProcessInv, [ProcessNext]_processVars
  PROVE  [Service!Next]_(Service!vars)
<1> SUFFICES Service!Next \/ UNCHANGED Service!vars
  OBVIOUS
<1> USE DEF serviceVars, Service!vars, Service!serviceVars, Service!loopVars,
            Service!portVars, Service!callerVars
<1>0. 1 \in Service!Loops
  BY DEF Service!Loops
<1>1. ASSUME Service!CallStart(Main) \/ Service!CallStop(Main)
             \/ Service!StartStep(Main) \/ Service!StopStep(Main)
      PROVE  Service!Next
  BY <1>1 DEF Service!Next
<1>2. CASE Validate \/ Start \/ Leave \/ Stop
  BY <1>1, <1>2 DEF Validate, Start, Leave, Stop, Service!StartStep,
     Service!StopStep
<1>3. CASE Interrupt
  <2>1. CASE useCase = "starting" /\ mainPC[Main] = "connecting"
    <3>1. ~connected
      BY <2>1 DEF ProcessInv, Control, Running
    <3>2. Service!StartFails(Main)
      BY <1>3, <2>1, <3>1 DEF Interrupt, Service!StartFails, Service!GoTo
    <3> QED
      BY <1>1, <3>2 DEF Service!StartStep
  <2>2. CASE UNCHANGED serviceVars
    BY <2>2
  <2> QED
    BY <1>3, <2>1, <2>2 DEF Interrupt
<1>4. ASSUME NEW frame \in Frames, Deliver(frame)
      PROVE  Service!Next
  BY <1>0, <1>4 DEF Deliver, Service!Next, Service!LoopStep
<1>5. CASE Publish
  BY <1>0, <1>5 DEF Publish, Service!Next, Service!LoopStep
<1>6. CASE ConnectionChanges
  BY <1>0, <1>6 DEF ConnectionChanges, Service!Next, Service!LoopStep
<1>7. CASE AdapterChanges \/ UNCHANGED processVars
  BY <1>7 DEF AdapterChanges, processVars
<1> QED
  BY <1>2, <1>3, <1>4, <1>5, <1>6, <1>7 DEF ProcessNext, MainStep

\* The use case with its one task and its one loop implements the service,
\* interruptions included (stream_market_data over IngestionService).
THEOREM ServiceImplemented == ProcessSpec => Service!Spec
<1>1. ProcessInit => Service!Init
  BY DEF ProcessInit
<1>2. ProcessInv /\ [ProcessNext]_processVars => [Service!Next]_(Service!vars)
  BY ServiceStep
<1> QED
  BY <1>1, <1>2, ProcessInvariant, PTL DEF ProcessSpec, Service!Spec

\* The module of the theorems counts as the module of the service does.
LEMMA SameSizes ==
  /\ \A S : Proved!IsFiniteSet(S) <=> IsFiniteSet(S)
  /\ \A S : Service!Cardinality(S) = Proved!Cardinality(S)
<1>1. \A S : Proved!IsFiniteSet(S) <=> IsFiniteSet(S)
  BY DEF IsFiniteSet, Proved!IsFiniteSet
<1>2. \A S : Service!Cardinality(S) = Proved!Cardinality(S)
  BY DEF Service!Cardinality, Proved!Cardinality
<1> QED
  BY <1>1, <1>2

\* The theorems of the service are about the same steps.
LEMMA SameService ==
  /\ Service!Init <=> Proved!Init
  /\ [Service!Next]_(Service!vars) <=> [Proved!Next]_(Proved!vars)
<1> USE DEF Service!serviceVars, Proved!serviceVars, Service!loopVars,
            Proved!loopVars, Service!portVars, Proved!portVars,
            Service!callerVars, Proved!callerVars, Service!GoTo, Proved!GoTo,
            Service!LoopTo, Proved!LoopTo, Service!Loops, Proved!Loops,
            Service!Alive, Proved!Alive
<1>1. Service!Init <=> Proved!Init
  BY DEF Service!Init, Proved!Init
<1>2. Service!vars' = Service!vars <=> Proved!vars' = Proved!vars
  BY DEF Service!vars, Proved!vars
<1>3. ASSUME NEW c \in {Main}
      PROVE  /\ Service!CallStart(c) <=> Proved!CallStart(c)
             /\ Service!CallStop(c) <=> Proved!CallStop(c)
  <2>1. Service!Starters = Proved!Starters
    BY DEF Service!Starters, Proved!Starters
  <2>2. Service!Cardinality(Service!Starters) = Proved!Cardinality(Proved!Starters)
    BY <2>1, SameSizes
  <2> QED
    BY <2>2 DEF Service!CallStart, Proved!CallStart, Service!CallStop,
       Proved!CallStop
<1>4. ASSUME NEW c \in {Main}
      PROVE  Service!StartStep(c) <=> Proved!StartStep(c)
  BY DEF Service!StartStep, Proved!StartStep, Service!StartLocked,
         Proved!StartLocked, Service!Started, Proved!Started,
         Service!StartFails, Proved!StartFails
<1>5. ASSUME NEW c \in {Main}
      PROVE  Service!StopStep(c) <=> Proved!StopStep(c)
  BY DEF Service!StopStep, Proved!StopStep, Service!StopLocked,
         Proved!StopLocked, Service!LoopEnded, Proved!LoopEnded,
         Service!StopTimesOut, Proved!StopTimesOut,
         Service!CancelBackgroundTask, Proved!CancelBackgroundTask,
         Service!Flush, Proved!Flush, Service!Disconnect, Proved!Disconnect
<1>6. ASSUME NEW i \in 1 .. 1
      PROVE  Service!LoopStep(i) <=> Proved!LoopStep(i)
  BY DEF Service!LoopStep, Proved!LoopStep, Service!Receive, Proved!Receive,
         Service!StreamReconnects, Proved!StreamReconnects,
         Service!StreamGivesUp, Proved!StreamGivesUp, Service!Published,
         Proved!Published, Service!PublishFails, Proved!PublishFails
<1>7. Service!ConnectionLost <=> Proved!ConnectionLost
  BY DEF Service!ConnectionLost, Proved!ConnectionLost
<1>8. Service!Next <=> Proved!Next
  BY <1>3, <1>4, <1>5, <1>6, <1>7 DEF Service!Next, Proved!Next
<1> QED
  BY <1>1, <1>2, <1>8

LEMMA ProvedService == ProcessSpec => Proved!Spec
  BY ServiceImplemented, SameService, PTL DEF Service!Spec, Proved!Spec

LEMMA ServiceTypes == ProcessSpec => []Service!TypeOK
<1>1. IsFiniteSet({Main}) /\ None \notin {Main}
  BY FS_Singleton
<1>2. Proved!CallersAssumption /\ Proved!LimitsAssumption
  BY <1>1, SameSizes DEF Proved!CallersAssumption, Proved!LimitsAssumption
<1>3. Proved!Spec => []Proved!TypeOK
  BY <1>2, Proved!TypeCorrect
<1>4. Proved!TypeOK => Service!TypeOK
  BY DEF Service!TypeOK, Proved!TypeOK, Service!Loops, Proved!Loops,
         Service!Alive, Proved!Alive, Service!Ended, Proved!Ended,
         Service!CallerPCs, Proved!CallerPCs
<1> QED
  BY <1>4, <1>3, ProvedService, PTL

------------------------------------------------------------------------------
(* What follows for the use case.                                          *)

\* Every variable of the process keeps to its type: with those of the adapter
\* and of the service, what is published and what the flush returned.
THEOREM ProcessTypeCorrect == ProcessSpec => []ProcessTypeOK
<1>1. ProcessInv /\ Service!TypeOK => ProcessTypeOK
  <2> SUFFICES ASSUME ProcessInv, Service!TypeOK
               PROVE  ProcessTypeOK
    OBVIOUS
  <2>1. message = None \/ message.data_type \in {"TRADE", "ORDERBOOK"}
    BY DEF ProcessInv, MessageChecked, MarketDataMessage
  <2> QED
    BY <2>1 DEF ProcessInv, ProducerInv, Control, FlushIsLast, MessageChecked,
       SocketLeft, ProcessTypeOK
<1> QED
  BY <1>1, ProcessInvariant, ServiceTypes, PTL

\* When the use case has ended its loop has too. A connection is left only by
\* a loop that raised (stop() is left at its wait_for), a socket only by a start()
\* that was cancelled in connect() and so made no loop for stop() to end.
THEOREM EndsQuietly == ProcessSpec => []QuietAtEnd
<1>1. ProcessInv => QuietAtEnd
  BY DEF ProcessInv, Control, Running, SocketLeft, Stopping, QuietAtEnd,
     Service!Alive
<1> QED
  BY <1>1, ProcessInvariant, PTL

\* The loop of a connector without config has nothing to publish.
NothingToPublish ==
  /\ ~connectorHasConfig
  /\ loop[1] # "publishing"
  /\ sent[1] = 0

\* As the use case builds it nothing is ever published: the loop it makes dies
\* of its first message, because UpbitWebSocketConnector (stream_market_data)
\* has no attribute config for the filter of _consume_and_publish to read.
THEOREM UseCaseNeverPublishes == UseCaseSpec => [](sent[1] = 0 /\ message = None)
<1>1. ProcessInit /\ ~connectorHasConfig => NothingToPublish
  BY DEF ProcessInit, Init, Service!Init, Service!Loops, NothingToPublish
<1>2. ProcessInv /\ NothingToPublish /\ [ProcessNext]_processVars
        => NothingToPublish'
  <2> SUFFICES ASSUME ProcessInv, NothingToPublish, [ProcessNext]_processVars
               PROVE  NothingToPublish'
    OBVIOUS
  <2>0. /\ DOMAIN loop = {1}
        /\ pc[1] = "idle"
        /\ loop[1] # "publishing"
        /\ ~connectorHasConfig
        /\ sent[1] = 0
    BY DEF ProcessInv, Control, LoopPublishes, NothingToPublish
  <2> USE DEF NothingToPublish, Service!GoTo, Service!LoopTo, serviceVars,
              Service!serviceVars, Service!loopVars, Service!portVars,
              Service!callerVars, vars, callVars
  <2>1. CASE Validate \/ Leave \/ Interrupt
    BY <2>0, <2>1 DEF Validate, Leave, Interrupt, Service!CallStart,
       Service!CallStop
  <2>2. CASE Start
    BY <2>0, <2>2 DEF Start, Service!StartLocked, Service!Started,
       Service!StartFails
  <2>3. CASE Stop
    <3>1. CASE CancelLoop /\ (\/ Service!StopTimesOut(Main)
                              \/ Service!CancelBackgroundTask(Main))
      BY <2>0, <3>1 DEF CancelLoop, Service!StopTimesOut,
         Service!CancelBackgroundTask
    <3>2. CASE Service!Flush(Main) /\ FlushAdapter
      BY <2>0, <3>2 DEF Service!Flush, FlushAdapter, Flush
    <3>3. CASE /\ \/ Service!StopLocked(Main)
                  \/ Service!LoopEnded(Main)
                  \/ Service!Disconnect(Main)
               /\ UNCHANGED vars
      BY <2>0, <3>3 DEF Service!StopLocked, Service!LoopEnded,
         Service!Disconnect
    <3> QED
      BY <2>3, <3>1, <3>2, <3>3 DEF Stop
  <2>4. ASSUME NEW frame \in Frames, Deliver(frame)
        PROVE  NothingToPublish'
    BY <2>0, <2>4 DEF Deliver, Service!Receive
  <2>5. ~Publish
    BY <2>0 DEF Publish, Attempt, Wake
  <2>6. CASE ConnectionChanges
    BY <2>0, <2>6 DEF ConnectionChanges, Service!ConnectionLost,
       Service!StreamReconnects, Service!StreamGivesUp
  <2>7. CASE AdapterChanges \/ UNCHANGED processVars
    BY <2>0, <2>7 DEF AdapterChanges, Answer, Close, processVars
  <2> QED
    BY <2>1, <2>2, <2>3, <2>4, <2>5, <2>6, <2>7 DEF ProcessNext, MainStep
<1>3. ProcessInv /\ NothingToPublish => sent[1] = 0 /\ message = None
  BY DEF ProcessInv, LoopPublishes, NothingToPublish
<1>4. UseCaseSpec => ProcessSpec
  BY DEF UseCaseSpec, ProcessSpec
<1> QED
  BY <1>1, <1>2, <1>3, <1>4, ProcessInvariant, PTL DEF UseCaseSpec

\* A flush of stop() that returned 0 speaks for the end of the use case too:
\* no loop is left that could publish after it.
THEOREM FlushSpeaksForEnd == ProcessSpec => []NothingUnsentAtEnd
<1>1. ProcessInv => NothingUnsentAtEnd
  BY DEF ProcessInv, FlushIsLast, NothingUnsentAtEnd
<1> QED
  BY <1>1, ProcessInvariant, PTL

\* The service's counter is the number of publish() that raised since the last
\* that returned, whatever the adapter's retries, queue and closing did
\* (_consume_and_publish over KafkaProducerAdapter.publish).
THEOREM FailuresAgree == ProcessSpec => []FailuresInARow
<1>1. ProcessInv => FailuresInARow
  <2> SUFFICES ASSUME ProcessInv, loop[1] # "cancelled"
               PROVE  consecutiveFailures =
                 Cardinality({k \in CallsEnded : k > Max({0} \cup CallsAccepted)})
    BY DEF FailuresInARow, CallsEnded, CallsAccepted
  <2>1. PICK m \in {0} \cup CallsAccepted : Counts(m)
    BY DEF ProcessInv, FailuresCounted
  <2>2. \A k \in {0} \cup CallsAccepted : k \in Nat /\ m >= k
    BY <2>1 DEF Counts, After, CallsAccepted, CallsEnded
  <2>3. Max({0} \cup CallsAccepted) = m
    <3> DEFINE calls == {0} \cup CallsAccepted
    <3>1. m \in calls /\ \A k \in calls : k \in Nat /\ m >= k
      BY <2>1, <2>2
    <3> HIDE DEF calls
    <3>2. Max(calls) \in calls /\ \A k \in calls : Max(calls) >= k
      BY <3>1, Zenon DEF Max
    <3>3. /\ Max(calls) \in Nat /\ m \in Nat
          /\ Max(calls) >= m /\ m >= Max(calls)
      BY <3>1, <3>2
    <3> QED
      BY <3>3 DEF calls
  <2> QED
    BY <2>1, <2>3 DEF Counts, After
<1> QED
  BY <1>1, ProcessInvariant, PTL

------------------------------------------------------------------------------
(* What is published.                                                      *)

\* Kafka sees only messages validate() would pass, of markets the use case was
\* called with, although nothing calls it: except for the exchange's clock, its
\* rules follow from the checks on the way (_parse_message, the use case).
THEOREM PublishedIsValid == ProcessSpec => []OnlyValidPublished
<1>1. ProcessInv => OnlyValidPublished
  <2> SUFFICES ASSUME ProcessInv, message # None
               PROVE  /\ \E code \in request : Upper(code) = message.code
                      /\ IsValid(message) \/ EventMillis(message.raw_data) > Now
    BY DEF OnlyValidPublished
  <2>1. PICK frame \in Frames :
          /\ Parses(frame, markets)
          /\ Converts(frame)
          /\ message = MarketDataMessage(frame, Now)
    BY DEF ProcessInv, MessageChecked
  <2>2. /\ frame # Undecodable
        /\ "type" \in DOMAIN frame
        /\ frame.type \in {"trade", "orderbook"}
        /\ Upper(frame.code) \in markets
    BY <2>1, JsonAssumption DEF Parses, Get
  <2>3. /\ message.exchange = "upbit"
        /\ message.code = Upper(frame.code)
        /\ message.received_timestamp = Now
        /\ message.raw_data = frame
        /\ message.event_timestamp = IF EventMillis(frame) \in {Null, 0}
                                     THEN Now ELSE EventMillis(frame)
    BY <2>1 DEF MarketDataMessage
  <2>4. PICK code \in request : Upper(code) = message.code
    BY <2>2, <2>3 DEF markets, SubscribedMarkets
  <2>5. AcceptsMarkets(request) /\ request \in Requests
    BY DEF ProcessInv, MessageChecked, LoopPublishes, Control
  <2>6. BeginsWithKrw(Upper(message.code))
    <3>1. DOMAIN code = {"market", "case"} /\ code.market \in KrwMarkets
      BY <2>4, <2>5, RequestsAssumption DEF AcceptsMarkets, BeginsWithKrw
    <3>2. /\ DOMAIN Upper(code) = {"market", "case"}
          /\ Upper(code).market = code.market
      BY <3>1 DEF Upper
    <3>3. /\ Upper(Upper(code)).market = code.market
          /\ Upper(Upper(code)).case = "upper"
      BY <3>1, <3>2 DEF Upper
    <3> QED
      BY <2>4, <3>1, <3>3 DEF BeginsWithKrw
  <2>7. message.event_timestamp <= Now \/ EventMillis(frame) > Now
    <3>1. EventMillis(frame) = Null \/ EventMillis(frame) \in Int
      BY <2>1, <2>2, FramesAssumption DEF Converts, EventMillis, Get
    <3> QED
      BY <2>3, <3>1, JsonAssumption
  <2> QED
    BY <2>2, <2>3, <2>4, <2>6, <2>7 DEF IsValid
<1> QED
  BY <1>1, ProcessInvariant, PTL

\* Over a frame in the format of Upbit the two readings of a figure, of the
\* words and of the time come to the same.
LEMMA SameFigure ==
  ASSUME NEW frame, NEW key, Get(frame, key, 0) # Text
  PROVE  Figure(Get(frame, key, 0)) = Number(Get(frame, key, Null))
  BY JsonAssumption DEF Get, Figure, Number

LEMMA SameWords ==
  ASSUME NEW frame, InUpbitFormat(frame)
  PROVE  Get(AskBidMap, Get(frame, "ask_bid", ""), "UNSPECIFIED")
           = Get(MapperAskBidMap, Get(frame, "ask_bid", Null), "UNSPECIFIED")
<1>1. CASE "ask_bid" \in DOMAIN frame
  BY <1>1 DEF InUpbitFormat, Get, AskBidMap, MapperAskBidMap
<1>2. CASE "ask_bid" \notin DOMAIN frame
  BY <1>2, JsonAssumption DEF Get, AskBidMap, MapperAskBidMap
<1> QED
  BY <1>1, <1>2

LEMMA SameTime ==
  ASSUME NEW frame \in Frames, frame # Undecodable, InUpbitFormat(frame),
         Converts(frame), frame.type \in {"trade", "orderbook"}
  PROVE  /\ EventMillis(frame) \notin {Null, 0}
         /\ EventMillis(frame) = Number(MapperMillis(frame))
<1>1. /\ "event_timestamp" \notin DOMAIN frame
      /\ \A key \in {"timestamp", "trade_timestamp"} \cap DOMAIN frame :
           frame[key] \notin {Null, 0}
      /\ MapperMillis(frame) # Null
      /\ EventMillis(frame) # Text
  BY FramesAssumption DEF InUpbitFormat, MapperAccepts, Converts
<1>2. EventMillis(frame) = MapperMillis(frame)
  BY <1>1 DEF EventMillis, MapperMillis, FirstOf, Get
<1>3. EventMillis(frame) # 0
  BY <1>1, JsonAssumption DEF EventMillis, Get
<1> QED
  BY <1>1, <1>2, <1>3 DEF Number, Figure

\* The messages of the mapper, received now, and what EXCEPT makes of them.
TradeOf(code, price, word, time) ==
  [exchange |-> "UPBIT", code |-> code, trade_price |-> price,
   ask_bid |-> word, trade_timestamp |-> time, stream_type |-> "REALTIME",
   received_timestamp |-> Now]

BookOf(code, size, asks, bids, time) ==
  [exchange |-> "UPBIT", code |-> code, total_ask_size |-> size, asks |-> asks,
   bids |-> bids, stream_type |-> "REALTIME", event_timestamp |-> time,
   received_timestamp |-> Now]

WithLevels(book, code, asks, bids) ==
  [book EXCEPT !.code = code, !.asks = asks, !.bids = bids]

LEMMA TradeWithCode ==
  ASSUME NEW c, NEW d, NEW price, NEW word, NEW time
  PROVE  [TradeOf(c, price, word, time) EXCEPT !.code = d]
           = TradeOf(d, price, word, time)
  BY DEF TradeOf

LEMMA BookWithLevels ==
  ASSUME NEW c, NEW d, NEW size, NEW a, NEW b, NEW aa, NEW bb, NEW time
  PROVE  WithLevels(BookOf(c, size, a, b, time), d, aa, bb)
           = BookOf(d, size, aa, bb, time)
<1>1. [BookOf(c, size, a, b, time) EXCEPT !.code = d] = BookOf(d, size, a, b, time)
  BY DEF BookOf
<1>2. [BookOf(d, size, a, b, time) EXCEPT !.asks = aa] = BookOf(d, size, aa, b, time)
  BY DEF BookOf
<1>3. [BookOf(d, size, aa, b, time) EXCEPT !.bids = bb] = BookOf(d, size, aa, bb, time)
  BY DEF BookOf
<1>4. [BookOf(c, size, a, b, time) EXCEPT !.code = d, !.asks = aa, !.bids = bb]
        = [[[BookOf(c, size, a, b, time) EXCEPT !.code = d]
              EXCEPT !.asks = aa] EXCEPT !.bids = bb]
  OBVIOUS
<1> QED
  BY <1>1, <1>2, <1>3, <1>4 DEF WithLevels

\* What the loop publishes of a frame is what the converter of the repository
\* that nothing calls would make of it, order book levels aside (_convert_to_
\* protobuf and json_to_trade_proto, json_to_orderbook_proto).
THEOREM TwoConvertersAgree == ProcessSpec => []PublishedAsMapped
<1>1. ProcessInv => PublishedAsMapped
  <2> SUFFICES ASSUME ProcessInv, message # None,
                      InUpbitFormat(message.raw_data)
               PROVE  PublishedAsMapped
    BY DEF PublishedAsMapped
  <2>1. PICK frame \in Frames :
          /\ Parses(frame, markets)
          /\ Converts(frame)
          /\ message = MarketDataMessage(frame, Now)
          /\ ConvertsToProto(message)
    BY DEF ProcessInv, MessageChecked
  <2>2. /\ frame # Undecodable
        /\ frame.type \in {"trade", "orderbook"}
    BY <2>1, JsonAssumption DEF Parses, Get
  <2>3. /\ message.raw_data = frame
        /\ message.received_timestamp = Now
        /\ message.stream_type = "REALTIME"
        /\ message.data_type = IF frame.type = "trade" THEN "TRADE" ELSE "ORDERBOOK"
        /\ message.event_timestamp = IF EventMillis(frame) \in {Null, 0}
                                     THEN Now ELSE EventMillis(frame)
    BY <2>1 DEF MarketDataMessage
  <2>4. message.event_timestamp = Number(MapperMillis(frame))
    BY <2>1, <2>2, <2>3, SameTime
  <2>5. CASE frame.type = "trade"
    <3>1. ConvertToProtobuf(message) = TradeProto(message)
      BY <2>3, <2>5 DEF ConvertToProtobuf
    <3>2. Get(AskBidMap, Get(frame, "ask_bid", ""), "UNSPECIFIED")
            = Get(MapperAskBidMap, Get(frame, "ask_bid", Null), "UNSPECIFIED")
      <4>1. InUpbitFormat(frame)
        BY <2>3
      <4> QED
        BY <4>1, SameWords
    <3>3. Figure(Get(frame, "trade_price", 0))
            = Number(Get(frame, "trade_price", Null))
      BY <2>1, <2>3, <2>5, SameFigure DEF ConvertsToProto
    <3>4. TradeProto(message)
            = [JsonToTradeProto(frame, Now) EXCEPT !.code = message.code]
      <4> DEFINE price == Number(Get(frame, "trade_price", Null))
                 word == Get(MapperAskBidMap, Get(frame, "ask_bid", Null),
                             "UNSPECIFIED")
                 time == Number(MapperMillis(frame))
      <4>1. TradeProto(message) = TradeOf(message.code, price, word, time)
        BY <2>3, <2>4, <3>2, <3>3 DEF TradeProto, TradeOf
      <4>2. JsonToTradeProto(frame, Now) = TradeOf(frame.code, price, word, time)
        BY DEF JsonToTradeProto, TradeOf
      <4> QED
        BY <4>1, <4>2, TradeWithCode
    <3>5. TopicForMessage(message) = "upbit.trades.v1"
      BY <2>3, <2>5 DEF TopicForMessage
    <3> QED
      BY <2>3, <3>1, <3>4, <3>5 DEF PublishedAsMapped
  <2>6. CASE frame.type = "orderbook"
    <3>1. ConvertToProtobuf(message) = OrderbookProto(message)
      BY <2>3, <2>6 DEF ConvertToProtobuf
    <3>2. Figure(Get(frame, "total_ask_size", 0))
            = Number(Get(frame, "total_ask_size", Null))
      BY <2>1, <2>3, <2>6, SameFigure DEF ConvertsToProto
    <3> DEFINE value == OrderbookProto(message)
    <3>3. value = [JsonToOrderbookProto(frame, Now) EXCEPT
                     !.code = message.code, !.asks = value.asks,
                     !.bids = value.bids]
      <4> DEFINE size == Number(Get(frame, "total_ask_size", Null))
                 time == Number(MapperMillis(frame))
                 mapped == JsonToOrderbookProto(frame, Now)
      <4>1. value = BookOf(message.code, size, value.asks, value.bids, time)
        BY <2>3, <2>4, <3>2 DEF OrderbookProto, BookOf
      <4>2. mapped = BookOf(frame.code, size, mapped.asks, mapped.bids, time)
        BY DEF JsonToOrderbookProto, BookOf
      <4> HIDE DEF size, time, value, mapped
      <4>3. value = WithLevels(mapped, message.code, value.asks, value.bids)
        BY <4>1, <4>2, BookWithLevels
      <4> QED
        BY <4>3 DEF value, mapped, WithLevels
    <3>4. TopicForMessage(message) # "upbit.trades.v1"
      BY <2>3, <2>6 DEF TopicForMessage
    <3> QED
      BY <2>3, <3>1, <3>3, <3>4 DEF PublishedAsMapped
  <2> QED
    BY <2>2, <2>5, <2>6
<1> QED
  BY <1>1, ProcessInvariant, PTL

==============================================================================
