----------------------- MODULE IngestionService_proofs -----------------------
(***************************************************************************)
(* Theorems about IngestionService, for every finite set of callers, any   *)
(* number of loops and every limit on the failures in a row.               *)
(***************************************************************************)
EXTENDS IngestionService, FiniteSetTheorems, TLAPS

\* The types, without a bound on the counter of failures: that it has one is
\* FailuresBounded.
Types ==
  /\ serviceRunning \in BOOLEAN
  /\ serviceLock \in Callers \cup {None}
  /\ backgroundTask \in Loops \cup {0}
  /\ consecutiveFailures \in Nat
  /\ loop \in [Loops -> {"none"} \cup Alive \cup Ended]
  /\ connectorHasConfig \in BOOLEAN
  /\ connected \in BOOLEAN
  /\ pc \in [Callers -> CallerPCs]
  /\ waitsFor \in [Callers -> Loops \cup {0}]

\* Every start() that is under way still has a loop to create.
Room == backgroundTask + Cardinality(Starters) <= MaxStarts

\* start() connects with the lock, and only for a service that does not run.
ConnectsLocked ==
  \A c \in Callers : pc[c] = "connecting" => serviceLock = c /\ ~serviceRunning

\* The loops that exist are those up to the background task.
CreatedInOrder ==
  \A i \in Loops : loop[i] = "none" <=> backgroundTask < i

RunningHasLoop == serviceRunning => backgroundTask # 0

\* A stop() past its first step waits, or waited, for a loop that exists, and
\* once it is past waiting that loop has ended.
StopHasLoop ==
  \A c \in Callers :
    /\ pc[c] \in {"waiting", "cancelling", "flushing", "disconnecting"} =>
         waitsFor[c] \in 1 .. backgroundTask
    /\ pc[c] \in {"cancelling", "flushing", "disconnecting"} =>
         loop[waitsFor[c]] \in Ended

RaisedLoops == {i \in Loops : loop[i] = "raised"}

\* The inductive invariant of the callers and the loops.
ControlInv ==
  /\ Types
  /\ Room
  /\ ConnectsLocked
  /\ CreatedInOrder
  /\ RunningHasLoop
  /\ StopHasLoop
  /\ NoOrphanLoop

USE CallersAssumption, LimitsAssumption

------------------------------------------------------------------------------
(* Counting.                                                               *)

LEMMA StartersFinite ==
  IsFiniteSet(Starters) /\ Cardinality(Starters) \in Nat
  BY FS_Subset, FS_CardinalityType DEF Starters

\* A caller that becomes a starter, or stops being one.
LEMMA StarterAdded ==
  ASSUME Types, NEW c \in Callers, pc[c] \notin {"starting", "connecting"},
         NEW label \in {"starting", "connecting"}, GoTo(c, label)
  PROVE  Cardinality(Starters') = Cardinality(Starters) + 1
<1>1. Starters' = Starters \cup {c} /\ c \notin Starters
  BY DEF Types, GoTo, Starters
<1> QED
  BY <1>1, StartersFinite, FS_AddElement

LEMMA StarterRemoved ==
  ASSUME Types, NEW c \in Callers, pc[c] \in {"starting", "connecting"},
         NEW label, label \notin {"starting", "connecting"}, GoTo(c, label)
  PROVE  Cardinality(Starters') = Cardinality(Starters) - 1
<1>1. Starters' = Starters \ {c} /\ c \in Starters
  BY DEF Types, GoTo, Starters
<1> QED
  BY <1>1, StartersFinite, FS_RemoveElement

LEMMA StartersKept ==
  ASSUME Types, NEW c \in Callers, NEW label, GoTo(c, label),
         pc[c] \in {"starting", "connecting"} <=>
           label \in {"starting", "connecting"}
  PROVE  Starters' = Starters
  BY DEF Types, GoTo, Starters

\* There is room for the loop of a start() that connects.
LEMMA RoomForLoop ==
  ASSUME Types, Room, NEW c \in Callers, pc[c] = "connecting"
  PROVE  backgroundTask + 1 \in Loops
<1>1. Starters # {}
  BY DEF Starters
<1>2. Cardinality(Starters) # 0
  BY <1>1, StartersFinite, FS_EmptySet
<1> QED
  BY <1>2, StartersFinite DEF Types, Room, Loops

\* The loops that have raised are few, and a loop that raises is one more.
LEMMA RaisedFinite ==
  /\ IsFiniteSet(RaisedLoops)
  /\ Cardinality(RaisedLoops) \in Nat
  /\ Cardinality(RaisedLoops) <= MaxStarts
<1>1. IsFiniteSet(Loops) /\ Cardinality(Loops) = MaxStarts
  BY FS_Interval DEF Loops
<1>2. RaisedLoops \in SUBSET Loops
  BY DEF RaisedLoops
<1>3. IsFiniteSet(RaisedLoops) /\ Cardinality(RaisedLoops) <= Cardinality(Loops)
  BY <1>1, <1>2, FS_Subset
<1> QED
  BY <1>1, <1>3, FS_CardinalityType

LEMMA OneMoreRaised ==
  ASSUME Types, NEW i \in Loops, loop[i] # "raised", LoopTo(i, "raised")
  PROVE  Cardinality(RaisedLoops') = Cardinality(RaisedLoops) + 1
<1>1. RaisedLoops' = RaisedLoops \cup {i} /\ i \notin RaisedLoops
  BY DEF Types, LoopTo, RaisedLoops
<1> QED
  BY <1>1, RaisedFinite, FS_AddElement

------------------------------------------------------------------------------
(* Callers and loops.                                                      *)

LEMMA ControlInit == Init => ControlInv
<1> SUFFICES ASSUME Init PROVE ControlInv
  OBVIOUS
<1>1. Types
  BY DEF Init, Types, CallerPCs
<1>2. Starters = {}
  BY DEF Init, Starters
<1>3. Room
  BY <1>2, FS_EmptySet DEF Init, Room
<1>4. CreatedInOrder
  BY DEF Init, CreatedInOrder, Loops
<1>5. ConnectsLocked /\ RunningHasLoop /\ StopHasLoop /\ NoOrphanLoop
  BY DEF Init, ConnectsLocked, RunningHasLoop, StopHasLoop, NoOrphanLoop, Alive
<1> QED
  BY <1>1, <1>3, <1>4, <1>5 DEF ControlInv

\* A caller moves to a point that asks for nothing, and is no starter there;
\* service and loops stay as they are.
LEMMA CallerMoves ==
  ASSUME ControlInv, Types', NEW c \in Callers, NEW label, GoTo(c, label),
         label \in {"idle", "stopping"},
         pc[c] = "waiting" => loop[waitsFor[c]] \notin Alive,
         UNCHANGED <<serviceRunning, backgroundTask, loop, waitsFor>>,
         serviceLock' = serviceLock \/ pc[c] = "connecting"
  PROVE  ControlInv'
<1>1. Room'
  BY StartersKept, StarterRemoved, StartersFinite
     DEF ControlInv, Types, Room, Loops
<1>2. ConnectsLocked'
  BY DEF ControlInv, Types, ConnectsLocked, GoTo
<1>3. CreatedInOrder' /\ RunningHasLoop'
  BY DEF ControlInv, CreatedInOrder, RunningHasLoop
<1>4. StopHasLoop'
  BY DEF ControlInv, Types, StopHasLoop, GoTo
<1>5. NoOrphanLoop'
  BY DEF ControlInv, Types, NoOrphanLoop, GoTo
<1> QED
  BY <1>1, <1>2, <1>3, <1>4, <1>5 DEF ControlInv

\* A stop() gets past the loop it waited for, which has ended.
LEMMA StopMovesOn ==
  ASSUME ControlInv, Types', NEW c \in Callers, NEW label, GoTo(c, label),
         pc[c] \in {"waiting", "cancelling", "flushing"},
         label \in {"flushing", "disconnecting"},
         loop[waitsFor[c]] \in Ended,
         UNCHANGED <<serviceVars, loop, waitsFor>>
  PROVE  ControlInv'
<1>1. Room'
  BY StartersKept DEF ControlInv, Room, serviceVars
<1>2. ConnectsLocked'
  BY DEF ControlInv, Types, ConnectsLocked, GoTo, serviceVars
<1>3. CreatedInOrder' /\ RunningHasLoop'
  BY DEF ControlInv, CreatedInOrder, RunningHasLoop, serviceVars
<1>4. StopHasLoop'
  BY DEF ControlInv, Types, StopHasLoop, GoTo, serviceVars
<1>5. NoOrphanLoop'
  BY DEF ControlInv, Types, NoOrphanLoop, GoTo, serviceVars, Alive, Ended
<1> QED
  BY <1>1, <1>2, <1>3, <1>4, <1>5 DEF ControlInv

\* A loop that exists ends, or goes on with the next message.
LEMMA LoopMoves ==
  ASSUME ControlInv, Types', NEW i \in Loops, NEW label, LoopTo(i, label),
         loop[i] \in Alive, label \in Alive \cup Ended,
         UNCHANGED <<serviceVars, callerVars>>
  PROVE  ControlInv'
<1>1. Room' /\ ConnectsLocked' /\ RunningHasLoop'
  BY DEF ControlInv, Room, ConnectsLocked, RunningHasLoop, Starters,
         serviceVars, callerVars
<1>2. CreatedInOrder'
  BY DEF ControlInv, Types, CreatedInOrder, LoopTo, Alive, Ended, serviceVars
<1>3. StopHasLoop'
  <2> SUFFICES ASSUME NEW c \in Callers,
                      pc[c] \in {"cancelling", "flushing", "disconnecting"}
               PROVE  loop'[waitsFor[c]] \in Ended
    BY DEF ControlInv, StopHasLoop, serviceVars, callerVars
  <2>1. loop[waitsFor[c]] \in Ended /\ waitsFor[c] # i
    BY DEF ControlInv, StopHasLoop, Alive, Ended
  <2> QED
    BY <2>1 DEF ControlInv, Types, StopHasLoop, LoopTo, Loops
<1>4. NoOrphanLoop'
  BY DEF ControlInv, Types, NoOrphanLoop, LoopTo, serviceVars, callerVars
<1> QED
  BY <1>1, <1>2, <1>3, <1>4 DEF ControlInv

LEMMA TypesNext == ControlInv /\ [Next]_vars => Types'
<1> SUFFICES ASSUME ControlInv, [Next]_vars
             PROVE  Types'
  OBVIOUS
<1> USE DEF ControlInv, Types, CallerPCs, Alive, Ended, serviceVars, loopVars,
            portVars, callerVars, GoTo, LoopTo
<1>1. ASSUME NEW c \in Callers, CallStart(c) \/ CallStop(c)
      PROVE  Types'
  BY <1>1 DEF CallStart, CallStop
<1>2. ASSUME NEW c \in Callers, StartStep(c)
      PROVE  Types'
  <2>1. CASE StartLocked(c)
    BY <2>1 DEF StartLocked
  <2>2. CASE Started(c)
    BY <2>2, RoomForLoop DEF Started
  <2>3. CASE StartFails(c)
    BY <2>3 DEF StartFails
  <2> QED
    BY <1>2, <2>1, <2>2, <2>3 DEF StartStep
<1>3. ASSUME NEW c \in Callers, StopStep(c)
      PROVE  Types'
  <2>1. CASE StopLocked(c) \/ LoopEnded(c)
    BY <2>1 DEF StopLocked, LoopEnded
  <2>2. CASE StopTimesOut(c) \/ CancelBackgroundTask(c)
    BY <2>2 DEF StopTimesOut, CancelBackgroundTask
  <2>3. CASE Flush(c) \/ Disconnect(c)
    BY <2>3 DEF Flush, Disconnect
  <2> QED
    BY <1>3, <2>1, <2>2, <2>3 DEF StopStep
<1>4. ASSUME NEW i \in Loops, LoopStep(i)
      PROVE  Types'
  <2>1. CASE Receive(i) \/ StreamReconnects(i) \/ StreamGivesUp(i)
    BY <2>1 DEF Receive, StreamReconnects, StreamGivesUp
  <2>2. CASE Published(i) \/ PublishFails(i)
    BY <2>2 DEF Published, PublishFails
  <2> QED
    BY <1>4, <2>1, <2>2 DEF LoopStep
<1>5. ASSUME ConnectionLost
      PROVE  Types'
  BY <1>5 DEF ConnectionLost
<1>6. ASSUME UNCHANGED vars
      PROVE  Types'
  BY <1>6 DEF vars
<1> QED
  BY <1>1, <1>2, <1>3, <1>4, <1>5, <1>6 DEF Next

LEMMA ControlNext == ControlInv /\ [Next]_vars => ControlInv'
<1> SUFFICES ASSUME ControlInv, [Next]_vars
             PROVE  ControlInv'
  OBVIOUS
<1>0. Types /\ Types'
  BY TypesNext DEF ControlInv
<1> USE DEF serviceVars, loopVars, portVars, callerVars
<1>1. ASSUME NEW c \in Callers, CallStart(c)
      PROVE  ControlInv'
  <2>1. Room'
    BY <1>0, <1>1, StarterAdded, StartersFinite DEF CallStart, Room, Types, Loops
  <2>2. ConnectsLocked' /\ CreatedInOrder' /\ RunningHasLoop'
    BY <1>0, <1>1
       DEF CallStart, GoTo, ControlInv, Types, ConnectsLocked, CreatedInOrder,
           RunningHasLoop
  <2>3. StopHasLoop'
    BY <1>0, <1>1 DEF CallStart, GoTo, ControlInv, Types, StopHasLoop
  <2>4. NoOrphanLoop'
    BY <1>0, <1>1 DEF CallStart, GoTo, ControlInv, Types, NoOrphanLoop
  <2> QED
    BY <1>0, <2>1, <2>2, <2>3, <2>4 DEF ControlInv
<1>2. ASSUME NEW c \in Callers, CallStop(c)
      PROVE  ControlInv'
  BY <1>0, <1>2, CallerMoves DEF CallStop
<1>3. ASSUME NEW c \in Callers, StartLocked(c)
      PROVE  ControlInv'
  <2>1. CASE serviceRunning
    BY <1>0, <1>3, <2>1, CallerMoves DEF StartLocked
  <2>2. CASE ~serviceRunning
    <3>1. Room'
      BY <1>0, <1>3, <2>2, StartersKept DEF StartLocked, ControlInv, Room
    <3>2. ConnectsLocked'
      BY <1>0, <1>3, <2>2
         DEF StartLocked, GoTo, ControlInv, Types, ConnectsLocked
    <3>3. CreatedInOrder' /\ RunningHasLoop'
      BY <1>3, <2>2 DEF StartLocked, ControlInv, CreatedInOrder, RunningHasLoop
    <3>4. StopHasLoop'
      BY <1>0, <1>3, <2>2
         DEF StartLocked, GoTo, ControlInv, Types, StopHasLoop
    <3>5. NoOrphanLoop'
      BY <1>0, <1>3, <2>2
         DEF StartLocked, GoTo, ControlInv, Types, NoOrphanLoop
    <3> QED
      BY <1>0, <3>1, <3>2, <3>3, <3>4, <3>5 DEF ControlInv
  <2> QED
    BY <1>0, <2>1, <2>2 DEF Types
<1>4. ASSUME NEW c \in Callers, Started(c)
      PROVE  ControlInv'
  <2> DEFINE new == backgroundTask + 1
  <2>1. /\ new \in Loops
        /\ new \in Nat
        /\ backgroundTask' = new
        /\ serviceRunning'
        /\ loop' = [loop EXCEPT ![new] = "receiving"]
        /\ pc' = [pc EXCEPT ![c] = "idle"]
        /\ UNCHANGED waitsFor
    BY <1>0, <1>4, RoomForLoop
       DEF Started, ControlInv, LoopTo, GoTo, Types, Loops
  <2>2. Room'
    BY <1>0, <1>4, StarterRemoved, StartersFinite
       DEF Started, ControlInv, Room, Types, Loops
  <2>3. ConnectsLocked' /\ RunningHasLoop'
    <3>1. \A d \in Callers : pc[d] = "connecting" => d = c
      BY <1>4 DEF Started, ControlInv, ConnectsLocked
    <3>2. ConnectsLocked'
      BY <1>0, <2>1, <3>1 DEF ConnectsLocked, Types
    <3>3. RunningHasLoop'
      BY <2>1 DEF RunningHasLoop, Loops
    <3> QED
      BY <3>2, <3>3
  <2>4. CreatedInOrder'
    <3> SUFFICES ASSUME NEW i \in Loops
                 PROVE  loop'[i] = "none" <=> new < i
      BY <2>1 DEF CreatedInOrder
    <3>1. loop[i] = "none" <=> backgroundTask < i
      BY DEF ControlInv, CreatedInOrder
    <3> QED
      BY <1>0, <2>1, <3>1 DEF Types, Loops
  <2>5. StopHasLoop'
    <3> SUFFICES ASSUME NEW d \in Callers,
                        pc'[d] \in {"waiting", "cancelling", "flushing",
                                    "disconnecting"}
                 PROVE  /\ waitsFor[d] \in 1 .. new
                        /\ pc'[d] # "waiting" => loop'[waitsFor[d]] \in Ended
      BY <2>1 DEF StopHasLoop
    <3>1. d # c /\ pc'[d] = pc[d]
      BY <1>0, <2>1 DEF Types
    <3>2. /\ waitsFor[d] \in 1 .. backgroundTask
          /\ pc[d] # "waiting" => loop[waitsFor[d]] \in Ended
      BY <3>1 DEF ControlInv, StopHasLoop
    <3> QED
      BY <1>0, <2>1, <3>1, <3>2 DEF Types, Loops
  <2>6. NoOrphanLoop'
    <3> SUFFICES ASSUME NEW i \in Loops, loop'[i] \in Alive, i # new
                 PROVE  \E d \in Callers : pc'[d] = "waiting" /\ waitsFor'[d] = i
      BY <2>1 DEF NoOrphanLoop
    <3>1. loop[i] \in Alive /\ ~serviceRunning
      BY <1>0, <1>4, <2>1 DEF Started, ControlInv, ConnectsLocked, Types
    <3>2. PICK d \in Callers : pc[d] = "waiting" /\ waitsFor[d] = i
      BY <3>1 DEF ControlInv, NoOrphanLoop
    <3> QED
      BY <1>0, <1>4, <2>1, <3>2 DEF Started, Types
  <2> QED
    BY <1>0, <2>2, <2>3, <2>4, <2>5, <2>6 DEF ControlInv
<1>5. ASSUME NEW c \in Callers, StartFails(c)
      PROVE  ControlInv'
  BY <1>0, <1>5, CallerMoves DEF StartFails
<1>6. ASSUME NEW c \in Callers, StopLocked(c)
      PROVE  ControlInv'
  <2>1. CASE ~serviceRunning
    BY <1>0, <1>6, <2>1, CallerMoves DEF StopLocked
  <2>2. CASE serviceRunning
    <3>1. /\ ~serviceRunning'
          /\ waitsFor' = [waitsFor EXCEPT ![c] = backgroundTask]
          /\ pc' = [pc EXCEPT ![c] = "waiting"]
          /\ UNCHANGED <<serviceLock, backgroundTask, loop>>
      BY <1>0, <1>6, <2>2 DEF StopLocked, GoTo, Types
    <3>2. Room'
      BY <1>0, <1>6, <2>2, StartersKept DEF StopLocked, ControlInv, Room
    <3>3. ConnectsLocked' /\ CreatedInOrder' /\ RunningHasLoop'
      BY <1>0, <3>1
         DEF ControlInv, Types, ConnectsLocked, CreatedInOrder, RunningHasLoop
    <3>4. StopHasLoop'
      <4>1. backgroundTask \in 1 .. backgroundTask
        BY <1>0, <2>2 DEF ControlInv, RunningHasLoop, Types, Loops
      <4> QED
        BY <1>0, <3>1, <4>1 DEF ControlInv, StopHasLoop, Types
    <3>5. NoOrphanLoop'
      BY <1>0, <1>6, <3>1 DEF StopLocked, ControlInv, NoOrphanLoop, Types
    <3> QED
      BY <1>0, <3>2, <3>3, <3>4, <3>5 DEF ControlInv
  <2> QED
    BY <1>0, <2>1, <2>2 DEF Types
<1>7. ASSUME NEW c \in Callers, LoopEnded(c)
      PROVE  ControlInv'
  <2>1. CASE loop[waitsFor[c]] = "returned" /\ GoTo(c, "flushing")
    BY <1>0, <1>7, <2>1, StopMovesOn DEF LoopEnded, Ended
  <2>2. CASE loop[waitsFor[c]] \in {"raised", "cancelled"} /\ GoTo(c, "idle")
    BY <1>0, <1>7, <2>2, CallerMoves DEF LoopEnded, Alive
  <2> QED
    BY <1>7, <2>1, <2>2 DEF LoopEnded
<1>8. ASSUME NEW c \in Callers, StopTimesOut(c)
      PROVE  ControlInv'
  <2> DEFINE i == waitsFor[c]
  <2>1. /\ i \in Loops /\ i \in 1 .. backgroundTask
        /\ loop' = [loop EXCEPT ![i] = "cancelled"]
        /\ pc' = [pc EXCEPT ![c] = "cancelling"]
        /\ UNCHANGED <<serviceRunning, serviceLock, backgroundTask, waitsFor>>
    BY <1>0, <1>8
       DEF StopTimesOut, LoopTo, GoTo, ControlInv, StopHasLoop, Types, Loops
  <2>2. Room'
    BY <1>0, <1>8, StartersKept DEF StopTimesOut, ControlInv, Room
  <2>3. ConnectsLocked' /\ RunningHasLoop'
    BY <1>0, <2>1 DEF ControlInv, Types, ConnectsLocked, RunningHasLoop
  <2>4. CreatedInOrder'
    BY <1>0, <1>8, <2>1
       DEF StopTimesOut, ControlInv, Types, CreatedInOrder, Alive
  <2>5. StopHasLoop'
    <3> SUFFICES ASSUME NEW d \in Callers,
                        pc'[d] \in {"waiting", "cancelling", "flushing",
                                    "disconnecting"}
                 PROVE  /\ waitsFor[d] \in 1 .. backgroundTask
                        /\ pc'[d] # "waiting" => loop'[waitsFor[d]] \in Ended
      BY <2>1 DEF StopHasLoop
    <3>1. CASE d = c
      BY <1>0, <2>1, <3>1 DEF Types, Ended
    <3>2. CASE d # c
      <4>1. /\ waitsFor[d] \in 1 .. backgroundTask
            /\ pc'[d] = pc[d]
            /\ pc[d] # "waiting" => loop[waitsFor[d]] \in Ended
        BY <1>0, <2>1, <3>2 DEF ControlInv, StopHasLoop, Types
      <4>2. waitsFor[d] \in Loops
        BY <1>0, <4>1 DEF Types, Loops
      <4> QED
        BY <1>0, <2>1, <4>1, <4>2 DEF Types, Ended
    <3> QED
      BY <3>1, <3>2
  <2>6. NoOrphanLoop'
    <3> SUFFICES ASSUME NEW j \in Loops, loop'[j] \in Alive
                 PROVE  \/ serviceRunning' /\ backgroundTask' = j
                        \/ \E d \in Callers :
                             pc'[d] = "waiting" /\ waitsFor'[d] = j
      BY DEF NoOrphanLoop
    <3>1. j # i /\ loop[j] \in Alive
      BY <1>0, <2>1 DEF Types, Alive
    <3>2. CASE serviceRunning /\ backgroundTask = j
      BY <2>1, <3>2
    <3>3. ASSUME NEW d \in Callers, pc[d] = "waiting", waitsFor[d] = j
          PROVE  pc'[d] = "waiting" /\ waitsFor'[d] = j
      BY <1>0, <2>1, <3>1, <3>3 DEF Types
    <3> QED
      BY <3>1, <3>2, <3>3 DEF ControlInv, NoOrphanLoop
  <2> QED
    BY <1>0, <2>2, <2>3, <2>4, <2>5, <2>6 DEF ControlInv
<1>9. ASSUME NEW c \in Callers, CancelBackgroundTask(c)
      PROVE  ControlInv'
  <2>0. pc[c] = "cancelling" /\ loop[waitsFor[c]] \in Ended
    BY <1>9 DEF CancelBackgroundTask, ControlInv, StopHasLoop
  <2>1. CASE /\ loop[backgroundTask] \in Alive
             /\ LoopTo(backgroundTask, "cancelled")
             /\ GoTo(c, "flushing")
    <3>1. /\ backgroundTask \in Loops
          /\ loop' = [loop EXCEPT ![backgroundTask] = "cancelled"]
          /\ pc' = [pc EXCEPT ![c] = "flushing"]
          /\ UNCHANGED <<serviceRunning, serviceLock, backgroundTask, waitsFor>>
      BY <1>0, <1>9, <2>0, <2>1
         DEF CancelBackgroundTask, LoopTo, GoTo, ControlInv, StopHasLoop, Types,
             Loops
    <3>2. Room'
      BY <1>0, <1>9, <2>0, <2>1, <3>1, StartersKept DEF ControlInv, Room
    <3>3. ConnectsLocked' /\ RunningHasLoop'
      BY <1>0, <3>1 DEF ControlInv, Types, ConnectsLocked, RunningHasLoop
    <3>4. CreatedInOrder'
      BY <1>0, <2>1, <3>1 DEF ControlInv, Types, CreatedInOrder, Alive
    <3>5. StopHasLoop'
      <4> SUFFICES ASSUME NEW d \in Callers,
                          pc'[d] \in {"waiting", "cancelling", "flushing",
                                      "disconnecting"}
                   PROVE  /\ waitsFor[d] \in 1 .. backgroundTask
                          /\ pc'[d] # "waiting" => loop'[waitsFor[d]] \in Ended
        BY <3>1 DEF StopHasLoop
      <4>1. /\ waitsFor[d] \in 1 .. backgroundTask
            /\ pc'[d] # "waiting" => loop[waitsFor[d]] \in Ended
        BY <1>0, <2>0, <3>1 DEF ControlInv, StopHasLoop, Types
      <4>2. waitsFor[d] \in Loops
        BY <1>0, <4>1 DEF Types, Loops
      <4> QED
        BY <1>0, <3>1, <4>1, <4>2 DEF Types, Ended
    <3>6. NoOrphanLoop'
      <4> SUFFICES ASSUME NEW j \in Loops, loop'[j] \in Alive
                   PROVE  \E d \in Callers :
                            pc'[d] = "waiting" /\ waitsFor'[d] = j
        BY DEF NoOrphanLoop
      <4>1. j # backgroundTask /\ loop[j] \in Alive
        BY <1>0, <3>1 DEF Types, Alive
      <4>2. PICK d \in Callers : pc[d] = "waiting" /\ waitsFor[d] = j
        BY <4>1 DEF ControlInv, NoOrphanLoop
      <4> QED
        BY <1>0, <2>0, <3>1, <4>2 DEF Types
    <3> QED
      BY <1>0, <3>2, <3>3, <3>4, <3>5, <3>6 DEF ControlInv
  <2>2. CASE GoTo(c, "flushing") /\ UNCHANGED loop
    BY <1>0, <1>9, <2>0, <2>2, StopMovesOn DEF CancelBackgroundTask
  <2>3. CASE GoTo(c, "idle") /\ UNCHANGED loop
    BY <1>0, <1>9, <2>0, <2>3, CallerMoves DEF CancelBackgroundTask
  <2> QED
    BY <1>9, <2>1, <2>2, <2>3 DEF CancelBackgroundTask
<1>10. ASSUME NEW c \in Callers, Flush(c)
       PROVE  ControlInv'
  <2>1. loop[waitsFor[c]] \in Ended
    BY <1>10 DEF Flush, ControlInv, StopHasLoop
  <2> QED
    BY <1>0, <1>10, <2>1, StopMovesOn DEF Flush
<1>11. ASSUME NEW c \in Callers, Disconnect(c)
       PROVE  ControlInv'
  BY <1>0, <1>11, CallerMoves DEF Disconnect
<1>12. ASSUME NEW i \in Loops, LoopStep(i), ~StreamReconnects(i)
       PROVE  ControlInv'
  BY <1>0, <1>12, LoopMoves
     DEF LoopStep, Receive, StreamGivesUp, Published, PublishFails, Alive, Ended
<1>13. CASE UNCHANGED <<serviceVars, loop, callerVars>>
  BY <1>0, <1>13
     DEF ControlInv, Room, Starters, ConnectsLocked, CreatedInOrder,
         RunningHasLoop, StopHasLoop, NoOrphanLoop
<1>14. ASSUME NEW i \in Loops, StreamReconnects(i)
       PROVE  ControlInv'
  BY <1>13, <1>14 DEF StreamReconnects
<1>15. ASSUME ConnectionLost \/ UNCHANGED vars
       PROVE  ControlInv'
  BY <1>13, <1>15 DEF ConnectionLost, vars
<1> QED
  BY <1>1, <1>2, <1>3, <1>4, <1>5, <1>6, <1>7, <1>8, <1>9, <1>10, <1>11,
     <1>12, <1>14, <1>15
     DEF Next, StartStep, StopStep

THEOREM ControlInvariant == Spec => []ControlInv
  BY ControlInit, ControlNext, PTL DEF Spec

\* No consumption loop outlives the service and every stop() of it.
THEOREM LoopsHaveOwners == Spec => []NoOrphanLoop
  BY ControlInvariant, PTL DEF ControlInv

\* stop() flushes the publisher after the loop it stopped has ended.
THEOREM FlushIsLast == Spec => []FlushAfterLoop
<1>1. ControlInv => FlushAfterLoop
  BY DEF ControlInv, StopHasLoop, FlushAfterLoop
<1> QED
  BY <1>1, ControlInvariant, PTL

------------------------------------------------------------------------------
(* The counter of failures.                                                *)

LEMMA FailuresNext ==
  ControlInv /\ FailuresBounded /\ [Next]_vars => FailuresBounded'
<1> SUFFICES ASSUME ControlInv, FailuresBounded, [Next]_vars
             PROVE  consecutiveFailures' <
                      MaxConsecutiveFailures + Cardinality(RaisedLoops')
  BY DEF FailuresBounded, RaisedLoops
<1>0. /\ consecutiveFailures < MaxConsecutiveFailures + Cardinality(RaisedLoops)
      /\ consecutiveFailures \in Nat
      /\ Cardinality(RaisedLoops) \in Nat
      /\ Types
  BY RaisedFinite DEF FailuresBounded, RaisedLoops, ControlInv, Types
<1> USE DEF serviceVars, loopVars, portVars, callerVars
\* A step that leaves the counter alone and takes back no exception.
<1>1. ASSUME UNCHANGED consecutiveFailures, RaisedLoops' = RaisedLoops
      PROVE  consecutiveFailures' <
               MaxConsecutiveFailures + Cardinality(RaisedLoops')
  BY <1>0, <1>1
<1>2. ASSUME NEW i \in Loops, NEW label, LoopTo(i, label),
             loop[i] # "raised", label # "raised"
      PROVE  RaisedLoops' = RaisedLoops
  BY <1>0, <1>2 DEF RaisedLoops, LoopTo, Types
<1>3. ASSUME UNCHANGED loop
      PROVE  RaisedLoops' = RaisedLoops
  BY <1>3 DEF RaisedLoops
<1>4. ASSUME NEW c \in Callers, Started(c)
      PROVE  consecutiveFailures' <
               MaxConsecutiveFailures + Cardinality(RaisedLoops')
  <2>1. /\ backgroundTask + 1 \in Loops
        /\ loop[backgroundTask + 1] = "none"
    BY <1>4, RoomForLoop DEF Started, ControlInv, CreatedInOrder, Types, Loops
  <2> QED
    BY <1>1, <1>2, <1>4, <2>1 DEF Started
<1>5. ASSUME NEW c \in Callers, StopTimesOut(c) \/ CancelBackgroundTask(c)
      PROVE  consecutiveFailures' <
               MaxConsecutiveFailures + Cardinality(RaisedLoops')
  <2>1. waitsFor[c] \in Loops /\ backgroundTask \in Loops
    BY <1>0, <1>5
       DEF StopTimesOut, CancelBackgroundTask, ControlInv, StopHasLoop, Types,
           Loops
  <2> QED
    BY <1>1, <1>2, <1>3, <1>5, <2>1
       DEF StopTimesOut, CancelBackgroundTask, Alive
<1>6. ASSUME NEW c \in Callers,
             \/ CallStart(c) \/ CallStop(c) \/ StartLocked(c) \/ StartFails(c)
             \/ StopLocked(c) \/ LoopEnded(c) \/ Flush(c) \/ Disconnect(c)
      PROVE  consecutiveFailures' <
               MaxConsecutiveFailures + Cardinality(RaisedLoops')
  BY <1>1, <1>3, <1>6
     DEF CallStart, CallStop, StartLocked, StartFails, StopLocked, LoopEnded,
         Flush, Disconnect
\* A loop that raises for another reason makes the bound larger.
<1>7. ASSUME NEW i \in Loops, LoopTo(i, "raised"), loop[i] \in Alive,
             UNCHANGED consecutiveFailures
      PROVE  consecutiveFailures' <
               MaxConsecutiveFailures + Cardinality(RaisedLoops')
  BY <1>0, <1>7, OneMoreRaised DEF Alive
<1>8. ASSUME NEW i \in Loops, Receive(i) \/ StreamGivesUp(i)
      PROVE  consecutiveFailures' <
               MaxConsecutiveFailures + Cardinality(RaisedLoops')
  BY <1>1, <1>2, <1>7, <1>8 DEF Receive, StreamGivesUp, Alive
<1>9. ASSUME NEW i \in Loops, Published(i)
      PROVE  consecutiveFailures' <
               MaxConsecutiveFailures + Cardinality(RaisedLoops')
  <2>1. RaisedLoops' = RaisedLoops
    BY <1>2, <1>9 DEF Published
  <2> QED
    BY <1>0, <1>9, <2>1 DEF Published
<1>10. ASSUME NEW i \in Loops, PublishFails(i)
       PROVE  consecutiveFailures' <
                MaxConsecutiveFailures + Cardinality(RaisedLoops')
  <2>1. CASE consecutiveFailures + 1 >= MaxConsecutiveFailures
    <3>1. Cardinality(RaisedLoops') = Cardinality(RaisedLoops) + 1
      BY <1>0, <1>10, <2>1, OneMoreRaised DEF PublishFails
    <3> QED
      BY <1>0, <1>10, <3>1 DEF PublishFails
  <2>2. CASE ~(consecutiveFailures + 1 >= MaxConsecutiveFailures)
    <3>1. RaisedLoops' = RaisedLoops
      BY <1>2, <1>10, <2>2 DEF PublishFails
    <3> QED
      BY <1>0, <1>10, <2>2, <3>1 DEF PublishFails
  <2> QED
    BY <2>1, <2>2
<1>11. ASSUME \/ \E i \in Loops : StreamReconnects(i)
              \/ ConnectionLost
              \/ UNCHANGED vars
       PROVE  consecutiveFailures' <
                MaxConsecutiveFailures + Cardinality(RaisedLoops')
  BY <1>1, <1>3, <1>11 DEF StreamReconnects, ConnectionLost, vars
<1> QED
  BY <1>4, <1>5, <1>6, <1>8, <1>9, <1>10, <1>11
     DEF Next, StartStep, StopStep, LoopStep

\* The counter is behind the limit but for one failure for each loop that
\* raised, however the loops that share it overlap.
THEOREM FailuresStayBounded == Spec => []FailuresBounded
<1>1. Init => FailuresBounded
  <2>1. Init => consecutiveFailures = 0
    BY DEF Init
  <2> QED
    BY <2>1, RaisedFinite DEF FailuresBounded, RaisedLoops
<1> QED
  BY <1>1, FailuresNext, ControlInvariant, PTL DEF Spec

\* Every variable keeps to its type, with the counter of failures bounded.
THEOREM TypeCorrect == Spec => []TypeOK
<1>1. ControlInv /\ FailuresBounded => TypeOK
  BY RaisedFinite
     DEF ControlInv, Types, FailuresBounded, RaisedLoops, TypeOK
<1> QED
  BY <1>1, ControlInvariant, FailuresStayBounded, PTL

==============================================================================
