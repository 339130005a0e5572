------------------------- MODULE ConnectionLifecycle -------------------------
(***************************************************************************)
(* What a connector promises about its connection, whatever tasks use it:  *)
(* the states change along the transition matrix only, one task at a time  *)
(* makes a connection attempt, only that attempt establishes the           *)
(* connection, and nothing but a failure disturbs it before it is over.    *)
(***************************************************************************)
EXTENDS ConnectionState

CONSTANTS Tasks, None

VARIABLES
  phase,   \* the state of the connection
  flight   \* the task that makes a connection attempt, or None

lifecycleVars == <<phase, flight>>

LifecycleInit ==
  /\ phase = DISCONNECTED
  /\ flight = None

\* An attempt begins; where the matrix does not allow CONNECTING it is lost
\* before it starts.
Attempt(t) ==
  /\ flight = None
  /\ phase # CONNECTED
  /\ flight' = t
  /\ phase' = IF IsValidTransition(phase, CONNECTING) THEN CONNECTING ELSE phase

\* The attempt establishes the connection and is over.
Establish ==
  /\ flight # None
  /\ phase = CONNECTING
  /\ phase' = CONNECTED
  /\ flight' = None

\* The attempt fails, or a reconnection gives up.
Fail ==
  /\ IsValidTransition(phase, FAILED)
  /\ phase' = FAILED
  /\ flight' \in {flight, None}

\* The attempt is over without a connection: it failed before, or it was
\* cancelled.
Leave ==
  /\ flight # None
  /\ flight' = None
  /\ UNCHANGED phase

\* An established connection is lost.
Lose ==
  /\ phase = CONNECTED
  /\ phase' = RECONNECTING
  /\ UNCHANGED flight

\* The connection is down for good, or for the next attempt.
Drop ==
  /\ DISCONNECTED \in ValidTransitions[phase]
  /\ phase' = DISCONNECTED
  /\ UNCHANGED flight

LifecycleNext ==
  \/ \E t \in Tasks : Attempt(t)
  \/ Establish
  \/ Fail
  \/ Leave
  \/ Lose
  \/ Drop

LifecycleSpec == LifecycleInit /\ [][LifecycleNext]_lifecycleVars

==============================================================================
