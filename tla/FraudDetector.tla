----------------------------- MODULE FraudDetector -----------------------------
(***************************************************************************)
(* FraudDetector: a keyed process function that raises an alert on a large *)
(* transaction after a small one. Flink keeps the state and the timers of  *)
(* each account apart, so this is one account; the transactions of the     *)
(* others are seen only through the time they let the stream advance.      *)
(*                                                                         *)
(* Time is event time, in units of which Minute make one minute. Flink     *)
(* calls the function for one element or one watermark at a time, and a    *)
(* watermark stays below the timestamp of the last element; a job without  *)
(* a watermark strategy is the behaviours in which it moves at the end     *)
(* only.                                                                   *)
(***************************************************************************)
EXTENDS Integers, Sequences

CONSTANTS
  Minute,           \* ONE_MINUTE
  MaxTime,          \* bound: the last timestamp
  MaxTransactions,  \* bound: how many transactions the account makes
  None

ASSUME TimesAssumption ==
  /\ Minute \in Nat \ {0}
  /\ MaxTime \in Nat \ {0}
  /\ MaxTransactions \in Nat
  /\ None \notin Int

VARIABLES
  flag,        \* flag_state: the last transaction was small
  timerState,  \* timer_state: the timer to delete, or None
  timers,      \* the event-time timers Flink has registered for the account
  now,         \* the timestamp of the last element of the stream
  watermark,   \* the watermark of the stream
  history,     \* the transactions of the account so far
  alerts       \* the transactions, as positions in history, that were alerted

stateVars == <<flag, timerState, timers>>
timeVars == <<now, watermark>>
vars == <<stateVars, timeVars, history, alerts>>

\* An amount is at most SMALL_AMOUNT, at least LARGE_AMOUNT or between them.
Amounts == {"small", "medium", "large"}
Times == 1 .. MaxTime
Transactions == [timestamp : Times, amount : Amounts]

\* The watermark Flink sends at the end of its input.
EndOfTime == MaxTime + Minute

TypeOK ==
  /\ flag \in BOOLEAN
  /\ timerState \in 1 .. EndOfTime \cup {None}
  /\ timers \subseteq 1 .. EndOfTime
  /\ now \in Times
  /\ watermark \in 0 .. EndOfTime
  /\ history \in Seq(Transactions)
  /\ alerts \subseteq DOMAIN history

Init ==
  /\ flag = FALSE
  /\ timerState = None
  /\ timers = {}
  /\ now = 1
  /\ watermark = 0
  /\ history = <<>>
  /\ alerts = {}

------------------------------------------------------------------------------
(* process_element                                                         *)

\* Mutant: the timer is deleted and forgotten, the flag stays.
CleanUpKeepsFlag ==
  /\ timers' = timers \ {timerState}
  /\ timerState' = None
  /\ UNCHANGED flag

\* _clean_up
CleanUp ==
  /\ timers' = timers \ {timerState}
  /\ flag' = FALSE
  /\ timerState' = None

\* Mutant: the minute is counted one unit too long.
TimerTimeLate(timestamp) == timestamp + Minute + 1

\* Mutant: one unit too short.
TimerTimeEarly(timestamp) == timestamp + Minute - 1

TimerTime(timestamp) == timestamp + Minute

\* A large transaction while the flag is set: alert and start over.
DetectFraud(amount) ==
  /\ flag
  /\ amount = "large"
  /\ alerts' = alerts \cup {Len(history) + 1}
  /\ CleanUp

\* A small one sets the flag and registers a timer; the timers of earlier small
\* ones stay registered.
NoteSmall(timestamp, amount) ==
  /\ amount = "small"
  /\ flag' = TRUE
  /\ timerState' = TimerTime(timestamp)
  /\ timers' = timers \cup {TimerTime(timestamp)}
  /\ UNCHANGED alerts

\* Any other starts over, unless the flag is set: a medium one after a small one
\* keeps it. The docstring's third rule has it start over then too.
PassOther(amount) ==
  /\ amount = "medium" \/ (amount = "large" /\ ~flag)
  /\ \/ ~flag /\ CleanUp
     \/ flag /\ UNCHANGED stateVars
  /\ UNCHANGED alerts

\* The transactions of the account come in the order of their timestamps.
ProcessElement(timestamp, amount) ==
  /\ watermark < EndOfTime
  /\ Len(history) < MaxTransactions
  /\ now <= timestamp
  /\ now' = timestamp
  /\ history' = Append(history, [timestamp |-> timestamp, amount |-> amount])
  /\ \/ DetectFraud(amount)
     \/ NoteSmall(timestamp, amount)
     \/ PassOther(amount)
  /\ UNCHANGED watermark

------------------------------------------------------------------------------
(* Flink: the stream's time, and the timers that are due                   *)

\* A later element of another account comes in.
Advance ==
  /\ watermark < EndOfTime
  /\ now < MaxTime
  /\ now' = now + 1
  /\ UNCHANGED <<stateVars, watermark, history, alerts>>

\* on_timer for each timer that is due: whichever it is, it clears both states.
FireTimers(w) ==
  /\ timers' = {t \in timers : t > w}
  /\ \/ /\ timers' # timers
        /\ flag' = FALSE
        /\ timerState' = None
     \/ /\ timers' = timers
        /\ UNCHANGED <<flag, timerState>>

\* A watermark below the last timestamp, or the one at the end of the input.
Watermark(w) ==
  /\ w > watermark
  /\ w < now \/ w = EndOfTime
  /\ watermark' = w
  /\ FireTimers(w)
  /\ UNCHANGED <<now, history, alerts>>

Finished ==
  /\ watermark = EndOfTime
  /\ UNCHANGED vars

Next ==
  \/ \E timestamp \in Times, amount \in Amounts : ProcessElement(timestamp, amount)
  \/ Advance
  \/ \E w \in 1 .. EndOfTime : Watermark(w)
  \/ Finished

Spec == Init /\ [][Next]_vars

------------------------------------------------------------------------------
Smalls == {i \in DOMAIN history : history[i].amount = "small"}
Larges == {i \in DOMAIN history : history[i].amount = "large"}

\* Small transaction j and large transaction i with no other large between.
Pair(j, i) ==
  /\ j \in Smalls
  /\ i \in Larges
  /\ j < i
  /\ \A k \in Larges : k <= j \/ k >= i

Within(j, i) == history[i].timestamp - history[j].timestamp <= Minute

\* A set flag expires: its timer is known and registered, so neither a clean up
\* nor a timer of an earlier transaction leaves a flag that nothing will clear.
FlagExpires == flag <=> (timerState # None /\ timerState \in timers)

\* No timer leaks: those not deleted fire within a minute of the last element.
TimersDue == \A t \in timers : watermark < t /\ t <= now + Minute

\* Each alert has a small transaction of its own before it.
AlertsSound == \A i \in alerts : \E j \in DOMAIN history : Pair(j, i)

\* A large transaction that follows a small one at once is alerted when every
\* small one of the account so far lies within the minute before it: no timer,
\* of an earlier pair or of an earlier small one, makes the detector forget too
\* soon. What an amount between the two does is left open: the code and its
\* docstring disagree about it.
FreshFraudAlerts ==
  \A i \in Larges :
    /\ i - 1 \in Smalls
    /\ \A j \in Smalls : j < i => Within(j, i)
    => i \in alerts

\* A large transaction within a minute of the small one before it is alerted,
\* as the class promises.
EveryFraudAlerts ==
  \A i, j \in DOMAIN history : Pair(j, i) /\ Within(j, i) => i \in alerts

==============================================================================
