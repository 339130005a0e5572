------------------------------- MODULE FraudJob -------------------------------
(***************************************************************************)
(* The Flink job around FraudDetector: a bounded collection is read in     *)
(* order with parallelism 1, keyed by account, given to the detector, and  *)
(* each alert is printed. Flink keeps a detector's states and timers per   *)
(* key, so there is one FraudDetector for each account.                    *)
(*                                                                         *)
(* The job assigns no watermark strategy: the only watermark its stream    *)
(* ever sees is the one Flink sends at the end of a bounded input, to all  *)
(* keys at once.                                                           *)
(*                                                                         *)
(* Abstracted: the maps from tuples and back, and the wording of an alert. *)
(***************************************************************************)
EXTENDS Integers, Sequences

CONSTANTS
  Accounts,         \* account_id
  Collections,      \* the collections the job may be given
  Minute,
  MaxTime,
  MaxTransactions,
  None

\* A collection holds each account's transactions in the order of their times,
\* as create_sample_transactions does; accounts may be out of step.
ASSUME CollectionsAssumption ==
  \A c \in Collections :
    /\ c \in Seq([account : Accounts, timestamp : 1 .. MaxTime,
                  amount : {"small", "medium", "large"}])
    /\ \A i, j \in DOMAIN c :
         i < j /\ c[i].account = c[j].account => c[i].timestamp <= c[j].timestamp

ASSUME TimesAssumption ==
  /\ Minute \in Nat \ {0}
  /\ MaxTime \in Nat \ {0}
  /\ MaxTransactions \in Nat
  /\ None \notin Int

VARIABLES
  collection,  \* the collection of this execution
  position,    \* how many of its elements have been processed
  printed,     \* the elements, as positions, whose alerts were printed
  watermark,   \* the watermark of the stream
  flag, timerState, timers,  \* per account: the states and timers Flink keeps
  now, history, alerts       \* per account: what the detector has seen

sourceVars == <<collection, position, printed>>
keyedVars == <<flag, timerState, timers, now, history, alerts>>
vars == <<sourceVars, watermark, keyedVars>>

Detector(a) == INSTANCE FraudDetector
  WITH flag <- flag[a], timerState <- timerState[a], timers <- timers[a],
       now <- now[a], history <- history[a], alerts <- alerts[a]

EndOfTime == MaxTime + Minute

TypeOK ==
  /\ collection \in Collections
  /\ position \in 0 .. Len(collection)
  /\ printed \in Seq(1 .. position)
  /\ \A a \in Accounts : Detector(a)!TypeOK

Init ==
  /\ collection \in Collections
  /\ position = 0
  /\ printed = <<>>
  /\ watermark = 0
  /\ flag = [a \in Accounts |-> FALSE]
  /\ timerState = [a \in Accounts |-> None]
  /\ timers = [a \in Accounts |-> {}]
  /\ now = [a \in Accounts |-> 1]
  /\ history = [a \in Accounts |-> <<>>]
  /\ alerts = [a \in Accounts |-> {}]

------------------------------------------------------------------------------
(* create_sample_transactions, from its seconds and cents                  *)

\* Mutant: an amount on the threshold is not small any more.
AmountOfStrict(cents) ==
  CASE cents < 100    -> "small"
    [] cents >= 50000 -> "large"
    [] OTHER          -> "medium"

\* SMALL_AMOUNT and LARGE_AMOUNT belong to the classes they bound.
AmountOf(cents) ==
  CASE cents <= 100   -> "small"
    [] cents >= 50000 -> "large"
    [] OTHER          -> "medium"

Transaction(account, seconds, cents) ==
  [account |-> account, timestamp |-> 1 + (seconds * Minute) \div 60,
   amount |-> AmountOf(cents)]

SampleTransactions ==
  << Transaction(1,   0, 60000), Transaction(1,  30, 70000),
     Transaction(2,   0,    50), Transaction(2,  10,    75),
     Transaction(3,   0,    50), Transaction(3,  30, 60000),
     Transaction(4,   0,   100), Transaction(4,  30, 50000),
     Transaction(5,   0,    10), Transaction(5,  10,    50),
     Transaction(3, 120,    99), Transaction(3, 150, 99900) >>

------------------------------------------------------------------------------
(* The job                                                                 *)

\* Mutant: the stream is not keyed, every transaction meets the same states.
KeyOfNone(transaction) == collection[1].account

\* key_by
KeyOf(transaction) == transaction.account

\* Flink gives process_element the states and timers of the current key only.
Reaches(a, timestamp) ==
  LET timer == Detector(a)!TimerTime(timestamp) IN
  \E f \in BOOLEAN, t \in {None, timerState[a], timer},
     registered \in SUBSET (timers[a] \cup {timer}),
     alert \in SUBSET {Len(history[a]) + 1} :
    /\ flag' = [flag EXCEPT ![a] = f]
    /\ timerState' = [timerState EXCEPT ![a] = t]
    /\ timers' = [timers EXCEPT ![a] = registered]
    /\ alerts' = [alerts EXCEPT ![a] = @ \cup alert]

\* Mutant: an alert is printed for the element after the one that raised it.
PrintNext(p) ==
  printed' = IF alerts' = alerts THEN printed ELSE Append(printed, p + 1)

\* print, of what the detector yielded for element p
PrintAlert(p) ==
  printed' = IF alerts' = alerts THEN printed ELSE Append(printed, p)

\* The next element reaches the detector of its key, and the alert that yields
\* is printed.
Process ==
  /\ position < Len(collection)
  /\ position' = position + 1
  /\ \E element \in {collection[position + 1]}, a \in Accounts :
       /\ a = KeyOf(element)
       /\ Reaches(a, element.timestamp)
       /\ now' = [now EXCEPT ![a] = element.timestamp]
       /\ history' = [history EXCEPT ![a] = Append(@,
            [timestamp |-> element.timestamp, amount |-> element.amount])]
       /\ Detector(a)!ProcessElement(element.timestamp, element.amount)
  /\ PrintAlert(position')
  /\ UNCHANGED <<collection, watermark>>

\* The watermark at the end of the input: on_timer for every timer still
\* registered, of whichever key.
EndOfInput ==
  /\ position = Len(collection)
  /\ watermark' = EndOfTime
  /\ \E fired \in SUBSET Accounts :
       /\ flag' = [a \in Accounts |-> a \notin fired /\ flag[a]]
       /\ timerState' = [a \in Accounts |-> IF a \in fired THEN None ELSE timerState[a]]
       /\ timers' = [a \in Accounts |-> IF a \in fired THEN {} ELSE timers[a]]
  /\ UNCHANGED <<now, history, alerts>>
  /\ \A a \in Accounts : Detector(a)!Watermark(EndOfTime)
  /\ UNCHANGED sourceVars

Finished ==
  /\ watermark = EndOfTime
  /\ UNCHANGED vars

Next == Process \/ EndOfInput \/ Finished

Spec == Init /\ [][Next]_vars

------------------------------------------------------------------------------
\* The elements of the collection that belong to the account of element p and
\* come before it.
Before(p) == {q \in 1 .. p - 1 : collection[q].account = collection[p].account}

\* Small transaction q is at most a minute before element p.
RecentSmall(q, p) ==
  /\ collection[q].amount = "small"
  /\ collection[p].timestamp - collection[q].timestamp <= Minute

\* A large transaction that follows a small one of the same account with no
\* large one between, at whatever distance.
Fraud(p) ==
  /\ collection[p].amount = "large"
  /\ \E q \in Before(p) :
       /\ collection[q].amount = "small"
       /\ \A r \in Before(p) : r > q => collection[r].amount # "large"

\* One whose account's last transaction was a small one within the minute.
Certain(p) ==
  /\ collection[p].amount = "large"
  /\ \E q \in Before(p) : RecentSmall(q, p) /\ \A r \in Before(p) : r <= q

\* What the whole job prints, whatever the accounts do to each other's order:
\* nothing without a small transaction of the same account, each certain fraud,
\* and each once, in the order of the collection.
AlertsOfEachAccount ==
  /\ \A i \in DOMAIN printed : Fraud(printed[i])
  /\ \A p \in 1 .. position : Certain(p) => \E i \in DOMAIN printed : printed[i] = p
  /\ \A i, j \in DOMAIN printed : i < j => printed[i] < printed[j]

\* What the guide to the sample data and the text of the alerts promise: an
\* alert follows a small transaction of its account by a minute at most.
AlertsWithinMinute ==
  \A i \in DOMAIN printed : \E q \in Before(printed[i]) : RecentSmall(q, printed[i])

\* The job over its own sample data announces accounts 3 and 4, account 3
\* twice, in the order the guide shows.
SampleAlerts ==
  collection = SampleTransactions /\ position = Len(collection) =>
    [i \in DOMAIN printed |-> collection[printed[i]].account] = <<3, 4, 3>>

\* When the job ends no account leaves anything in Flink's state.
NothingLeftInState ==
  watermark = EndOfTime =>
    \A a \in Accounts : ~flag[a] /\ timerState[a] = None /\ timers[a] = {}

==============================================================================
