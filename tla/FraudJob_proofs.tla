---------------------------- MODULE FraudJob_proofs ----------------------------
(***************************************************************************)
(* Theorems about the fraud job, for every set of accounts and every       *)
(* collection: what one account sees of the job is a behaviour of          *)
(* FraudDetector, so what is proved there holds of each account here.      *)
(***************************************************************************)
EXTENDS FraudJob, SequenceTheorems, TLAPS

\* Any account. The theorems name one, because the theorems of FraudDetector
\* cannot be cited for an instance that has a parameter, as Detector(a) has.
CONSTANT Account

One == INSTANCE FraudDetector_proofs
  WITH flag <- flag[Account], timerState <- timerState[Account],
       timers <- timers[Account], now <- now[Account],
       history <- history[Account], alerts <- alerts[Account]

\* The elements of a collection.
Elements ==
  [account : Accounts, timestamp : 1 .. MaxTime,
   amount : {"small", "medium", "large"}]

\* The source reads one collection, and what is kept per key is kept for each.
Keyed ==
  /\ collection \in Collections
  /\ position \in Nat
  /\ DOMAIN flag = Accounts
  /\ DOMAIN timerState = Accounts
  /\ DOMAIN timers = Accounts
  /\ DOMAIN now = Accounts
  /\ DOMAIN history = Accounts
  /\ DOMAIN alerts = Accounts

LEMMA InitKeyed == Init => Keyed
  BY DEF Init, Keyed

LEMMA NextKeyed == Keyed /\ [Next]_vars => Keyed'
<1> SUFFICES ASSUME Keyed, [Next]_vars
             PROVE  Keyed'
  OBVIOUS
<1>1. CASE Process
  BY <1>1 DEF Process, Reaches, Keyed
<1>2. CASE EndOfInput
  BY <1>2 DEF EndOfInput, Keyed, sourceVars
<1>3. CASE UNCHANGED vars
  BY <1>3 DEF vars, sourceVars, keyedVars, Keyed
<1> QED
  BY <1>1, <1>2, <1>3 DEF Next, Finished

------------------------------------------------------------------------------
(* The steps of the job are steps of the account's detector.               *)

LEMMA SameElement ==
  ASSUME NEW timestamp, NEW amount,
         Detector(Account)!ProcessElement(timestamp, amount)
  PROVE  One!ProcessElement(timestamp, amount)
  BY DEF One!ProcessElement, Detector!ProcessElement, One!DetectFraud,
         Detector!DetectFraud, One!NoteSmall, Detector!NoteSmall, One!PassOther,
         Detector!PassOther, One!CleanUp, Detector!CleanUp, One!stateVars,
         Detector!stateVars, One!TimerTime, Detector!TimerTime,
         Detector!EndOfTime, One!EndOfTime

LEMMA SameWatermark ==
  ASSUME NEW w, Detector(Account)!Watermark(w)
  PROVE  One!Watermark(w)
  BY DEF One!Watermark, Detector!Watermark, One!FireTimers,
         Detector!FireTimers, One!EndOfTime, Detector!EndOfTime

LEMMA InitOfOne == Account \in Accounts /\ Init => One!Init
  BY DEF Init, One!Init

\* An element of another account is a stutter.
LEMMA ProcessOfOne ==
  ASSUME Account \in Accounts, Keyed, Process
  PROVE  [One!Next]_(One!vars)
<1>1. PICK element \in {collection[position + 1]}, a \in Accounts :
        /\ a = KeyOf(element)
        /\ Reaches(a, element.timestamp)
        /\ now' = [now EXCEPT ![a] = element.timestamp]
        /\ history' = [history EXCEPT ![a] = Append(@,
             [timestamp |-> element.timestamp, amount |-> element.amount])]
        /\ Detector(a)!ProcessElement(element.timestamp, element.amount)
  BY DEF Process
<1>2. /\ element.timestamp \in One!Times
      /\ element.amount \in One!Amounts
  <2>1. collection \in Seq(Elements)
    BY CollectionsAssumption DEF Keyed, Elements
  <2>2. position < Len(collection) /\ position \in Nat
    BY DEF Keyed, Process
  <2>3. position + 1 \in 1 .. Len(collection)
    BY <2>1, <2>2
  <2>4. element \in Elements
    BY <2>1, <2>3
  <2> QED
    BY <2>4 DEF Elements, One!Times, One!Amounts
<1>3. CASE a = Account
  <2>1. One!ProcessElement(element.timestamp, element.amount)
    BY <1>1, <1>3, SameElement
  <2> QED
    BY <1>2, <2>1 DEF One!Next
<1>4. CASE a # Account
  <2>1. UNCHANGED <<flag[Account], timerState[Account], timers[Account],
                    alerts[Account]>>
    BY <1>1, <1>4 DEF Reaches, Keyed
  <2>2. UNCHANGED <<now[Account], history[Account]>>
    BY <1>1, <1>4 DEF Keyed
  <2>3. UNCHANGED watermark
    BY DEF Process
  <2> QED
    BY <2>1, <2>2, <2>3 DEF One!vars, One!stateVars, One!timeVars
<1> QED
  BY <1>3, <1>4

LEMMA NextOfOne ==
  Account \in Accounts /\ Keyed /\ [Next]_vars => [One!Next]_(One!vars)
<1> SUFFICES ASSUME Account \in Accounts, Keyed, [Next]_vars
             PROVE  [One!Next]_(One!vars)
  OBVIOUS
<1>1. CASE Process
  BY <1>1, ProcessOfOne
<1>2. CASE EndOfInput
  <2>1. One!Watermark(EndOfTime)
    BY <1>2, SameWatermark DEF EndOfInput
  <2>2. EndOfTime \in 1 .. One!EndOfTime
    BY TimesAssumption DEF EndOfTime, One!EndOfTime
  <2> QED
    BY <2>1, <2>2 DEF One!Next
<1>3. CASE UNCHANGED vars
  BY <1>3 DEF vars, sourceVars, keyedVars, One!vars, One!stateVars, One!timeVars
<1> QED
  BY <1>1, <1>2, <1>3 DEF Next, Finished

\* Whatever the other accounts do, what the job does with one account is a
\* behaviour of the detector: states, timers and alerts of the accounts do not
\* mix.
THEOREM AccountsKeptApart == Account \in Accounts => (Spec => One!Spec)
<1> SUFFICES ASSUME Account \in Accounts
             PROVE  Spec => One!Spec
  OBVIOUS
<1>1. Init => One!Init
  BY InitOfOne
<1>2. Keyed /\ [Next]_vars => [One!Next]_(One!vars)
  BY NextOfOne
<1> QED
  BY <1>1, <1>2, InitKeyed, NextKeyed, PTL DEF Spec, One!Spec

------------------------------------------------------------------------------
(* What is proved of the detector, for the account.                        *)

\* Every alert the job raises for the account has a small transaction of that
\* account before it, and no large one right after a small one is missed when
\* all small ones are fresh (process_element).
THEOREM AlertsOfAccount ==
  Account \in Accounts =>
    (Spec => [](One!AlertsSound /\ One!FreshFraudAlerts))
<1>1. One!Spec => []One!AlertsSound
  BY One!AlertsHaveCause, TimesAssumption DEF One!TimesAssumption
<1>2. One!Spec => []One!FreshFraudAlerts
  BY One!FreshFraudCaught, TimesAssumption DEF One!TimesAssumption
<1> QED
  BY <1>1, <1>2, AccountsKeptApart, PTL

\* When the job has ended the account leaves neither flag nor timer in Flink's
\* state.
THEOREM AccountLeavesNothing ==
  Account \in Accounts =>
    (Spec => [](watermark = EndOfTime =>
                  /\ ~flag[Account]
                  /\ timers[Account] = {}))
<1>1. One!Spec => [](One!TypeOK /\ One!FlagExpires /\ One!TimersDue)
  BY One!TypeCorrect, One!FlagAlwaysExpires, One!TimersAlwaysDue,
     TimesAssumption, PTL DEF One!TimesAssumption
<1>2. One!TypeOK /\ One!FlagExpires /\ One!TimersDue =>
        (watermark = EndOfTime =>
           ~flag[Account] /\ timers[Account] = {})
  BY TimesAssumption DEF One!TypeOK, One!FlagExpires, One!TimersDue,
     EndOfTime, One!EndOfTime, One!Times
<1> QED
  BY <1>1, <1>2, AccountsKeptApart, PTL

------------------------------------------------------------------------------
(* The whole job, all accounts at once.                                    *)

Amounts == {"small", "medium", "large"}
History == Seq([timestamp : 1 .. MaxTime, amount : Amounts])

JobTypes ==
  /\ collection \in Collections
  /\ position \in 0 .. Len(collection)
  /\ printed \in Seq(1 .. position)
  /\ watermark \in 0 .. EndOfTime
  /\ flag \in [Accounts -> BOOLEAN]
  /\ timerState \in [Accounts -> 1 .. EndOfTime \cup {None}]
  /\ timers \in [Accounts -> SUBSET (1 .. EndOfTime)]
  /\ now \in [Accounts -> 1 .. MaxTime]
  /\ history \in [Accounts -> History]
  /\ alerts \in [Accounts -> SUBSET Nat]
  /\ \A a \in Accounts : alerts[a] \subseteq 1 .. Len(history[a])

\* A small transaction of the account waits for a large one.
Waiting(a) ==
  \E q \in 1 .. position :
    /\ collection[q].account = a
    /\ collection[q].amount = "small"
    /\ \A r \in 1 .. position :
         r > q /\ collection[r].account = a => collection[r].amount # "large"

\* Before the input ends a flag is set for exactly the accounts that wait.
FlagsRemember ==
  watermark # EndOfTime => \A a \in Accounts : flag[a] <=> Waiting(a)

\* A flag has a timer that will clear it.
FlagsExpire ==
  \A a \in Accounts :
    /\ flag[a] <=> timerState[a] # None
    /\ flag[a] => timerState[a] \in timers[a]

\* What the code prints, to the last alert: as no timer fires before the input
\* ends, how long ago the small transaction was plays no part.
PrintedExactly ==
  /\ {printed[i] : i \in DOMAIN printed} = {p \in 1 .. position : Fraud(p)}
  /\ \A i, j \in DOMAIN printed : i < j => printed[i] < printed[j]

JobInv ==
  /\ JobTypes
  /\ FlagsRemember
  /\ FlagsExpire
  /\ PrintedExactly
  /\ NothingLeftInState

LEMMA JobInit == Init => JobInv
<1> SUFFICES ASSUME Init PROVE JobInv
  OBVIOUS
<1>0. EndOfTime \in Nat /\ EndOfTime > 0
  BY TimesAssumption DEF EndOfTime
<1>1. collection \in Seq(Elements)
  BY CollectionsAssumption DEF Init, Elements
<1>2. JobTypes
  <2>1. /\ <<>> \in History
        /\ <<>> \in Seq(1 .. 0)
        /\ 1 \in 1 .. MaxTime
        /\ Len(collection) \in Nat
    BY <1>1, TimesAssumption DEF History
  <2>2. flag \in [Accounts -> BOOLEAN]
    BY DEF Init
  <2>3. /\ timers \in [Accounts -> SUBSET (1 .. EndOfTime)]
        /\ timerState \in [Accounts -> 1 .. EndOfTime \cup {None}]
    BY DEF Init
  <2>4. /\ now \in [Accounts -> 1 .. MaxTime]
        /\ history \in [Accounts -> History]
        /\ alerts \in [Accounts -> SUBSET Nat]
    BY <2>1 DEF Init
  <2>5. /\ position \in 0 .. Len(collection)
        /\ printed \in Seq(1 .. position)
        /\ watermark \in 0 .. EndOfTime
        /\ collection \in Collections
        /\ \A a \in Accounts : alerts[a] \subseteq 1 .. Len(history[a])
    BY <1>0, <2>1 DEF Init
  <2> QED
    BY <2>2, <2>3, <2>4, <2>5 DEF JobTypes
<1>3. FlagsRemember
  <2>1. 1 .. position = {}
    BY DEF Init
  <2> QED
    BY <2>1 DEF Init, FlagsRemember, Waiting
<1>4. FlagsExpire
  BY DEF Init, FlagsExpire
<1>5. PrintedExactly
  BY DEF Init, PrintedExactly
<1>6. NothingLeftInState
  BY <1>0 DEF Init, NothingLeftInState
<1> QED
  BY <1>2, <1>3, <1>4, <1>5, <1>6 DEF JobInv

\* What the next element is.
LEMMA NextElement ==
  ASSUME JobTypes, position < Len(collection)
  PROVE  /\ position + 1 \in 1 .. Len(collection)
         /\ collection[position + 1] \in Elements
<1>1. collection \in Seq(Elements)
  BY CollectionsAssumption DEF JobTypes, Elements
<1>2. position \in Nat /\ Len(collection) \in Nat
  BY <1>1 DEF JobTypes
<1> QED
  BY <1>1, <1>2

\* What the detector of an account does to the states of the job.
Detected(a, amount) ==
  /\ flag[a]
  /\ amount = "large"
  /\ flag' = [flag EXCEPT ![a] = FALSE]
  /\ timerState' = [timerState EXCEPT ![a] = None]
  /\ timers' = [timers EXCEPT ![a] = @ \ {timerState[a]}]
  /\ alerts' = [alerts EXCEPT ![a] = @ \cup {Len(history[a]) + 1}]

Noted(a, timestamp, amount) ==
  /\ amount = "small"
  /\ flag' = [flag EXCEPT ![a] = TRUE]
  /\ timerState' = [timerState EXCEPT ![a] = timestamp + Minute]
  /\ timers' = [timers EXCEPT ![a] = @ \cup {timestamp + Minute}]
  /\ alerts' = alerts

Passed(a, amount) ==
  /\ amount = "medium" \/ (amount = "large" /\ ~flag[a])
  /\ flag' = flag
  /\ alerts' = alerts
  /\ \/ flag[a] /\ timerState' = timerState /\ timers' = timers
     \/ /\ ~flag[a]
        /\ timerState' = [timerState EXCEPT ![a] = None]
        /\ timers' = [timers EXCEPT ![a] = @ \ {timerState[a]}]

LEMMA ElementStep ==
  ASSUME JobTypes, Process
  PROVE  \E a \in Accounts, timestamp \in 1 .. MaxTime, amount \in Amounts :
           /\ collection[position + 1] =
                [account |-> a, timestamp |-> timestamp, amount |-> amount]
           /\ watermark < EndOfTime
           /\ now' = [now EXCEPT ![a] = timestamp]
           /\ history' = [history EXCEPT ![a] = Append(@,
                [timestamp |-> timestamp, amount |-> amount])]
           /\ \/ Detected(a, amount)
              \/ Noted(a, timestamp, amount)
              \/ Passed(a, amount)
<1>1. PICK element \in {collection[position + 1]}, a \in Accounts :
        /\ a = KeyOf(element)
        /\ Reaches(a, element.timestamp)
        /\ now' = [now EXCEPT ![a] = element.timestamp]
        /\ history' = [history EXCEPT ![a] = Append(@,
             [timestamp |-> element.timestamp, amount |-> element.amount])]
        /\ Detector(a)!ProcessElement(element.timestamp, element.amount)
  BY DEF Process
<1>2. element \in Elements /\ element = collection[position + 1]
  BY NextElement DEF Process
<1>3. /\ element.timestamp \in 1 .. MaxTime
      /\ element.amount \in Amounts
      /\ element = [account |-> a, timestamp |-> element.timestamp,
                    amount |-> element.amount]
  BY <1>1, <1>2 DEF Elements, Amounts, KeyOf
<1>4. watermark < EndOfTime
  BY <1>1 DEF Detector!ProcessElement, Detector!EndOfTime, EndOfTime
<1>5. PICK f \in BOOLEAN,
           t \in {None, timerState[a], element.timestamp + Minute},
           registered \in SUBSET (timers[a] \cup {element.timestamp + Minute}),
           alert \in SUBSET {Len(history[a]) + 1} :
        /\ flag' = [flag EXCEPT ![a] = f]
        /\ timerState' = [timerState EXCEPT ![a] = t]
        /\ timers' = [timers EXCEPT ![a] = registered]
        /\ alerts' = [alerts EXCEPT ![a] = @ \cup alert]
  BY <1>1 DEF Reaches, Detector!TimerTime
<1>6. /\ flag'[a] = f
      /\ timerState'[a] = t
      /\ timers'[a] = registered
      /\ alerts'[a] = alerts[a] \cup alert
  BY <1>5 DEF JobTypes
<1> DEFINE timestamp == element.timestamp
           amount == element.amount
<1>7. CASE Detector(a)!DetectFraud(amount)
  <2>1. /\ flag[a]
        /\ amount = "large"
        /\ f = FALSE
        /\ t = None
        /\ registered = timers[a] \ {timerState[a]}
        /\ alerts[a] \cup alert = alerts[a] \cup {Len(history[a]) + 1}
    BY <1>6, <1>7 DEF Detector!DetectFraud, Detector!CleanUp
  <2>2. Detected(a, amount)
    BY <1>5, <2>1 DEF Detected
  <2> QED
    BY <1>1, <1>2, <1>3, <1>4, <2>2
<1>8. CASE Detector(a)!NoteSmall(timestamp, amount)
  <2>1. /\ amount = "small"
        /\ f = TRUE
        /\ t = timestamp + Minute
        /\ registered = timers[a] \cup {timestamp + Minute}
        /\ alerts[a] \cup alert = alerts[a]
    BY <1>6, <1>8 DEF Detector!NoteSmall, Detector!TimerTime
  <2>2. alerts' = alerts
    BY <1>5, <2>1 DEF JobTypes
  <2>3. Noted(a, timestamp, amount)
    BY <1>5, <2>1, <2>2 DEF Noted
  <2> QED
    BY <1>1, <1>2, <1>3, <1>4, <2>3
<1>9. CASE Detector(a)!PassOther(amount)
  <2>1. /\ amount = "medium" \/ (amount = "large" /\ ~flag[a])
        /\ alerts[a] \cup alert = alerts[a]
        /\ \/ ~flag[a] /\ f = FALSE /\ t = None
              /\ registered = timers[a] \ {timerState[a]}
           \/ flag[a] /\ f = flag[a] /\ t = timerState[a]
              /\ registered = timers[a]
    BY <1>6, <1>9 DEF Detector!PassOther, Detector!CleanUp, Detector!stateVars
  <2>2. alerts' = alerts
    BY <1>5, <2>1 DEF JobTypes
  <2>3. flag' = flag
    BY <1>5, <2>1 DEF JobTypes
  <2>4. CASE flag[a]
    <3>1. timerState' = timerState /\ timers' = timers
      BY <1>5, <2>1, <2>4 DEF JobTypes
    <3>2. Passed(a, amount)
      BY <2>1, <2>2, <2>3, <2>4, <3>1 DEF Passed
    <3> QED
      BY <1>1, <1>2, <1>3, <1>4, <3>2
  <2>5. CASE ~flag[a]
    <3>1. Passed(a, amount)
      BY <1>5, <2>1, <2>2, <2>3, <2>5 DEF Passed
    <3> QED
      BY <1>1, <1>2, <1>3, <1>4, <3>1
  <2> QED
    BY <2>4, <2>5
<1> QED
  BY <1>1, <1>7, <1>8, <1>9 DEF Detector!ProcessElement

------------------------------------------------------------------------------
(* What process_element keeps true.                                        *)

LEMMA ProcessTypes ==
  ASSUME JobTypes, Process
  PROVE  JobTypes'
<1>1. PICK a \in Accounts, timestamp \in 1 .. MaxTime, amount \in Amounts :
        /\ now' = [now EXCEPT ![a] = timestamp]
        /\ history' = [history EXCEPT ![a] = Append(@,
             [timestamp |-> timestamp, amount |-> amount])]
        /\ \/ Detected(a, amount)
           \/ Noted(a, timestamp, amount)
           \/ Passed(a, amount)
  BY ElementStep
<1>2. /\ position \in Nat
      /\ position' = position + 1
      /\ collection' = collection
      /\ position' \in 0 .. Len(collection')
      /\ watermark' = watermark
  BY NextElement DEF Process, JobTypes
<1>3. printed' \in Seq(1 .. position')
  <2>1. 1 .. position \subseteq 1 .. position'
    BY <1>2
  <2>2. printed \in Seq(1 .. position')
    BY <2>1, SeqMonotonic DEF JobTypes
  <2>3. position' \in 1 .. position'
    BY <1>2
  <2>4. Append(printed, position') \in Seq(1 .. position')
    BY <2>2, <2>3
  <2> QED
    BY <2>2, <2>4 DEF Process, PrintAlert
<1>4. /\ timestamp + Minute \in 1 .. EndOfTime
      /\ timestamp \in 1 .. MaxTime
  BY TimesAssumption DEF EndOfTime
<1>5. flag' \in [Accounts -> BOOLEAN]
  BY <1>1 DEF JobTypes, Detected, Noted, Passed
<1>6. timerState' \in [Accounts -> 1 .. EndOfTime \cup {None}]
  BY <1>1, <1>4 DEF JobTypes, Detected, Noted, Passed
<1>7. timers' \in [Accounts -> SUBSET (1 .. EndOfTime)]
  <2>1. PICK registered \in SUBSET (1 .. EndOfTime) :
          timers' = timers \/ timers' = [timers EXCEPT ![a] = registered]
    <3>1. timers[a] \subseteq 1 .. EndOfTime
      BY DEF JobTypes
    <3>2. /\ timers[a] \ {timerState[a]} \in SUBSET (1 .. EndOfTime)
          /\ timers[a] \cup {timestamp + Minute} \in SUBSET (1 .. EndOfTime)
      BY <1>4, <3>1
    <3>3. \/ timers' = timers
          \/ timers' = [timers EXCEPT ![a] = timers[a] \ {timerState[a]}]
          \/ timers' = [timers EXCEPT ![a] = timers[a] \cup {timestamp + Minute}]
      BY <1>1 DEF Detected, Noted, Passed
    <3> QED
      BY <3>2, <3>3
  <2> QED
    BY <2>1 DEF JobTypes
<1>8. now' \in [Accounts -> 1 .. MaxTime]
  BY <1>1 DEF JobTypes
<1>9. /\ history' \in [Accounts -> History]
      /\ \A b \in Accounts : Len(history[b]) \in Nat
      /\ \A b \in Accounts :
           Len(history'[b]) = IF b = a THEN Len(history[b]) + 1
                                       ELSE Len(history[b])
  <2>1. /\ history[a] \in History
        /\ [timestamp |-> timestamp, amount |-> amount]
             \in [timestamp : 1 .. MaxTime, amount : Amounts]
    BY DEF JobTypes
  <2> DEFINE longer == Append(history[a],
                              [timestamp |-> timestamp, amount |-> amount])
  <2>2. longer \in History /\ Len(longer) = Len(history[a]) + 1
    BY <2>1 DEF History
  <2>3. history' = [history EXCEPT ![a] = longer]
    BY <1>1
  <2>4. \A b \in Accounts : Len(history[b]) \in Nat
    BY DEF JobTypes, History
  <2>5. \A b \in Accounts :
          history'[b] = IF b = a THEN longer ELSE history[b]
    BY <2>3 DEF JobTypes
  <2> HIDE DEF longer
  <2> QED
    BY <2>2, <2>3, <2>4, <2>5 DEF JobTypes
<1>10. /\ alerts' \in [Accounts -> SUBSET Nat]
       /\ \A b \in Accounts : alerts'[b] \subseteq 1 .. Len(history'[b])
  <2>1. \A b \in Accounts : alerts[b] \subseteq 1 .. Len(history'[b])
    <3> SUFFICES ASSUME NEW b \in Accounts
                 PROVE  1 .. Len(history[b]) \subseteq 1 .. Len(history'[b])
      BY DEF JobTypes
    <3>1. Len(history'[b]) = Len(history[b]) \/ Len(history'[b]) = Len(history[b]) + 1
      BY <1>9
    <3> QED
      BY <1>9, <3>1
  <2>2. CASE alerts' = alerts
    BY <2>1, <2>2 DEF JobTypes
  <2>3. CASE alerts' = [alerts EXCEPT ![a] = @ \cup {Len(history[a]) + 1}]
    BY <1>9, <2>1, <2>3 DEF JobTypes
  <2> QED
    BY <1>1, <2>2, <2>3 DEF Detected, Noted, Passed
<1> QED
  BY <1>2, <1>3, <1>5, <1>6, <1>7, <1>8, <1>9, <1>10 DEF JobTypes

\* What the next element changes in the history of the accounts, seen in the
\* collection.
LEMMA NextWaits ==
  ASSUME JobTypes, position < Len(collection),
         collection' = collection, position' = position + 1,
         NEW account, collection[position + 1].account = account,
         NEW amount, collection[position + 1].amount = amount
  PROVE  /\ \A a : a # account => (Waiting(a)' <=> Waiting(a))
         /\ Waiting(account)' <=>
              \/ amount = "small"
              \/ Waiting(account) /\ amount # "large"
         /\ Fraud(position + 1) <=>
              amount = "large" /\ Waiting(account)
         /\ \A p : Fraud(p)' <=> Fraud(p)
<1>1. /\ position \in Nat
      /\ 1 .. position' = 1 .. position \cup {position + 1}
      /\ \A q \in 1 .. position : q < position + 1 /\ q \in Nat
  BY NextElement DEF JobTypes
<1>2. ASSUME NEW a, a # account
      PROVE  Waiting(a)' <=> Waiting(a)
  BY <1>1, <1>2 DEF Waiting
<1>3. Waiting(account)' <=>
        \/ amount = "small"
        \/ Waiting(account) /\ amount # "large"
  <2>1. ASSUME amount = "small"
        PROVE  Waiting(account)'
    <3>1. \A r \in 1 .. position' : ~(r > position + 1)
      BY <1>1
    <3> QED
      BY <1>1, <2>1, <3>1 DEF Waiting
  <2>2. ASSUME Waiting(account), amount # "large"
        PROVE  Waiting(account)'
    <3>1. PICK q \in 1 .. position :
            /\ collection[q].account = account
            /\ collection[q].amount = "small"
            /\ \A r \in 1 .. position :
                 r > q /\ collection[r].account = account =>
                   collection[r].amount # "large"
      BY <2>2 DEF Waiting
    <3>2. \A r \in 1 .. position' :
            r > q /\ collection[r].account = account =>
              collection[r].amount # "large"
      BY <1>1, <2>2, <3>1
    <3> QED
      BY <1>1, <3>1, <3>2 DEF Waiting
  <2>3. ASSUME Waiting(account)', amount # "small"
        PROVE  Waiting(account) /\ amount # "large"
    <3>1. PICK q \in 1 .. position' :
            /\ collection[q].account = account
            /\ collection[q].amount = "small"
            /\ \A r \in 1 .. position' :
                 r > q /\ collection[r].account = account =>
                   collection[r].amount # "large"
      BY <2>3 DEF Waiting
    <3>2. q # position + 1
      BY <2>3, <3>1
    <3>3. q \in 1 .. position /\ position + 1 > q
      BY <1>1, <3>1, <3>2
    <3> QED
      BY <1>1, <3>1, <3>3 DEF Waiting
  <2> QED
    BY <2>1, <2>2, <2>3
<1>4. Fraud(position + 1) <=>
        amount = "large" /\ Waiting(account)
  <2>1. Before(position + 1) =
          {q \in 1 .. position : collection[q].account = account}
    BY <1>1 DEF Before
  <2> QED
    BY <2>1 DEF Fraud, Waiting
<1>5. \A p : Fraud(p)' <=> Fraud(p)
  BY DEF Fraud, Before
<1> QED
  BY <1>2, <1>3, <1>4, <1>5

LEMMA ProcessKeeps ==
  ASSUME JobInv, Process
  PROVE  JobInv'
<1> USE DEF JobInv
<1>0. JobTypes'
  BY ProcessTypes
<1>1. PICK a \in Accounts, timestamp \in 1 .. MaxTime, amount \in Amounts :
        /\ collection[position + 1] =
             [account |-> a, timestamp |-> timestamp, amount |-> amount]
        /\ watermark < EndOfTime
        /\ \/ Detected(a, amount)
           \/ Noted(a, timestamp, amount)
           \/ Passed(a, amount)
  BY ElementStep
<1>2. /\ position \in Nat
      /\ position < Len(collection)
      /\ position' = position + 1
      /\ collection' = collection
      /\ watermark' = watermark
      /\ watermark # EndOfTime
      /\ PrintAlert(position + 1)
  BY <1>1, NextElement, TimesAssumption DEF Process, JobTypes, EndOfTime
<1>3. /\ \A b : b # a => (Waiting(b)' <=> Waiting(b))
      /\ Waiting(a)' <=> amount = "small" \/ (Waiting(a) /\ amount # "large")
      /\ Fraud(position + 1) <=> amount = "large" /\ Waiting(a)
      /\ \A p : Fraud(p)' <=> Fraud(p)
  BY <1>1, <1>2, NextWaits
<1>4. flag[a] <=> Waiting(a)
  BY <1>2 DEF FlagsRemember
<1>5. FlagsRemember'
  <2> SUFFICES ASSUME NEW b \in Accounts
               PROVE  flag'[b] <=> Waiting(b)'
    BY DEF FlagsRemember
  <2>1. CASE b # a
    <3>1. flag'[b] = flag[b]
      BY <1>1, <2>1 DEF JobTypes, Detected, Noted, Passed
    <3>2. flag[b] <=> Waiting(b)
      BY <1>2 DEF FlagsRemember
    <3> QED
      BY <1>3, <2>1, <3>1, <3>2
  <2>2. CASE b = a
    <3>1. flag'[a] <=> amount = "small" \/ (flag[a] /\ amount # "large")
      BY <1>1 DEF JobTypes, Detected, Noted, Passed
    <3> QED
      BY <1>3, <1>4, <2>2, <3>1
  <2> QED
    BY <2>1, <2>2
<1>6. FlagsExpire'
  <2> SUFFICES ASSUME NEW b \in Accounts
               PROVE  /\ flag'[b] <=> timerState'[b] # None
                      /\ flag'[b] => timerState'[b] \in timers'[b]
    BY DEF FlagsExpire
  <2>1. timestamp + Minute # None
    BY TimesAssumption
  <2>2. /\ flag[b] <=> timerState[b] # None
        /\ flag[b] => timerState[b] \in timers[b]
    BY DEF FlagsExpire
  <2>3. CASE b # a
    <3>1. /\ flag'[b] = flag[b]
          /\ timerState'[b] = timerState[b]
          /\ timers'[b] = timers[b]
      BY <1>1, <2>3 DEF JobTypes, Detected, Noted, Passed
    <3> QED
      BY <2>2, <3>1
  <2>4. CASE b = a /\ Detected(a, amount)
    <3>1. ~flag'[b] /\ timerState'[b] = None
      BY <2>4 DEF JobTypes, Detected
    <3> QED
      BY <3>1
  <2>5. CASE b = a /\ Noted(a, timestamp, amount)
    <3>1. /\ flag'[b]
          /\ timerState'[b] = timestamp + Minute
          /\ timestamp + Minute \in timers'[b]
      BY <2>5 DEF JobTypes, Noted
    <3> QED
      BY <2>1, <3>1
  <2>6. CASE b = a /\ Passed(a, amount)
    <3>1. \/ /\ flag'[b] = flag[b]
             /\ timerState'[b] = timerState[b]
             /\ timers'[b] = timers[b]
          \/ ~flag'[b] /\ timerState'[b] = None
      BY <2>6 DEF JobTypes, Passed
    <3> QED
      BY <2>2, <3>1
  <2> QED
    BY <1>1, <2>3, <2>4, <2>5, <2>6
<1>7. PrintedExactly'
  <2>1. alerts' # alerts <=> Fraud(position + 1)
    <3>1. CASE Detected(a, amount)
      <4>1. Len(history[a]) + 1 \notin alerts[a]
        BY DEF JobTypes, History
      <4>2. alerts'[a] # alerts[a]
        BY <3>1, <4>1 DEF JobTypes, Detected
      <4> QED
        BY <1>3, <1>4, <3>1, <4>2 DEF Detected
    <3>2. CASE Noted(a, timestamp, amount)
      BY <1>3, <3>2 DEF Noted
    <3>3. CASE Passed(a, amount)
      BY <1>3, <1>4, <3>3 DEF Passed
    <3> QED
      BY <1>1, <3>1, <3>2, <3>3
  <2> DEFINE p == position + 1
             Frauds == {q \in 1 .. position : Fraud(q)}
  <2>2. /\ 1 .. position' = 1 .. position \cup {p}
        /\ {q \in 1 .. position' : Fraud(q)'} =
             IF Fraud(p) THEN Frauds \cup {p} ELSE Frauds
    BY <1>2, <1>3
  <2>3. CASE Fraud(p)
    <3>1. printed' = Append(printed, p)
      BY <1>2, <2>1, <2>3 DEF PrintAlert
    <3>2. /\ DOMAIN printed' = DOMAIN printed \cup {Len(printed) + 1}
          /\ \A i \in DOMAIN printed : printed'[i] = printed[i]
          /\ printed'[Len(printed) + 1] = p
          /\ \A i \in DOMAIN printed : i < Len(printed) + 1
          /\ Len(printed) \in Nat
      BY <3>1 DEF JobTypes
    <3>3. {printed'[i] : i \in DOMAIN printed'} =
            {printed[i] : i \in DOMAIN printed} \cup {p}
      BY <3>2
    <3>4. \A i \in DOMAIN printed : printed[i] < p /\ i \in Nat
      BY <1>2 DEF JobTypes
    <3>5. \A i, j \in DOMAIN printed' : i < j => printed'[i] < printed'[j]
      BY <3>2, <3>4 DEF PrintedExactly
    <3> QED
      BY <2>2, <2>3, <3>3, <3>5 DEF PrintedExactly
  <2>4. CASE ~Fraud(p)
    <3>1. printed' = printed
      BY <1>2, <2>1, <2>4 DEF PrintAlert
    <3> QED
      BY <2>2, <2>4, <3>1 DEF PrintedExactly
  <2> QED
    BY <2>3, <2>4
<1>8. NothingLeftInState'
  BY <1>2 DEF NothingLeftInState
<1> QED
  BY <1>0, <1>5, <1>6, <1>7, <1>8

(* What the end of the input keeps true: every timer fires.                *)

LEMMA EndOfInputKeeps ==
  ASSUME JobInv, EndOfInput
  PROVE  JobInv'
<1> USE DEF JobInv
<1>0. EndOfTime \in Nat
  BY TimesAssumption DEF EndOfTime
<1>1. /\ watermark' = EndOfTime
      /\ UNCHANGED <<collection, position, printed, now, history, alerts>>
  BY DEF EndOfInput, sourceVars
<1>2. PICK fired \in SUBSET Accounts :
        /\ flag' = [a \in Accounts |-> a \notin fired /\ flag[a]]
        /\ timerState' =
             [a \in Accounts |-> IF a \in fired THEN None ELSE timerState[a]]
        /\ timers' = [a \in Accounts |-> IF a \in fired THEN {} ELSE timers[a]]
  BY DEF EndOfInput
<1>3. ASSUME NEW a \in Accounts
      PROVE  flag'[a] = FALSE /\ timerState'[a] = None /\ timers'[a] = {}
  <2>1. Detector(a)!FireTimers(EndOfTime)
    BY DEF EndOfInput, Detector!Watermark
  <2>2. timers[a] \subseteq 1 .. EndOfTime
    BY DEF JobTypes
  <2>3. timers'[a] = {}
    BY <1>0, <2>1, <2>2 DEF Detector!FireTimers
  <2>4. CASE timers'[a] # timers[a]
    BY <2>1, <2>3, <2>4 DEF Detector!FireTimers
  <2>5. CASE timers'[a] = timers[a]
    <3>1. ~flag[a] /\ timerState[a] = None
      BY <2>3, <2>5 DEF FlagsExpire
    <3>2. flag'[a] = flag[a] /\ timerState'[a] = timerState[a]
      BY <2>1, <2>5 DEF Detector!FireTimers
    <3>3. flag[a] = FALSE
      BY <3>1 DEF JobTypes
    <3> QED
      BY <2>3, <3>1, <3>2, <3>3
  <2> QED
    BY <2>4, <2>5
<1>4. JobTypes'
  <2>1. flag' \in [Accounts -> BOOLEAN]
    BY <1>2
  <2>2. timerState' \in [Accounts -> 1 .. EndOfTime \cup {None}]
    BY <1>2, <1>3
  <2>3. timers' \in [Accounts -> SUBSET (1 .. EndOfTime)]
    BY <1>2, <1>3
  <2> QED
    BY <1>0, <1>1, <2>1, <2>2, <2>3 DEF JobTypes
<1>5. FlagsRemember'
  BY <1>1 DEF FlagsRemember, EndOfTime
<1>6. FlagsExpire'
  BY <1>3 DEF FlagsExpire
<1>7. PrintedExactly'
  BY <1>1 DEF PrintedExactly, Fraud, Before
<1>8. NothingLeftInState'
  BY <1>3 DEF NothingLeftInState
<1> QED
  BY <1>4, <1>5, <1>6, <1>7, <1>8

LEMMA JobNext == JobInv /\ [Next]_vars => JobInv'
<1> SUFFICES ASSUME JobInv, [Next]_vars
             PROVE  JobInv'
  OBVIOUS
<1>1. CASE Process
  BY <1>1, ProcessKeeps
<1>2. CASE EndOfInput
  BY <1>2, EndOfInputKeeps
<1>3. CASE UNCHANGED vars
  <2>1. UNCHANGED <<collection, position, printed, watermark, flag, timerState,
                    timers, now, history, alerts>>
    BY <1>3 DEF vars, sourceVars, keyedVars
  <2>2. JobTypes'
    BY <2>1 DEF JobInv, JobTypes, EndOfTime
  <2>3. FlagsRemember'
    BY <2>1 DEF JobInv, FlagsRemember, Waiting, EndOfTime
  <2>4. FlagsExpire' /\ NothingLeftInState'
    BY <2>1 DEF JobInv, FlagsExpire, NothingLeftInState, EndOfTime
  <2>5. PrintedExactly'
    BY <2>1 DEF JobInv, PrintedExactly, Fraud, Before
  <2> QED
    BY <2>2, <2>3, <2>4, <2>5 DEF JobInv
<1> QED
  BY <1>1, <1>2, <1>3 DEF Next, Finished

\* The job's inductive invariant. Before the input ends an account's flag says
\* what its transactions so far say, and has a timer that will clear it.
THEOREM JobInvariant == Spec => []JobInv
  BY JobInit, JobNext, PTL DEF Spec

\* The variables of the job keep their types.
THEOREM TypeCorrect == Spec => []TypeOK
<1>1. JobInv => TypeOK
  <2> SUFFICES ASSUME JobInv PROVE TypeOK
    OBVIOUS
  <2>1. ASSUME NEW a \in Accounts
        PROVE  Detector(a)!TypeOK
    <3> USE DEF JobInv, Detector!Times, Detector!EndOfTime
    <3>1. history[a] \in Seq(Detector(a)!Transactions)
      BY DEF JobTypes, History, Amounts, Detector!Amounts, Detector!Transactions
    <3>2. /\ timers[a] \subseteq 1 .. EndOfTime
          /\ timerState[a] \in 1 .. EndOfTime \cup {None}
          /\ flag[a] \in BOOLEAN
          /\ now[a] \in 1 .. MaxTime
          /\ watermark \in 0 .. EndOfTime
      BY DEF JobTypes
    <3>3. alerts[a] \subseteq DOMAIN history[a]
      BY <3>1 DEF JobTypes
    <3> QED
      BY <3>1, <3>2, <3>3 DEF EndOfTime, Detector!TypeOK
  <2> QED
    BY <2>1 DEF JobInv, JobTypes, TypeOK
<1> QED
  BY <1>1, JobInvariant, PTL

\* process_element and print: nothing is printed without a small transaction of
\* the same account, and no certain fraud is left out, in the order of the
\* collection, whatever order the accounts come in.
THEOREM AlertsCorrect == Spec => []AlertsOfEachAccount
<1>1. JobInv => AlertsOfEachAccount
  <2> SUFFICES ASSUME JobInv PROVE AlertsOfEachAccount
    OBVIOUS
  <2>1. \A p \in 1 .. position : Certain(p) => Fraud(p)
    <3> SUFFICES ASSUME NEW p \in 1 .. position, Certain(p)
                 PROVE  Fraud(p)
      OBVIOUS
    <3>1. PICK q \in Before(p) : RecentSmall(q, p) /\ \A r \in Before(p) : r <= q
      BY DEF Certain
    <3>2. \A r \in Before(p) : ~(r > q)
      BY <3>1 DEF Before
    <3> QED
      BY <3>1, <3>2 DEF Certain, Fraud, RecentSmall
  <2> QED
    BY <2>1 DEF JobInv, PrintedExactly, AlertsOfEachAccount
<1> QED
  BY <1>1, JobInvariant, PTL

\* on_timer at the end of the input: no account leaves a flag or a timer.
THEOREM NothingLeft == Spec => []NothingLeftInState
  BY JobInvariant, PTL DEF JobInv

------------------------------------------------------------------------------
(* The sample data.                                                        *)

\* Which of the sample transactions are small and which are large.
LEMMA SampleAmounts ==
  LET sample(i) == SampleTransactions[i] IN
  /\ Len(SampleTransactions) = 12
  /\ \A i \in 1 .. 12 :
       /\ sample(i).account = <<1, 1, 2, 2, 3, 3, 4, 4, 5, 5, 3, 3>>[i]
       /\ sample(i).amount \in {"small", "large"}
       /\ sample(i).amount = "large" <=> i \in {1, 2, 6, 8, 12}
  BY DEF SampleTransactions, Transaction, AmountOf

LEMMA SampleFrauds ==
  ASSUME collection = SampleTransactions
  PROVE  \A p \in 1 .. 12 : Fraud(p) <=> p \in {6, 8, 12}
<1> SUFFICES ASSUME NEW p \in 1 .. 12
             PROVE  Fraud(p) <=> p \in {6, 8, 12}
  OBVIOUS
<1>1. CASE p \notin {1, 2, 6, 8, 12}
  BY <1>1, SampleAmounts DEF Fraud
<1>2. CASE p \in {1, 2}
  <2>1. \A q \in Before(p) : collection[q].amount = "large"
    BY <1>2, SampleAmounts DEF Before
  <2> QED
    BY <1>2, <2>1 DEF Fraud
<1>3. CASE p = 6
  <2>1. Before(p) = {5}
    BY <1>3, SampleAmounts DEF Before
  <2> QED
    BY <1>3, <2>1, SampleAmounts DEF Fraud
<1>4. CASE p = 8
  <2>1. Before(p) = {7}
    BY <1>4, SampleAmounts DEF Before
  <2> QED
    BY <1>4, <2>1, SampleAmounts DEF Fraud
<1>5. CASE p = 12
  <2>1. Before(p) = {5, 6, 11}
    BY <1>5, SampleAmounts DEF Before
  <2> QED
    BY <1>5, <2>1, SampleAmounts DEF Fraud
<1> QED
  BY <1>1, <1>2, <1>3, <1>4, <1>5

\* Over its own sample data the job announces accounts 3, 4 and 3.
THEOREM SampleCorrect == Spec => []SampleAlerts
<1>1. JobInv => SampleAlerts
  <2> SUFFICES ASSUME JobInv, collection = SampleTransactions,
                      position = Len(collection)
               PROVE  [i \in DOMAIN printed |-> collection[printed[i]].account]
                        = <<3, 4, 3>>
    BY DEF SampleAlerts
  <2>1. /\ {printed[i] : i \in DOMAIN printed} = {6, 8, 12}
        /\ \A i, j \in DOMAIN printed : i < j => printed[i] < printed[j]
    BY SampleAmounts, SampleFrauds DEF JobInv, PrintedExactly
  <2>2. PICK i \in DOMAIN printed, j \in DOMAIN printed, k \in DOMAIN printed :
          printed[i] = 6 /\ printed[j] = 8 /\ printed[k] = 12
    <3>1. \A p \in {6, 8, 12} : \E n \in DOMAIN printed : printed[n] = p
      BY <2>1
    <3> QED
      BY <3>1
  <2>3. DOMAIN printed = 1 .. Len(printed) /\ Len(printed) \in Nat
    BY DEF JobInv, JobTypes
  <2>4. \A n \in 1 .. Len(printed) : n = i \/ n = j \/ n = k
    <3> SUFFICES ASSUME NEW n \in 1 .. Len(printed)
                 PROVE  n = i \/ n = j \/ n = k
      OBVIOUS
    <3>1. printed[n] \in {6, 8, 12}
      BY <2>1, <2>3
    <3>2. /\ n \in Nat /\ i \in Nat /\ j \in Nat /\ k \in Nat
          /\ n \in DOMAIN printed
      BY <2>3
    <3>3. ASSUME NEW m \in {i, j, k}, printed[n] = printed[m]
          PROVE  n = m
      <4>1. m \in DOMAIN printed /\ m \in Nat
        BY <3>2
      <4>2. printed[n] \in Int
        BY <3>1
      <4> QED
        BY <2>1, <3>2, <3>3, <4>1, <4>2
    <3> QED
      BY <2>2, <3>1, <3>3
  <2>5. i < j /\ j < k
    BY <2>1, <2>2, <2>3
  <2>6. i = 1 /\ j = 2 /\ k = 3 /\ Len(printed) = 3
    <3>1. Len(printed) >= k
      BY <2>3
    <3>2. i = 1
      BY <2>3, <2>4, <2>5
    <3>3. j = 2
      BY <2>3, <2>4, <2>5, <3>2
    <3>4. k = 3
      BY <2>3, <2>4, <2>5, <3>2, <3>3
    <3>5. ~(Len(printed) > 3)
      BY <2>3, <2>4, <3>2, <3>3, <3>4
    <3> QED
      BY <2>3, <3>1, <3>2, <3>3, <3>4, <3>5
  <2> QED
    BY <2>2, <2>3, <2>6, SampleAmounts
<1> QED
  BY <1>1, JobInvariant, PTL

==============================================================================
