------------------------- MODULE FraudDetector_proofs -------------------------
(***************************************************************************)
(* Proofs about FraudDetector: its types and the agreement of the flag,    *)
(* the timer it remembers and the timers that are registered, for every    *)
(* length of the minute and of the input.                                  *)
(***************************************************************************)
EXTENDS FraudDetector, TLAPS

\* The watermark stays below the stream's time until the input has ended.
WatermarkBehind == watermark < now \/ watermark = EndOfTime

TimerInv ==
  /\ TypeOK
  /\ WatermarkBehind
  /\ FlagExpires
  /\ TimersDue

\* What a step of process_element does to the flag and to the timers.
LEMMA CleanUpStep ==
  ASSUME TimerInv, CleanUp
  PROVE  /\ flag' = FALSE
         /\ timerState' = None
         /\ timers' \subseteq timers
  BY DEF CleanUp

LEMMA InitTimerInv == Init => TimerInv
<1> SUFFICES ASSUME Init PROVE TimerInv
  OBVIOUS
<1> USE TimesAssumption
<1>0. flag \in BOOLEAN /\ timerState = None /\ timers = {}
  BY DEF Init
<1>1. now \in Times /\ watermark \in 0 .. EndOfTime
  BY DEF Init, Times, EndOfTime
<1>2. history \in Seq(Transactions) /\ alerts \subseteq DOMAIN history
  BY DEF Init
<1>3. TypeOK
  BY <1>0, <1>1, <1>2 DEF TypeOK
<1>4. WatermarkBehind /\ FlagExpires /\ TimersDue
  BY DEF Init, WatermarkBehind, FlagExpires, TimersDue
<1> QED
  BY <1>3, <1>4 DEF TimerInv

\* The types of process_element's step.
LEMMA ProcessTypes ==
  ASSUME TimerInv, NEW timestamp \in Times, NEW amount \in Amounts,
         ProcessElement(timestamp, amount)
  PROVE  TypeOK'
<1> USE TimesAssumption
<1>1. /\ history' = Append(history, [timestamp |-> timestamp, amount |-> amount])
      /\ history \in Seq(Transactions)
      /\ [timestamp |-> timestamp, amount |-> amount] \in Transactions
  BY DEF ProcessElement, TimerInv, TypeOK, Transactions
<1>2. /\ history' \in Seq(Transactions)
      /\ DOMAIN history' = 1 .. Len(history) + 1
      /\ DOMAIN history = 1 .. Len(history)
      /\ Len(history) \in Nat
  <2> DEFINE t == [timestamp |-> timestamp, amount |-> amount]
  <2> HIDE DEF t
  <2>1. history' = Append(history, t) /\ t \in Transactions
    BY <1>1 DEF t
  <2> QED
    BY <1>1, <2>1
<1>3. now' \in Times /\ watermark' \in 0 .. EndOfTime
  BY DEF ProcessElement, TimerInv, TypeOK
<1>4. timestamp + Minute \in 1 .. EndOfTime
  BY DEF Times, EndOfTime
<1>5. /\ flag' \in BOOLEAN
      /\ timerState' \in 1 .. EndOfTime \cup {None}
      /\ timers' \subseteq 1 .. EndOfTime
      /\ alerts' \subseteq alerts \cup {Len(history) + 1}
  <2>1. CASE DetectFraud(amount)
    BY <2>1 DEF DetectFraud, CleanUp, TimerInv, TypeOK
  <2>2. CASE NoteSmall(timestamp, amount)
    BY <1>4, <2>2 DEF NoteSmall, TimerTime, TimerInv, TypeOK
  <2>3. CASE PassOther(amount)
    BY <2>3 DEF PassOther, CleanUp, stateVars, TimerInv, TypeOK
  <2> QED
    BY <2>1, <2>2, <2>3 DEF ProcessElement
<1>6. alerts' \subseteq DOMAIN history'
  BY <1>2, <1>5 DEF TimerInv, TypeOK
<1> QED
  BY <1>2, <1>3, <1>5, <1>6 DEF TypeOK

\* process_element keeps the flag and the timers in agreement.
LEMMA ProcessTimers ==
  ASSUME TimerInv, NEW timestamp \in Times, NEW amount \in Amounts,
         ProcessElement(timestamp, amount)
  PROVE  WatermarkBehind' /\ FlagExpires' /\ TimersDue'
<1> USE TimesAssumption
<1>1. /\ now' = timestamp /\ watermark' = watermark /\ now <= timestamp
      /\ now \in Nat /\ timestamp \in Nat /\ watermark \in Nat
      /\ watermark < now
  BY DEF ProcessElement, TimerInv, TypeOK, Times, EndOfTime,
         WatermarkBehind
<1>2. WatermarkBehind'
  BY <1>1 DEF WatermarkBehind
<1>3. \A t \in timers : t \in Int /\ watermark < t /\ t <= timestamp + Minute
  <2>1. \A t \in timers : t \in Int /\ watermark < t /\ t <= now + Minute
    BY DEF TimerInv, TypeOK, TimersDue, EndOfTime
  <2> QED
    BY <1>1, <2>1
<1>4. CASE DetectFraud(amount)
  BY <1>1, <1>2, <1>4, <1>3, CleanUpStep
  DEF DetectFraud, FlagExpires, TimersDue
<1>5. CASE NoteSmall(timestamp, amount)
  <2>1. /\ flag' = TRUE
        /\ timerState' = timestamp + Minute
        /\ timers' = timers \cup {timestamp + Minute}
    BY <1>5 DEF NoteSmall, TimerTime
  <2>2. timerState' # None
    BY <1>1, <2>1
  <2>3. TimersDue'
    BY <1>1, <1>3, <2>1 DEF TimersDue
  <2> QED
    BY <1>2, <2>1, <2>2, <2>3 DEF FlagExpires
<1>6. CASE PassOther(amount)
  <2>1. CASE ~flag /\ CleanUp
    BY <1>1, <1>2, <1>3, <2>1, CleanUpStep DEF FlagExpires, TimersDue
  <2>2. CASE UNCHANGED stateVars
    BY <1>1, <1>2, <1>3, <2>2 DEF stateVars, TimerInv, FlagExpires, TimersDue
  <2> QED
    BY <1>6, <2>1, <2>2 DEF PassOther
<1> QED
  BY <1>4, <1>5, <1>6 DEF ProcessElement

\* A watermark fires what is due: if that is the remembered timer, the flag it
\* stands for is cleared with it.
LEMMA WatermarkTimers ==
  ASSUME TimerInv, NEW w \in 1 .. EndOfTime, Watermark(w)
  PROVE  TimerInv'
<1> USE TimesAssumption
<1>1. /\ now' = now /\ history' = history /\ alerts' = alerts
      /\ watermark' = w /\ (w < now \/ w = EndOfTime)
      /\ timers' = {t \in timers : t > w}
  BY DEF Watermark, FireTimers
<1>2. CASE timers' # timers
  <2>1. flag' = FALSE /\ timerState' = None
    BY <1>2 DEF Watermark, FireTimers
  <2>2. TypeOK'
    <3>1. watermark' \in 0 .. EndOfTime
      BY <1>1 DEF Times, EndOfTime
    <3>2. flag' \in BOOLEAN /\ timerState' \in 1 .. EndOfTime \cup {None}
      BY <2>1 DEF TimerInv, TypeOK
    <3> QED
      BY <1>1, <3>1, <3>2 DEF TimerInv, TypeOK
  <2>3. WatermarkBehind'
    BY <1>1 DEF WatermarkBehind, EndOfTime
  <2>4. FlagExpires' /\ TimersDue'
    BY <1>1, <2>1 DEF TimerInv, FlagExpires, TimersDue
  <2> QED
    BY <2>2, <2>3, <2>4 DEF TimerInv
<1>3. CASE timers' = timers
  <2>1. flag' = flag /\ timerState' = timerState
    BY <1>3 DEF Watermark, FireTimers
  <2>2. TypeOK'
    <3>1. watermark' \in 0 .. EndOfTime
      BY <1>1 DEF Times, EndOfTime
    <3>2. flag' \in BOOLEAN /\ timerState' \in 1 .. EndOfTime \cup {None}
      BY <2>1 DEF TimerInv, TypeOK
    <3> QED
      BY <1>1, <3>1, <3>2 DEF TimerInv, TypeOK
  <2>3. WatermarkBehind'
    BY <1>1 DEF WatermarkBehind, EndOfTime
  <2>4. FlagExpires' /\ TimersDue'
    BY <1>1, <1>3, <2>1 DEF TimerInv, FlagExpires, TimersDue
  <2> QED
    BY <2>2, <2>3, <2>4 DEF TimerInv
<1> QED
  BY <1>2, <1>3

LEMMA AdvanceTimers ==
  ASSUME TimerInv, Advance
  PROVE  TimerInv'
  BY TimesAssumption, SMTT(30)
  DEF Advance, stateVars, TimerInv, TypeOK, Times, WatermarkBehind, FlagExpires,
      TimersDue, EndOfTime

LEMMA NextTimerInv == TimerInv /\ [Next]_vars => TimerInv'
<1> SUFFICES ASSUME TimerInv, [Next]_vars
             PROVE  TimerInv'
  OBVIOUS
<1>1. ASSUME NEW timestamp \in Times, NEW amount \in Amounts,
             ProcessElement(timestamp, amount)
      PROVE  TimerInv'
  BY <1>1, ProcessTypes, ProcessTimers DEF TimerInv
<1>2. ASSUME NEW w \in 1 .. EndOfTime, Watermark(w)
      PROVE  TimerInv'
  BY <1>2, WatermarkTimers
<1>3. CASE Advance
  BY <1>3, AdvanceTimers
<1>4. CASE UNCHANGED vars
  BY <1>4 DEF vars, stateVars, timeVars, TimerInv, TypeOK, WatermarkBehind,
              FlagExpires, TimersDue
<1> QED
  BY <1>1, <1>2, <1>3, <1>4 DEF Next, Finished

\* The states of the detector keep their types.
THEOREM TypeCorrect == Spec => []TypeOK
<1>1. TimerInv => TypeOK
  BY DEF TimerInv
<1> QED
  BY <1>1, InitTimerInv, NextTimerInv, PTL DEF Spec

\* The flag of the detector is set exactly while its timer is registered, so
\* that the timer will clear it.
THEOREM FlagAlwaysExpires == Spec => []FlagExpires
<1>1. TimerInv => FlagExpires
  BY DEF TimerInv
<1> QED
  BY <1>1, InitTimerInv, NextTimerInv, PTL DEF Spec

\* Every timer the detector leaves registered fires within a minute of the
\* last element.
THEOREM TimersAlwaysDue == Spec => []TimersDue
<1>1. TimerInv => TimersDue
  BY DEF TimerInv
<1> QED
  BY <1>1, InitTimerInv, NextTimerInv, PTL DEF Spec

------------------------------------------------------------------------------
(* The alerts.                                                             *)

\* A small transaction that no large one has followed.
Trailing(j) == j \in Smalls /\ \A k \in Larges : k < j

\* What the flag remembers: a small transaction is waiting for its large one.
FlagMeansTrailing == flag => \E j \in DOMAIN history : Trailing(j)

\* When none is remembered although one is waiting, some small transaction of
\* the account, not necessarily that one, is more than a minute old.
ClearedMeansExpired ==
  ~flag /\ (\E j \in DOMAIN history : Trailing(j)) =>
    \E j \in Smalls : history[j].timestamp + Minute <= watermark

TimersOfSmalls ==
  \A t \in timers : \E j \in Smalls : t = history[j].timestamp + Minute

AlertInv ==
  /\ TimerInv
  /\ FlagMeansTrailing
  /\ ClearedMeansExpired
  /\ TimersOfSmalls
  /\ AlertsSound
  /\ FreshFraudAlerts

\* The history after process_element: one transaction more, the last.
LEMMA Appended ==
  ASSUME TimerInv, NEW timestamp \in Times, NEW amount \in Amounts,
         ProcessElement(timestamp, amount)
  PROVE  LET n == Len(history) + 1
         IN  /\ n \in Nat
             /\ \A i \in DOMAIN history : i \in Nat /\ i < n
             /\ DOMAIN history' = DOMAIN history \cup {n}
             /\ \A i \in DOMAIN history : history'[i] = history[i]
             /\ history'[n] = [timestamp |-> timestamp, amount |-> amount]
             /\ Smalls' = Smalls \cup (IF amount = "small" THEN {n} ELSE {})
             /\ Larges' = Larges \cup (IF amount = "large" THEN {n} ELSE {})
<1> DEFINE n == Len(history) + 1
           e == [timestamp |-> timestamp, amount |-> amount]
<1>1. history' = Append(history, e) /\ history \in Seq(Transactions) /\ e \in Transactions
  BY DEF ProcessElement, TimerInv, TypeOK, Transactions
<1>2. e.amount = amount
  OBVIOUS
<1>3. /\ n \in Nat
      /\ \A i \in DOMAIN history : i \in Nat /\ i < n
      /\ DOMAIN history' = DOMAIN history \cup {n}
      /\ \A i \in DOMAIN history : history'[i] = history[i]
      /\ history'[n] = e
  <2> HIDE DEF e
  <2>1. DOMAIN history = 1 .. Len(history) /\ Len(history) \in Nat
    BY <1>1
  <2>2. DOMAIN history' = 1 .. Len(history) + 1
    BY <1>1
  <2> QED
    BY <1>1, <2>1, <2>2
<1>4. Smalls' = Smalls \cup (IF amount = "small" THEN {n} ELSE {})
  BY <1>2, <1>3 DEF Smalls
<1>5. Larges' = Larges \cup (IF amount = "large" THEN {n} ELSE {})
  BY <1>2, <1>3 DEF Larges
<1> QED
  BY <1>3, <1>4, <1>5

\* process_element alerts for a pair, and for a large transaction right after a
\* small one when all are fresh.
LEMMA ProcessAlerts ==
  ASSUME AlertInv, NEW timestamp \in Times, NEW amount \in Amounts,
         ProcessElement(timestamp, amount)
  PROVE  AlertInv'
<1> USE TimesAssumption
<1>0. TimerInv /\ TimerInv'
  BY ProcessTypes, ProcessTimers DEF AlertInv, TimerInv
<1>1. PICK n \in Nat :
      /\ n = Len(history) + 1
      /\ \A i \in DOMAIN history : i \in Nat /\ i < n
      /\ DOMAIN history' = DOMAIN history \cup {n}
      /\ \A i \in DOMAIN history : history'[i] = history[i]
      /\ history'[n] = [timestamp |-> timestamp, amount |-> amount]
      /\ Smalls' = Smalls \cup (IF amount = "small" THEN {n} ELSE {})
      /\ Larges' = Larges \cup (IF amount = "large" THEN {n} ELSE {})
  BY <1>0, Appended
<1>2. /\ Smalls \subseteq DOMAIN history
      /\ Larges \subseteq DOMAIN history
      /\ Smalls \cap Larges = {}
      /\ alerts \subseteq DOMAIN history
  BY <1>0 DEF Smalls, Larges, TimerInv, TypeOK
<1>3. /\ \A i \in DOMAIN history : history[i].timestamp \in Nat
      /\ history'[n].timestamp = timestamp /\ timestamp \in Nat
      /\ watermark \in Nat /\ watermark' = watermark
      /\ watermark < timestamp
  <2>1. \A i \in DOMAIN history : history[i] \in Transactions
    BY <1>0 DEF TimerInv, TypeOK
  <2>2. \A i \in DOMAIN history : history[i].timestamp \in Nat
    BY <2>1 DEF Transactions, Times
  <2>3. watermark < timestamp /\ watermark \in Nat /\ timestamp \in Nat
    BY <1>0
       DEF ProcessElement, TimerInv, TypeOK, Times, EndOfTime, WatermarkBehind
  <2> QED
    BY <1>1, <2>2, <2>3 DEF ProcessElement
\* The large transaction that is alerted, if any, is the new one.
<1>4. /\ alerts \subseteq alerts'
      /\ alerts' \subseteq alerts \cup {n}
      /\ n \in alerts' <=> flag /\ amount = "large"
  BY <1>1, <1>2
     DEF ProcessElement, DetectFraud, NoteSmall, PassOther, CleanUp
<1>5. FlagMeansTrailing'
  <2>1. SUFFICES ASSUME flag'
                 PROVE  \E j \in DOMAIN history' : Trailing(j)'
    BY DEF FlagMeansTrailing
  <2>2. amount = "small" \/ (amount = "medium" /\ flag)
    BY <2>1 DEF ProcessElement, DetectFraud, NoteSmall, PassOther, CleanUp, Amounts
  <2>3. CASE amount = "small"
    BY <1>1, <1>2, <2>3 DEF Trailing
  <2>4. CASE amount = "medium" /\ flag
    BY <1>1, <1>2, <2>4 DEF AlertInv, FlagMeansTrailing, Trailing
  <2> QED
    BY <2>2, <2>3, <2>4
<1>6. ClearedMeansExpired'
  <2> SUFFICES ASSUME ~flag', NEW j \in DOMAIN history', Trailing(j)'
               PROVE  \E i \in Smalls' :
                        history'[i].timestamp + Minute <= watermark'
    BY DEF ClearedMeansExpired
  <2>1. amount # "large"
    BY <1>1, <1>2 DEF Trailing
  <2>2. ~flag /\ amount = "medium"
    BY <2>1 DEF ProcessElement, DetectFraud, NoteSmall, PassOther, stateVars, Amounts
  <2>3. Trailing(j) /\ j \in DOMAIN history
    BY <1>1, <1>2, <2>2 DEF Trailing
  <2>4. PICK i \in Smalls : history[i].timestamp + Minute <= watermark
    BY <2>2, <2>3 DEF AlertInv, ClearedMeansExpired
  <2> QED
    BY <1>1, <1>2, <1>3, <2>4
<1>7. TimersOfSmalls'
  <2> SUFFICES ASSUME NEW t \in timers'
               PROVE  \E j \in Smalls' : t = history'[j].timestamp + Minute
    BY DEF TimersOfSmalls
  <2>1. t \in timers \/ (amount = "small" /\ t = timestamp + Minute)
    BY DEF ProcessElement, DetectFraud, NoteSmall, PassOther, CleanUp, TimerTime,
           stateVars
  <2>2. CASE t \in timers
    BY <1>1, <1>2, <2>2 DEF AlertInv, TimersOfSmalls
  <2>3. CASE amount = "small" /\ t = timestamp + Minute
    BY <1>1, <1>3, <2>3
  <2> QED
    BY <2>1, <2>2, <2>3
\* A pair stays one, and the new large transaction makes one with every small
\* transaction that is still waiting.
<1>8. ASSUME NEW i \in DOMAIN history, NEW j \in DOMAIN history
      PROVE  Pair(j, i)' <=> Pair(j, i)
  <2>1. i < n /\ j < n /\ i \in Nat /\ j \in Nat
    BY <1>1
  <2>2. (\A k \in Larges' : k <= j \/ k >= i) <=> (\A k \in Larges : k <= j \/ k >= i)
    BY <1>1, <1>2, <2>1
  <2> QED
    BY <1>1, <1>2, <2>1, <2>2 DEF Pair
<1>9. ASSUME amount = "large", NEW j \in DOMAIN history
      PROVE  Pair(j, n)' <=> Trailing(j)
  <2>1. Larges' = Larges \cup {n} /\ Smalls' = Smalls
    BY <1>1, <1>9
  <2>2. j \in Smalls => j \notin Larges
    BY <1>2
  <2>3. \A k \in Larges : k \in Nat /\ k < n
    BY <1>1, <1>2
  <2>4. j \in Nat /\ j < n
    BY <1>1, <1>9
  <2> QED
    BY <1>1, <2>1, <2>2, <2>3, <2>4 DEF Pair, Trailing
<1>10. AlertsSound'
  <2> SUFFICES ASSUME NEW i \in alerts'
               PROVE  \E j \in DOMAIN history' : Pair(j, i)'
    BY DEF AlertsSound
  <2>1. CASE i \in alerts
    BY <1>1, <1>2, <1>8, <2>1 DEF AlertInv, AlertsSound
  <2>2. CASE i = n
    <3>1. flag /\ amount = "large"
      BY <1>4, <2>2
    <3>2. PICK j \in DOMAIN history : Trailing(j)
      BY <3>1 DEF AlertInv, FlagMeansTrailing
    <3> QED
      BY <1>1, <1>9, <2>2, <3>1, <3>2
  <2> QED
    BY <1>4, <2>1, <2>2
<1>11. FreshFraudAlerts'
  <2> SUFFICES ASSUME NEW i \in Larges', i - 1 \in Smalls',
                      \A k \in Smalls' : k < i => Within(k, i)'
               PROVE  i \in alerts'
    BY DEF FreshFraudAlerts
  <2>1. CASE i \in Larges
    <3>1. i - 1 \in Smalls
      BY <1>1, <1>2, <2>1
    <3>2. \A k \in Smalls : k < i => Within(k, i)
      <4> SUFFICES ASSUME NEW k \in Smalls, k < i
                   PROVE  Within(k, i)
        OBVIOUS
      <4>1. Within(k, i)' /\ history'[k] = history[k] /\ history'[i] = history[i]
        BY <1>1, <1>2, <2>1
      <4> QED
        BY <4>1 DEF Within
    <3>3. i \in alerts
      BY <2>1, <3>1, <3>2 DEF AlertInv, FreshFraudAlerts
    <3> QED
      BY <1>4, <3>3
  <2>2. CASE i = n /\ amount = "large"
    <3>1. n - 1 \in DOMAIN history /\ Trailing(n - 1)
      <4>1. n - 1 \in Smalls
        BY <1>1, <2>2
      <4>2. \A k \in Larges : k \in Nat /\ k < n /\ k # n - 1
        BY <1>1, <1>2, <4>1
      <4> QED
        BY <1>1, <1>2, <4>1, <4>2 DEF Trailing
    <3>2. CASE flag
      BY <1>4, <2>2, <3>2
    <3>3. CASE ~flag
      <4>1. PICK k \in Smalls : history[k].timestamp + Minute <= watermark
        BY <3>1, <3>3 DEF AlertInv, ClearedMeansExpired
      <4>2. k \in DOMAIN history /\ k \in Smalls' /\ k < n
        BY <1>1, <1>2
      <4>3. history'[n].timestamp - history'[k].timestamp <= Minute
        BY <2>2, <4>2 DEF Within
      <4>4. timestamp - history[k].timestamp <= Minute
        BY <1>1, <4>2, <4>3
      <4> QED
        BY <1>3, <4>1, <4>2, <4>4
    <3> QED
      BY <3>2, <3>3
  <2> QED
    BY <1>1, <2>1, <2>2
<1> QED
  BY <1>0, <1>5, <1>6, <1>7, <1>10, <1>11 DEF AlertInv

\* A timer that fires clears the flag, and it stands for a small transaction
\* that is a minute old.
LEMMA WatermarkAlerts ==
  ASSUME AlertInv, NEW w \in 1 .. EndOfTime, Watermark(w)
  PROVE  AlertInv'
<1> USE TimesAssumption
<1>0. TimerInv'
  BY WatermarkTimers DEF AlertInv
<1>1. /\ history' = history /\ alerts' = alerts
      /\ watermark' = w /\ w > watermark
      /\ timers' = {t \in timers : t > w}
  BY DEF Watermark, FireTimers
<1>2. /\ Smalls' = Smalls /\ Larges' = Larges
      /\ \A i \in DOMAIN history : history[i].timestamp \in Nat
      /\ watermark \in Nat /\ w \in Nat
      /\ timers \subseteq Nat
  <2>1. \A i \in DOMAIN history : history[i] \in Transactions
    BY DEF AlertInv, TimerInv, TypeOK
  <2>2. \A i \in DOMAIN history : history[i].timestamp \in Nat
    BY <2>1 DEF Transactions, Times
  <2> QED
    BY <1>1, <2>2 DEF Smalls, Larges, AlertInv, TimerInv, TypeOK, EndOfTime
<1>3. FlagMeansTrailing'
  BY <1>1, <1>2
     DEF AlertInv, FlagMeansTrailing, Trailing, Watermark, FireTimers
<1>4. ClearedMeansExpired'
  <2> SUFFICES ASSUME ~flag', NEW j \in DOMAIN history, Trailing(j)
               PROVE  \E i \in Smalls : history[i].timestamp + Minute <= w
    BY <1>1, <1>2 DEF ClearedMeansExpired, Trailing
  <2>1. CASE ~flag
    <3>1. PICK i \in Smalls : history[i].timestamp + Minute <= watermark
      BY <2>1 DEF AlertInv, ClearedMeansExpired
    <3>2. history[i].timestamp \in Nat
      BY <1>2 DEF Smalls
    <3> QED
      BY <1>1, <1>2, <3>1, <3>2
  <2>2. CASE flag
    <3>1. timers' # timers
      BY <2>2 DEF Watermark, FireTimers
    <3>2. PICK t \in timers : ~(t > w)
      BY <1>1, <3>1
    <3>3. PICK i \in Smalls : t = history[i].timestamp + Minute
      BY <3>2 DEF AlertInv, TimersOfSmalls
    <3> QED
      BY <1>2, <3>2, <3>3
  <2> QED
    BY <2>1, <2>2
<1>5. TimersOfSmalls'
  BY <1>1, <1>2 DEF AlertInv, TimersOfSmalls
<1>6. AlertsSound' /\ FreshFraudAlerts'
  BY <1>1, <1>2 DEF AlertInv, AlertsSound, FreshFraudAlerts, Pair, Within
<1> QED
  BY <1>0, <1>3, <1>4, <1>5, <1>6 DEF AlertInv

LEMMA InitAlertInv == Init => AlertInv
<1> SUFFICES ASSUME Init PROVE AlertInv
  OBVIOUS
<1>1. TimerInv
  BY InitTimerInv
<1>2. Smalls = {} /\ Larges = {} /\ timers = {} /\ alerts = {} /\ ~flag
  BY DEF Init, Smalls, Larges
<1> QED
  BY <1>1, <1>2
     DEF AlertInv, FlagMeansTrailing, ClearedMeansExpired, TimersOfSmalls,
         AlertsSound, FreshFraudAlerts, Trailing

LEMMA NextAlertInv == AlertInv /\ [Next]_vars => AlertInv'
<1> SUFFICES ASSUME AlertInv, [Next]_vars
             PROVE  AlertInv'
  OBVIOUS
<1>1. ASSUME NEW timestamp \in Times, NEW amount \in Amounts,
             ProcessElement(timestamp, amount)
      PROVE  AlertInv'
  BY <1>1, ProcessAlerts
<1>2. ASSUME NEW w \in 1 .. EndOfTime, Watermark(w)
      PROVE  AlertInv'
  BY <1>2, WatermarkAlerts
<1>3. CASE UNCHANGED <<stateVars, watermark, history, alerts>>
  <2>1. TimerInv'
    BY NextTimerInv DEF AlertInv
  <2>2. Smalls' = Smalls /\ Larges' = Larges
    BY <1>3 DEF Smalls, Larges
  <2> QED
    BY <1>3, <2>1, <2>2
       DEF stateVars, AlertInv, FlagMeansTrailing, ClearedMeansExpired,
           TimersOfSmalls, AlertsSound, FreshFraudAlerts, Trailing, Pair, Within
<1> QED
  BY <1>1, <1>2, <1>3 DEF Next, Advance, Finished, vars, timeVars

\* Every alert has a small transaction of its own before it.
THEOREM AlertsHaveCause == Spec => []AlertsSound
<1>1. AlertInv => AlertsSound
  BY DEF AlertInv
<1> QED
  BY <1>1, InitAlertInv, NextAlertInv, PTL DEF Spec

\* A large transaction right after a small one is alerted when every small one
\* before it is fresh: only the timer of an expired small transaction makes the
\* detector forget.
THEOREM FreshFraudCaught == Spec => []FreshFraudAlerts
<1>1. AlertInv => FreshFraudAlerts
  BY DEF AlertInv
<1> QED
  BY <1>1, InitAlertInv, NextAlertInv, PTL DEF Spec

==============================================================================
