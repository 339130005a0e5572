------------------------- MODULE KafkaProducer_proofs -------------------------
(***************************************************************************)
(* Theorems about KafkaProducer, for any number of publishers, any length  *)
(* of the queue and of the input, and any number of attempts.              *)
(***************************************************************************)
EXTENDS KafkaProducer, SequenceTheorems, TLAPS

\* A publisher that is about to attempt has an attempt left.
AttemptsLeft ==
  \A p \in Publishers : pc[p] = "trying" => retryCount[p] < MaxRetries

\* A publish() that goes on has a message of its own.
HasMessage ==
  \A p \in Publishers : pc[p] # "idle" => sent[p] # 0

\* The publish() of a message ends once: before that, or before it is called,
\* its outcome is open.
Undecided ==
  \A p \in Publishers : \A n \in 1 .. MaxMessages :
    \/ sent[p] < n
    \/ sent[p] = n /\ pc[p] # "idle"
    => outcome[<<p, n>>] = "none"

\* The inductive invariant: AcceptedOnce alone does not say why a second
\* produce() of the same message is impossible.
ProducerInv ==
  /\ TypeOK
  /\ AttemptsLeft
  /\ HasMessage
  /\ Undecided
  /\ AcceptedOnce

\* A message a publish() is about has not been accepted yet.
LEMMA MessageIsNew ==
  ASSUME ProducerInv, NEW p \in Publishers, pc[p] # "idle"
  PROVE  /\ Message(p) \in Messages
         /\ outcome[Message(p)] = "none"
         /\ \A i \in DOMAIN accepted :
              /\ accepted[i] # Message(p)
              /\ accepted[i][1] = p => accepted[i][2] < sent[p]
<1>1. sent[p] \in 1 .. MaxMessages
  BY LimitsAssumption DEF ProducerInv, TypeOK, HasMessage
<1>2. Message(p) \in Messages /\ outcome[Message(p)] = "none"
  BY <1>1 DEF ProducerInv, Undecided, Message, Messages
<1>3. \A i \in DOMAIN accepted :
        accepted[i] \in Messages /\ outcome[accepted[i]] = "returned"
  BY DEF ProducerInv, AcceptedOnce, ToSet
<1>4. ASSUME NEW i \in DOMAIN accepted, accepted[i][1] = p
      PROVE  accepted[i][2] < sent[p]
  <2>1. PICK n \in 1 .. MaxMessages : accepted[i] = <<p, n>>
    BY <1>3, <1>4 DEF Messages
  <2>2. ~(sent[p] < n) /\ sent[p] # n
    BY <1>3, <2>1 DEF ProducerInv, Undecided
  <2> QED
    BY <1>1, <2>1, <2>2, LimitsAssumption
<1> QED
  BY <1>2, <1>3, <1>4

LEMMA ProducerInit == Init => ProducerInv
<1> SUFFICES ASSUME Init PROVE ProducerInv
  OBVIOUS
<1>1. accepted \in Seq(Messages) /\ DOMAIN accepted = {}
  BY EmptySeq DEF Init
<1>2. TypeOK
  <2>1. /\ sent \in [Publishers -> 0 .. MaxMessages]
        /\ retryCount \in [Publishers -> 0 .. MaxRetries]
    BY LimitsAssumption DEF Init
  <2>2. outcome \in [Messages -> {"none", "returned", "raised"}]
    BY DEF Init
  <2>3. pc \in [Publishers -> {"idle", "trying", "sleeping"}]
    BY DEF Init
  <2> QED
    BY <1>1, <2>1, <2>2, <2>3 DEF Init, TypeOK
<1>3. AttemptsLeft /\ HasMessage
  BY LimitsAssumption DEF Init, AttemptsLeft, HasMessage
<1>4. Undecided
  BY DEF Init, Undecided, Messages
<1>5. AcceptedOnce
  BY <1>1 DEF Init, AcceptedOnce, IsInjective, InOrderOfCalls, ToSet
<1> QED
  BY <1>2, <1>3, <1>4, <1>5 DEF ProducerInv

\* What the reports that poll() or flush() serve leave of the queue.
LEMMA ServedQueue ==
  ASSUME TypeOK, ServesUntilTimeout
  PROVE  queue' \subseteq Messages /\ acked' \subseteq queue'
  BY DEF TypeOK, ServesUntilTimeout, Serves

\* The end of a publish() without a produce().
LEMMA EndStep ==
  ASSUME ProducerInv, NEW p \in Publishers, pc[p] # "idle",
         EndPublish(p, "raised"),
         queue' \subseteq Messages, acked' \subseteq queue',
         closed' \in BOOLEAN,
         UNCHANGED <<accepted, sent, retryCount>>
  PROVE  ProducerInv'
<1>1. /\ Message(p) \in Messages
      /\ outcome[Message(p)] = "none"
  BY MessageIsNew
<1>2. TypeOK'
  BY <1>1 DEF ProducerInv, TypeOK, EndPublish
<1>3. AttemptsLeft' /\ HasMessage'
  BY DEF ProducerInv, TypeOK, AttemptsLeft, HasMessage, EndPublish
<1>4. Undecided'
  <2> SUFFICES ASSUME NEW q \in Publishers, NEW n \in 1 .. MaxMessages,
                      sent'[q] < n \/ (sent'[q] = n /\ pc'[q] # "idle")
               PROVE  outcome'[<<q, n>>] = "none"
    BY DEF Undecided
  <2>1. <<q, n>> \in Messages
    BY DEF Messages
  <2>2. outcome[<<q, n>>] = "none"
    BY DEF ProducerInv, TypeOK, Undecided, EndPublish
  <2>3. <<q, n>> # Message(p)
    BY LimitsAssumption DEF ProducerInv, TypeOK, EndPublish, Message
  <2> QED
    BY <2>1, <2>2, <2>3 DEF ProducerInv, TypeOK, EndPublish
<1>5. AcceptedOnce'
  <2>1. {m \in Messages : outcome'[m] = "returned"}
        = {m \in Messages : outcome[m] = "returned"}
    BY <1>1 DEF ProducerInv, TypeOK, EndPublish
  <2> QED
    BY <2>1
       DEF ProducerInv, AcceptedOnce, IsInjective, InOrderOfCalls, ToSet
<1> QED
  BY <1>2, <1>3, <1>4, <1>5 DEF ProducerInv

\* A produce() that takes the message.
LEMMA ProduceStep ==
  ASSUME ProducerInv, NEW p \in Publishers, pc[p] = "trying",
         Produce(p), UNCHANGED <<closed, sent>>
  PROVE  ProducerInv'
<1>1. /\ Message(p) \in Messages
      /\ outcome[Message(p)] = "none"
      /\ \A i \in DOMAIN accepted :
           /\ accepted[i] # Message(p)
           /\ accepted[i][1] = p => accepted[i][2] < sent[p]
  BY MessageIsNew
<1>2. accepted' = Append(accepted, Message(p)) /\ accepted \in Seq(Messages)
  BY DEF Produce, ProducerInv, TypeOK
<1>3. /\ accepted' \in Seq(Messages)
      /\ Len(accepted) \in Nat
      /\ DOMAIN accepted = 1 .. Len(accepted)
      /\ DOMAIN accepted' = 1 .. Len(accepted) + 1
      /\ \A i \in 1 .. Len(accepted) : accepted'[i] = accepted[i]
      /\ accepted'[Len(accepted) + 1] = Message(p)
  <2> DEFINE m == Message(p)
  <2> HIDE DEF m
  <2>1. m \in Messages /\ accepted' = Append(accepted, m)
    BY <1>1, <1>2 DEF m
  <2>2. accepted'[Len(accepted) + 1] = m
    BY <1>2, <2>1
  <2> QED
    BY <1>2, <2>1, <2>2 DEF m
<1>4. /\ pc' = [pc EXCEPT ![p] = "idle"]
      /\ outcome' = [outcome EXCEPT ![Message(p)] = "returned"]
      /\ queue' \subseteq Messages /\ acked' \subseteq queue'
  BY <1>1 DEF Produce, EndPublish, Serves, ProducerInv, TypeOK
<1>5. TypeOK'
  BY <1>1, <1>3, <1>4 DEF Produce, ProducerInv, TypeOK
<1>6. AttemptsLeft' /\ HasMessage'
  BY <1>4 DEF Produce, ProducerInv, TypeOK, AttemptsLeft, HasMessage
<1>7. Undecided'
  <2> SUFFICES ASSUME NEW q \in Publishers, NEW n \in 1 .. MaxMessages,
                      sent'[q] < n \/ (sent'[q] = n /\ pc'[q] # "idle")
               PROVE  outcome'[<<q, n>>] = "none"
    BY DEF Undecided
  <2>1. <<q, n>> \in Messages
    BY DEF Messages
  <2>2. outcome[<<q, n>>] = "none"
    BY <1>4 DEF ProducerInv, TypeOK, Undecided
  <2>3. <<q, n>> # Message(p)
    BY <1>4, LimitsAssumption DEF ProducerInv, TypeOK, Message
  <2> QED
    BY <1>4, <2>1, <2>2, <2>3 DEF ProducerInv, TypeOK
<1>8. IsInjective(accepted')
  <2>1. \A i, j \in DOMAIN accepted : accepted[i] = accepted[j] => i = j
    BY DEF ProducerInv, AcceptedOnce, IsInjective
  <2> SUFFICES ASSUME NEW i \in DOMAIN accepted', NEW j \in DOMAIN accepted',
                      accepted'[i] = accepted'[j]
               PROVE  i = j
    BY DEF IsInjective
  <2>2. \/ i \in DOMAIN accepted
        \/ i = Len(accepted) + 1
    BY <1>3
  <2>3. \/ j \in DOMAIN accepted
        \/ j = Len(accepted) + 1
    BY <1>3
  <2> QED
    BY <1>1, <1>3, <2>1, <2>2, <2>3
<1>9. InOrderOfCalls'
  <2> SUFFICES ASSUME NEW i \in DOMAIN accepted', NEW j \in DOMAIN accepted',
                      i < j, accepted'[i][1] = accepted'[j][1]
               PROVE  accepted'[i][2] < accepted'[j][2]
    BY DEF InOrderOfCalls
  <2>1. i \in DOMAIN accepted
    BY <1>3
  <2>2. CASE j \in DOMAIN accepted
    BY <1>3, <2>1, <2>2 DEF ProducerInv, AcceptedOnce, InOrderOfCalls
  <2>3. CASE j = Len(accepted) + 1
    <3>1. accepted'[j][1] = p /\ accepted'[j][2] = sent[p]
      BY <1>3, <2>3 DEF Message
    <3> QED
      BY <1>1, <1>3, <2>1, <3>1
  <2> QED
    BY <1>3, <2>2, <2>3
<1>10. ToSet(accepted') = {m \in Messages : outcome'[m] = "returned"}
  <2>1. ToSet(accepted') = ToSet(accepted) \cup {Message(p)}
    <3>1. ToSet(accepted') \subseteq ToSet(accepted) \cup {Message(p)}
      <4> SUFFICES ASSUME NEW i \in DOMAIN accepted'
                   PROVE  accepted'[i] \in ToSet(accepted) \cup {Message(p)}
        BY DEF ToSet
      <4>1. i \in 1 .. Len(accepted) \/ i = Len(accepted) + 1
        BY <1>3
      <4> QED
        BY <1>3, <4>1 DEF ToSet
    <3>2. ToSet(accepted) \subseteq ToSet(accepted')
      <4> SUFFICES ASSUME NEW i \in DOMAIN accepted
                   PROVE  \E j \in DOMAIN accepted' : accepted'[j] = accepted[i]
        BY DEF ToSet
      <4>1. i \in DOMAIN accepted' /\ accepted'[i] = accepted[i]
        BY <1>3
      <4> QED
        BY <4>1
    <3>3. Message(p) \in ToSet(accepted')
      <4>1. Len(accepted) + 1 \in DOMAIN accepted'
        BY <1>3
      <4> QED
        BY <1>3, <4>1 DEF ToSet
    <3> QED
      BY <3>1, <3>2, <3>3
  <2>2. {m \in Messages : outcome'[m] = "returned"}
        = {m \in Messages : outcome[m] = "returned"} \cup {Message(p)}
    BY <1>1, <1>4 DEF ProducerInv, TypeOK
  <2> QED
    BY <2>1, <2>2 DEF ProducerInv, AcceptedOnce
<1> QED
  BY <1>5, <1>6, <1>7, <1>8, <1>9, <1>10 DEF ProducerInv, AcceptedOnce

\* A step that ends no publish() and produces nothing.
LEMMA OtherStep ==
  ASSUME ProducerInv, TypeOK', UNCHANGED <<accepted, outcome, sent>>,
         AttemptsLeft',
         \A p \in Publishers : pc'[p] = "idle" <=> pc[p] = "idle"
  PROVE  ProducerInv'
<1>1. HasMessage' /\ Undecided'
  BY DEF ProducerInv, HasMessage, Undecided
<1>2. AcceptedOnce'
  BY DEF ProducerInv, AcceptedOnce, IsInjective, InOrderOfCalls, ToSet
<1> QED
  BY <1>1, <1>2 DEF ProducerInv

LEMMA ProducerNext == ProducerInv /\ [Next]_vars => ProducerInv'
<1> SUFFICES ASSUME ProducerInv, [Next]_vars
             PROVE  ProducerInv'
  OBVIOUS
<1> USE LimitsAssumption
<1>1. ASSUME NEW p \in Publishers, CallPublish(p)
      PROVE  ProducerInv'
  <2>1. TypeOK'
    BY <1>1 DEF CallPublish, queueVars, ProducerInv, TypeOK
  <2>2. AttemptsLeft' /\ HasMessage'
    BY <1>1
       DEF CallPublish, queueVars, ProducerInv, TypeOK, AttemptsLeft, HasMessage
  <2>3. Undecided'
    <3> SUFFICES ASSUME NEW q \in Publishers, NEW n \in 1 .. MaxMessages,
                        sent'[q] < n \/ (sent'[q] = n /\ pc'[q] # "idle")
                 PROVE  outcome'[<<q, n>>] = "none"
      BY DEF Undecided
    <3>1. CASE q = p
      <4>1. sent[p] < n
        BY <1>1, <3>1 DEF CallPublish, ProducerInv, TypeOK
      <4> QED
        BY <1>1, <3>1, <4>1 DEF CallPublish, ProducerInv, Undecided
    <3>2. CASE q # p
      BY <1>1, <3>2 DEF CallPublish, ProducerInv, TypeOK, Undecided
    <3> QED
      BY <3>1, <3>2
  <2>4. AcceptedOnce'
    BY <1>1
       DEF CallPublish, queueVars, ProducerInv, AcceptedOnce, IsInjective,
           InOrderOfCalls, ToSet
  <2> QED
    BY <2>1, <2>2, <2>3, <2>4 DEF ProducerInv
<1>2. ASSUME NEW p \in Publishers, Attempt(p)
      PROVE  ProducerInv'
  <2>1. CASE Produce(p)
    BY <1>2, <2>1, ProduceStep DEF Attempt
  <2>2. CASE BufferFull(p)
    <3>1. TypeOK'
      BY <1>2, <2>2, ServedQueue
         DEF Attempt, BufferFull, ProducerInv, TypeOK, AttemptsLeft
    <3>2. AttemptsLeft'
      BY <1>2, <2>2 DEF Attempt, BufferFull, ProducerInv, TypeOK, AttemptsLeft
    <3>3. \A q \in Publishers : pc'[q] = "idle" <=> pc[q] = "idle"
      BY <1>2, <2>2 DEF Attempt, BufferFull, ProducerInv, TypeOK
    <3> QED
      BY <1>2, <2>2, <3>1, <3>2, <3>3, OtherStep DEF Attempt, BufferFull
  <2>3. CASE ProduceRaises(p)
    BY <1>2, <2>3, EndStep
       DEF Attempt, ProduceRaises, queueVars, ProducerInv, TypeOK
  <2> QED
    BY <1>2, <2>1, <2>2, <2>3 DEF Attempt
<1>3. ASSUME NEW p \in Publishers, Wake(p)
      PROVE  ProducerInv'
  <2>1. CASE retryCount[p] < MaxRetries /\ pc' = [pc EXCEPT ![p] = "trying"]
             /\ UNCHANGED outcome
    <3>1. TypeOK'
      BY <1>3, <2>1 DEF Wake, queueVars, ProducerInv, TypeOK
    <3>2. AttemptsLeft'
      BY <1>3, <2>1 DEF Wake, ProducerInv, TypeOK, AttemptsLeft
    <3>3. \A q \in Publishers : pc'[q] = "idle" <=> pc[q] = "idle"
      BY <1>3, <2>1 DEF Wake, ProducerInv, TypeOK
    <3> QED
      BY <1>3, <2>1, <3>1, <3>2, <3>3, OtherStep DEF Wake, queueVars
  <2>2. CASE EndPublish(p, "raised")
    BY <1>3, <2>2, EndStep DEF Wake, queueVars, ProducerInv, TypeOK
  <2> QED
    BY <1>3, <2>1, <2>2 DEF Wake
<1>4. ASSUME NEW p \in Publishers, Cancel(p)
      PROVE  ProducerInv'
  BY <1>4, EndStep DEF Cancel, queueVars, ProducerInv, TypeOK
<1>5. ASSUME NEW m \in Messages, Answer(m)
      PROVE  ProducerInv'
  <2>1. TypeOK'
    BY <1>5 DEF Answer, callVars, ProducerInv, TypeOK
  <2> QED
    BY <1>5, <2>1, OtherStep DEF Answer, callVars, ProducerInv, AttemptsLeft
<1>6. ASSUME Flush
      PROVE  ProducerInv'
  <2>1. TypeOK'
    BY <1>6, ServedQueue DEF Flush, callVars, ProducerInv, TypeOK
  <2> QED
    BY <1>6, <2>1, OtherStep DEF Flush, callVars, ProducerInv, AttemptsLeft
<1>7. ASSUME Close
      PROVE  ProducerInv'
  <2>1. TypeOK'
    BY <1>7, ServedQueue DEF Close, callVars, ProducerInv, TypeOK
  <2> QED
    BY <1>7, <2>1, OtherStep DEF Close, callVars, ProducerInv, AttemptsLeft
<1>8. ASSUME UNCHANGED vars
      PROVE  ProducerInv'
  <2>1. TypeOK'
    BY <1>8 DEF vars, queueVars, callVars, ProducerInv, TypeOK
  <2> QED
    BY <1>8, <2>1, OtherStep
       DEF vars, queueVars, callVars, ProducerInv, AttemptsLeft
<1> QED
  BY <1>1, <1>2, <1>3, <1>4, <1>5, <1>6, <1>7, <1>8 DEF Next

THEOREM ProducerInvariant == Spec => []ProducerInv
  BY ProducerInit, ProducerNext, PTL DEF Spec

\* Every variable keeps to its type: in particular no publish() makes more
\* than max_retries attempts.
THEOREM TypeCorrect == Spec => []TypeOK
  BY ProducerInvariant, PTL DEF ProducerInv

\* However many tasks publish, sleep and close, publish() has returned for
\* exactly the messages produce() took, each of which it took once, and those
\* of one task in the order of its calls.
THEOREM PublishedOnce == Spec => []AcceptedOnce
  BY ProducerInvariant, PTL DEF ProducerInv

\* No message is handed to a producer after close() has dropped it.
THEOREM ClosedIsFinal == Spec => NothingAfterClose
<1>1. [Next]_vars => [closed => accepted' = accepted]_vars
  <2> SUFFICES ASSUME Next, closed
               PROVE  accepted' = accepted
    BY DEF vars
  <2> QED
    BY DEF Next, CallPublish, Attempt, Produce, BufferFull, ProduceRaises,
           Wake, Cancel, Answer, Flush, Close, queueVars
<1> QED
  BY <1>1, PTL DEF Spec, NothingAfterClose

------------------------------------------------------------------------------
(* The adapter implements MessagePublisher.                                *)

Pending == {m \in Messages : pc[m[1]] # "idle" /\ sent[m[1]] = m[2]}
Refused == {m \in Messages : outcome[m] = "raised"}

LEMMA PendingMessage ==
  ASSUME ProducerInv, NEW p \in Publishers, pc[p] # "idle"
  PROVE  Message(p) \in Pending
  BY MessageIsNew DEF Message, Pending

\* The end of a publish(), whatever its result, removes its message only.
LEMMA PendingEnds ==
  ASSUME ProducerInv, NEW p \in Publishers, pc[p] # "idle",
         NEW result, EndPublish(p, result), UNCHANGED sent
  PROVE  /\ Pending' = Pending \ {Message(p)}
         /\ Refused' = IF result = "raised" THEN Refused \cup {Message(p)}
                                            ELSE Refused \ {Message(p)}
         /\ Message(p) \notin Refused
<1>1. Message(p) \in Messages /\ outcome[Message(p)] = "none"
  BY MessageIsNew
<1>2. ASSUME NEW m \in Messages
      PROVE  m \in Pending' <=> m \in Pending \ {Message(p)}
  <2>1. PICK q \in Publishers, n \in 1 .. MaxMessages : m = <<q, n>>
    BY <1>2 DEF Messages
  <2>2. CASE q = p
    BY <1>2, <2>1, <2>2 DEF Pending, Message, EndPublish, ProducerInv, TypeOK
  <2>3. CASE q # p
    BY <1>2, <2>1, <2>3 DEF Pending, Message, EndPublish, ProducerInv, TypeOK
  <2> QED
    BY <2>2, <2>3
<1>3. Pending \subseteq Messages /\ Pending' \subseteq Messages
  BY DEF Pending, Messages
<1>4. ASSUME NEW m \in Messages
      PROVE  outcome'[m] = IF m = Message(p) THEN result ELSE outcome[m]
  BY <1>4 DEF EndPublish, ProducerInv, TypeOK
<1>5. Refused' = {m \in Messages : outcome'[m] = "raised"}
  BY DEF Refused, Messages
<1>6. ASSUME NEW m \in Messages
      PROVE  m \in Refused' <=> IF m = Message(p) THEN result = "raised"
                                                 ELSE m \in Refused
  BY <1>4, <1>5, <1>6 DEF Refused
<1>7. Message(p) \notin Refused
  BY <1>1 DEF Refused
<1>8. Pending' = Pending \ {Message(p)}
  BY <1>2, <1>3
<1>9. Refused \subseteq Messages /\ Refused' \subseteq Messages
  BY <1>5 DEF Refused
<1>10. CASE result = "raised"
  <2>1. Refused' = Refused \cup {Message(p)}
    BY <1>1, <1>6, <1>9, <1>10
  <2> QED
    BY <1>7, <1>8, <1>10, <2>1
<1>11. CASE result # "raised"
  <2>1. Refused' = Refused \ {Message(p)}
    BY <1>1, <1>6, <1>9, <1>11
  <2> QED
    BY <1>7, <1>8, <1>11, <2>1
<1> QED
  BY <1>10, <1>11

LEMMA PublisherRefuses ==
  ASSUME ProducerInv, NEW p \in Publishers, pc[p] # "idle",
         EndPublish(p, "raised"), UNCHANGED <<closed, accepted, sent>>
  PROVE  Publisher!PublisherNext
<1>1. \E m \in Pending : Publisher!Refuse(m)
  <2>1. Publisher!Refuse(Message(p))
    BY PendingEnds DEF Publisher!Refuse, Pending, Refused
  <2> QED
    BY <2>1, PendingMessage DEF Publisher!Refuse
<1> QED
  BY <1>1 DEF Publisher!PublisherNext, Pending

\* A step in which no publish() begins or ends and nothing is closed.
LEMMA PublisherUnaware ==
  ASSUME UNCHANGED <<closed, accepted, outcome, sent>>,
         \A p \in Publishers : pc'[p] = "idle" <=> pc[p] = "idle"
  PROVE  UNCHANGED Publisher!publisherVars
  BY DEF Publisher!publisherVars, Messages

LEMMA PublisherCalled ==
  ASSUME ProducerInv, NEW p \in Publishers, CallPublish(p)
  PROVE  Publisher!PublisherNext
<1>1. sent[p] \in Nat /\ sent[p] + 1 \in 1 .. MaxMessages
  BY LimitsAssumption DEF CallPublish, ProducerInv, TypeOK
<1>2. /\ pc' = [pc EXCEPT ![p] = "trying"] /\ pc[p] = "idle"
      /\ sent' = [sent EXCEPT ![p] = sent[p] + 1]
      /\ UNCHANGED <<closed, accepted, outcome>>
  BY DEF CallPublish, queueVars
<1>3. ASSUME NEW q \in Publishers, NEW n \in 1 .. MaxMessages
      PROVE  <<q, n>> \in Pending' <=>
               <<q, n>> \in Pending \/ <<q, n>> = <<p, sent[p] + 1>>
  <2>1. <<q, n>> \in Messages
    BY DEF Messages
  <2>2. CASE q = p
    BY <1>1, <1>2, <2>1, <2>2 DEF Pending, Messages, ProducerInv, TypeOK
  <2>3. CASE q # p
    BY <1>2, <2>1, <2>3 DEF Pending, Messages, ProducerInv, TypeOK
  <2> QED
    BY <2>2, <2>3
<1>4. /\ Pending' \subseteq Messages /\ Pending \subseteq Messages
      /\ <<p, sent[p] + 1>> \in Messages
  BY <1>1 DEF Pending, Messages
<1>5. Pending' = Pending \cup {<<p, sent[p] + 1>>}
  <2>1. ASSUME NEW m \in Messages
        PROVE  m \in Pending' <=>
                 m \in Pending \cup {<<p, sent[p] + 1>>}
    BY <1>3, <2>1 DEF Messages
  <2> QED
    BY <1>4, <2>1
<1>6. <<p, sent[p]>> \notin Pending
  BY <1>2 DEF Pending
<1>7. Refused' = Refused
  BY <1>2 DEF Refused, Messages
<1>8. Publisher!Call(p)
  BY <1>2, <1>5, <1>6, <1>7 DEF Publisher!Call, Pending, Refused
<1> QED
  BY <1>8 DEF Publisher!PublisherNext

LEMMA PublisherTakes ==
  ASSUME ProducerInv, NEW p \in Publishers, pc[p] # "idle",
         Produce(p), UNCHANGED <<closed, sent>>
  PROVE  Publisher!PublisherNext
<1>1. EndPublish(p, "returned")
  BY DEF Produce
<1>2. /\ Pending' = Pending \ {Message(p)}
      /\ Refused' = Refused
  BY <1>1, PendingEnds
<1>3. \E m \in Pending : Publisher!Take(m)
  <2>1. Publisher!Take(Message(p))
    BY <1>2 DEF Produce, Publisher!Take, Pending, Refused
  <2> QED
    BY <2>1, PendingMessage DEF Publisher!Take
<1> QED
  BY <1>3 DEF Publisher!PublisherNext, Pending

LEMMA PublisherStep ==
  ProducerInv /\ [Next]_vars => [Publisher!PublisherNext]_(Publisher!publisherVars)
<1> SUFFICES ASSUME ProducerInv, [Next]_vars
             PROVE  Publisher!PublisherNext \/ UNCHANGED Publisher!publisherVars
  OBVIOUS
<1>1. ASSUME NEW p \in Publishers, CallPublish(p)
      PROVE  Publisher!PublisherNext
  BY <1>1, PublisherCalled
<1>2. ASSUME NEW p \in Publishers, Attempt(p)
      PROVE  Publisher!PublisherNext \/ UNCHANGED Publisher!publisherVars
  <2>1. CASE Produce(p)
    BY <1>2, <2>1, PublisherTakes DEF Attempt
  <2>2. CASE BufferFull(p)
    <3>1. \A q \in Publishers : pc'[q] = "idle" <=> pc[q] = "idle"
      BY <1>2, <2>2 DEF Attempt, BufferFull, ProducerInv, TypeOK
    <3> QED
      BY <1>2, <2>2, <3>1, PublisherUnaware DEF Attempt, BufferFull
  <2>3. CASE ProduceRaises(p)
    BY <1>2, <2>3, PublisherRefuses DEF Attempt, ProduceRaises, queueVars
  <2> QED
    BY <1>2, <2>1, <2>2, <2>3 DEF Attempt
<1>3. ASSUME NEW p \in Publishers, Wake(p)
      PROVE  Publisher!PublisherNext \/ UNCHANGED Publisher!publisherVars
  <2>1. CASE pc' = [pc EXCEPT ![p] = "trying"] /\ UNCHANGED outcome
    <3>1. \A q \in Publishers : pc'[q] = "idle" <=> pc[q] = "idle"
      BY <1>3, <2>1 DEF Wake, ProducerInv, TypeOK
    <3> QED
      BY <1>3, <2>1, <3>1, PublisherUnaware DEF Wake, queueVars
  <2>2. CASE EndPublish(p, "raised")
    BY <1>3, <2>2, PublisherRefuses DEF Wake, queueVars
  <2> QED
    BY <1>3, <2>1, <2>2 DEF Wake
<1>4. ASSUME NEW p \in Publishers, Cancel(p)
      PROVE  Publisher!PublisherNext
  BY <1>4, PublisherRefuses DEF Cancel, queueVars
<1>5. CASE (\E m \in Messages : Answer(m)) \/ Flush \/ UNCHANGED vars
  BY <1>5, PublisherUnaware DEF Answer, Flush, vars, queueVars, callVars
<1>6. CASE Close
  <2>1. CASE closed' = TRUE
    <3>1. UNCHANGED <<accepted, outcome, sent, pc>> /\ ~closed
      BY <1>6 DEF Close, callVars
    <3>2. Publisher!Shut
      BY <2>1, <3>1 DEF Publisher!Shut, Messages
    <3> QED
      BY <3>2 DEF Publisher!PublisherNext
  <2>2. CASE UNCHANGED closed
    BY <1>6, <2>2, PublisherUnaware DEF Close, callVars
  <2> QED
    BY <1>6, <2>1, <2>2 DEF Close
<1> QED
  BY <1>1, <1>2, <1>3, <1>4, <1>5, <1>6 DEF Next

\* Seen from its callers the adapter is a MessagePublisher: retries, sleeps,
\* the queue and a close in between amount to one moment at which a message is
\* taken or refused (publish and close over librdkafka).
THEOREM PublisherImplemented == Spec => ImplementsPublisher
<1>1. Init => Publisher!PublisherInit
  BY DEF Init, Publisher!PublisherInit, Messages
<1> QED
  BY <1>1, ProducerInvariant, PublisherStep, PTL
     DEF Spec, ImplementsPublisher, Publisher!PublisherSpec

==============================================================================
