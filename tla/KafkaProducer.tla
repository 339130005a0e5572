----------------------------- MODULE KafkaProducer -----------------------------
(***************************************************************************)
(* KafkaProducerAdapter: tasks publish through one librdkafka producer     *)
(* whose queue is bounded, and may close the adapter under each other.     *)
(* Only the sleep of a retry gives other tasks a turn: produce(), poll()   *)
(* and flush() block the event loop, so what librdkafka and the broker do  *)
(* meanwhile is part of the step.                                          *)
(*                                                                         *)
(* Abstracted: topic, key and value are the identity of the message, i.e.  *)
(* the task that publishes it and its position among the task's messages;  *)
(* the metrics and the logging are left out.                               *)
(***************************************************************************)
EXTENDS Naturals, Sequences, FiniteSets, Functions, SequencesExt

CONSTANTS
  Publishers,    \* tasks that call publish()
  MaxRetries,    \* max_retries
  Capacity,      \* queue.buffering.max.messages
  MaxMessages    \* bound: how many messages each task publishes

ASSUME LimitsAssumption ==
  /\ MaxRetries \in Nat \ {0}
  /\ Capacity \in Nat \ {0}
  /\ MaxMessages \in Nat

VARIABLES
  closed,      \* _producer is None
  queue,       \* librdkafka: messages produced and not yet reported on
  acked,       \* those of the queue the broker has answered for
  accepted,    \* every message a produce() has taken, in order
  pc,          \* where each publisher is
  sent,        \* how many messages each publisher has started on
  retryCount,  \* each publisher's retry_count
  outcome      \* how the publish() of each message ended, so far

queueVars == <<queue, acked, accepted>>
callVars == <<pc, sent, retryCount, outcome>>
vars == <<closed, queueVars, callVars>>

Messages == Publishers \X (1 .. MaxMessages)

TypeOK ==
  /\ closed \in BOOLEAN
  /\ queue \subseteq Messages
  /\ acked \subseteq queue
  /\ accepted \in Seq(Messages)
  /\ pc \in [Publishers -> {"idle", "trying", "sleeping"}]
  /\ sent \in [Publishers -> 0 .. MaxMessages]
  /\ retryCount \in [Publishers -> 0 .. MaxRetries]
  /\ outcome \in [Messages -> {"none", "returned", "raised"}]

Init ==
  /\ closed = FALSE
  /\ queue = {}
  /\ acked = {}
  /\ accepted = <<>>
  /\ pc = [p \in Publishers |-> "idle"]
  /\ sent = [p \in Publishers |-> 0]
  /\ retryCount = [p \in Publishers |-> 0]
  /\ outcome = [m \in Messages |-> "none"]

------------------------------------------------------------------------------
(* The queue of librdkafka. It is full as long as the reports on what the  *)
(* broker answered have not been served by poll() or flush().              *)

Message(p) == <<p, sent[p]>>

Full == Cardinality(queue) >= Capacity

\* The broker accepts a message, or rejects it; with several requests in flight
\* and retries the answers come in any order.
Answer(m) ==
  /\ m \in queue \ acked
  /\ acked' = acked \cup {m}
  /\ UNCHANGED <<closed, queue, accepted, callVars>>

\* poll(0) calls _delivery_callback for each message a the broker answered.
Serves(q, a) == queue' = q \ a /\ acked' = {}

\* A poll() or flush() with a timeout serves what is answered until it ends.
ServesUntilTimeout ==
  \E a \in SUBSET queue : acked \subseteq a /\ Serves(queue, a)

------------------------------------------------------------------------------
(* publish                                                                 *)

CallPublish(p) ==
  /\ pc[p] = "idle"
  /\ sent[p] < MaxMessages
  /\ sent' = [sent EXCEPT ![p] = @ + 1]
  /\ retryCount' = [retryCount EXCEPT ![p] = 0]
  /\ pc' = [pc EXCEPT ![p] = "trying"]
  /\ UNCHANGED <<closed, queueVars, outcome>>

EndPublish(p, result) ==
  /\ pc' = [pc EXCEPT ![p] = "idle"]
  /\ outcome' = [outcome EXCEPT ![Message(p)] = result]

\* Mutant: the loop goes on after a produce() that succeeded.
ProduceAgain(p) ==
  /\ ~closed
  /\ ~Full
  /\ accepted' = Append(accepted, Message(p))
  /\ Serves(queue \cup {Message(p)}, acked)
  /\ \/ EndPublish(p, "returned")
     \/ UNCHANGED <<pc, outcome>>
  /\ UNCHANGED retryCount

\* Mutant: the producer is read once, before the first attempt.
ProduceStale(p) ==
  /\ ~Full
  /\ accepted' = Append(accepted, Message(p))
  /\ Serves(queue \cup {Message(p)}, acked)
  /\ EndPublish(p, "returned")
  /\ UNCHANGED retryCount

\* produce() takes the message; poll(0) follows, which is taken not to raise: it
\* runs the two callbacks, and these only log and count.
Produce(p) ==
  /\ ~closed
  /\ ~Full
  /\ accepted' = Append(accepted, Message(p))
  /\ Serves(queue \cup {Message(p)}, acked)
  /\ EndPublish(p, "returned")
  /\ UNCHANGED retryCount

\* BufferError: poll(0.1) makes room, the broker answering meanwhile, and the
\* task sleeps.
BufferFull(p) ==
  /\ ~closed
  /\ Full
  /\ ServesUntilTimeout
  /\ retryCount' = [retryCount EXCEPT ![p] = @ + 1]
  /\ pc' = [pc EXCEPT ![p] = "sleeping"]
  /\ UNCHANGED <<accepted, outcome>>

\* Any exception but BufferError leaves publish() as a PublishException:
\* KafkaException from produce(), AttributeError when _producer is None.
ProduceRaises(p) ==
  /\ EndPublish(p, "raised")
  /\ UNCHANGED <<queueVars, retryCount>>

Attempt(p) ==
  /\ pc[p] = "trying"
  /\ \/ Produce(p)
     \/ BufferFull(p)
     \/ ProduceRaises(p)
  /\ UNCHANGED <<closed, sent>>

\* Mutant: the sleep is over and the attempts are never used up.
WakeForever(p) ==
  /\ pc[p] = "sleeping"
  /\ retryCount' = [retryCount EXCEPT ![p] = 0]
  /\ pc' = [pc EXCEPT ![p] = "trying"]
  /\ UNCHANGED <<closed, queueVars, sent, outcome>>

\* Mutant: one more attempt than max_retries.
WakeOneMore(p) ==
  /\ pc[p] = "sleeping"
  /\ \/ /\ retryCount[p] <= MaxRetries
        /\ pc' = [pc EXCEPT ![p] = "trying"]
        /\ UNCHANGED outcome
     \/ /\ retryCount[p] > MaxRetries
        /\ EndPublish(p, "raised")
  /\ UNCHANGED <<closed, queueVars, sent, retryCount>>

\* The sleep is over: the next attempt, or a PublishException after the last.
Wake(p) ==
  /\ pc[p] = "sleeping"
  /\ \/ /\ retryCount[p] < MaxRetries
        /\ pc' = [pc EXCEPT ![p] = "trying"]
        /\ UNCHANGED outcome
     \/ /\ retryCount[p] >= MaxRetries
        /\ EndPublish(p, "raised")
  /\ UNCHANGED <<closed, queueVars, sent, retryCount>>

\* The task is cancelled while it sleeps, as the stop of the service does.
Cancel(p) ==
  /\ pc[p] = "sleeping"
  /\ EndPublish(p, "raised")
  /\ UNCHANGED <<closed, queueVars, sent, retryCount>>

------------------------------------------------------------------------------
(* flush and close, called by some other task                              *)

\* flush() serves what the broker answers for within the timeout and returns
\* how much it leaves; or it raises.
Flush ==
  /\ ~closed
  /\ ServesUntilTimeout
  /\ UNCHANGED <<closed, accepted, callVars>>

\* close() flushes and drops the producer, with whatever the flush left; when
\* the flush raises, close() returns and the producer stays.
Close ==
  /\ ~closed
  /\ \/ /\ closed' = TRUE
        /\ queue' = {}
        /\ acked' = {}
     \/ /\ ServesUntilTimeout
        /\ UNCHANGED closed
  /\ UNCHANGED <<accepted, callVars>>

------------------------------------------------------------------------------
Next ==
  \/ \E p \in Publishers :
       \/ CallPublish(p)
       \/ Attempt(p)
       \/ Wake(p)
       \/ Cancel(p)
  \/ \E m \in Messages : Answer(m)
  \/ Flush
  \/ Close

Spec == Init /\ [][Next]_vars

\* A task that is ready runs and a sleep ends; the broker may never answer.
Fairness == \A p \in Publishers : WF_vars(Attempt(p) \/ Wake(p))

FairSpec == Spec /\ Fairness

------------------------------------------------------------------------------
\* What a task's calls of publish() got in is in the order of its calls.
InOrderOfCalls ==
  \A i, j \in DOMAIN accepted :
    i < j /\ accepted[i][1] = accepted[j][1] => accepted[i][2] < accepted[j][2]

\* However attempts, sleeps and a close interleave, publish() has returned for
\* exactly the messages produce() took, and it took each of them once, those of
\* one task in the order of its calls, as publish_market_data promises.
AcceptedOnce ==
  /\ IsInjective(accepted)
  /\ InOrderOfCalls
  /\ ToSet(accepted) = {m \in Messages : outcome[m] = "returned"}

\* A publisher that slept across a close() does not use the producer any more.
NothingAfterClose == [][closed => accepted' = accepted]_vars

\* Retries, sleeps and the queue of librdkafka are not seen from outside: the
\* adapter takes a message at one moment, which is its produce(), or refuses it,
\* and keeps to what MessagePublisher promises whoever closes it meanwhile.
Publisher == INSTANCE MessagePublisher
  WITH open <- ~closed,
       taken <- accepted,
       refused <- {m \in Messages : outcome[m] = "raised"},
       calls <- sent,
       pending <- {m \in Messages : pc[m[1]] # "idle" /\ sent[m[1]] = m[2]}

ImplementsPublisher == Publisher!PublisherSpec

\* Every publish() ends, however long the queue stays full.
PublishEnds ==
  \A p \in Publishers : pc[p] # "idle" ~> pc[p] = "idle"

==============================================================================
