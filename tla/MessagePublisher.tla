--------------------------- MODULE MessagePublisher ---------------------------
(***************************************************************************)
(* What a MessagePublisher promises the tasks that publish through it: a   *)
(* publish() takes the message once and returns, or refuses it and raises, *)
(* at one moment between its call and its end; what it takes is never      *)
(* taken back; and a publisher that was closed refuses everything.         *)
(***************************************************************************)
EXTENDS Naturals, Sequences

CONSTANT Publishers   \* tasks that call publish()

VARIABLES
  open,     \* the publisher has not been closed
  taken,    \* the messages taken, in order
  refused,  \* the messages refused
  calls,    \* how many messages each task has called publish() for
  pending   \* the messages whose publish() is under way

publisherVars == <<open, taken, refused, calls, pending>>

PublisherInit ==
  /\ open = TRUE
  /\ taken = <<>>
  /\ refused = {}
  /\ calls = [p \in Publishers |-> 0]
  /\ pending = {}

\* A task publishes one message after the other.
Call(p) ==
  /\ <<p, calls[p]>> \notin pending
  /\ calls' = [calls EXCEPT ![p] = @ + 1]
  /\ pending' = pending \cup {<<p, calls[p] + 1>>}
  /\ UNCHANGED <<open, taken, refused>>

Take(m) ==
  /\ open
  /\ taken' = Append(taken, m)
  /\ pending' = pending \ {m}
  /\ UNCHANGED <<open, refused, calls>>

Refuse(m) ==
  /\ refused' = refused \cup {m}
  /\ pending' = pending \ {m}
  /\ UNCHANGED <<open, taken, calls>>

Shut ==
  /\ open
  /\ open' = FALSE
  /\ UNCHANGED <<taken, refused, calls, pending>>

PublisherNext ==
  \/ \E p \in Publishers : Call(p)
  \/ \E m \in pending : Take(m) \/ Refuse(m)
  \/ Shut

PublisherSpec == PublisherInit /\ [][PublisherNext]_publisherVars

==============================================================================
