-------------------------- MODULE UpbitOverWebSocket --------------------------
(***************************************************************************)
(* UpbitWebSocketConnector as it runs: BaseWebSocket, whose attempts send  *)
(* the subscriptions of UpbitConnector, whose stream feeds its parser, and *)
(* whose socket tasks that call subscribe() use at the same time.          *)
(*                                                                         *)
(* Every step is a step of BaseWebSocket with what it does to the registry,*)
(* or one of subscribe().                                                  *)
(***************************************************************************)
EXTENDS BaseWebSocket

CONSTANTS Markets, Codes, Subscribers, MaxSubscriptions  \* as in UpbitConnector

ASSUME MarketsAssumption ==
  /\ Markets # {}
  /\ Markets \subseteq Codes
ASSUME BoundAssumption == MaxSubscriptions \in Nat

VARIABLES subscriptions, attempt, position, size, registered, sending, abandoned

socketVars == <<registered, sending, abandoned>>
registryVars == <<subscriptions, attempt, position, size, socketVars>>
upbitVars == <<vars, registryVars>>

\* What the registry knows of the socket the connector refers to.
socketStatus ==
  IF websocket = None THEN "none" ELSE IF websocket \in open THEN "open" ELSE "closed"

Registry == INSTANCE UpbitConnector WITH websocket <- socketStatus

UpbitTypeOK == TypeOK /\ Registry!TypeOK

UpbitInit == Init /\ Registry!Init

------------------------------------------------------------------------------
(* Attempts that send subscriptions.                                       *)

\* Whether the connection is one that messages come through.
Standing == IF state = CONNECTED /\ websocket \in open THEN "up" ELSE "down"

Opened(t) == OpenSucceeds(t) /\ Registry!SendAll

\* A send returned and the next one is under way.
SendsNext(t) ==
  /\ Suspended(t, "subscribing")
  /\ awaits[t] = websocket
  /\ Registry!TradeSeeded \/ Registry!ResendNext
  /\ attempt' # "up"
  /\ UNCHANGED vars

\* Mutant: connect() does not wait for the last send.
SubscribedEarly(t) ==
  /\ SubscribeSucceeds(t)
  /\ awaits[t] = websocket
  /\ Registry!TradeSeeded \/ Registry!OrderbookSeeded \/ Registry!ResendNext

\* The last send returned, on the connector's socket or on one it has dropped.
Subscribed(t) ==
  /\ SubscribeSucceeds(t)
  /\ \/ /\ awaits[t] = websocket
        /\ Registry!OrderbookSeeded \/ Registry!ResendNext
        /\ attempt' = "up"
     \/ /\ awaits[t] # websocket
        /\ attempt = "seedOrderbook" \/ (position = size /\ Len(subscriptions) = size)
        /\ Registry!SendingEnds

\* It raises, or its task is cancelled.
SendingFails(t) ==
  /\ pc[t] = "subscribing"
  /\ ConnectRaises(t) \/ Cancel(t)
  /\ Registry!SendingEnds

------------------------------------------------------------------------------
(* Everything else.                                                        *)

\* A message is parsed. For a configured market it marks subscriptions, and is
\* then yielded or fails to be converted; any other is dropped.
Parsed ==
  /\ RecvMessage
  /\ \/ /\ \E type \in Registry!SubTypes, code \in Markets : Registry!MarkActive(type, code)
     \/ /\ pc'[Streamer] = "loop"
        /\ UNCHANGED subscriptions
  /\ UNCHANGED <<attempt, position, size, socketVars>>

\* What is sent on a socket is lost with it, or when the connector refers to it
\* no more.
Follow ==
  /\ IF websocket' = websocket /\ websocket \in open'
     THEN UNCHANGED socketVars
     ELSE Registry!SocketLost
  /\ attempt' = IF attempt \in Registry!SendingPCs THEN attempt ELSE Standing'
  /\ UNCHANGED <<subscriptions, position, size>>

OtherStep ==
  /\ \/ \E t \in Tasks :
          \/ LockGranted(t)
          \/ AwaitedTaskEnds(t)
          \/ ConnBody(t)
          \/ pc[t] # "subscribing" /\ (ConnectRaises(t) \/ Cancel(t))
          \/ ConnFail(t)
          \/ FailClosed(t)
          \/ DisconnectStep(t)
          \/ CallConnect(t)
          \/ CallDisconnect(t)
          \/ EndCaller(t)
          \/ CancelQueued(t)
     \/ StreamStep
     \/ StartStream
     \/ RecvRaises
     \/ ConsumerResumes
     \/ ConsumerStops
     \/ \E s \in Sockets : SocketCloses(s)
     \/ Terminated
  /\ Follow

\* subscribe(), by a task that is neither the stream nor one that connects. It
\* may be cancelled while it awaits its send.
Subscribe(u) ==
  /\ running = None
  /\ UNCHANGED vars
  /\ \/ Registry!SubscribeSent(u)
     \/ Registry!SubscribeCancelled(u)
     \/ \E type \in Registry!SubTypes, code \in Codes : Registry!Subscribe(u, type, {code})

UpbitNext ==
  \/ \E t \in Tasks :
       Opened(t) \/ SendsNext(t) \/ Subscribed(t) \/ SendingFails(t)
  \/ Parsed
  \/ OtherStep
  \/ \E u \in Subscribers : Subscribe(u)

UpbitSpec == UpbitInit /\ [][UpbitNext]_upbitVars

------------------------------------------------------------------------------
\* While the connector is CONNECTED over an open socket every subscription it
\* holds has reached the exchange on that socket, or its subscribe() is still
\* sending it, or was cancelled in the send on that same socket: whatever
\* attempts failed, were cancelled, raced with each other, with disconnect() or
\* with the reconnection of the stream before, and whichever subscribe() was
\* cancelled on a socket before this one.
ServedWhenConnected ==
  state = CONNECTED /\ websocket \in open =>
    \A k \in DOMAIN subscriptions :
      k \in registered \cup abandoned \/ \E u \in Subscribers : sending[u] = k

\* No subscription is sent twice over one socket.
SentOncePerSocket == Registry!SentOnce

\* Over the real connector the registry behaves as UpbitConnector says it does
\* over an abstract one: in particular no attempt sends while another does, and
\* none begins on a connection that is up.
ImplementsRegistry == Registry!Spec

==============================================================================
