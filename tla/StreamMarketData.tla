--------------------------- MODULE StreamMarketData ---------------------------
(***************************************************************************)
(* The use case stream_market_data as a process: one task, Main, that      *)
(* validates the markets it is called with, starts the IngestionService,   *)
(* sleeps until it is interrupted and stops the service; the service and   *)
(* its only loop; the frames of the exchange the loop receives; and the    *)
(* KafkaProducerAdapter through which the loop publishes them. The loop is *)
(* the adapter's only publisher.                                           *)
(*                                                                         *)
(* The loop reads connector.config, which UpbitWebSocketConnector does not *)
(* have and the connector of the service's tests has. The use case builds  *)
(* the former, and the loop dies of its first message (UseCaseSpec).       *)
(* ProcessSpec is the pipeline over either: what it would publish is what  *)
(* it does over a connector like that of the tests.                        *)
(***************************************************************************)
EXTENDS Integers, MarketMessages, KafkaProducer, FiniteSetsExt

CONSTANTS
  Main,                    \* the task that runs the use case
  None,
  MaxConsecutiveFailures,  \* max_consecutive_failures
  Requests,                \* the sets of codes the use case may be called with
  Frames,                  \* the frames the exchange may send
  Now                      \* the time at which frames are received

ASSUME FramesAssumption ==
  \A frame \in Frames \ {Undecodable} :
    /\ DOMAIN frame \subseteq
         {"type", "code", "timestamp", "trade_timestamp", "trade_price",
          "ask_bid", "total_ask_size", "orderbook_units"}
    /\ \A key \in {"timestamp", "trade_timestamp"} \cap DOMAIN frame :
         frame[key] \in {Null, Text} \/ frame[key] \in Int
ASSUME RequestsAssumption ==
  \A codes \in Requests : \A code \in codes :
    DOMAIN code = {"market", "case"} /\ code.case \in Cases
ASSUME JsonAssumption ==
  /\ Now \in Int
  /\ Null # Text /\ Null \notin Int /\ Text \notin Int
  /\ Null \notin {"trade", "orderbook", "ASK", "BID", "ask", "bid"}
ASSUME PublishersAssumption == Publishers = {1}
ASSUME ServiceAssumption ==
  /\ MaxConsecutiveFailures \in Nat \ {0}
  /\ None # Main /\ None \notin Int

VARIABLES
  request,   \* subscribed_markets, as the use case is called
  useCase,   \* how far the use case is
  message,   \* the message the loop is publishing
  unsent,    \* what the flush of stop() returned, None if it raised
  socketLeft,  \* a cancelled start() left the socket of its connect() open
  serviceRunning, serviceLock, backgroundTask, consecutiveFailures, loop,
  connectorHasConfig, connected, mainPC, waitsFor

serviceVars ==
  <<serviceRunning, serviceLock, backgroundTask, consecutiveFailures, loop,
    connectorHasConfig, connected, mainPC, waitsFor>>
processVars ==
  <<request, useCase, message, unsent, socketLeft, serviceVars, vars>>

Service == INSTANCE IngestionService
  WITH Callers <- {Main}, MaxStarts <- 1, pc <- mainPC

markets == SubscribedMarkets(request)

ProcessTypeOK ==
  /\ TypeOK
  /\ Service!TypeOK
  /\ request \in Requests
  /\ useCase \in {"called", "refused", "starting", "streaming", "leaving",
                  "stopping", "ended"}
  /\ message = None \/ message.data_type \in {"TRADE", "ORDERBOOK"}
  /\ unsent = None \/ unsent \in 0 .. Cardinality(Messages)
  /\ socketLeft \in BOOLEAN

ProcessInit ==
  /\ Init
  /\ Service!Init
  /\ request \in Requests
  /\ useCase = "called"
  /\ message = None
  /\ unsent = None
  /\ socketLeft = FALSE

------------------------------------------------------------------------------
(* The use case                                                            *)

Validate ==
  /\ useCase = "called"
  /\ \/ /\ ~AcceptsMarkets(request)
        /\ useCase' = "refused"
        /\ UNCHANGED serviceVars
     \/ /\ AcceptsMarkets(request)
        /\ useCase' = "starting"
        /\ Service!CallStart(Main)
  /\ UNCHANGED <<request, message, unsent, socketLeft, vars>>

\* start() returns and Main sleeps, or it raises and Main leaves.
Start ==
  /\ useCase = "starting"
  /\ \/ Service!StartLocked(Main) /\ UNCHANGED useCase
     \/ Service!Started(Main) /\ useCase' = "streaming"
     \/ Service!StartFails(Main) /\ useCase' = "leaving"
  /\ UNCHANGED <<request, message, unsent, socketLeft, vars>>

\* The task is cancelled, in start(), where the lock is released, or asleep. A
\* connect() that is cancelled after its socket opened leaves it open, in the
\* state CONNECTING; before, there is none.
\* Bound: it is cancelled once, not again while it stops the service.
Interrupt ==
  /\ useCase' = "leaving"
  /\ \/ /\ useCase = "starting"
        /\ mainPC[Main] = "connecting"
        /\ serviceLock' = None
        /\ mainPC' = [mainPC EXCEPT ![Main] = "idle"]
        /\ socketLeft' \in BOOLEAN
        /\ UNCHANGED <<serviceRunning, backgroundTask, consecutiveFailures, loop,
                       connectorHasConfig, connected, waitsFor>>
     \/ /\ useCase = "streaming"
        /\ UNCHANGED <<serviceVars, socketLeft>>
  /\ UNCHANGED <<request, message, unsent, vars>>

\* finally: await service.stop()
Leave ==
  /\ useCase = "leaving"
  /\ useCase' = "stopping"
  /\ Service!CallStop(Main)
  /\ UNCHANGED <<request, message, unsent, socketLeft, vars>>

\* Cancelling the loop raises in the sleep of its publish(), if it is there.
CancelLoop ==
  \/ loop[1] = "publishing" /\ Cancel(1) /\ message' = None
  \/ loop[1] # "publishing" /\ UNCHANGED <<vars, message>>

\* The adapter's flush leaves some messages, or none, or raises, as it does on
\* an adapter that is closed; stop() logs which and goes on.
FlushAdapter ==
  /\ \/ Flush /\ unsent' = Cardinality(queue')
     \/ UNCHANGED vars /\ unsent' = None
  /\ UNCHANGED message

Stop ==
  /\ useCase = "stopping"
  /\ \/ /\ Service!StopLocked(Main) \/ Service!LoopEnded(Main) \/ Service!Disconnect(Main)
        /\ UNCHANGED <<vars, message, unsent>>
     \/ /\ Service!StopTimesOut(Main) \/ Service!CancelBackgroundTask(Main)
        /\ CancelLoop
        /\ UNCHANGED unsent
     \/ /\ Service!Flush(Main)
        /\ FlushAdapter
  /\ useCase' = IF mainPC'[Main] = "idle" THEN "ended" ELSE useCase
  /\ UNCHANGED <<request, socketLeft>>

------------------------------------------------------------------------------
(* The loop and the frames                                                 *)

\* A frame that is parsed and converted reaches the loop. It is published when
\* the service still runs, the filter passes it and it can be converted; a
\* frame that is skipped on the way changes nothing.
Deliver(frame) ==
  LET received == MarketDataMessage(frame, Now) IN
  /\ Parses(frame, markets)
  /\ Converts(frame)
  /\ Service!Receive(1)
  /\ \/ /\ loop'[1] # "publishing"
        /\ UNCHANGED <<message, vars>>
     \/ /\ loop'[1] = "publishing"
        /\ IsSubscribedMarket(received, markets)
        /\ ConvertsToProto(received)
        /\ message' = received
        /\ CallPublish(1)
  /\ UNCHANGED <<request, useCase, unsent, socketLeft>>

\* Mutant: a message whose publish() raised is not counted and stays.
PublishRetried ==
  /\ Attempt(1) \/ Wake(1)
  /\ \/ /\ pc'[1] # "idle" \/ outcome'[Message(1)] = "raised"
        /\ UNCHANGED <<serviceVars, message>>
     \/ /\ pc'[1] = "idle"
        /\ outcome'[Message(1)] = "returned"
        /\ Service!Published(1)
        /\ message' = None
  /\ UNCHANGED <<request, useCase, unsent, socketLeft>>

\* An attempt of publish(), or the end of its sleep. When publish() ends with
\* it the loop resets, or counts and perhaps gives up.
Publish ==
  /\ Attempt(1) \/ Wake(1)
  /\ \/ /\ pc'[1] # "idle"
        /\ UNCHANGED <<serviceVars, message>>
     \/ /\ pc'[1] = "idle"
        /\ outcome'[Message(1)] = "returned"
        /\ Service!Published(1)
        /\ message' = None
     \/ /\ pc'[1] = "idle"
        /\ outcome'[Message(1)] = "raised"
        /\ Service!PublishFails(1)
        /\ message' = None
  /\ UNCHANGED <<request, useCase, unsent, socketLeft>>

ConnectionChanges ==
  /\ \/ Service!ConnectionLost
     \/ Service!StreamReconnects(1)
     \/ Service!StreamGivesUp(1)
  /\ UNCHANGED <<request, useCase, message, unsent, socketLeft, vars>>

\* The broker answers. The use case keeps its adapter to itself and never closes
\* it; close() at any time is added, for a service whose adapter is shared.
AdapterChanges ==
  /\ (\E m \in Messages : Answer(m)) \/ Close
  /\ UNCHANGED <<request, useCase, message, unsent, socketLeft, serviceVars>>

MainStep == Validate \/ Start \/ Leave \/ Stop

ProcessNext ==
  \/ MainStep
  \/ Interrupt
  \/ \E frame \in Frames : Deliver(frame)
  \/ Publish
  \/ ConnectionChanges
  \/ AdapterChanges

ProcessSpec == ProcessInit /\ [][ProcessNext]_processVars

\* The process as the use case builds it, over UpbitWebSocketConnector.
UseCaseSpec ==
  /\ ProcessInit /\ ~connectorHasConfig
  /\ [][ProcessNext]_processVars

\* Main runs when it can: the waits of start() and stop() end. A publish() that
\* is ready runs and its sleep ends. The broker may never answer.
FairProcess ==
  /\ ProcessSpec
  /\ SF_processVars(MainStep)
  /\ WF_processVars(Publish)

------------------------------------------------------------------------------
\* The frames of Upbit as the mapper's documentation lists them: positive
\* times, at least the one that is required, and words in upper case.
InUpbitFormat(frame) ==
  /\ MapperAccepts(frame)
  /\ \A key \in {"timestamp", "trade_timestamp"} \cap DOMAIN frame :
       frame[key] \notin {Null, 0}
  /\ Get(frame, "ask_bid", "ASK") \in {"ASK", "BID"}

\* What the loop publishes of a frame, through a MarketDataMessage, is what the
\* converter of the repository makes of the frame itself, with the code in
\* upper case: two programs for the same job agree. Except for the levels of
\* an order book, which the service reads from keys that no frame has.
PublishedAsMapped ==
  message # None /\ InUpbitFormat(message.raw_data) =>
    LET frame == message.raw_data
        value == ConvertToProtobuf(message)
    IN
    value =
      IF TopicForMessage(message) = "upbit.trades.v1"
      THEN [JsonToTradeProto(frame, Now) EXCEPT !.code = message.code]
      ELSE [JsonToOrderbookProto(frame, Now) EXCEPT
              !.code = message.code, !.asks = value.asks, !.bids = value.bids]

\* validate() is never called, and yet only messages it would pass reach Kafka:
\* the checks of the use case, the configuration and the parser imply its rules,
\* except that the exchange's clock may be ahead of ours.
OnlyValidPublished ==
  message # None =>
    /\ \E code \in request : Upper(code) = message.code
    /\ IsValid(message) \/ EventMillis(message.raw_data) > Now

\* When the use case has ended the loop has too, and what is left open is known:
\* a connection, when the loop raised and stop() was left before its disconnect;
\* a socket, when start() was cancelled after it opened and before there was a
\* loop, so that stop() had nothing to stop.
QuietAtEnd ==
  useCase = "ended" =>
    /\ loop[1] \notin Service!Alive
    /\ connected => loop[1] = "raised"
    /\ socketLeft => loop[1] = "none"

\* The counter of the service agrees with what the adapter did: it is the
\* number of messages whose publish() raised since the last one that was
\* accepted. One that was cancelled in its sleep is not a failure.
FailuresInARow ==
  loop[1] # "cancelled" =>
    LET ended == {k \in 1 .. sent[1] : outcome[<<1, k>>] # "none"}
        accepts == {k \in ended : outcome[<<1, k>>] = "returned"}
    IN consecutiveFailures = Cardinality({k \in ended : k > Max({0} \cup accepts)})

\* What publish() accepted is answered for by the broker once the use case has
\* ended and its flush has said that nothing is left, whatever retries, the
\* timeout of stop() and the closing of the adapter did meanwhile.
NothingUnsentAtEnd ==
  useCase = "ended" /\ unsent = 0 => queue = {}

\* Once interrupted, or failed to start, the use case ends, even when the queue
\* stays full or the adapter is closed.
InterruptEnds == useCase = "leaving" ~> useCase = "ended"

==============================================================================
