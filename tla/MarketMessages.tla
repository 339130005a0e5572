---------------------------- MODULE MarketMessages ----------------------------
(***************************************************************************)
(* What becomes of one frame of the exchange on its way to Kafka: the      *)
(* parser and the converter of UpbitWebSocketConnector, MarketDataMessage, *)
(* the filter and the protobuf conversion of IngestionService; and beside  *)
(* it json_to_trade_proto and json_to_orderbook_proto, the converter the   *)
(* repository has for the same frames and does not use on that way.        *)
(*                                                                         *)
(* Abstracted: a JSON object is a function from the keys it has to their   *)
(* values, a market code is a market and the case it is written in, and    *)
(* trade_price and total_ask_size stand for all the figures of their kind  *)
(* of frame, ask_bid for the words (change is treated alike). An instant   *)
(* is a number: the two routes from milliseconds to a protobuf Timestamp,  *)
(* over datetime and by division, are both exact.                          *)
(***************************************************************************)
EXTENDS Naturals, Sequences

CONSTANTS
  KrwMarkets,    \* markets whose code, in upper case, begins with KRW-
  Null,          \* JSON null, None
  Text,          \* the number 1, sent as a string
  Undecodable    \* a frame that is not UTF-8, not JSON or not an object

\* dict.get(key, default)
Get(dict, key, default) == IF key \in DOMAIN dict THEN dict[key] ELSE default

------------------------------------------------------------------------------
(* Market codes and the configuration                                      *)

Cases == {"upper", "mixed", "lower"}   \* KRW-BTC, KRW-btc, krw-btc

Upper(code) == [code EXCEPT !.case = "upper"]

BeginsWithKrw(code) ==
  code.market \in KrwMarkets /\ code.case \in {"upper", "mixed"}

\* Mutant: the use case leaves the codes to the exchange.
AcceptsAnyMarket(codes) == codes # {}

\* The use case refuses an empty set and any code that is not KRW-.
AcceptsMarkets(codes) ==
  /\ codes # {}
  /\ \A code \in codes : BeginsWithKrw(code)

\* create_upbit_config and ExchangeConfig: subscribed_markets.
SubscribedMarkets(codes) == {Upper(code) : code \in codes}

------------------------------------------------------------------------------
(* UpbitWebSocketConnector                                                 *)

\* The frames _parse_message does not drop.
Parses(frame, markets) ==
  /\ frame # Undecodable
  /\ Get(frame, "type", Null) \in {"trade", "orderbook"}
  /\ Get(frame, "code", Null) # Null
  /\ Upper(frame.code) \in markets

\* Mutant: the general timestamp is preferred.
EventMillisGeneral(frame) ==
  Get(frame, "timestamp", Get(frame, "trade_timestamp", Null))

\* trade_timestamp counts for a trade whenever the key is there, even if null.
EventMillis(frame) ==
  IF frame.type = "trade"
  THEN Get(frame, "trade_timestamp", Get(frame, "timestamp", Null))
  ELSE Get(frame, "timestamp", Null)

\* The division of a string raises InvalidMessageError: the frame is skipped.
Converts(frame) == EventMillis(frame) # Text

\* A frame without a time, or with time 0, happened when it was received.
MarketDataMessage(frame, now) ==
  [ exchange           |-> "upbit",
    data_type          |-> IF frame.type = "trade" THEN "TRADE" ELSE "ORDERBOOK",
    code               |-> Upper(frame.code),
    received_timestamp |-> now,
    event_timestamp    |-> IF EventMillis(frame) \in {Null, 0}
                           THEN now ELSE EventMillis(frame),
    stream_type        |-> "REALTIME",
    raw_data           |-> frame ]

\* MarketDataMessage.validate, which nothing on the way to Kafka calls. Its rule
\* that both times are in UTC is left out: the parser makes no others.
IsValid(message) ==
  /\ message.exchange # ""
  /\ BeginsWithKrw(Upper(message.code))
  /\ message.event_timestamp <= message.received_timestamp
  /\ DOMAIN message.raw_data # {}

------------------------------------------------------------------------------
(* IngestionService                                                        *)

IsSubscribedMarket(message, markets) == message.code \in markets

\* None leaves a field of a protobuf message unset.
Figure(value) == IF value = Null THEN 0 ELSE value

AskBidMap == [ASK |-> "ASK", BID |-> "BID"]

\* A string where the protobuf message of its kind has a number raises TypeError.
ConvertsToProto(message) ==
  LET key == IF message.data_type = "TRADE" THEN "trade_price"
                                            ELSE "total_ask_size"
  IN  Get(message.raw_data, key, 0) # Text

TradeProto(message) ==
  [ exchange           |-> "UPBIT",
    code               |-> message.code,
    trade_price        |-> Figure(Get(message.raw_data, "trade_price", 0)),
    ask_bid            |-> Get(AskBidMap, Get(message.raw_data, "ask_bid", ""),
                               "UNSPECIFIED"),
    trade_timestamp    |-> message.event_timestamp,
    stream_type        |-> message.stream_type,
    received_timestamp |-> message.received_timestamp ]

\* The levels are read from keys that no frame of Upbit has.
OrderbookProto(message) ==
  LET Level(level) == [price |-> Get(level, "price", 0),
                       size  |-> Get(level, "size", 0)]
      Levels(key) == LET levels == Get(message.raw_data, key, <<>>)
                     IN  [i \in 1 .. Len(levels) |-> Level(levels[i])]
  IN
  [ exchange           |-> "UPBIT",
    code               |-> message.code,
    total_ask_size     |-> Figure(Get(message.raw_data, "total_ask_size", 0)),
    asks               |-> Levels("asks"),
    bids               |-> Levels("bids"),
    stream_type        |-> message.stream_type,
    event_timestamp    |-> message.event_timestamp,
    received_timestamp |-> message.received_timestamp ]

ConvertToProtobuf(message) ==
  IF message.data_type = "TRADE" THEN TradeProto(message)
                                 ELSE OrderbookProto(message)

TopicForMessage(message) ==
  IF message.data_type = "TRADE" THEN "upbit.trades.v1"
                                 ELSE "upbit.orderbooks.v1"

------------------------------------------------------------------------------
(* protobuf_mapper                                                         *)

\* float() and int() also take a number that is sent as a string.
Number(value) == IF value = Text THEN 1 ELSE Figure(value)

\* The words are compared in upper case.
MapperAskBidMap == [ASK |-> "ASK", BID |-> "BID", ask |-> "ASK", bid |-> "BID"]

FirstOf(frame, key, other) ==
  IF Get(frame, key, Null) # Null THEN frame[key] ELSE Get(frame, other, Null)

MapperMillis(frame) ==
  IF frame.type = "trade" THEN FirstOf(frame, "trade_timestamp", "timestamp")
                          ELSE FirstOf(frame, "timestamp", "event_timestamp")

\* ValueError without a code or a time.
MapperAccepts(frame) ==
  Get(frame, "code", Null) # Null /\ MapperMillis(frame) # Null

JsonToTradeProto(frame, now) ==
  [ exchange           |-> "UPBIT",
    code               |-> frame.code,
    trade_price        |-> Number(Get(frame, "trade_price", Null)),
    ask_bid            |-> Get(MapperAskBidMap, Get(frame, "ask_bid", Null),
                               "UNSPECIFIED"),
    trade_timestamp    |-> Number(MapperMillis(frame)),
    stream_type        |-> "REALTIME",
    received_timestamp |-> now ]

\* One ask and one bid of every unit that has the price and the size of it.
JsonToOrderbookProto(frame, now) ==
  LET units == Get(frame, "orderbook_units", <<>>)
      Side(price, size) ==
        LET Has(unit) == Get(unit, price, Null) # Null
                         /\ Get(unit, size, Null) # Null
            with == SelectSeq(units, Has)
        IN  [i \in 1 .. Len(with) |->
               [price |-> with[i][price], size |-> with[i][size]]]
  IN
  [ exchange           |-> "UPBIT",
    code               |-> frame.code,
    total_ask_size     |-> Number(Get(frame, "total_ask_size", Null)),
    asks               |-> Side("ask_price", "ask_size"),
    bids               |-> Side("bid_price", "bid_size"),
    stream_type        |-> "REALTIME",
    event_timestamp    |-> Number(MapperMillis(frame)),
    received_timestamp |-> now ]

==============================================================================
