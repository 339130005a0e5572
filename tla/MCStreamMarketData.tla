-------------------------- MODULE MCStreamMarketData --------------------------
(* A small instance of StreamMarketData for TLC: two markets of which one is *)
(* KRW-, frames with every combination of times, and one of each oddity.     *)
EXTENDS StreamMarketData, TLC

CONSTANTS btc, usdt

MCKrwMarkets == {btc}

Code(market, case) == [market |-> market, case |-> case]

MCRequests ==
  {{}, {Code(btc, "upper")}, {Code(btc, "mixed")}, {Code(btc, "lower")},
   {Code(usdt, "upper")}, {Code(btc, "upper"), Code(usdt, "upper")}}

MCNow == 3

Trade == [type |-> "trade", code |-> Code(btc, "upper"),
          ask_bid |-> "ASK", trade_price |-> 7]

Book == [type |-> "orderbook", code |-> Code(btc, "upper"),
         total_ask_size |-> 7,
         orderbook_units |-> <<[ask_price |-> 8, ask_size |-> 1,
                                bid_price |-> 6, bid_size |-> 2]>>]

Times(key) == {<<>>} \cup {key :> time : time \in {Null, Text, 0, 2, 4}}

MCFrames ==
  { Trade @@ t @@ u : t \in Times("trade_timestamp"),
                      u \in {<<>>, "timestamp" :> 1} }
  \cup { Book @@ t : t \in Times("timestamp") }
  \cup { ("total_ask_size" :> Text) @@ Book }
  \cup { change @@ Trade @@ ("timestamp" :> 1) :
           change \in {"ask_bid" :> "ask", "trade_price" :> Null,
                       "trade_price" :> Text, "type" :> "ticker",
                       "code" :> Null, "code" :> Code(btc, "lower"),
                       "code" :> Code(usdt, "upper")} }
  \cup { Undecodable }

==============================================================================
