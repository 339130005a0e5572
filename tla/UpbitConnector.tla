---------------------------- MODULE UpbitConnector ----------------------------
(***************************************************************************)
(* The subscription registry of UpbitWebSocketConnector: the subscriptions *)
(* it seeds on the first connection and sends again on every later one,    *)
(* the ones subscribe() adds while the connection is used, and the parser  *)
(* that decides which messages are yielded and marks subscriptions ACTIVE. *)
(*                                                                         *)
(* connect() itself is BaseWebSocket's: here a connection attempt opens a  *)
(* socket, runs _send_subscription_message and succeeds or does not, and   *)
(* the socket closes, is dropped or replaced at any time. What is kept of  *)
(* the exchange (external) is what it received on the current socket.      *)
(***************************************************************************)
EXTENDS Naturals, Sequences

CONSTANTS
  Markets,          \* config.subscribed_markets
  Codes,            \* the market codes subscribe() may be called with
  Subscribers,      \* tasks that call subscribe()
  MaxSubscriptions  \* bound: no subscribe() once the registry is this long

VARIABLES
  subscriptions,  \* _subscriptions in insertion order; the ticket is the index
  websocket,      \* "none", "open", or "closed" and not cleaned up yet
  attempt,        \* where the connection attempt is
  position,       \* the ticket the attempt is sending
  size,           \* the size of the registry when the resending began
  registered,     \* tickets the exchange received on the current socket
  sending,        \* per subscriber: the ticket it is sending, or 0
  abandoned       \* tickets whose subscribe() was cancelled on this socket

sendVars == <<position, size>>
socketVars == <<registered, sending, abandoned>>
vars == <<subscriptions, websocket, attempt, sendVars, socketVars>>

SubTypes == {"trade", "orderbook"}
Statuses == {"REQUESTED", "ACTIVE"}
SendingPCs == {"seedTrade", "seedOrderbook", "resend"}

Entries ==
  [sub_type : SubTypes, codes : (SUBSET Codes) \ {{}}, status : Statuses]

Tickets == DOMAIN subscriptions

TypeOK ==
  /\ subscriptions \in Seq(Entries)
  /\ websocket \in {"none", "open", "closed"}
  /\ attempt \in {"down", "up"} \cup SendingPCs
  /\ position \in Nat
  /\ size \in Nat
  /\ registered \subseteq Tickets
  /\ sending \in [Subscribers -> Tickets \cup {0}]
  /\ abandoned \subseteq Tickets

Init ==
  /\ subscriptions = <<>>
  /\ websocket = "none"
  /\ attempt = "down"
  /\ position = 0
  /\ size = 0
  /\ registered = {}
  /\ sending = [u \in Subscribers |-> 0]
  /\ abandoned = {}

------------------------------------------------------------------------------
(* _store_subscription: the entry is in the registry before it is sent.    *)

Store(type, codes) ==
  subscriptions' =
    Append(subscriptions, [sub_type |-> type, codes |-> codes, status |-> "REQUESTED"])

\* Mutant: tickets are counted from the wrong end of the registry.
NewTicketSkips == Len(subscriptions) + 2

NewTicket == Len(subscriptions) + 1

\* A socket that closed, or is not the connector's any more: the sends on it
\* raise, or return and register nothing.
SocketLost ==
  /\ registered' = {}
  /\ sending' = [u \in Subscribers |-> 0]
  /\ abandoned' = {}

------------------------------------------------------------------------------
(* _send_subscription_message                                              *)

\* Mutant: every connection seeds, whatever the registry holds.
SendAllSeeds ==
  /\ SocketLost
  /\ Store("trade", Markets)
  /\ attempt' = "seedTrade"
  /\ position' = NewTicket
  /\ UNCHANGED size

\* On a socket that was just opened an empty registry is seeded, trade first;
\* any other is sent again from its first entry.
SendAll ==
  /\ SocketLost
  /\ \/ /\ subscriptions = <<>>
        /\ Store("trade", Markets)
        /\ attempt' = "seedTrade"
        /\ position' = NewTicket
        /\ UNCHANGED size
     \/ /\ subscriptions # <<>>
        /\ attempt' = "resend"
        /\ position' = 1
        /\ size' = Len(subscriptions)
        /\ UNCHANGED subscriptions

\* The attempt's send() returned: the exchange has the ticket.
Sent ==
  /\ websocket = "open"
  /\ registered' = registered \cup {position}
  /\ UNCHANGED <<sending, abandoned>>

TradeSeeded ==
  /\ attempt = "seedTrade"
  /\ Sent
  /\ Store("orderbook", Markets)
  /\ position' = NewTicket
  /\ attempt' = "seedOrderbook"
  /\ UNCHANGED size

OrderbookSeeded ==
  /\ attempt = "seedOrderbook"
  /\ Sent
  /\ attempt' = "up"
  /\ UNCHANGED <<subscriptions, sendVars>>

\* Mutant: the loop goes on over entries added since it began.
ResendNextGrowing ==
  /\ attempt = "resend"
  /\ Sent
  /\ \/ /\ position < Len(subscriptions)
        /\ position' = position + 1
        /\ UNCHANGED attempt
     \/ /\ position = Len(subscriptions)
        /\ attempt' = "up"
        /\ UNCHANGED position
  /\ UNCHANGED <<subscriptions, size>>

\* The loop over the dictionary goes on, or is over. When subscribe() grew the
\* dictionary under it the next iteration raises RuntimeError instead.
ResendNext ==
  /\ attempt = "resend"
  /\ Sent
  /\ Len(subscriptions) = size
  /\ \/ /\ position < size
        /\ position' = position + 1
        /\ UNCHANGED attempt
     \/ /\ position = size
        /\ attempt' = "up"
        /\ UNCHANGED position
  /\ UNCHANGED <<subscriptions, size>>

\* The sending ends early: a send raises, the dictionary grew, the task is
\* cancelled. The entry that was being sent may have been received. Without a
\* socket the send that follows the trade entry's raises after the other is
\* stored; and one that was the last returns, on a socket nobody refers to.
SendingEnds ==
  /\ attempt \in SendingPCs
  /\ attempt' = "down"
  /\ \/ UNCHANGED <<subscriptions, registered>>
     \/ websocket = "open" /\ registered' = registered \cup {position}
        /\ UNCHANGED subscriptions
     \/ websocket = "none" /\ attempt = "seedTrade" /\ Store("orderbook", Markets)
        /\ UNCHANGED registered
  /\ UNCHANGED <<sendVars, sending, abandoned>>

------------------------------------------------------------------------------
(* The life of the socket and of the connection.                           *)

Open ==
  /\ attempt = "down"
  /\ websocket' = "open"
  /\ SendAll

SendingStep ==
  /\ TradeSeeded \/ OrderbookSeeded \/ ResendNext \/ SendingEnds
  /\ UNCHANGED websocket

SocketCloses ==
  /\ websocket = "open"
  /\ websocket' = "closed"
  /\ SocketLost
  /\ attempt' = IF attempt = "up" THEN "down" ELSE attempt
  /\ UNCHANGED <<subscriptions, sendVars>>

\* _cleanup lets go of the socket it closed, or of a newer one.
Cleanup ==
  /\ websocket # "none"
  /\ websocket' = "none"
  /\ SocketLost
  /\ attempt' = IF attempt = "up" THEN "down" ELSE attempt
  /\ UNCHANGED <<subscriptions, sendVars>>

\* The connection is not CONNECTED any more, its socket still there.
Left ==
  /\ attempt = "up"
  /\ attempt' = "down"
  /\ UNCHANGED <<subscriptions, websocket, sendVars, socketVars>>

------------------------------------------------------------------------------
(* subscribe()                                                             *)

\* Stored, then sent: on a socket that is closed but still referenced the send
\* raises and the entry stays. Without a socket subscribe() raises at once.
Subscribe(u, type, codes) ==
  /\ sending[u] = 0
  /\ websocket # "none"
  /\ Len(subscriptions) < MaxSubscriptions
  /\ Store(type, codes)
  /\ sending' = IF websocket = "open" THEN [sending EXCEPT ![u] = NewTicket]
                ELSE sending
  /\ UNCHANGED <<websocket, attempt, sendVars, registered, abandoned>>

SubscribeSent(u) ==
  /\ sending[u] # 0
  /\ websocket = "open"
  /\ registered' = registered \cup {sending[u]}
  /\ sending' = [sending EXCEPT ![u] = 0]
  /\ UNCHANGED <<subscriptions, websocket, attempt, sendVars, abandoned>>

\* Its task is cancelled in the send, on a socket that stays open: the exchange
\* may have the ticket or not, and the entry stays. Only the next connection
\* sends it again.
SubscribeCancelled(u) ==
  /\ sending[u] # 0
  /\ websocket = "open"
  /\ registered' \in {registered, registered \cup {sending[u]}}
  /\ sending' = [sending EXCEPT ![u] = 0]
  /\ abandoned' = abandoned \cup {sending[u]}
  /\ UNCHANGED <<subscriptions, websocket, attempt, sendVars>>

------------------------------------------------------------------------------
(* _parse_message and _mark_active_for                                     *)

Matches(k, type, code) ==
  subscriptions[k].sub_type = type /\ code \in subscriptions[k].codes

\* A message for a configured market is received: every subscription of its
\* type and code becomes ACTIVE. One for any other code is dropped.
MarkActive(type, code) ==
  subscriptions' =
    [k \in Tickets |->
       IF Matches(k, type, code) THEN [subscriptions[k] EXCEPT !.status = "ACTIVE"]
       ELSE subscriptions[k]]

Message(type, code) ==
  /\ code \in Markets
  /\ MarkActive(type, code)
  /\ UNCHANGED <<websocket, attempt, sendVars, socketVars>>

------------------------------------------------------------------------------
Next ==
  \/ Open
  \/ SendingStep
  \/ SocketCloses
  \/ Cleanup
  \/ Left
  \/ \E u \in Subscribers :
       \/ SubscribeSent(u)
       \/ SubscribeCancelled(u)
       \/ \E type \in SubTypes, code \in Codes : Subscribe(u, type, {code})
  \/ \E type \in SubTypes, code \in Codes : Message(type, code)

Spec == Init /\ [][Next]_vars

------------------------------------------------------------------------------
\* A connection that is up serves the whole registry: after any failures,
\* reconnections and subscribe() calls, every entry has reached the exchange on
\* the current socket, or the subscribe() that made it is still sending it, or
\* was cancelled doing so on this very socket: no other entry is ever left out.
RestoredWhenUp ==
  attempt = "up" =>
    \A k \in Tickets :
      k \in registered \cup abandoned \/ \E u \in Subscribers : sending[u] = k

\* No ticket is sent twice over one socket: what is being sent, by the attempt
\* or by a subscribe(), has not been sent on it and nobody else is sending it.
SentOnce ==
  /\ attempt \in SendingPCs /\ websocket = "open" =>
       /\ position \notin registered
       /\ \A u \in Subscribers : sending[u] # position
  /\ \A u, v \in Subscribers :
       sending[u] # 0 =>
         /\ sending[u] \notin registered
         /\ sending[v] = sending[u] => u = v

\* Connecting with an empty registry leaves both a trade and an orderbook
\* subscription for the configured markets: once up, both are there.
SeedsBothTypes ==
  attempt = "up" =>
    \A type \in SubTypes :
      \E k \in Tickets :
        subscriptions[k].sub_type = type /\ subscriptions[k].codes = Markets

==============================================================================
