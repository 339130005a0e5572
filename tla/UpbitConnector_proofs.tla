------------------------ MODULE UpbitConnector_proofs ------------------------
(***************************************************************************)
(* Theorems about the subscription registry of UpbitConnector, for every   *)
(* set of subscribers and codes and every length of the registry.          *)
(***************************************************************************)
EXTENDS UpbitConnector, SequenceTheorems, TLAPS

\* What the configuration provides: at least one market, all of them codes.
MarketsKnown == Markets # {} /\ Markets \subseteq Codes

\* The tickets the attempt has still to send.
Pending ==
  IF attempt = "resend" THEN position..size
  ELSE IF attempt \in {"seedTrade", "seedOrderbook"} THEN {position}
  ELSE {}

\* What was sent, and what is being sent, goes with the socket.
LostWithSocket ==
  websocket # "open" =>
    /\ attempt # "up"
    /\ registered = {} /\ abandoned = {}
    /\ \A u \in Subscribers : sending[u] = 0

\* The attempt sends tickets the registry has.
SendsTickets ==
  /\ attempt \in {"seedTrade", "seedOrderbook"} => position \in Tickets
  /\ attempt = "resend" =>
       /\ position \in 1..size
       /\ size <= Len(subscriptions)

\* Once an attempt sends over a socket, every ticket is on its way or there,
\* or its subscribe() was cancelled on it.
Covered ==
  websocket = "open" /\ attempt # "down" =>
    \A k \in Tickets :
      \/ k \in registered \cup abandoned \cup Pending
      \/ \E u \in Subscribers : sending[u] = k

\* Nothing is on its way twice.
Apart ==
  /\ websocket = "open" =>
       /\ Pending \cap registered = {}
       /\ \A u \in Subscribers : sending[u] \notin Pending
  /\ \A u, v \in Subscribers :
       sending[u] # 0 =>
         /\ sending[u] \notin registered
         /\ sending[v] = sending[u] => u = v

RegistryInv ==
  /\ TypeOK
  /\ LostWithSocket
  /\ SendsTickets
  /\ Covered
  /\ Apart

LEMMA RegistryInit == Init => RegistryInv
  BY DEF Init, RegistryInv, TypeOK, LostWithSocket, SendsTickets, Covered,
         Apart,
         Pending, Tickets, SendingPCs

\* A stored subscription takes the next ticket; the others keep theirs.
LEMMA Stored ==
  ASSUME subscriptions \in Seq(Entries), NEW type \in SubTypes,
         NEW codes \in (SUBSET Codes) \ {{}}, Store(type, codes)
  PROVE  /\ subscriptions' \in Seq(Entries)
         /\ Len(subscriptions') = Len(subscriptions) + 1
         /\ Tickets = 1..Len(subscriptions)
         /\ Tickets' = 1..(Len(subscriptions) + 1)
         /\ NewTicket = Len(subscriptions) + 1
         /\ NewTicket \in Nat /\ NewTicket # 0
         /\ NewTicket \notin Tickets
         /\ Tickets' = Tickets \cup {NewTicket}
<1>1. [sub_type |-> type, codes |-> codes, status |-> "REQUESTED"] \in Entries
  BY DEF Entries, Statuses
<1> QED
  BY <1>1 DEF Store, Tickets, NewTicket

LEMMA RegistryNext ==
  ASSUME MarketsKnown
  PROVE  RegistryInv /\ [Next]_vars => RegistryInv'
<1> SUFFICES ASSUME RegistryInv, [Next]_vars
             PROVE  RegistryInv'
  OBVIOUS
<1> USE DEF RegistryInv, SendingPCs, socketVars
<1>m. /\ Markets \in (SUBSET Codes) \ {{}}
      /\ "trade" \in SubTypes /\ "orderbook" \in SubTypes
  BY DEF MarketsKnown, SubTypes
<1>t. /\ Len(subscriptions) \in Nat
      /\ Tickets = 1..Len(subscriptions)
  BY DEF TypeOK, Tickets
<1>1. CASE Open
  <2>1. CASE subscriptions = <<>>
    BY <1>t, <1>m, <1>1, <2>1, Stored
       DEF Open, SendAll, SocketLost, TypeOK, LostWithSocket, SendsTickets,
           Covered, Apart, Pending, Tickets, sendVars
  <2>2. CASE subscriptions # <<>>
    <3>1. Len(subscriptions) # 0
      BY <2>2, EmptySeq DEF TypeOK
    <3> QED
      BY <1>t, <1>1, <2>2, <3>1
         DEF Open, SendAll, SocketLost, TypeOK, LostWithSocket, SendsTickets,
             Covered, Apart, Pending, Tickets, sendVars
  <2> QED
    BY <2>1, <2>2
<1>2. CASE TradeSeeded /\ UNCHANGED websocket
  <2>1. Store("orderbook", Markets) /\ position' = NewTicket
    BY <1>2 DEF TradeSeeded
  <2> QED
    BY <1>t, <1>m, <1>2, <2>1, Stored
       DEF TradeSeeded, Sent, TypeOK, LostWithSocket, SendsTickets, Covered,
           Apart, Pending, Tickets, sendVars
<1>3. CASE OrderbookSeeded /\ UNCHANGED websocket
  BY <1>t, <1>3
     DEF OrderbookSeeded, Sent, TypeOK, LostWithSocket, SendsTickets, Covered,
         Apart, Pending, Tickets, sendVars
<1>4. CASE ResendNext /\ UNCHANGED websocket
  <2>1. CASE attempt' = "up"
    BY <1>t, <1>4, <2>1
       DEF ResendNext, Sent, TypeOK, LostWithSocket, SendsTickets, Covered,
           Apart, Pending, Tickets, sendVars
  <2>2. CASE attempt' = "resend"
    BY <1>t, <1>4, <2>2
       DEF ResendNext, Sent, TypeOK, LostWithSocket, SendsTickets, Covered,
           Apart, Pending, Tickets, sendVars
  <2> QED
    BY <1>4, <2>1, <2>2 DEF ResendNext
<1>5. CASE SendingEnds /\ UNCHANGED websocket
  <2>1. CASE UNCHANGED <<subscriptions, registered>>
    BY <1>t, <1>5, <2>1
       DEF SendingEnds, TypeOK, LostWithSocket, SendsTickets, Covered, Apart,
           Pending, Tickets, sendVars
  <2>2. CASE /\ websocket = "open"
             /\ registered' = registered \cup {position}
             /\ UNCHANGED subscriptions
    BY <1>t, <1>5, <2>2
       DEF SendingEnds, TypeOK, LostWithSocket, SendsTickets, Covered, Apart,
           Pending, Tickets, sendVars
  <2>3. CASE /\ Store("orderbook", Markets)
             /\ websocket = "none"
             /\ UNCHANGED registered
    BY <1>t, <1>m, <1>5, <2>3, Stored
       DEF SendingEnds, TypeOK, LostWithSocket, SendsTickets, Covered, Apart,
           Pending, Tickets, sendVars
  <2> QED
    BY <1>5, <2>1, <2>2, <2>3 DEF SendingEnds
<1>6. CASE SocketCloses
  BY <1>t, <1>6
     DEF SocketCloses, SocketLost, TypeOK, LostWithSocket, SendsTickets,
         Covered, Apart, Pending, Tickets, sendVars
<1>7. CASE Cleanup
  BY <1>t, <1>7
     DEF Cleanup, SocketLost, TypeOK, LostWithSocket, SendsTickets, Covered,
         Apart, Pending, Tickets, sendVars
<1>8. CASE Left
  BY <1>t, <1>8
     DEF Left, TypeOK, LostWithSocket, SendsTickets, Covered, Apart, Pending,
         Tickets, sendVars
<1>9. ASSUME NEW u \in Subscribers, SubscribeSent(u)
      PROVE  RegistryInv'
  BY <1>t, <1>9
     DEF SubscribeSent, TypeOK, LostWithSocket, SendsTickets, Covered, Apart,
         Pending, Tickets, sendVars
<1>10. ASSUME NEW u \in Subscribers, SubscribeCancelled(u)
       PROVE  RegistryInv'
  BY <1>t, <1>10
     DEF SubscribeCancelled, TypeOK, LostWithSocket, SendsTickets, Covered,
         Apart, Pending, Tickets, sendVars
<1>11. ASSUME NEW u \in Subscribers, NEW type \in SubTypes, NEW code \in Codes,
              Subscribe(u, type, {code})
       PROVE  RegistryInv'
  <2>1. {code} \in (SUBSET Codes) \ {{}} /\ Store(type, {code})
    BY <1>11 DEF Subscribe
  <2>2. CASE websocket = "open"
    <3>1. /\ sending' = [sending EXCEPT ![u] = NewTicket]
          /\ sending[u] = 0
          /\ UNCHANGED <<websocket, attempt, position, size, registered,
                         abandoned>>
      BY <1>11, <2>2 DEF Subscribe, sendVars
    <3>2. /\ sending'[u] = NewTicket
          /\ \A v \in Subscribers \ {u} : sending'[v] = sending[v]
      BY <3>1 DEF TypeOK
    <3>3. /\ Tickets' = Tickets \cup {NewTicket} /\ NewTicket \notin Tickets
          /\ subscriptions' \in Seq(Entries)
          /\ Len(subscriptions') = Len(subscriptions) + 1
          /\ NewTicket = Len(subscriptions) + 1
      BY <2>1, Stored DEF TypeOK
    <3>4. TypeOK' /\ LostWithSocket' /\ SendsTickets'
      BY <1>t, <2>2, <3>1, <3>3 DEF TypeOK, LostWithSocket, SendsTickets
    <3>5. Pending' = Pending
      BY <3>1 DEF Pending
    <3>6. Covered'
      <4>1. SUFFICES ASSUME attempt # "down", NEW k \in Tickets'
                     PROVE  \/ k \in registered \cup abandoned \cup Pending
                            \/ \E v \in Subscribers : sending'[v] = k
        BY <2>2, <3>1, <3>5 DEF Covered
      <4>2. CASE k = NewTicket
        BY <3>2, <4>2
      <4>3. CASE k \in Tickets
        BY <1>t, <2>2, <3>1, <3>2, <4>1, <4>3 DEF Covered
      <4> QED
        BY <3>3, <4>2, <4>3
    <3>7. Pending \subseteq Tickets
      BY <1>t, <2>2 DEF Pending, SendsTickets, TypeOK
    <3>8. Apart'
      BY <1>t, <2>2, <3>1, <3>2, <3>3, <3>5, <3>7 DEF Apart, TypeOK
    <3> QED
      BY <3>4, <3>6, <3>8
  <2>3. CASE websocket # "open"
    BY <1>t, <1>11, <2>1, <2>3, Stored
       DEF Subscribe, TypeOK, LostWithSocket, SendsTickets, Covered, Apart,
           Pending, Tickets, sendVars
  <2> QED
    BY <2>2, <2>3
<1>12. ASSUME NEW type \in SubTypes, NEW code \in Codes, Message(type, code)
       PROVE  RegistryInv'
  <2>1. /\ subscriptions' \in Seq(Entries)
        /\ Len(subscriptions') = Len(subscriptions)
        /\ Tickets' = Tickets
    <3> DEFINE Marked(k) ==
                 IF Matches(k, type, code)
                 THEN [subscriptions[k] EXCEPT !.status = "ACTIVE"]
                 ELSE subscriptions[k]
    <3>1. ASSUME NEW k \in Tickets
          PROVE  Marked(k) \in Entries
      <4>1. subscriptions[k] \in Entries
        BY <1>t DEF TypeOK
      <4> QED
        BY <4>1 DEF Entries, Statuses
    <3>2. subscriptions' = [k \in 1..Len(subscriptions) |-> Marked(k)]
      BY <1>t, <1>12 DEF Message, MarkActive
    <3> HIDE DEF Marked
    <3> QED
      BY <1>t, <3>1, <3>2 DEF Tickets
  <2> QED
    BY <1>t, <1>12, <2>1
       DEF Message, TypeOK, LostWithSocket, SendsTickets, Covered, Apart,
           Pending, Tickets, sendVars
<1>13. CASE UNCHANGED vars
  BY <1>13
     DEF vars, TypeOK, LostWithSocket, SendsTickets, Covered, Apart, Pending,
         Tickets, sendVars
<1> QED
  BY <1>1, <1>2, <1>3, <1>4, <1>5, <1>6, <1>7, <1>8, <1>9, <1>10,
     <1>11, <1>12, <1>13
     DEF Next, SendingStep

LEMMA RegistryServes == RegistryInv => RestoredWhenUp /\ SentOnce
  BY DEF RegistryInv, TypeOK, LostWithSocket, SendsTickets, Covered, Apart,
         Pending, Tickets,
         RestoredWhenUp, SentOnce, SendingPCs

\* What the registry keeps track of, whatever the socket does under it.
THEOREM RegistryInvariant ==
  ASSUME MarketsKnown
  PROVE  Spec => []RegistryInv
  BY RegistryInit, RegistryNext, PTL DEF Spec

\* A connection that is up has every ticket there or on its way, but those whose
\* subscribe() was cancelled on the socket it is up on.
THEOREM RegistryRestored ==
  ASSUME MarketsKnown
  PROVE  Spec => []RestoredWhenUp
  BY RegistryInvariant, RegistryServes, PTL

\* No ticket goes twice over one socket.
THEOREM RegistrySendsOnce ==
  ASSUME MarketsKnown
  PROVE  Spec => []SentOnce
  BY RegistryInvariant, RegistryServes, PTL

==============================================================================
