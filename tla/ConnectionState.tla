--------------------------- MODULE ConnectionState ---------------------------
(***************************************************************************)
(* The life cycle of an exchange connection as the domain layer defines    *)
(* it: the states of the enumeration ConnectionState and the matrix of the *)
(* transitions a connector may take between them                           *)
(* (src/data_ingestion/domain/models/connection_state.py).                 *)
(***************************************************************************)

DISCONNECTED == "disconnected"
CONNECTING == "connecting"
CONNECTED == "connected"
RECONNECTING == "reconnecting"
FAILED == "failed"

ConnectionStates ==
  {DISCONNECTED, CONNECTING, CONNECTED, RECONNECTING, FAILED}

\* _get_valid_transitions: from each state, the states it may move to.
ValidTransitions ==
  [s \in ConnectionStates |->
     CASE s = DISCONNECTED -> {CONNECTING}
       [] s = CONNECTING   -> {CONNECTED, FAILED}
       [] s = CONNECTED    -> {DISCONNECTED, RECONNECTING, FAILED}
       [] s = RECONNECTING -> {CONNECTED, FAILED, DISCONNECTED}
       [] s = FAILED       -> {DISCONNECTED}]

\* A transition to the state the connection is already in is always allowed.
IsValidTransition(from, to) ==
  \/ to = from
  \/ to \in ValidTransitions[from]

==============================================================================
