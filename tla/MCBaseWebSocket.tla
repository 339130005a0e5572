--------------------------- MODULE MCBaseWebSocket ---------------------------
(* Small instances of BaseWebSocket for TLC.                               *)
EXTENDS BaseWebSocket

\* Callers are alike, and so are sockets (sound for the safety runs).
MCSymmetry == Permutations(Callers) \cup Permutations(Sockets)

==============================================================================
