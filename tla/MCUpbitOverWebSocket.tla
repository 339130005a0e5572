------------------------- MODULE MCUpbitOverWebSocket -------------------------
(* A small instance of UpbitOverWebSocket for TLC.                         *)
EXTENDS UpbitOverWebSocket

\* Sockets are alike.
MCSymmetry == Permutations(Sockets)

==============================================================================
