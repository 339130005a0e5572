--------------------------- MODULE MCUpbitConnector ---------------------------
(* A small instance of UpbitConnector for TLC.                             *)
EXTENDS UpbitConnector

==============================================================================
