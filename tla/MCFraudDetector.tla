---------------------------- MODULE MCFraudDetector ----------------------------
(* Small instances of FraudDetector for TLC.                               *)
EXTENDS FraudDetector

==============================================================================
