-------------------------- MODULE MCIngestionService --------------------------
(* Small instances of IngestionService for TLC.                            *)
EXTENDS IngestionService

==============================================================================
