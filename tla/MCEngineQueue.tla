--------------------------- MODULE MCEngineQueue ---------------------------
(* EngineQueue on a small instance; the bounds are in the .cfg files.       *)
EXTENDS EngineQueue
=============================================================================
