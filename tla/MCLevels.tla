------------------------------ MODULE MCLevels ------------------------------
(* Levels on a small instance; the bounds are in the .cfg files.            *)
EXTENDS Levels
=============================================================================
