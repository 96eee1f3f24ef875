------------------------------ MODULE MCRelay ------------------------------
(* Relay instantiated for TLC: the constants are given in the .cfg files.  *)
EXTENDS Relay
=============================================================================
