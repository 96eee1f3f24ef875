------------------------------ MODULE MCPoller -----------------------------
(* Poller instantiated for TLC with three device identities.              *)
EXTENDS Poller
CONSTANTS d1, d2, d3
MCDevs == {d1, d2, d3}
=============================================================================
