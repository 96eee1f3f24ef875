----------------------------- MODULE MCExecutor -----------------------------
(***************************************************************************)
(* TLC instance of Executor: RUN_MODE values are model values and the     *)
(* student functions' behaviours are given per run.                       *)
(***************************************************************************)
EXTENDS Executor

CONSTANTS Idle, Auto, Teleop

(* Setup functions: one that computes and returns, one that sleeps in a  *)
(* loop for ever (cancellable), and a busy loop with no cancellation      *)
(* point.                                                                 *)
SetupFunctions ==
    {[returns |-> TRUE, cancellable |-> FALSE],
     [returns |-> FALSE, cancellable |-> TRUE],
     [returns |-> FALSE, cancellable |-> FALSE]}

(* Main functions that reach a cancellation point (sleep, I/O) on every   *)
(* call; whether a call returns makes no difference to the loop.          *)
CancellableMain == {[returns |-> TRUE, cancellable |-> TRUE]}

(* A main function that is a busy loop with no cancellation point.        *)
SpinningMain == {[returns |-> TRUE, cancellable |-> FALSE]}
=============================================================================
