------------------------------ MODULE MCTimers ------------------------------
(***************************************************************************)
(* An instance of Timers for TLC.                                          *)
(***************************************************************************)
EXTENDS Timers, TLC

\* Nothing is promised once a timer was freed to which somebody points.
UntilBroken == ~broken
============================================================================
