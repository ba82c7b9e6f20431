----------------------------- MODULE MCSchedules ------------------------------
(* Values of Schedules's constants for model checking.                     *)
EXTENDS Schedules, TLC
=============================================================================
