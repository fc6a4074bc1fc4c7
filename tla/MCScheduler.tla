------------------------------ MODULE MCScheduler ------------------------------
(* Two held actions, one due at once and one two moments later. *)
EXTENDS Scheduler, TLC

CONSTANTS a, b

MCIds == {a, b}
MCPlanned == a :> 0 @@ b :> 2
===============================================================================
