------------------------------- MODULE MCTiming -------------------------------
(***************************************************************************)
(* Timing for TLC: two timers, intervals of one and two ticks, a backlog   *)
(* of two intervals instead of a hundred, and a clock that creeps,         *)
(* jumps past the whole backlog (a stalled host) or is set back.           *)
(***************************************************************************)
EXTENDS Timing

TwoTimers == {1, 2}
OneOrTwo == {1, 2}
CreepJumpOrBack == {1, 4, -2}
==============================================================================
