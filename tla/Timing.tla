-------------------------------- MODULE Timing --------------------------------
(***************************************************************************)
(* The timer service of src/src/timing.c, which drives the keyboard tick   *)
(* and the screen's line interrupt.  timing_loop reads the wall clock      *)
(* (gettimeofday) once and visits every timer in turn; a timer that is due *)
(* is called back once and moved on by one interval, and one that is still *)
(* ResyncIntervals behind gives its backlog up.  The other operations run  *)
(* between two loops, on the same thread.                                  *)
(***************************************************************************)
EXTENDS Integers

CONSTANTS
  Timers,           \* indices of the timers array
  Intervals,        \* intervals timers are given, in microseconds
  ResyncIntervals,  \* 100
  Steps,            \* how far the wall clock may move at once
  MaxClock          \* bound: last instant of the clock

ASSUME TimingAssumption ==
  /\ Timers \subseteq Nat
  /\ Intervals \subseteq Nat \ {0}
  /\ ResyncIntervals \in Nat \ {0}
  /\ Steps \subseteq Int
  /\ MaxClock \in Nat

VARIABLES
  clock,            \* the wall clock
  timing_cur,       \* the instant the last clock read returned
  previous, interval, enabled,
  added,            \* which timers exist
  todo,             \* timers timing_loop has not visited yet
  start,            \* history: previous when the timer was (re)started
  paid              \* history: sum of the intervals called back since start

timers == <<previous, interval, enabled, added>>
vars   == <<clock, timing_cur, timers, todo, start, paid>>

\* External: time passes; a negative step is the clock being set back.
ClockMoves == /\ \E d \in Steps : clock + d \in 0 .. MaxClock /\ clock' = clock + d
              /\ UNCHANGED <<timing_cur, timers, todo, start, paid>>

Between == todo = {}

\* timing_addTimerUsingInterval
AddTimer(i, d, on) ==
  /\ Between /\ i \notin added
  /\ timing_cur' = clock
  /\ added' = added \cup {i}
  /\ previous' = [previous EXCEPT ![i] = clock]
  /\ interval' = [interval EXCEPT ![i] = d]
  /\ enabled' = [enabled EXCEPT ![i] = on]
  /\ start' = [start EXCEPT ![i] = clock]
  /\ paid' = [paid EXCEPT ![i] = 0]
  /\ UNCHANGED <<clock, todo>>

UpdateInterval(i, d) ==
  /\ Between /\ i \in added
  /\ interval' = [interval EXCEPT ![i] = d]
  /\ UNCHANGED <<clock, timing_cur, previous, enabled, added, todo, start, paid>>

TimerEnable(i) ==
  /\ Between /\ i \in added
  /\ enabled' = [enabled EXCEPT ![i] = TRUE]
  /\ timing_cur' = clock
  /\ previous' = [previous EXCEPT ![i] = clock]
  /\ start' = [start EXCEPT ![i] = clock]
  /\ paid' = [paid EXCEPT ![i] = 0]
  /\ UNCHANGED <<clock, interval, added, todo>>

TimerDisable(i) ==
  /\ Between /\ i \in added
  /\ enabled' = [enabled EXCEPT ![i] = FALSE]
  /\ UNCHANGED <<clock, timing_cur, previous, interval, added, todo, start, paid>>

\* timing_getCur, which the console calls for its title bar
GetCur ==
  /\ Between
  /\ timing_cur' = clock
  /\ UNCHANGED <<clock, timers, todo, start, paid>>

\* Mutant: the clock is not read again.
LoopStartStale ==
  /\ Between /\ added # {}
  /\ todo' = added
  /\ UNCHANGED <<clock, timing_cur, timers, start, paid>>

\* timing_loop begins: one clock read for all timers.
LoopStart ==
  /\ Between /\ added # {}
  /\ timing_cur' = clock
  /\ todo' = added
  /\ UNCHANGED <<clock, timers, start, paid>>

Due(i) == timing_cur >= previous[i] + interval[i]

\* Mutant: the next interval starts now.
AdvancedToNow(i) == timing_cur

\* previous after the callback: one interval on, or resynchronised.
Advanced(i) ==
  LET p == previous[i] + interval[i] IN
  IF timing_cur - p >= interval[i] * ResyncIntervals THEN timing_cur ELSE p

Visited(i) == /\ i \in todo /\ \A j \in todo : i <= j
              /\ todo' = todo \ {i}

Fire(i) ==
  /\ Visited(i)
  /\ Due(i) /\ enabled[i]
  /\ previous' = [previous EXCEPT ![i] = Advanced(i)]
  /\ paid' = [paid EXCEPT ![i] = paid[i] + interval[i]]
  /\ UNCHANGED <<clock, timing_cur, interval, enabled, added, start>>

Skip(i) ==
  /\ Visited(i)
  /\ ~(Due(i) /\ enabled[i])
  /\ UNCHANGED <<clock, timing_cur, timers, start, paid>>

Init ==
  /\ clock = 0 /\ timing_cur = 0
  /\ previous = [i \in Timers |-> 0] /\ interval = [i \in Timers |-> 0]
  /\ enabled = [i \in Timers |-> FALSE]
  /\ added = {} /\ todo = {}
  /\ start = [i \in Timers |-> 0] /\ paid = [i \in Timers |-> 0]

Loop == LoopStart \/ \E i \in Timers : Fire(i) \/ Skip(i)

Next ==
  \/ ClockMoves
  \/ GetCur
  \/ Loop
  \/ \E i \in Timers :
       \/ \E d \in Intervals, on \in BOOLEAN : AddTimer(i, d, on)
       \/ \E d \in Intervals : UpdateInterval(i, d)
       \/ TimerEnable(i) \/ TimerDisable(i)

Spec == Init /\ [][Next]_vars

\* The main loop calls timing_loop for ever (main.c:120-121).
FairSpec == Spec /\ WF_vars(Loop)

-----------------------------------------------------------------------------
(* Properties *)

TypeOK ==
  /\ clock \in 0 .. MaxClock /\ timing_cur \in 0 .. MaxClock
  /\ previous \in [Timers -> Int]
  /\ interval \in [Timers -> Nat]
  /\ enabled \in [Timers -> BOOLEAN]
  /\ added \subseteq Timers /\ todo \subseteq added
  /\ start \in [Timers -> Int] /\ paid \in [Timers -> Nat]
  /\ \A i \in added : interval[i] \in Intervals

\* Callbacks never run ahead of the clock: the intervals called back since a
\* timer was started fit between that moment and previous, and previous is
\* not in the future (timing.c:51, 57-60).  The clock is not set back here.
NeverAhead == \A i \in added : /\ start[i] + paid[i] <= previous[i]
                               /\ previous[i] <= timing_cur

\* However long the host stalled, a timer that has been called back owes fewer
\* than ResyncIntervals callbacks: catching up is bounded (timing.c:58-60).
BacklogBounded ==
  [][\A i \in Timers : paid'[i] > paid[i]
       => timing_cur - previous'[i] < interval[i] * ResyncIntervals]_vars

\* A timer keeps its phase however late the loop comes round: previous is
\* start plus the time paid, or later by a whole backlog given up (57-60).
KeepsPhase ==
  \A i \in added :
    LET drift == previous[i] - (start[i] + paid[i]) IN
    drift = 0 \/ \E d \in Intervals : drift >= d * ResyncIntervals

\* A timer that stays enabled is called back once it is due (timing.c:51-55).
DueIsCalled ==
  \A i \in Timers :
    (i \in added /\ enabled[i] /\ clock >= previous[i] + interval[i])
      ~> (~enabled[i] \/ clock < previous[i] + interval[i])
==============================================================================
