----------------------------- MODULE StopWatch ------------------------------
(* StopWatch (stopwatch.cpp): start, lap, stop and reset against a clock     *)
(* that moves on. Time 0 is TimePoint(), the time of a watch never started.  *)
EXTENDS Integers, Sequences, SequencesExt

CONSTANTS
  MaxClock,         \* bound: the last time
  MaxLaps           \* bound: laps recorded

VARIABLES clock, started, start_time, laps

stopwatchVars == <<clock, started, start_time, laps>>

StopWatchInit == clock = 1 /\ started = FALSE /\ start_time = 0 /\ laps = <<>>

Tick == clock < MaxClock /\ clock' = clock + 1 /\ UNCHANGED <<started, start_time, laps>>

Recorded(ls, t) == Append(ls, <<t, IF ls = <<>> THEN 0 ELSE t - Last(ls)[1]>>)

\* Mutant: every start takes the time anew.
FirstStartNow(origin) == clock

(* A watch started again keeps its first start time. *)
FirstStart(origin) == IF origin = 0 THEN clock ELSE origin

(* start(with_reset); nothing on a watch that runs, unless it is reset first.*)
StartWatch(with_reset) ==
  /\ with_reset \/ ~started
  /\ Len(laps) < MaxLaps
  /\ started' = TRUE
  /\ start_time' = FirstStart(IF with_reset THEN 0 ELSE start_time)
  /\ laps' = Recorded(IF with_reset THEN <<>> ELSE laps, start_time')
  /\ UNCHANGED clock

Lap ==
  /\ started /\ Len(laps) < MaxLaps
  /\ laps' = Recorded(laps, clock)
  /\ UNCHANGED <<clock, started, start_time>>

StopLap ==
  /\ started /\ Len(laps) < MaxLaps
  /\ laps' = Recorded(laps, clock) /\ started' = FALSE
  /\ UNCHANGED <<clock, start_time>>

ResetWatch ==
  /\ started' = FALSE /\ start_time' = 0 /\ laps' = <<>>
  /\ UNCHANGED clock

StopWatchNext == Tick \/ Lap \/ StopLap \/ ResetWatch \/ \E r \in BOOLEAN : StartWatch(r)

StopWatchSpec == StopWatchInit /\ [][StopWatchNext]_stopwatchVars

SinceStart(origin) == IF start_time = 0 THEN 0 ELSE origin - start_time

LapTotal(ls) ==
  LET total[n \in 0..Len(ls)] == IF n = 0 THEN 0 ELSE total[n - 1] + ls[n][2]
  IN  total[Len(ls)]

(* Through stops, further starts and resets: the first lap is the start, and *)
(* the durations of the laps add up to the time from the start to the last   *)
(* one; a lap is negative only where a stopped watch was started again       *)
(* (StopWatch::start, lap, stop, reset; since_start).                        *)
LapsAddUp ==
  /\ (laps # <<>>) = (start_time # 0)
  /\ laps # <<>> =>
       /\ laps[1] = <<start_time, 0>>
       /\ LapTotal(laps) = SinceStart(Last(laps)[1])
       /\ \A i \in 1..Len(laps) : laps[i][2] < 0 => laps[i][1] = start_time

=============================================================================
