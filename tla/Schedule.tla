------------------------------ MODULE Schedule ------------------------------
(***************************************************************************)
(* The daily monitoring window, decided three times in this repository: by  *)
(* the Go capturer in seconds, by its Python predecessor in fractions of a  *)
(* second, and by the monolith in hours.  A time of day is a number of      *)
(* seconds (of hours); an instant is a second and whether a part of it has  *)
(* passed.                                                                  *)
(***************************************************************************)
EXTENDS Integers

CONSTANT Day   \* seconds (hours) of a day

ASSUME ScheduleAssumption == Day \in Nat \ {0}

TimesOfDay == 0..(Day - 1)
Instants == [sec : TimesOfDay, frac : {0, 1}]

\* Mutant: the window is taken as it is written, without the overnight case.
IsWithinTimeFrameSameDay(start, end, now) == start <= now /\ now <= end

\* Config.IsWithinTimeFrame
IsWithinTimeFrame(start, end, now) ==
  \/ start <= end /\ start <= now /\ now <= end
  \/ start > end /\ (now >= start \/ now <= end)

\* is_within_time_frame: end is the beginning of its second.
LegacyIsWithinTimeFrame(start, end, now) ==
  LET begun == start <= now.sec
      notOver == now.sec < end \/ (now.sec = end /\ now.frac = 0)
  IN  \/ start <= end /\ begun /\ notOver
      \/ start > end /\ (begun \/ notOver)

\* capture_stream: is_active, with hours for seconds.
IsActive(start, end, hour) ==
  \/ start <= end /\ start <= hour /\ hour < end
  \/ start > end /\ (hour >= start \/ hour < end)

-----------------------------------------------------------------------------
\* What the three are meant to decide: how far the clock is into the window.
Since(start, t) == IF t >= start THEN t - start ELSE t - start + Day

InWindow(start, end, t) == Since(start, t) <= Since(start, end)

=============================================================================
