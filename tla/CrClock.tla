------------------------------ MODULE CrClock ------------------------------
(***************************************************************************)
(* The wall clock as libcrt/ctime.c sees it: a pair of a minute and a      *)
(* second, wrapping with the hour, and the elapsed time get_time_final     *)
(* computes from an earlier pair.  SPM and MPH are 60 in the code; TLC     *)
(* uses a smaller clock face where a module keeps many readings.           *)
(***************************************************************************)
EXTENDS Integers

CONSTANTS SPM,    \* seconds per minute: the literal 60 of the loop
          MPH     \* minutes per hour: where the reading wraps

ASSUME ClockAssumption == SPM \in Nat /\ SPM > 1 /\ MPH \in Nat /\ MPH > 1

Second  == 0..(SPM - 1)
Minute  == 0..(MPH - 1)
Reading == Minute \X Second

\* The wall clock one second later.
Tick(t) ==
  IF t[2] + 1 < SPM THEN <<t[1], t[2] + 1>>
                    ELSE <<(t[1] + 1) % MPH, 0>>

(***************************************************************************)
(* What get_time_final(min, sec, ..) returns when the clock shows now.     *)
(* The four ways out of its loop: a reading it takes for "no time at all", *)
(* the same minute, the next minute, and everything else, where it counts  *)
(* up to 60 or, when the seconds do not let it count, returns 0.           *)
(***************************************************************************)
NoTime(start, now) ==
  \/ start = <<0, 0>>
  \/ now = <<0, 0>>
  \/ start[2] = now[2]
  \/ now[2] < start[2] /\ now[1] <= start[1]

Least(a, b) == IF a < b THEN a ELSE b

Elapsed(start, now) ==
  IF NoTime(start, now) THEN 0
  ELSE IF now[1] = start[1] THEN now[2] - start[2]
  ELSE IF now[1] = start[1] + 1 THEN Least(SPM, SPM + 1 - start[2])
  ELSE IF now[1] = 0 THEN now[2]
  ELSE SPM

\* What it stores through lmin and lsec: the seconds it counted one by one,
\* none when it only carried the minute.
Lapse(start, now) ==
  IF now[2] > start[2] THEN <<0, Elapsed(start, now)>> ELSE <<0, 0>>

\* The time that really passed, if it was less than an hour.
TrueElapsed(start, now) ==
  ((now[1] - start[1]) * SPM + now[2] - start[2]) % (MPH * SPM)
=============================================================================
