------------------------------- MODULE CrTime -------------------------------
(***************************************************************************)
(* get_time_final of libcrt: the number of seconds between a clock reading *)
(* (min, sec) taken earlier and the wall clock, computed by a loop that    *)
(* counts up until one of its exit tests holds.  Only minutes and seconds  *)
(* are kept, the hour is not, so the clock wraps.                          *)
(*                                                                         *)
(* What local points to is libc's one struct tm.  Every test of the loop   *)
(* reads a field of it again, and every other thread that calls localtime  *)
(* (the module inits, get_time_start, xgetdate of crserv) stores a later   *)
(* reading there in between, field by field.                               *)
(*                                                                         *)
(* One behaviour is one call: CallInit chooses the earlier reading and the *)
(* wall clock, a step of the call is one test with at most one read of     *)
(* local.  The names are those of a call, apart from RmcPool's, whose      *)
(* timers are such calls.                                                  *)
(***************************************************************************)
EXTENDS CrClock

VARIABLES
  start,       \* parameters min and sec: the earlier reading
  local,       \* *local: libc's struct tm
  utime,       \* the count that is returned
  cmin,        \* minutes counted, handed back through lmin
  csec,        \* seconds counted, handed back through lsec
  idle,        \* i: counts the iterations that did not advance utime
  at,          \* the test the loop is at, "out" when it has been left
  clock,       \* the reading the last localtime stores into *local
  elapsed,     \* ghost: seconds between start and clock, up to SPM
  overwritten, \* ghost: another thread has called localtime during the call
  torn         \* ghost: the minute of a new hour stood beside the old second

counters == <<utime, cmin, csec, idle>>
shared   == <<local, clock, elapsed, overwritten, torn>>
callVars == <<start, counters, at, shared>>

done == at = "out"

CallInit ==
  /\ start \in Reading
  /\ local \in Reading
  /\ clock = local
  /\ elapsed = Least(SPM, TrueElapsed(start, local))
  /\ utime = 0
  /\ cmin = 0
  /\ csec = 0
  /\ idle = 1
  /\ at = "zero"
  /\ overwritten = FALSE
  /\ torn = FALSE

(***************************************************************************)
(* The exit tests at the head of the loop, in the order of the code; an    *)
(* && is two tests, the second made only if the first holds.               *)
(***************************************************************************)
Test(place, holds, yes, no) ==
  /\ at = place
  /\ at' = IF holds THEN yes ELSE no
  /\ UNCHANGED <<start, counters, shared>>

\* Variant: the test for a carried minute is one second late.
TestCarriedLate ==
  Test("carried", utime + start[2] > SPM + 1 /\ local[1] = start[1] + 1,
       "out", "countedMin")

TestCarried ==
  Test("carried", utime + start[2] > SPM /\ local[1] = start[1] + 1,
       "out", "countedMin")

HeadTest ==
  \/ Test("zero", start = <<0, 0>>, "out", "sameMin")
  \/ Test("sameMin", local[1] = start[1], "sameSec", "reachedSec")
  \/ Test("sameSec", local[2] = start[2], "out", "reachedSec")
  \/ Test("reachedSec", utime + start[2] = local[2], "reachedMin", "carried")
  \/ Test("reachedMin", local[1] = start[1], "out", "carried")
  \/ TestCarried
  \/ Test("countedMin", cmin = local[1], "countedSec", "cap")
  \/ Test("countedSec", csec = local[2], "out", "cap")

\* Variant: the iterations without progress are not counted.
IdleUncounted == idle' = idle

\* An iteration without progress counts towards the cap.
Idle == idle' = IF utime = 0 THEN idle + 1 ELSE idle

\* The two caps: a minute counted, or SPM iterations without progress.
Cap ==
  /\ at = "cap"
  /\ IF utime >= SPM \/ idle > SPM
       THEN at' = "out" /\ idle' = idle
       ELSE at' = "ahead" /\ Idle
  /\ UNCHANGED <<start, utime, cmin, csec, shared>>

\* The wall clock shows more seconds than the reading: count them.
CountSecond ==
  /\ at = "ahead"
  /\ at' = "behind"
  /\ IF local[2] > start[2]
       THEN /\ utime' = utime + 1
            /\ IF csec >= SPM THEN cmin' = cmin + 1 /\ csec' = 0
                              ELSE cmin' = cmin /\ csec' = csec + 1
       ELSE UNCHANGED <<utime, cmin, csec>>
  /\ UNCHANGED <<start, idle, shared>>

\* It shows fewer seconds (first test), in a later minute (second test).
Behind == Test("behind", local[2] < start[2], "later", "zero")

CountCarry ==
  /\ at = "later"
  /\ at' = "zero"
  /\ utime' = IF local[1] > start[1] THEN utime + 1 ELSE utime
  /\ UNCHANGED <<start, cmin, csec, idle, shared>>

Iterate == HeadTest \/ Cap \/ CountSecond \/ Behind \/ CountCarry

(***************************************************************************)
(* Another thread's localtime, at any later reading of the wall clock.     *)
(* libc lets one thread store at a time but not before a reader is done;   *)
(* the minute and the second are stored one after the other, and in which  *)
(* order is the C library's.                                               *)
(***************************************************************************)
Overwrite ==
  /\ ~done
  /\ local = clock
  /\ \E now \in Reading \ {clock} :
       /\ clock' = now
       /\ elapsed' = Least(SPM, elapsed + TrueElapsed(clock, now))
       /\ \/ local' = <<now[1], local[2]>> /\ torn' = (torn \/ now[1] < local[1])
          \/ local' = <<local[1], now[2]>> /\ torn' = torn
  /\ overwritten' = TRUE
  /\ UNCHANGED <<start, counters, at>>

StoreRest ==
  /\ ~done
  /\ local # clock
  /\ local' = clock
  /\ UNCHANGED <<start, counters, at, clock, elapsed, overwritten, torn>>

CallNext == Iterate \/ Overwrite \/ StoreRest

CallSpec == CallInit /\ [][CallNext]_callVars /\ WF_callVars(Iterate)

-----------------------------------------------------------------------------

Place == {"zero", "sameMin", "sameSec", "reachedSec", "reachedMin", "carried",
          "countedMin", "countedSec", "cap", "ahead", "behind", "later", "out"}

CallTypeOK ==
  /\ start \in Reading
  /\ local \in Reading
  /\ clock \in Reading
  /\ utime \in 0..(SPM + 1)
  /\ cmin = 0
  /\ csec \in 0..SPM
  /\ idle \in 1..(SPM + 1)
  /\ at \in Place
  /\ elapsed \in 0..SPM
  /\ overwritten \in BOOLEAN
  /\ torn \in BOOLEAN

\* A call that nobody disturbs returns what the closed form of CrClock says,
\* for the count and for the two numbers it hands back: the definition the
\* timeouts are modelled with is the loop's.
ReturnsElapsed ==
  done /\ ~overwritten =>
    /\ utime = Elapsed(start, local)
    /\ <<cmin, csec>> = Lapse(start, local)

\* However the other threads overwrite the reading under the loop, the count
\* never runs ahead of the true time by more than two seconds: the one that the
\* carry test utime+sec > 60 adds, and one more in a round whose two counting
\* tests both hold because the second was stored between them.  No timeout on
\* it fires earlier than that.  The one exception is an hour that turns with
\* its new minute stored before its second.  A call nobody disturbs is at most
\* one second ahead, only when the clock shows second zero, and exact within
\* one minute.
AheadAtMostTwo ==
  done => /\ utime <= elapsed + 2 \/ torn
          /\ ~overwritten =>
               /\ \/ utime <= TrueElapsed(start, local)
                  \/ utime = TrueElapsed(start, local) + 1 /\ local[2] = 0
               /\ (start[1] = local[1] /\ start[2] <= local[2] /\ start # <<0, 0>>)
                    => utime = TrueElapsed(start, local)

\* The readings that the loop finds nothing to count in; the cap on iterations
\* without progress is off once one second has been counted.
Blind ==
  /\ overwritten
  /\ utime # 0
  /\ \/ local[2] = start[2]
     \/ local[2] < start[2] /\ local[1] <= start[1]

\* The do { } while(i) loop, whose condition never fails, is left in every call
\* that no other thread disturbs.  A disturbed one is left too, unless the
\* reading is overwritten again and again or in the end with one that stops the
\* counting half way: then, and only then, it spins.
Terminates ==
  \/ <>done
  \/ []<><<local' # local>>_callVars
  \/ <>[]Blind
=============================================================================
