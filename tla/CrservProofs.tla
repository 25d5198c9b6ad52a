---------------------------- MODULE CrservProofs ----------------------------
(***************************************************************************)
(* The libraries crserv runs on.  First the clock and what is timed by it, *)
(* for every clock face: get_time_final (CrTime), what its count means,    *)
(* and the slot pool (RmcPool), whose timers call it, for every number of  *)
(* slots and buffers: the last slot is never given back, a wedged cursor   *)
(* stays wedged, no slot is taken early, and the second lookup loses a     *)
(* block only if the sweeper released its slot.                            *)
(*                                                                         *)
(* Then the tear-down of the threads (ThreadRegistry), for any number of   *)
(* modules and threads: what has been cancelled when, and which handles    *)
(* are still good.                                                         *)
(***************************************************************************)
EXTENDS RmcPool, CrTime, ThreadRegistry, TLAPS

\* What the two readings are: pairs of numbers on the clock face.
LEMMA ReadingParts ==
  ASSUME NEW r \in Reading
  PROVE  /\ r = <<r[1], r[2]>>
         /\ r[1] \in Int /\ r[2] \in Int
         /\ 0 <= r[1] /\ 0 <= r[2] /\ r[2] < SPM
BY ClockAssumption DEF Reading, Minute, Second

\* Readings and what get_time_final hands back through lmin and lsec, which
\* may show SPM seconds.
Measured == Minute \X (0..SPM)

LEMMA ReadingMeasured == Reading \subseteq Measured
BY ClockAssumption DEF Reading, Measured, Minute, Second

\* The result is never negative and never more than a minute.
LEMMA ElapsedRange ==
  ASSUME NEW s \in Measured, NEW n \in Reading
  PROVE  Elapsed(s, n) \in 0..SPM
<1>1. /\ s[1] \in Int /\ s[2] \in 0..SPM
      /\ n[1] \in Int /\ n[2] \in 0..(SPM - 1)
  BY ClockAssumption DEF Measured, Reading, Minute, Second
<1>2. NoTime(s, n) => Elapsed(s, n) = 0
  BY DEF Elapsed
<1>3. ~NoTime(s, n) /\ n[1] = s[1] => n[2] > s[2]
  BY <1>1, ClockAssumption DEF NoTime
<1>4. QED
  BY <1>1, <1>2, <1>3, ClockAssumption DEF Elapsed, Least

\* What is handed back can be handed in again.
LEMMA LapseMeasured ==
  ASSUME NEW s \in Measured, NEW n \in Reading
  PROVE  Lapse(s, n) \in Measured
<1>1. Elapsed(s, n) \in 0..SPM
  BY ElapsedRange
<1>2. 0 \in Minute /\ 0 \in 0..SPM
  BY ClockAssumption DEF Minute
<1>3. QED
  BY <1>1, <1>2 DEF Lapse, Measured

\* A second later the clock still shows a reading.
LEMMA TickReading ==
  ASSUME NEW r \in Reading
  PROVE  Tick(r) \in Reading
<1>1. r[1] \in Minute /\ r[2] \in Second
  BY DEF Reading
<1>2. r[2] + 1 < SPM => r[2] + 1 \in Second
  BY <1>1, ClockAssumption DEF Second
<1>3. 0 \in Second
  BY ClockAssumption DEF Second
<1>4. (r[1] + 1) % MPH \in Minute
  BY <1>1, ClockAssumption DEF Minute
<1>5. QED
  BY <1>1, <1>2, <1>3, <1>4 DEF Tick, Reading

-----------------------------------------------------------------------------
(***************************************************************************)
(* Elapsed against the time that really passed.  A reading counts seconds  *)
(* from the full hour; a product with SPM is kept out of every step that   *)
(* compares more than two numbers.                                         *)
(***************************************************************************)
Hour == MPH * SPM
Abs(r) == r[1] * SPM + r[2]

LEMMA TimesMonotone ==
  ASSUME NEW a \in Nat, NEW b \in Nat, a <= b, NEW m \in Nat
  PROVE  /\ a * m \in Nat /\ b * m \in Nat /\ a * m <= b * m
         /\ (a + 1) * m = a * m + m /\ (a + 2) * m = a * m + m + m
         /\ (b - a) * m = b * m - a * m
<1>1. /\ a * m \in Nat /\ b * m \in Nat
      /\ (a + 1) * m = a * m + m /\ (a + 2) * m = a * m + m + m
      /\ (b - a) * m = b * m - a * m
  OBVIOUS
<1>2. (b - a) * m \in Nat
  <2>1. b - a \in Nat
    OBVIOUS
  <2>2. \A k \in Nat : k * m \in Nat
    OBVIOUS
  <2>3. QED
    BY <2>1, <2>2
<1>3. QED
  BY <1>1, <1>2

LEMMA AbsRange ==
  ASSUME NEW r \in Reading
  PROVE  /\ Hour \in Nat /\ Abs(r) \in Nat /\ Abs(r) < Hour
         /\ r[1] * SPM \in Nat /\ Abs(r) = r[1] * SPM + r[2]
         /\ r[1] * SPM + SPM <= Hour
<1>1. r[1] \in Nat /\ r[1] + 1 <= MPH /\ r[2] \in Nat /\ r[2] < SPM
  BY ClockAssumption DEF Reading, Minute, Second
<1>2. /\ r[1] * SPM \in Nat /\ Hour \in Nat
      /\ (r[1] + 1) * SPM <= Hour
      /\ (r[1] + 1) * SPM = r[1] * SPM + SPM
  <2>1. r[1] + 1 \in Nat /\ MPH \in Nat /\ SPM \in Nat
    BY <1>1, ClockAssumption
  <2>2. (r[1] + 1) * SPM <= MPH * SPM /\ MPH * SPM \in Nat
    BY <1>1, <2>1, TimesMonotone
  <2>3. r[1] * SPM \in Nat /\ (r[1] + 1) * SPM = r[1] * SPM + SPM
    BY <1>1, <2>1, TimesMonotone
  <2>4. QED
    BY <2>2, <2>3 DEF Hour
<1>3. r[1] * SPM + SPM <= Hour
  BY <1>2
<1>4. QED
  BY <1>1, <1>2, <1>3, ClockAssumption DEF Abs

LEMMA ModWraps ==
  ASSUME NEW d \in Int, NEW h \in Nat, -h < d, d < h
  PROVE  d % h = IF d >= 0 THEN d ELSE d + h
<1>1. CASE d >= 0
  BY <1>1
<1>2. CASE d < 0
  <2>1. d + h \in 0..(h - 1)
    BY <1>2
  <2>2. QED
    BY <1>2, <2>1
<1>3. QED
  BY <1>1, <1>2

\* The time between two readings, around the hour at most once.
LEMMA TrueElapsedIs ==
  ASSUME NEW s \in Reading, NEW n \in Reading
  PROVE  TrueElapsed(s, n) = IF Abs(n) >= Abs(s) THEN Abs(n) - Abs(s)
                             ELSE Abs(n) - Abs(s) + Hour
<1>1. /\ s[1] \in Int /\ n[1] \in Int /\ s[2] \in Int /\ n[2] \in Int
      /\ SPM \in Int
  BY ReadingParts, ClockAssumption
<1>2. (n[1] - s[1]) * SPM = n[1] * SPM - s[1] * SPM
  BY <1>1
<1>3. /\ Abs(s) \in Nat /\ Abs(n) \in Nat /\ Hour \in Nat
      /\ Abs(s) < Hour /\ Abs(n) < Hour
      /\ s[1] * SPM \in Nat /\ n[1] * SPM \in Nat
      /\ Abs(s) = s[1] * SPM + s[2] /\ Abs(n) = n[1] * SPM + n[2]
  BY AbsRange
<1>4. n[1] * SPM - s[1] * SPM + n[2] - s[2] = Abs(n) - Abs(s)
  BY <1>1, <1>3
<1>5. (Abs(n) - Abs(s)) % Hour = IF Abs(n) - Abs(s) >= 0 THEN Abs(n) - Abs(s)
                                 ELSE Abs(n) - Abs(s) + Hour
  <2>1. /\ Abs(n) - Abs(s) \in Int
        /\ -Hour < Abs(n) - Abs(s) /\ Abs(n) - Abs(s) < Hour
    BY <1>3
  <2>2. QED
    BY <1>3, <2>1, ModWraps
<1>6. TrueElapsed(s, n) = (Abs(n) - Abs(s)) % Hour
  BY <1>2, <1>4 DEF TrueElapsed, Hour
<1>7. QED
  BY <1>3, <1>5, <1>6

\* Elapsed is ahead of the true time by at most the second that the test for a
\* carried minute adds, and exact within a minute.
LEMMA ElapsedAhead ==
  ASSUME NEW s \in Reading, NEW n \in Reading
  PROVE  /\ \/ Elapsed(s, n) <= TrueElapsed(s, n)
            \/ Elapsed(s, n) = TrueElapsed(s, n) + 1 /\ n[2] = 0
         /\ (s[1] = n[1] /\ s[2] <= n[2] /\ s # <<0, 0>>)
              => Elapsed(s, n) = TrueElapsed(s, n)
<1> DEFINE a == s[1] * SPM
           b == n[1] * SPM
           T == TrueElapsed(s, n)
<1>1. /\ s = <<s[1], s[2]>> /\ n = <<n[1], n[2]>>
      /\ s[1] \in Nat /\ n[1] \in Nat /\ s[2] \in Nat /\ n[2] \in Nat
      /\ s[2] < SPM /\ n[2] < SPM /\ SPM \in Nat /\ SPM > 1
  BY ReadingParts, ClockAssumption
<1>2. /\ a \in Nat /\ b \in Nat /\ Hour \in Nat
      /\ Abs(s) = a + s[2] /\ Abs(n) = b + n[2]
      /\ a + SPM <= Hour /\ b + SPM <= Hour
  BY AbsRange
<1>3. T = IF b + n[2] >= a + s[2] THEN b + n[2] - (a + s[2])
          ELSE b + n[2] - (a + s[2]) + Hour
  <2>1. T = IF Abs(n) >= Abs(s) THEN Abs(n) - Abs(s)
            ELSE Abs(n) - Abs(s) + Hour
    BY TrueElapsedIs
  <2> HIDE DEF a, b, T
  <2>2. QED
    BY <1>1, <1>2, <2>1
<1>4. T \in Nat
  BY <1>1, <1>2, <1>3
<1>5. CASE NoTime(s, n)
  <2>1. Elapsed(s, n) = 0
    BY <1>5 DEF Elapsed
  <2>2. ASSUME s[1] = n[1], s[2] <= n[2], s # <<0, 0>> PROVE T = 0
    <3>1. s[2] = n[2]
      BY <1>1, <1>5, <2>2 DEF NoTime
    <3>2. a = b
      BY <2>2
    <3>3. QED
      BY <1>1, <1>2, <1>3, <3>1, <3>2
  <2>3. QED
    BY <1>4, <2>1, <2>2
<1>6. CASE ~NoTime(s, n) /\ n[1] = s[1]
  <2>1. n[2] > s[2] /\ a = b
    BY <1>1, <1>6 DEF NoTime
  <2>2. T = n[2] - s[2]
    BY <1>1, <1>2, <1>3, <2>1
  <2>3. Elapsed(s, n) = n[2] - s[2]
    BY <1>6 DEF Elapsed
  <2>4. QED
    BY <1>4, <2>2, <2>3
<1>7. CASE ~NoTime(s, n) /\ n[1] = s[1] + 1
  <2>1. b = a + SPM /\ n[1] # s[1] /\ n[2] # s[2]
    BY <1>1, <1>7 DEF NoTime
  <2>2. T = SPM + n[2] - s[2]
    BY <1>1, <1>2, <1>3, <2>1
  <2>3. Elapsed(s, n) = IF SPM < SPM + 1 - s[2] THEN SPM ELSE SPM + 1 - s[2]
    BY <1>7, <2>1 DEF Elapsed, Least
  <2>4. QED
    BY <1>1, <2>1, <2>2, <2>3
<1>8. CASE ~NoTime(s, n) /\ n[1] # s[1] /\ n[1] # s[1] + 1 /\ n[1] = 0
  <2>1. s[1] >= 1 /\ b = 0
    BY <1>1, <1>8
  <2>2. a >= SPM
    <3>1. 1 * SPM <= s[1] * SPM
      <4>1. 1 \in Nat /\ 1 <= s[1]
        BY <1>1, <2>1
      <4>2. QED
        BY <1>1, <4>1, TimesMonotone
    <3>2. QED
      BY <1>1, <3>1
  <2>3. T = n[2] - (a + s[2]) + Hour /\ T >= n[2]
    <3> HIDE DEF a, b, T
    <3>1. ~(b + n[2] >= a + s[2])
      BY <1>1, <1>2, <2>1, <2>2
    <3>2. T = b + n[2] - (a + s[2]) + Hour
      BY <1>3, <3>1
    <3>3. QED
      BY <1>1, <1>2, <2>1, <3>2
  <2>4. Elapsed(s, n) = n[2]
    BY <1>8 DEF Elapsed
  <2>5. QED
    BY <1>1, <1>4, <1>8, <2>3, <2>4
<1>9. CASE ~NoTime(s, n) /\ n[1] # s[1] /\ n[1] # s[1] + 1 /\ n[1] # 0
  <2>1. Elapsed(s, n) = SPM
    BY <1>9 DEF Elapsed
  <2>2. CASE n[1] > s[1]
    <3>1. a + SPM + SPM <= b
      <4>1. s[1] + 2 \in Nat /\ s[1] + 2 <= n[1]
        BY <1>1, <1>9, <2>2
      <4>2. (s[1] + 2) * SPM <= b /\ (s[1] + 2) * SPM = a + SPM + SPM
        <5>1. (s[1] + 2) * SPM <= n[1] * SPM
          BY <1>1, <4>1, TimesMonotone
        <5>2. (s[1] + 2) * SPM = s[1] * SPM + SPM + SPM
          BY <1>1, TimesMonotone
        <5>3. QED
          BY <5>1, <5>2
      <4>3. QED
        BY <4>2
    <3>2. T >= SPM
      BY <1>1, <1>2, <1>3, <3>1
    <3>3. QED
      BY <1>1, <1>4, <1>9, <2>1, <3>2
  <2>3. CASE n[1] < s[1]
    <3>1. n[2] > s[2]
      BY <1>1, <1>9, <2>3 DEF NoTime
    <3>2. b >= SPM
      <4>1. 1 * SPM <= n[1] * SPM
        <5>1. 1 \in Nat /\ 1 <= n[1]
          BY <1>1, <1>9
        <5>2. QED
          BY <1>1, <5>1, TimesMonotone
      <4>2. QED
        BY <1>1, <4>1
    <3>3. T >= SPM
      <4>1. b + SPM <= a
        <5>1. n[1] + 1 \in Nat /\ n[1] + 1 <= s[1]
          BY <1>1, <2>3
        <5>2. (n[1] + 1) * SPM <= s[1] * SPM
          BY <1>1, <5>1, TimesMonotone
        <5>3. (n[1] + 1) * SPM = n[1] * SPM + SPM
          BY <1>1, TimesMonotone
        <5>4. QED
          BY <5>2, <5>3
      <4>2. T = b + n[2] - (a + s[2]) + Hour
        BY <1>1, <1>2, <1>3, <4>1
      <4>3. QED
        BY <1>1, <1>2, <3>1, <3>2, <4>2
    <3>4. QED
      BY <1>1, <1>4, <1>9, <2>1, <3>3
  <2>4. QED
    BY <1>1, <1>9, <2>2, <2>3
<1>10. QED
  BY <1>5, <1>6, <1>7, <1>8, <1>9

\* A second later one more second has passed, or the hour is full.
LEMMA TickElapsed ==
  ASSUME NEW s \in Reading, NEW n \in Reading
  PROVE  TrueElapsed(s, Tick(n)) = IF TrueElapsed(s, n) + 1 = Hour THEN 0
                                   ELSE TrueElapsed(s, n) + 1
<1>1. /\ n[1] \in Nat /\ n[2] \in Nat /\ n[1] < MPH /\ n[2] < SPM
      /\ MPH \in Nat /\ SPM \in Nat /\ SPM > 1
  BY ClockAssumption DEF Reading, Minute, Second
<1>2. /\ Abs(s) \in Nat /\ Abs(n) \in Nat /\ Hour \in Nat
      /\ Abs(s) < Hour /\ Abs(n) < Hour
      /\ n[1] * SPM \in Nat /\ Abs(n) = n[1] * SPM + n[2]
      /\ n[1] * SPM + SPM <= Hour
  BY AbsRange
<1>3. Abs(Tick(n)) = IF Abs(n) + 1 = Hour THEN 0 ELSE Abs(n) + 1
  <2>1. CASE n[2] + 1 < SPM
    <3>1. Tick(n) = <<n[1], n[2] + 1>>
      BY <2>1 DEF Tick
    <3>2. Abs(Tick(n)) = n[1] * SPM + (n[2] + 1)
      BY <3>1 DEF Abs
    <3>3. QED
      BY <1>1, <1>2, <2>1, <3>2
  <2>2. CASE n[2] + 1 = SPM /\ n[1] + 1 < MPH
    <3>1. (n[1] + 1) % MPH = n[1] + 1
      BY <1>1, <2>2
    <3>2. Tick(n) = <<n[1] + 1, 0>>
      BY <1>1, <2>2, <3>1 DEF Tick
    <3>3. Abs(Tick(n)) = (n[1] + 1) * SPM + 0 /\ (n[1] + 1) * SPM = n[1] * SPM + SPM
      BY <1>1, <3>2 DEF Abs
    <3>4. (n[1] + 2) * SPM <= Hour /\ (n[1] + 2) * SPM = n[1] * SPM + SPM + SPM
      <4>1. n[1] + 2 \in Nat /\ n[1] + 2 <= MPH
        BY <1>1, <2>2
      <4>2. QED
        BY <1>1, <4>1, TimesMonotone DEF Hour
    <3>5. QED
      BY <1>1, <1>2, <2>2, <3>3, <3>4
  <2>3. CASE n[2] + 1 = SPM /\ n[1] + 1 = MPH
    <3>1. (n[1] + 1) % MPH = 0
      BY <1>1, <2>3
    <3>2. Tick(n) = <<0, 0>>
      BY <1>1, <2>3, <3>1 DEF Tick
    <3>3. Abs(Tick(n)) = 0 * SPM + 0 /\ 0 * SPM = 0
      BY <1>1, <3>2 DEF Abs
    <3>4. Hour = n[1] * SPM + SPM
      <4>1. (n[1] + 1) * SPM = n[1] * SPM + SPM
        BY <1>1, TimesMonotone
      <4>2. QED
        BY <2>3, <4>1 DEF Hour
    <3>5. QED
      BY <1>1, <1>2, <2>3, <3>3, <3>4
  <2>4. QED
    BY <1>1, <2>1, <2>2, <2>3
<1>4. Tick(n) \in Reading
  BY TickReading
<1>5. TrueElapsed(s, Tick(n)) = IF Abs(Tick(n)) >= Abs(s) THEN Abs(Tick(n)) - Abs(s)
                                ELSE Abs(Tick(n)) - Abs(s) + Hour
  BY <1>4, TrueElapsedIs
<1>6. TrueElapsed(s, n) = IF Abs(n) >= Abs(s) THEN Abs(n) - Abs(s)
                          ELSE Abs(n) - Abs(s) + Hour
  BY TrueElapsedIs
<1>7. QED
  BY <1>2, <1>3, <1>5, <1>6

-----------------------------------------------------------------------------
(***************************************************************************)
(* The loop of get_time_final.  First the types: the count passes SPM by   *)
(* one at most, because the cap is tested once in each round.              *)
(***************************************************************************)
CountRange ==
  /\ CallTypeOK
  /\ local # clock => overwritten
  /\ csec <= utime
  /\ at = "ahead" => utime < SPM
  /\ at \in {"behind", "later"} => utime <= SPM

LEMMA InitCountRange == CallInit => CountRange
<1> SUFFICES ASSUME CallInit PROVE CountRange
  OBVIOUS
<1>1. start \in Reading /\ local \in Reading
  BY DEF CallInit
<1>2. TrueElapsed(start, local) \in Nat
  BY <1>1, TrueElapsedIs, AbsRange
<1>3. elapsed \in 0..SPM
  <2>1. elapsed = Least(SPM, TrueElapsed(start, local))
    BY DEF CallInit
  <2>2. QED
    BY <1>2, <2>1, ClockAssumption DEF Least
<1>4. /\ clock = local /\ utime = 0 /\ cmin = 0 /\ csec = 0 /\ idle = 1 /\ at = "zero"
      /\ overwritten = FALSE /\ torn = FALSE
  BY DEF CallInit
<1>5. 0 \in 0..SPM /\ 0 \in 0..(SPM + 1) /\ 1 \in 1..(SPM + 1)
  BY ClockAssumption
<1>6. CallTypeOK
  BY <1>1, <1>3, <1>4, <1>5 DEF CallTypeOK, Place
<1>7. csec <= utime
  BY <1>4
<1>8. QED
  BY <1>4, <1>6, <1>7 DEF CountRange

\* What a store of another thread leaves in local is a reading again, torn or
\* not, and the call itself does not move.
LEMMA StoreKeepsTypes ==
  ASSUME CountRange, Overwrite \/ StoreRest
  PROVE  /\ CountRange'
         /\ elapsed' >= elapsed /\ (torn => torn') /\ overwritten'
         /\ UNCHANGED <<start, utime, cmin, csec, idle, at>>
<1>1. UNCHANGED <<start, utime, cmin, csec, idle, at>> /\ overwritten'
  BY DEF Overwrite, StoreRest, counters, CountRange, CallTypeOK
<1>2. CASE StoreRest
  BY <1>1, <1>2 DEF StoreRest, CountRange, CallTypeOK
<1>3. CASE Overwrite
  <2>1. PICK r \in Reading :
          /\ clock' = r
          /\ elapsed' = Least(SPM, elapsed + TrueElapsed(clock, r))
          /\ \/ local' = <<r[1], local[2]>> /\ torn' = (torn \/ r[1] < local[1])
             \/ local' = <<local[1], r[2]>> /\ torn' = torn
    BY <1>3 DEF Overwrite
  <2>2. TrueElapsed(clock, r) \in Nat
    BY TrueElapsedIs, AbsRange DEF CountRange, CallTypeOK
  <2>3. elapsed' \in 0..SPM /\ elapsed' >= elapsed
    BY <2>1, <2>2, ClockAssumption DEF Least, CountRange, CallTypeOK
  <2>4. local' \in Reading
    BY <2>1 DEF CountRange, CallTypeOK, Reading
  <2>5. torn' \in BOOLEAN /\ (torn => torn')
    BY <2>1 DEF CountRange, CallTypeOK
  <2>6. QED
    BY <1>1, <2>1, <2>3, <2>4, <2>5, <1>3 DEF Overwrite, CountRange, CallTypeOK
<1>4. QED
  BY <1>2, <1>3

LEMMA StepCountRange == CountRange /\ [CallNext]_callVars => CountRange'
<1> SUFFICES ASSUME CountRange, [CallNext]_callVars PROVE CountRange'
  OBVIOUS
<1> USE ClockAssumption
<1>1. CASE HeadTest
  <2>1. /\ UNCHANGED <<start, utime, cmin, csec, idle, local, clock, elapsed, overwritten, torn>>
        /\ at' \in Place /\ at' \notin {"ahead", "behind", "later"}
    BY <1>1 DEF HeadTest, TestCarried, Test, counters, shared, Place
  <2>2. QED
    BY <2>1 DEF CountRange, CallTypeOK
<1>2. CASE Cap
  BY <1>2 DEF Cap, Idle, shared, CountRange, CallTypeOK, Place
<1>3. CASE CountSecond
  <2>1. /\ UNCHANGED <<start, idle, local, clock, elapsed, overwritten, torn>>
        /\ at = "ahead" /\ at' = "behind" /\ utime < SPM /\ csec < SPM
    BY <1>3 DEF CountSecond, shared, CountRange, CallTypeOK
  <2>2. /\ utime' \in 0..SPM /\ csec' \in 0..SPM /\ csec' <= utime' /\ cmin' = 0
    BY <1>3, <2>1 DEF CountSecond, CountRange, CallTypeOK
  <2>3. QED
    BY <2>1, <2>2 DEF CountRange, CallTypeOK, Place
<1>4. CASE Behind
  <2>1. /\ UNCHANGED <<start, utime, cmin, csec, idle, local, clock, elapsed, overwritten, torn>>
        /\ at = "behind" /\ at' \in {"later", "zero"}
    BY <1>4 DEF Behind, Test, counters, shared
  <2>2. QED
    BY <2>1 DEF CountRange, CallTypeOK, Place
<1>5. CASE CountCarry
  <2>1. /\ UNCHANGED <<start, cmin, csec, idle, local, clock, elapsed, overwritten, torn>>
        /\ at = "later" /\ at' = "zero" /\ utime' \in {utime, utime + 1}
    BY <1>5 DEF CountCarry, shared
  <2>2. QED
    BY <2>1 DEF CountRange, CallTypeOK, Place
<1>6. CASE Overwrite \/ StoreRest
  BY <1>6, StoreKeepsTypes
<1>7. CASE UNCHANGED callVars
  BY <1>7 DEF callVars, counters, shared, CountRange, CallTypeOK
<1>8. QED
  BY <1>1, <1>2, <1>3, <1>4, <1>5, <1>6, <1>7 DEF CallNext, Iterate

-----------------------------------------------------------------------------
(***************************************************************************)
(* A call that nobody disturbs returns the closed form Elapsed.  The loop  *)
(* invariant says that the count has not passed the result yet, that csec  *)
(* follows it, that the iteration count only runs away when the readings   *)
(* never advance anything, and which tests of the round have failed.       *)
(***************************************************************************)
\* The readings for which a round advances the count.
Counts == \/ local[2] > start[2]
          \/ local[2] < start[2] /\ local[1] > start[1]

Reached == utime + start[2] = local[2] /\ local[1] = start[1]
Carried == utime + start[2] > SPM /\ local[1] = start[1] + 1
Counted == local = <<cmin, csec>>

\* One of the exit tests holds.
Exit ==
  start = <<0, 0>> \/ start = local \/ Reached \/ Carried \/ Counted
    \/ utime >= SPM \/ idle > SPM

\* The places from each test on, up to where the round counts.
Round5 == {"cap", "ahead"}
Round4 == {"countedMin", "countedSec"} \cup Round5
Round3 == {"carried"} \cup Round4
Round2 == {"reachedSec", "reachedMin"} \cup Round3
Round1 == {"sameMin", "sameSec"} \cup Round2

\* The round is at its counting tests and has counted nothing yet.
Uncounted == at \in {"ahead", "later"} \/ (at = "behind" /\ local[2] <= start[2])

TestsFailed ==
  /\ at \in Round1 \/ Uncounted => start # <<0, 0>>
  /\ at = "sameSec" => local[1] = start[1]
  /\ at \in Round2 \/ Uncounted => start # local
  /\ at = "reachedMin" => utime + start[2] = local[2]
  /\ at \in Round3 \/ Uncounted => ~Reached
  /\ at \in Round4 \/ Uncounted => ~Carried
  /\ at = "countedSec" => cmin = local[1]
  /\ at \in Round5 \/ Uncounted => ~Counted
  /\ at \in {"ahead", "behind", "later"} /\ Uncounted => utime < SPM
  /\ at = "behind" /\ local[2] > start[2] => utime # 0
  /\ at = "later" => local[2] < start[2]
  /\ done => Exit

LoopInv ==
  ~overwritten =>
    /\ csec = IF local[2] > start[2] THEN utime ELSE 0
    /\ utime <= Elapsed(start, local)
    /\ Counts => /\ idle <= 2
                 /\ utime = 0 /\ at \notin {"ahead", "behind", "later"} => idle = 1
    /\ ~Counts => utime = 0
    /\ TestsFailed

LEMMA InitLoopInv == CallInit => LoopInv
<1> SUFFICES ASSUME CallInit PROVE LoopInv
  OBVIOUS
<1>1. Elapsed(start, local) \in 0..SPM
  BY ElapsedRange, ReadingMeasured DEF CallInit
<1>2. at = "zero"
  BY DEF CallInit
<1>3. TestsFailed
  BY <1>2 DEF TestsFailed, Round1, Round2, Round3, Round4, Round5, Uncounted, done
<1>4. QED
  BY <1>1, <1>3 DEF CallInit, LoopInv

LEMMA StepLoopInv == CountRange /\ LoopInv /\ [CallNext]_callVars => LoopInv'
<1> SUFFICES ASSUME CountRange, LoopInv, [CallNext]_callVars, ~overwritten' PROVE LoopInv'
  BY DEF LoopInv
<1>0. ~(Overwrite \/ StoreRest)
  BY StoreKeepsTypes
<1>1. /\ start = <<start[1], start[2]>> /\ local = <<local[1], local[2]>>
      /\ start[1] \in Int /\ start[2] \in Int /\ local[1] \in Int /\ local[2] \in Int
      /\ 0 <= start[1] /\ 0 <= start[2] /\ start[2] < SPM
      /\ 0 <= local[1] /\ 0 <= local[2] /\ local[2] < SPM
      /\ SPM \in Nat /\ SPM > 1
  BY ReadingParts, ClockAssumption DEF CountRange, CallTypeOK
<1>2. Elapsed(start, local) \in 0..SPM
  BY ElapsedRange, ReadingMeasured DEF CountRange, CallTypeOK
<1>3. /\ utime \in Nat /\ csec \in Nat /\ idle \in Nat /\ cmin = 0
      /\ (at = "ahead" => utime < SPM) /\ (at \in {"behind", "later"} => utime <= SPM)
  BY ClockAssumption DEF CountRange, CallTypeOK
<1>4. CASE HeadTest
  <2>1. /\ UNCHANGED <<start, utime, cmin, csec, idle, local, overwritten>>
        /\ at \notin {"ahead", "behind", "later", "out", "cap"}
        /\ at' \notin {"ahead", "behind", "later"}
    BY <1>4 DEF HeadTest, TestCarried, Test, counters, shared
  <2>2. ~overwritten /\ TestsFailed
    BY <2>1 DEF LoopInv
  <2>3. TestsFailed'
    BY <1>1, <1>3, <1>4, <2>1, <2>2 DEF HeadTest, TestCarried, Test, TestsFailed, Round1, Round2,
       Round3, Round4, Round5, Uncounted, done, Exit, Reached, Carried, Counted
  <2>4. QED
    BY <2>1, <2>2, <2>3 DEF LoopInv, Counts
<1>5. CASE Cap
  <2>1. /\ UNCHANGED <<start, utime, cmin, csec, local, overwritten>> /\ at = "cap"
        /\ ~overwritten /\ TestsFailed
    BY <1>5 DEF Cap, shared, LoopInv
  <2>2. CASE utime >= SPM \/ idle > SPM
    <3>1. at' = "out" /\ idle' = idle /\ Exit'
      BY <1>5, <2>1, <2>2 DEF Cap, Exit
    <3>2. TestsFailed'
      BY <3>1 DEF TestsFailed, Round1, Round2, Round3, Round4, Round5, Uncounted, done
    <3>3. QED
      BY <2>1, <3>1, <3>2 DEF LoopInv, Counts
  <2>3. CASE ~(utime >= SPM \/ idle > SPM)
    <3>1. at' = "ahead" /\ idle' = IF utime = 0 THEN idle + 1 ELSE idle
      BY <1>5, <2>1, <2>3 DEF Cap, Idle
    <3>2. TestsFailed'
      BY <1>3, <1>1, <2>1, <2>3, <3>1 DEF TestsFailed, Round1, Round2, Round3, Round4, Round5,
         Uncounted, done, Reached, Carried, Counted
    <3>3. Counts => idle' <= 2
      BY <1>3, <2>1, <3>1 DEF LoopInv
    <3>4. QED
      BY <2>1, <3>1, <3>2, <3>3 DEF LoopInv, Counts
  <2>4. QED
    BY <2>2, <2>3
<1>6. CASE CountSecond
  <2>1. /\ UNCHANGED <<start, idle, local, overwritten>>
        /\ at = "ahead" /\ at' = "behind" /\ ~overwritten /\ TestsFailed /\ Uncounted
    BY <1>6 DEF CountSecond, shared, LoopInv, Uncounted
  <2>2. CASE local[2] > start[2]
    <3>1. csec = utime /\ utime < SPM
      BY <1>3, <2>1, <2>2 DEF LoopInv
    <3>2. utime' = utime + 1 /\ csec' = utime + 1 /\ cmin' = 0
      BY <1>1, <1>3, <1>6, <2>2, <3>1 DEF CountSecond
    <3>3. ~NoTime(start, local)
      BY <1>1, <2>1, <2>2, <1>2, <1>3 DEF NoTime, TestsFailed, Round5, Counted, LoopInv, Elapsed
    <3>4. utime + 1 <= Elapsed(start, local)
      <4>1. ~Reached /\ ~Carried /\ ~Counted
        BY <2>1 DEF TestsFailed
      <4>2. local[1] = 0 => utime # local[2]
        BY <1>1, <1>3, <3>1, <4>1 DEF Counted
      <4>3. local[1] = start[1] => utime # local[2] - start[2]
        BY <1>1, <1>3, <4>1 DEF Reached
      <4>4. local[1] = start[1] + 1 => utime < SPM + 1 - start[2]
        BY <1>1, <1>3, <4>1 DEF Carried
      <4>5. utime <= Elapsed(start, local)
        BY <2>1 DEF LoopInv
      <4>6. QED
        BY <1>1, <1>3, <3>1, <3>3, <4>2, <4>3, <4>4, <4>5 DEF Elapsed, Least
    <3>5. TestsFailed'
      BY <1>1, <1>3, <2>1, <2>2, <3>2 DEF TestsFailed, Round1, Round2, Round3, Round4, Round5, Uncounted, done
    <3>6. QED
      BY <1>1, <1>3, <2>1, <2>2, <3>2, <3>4, <3>5 DEF LoopInv, Counts
  <2>3. CASE ~(local[2] > start[2])
    <3>1. UNCHANGED <<utime, cmin, csec>>
      BY <1>6, <2>3 DEF CountSecond
    <3>2. TestsFailed'
      BY <1>1, <1>3, <2>1, <2>3, <3>1 DEF TestsFailed, Round1, Round2, Round3, Round4, Round5,
         Uncounted, done, Reached, Carried, Counted
    <3>3. QED
      BY <2>1, <3>1, <3>2 DEF LoopInv, Counts
  <2>4. QED
    BY <2>2, <2>3
<1>7. CASE Behind
  <2>1. /\ UNCHANGED <<start, utime, cmin, csec, idle, local, overwritten>>
        /\ at = "behind" /\ ~overwritten /\ TestsFailed
        /\ at' = IF local[2] < start[2] THEN "later" ELSE "zero"
    BY <1>7 DEF Behind, Test, counters, shared, LoopInv
  <2>2. TestsFailed'
    BY <1>1, <1>3, <2>1 DEF TestsFailed, Round1, Round2, Round3, Round4, Round5, Uncounted, done,
       Reached, Carried, Counted
  <2>3. at' = "zero" /\ Counts => utime # 0
    <3>1. at' = "zero" /\ Counts => local[2] > start[2]
      BY <1>1, <2>1 DEF Counts
    <3>2. QED
      BY <2>1, <3>1 DEF TestsFailed
  <2>4. QED
    BY <2>1, <2>2, <2>3 DEF LoopInv, Counts
<1>8. CASE CountCarry
  <2>1. /\ UNCHANGED <<start, cmin, csec, idle, local, overwritten>>
        /\ at = "later" /\ at' = "zero" /\ ~overwritten /\ TestsFailed /\ Uncounted
        /\ utime' = IF local[1] > start[1] THEN utime + 1 ELSE utime
    BY <1>8 DEF CountCarry, shared, LoopInv, Uncounted
  <2>2. local[2] < start[2] /\ utime < SPM /\ ~Carried
    BY <2>1 DEF TestsFailed
  <2>3. TestsFailed'
    BY <2>1 DEF TestsFailed, Round1, Round2, Round3, Round4, Round5, Uncounted, done
  <2>4. CASE local[1] > start[1]
    <3>1. ~NoTime(start, local)
      BY <1>1, <2>1, <2>2, <2>4, <1>3 DEF NoTime, TestsFailed, Counted, LoopInv
    <3>2. local[1] = start[1] + 1 => utime < SPM + 1 - start[2]
      BY <1>1, <1>3, <2>2 DEF Carried
    <3>3. utime + 1 <= Elapsed(start, local)
      <4>1. CASE local[1] = start[1] + 1
        <5>1. Elapsed(start, local) = Least(SPM, SPM + 1 - start[2])
          BY <1>1, <3>1, <4>1 DEF Elapsed
        <5>2. QED
          BY <1>1, <1>3, <2>2, <3>2, <4>1, <5>1 DEF Least
      <4>2. CASE local[1] # start[1] + 1
        <5>1. Elapsed(start, local) = SPM
          BY <1>1, <2>4, <3>1, <4>2 DEF Elapsed
        <5>2. QED
          BY <1>1, <1>3, <2>2, <5>1
      <4>3. QED
        BY <4>1, <4>2
    <3>4. QED
      BY <1>1, <1>3, <2>1, <2>2, <2>3, <2>4, <3>3 DEF LoopInv, Counts
  <2>5. CASE ~(local[1] > start[1])
    BY <1>1, <2>1, <2>2, <2>3, <2>5 DEF LoopInv, Counts
  <2>6. QED
    BY <2>4, <2>5
<1>9. CASE UNCHANGED callVars
  BY <1>9 DEF callVars, counters, shared, LoopInv, TestsFailed, Counts, Uncounted, Exit, Reached,
     Carried, Counted, done
<1>10. QED
  BY <1>0, <1>4, <1>5, <1>6, <1>7, <1>8, <1>9 DEF CallNext, Iterate

LEMMA AlwaysLoopInv == CallSpec => [](CountRange /\ LoopInv)
<1>1. QED
  BY InitCountRange, StepCountRange, InitLoopInv, StepLoopInv, PTL DEF CallSpec

\* Type correctness of the loop: the counters stay within one minute, the
\* minute counter handed back through lmin is always zero.
THEOREM CallTypeCorrect == CallSpec => []CallTypeOK
<1>1. CountRange => CallTypeOK
  BY DEF CountRange
<1>2. QED
  BY <1>1, AlwaysLoopInv, PTL

\* On every clock face and for every pair of readings, get_time_final
\* returns Elapsed and hands back Lapse if no other thread disturbs it.
THEOREM LoopReturnsElapsed == CallSpec => []ReturnsElapsed
<1>1. CountRange /\ LoopInv => ReturnsElapsed
  <2> SUFFICES ASSUME CountRange, LoopInv, done, ~overwritten
               PROVE utime = Elapsed(start, local) /\ <<cmin, csec>> = Lapse(start, local)
    BY DEF ReturnsElapsed
  <2>1. /\ start = <<start[1], start[2]>> /\ local = <<local[1], local[2]>>
        /\ start[1] \in Int /\ start[2] \in Int /\ local[1] \in Int /\ local[2] \in Int
        /\ 0 <= start[1] /\ 0 <= start[2] /\ start[2] < SPM
        /\ 0 <= local[1] /\ 0 <= local[2] /\ local[2] < SPM
        /\ SPM \in Nat /\ SPM > 1
    BY ReadingParts, ClockAssumption DEF CountRange, CallTypeOK
  <2>2. Elapsed(start, local) \in 0..SPM
    BY ElapsedRange, ReadingMeasured DEF CountRange, CallTypeOK
  <2>3. /\ Exit /\ utime \in Nat /\ cmin = 0 /\ utime <= Elapsed(start, local)
        /\ csec = IF local[2] > start[2] THEN utime ELSE 0
        /\ (Counts => idle <= 2) /\ (~Counts => utime = 0) /\ idle \in Nat
        /\ (Counts /\ utime = 0 => idle = 1)
    BY ClockAssumption DEF LoopInv, CountRange, CallTypeOK, TestsFailed, done
  <2>4. CASE NoTime(start, local)
    <3>1. Elapsed(start, local) = 0
      BY <2>4 DEF Elapsed
    <3>2. QED
      BY <2>2, <2>3, <3>1 DEF Lapse
  <2>5. CASE ~NoTime(start, local)
    <3>1. Counts /\ ~(idle > SPM)
      BY <2>1, <2>3, <2>5 DEF NoTime, Counts
    <3>2. start # <<0, 0>> /\ start # local
      BY <2>1, <2>5 DEF NoTime
    <3>3. Counted => local[1] = 0 /\ utime = local[2]
      BY <2>1, <2>3, <2>5 DEF NoTime, Counted
    <3>4. utime = Elapsed(start, local)
      BY <2>1, <2>2, <2>3, <2>5, <3>1, <3>2, <3>3 DEF Exit, NoTime, Elapsed, Least, Reached, Carried
    <3>5. QED
      BY <2>1, <2>3, <3>4 DEF Lapse
  <2>6. QED
    BY <2>4, <2>5
<1>2. QED
  BY <1>1, AlwaysLoopInv, PTL

-----------------------------------------------------------------------------
(***************************************************************************)
(* A call that the others do disturb.  As long as less than a minute has   *)
(* passed, clock is start and elapsed seconds: in the same minute, in the  *)
(* next, or in minute 0 after the last of the hour.                        *)
(***************************************************************************)
InMinute(s, n, e)  == n[1] = s[1] /\ n[2] = s[2] + e
NextMinute(s, n, e) == n[1] = s[1] + 1 /\ n[2] + SPM = s[2] + e
NextHour(s, n, e)  == s[1] = MPH - 1 /\ n[1] = 0 /\ n[2] + SPM = s[2] + e

LEMMA NearReading ==
  ASSUME NEW s \in Reading, NEW n \in Reading, TrueElapsed(s, n) < SPM
  PROVE  \/ InMinute(s, n, TrueElapsed(s, n))
         \/ NextMinute(s, n, TrueElapsed(s, n))
         \/ NextHour(s, n, TrueElapsed(s, n))
<1> DEFINE a == s[1] * SPM
           b == n[1] * SPM
           T == TrueElapsed(s, n)
<1>1. /\ s[1] \in Nat /\ n[1] \in Nat /\ s[2] \in Nat /\ n[2] \in Nat
      /\ s[1] < MPH /\ n[1] < MPH /\ MPH \in Nat
      /\ s[2] < SPM /\ n[2] < SPM /\ SPM \in Nat /\ SPM > 1
  BY ClockAssumption DEF Reading, Minute, Second
<1>2. /\ a \in Nat /\ b \in Nat /\ Hour \in Nat
      /\ Abs(s) = a + s[2] /\ Abs(n) = b + n[2]
      /\ a + SPM <= Hour /\ b + SPM <= Hour
  BY AbsRange
<1>3. T = IF b + n[2] >= a + s[2] THEN b + n[2] - (a + s[2])
          ELSE b + n[2] - (a + s[2]) + Hour
  <2>1. T = IF Abs(n) >= Abs(s) THEN Abs(n) - Abs(s)
            ELSE Abs(n) - Abs(s) + Hour
    BY TrueElapsedIs
  <2> HIDE DEF a, b, T
  <2>2. QED
    BY <1>1, <1>2, <2>1
<1>4. CASE n[1] = s[1] /\ n[2] >= s[2]
  <2>1. a = b
    BY <1>4
  <2>2. T = n[2] - s[2]
    <3> HIDE DEF a, b, T
    <3>1. QED
      BY <1>1, <1>2, <1>3, <1>4, <2>1
  <2>3. QED
    BY <1>1, <1>4, <2>2 DEF InMinute
<1>5. CASE n[1] = s[1] /\ n[2] < s[2]
  <2>1. a = b
    BY <1>5
  <2>2. SPM + SPM <= Hour
    <3>1. 2 \in Nat /\ 2 <= MPH
      BY ClockAssumption
    <3>2. 2 * SPM <= MPH * SPM
      BY <1>1, <3>1, TimesMonotone
    <3>3. QED
      BY <1>1, <3>2 DEF Hour
  <2>3. T >= SPM
    <3> HIDE DEF a, b, T
    <3>1. QED
      BY <1>1, <1>2, <1>3, <1>5, <2>1, <2>2
  <2>4. QED
    BY <1>1, <1>2, <1>3, <2>3
<1>6. CASE n[1] = s[1] + 1
  <2>1. b = a + SPM
    BY <1>1, <1>6, TimesMonotone
  <2>2. T = SPM + n[2] - s[2]
    <3> HIDE DEF a, b, T
    <3>1. QED
      BY <1>1, <1>2, <1>3, <2>1
  <2>3. QED
    BY <1>1, <1>6, <2>2 DEF NextMinute
<1>7. CASE n[1] > s[1] + 1
  <2>1. a + SPM + SPM <= b
    <3>1. s[1] + 2 \in Nat /\ s[1] + 2 <= n[1]
      BY <1>1, <1>7
    <3>2. (s[1] + 2) * SPM <= b /\ (s[1] + 2) * SPM = a + SPM + SPM
      <4>1. (s[1] + 2) * SPM <= n[1] * SPM
        BY <1>1, <3>1, TimesMonotone
      <4>2. (s[1] + 2) * SPM = s[1] * SPM + SPM + SPM
        BY <1>1, TimesMonotone
      <4>3. QED
        BY <4>1, <4>2
    <3>3. QED
      BY <3>2
  <2>2. T >= SPM
    <3> HIDE DEF a, b, T
    <3>1. QED
      BY <1>1, <1>2, <1>3, <2>1
  <2>3. QED
    BY <1>1, <1>2, <1>3, <2>2
<1>8. CASE n[1] < s[1]
  <2>1. b + SPM <= a
    <3>1. n[1] + 1 \in Nat /\ n[1] + 1 <= s[1]
      BY <1>1, <1>8
    <3>2. (n[1] + 1) * SPM <= s[1] * SPM
      BY <1>1, <3>1, TimesMonotone
    <3>3. (n[1] + 1) * SPM = n[1] * SPM + SPM
      BY <1>1, TimesMonotone
    <3>4. QED
      BY <3>2, <3>3
  <2>2. T = b + n[2] - (a + s[2]) + Hour
    <3> HIDE DEF a, b, T
    <3>1. QED
      BY <1>1, <1>2, <1>3, <2>1
  <2>3. CASE n[1] = 0 /\ s[1] = MPH - 1
    <3>1. b = 0
      BY <1>1, <2>3
    <3>2. Hour = a + SPM
      <4>1. (s[1] + 1) * SPM = s[1] * SPM + SPM /\ s[1] + 1 = MPH
        BY <1>1, <2>3, TimesMonotone
      <4>2. QED
        BY <4>1 DEF Hour
    <3>3. T = n[2] - s[2] + SPM
      <4> HIDE DEF a, b, T
      <4>1. QED
        BY <1>1, <1>2, <2>2, <3>1, <3>2
    <3>4. QED
      BY <1>1, <2>3, <3>3 DEF NextHour
  <2>4. CASE n[1] > 0
    <3>1. b >= SPM
      <4>1. 1 \in Nat /\ 1 <= n[1]
        BY <1>1, <2>4
      <4>2. 1 * SPM <= n[1] * SPM
        BY <1>1, <4>1, TimesMonotone
      <4>3. QED
        BY <1>1, <4>2
    <3>2. T >= SPM
      <4> HIDE DEF a, b, T
      <4>1. QED
        BY <1>1, <1>2, <2>2, <3>1
    <3>3. QED
      BY <1>1, <1>2, <1>3, <3>2
  <2>5. CASE s[1] < MPH - 1
    <3>1. a + SPM + SPM <= Hour
      <4>1. s[1] + 2 \in Nat /\ s[1] + 2 <= MPH
        BY <1>1, <2>5
      <4>2. (s[1] + 2) * SPM <= MPH * SPM
        BY <1>1, <4>1, TimesMonotone
      <4>3. (s[1] + 2) * SPM = s[1] * SPM + SPM + SPM
        BY <1>1, TimesMonotone
      <4>4. QED
        BY <4>2, <4>3 DEF Hour
    <3>2. T >= SPM
      <4> HIDE DEF a, b, T
      <4>1. QED
        BY <1>1, <1>2, <2>2, <3>1
    <3>3. QED
      BY <1>1, <1>2, <1>3, <3>2
  <2>6. QED
    BY <1>1, <2>3, <2>4, <2>5
<1>9. QED
  BY <1>1, <1>4, <1>5, <1>6, <1>7, <1>8

\* Two such distances add up as long as they stay below a minute.
LEMMA NearAgain ==
  ASSUME NEW s \in Reading, NEW r \in Reading, NEW n \in Reading,
         NEW e \in Nat, NEW d \in Nat, e + d < SPM,
         InMinute(s, r, e) \/ NextMinute(s, r, e) \/ NextHour(s, r, e),
         InMinute(r, n, d) \/ NextMinute(r, n, d) \/ NextHour(r, n, d)
  PROVE  \/ InMinute(s, n, e + d) /\ InMinute(s, r, e)
         \/ NextMinute(s, n, e + d) /\ (InMinute(s, r, e) \/ NextMinute(s, r, e))
         \/ NextHour(s, n, e + d) /\ (InMinute(s, r, e) \/ NextHour(s, r, e))
<1>1. /\ s[1] \in Nat /\ n[1] \in Nat /\ s[2] \in Nat /\ n[2] \in Nat
      /\ r[1] \in Nat /\ r[2] \in Nat
      /\ s[1] < MPH /\ n[1] < MPH /\ MPH \in Nat
      /\ s[2] < SPM /\ n[2] < SPM /\ SPM \in Nat /\ SPM > 1
  BY ClockAssumption DEF Reading, Minute, Second
<1>2. QED
  BY <1>1 DEF InMinute, NextMinute, NextHour

(***************************************************************************)
(* How far the count can be.  In the minute of start it does not pass the  *)
(* second that local shows, which is clock's or an older one.  In the next *)
(* minute it is stopped by the carry test of a round at SPM, and a round   *)
(* counts two seconds at most.  When the hour has turned and local is not  *)
(* torn, local shows nothing to count.                                     *)
(***************************************************************************)
Sum == utime + start[2]

StillSame ==
  /\ InMinute(start, clock, elapsed)
  /\ local[1] = start[1] /\ local[2] <= clock[2]
  /\ Sum <= local[2]
  /\ at \in Round3 => Sum < local[2]
  /\ at # "later"

CarriedOver ==
  /\ NextMinute(start, clock, elapsed)
  /\ \/ local = <<start[1], clock[2]>> /\ Sum < SPM
     \/ /\ local[1] = start[1] + 1
        /\ Sum <= SPM + 2
        /\ at \in Round4 => Sum <= SPM
        /\ at \in {"behind", "later"} => Sum <= SPM + 1

TurnedOver ==
  /\ NextHour(start, clock, elapsed)
  /\ local[2] < start[2]
  /\ Sum < SPM

NearInv ==
  elapsed < SPM /\ ~torn => StillSame \/ CarriedOver \/ TurnedOver

LEMMA InitNearInv == CallInit => NearInv
<1> SUFFICES ASSUME CallInit, elapsed < SPM PROVE StillSame \/ CarriedOver \/ TurnedOver
  BY DEF NearInv
<1>1. /\ start \in Reading /\ local \in Reading /\ clock = local /\ utime = 0 /\ at = "zero"
      /\ elapsed = Least(SPM, TrueElapsed(start, local))
  BY DEF CallInit
<1>2. /\ start[2] \in Nat /\ start[2] < SPM /\ local[1] \in Nat /\ local[2] \in Nat
      /\ SPM \in Nat /\ local[2] < SPM
  BY <1>1, ReadingParts, ClockAssumption
<1>3. TrueElapsed(start, local) \in Nat
  BY <1>1, TrueElapsedIs, AbsRange
<1>4. elapsed = TrueElapsed(start, local) /\ elapsed < SPM
  BY <1>1, <1>2, <1>3 DEF Least
<1>5. InMinute(start, local, elapsed) \/ NextMinute(start, local, elapsed)
        \/ NextHour(start, local, elapsed)
  BY <1>1, <1>4, NearReading
<1>6. QED
  BY <1>1, <1>2, <1>3, <1>4, <1>5 DEF StillSame, CarriedOver, TurnedOver, InMinute, NextMinute,
     NextHour, Sum, Round3, Round4, Round5

\* A step of the call.
LEMMA IterateNearInv == ASSUME CountRange, NearInv, Iterate PROVE NearInv'
<1> SUFFICES ASSUME elapsed' < SPM, ~torn' PROVE (StillSame \/ CarriedOver \/ TurnedOver)'
  BY DEF NearInv
<1>1. UNCHANGED <<start, local, clock, elapsed, torn>>
  BY DEF Iterate, HeadTest, TestCarried, Test, Cap, CountSecond, Behind, CountCarry, shared
<1>2. StillSame \/ CarriedOver \/ TurnedOver
  BY <1>1 DEF NearInv
<1>3. /\ start[1] \in Nat /\ start[2] \in Nat /\ start[2] < SPM /\ SPM \in Nat
      /\ start[1] < MPH /\ MPH \in Nat
      /\ local[1] \in Nat /\ local[1] < MPH /\ local[2] \in Nat /\ local[2] < SPM
      /\ clock[2] \in Nat /\ elapsed \in Nat /\ utime \in Nat /\ elapsed < SPM
  BY <1>1, ClockAssumption DEF CountRange, CallTypeOK, Reading, Minute, Second
<1> USE DEF Sum, Round3, Round4, Round5, InMinute, NextMinute, NextHour
<1>4. CASE HeadTest
  <2>1. utime' = utime /\ at' \notin {"ahead", "behind", "later"}
    BY <1>4 DEF HeadTest, TestCarried, Test, counters
  <2>2. CASE StillSame
    <3>1. at' \in Round3 => at \in Round3 \/ (at = "reachedSec" /\ Sum # local[2])
      BY <1>1, <1>3, <1>4, <2>2 DEF HeadTest, TestCarried, Test, StillSame
    <3>2. QED
      BY <1>1, <1>3, <2>1, <2>2, <3>1 DEF StillSame
  <2>3. CASE CarriedOver
    <3>1. at' \in Round4 => at \in Round4
                            \/ (at = "carried" /\ ~(Sum > SPM /\ local[1] = start[1] + 1))
      BY <1>1, <1>3, <1>4, <2>3 DEF HeadTest, TestCarried, Test
    <3>2. QED
      BY <1>1, <1>3, <2>1, <2>3, <3>1 DEF CarriedOver
  <2>4. CASE TurnedOver
    BY <1>1, <1>3, <2>1, <2>4 DEF TurnedOver
  <2>5. QED
    BY <1>2, <2>2, <2>3, <2>4
<1>5. CASE Cap
  <2>1. utime' = utime /\ at = "cap" /\ at' \in {"out", "ahead"}
    BY <1>5 DEF Cap
  <2>2. QED
    BY <1>1, <1>2, <1>3, <2>1 DEF StillSame, CarriedOver, TurnedOver
<1>6. CASE CountSecond
  <2>1. /\ at = "ahead" /\ at' = "behind"
        /\ utime' = IF local[2] > start[2] THEN utime + 1 ELSE utime
    BY <1>6 DEF CountSecond
  <2>2. CASE StillSame
    BY <1>1, <1>3, <2>1, <2>2 DEF StillSame
  <2>3. CASE CarriedOver
    BY <1>1, <1>3, <2>1, <2>3 DEF CarriedOver
  <2>4. CASE TurnedOver
    BY <1>1, <1>3, <2>1, <2>4 DEF TurnedOver
  <2>5. QED
    BY <1>2, <2>2, <2>3, <2>4
<1>7. CASE Behind
  <2>1. /\ at = "behind" /\ utime' = utime
        /\ at' = IF local[2] < start[2] THEN "later" ELSE "zero"
    BY <1>7 DEF Behind, Test, counters
  <2>2. QED
    BY <1>1, <1>2, <1>3, <2>1 DEF StillSame, CarriedOver, TurnedOver
<1>8. CASE CountCarry
  <2>1. /\ at = "later" /\ at' = "zero"
        /\ utime' = IF local[1] > start[1] THEN utime + 1 ELSE utime
    BY <1>8 DEF CountCarry
  <2>2. CASE CarriedOver
    BY <1>1, <1>3, <2>1, <2>2 DEF CarriedOver
  <2>3. CASE TurnedOver
    <3>1. ~(local[1] > start[1])
      BY <1>3, <2>3 DEF TurnedOver
    <3>2. QED
      BY <1>1, <1>3, <2>1, <2>3, <3>1 DEF TurnedOver
  <2>4. QED
    BY <1>2, <2>1, <2>2, <2>3 DEF StillSame
<1>9. QED
  BY <1>4, <1>5, <1>6, <1>7, <1>8 DEF Iterate

\* A store of another thread.
LEMMA OverwriteNearInv == ASSUME CountRange, NearInv, Overwrite PROVE NearInv'
<1> SUFFICES ASSUME elapsed' < SPM, ~torn' PROVE (StillSame \/ CarriedOver \/ TurnedOver)'
  BY DEF NearInv
<1>1. /\ start' = start /\ utime' = utime /\ at' = at /\ local = clock
  BY DEF Overwrite, counters
<1>2. PICK r \in Reading :
        /\ clock' = r
        /\ elapsed' = Least(SPM, elapsed + TrueElapsed(clock, r))
        /\ \/ local' = <<r[1], local[2]>> /\ torn' = (torn \/ r[1] < local[1])
           \/ local' = <<local[1], r[2]>> /\ torn' = torn
  BY DEF Overwrite
<1> DEFINE d == TrueElapsed(clock, r)
<1>3. /\ start \in Reading /\ clock \in Reading /\ local \in Reading
      /\ utime \in Nat /\ elapsed \in Nat /\ elapsed <= SPM /\ SPM \in Nat
  BY ClockAssumption DEF CountRange, CallTypeOK
<1>4. d \in Nat
  BY <1>3, TrueElapsedIs, AbsRange
<1>5. elapsed' = elapsed + d /\ elapsed + d < SPM /\ elapsed < SPM /\ d < SPM
  BY <1>2, <1>3, <1>4 DEF Least
<1>6. ~torn
  BY <1>2
<1>7. StillSame \/ CarriedOver \/ TurnedOver
  BY <1>5, <1>6 DEF NearInv
<1>8. InMinute(clock, r, d) \/ NextMinute(clock, r, d) \/ NextHour(clock, r, d)
  BY <1>3, <1>5, NearReading
<1>9. /\ start[1] \in Nat /\ start[2] \in Nat /\ start[2] < SPM /\ SPM > 1
      /\ start[1] < MPH /\ MPH \in Nat /\ MPH > 1
      /\ local[1] \in Nat /\ local[1] < MPH /\ local[2] \in Nat /\ local[2] < SPM
      /\ r[1] \in Nat /\ r[1] < MPH /\ r[2] \in Nat /\ r[2] < SPM
  BY <1>3, ClockAssumption DEF Reading, Minute, Second
<1>10. InMinute(start, clock, elapsed) \/ NextMinute(start, clock, elapsed)
         \/ NextHour(start, clock, elapsed)
  BY <1>7 DEF StillSame, CarriedOver, TurnedOver
<1> HIDE DEF d
<1>11. \/ InMinute(start, r, elapsed + d) /\ InMinute(start, clock, elapsed)
       \/ NextMinute(start, r, elapsed + d)
            /\ (InMinute(start, clock, elapsed) \/ NextMinute(start, clock, elapsed))
       \/ NextHour(start, r, elapsed + d)
            /\ (InMinute(start, clock, elapsed) \/ NextHour(start, clock, elapsed))
  BY <1>3, <1>4, <1>5, <1>8, <1>10, NearAgain
<1>12. CASE InMinute(start, r, elapsed + d) /\ InMinute(start, clock, elapsed)
  <2>1. StillSame
    BY <1>7, <1>9, <1>12 DEF CarriedOver, TurnedOver, InMinute, NextMinute, NextHour
  <2>2. local' \in {local, r} /\ local[2] <= r[2] /\ r[1] = local[1]
    BY <1>1, <1>2, <1>3, <1>4, <1>9, <1>12, <2>1, ReadingParts DEF StillSame, InMinute
  <2>3. StillSame'
    BY <1>1, <1>2, <1>3, <1>5, <1>9, <1>12, <2>1, <2>2 DEF StillSame, InMinute, Sum, Round3, Round4, Round5
  <2>4. QED
    BY <2>3
<1>13. CASE NextMinute(start, r, elapsed + d) /\ InMinute(start, clock, elapsed)
  <2>1. StillSame
    BY <1>7, <1>9, <1>13 DEF CarriedOver, TurnedOver, InMinute, NextMinute, NextHour
  <2>2. Sum < SPM /\ Sum' = Sum /\ Sum \in Nat
    BY <1>1, <1>3, <1>9, <2>1 DEF StillSame, Sum
  <2>3. local' = <<start[1], r[2]>> \/ local'[1] = start[1] + 1
    BY <1>2, <1>13, <2>1 DEF StillSame, NextMinute
  <2>4. CarriedOver'
    BY <1>1, <1>2, <1>3, <1>5, <1>9, <1>13, <2>2, <2>3 DEF CarriedOver, NextMinute
  <2>5. QED
    BY <2>4
<1>14. CASE NextMinute(start, r, elapsed + d) /\ NextMinute(start, clock, elapsed)
  <2>1. CarriedOver /\ local[1] = start[1] + 1
    BY <1>1, <1>7, <1>9, <1>14 DEF StillSame, TurnedOver, InMinute, NextMinute, NextHour
  <2>2. Sum' = Sum /\ Sum \in Nat
    BY <1>1, <1>3, <1>9 DEF Sum
  <2>3. local'[1] = start[1] + 1
    BY <1>2, <1>14, <2>1 DEF NextMinute
  <2>4. CarriedOver'
    BY <1>1, <1>2, <1>5, <1>9, <1>14, <2>1, <2>2, <2>3 DEF CarriedOver, NextMinute, Round4, Round5
  <2>5. QED
    BY <2>4
<1>15. CASE NextHour(start, r, elapsed + d) /\ InMinute(start, clock, elapsed)
  <2>1. StillSame
    BY <1>7, <1>9, <1>15 DEF CarriedOver, TurnedOver, InMinute, NextMinute, NextHour
  <2>2. Sum < SPM /\ Sum' = Sum /\ Sum \in Nat
    BY <1>1, <1>3, <1>9, <2>1 DEF StillSame, Sum
  <2>3. r[1] < local[1]
    BY <1>9, <1>15, <2>1 DEF StillSame, NextHour
  <2>4. local' = <<local[1], r[2]>>
    BY <1>2, <2>3
  <2>5. r[2] < start[2]
    BY <1>3, <1>4, <1>5, <1>9, <1>15 DEF NextHour
  <2>6. TurnedOver'
    BY <1>1, <1>2, <1>5, <1>9, <1>15, <2>2, <2>4, <2>5 DEF TurnedOver, NextHour
  <2>7. QED
    BY <2>6
<1>16. CASE NextHour(start, r, elapsed + d) /\ NextHour(start, clock, elapsed)
  <2>1. TurnedOver
    BY <1>7, <1>9, <1>16 DEF CarriedOver, StillSame, InMinute, NextMinute, NextHour
  <2>2. Sum' = Sum
    BY <1>1 DEF Sum
  <2>3. r[2] < start[2]
    BY <1>3, <1>4, <1>5, <1>9, <1>16 DEF NextHour
  <2>4. local'[2] < start[2]
    BY <1>2, <2>1, <2>3 DEF TurnedOver
  <2>5. TurnedOver'
    BY <1>1, <1>2, <1>5, <1>16, <2>1, <2>2, <2>4 DEF TurnedOver, NextHour
  <2>6. QED
    BY <2>5
<1>17. QED
  BY <1>11, <1>12, <1>13, <1>14, <1>15, <1>16

LEMMA StoreRestNearInv == ASSUME CountRange, NearInv, StoreRest PROVE NearInv'
<1> SUFFICES ASSUME elapsed' < SPM, ~torn' PROVE (StillSame \/ CarriedOver \/ TurnedOver)'
  BY DEF NearInv
<1>1. /\ local' = clock /\ UNCHANGED <<start, utime, at, clock, elapsed, torn>>
  BY DEF StoreRest, counters
<1>2. StillSame \/ CarriedOver \/ TurnedOver
  BY <1>1 DEF NearInv
<1>3. /\ start[1] \in Nat /\ start[2] \in Nat /\ start[2] < SPM /\ SPM \in Nat
      /\ local[1] \in Nat /\ local[2] \in Nat /\ local[2] < SPM
      /\ clock[1] \in Nat /\ clock[2] \in Nat /\ elapsed \in Nat /\ utime \in Nat /\ elapsed < SPM
  BY <1>1, ClockAssumption DEF CountRange, CallTypeOK, Reading, Minute, Second
<1>4. Sum' = Sum /\ Sum \in Nat
  BY <1>1, <1>3 DEF Sum
<1>5. CASE StillSame
  BY <1>1, <1>3, <1>4, <1>5 DEF StillSame, InMinute, Round3, Round4, Round5
<1>6. CASE CarriedOver
  BY <1>1, <1>3, <1>4, <1>6 DEF CarriedOver, NextMinute, Round4, Round5
<1>7. CASE TurnedOver
  BY <1>1, <1>3, <1>4, <1>7 DEF TurnedOver, NextHour
<1>8. QED
  BY <1>2, <1>5, <1>6, <1>7

LEMMA StepNearInv == CountRange /\ NearInv /\ [CallNext]_callVars => NearInv'
<1>1. ASSUME NearInv, UNCHANGED callVars PROVE NearInv'
  BY <1>1 DEF callVars, counters, shared, NearInv, StillSame, CarriedOver, TurnedOver, InMinute,
     NextMinute, NextHour, Sum
<1>2. QED
  BY <1>1, IterateNearInv, OverwriteNearInv, StoreRestNearInv DEF CallNext

\* On every clock face, whatever the other threads store when, the count is at
\* most two seconds ahead of the time that passed unless the hour turns torn;
\* undisturbed it is one second ahead at most, that only when the clock shows
\* second zero, and within one minute it is exact.
THEOREM AheadByTwo == CallSpec => []AheadAtMostTwo
<1>1. CountRange /\ NearInv /\ ReturnsElapsed => AheadAtMostTwo
  <2> SUFFICES ASSUME CountRange, NearInv, ReturnsElapsed, done PROVE AheadAtMostTwo
    BY DEF AheadAtMostTwo
  <2>1. /\ start \in Reading /\ local \in Reading /\ SPM \in Nat
        /\ utime \in 0..(SPM + 1) /\ elapsed \in 0..SPM
        /\ start[2] \in Nat /\ local[2] \in Nat /\ local[2] < SPM /\ clock[2] \in Nat
    BY ClockAssumption DEF CountRange, CallTypeOK, Reading, Minute, Second
  <2>2. utime <= elapsed + 2 \/ torn
    BY <2>1 DEF NearInv, StillSame, CarriedOver, TurnedOver, InMinute, NextMinute, NextHour, Sum
  <2>3. ASSUME ~overwritten
        PROVE  /\ \/ utime <= TrueElapsed(start, local)
                  \/ utime = TrueElapsed(start, local) + 1 /\ local[2] = 0
               /\ (start[1] = local[1] /\ start[2] <= local[2] /\ start # <<0, 0>>)
                    => utime = TrueElapsed(start, local)
    <3>1. utime = Elapsed(start, local)
      BY <2>3 DEF ReturnsElapsed
    <3>2. QED
      BY <2>1, <3>1, ElapsedAhead
  <2>4. QED
    BY <2>2, <2>3 DEF AheadAtMostTwo
<1>2. CallSpec => []NearInv
  BY InitCountRange, StepCountRange, InitNearInv, StepNearInv, PTL DEF CallSpec
<1>3. QED
  BY <1>1, <1>2, AlwaysLoopInv, LoopReturnsElapsed, PTL

-----------------------------------------------------------------------------
(***************************************************************************)
(* The slot pool.                                                          *)
(***************************************************************************)
\* Where the cursor can be: a slot other than the last, or no slot at all.
LEMMA CursorRange == RandStr \subseteq (0..(N - 2)) \cup {Nowhere}
<1> SUFFICES ASSUME NEW r \in 0..(N - 1)
             PROVE  (r - 1) % USHORT \in (0..(N - 2)) \cup {Nowhere}
  BY DEF RandStr
<1>1. CASE r = 0
  <2>1. (r - 1) % USHORT = USHORT - 1
    BY <1>1, PoolAssumption
  <2>2. QED
    BY <2>1 DEF Nowhere
<1>2. CASE r # 0
  <2>1. r - 1 \in 0..(N - 2)
    BY <1>2, PoolAssumption
  <2>2. (r - 1) % USHORT = r - 1
    BY <2>1, PoolAssumption
  <2>3. QED
    BY <2>1, <2>2
<1>3. QED
  BY <1>1, <1>2

\* The wrapped -1 numbers no slot, and the last slot is no cursor.
LEMMA CursorApart ==
  /\ Nowhere \notin Slot
  /\ N - 1 \in Slot
  /\ N - 1 \notin (0..(N - 2)) \cup {Nowhere}
BY PoolAssumption DEF Nowhere, Slot

\* TypeOK alone does not say that the numbers the two threads work with
\* between two of their steps are slots.
PoolInv ==
  /\ TypeOK
  /\ ppc = "stamped" => pos \in Slot
  /\ ppc = "select" => handle \in Slot
  /\ xpc = "core" => xi < N /\ code \in Slot

LEMMA InitPoolInv == Init => PoolInv
<1> SUFFICES ASSUME Init PROVE PoolInv
  OBVIOUS
<1>1. /\ 0 \in 0..N /\ NoSlot \in 0..N /\ 0 \in 0..(N - 2) /\ 0 \in 0..Limit
      /\ 0 \in Minute /\ 0 \in Second /\ 0 \in 0..SPM
  BY PoolAssumption, ClockAssumption DEF NoSlot, Minute, Second
<1>2. <<0, 0>> \in Reading /\ <<0, 0>> \in Minute \X (0..SPM)
  BY <1>1 DEF Reading
<1>3. QED
  BY <1>1, <1>2 DEF Init, PoolInv, TypeOK

LEMMA StepPoolInv == PoolInv /\ [Next]_vars => PoolInv'
<1> SUFFICES ASSUME PoolInv, [Next]_vars PROVE PoolInv'
  OBVIOUS
<1> USE DEF PoolInv, TypeOK
<1>1. /\ N \in Nat /\ N > 1 /\ Limit \in Nat /\ Limit > 0
      /\ Slot = 0..(N - 1)
  BY PoolAssumption DEF Slot
<1>2. CASE Second1
  <2>1. now' \in Reading
    BY <1>2, TickReading DEF Second1
  <2>2. age' \in [Slot -> 0..Limit]
    <3>1. \A i \in Slot : Least(age[i] + 1, Limit) \in 0..Limit
      BY <1>1 DEF Least
    <3>2. QED
      BY <1>2, <3>1 DEF Second1
  <2>3. QED
    BY <1>2, <2>1, <2>2 DEF Second1, sweeper, producer
<1>3. CASE Block
  <2>1. pos' \in 0..N /\ handle' \in 0..N /\ stack' \in 0..N
    BY <1>1, <1>3 DEF Block, NoSlot
  <2>2. ppc' = "create" /\ lost' = FALSE
    BY <1>3 DEF Block
  <2>3. QED
    BY <1>3, <2>1, <2>2 DEF Block, sweeper
<1>4. CASE SkipUsed
  BY <1>1, <1>4 DEF SkipUsed, sweeper
<1>5. CASE Stamp
  BY <1>1, <1>5 DEF Stamp, sweeper
<1>6. CASE Take
  BY <1>1, <1>6 DEF Take, sweeper
<1>7. CASE DropBlock
  BY <1>1, <1>7 DEF DropBlock, sweeper
<1>8. CASE SkipOther
  BY <1>1, <1>8 DEF SkipOther, sweeper
<1>9. CASE Select
  BY <1>1, <1>9 DEF Select, sweeper
<1>10. CASE LoseBlock
  BY <1>1, <1>10 DEF LoseBlock, sweeper
<1>11. CASE SweepBegin
  <2>1. now \in Minute \X (0..SPM)
    BY ReadingMeasured DEF Measured
  <2>2. brain' \in Minute \X (0..SPM)
    BY <1>11, <2>1 DEF SweepBegin
  <2>3. xi' \in 0..N
    BY <1>1, <1>11 DEF SweepBegin
  <2>4. xpc' = "find" /\ ticked' = FALSE
    BY <1>11 DEF SweepBegin
  <2>5. QED
    BY <1>11, <2>2, <2>3, <2>4 DEF SweepBegin, producer
<1>12. CASE FindMiss
  BY <1>1, <1>12 DEF FindMiss, producer
<1>13. CASE FindSlot
  BY <1>1, <1>13 DEF FindSlot, producer, Release
<1>14. CASE FindCore
  <2>1. brain' \in Minute \X (0..SPM)
    BY <1>14, LapseMeasured DEF FindCore, Measured
  <2>2. code' \in (0..(N - 2)) \cup {Nowhere}
    BY <1>14, CursorRange DEF FindCore
  <2>3. xi' \in 0..N
    BY <1>1, <1>14 DEF FindCore
  <2>4. QED
    BY <1>14, <2>1, <2>2, <2>3 DEF FindCore, producer, Release
<1>15. CASE SweepEnd
  <2>1. brain' \in Minute \X (0..SPM)
    BY <1>15, LapseMeasured DEF SweepEnd, Measured
  <2>2. QED
    BY <1>15, <2>1 DEF SweepEnd, producer
<1>16. CASE UNCHANGED vars
  BY <1>16 DEF vars, sweeper, producer
<1>17. QED
  BY <1>2, <1>3, <1>4, <1>5, <1>6, <1>7, <1>8, <1>9, <1>10, <1>11, <1>12,
     <1>13, <1>14, <1>15, <1>16 DEF Next, Producer, Sweeper

\* Type correctness of the pool, its clock and its two threads, for every
\* number of slots and every clock face.
THEOREM TypeCorrect == Spec => []TypeOK
<1>1. Init => PoolInv
  BY InitPoolInv
<1>2. PoolInv /\ [Next]_vars => PoolInv'
  BY StepPoolInv
<1>3. PoolInv => TypeOK
  BY DEF PoolInv
<1>4. QED
  BY <1>1, <1>2, <1>3, PTL DEF Spec

LEMMA PoolInvariant == Spec => []PoolInv
<1>1. Init => PoolInv
  BY InitPoolInv
<1>2. PoolInv /\ [Next]_vars => PoolInv'
  BY StepPoolInv
<1>3. QED
  BY <1>1, <1>2, PTL DEF Spec

-----------------------------------------------------------------------------
\* Only the two halves of librmc_find give a slot back, and only the slot the
\* cursor is at.
LEMMA ReleasedAtCursor ==
  ASSUME PoolInv, [Next]_vars, NEW i \in Slot, Released(i)
  PROVE  /\ FindSlot \/ FindCore
         /\ code \in Slot
         /\ i = code
<1> USE DEF Released
<1>1. status \in [Slot -> {"ENABLE", "PROCESS"}]
  BY DEF PoolInv, TypeOK
<1>2. ASSUME UNCHANGED status PROVE FALSE
  BY <1>2
<1>3. CASE Take
  BY <1>1, <1>3 DEF Take
<1>4. CASE FindSlot
  BY <1>1, <1>2, <1>4 DEF FindSlot, Release
<1>5. CASE FindCore
  BY <1>1, <1>2, <1>5 DEF FindCore, Release, PoolInv
<1>6. CASE UNCHANGED vars
  BY <1>2, <1>6 DEF vars
<1>7. CASE Second1 \/ Block \/ SkipUsed \/ Stamp \/ DropBlock \/ SkipOther
           \/ Select \/ LoseBlock
  BY <1>2, <1>7 DEF Second1, Block, SkipUsed, Stamp, DropBlock, SkipOther,
                    Select, LoseBlock
<1>8. CASE SweepBegin \/ FindMiss \/ SweepEnd
  BY <1>2, <1>8 DEF SweepBegin, FindMiss, SweepEnd
<1>9. QED
  BY <1>3, <1>4, <1>5, <1>6, <1>7, <1>8 DEF Next, Producer, Sweeper

\* The last slot of the list, once taken, is never given back.
THEOREM LastSlotStays == Spec => LastSlotPinned
<1>1. PoolInv /\ [Next]_vars => [~Released(N - 1)]_vars
  <2> SUFFICES ASSUME PoolInv, [Next]_vars, Released(N - 1) PROVE FALSE
    OBVIOUS
  <2>1. N - 1 = code
    BY ReleasedAtCursor, CursorApart
  <2>2. code \in (0..(N - 2)) \cup {Nowhere}
    BY DEF PoolInv, TypeOK
  <2>3. QED
    BY <2>1, <2>2, CursorApart
<1>2. QED
  BY <1>1, PoolInvariant, PTL DEF Spec, LastSlotPinned

\* A sweeper whose cursor became the wrapped -1 releases nothing any more.
THEOREM WedgeStays == Spec => WedgedForGood
<1> DEFINE Wedge == code = Nowhere =>
                      code' = Nowhere /\ \A i \in Slot : ~Released(i)
<1>1. PoolInv /\ [Next]_vars => [Wedge]_vars
  <2> SUFFICES ASSUME PoolInv, [Next]_vars, code = Nowhere
               PROVE  code' = Nowhere /\ \A i \in Slot : ~Released(i)
    OBVIOUS
  <2>1. code \notin Slot
    BY CursorApart
  <2>2. \A i \in Slot : ~Released(i)
    BY <2>1, ReleasedAtCursor
  <2>3. ~FindCore
    BY <2>1 DEF FindCore, PoolInv
  <2>4. code' = code
    BY <2>3 DEF Next, Producer, Sweeper, Second1, Block, SkipUsed, Stamp, Take,
       DropBlock, SkipOther, Select, LoseBlock, SweepBegin, FindMiss, FindSlot,
       SweepEnd, vars, sweeper
  <2>5. QED
    BY <2>2, <2>4
<1>2. QED
  BY <1>1, PoolInvariant, PTL DEF Spec, WedgedForGood

-----------------------------------------------------------------------------
(***************************************************************************)
(* The second lookup.  The sound thread walks towards its own slot; as     *)
(* long as nobody released it the walk cannot get past it.                 *)
(***************************************************************************)
AnswerInv ==
  /\ ppc = "select" => status[handle] = "PROCESS" \/ lost
  /\ ppc # "idle" => stack = NoSlot
  /\ AnswerLostOnlyIfReleased
  /\ LookupFindsOwnOrEarlier

LEMMA InitAnswerInv == Init => AnswerInv
BY DEF Init, AnswerInv, AnswerLostOnlyIfReleased, LookupFindsOwnOrEarlier

\* What librmc_find does to a slot leaves the invariant alone: when it is the
\* block's own slot, the release is recorded.
LEMMA ReleaseAnswerInv ==
  ASSUME PoolInv, AnswerInv, NEW c \in Slot,
         Release(c) \/ UNCHANGED <<status, lost>>, UNCHANGED producer
  PROVE  AnswerInv'
<1>1. status \in [Slot -> {"ENABLE", "PROCESS"}] /\ lost \in BOOLEAN
  BY DEF PoolInv, TypeOK
<1>2. lost => lost'
  BY DEF Release
<1>3. UNCHANGED <<ppc, pos, handle, stack>>
  BY DEF producer
<1>4. ppc = "select" => status'[handle] = "PROCESS" \/ lost'
  <2> SUFFICES ASSUME ppc = "select" PROVE status'[handle] = "PROCESS" \/ lost'
    OBVIOUS
  <2>1. handle \in Slot
    BY DEF PoolInv
  <2>2. QED
    BY <1>1, <1>2, <2>1 DEF Release, AnswerInv
<1>5. QED
  BY <1>2, <1>3, <1>4
     DEF AnswerInv, AnswerLostOnlyIfReleased, LookupFindsOwnOrEarlier, Alias

LEMMA StepAnswerInv == PoolInv /\ AnswerInv /\ [Next]_vars => AnswerInv'
<1> SUFFICES ASSUME PoolInv, AnswerInv, [Next]_vars PROVE AnswerInv'
  OBVIOUS
<1> USE DEF AnswerInv, AnswerLostOnlyIfReleased, LookupFindsOwnOrEarlier
<1>1. /\ status \in [Slot -> {"ENABLE", "PROCESS"}]
      /\ pos \in 0..N /\ handle \in 0..N
      /\ N \in Nat /\ Slot = 0..(N - 1) /\ NoSlot = N
  BY PoolAssumption DEF PoolInv, TypeOK, Slot, NoSlot
<1>2. CASE Block
  BY <1>2 DEF Block
<1>3. CASE Take
  <2>1. pos \in Slot /\ stack = NoSlot
    BY <1>3 DEF Take, PoolInv
  <2>2. status'[handle'] = "PROCESS" /\ ~(pos' > handle')
    BY <1>1, <1>3, <2>1 DEF Take
  <2>3. QED
    BY <1>3, <2>1, <2>2 DEF Take
<1>4. CASE SkipUsed \/ Stamp \/ DropBlock \/ LoseBlock
  BY <1>4 DEF SkipUsed, Stamp, DropBlock, LoseBlock, Alias
<1>5. CASE SkipOther
  <2>1. handle \in Slot
    BY <1>5 DEF SkipOther, PoolInv
  <2>2. pos = handle => lost
    BY <1>5 DEF SkipOther, Selects, Alias
  <2>3. pos' > handle' => lost'
    BY <1>1, <1>5, <2>2 DEF SkipOther
  <2>4. QED
    BY <1>5, <2>3 DEF SkipOther, Alias
<1>6. CASE Select
  BY <1>6 DEF Select, Selects, Alias
<1>7. CASE FindSlot
  BY <1>7, ReleaseAnswerInv DEF FindSlot
<1>8. CASE FindCore
  BY <1>8, ReleaseAnswerInv DEF FindCore, PoolInv
<1>9. CASE Second1 \/ SweepBegin \/ FindMiss \/ SweepEnd \/ UNCHANGED vars
  BY <1>9 DEF Second1, SweepBegin, FindMiss, SweepEnd, vars, producer, Alias
<1>10. QED
  BY <1>2, <1>3, <1>4, <1>5, <1>6, <1>7, <1>8, <1>9
     DEF Next, Producer, Sweeper

LEMMA AnswerInvariant == Spec => []AnswerInv
<1>1. Init => AnswerInv
  BY InitAnswerInv
<1>2. PoolInv /\ AnswerInv /\ [Next]_vars => AnswerInv'
  BY StepAnswerInv
<1>3. QED
  BY <1>1, <1>2, PoolInvariant, PTL DEF Spec

\* The second lookup passes over the block's own slot only if the sweeper
\* released it.
THEOREM AnswerLost == Spec => []AnswerLostOnlyIfReleased
<1>1. AnswerInv => AnswerLostOnlyIfReleased
  BY DEF AnswerInv
<1>2. QED
  BY <1>1, AnswerInvariant, PTL

\* The second lookup finds the block's own slot or an earlier one that shares
\* its code; a later one only if the own slot was released.
THEOREM LookupFinds == Spec => []LookupFindsOwnOrEarlier
<1>1. AnswerInv => LookupFindsOwnOrEarlier
  BY DEF AnswerInv
<1>2. QED
  BY <1>1, AnswerInvariant, PTL

-----------------------------------------------------------------------------
(***************************************************************************)
(* No slot is taken early.  NoEarlyRelease speaks of ages, the sweeper of  *)
(* clock readings: the invariant relates the two.  The age of a slot is    *)
(* the time its stamp shows, until it is Limit; a sweep in which the clock *)
(* has not ticked measures from now, or from the zero reading that the     *)
(* first measurement of the sweep left behind.                             *)
(***************************************************************************)
Dated(i) == \/ first[i] = <<0, 0>>
            \/ age[i] >= Limit
            \/ age[i] = TrueElapsed(first[i], now)

AgeInv ==
  /\ Limit < SPM => \A i \in Slot : Dated(i)
  /\ xpc # "sleep" /\ ~ticked => brain \in {now, <<0, 0>>}

LEMMA InitAgeInv == Init => AgeInv
BY DEF Init, AgeInv, Dated

\* The clock face holds more than a minute, and no time has passed since now.
LEMMA HourRange ==
  ASSUME NEW r \in Reading
  PROVE  Hour \in Nat /\ SPM <= Hour /\ TrueElapsed(r, r) = 0
<1>1. /\ Hour \in Nat /\ Abs(r) \in Nat /\ Abs(r) < Hour
      /\ r[1] * SPM \in Nat /\ r[1] * SPM + SPM <= Hour
  BY AbsRange
<1>2. TrueElapsed(r, r) = Abs(r) - Abs(r)
  BY <1>1, TrueElapsedIs
<1>3. QED
  BY <1>1, <1>2, ClockAssumption

LEMMA SecondDated ==
  ASSUME PoolInv, Second1, Limit < SPM, NEW i \in Slot, Dated(i)
  PROVE  Dated(i)'
<1>1. /\ first[i] \in Reading /\ now \in Reading /\ age[i] \in 0..Limit
      /\ Limit \in Nat /\ SPM \in Nat
  BY PoolAssumption, ClockAssumption DEF PoolInv, TypeOK
<1>2. /\ age'[i] = Least(age[i] + 1, Limit) /\ now' = Tick(now)
      /\ first'[i] = first[i]
  BY <1>1 DEF Second1
<1>3. CASE age[i] + 1 >= Limit
  BY <1>1, <1>2, <1>3 DEF Dated, Least
<1>4. CASE age[i] + 1 < Limit /\ age[i] = TrueElapsed(first[i], now)
  <2>1. Hour \in Nat /\ SPM <= Hour
    BY <1>1, HourRange
  <2>2. TrueElapsed(first[i], Tick(now)) = IF TrueElapsed(first[i], now) + 1 = Hour
                                           THEN 0 ELSE TrueElapsed(first[i], now) + 1
    BY <1>1, TickElapsed
  <2>3. TrueElapsed(first[i], Tick(now)) = age[i] + 1
    BY <1>1, <1>4, <2>1, <2>2
  <2>4. age'[i] = age[i] + 1
    BY <1>1, <1>2, <1>4 DEF Least
  <2>5. QED
    BY <1>2, <2>3, <2>4 DEF Dated
<1>5. CASE first[i] = <<0, 0>>
  BY <1>2, <1>5 DEF Dated
<1>6. QED
  BY <1>1, <1>3, <1>4, <1>5 DEF Dated

\* Nothing is measured from the zero reading, nor from now.
LEMMA NothingMeasured ==
  ASSUME NEW s, NEW n \in Reading, s \in {n, <<0, 0>>}
  PROVE  Elapsed(s, n) = 0 /\ Lapse(s, n) = <<0, 0>>
<1>1. Elapsed(s, n) = 0
  BY DEF Elapsed, NoTime
<1>2. n[2] \in Int /\ 0 <= n[2]
  BY ReadingParts
<1>3. QED
  BY <1>1, <1>2 DEF Lapse

LEMMA StepAgeInv == PoolInv /\ AgeInv /\ [Next]_vars => AgeInv'
<1> SUFFICES ASSUME PoolInv, AgeInv, [Next]_vars PROVE AgeInv'
  OBVIOUS
<1>0. /\ now \in Reading /\ first \in [Slot -> Reading]
      /\ age \in [Slot -> 0..Limit]
  BY DEF PoolInv, TypeOK
<1>1. CASE Second1
  BY <1>1, SecondDated DEF AgeInv, Second1, sweeper
<1>2. CASE Stamp
  <2>1. ASSUME NEW i \in Slot, Dated(i) PROVE Dated(i)'
    <3>1. CASE i = pos
      <4>1. first'[i] = now /\ now' = now /\ age'[i] = 0
        BY <1>0, <1>2, <3>1 DEF Stamp
      <4>2. TrueElapsed(now, now) = 0
        BY <1>0, HourRange
      <4>3. QED
        BY <4>1, <4>2 DEF Dated
    <3>2. CASE i # pos
      BY <1>0, <1>2, <2>1, <3>2 DEF Stamp, Dated
    <3>3. QED
      BY <3>1, <3>2
  <2>2. QED
    BY <1>2, <2>1 DEF AgeInv, Stamp, sweeper
<1>3. CASE SweepBegin
  BY <1>3 DEF AgeInv, SweepBegin, Dated
<1>4. CASE FindCore
  <2>1. Lapse(brain, now) = <<0, 0>> \/ ticked
    BY <1>0, <1>4, NothingMeasured DEF FindCore, AgeInv
  <2>2. QED
    BY <1>4, <2>1 DEF AgeInv, FindCore, Dated
<1>5. CASE SweepEnd
  BY <1>5 DEF AgeInv, SweepEnd, Dated
<1>6. CASE Block \/ SkipUsed \/ Take \/ DropBlock \/ SkipOther \/ Select
           \/ LoseBlock
  BY <1>6 DEF Block, SkipUsed, Take, DropBlock, SkipOther, Select, LoseBlock,
              AgeInv, Dated, sweeper
<1>7. CASE FindMiss \/ FindSlot \/ UNCHANGED vars
  BY <1>7 DEF FindMiss, FindSlot, AgeInv, Dated, vars, sweeper
<1>8. QED
  BY <1>1, <1>2, <1>3, <1>4, <1>5, <1>6, <1>7 DEF Next, Producer, Sweeper

\* A slot whose timer has run out has its age.
LEMMA TimedOutAged ==
  ASSUME PoolInv, AgeInv, NEW i \in Slot, TimedOut(first[i])
  PROVE  age[i] >= Limit
<1>1. /\ first[i] \in Reading /\ now \in Reading /\ age[i] \in 0..Limit
      /\ Limit \in Nat /\ SPM \in Nat
  BY PoolAssumption, ClockAssumption DEF PoolInv, TypeOK
<1>2. Elapsed(first[i], now) \in 0..SPM /\ Elapsed(first[i], now) > Limit
  BY <1>1, ElapsedRange, ReadingMeasured DEF TimedOut
<1>3. Limit < SPM /\ Dated(i)
  BY <1>1, <1>2 DEF AgeInv
<1>4. first[i] # <<0, 0>>
  <2>1. first[i] = <<0, 0>> => Elapsed(first[i], now) = 0
    BY DEF Elapsed, NoTime
  <2>2. QED
    BY <1>1, <1>2, <2>1
<1>5. CASE age[i] = TrueElapsed(first[i], now)
  BY <1>1, <1>2, <1>5, ElapsedAhead
<1>6. QED
  BY <1>3, <1>4, <1>5 DEF Dated

\* The sweeper takes no slot before its time, unless the clock ticked in the
\* middle of its sweep.
THEOREM NotReleasedEarly == Spec => NoEarlyRelease
<1> DEFINE Aged == \A i \in Slot : Released(i) => age[i] >= Limit \/ ticked
<1>1. PoolInv /\ AgeInv /\ [Next]_vars => [Aged]_vars
  <2> SUFFICES ASSUME PoolInv, AgeInv, [Next]_vars, NEW i \in Slot, Released(i),
                      ~ticked
               PROVE  age[i] >= Limit
    OBVIOUS
  <2>1. (FindSlot \/ FindCore) /\ code \in Slot /\ i = code
    BY ReleasedAtCursor
  <2>2. CASE FindSlot
    <3>1. TimedOut(first[i])
      BY <2>1, <2>2 DEF FindSlot, Released
    <3>2. QED
      BY <3>1, TimedOutAged
  <2>3. CASE FindCore
    <3>1. TimedOut(brain)
      BY <2>1, <2>3 DEF FindCore, Released
    <3>2. now \in Reading /\ brain \in {now, <<0, 0>>}
      BY <2>3 DEF PoolInv, TypeOK, FindCore, AgeInv
    <3>3. Elapsed(brain, now) = 0
      BY <3>2, NothingMeasured
    <3>4. QED
      BY <3>1, <3>3, PoolAssumption DEF TimedOut
  <2>4. QED
    BY <2>1, <2>2, <2>3
<1>2. QED
  BY <1>1, PoolInvariant, InitAgeInv, StepAgeInv, PTL DEF Spec, NoEarlyRelease

-----------------------------------------------------------------------------

(***************************************************************************)
(* The invariant says, for each phase of the close thread, exactly which   *)
(* entries hold a handle and which threads have been cancelled: nothing    *)
(* less is inductive, since both change one entry at a time and the        *)
(* sweeper's out of turn.                                                  *)
(***************************************************************************)
Started(t) == entry[t] = "linked" /\ tid[t] /\ run[t] = "running"
Blank(t)   == entry[t] = "none" /\ ~tid[t] /\ run[t] = "none"

\* Before the close thread: entries up to main's are complete.
Registering ==
  cpc = "none" =>
    /\ ~dead /\ cancelled = {} /\ ci = 1 /\ thcount = mi - 1
    /\ mpc \in {"create", "link", "count"}
    /\ mpc # "create" => mi \in Thread
    /\ \A m \in Module : lib[m] = "in"
    /\ \A t \in Thread :
         /\ t < mi => Started(t)
         /\ t > mi => Blank(t)
         /\ t = mi => /\ mpc = "create" => Blank(t)
                      /\ mpc = "link" => entry[t] = "none" /\ ~tid[t] /\ run[t] = "running"
                      /\ mpc = "count" => Started(t)

Cancelling == {"xsd", "xsdclear", "cancel", "clear", "free"}

\* The threads that have been cancelled, and those whose handle is still there.
Asked(t) ==
  \/ t = XSD /\ cpc # "xsd"
  \/ cpc = "cancel" /\ t < ci
  \/ cpc \in {"clear", "free"} /\ t <= ci

Handle(t) ==
  \/ cpc \in {"xsd", "xsdclear"}
  \/ t # XSD /\ (t > ci \/ (t = ci /\ cpc # "free"))

EmptyingRegistry ==
  cpc \in Cancelling =>
    /\ mpc \in {"serve", "rest"} /\ thcount = Last
    /\ cpc \in {"xsd", "xsdclear"} => ci = 1
    /\ cpc \in {"clear", "free"} => ci \in Thread
    /\ \A m \in Module : lib[m] = "in"
    /\ \A t \in Thread : /\ t \in cancelled <=> Asked(t)
                         /\ tid[t] <=> Handle(t)
                         /\ run[t] = "running" \/ t \in cancelled \/ dead

Unloading ==
  cpc \in {"exit", "struct", "unload", "done"} =>
    /\ mpc \in {"serve", "rest"} /\ thcount = 0
    /\ cancelled = Thread
    /\ ci <= NM + 1 /\ (cpc \in {"struct", "unload"} => ci \in Module)

\* What thi0 holds between its tests.
Walking ==
  /\ tpc \in {"detach", "join", "joining"} => /\ wi \in Thread
                                              /\ cpc = "none" => tid[wi]
  /\ tpc \in {"join", "joining"} => wi \in detached

ThreadInv == RegistryTypeOK /\ Registering /\ EmptyingRegistry /\ Unloading /\ Walking

-----------------------------------------------------------------------------
LEMMA Numbers ==
  /\ NM \in Nat /\ NM >= 1 /\ OWN \in Nat /\ Last \in Nat /\ Last > NM
  /\ XSD \in Thread /\ Module \subseteq Thread /\ XSD \notin Module
  /\ \A t \in Thread : t \in Nat /\ t >= 1 /\ t <= Last
  /\ \A t \in Nat : t >= 1 /\ t <= Last => t \in Thread
<1>1. NM \in Nat /\ NM # 0 /\ OWN \in Nat
  BY ThreadsAssumption
<1>2. QED
  BY <1>1 DEF Last, XSD, Module, Thread

LEMMA InitThreadInv == RegistryInit => ThreadInv
<1> SUFFICES ASSUME RegistryInit PROVE ThreadInv
  OBVIOUS
<1> USE Numbers
<1>1. RegistryTypeOK
  <2>1. thcount \in 0..Last /\ mi \in 1..(Last + 1) /\ ci \in 1..(Last + 1)
        /\ wi \in 1..(Last + 1)
    BY DEF RegistryInit
  <2>2. QED
    BY <2>1 DEF RegistryInit, RegistryTypeOK
<1>2. Registering
  BY DEF RegistryInit, Registering, Blank
<1>3. QED
  BY <1>1, <1>2 DEF RegistryInit, ThreadInv, EmptyingRegistry, Unloading, Walking, Cancelling

\* The numbers the threads are at.
LEMMA Places ==
  ASSUME RegistryTypeOK
  PROVE  /\ mi \in Nat /\ mi >= 1 /\ mi <= Last + 1
         /\ ci \in Nat /\ ci >= 1 /\ ci <= Last + 1
         /\ wi \in Nat /\ wi >= 1 /\ wi <= Last + 1
         /\ thcount \in Nat /\ thcount <= Last
BY Numbers DEF RegistryTypeOK

-----------------------------------------------------------------------------
\* main
LEMMA CreateKeeps == ASSUME ThreadInv, ~dead, Create PROVE ThreadInv'
<1> USE Numbers, Places DEF ThreadInv
<1>1. cpc = "none"
  BY DEF Create, Registering, EmptyingRegistry, Unloading, RegistryTypeOK, Cancelling
<1>2. /\ mpc = "create" /\ mpc' = "link" /\ mi' = mi /\ mi \in Thread
      /\ run' = [run EXCEPT ![mi] = "running"]
      /\ UNCHANGED <<thi, entry, tid, thcount, cancelled, detached, service, lib,
                     cpc, ci, wi, dead>>
  BY DEF Create, registry, modules, closer
<1>3. run'[mi] = "running" /\ \A t \in Thread : t # mi => run'[t] = run[t]
  BY <1>2 DEF RegistryTypeOK
<1>4. Blank(mi)
  BY <1>1, <1>2 DEF Registering
<1>5. Registering'
  BY <1>1, <1>2, <1>3, <1>4 DEF Registering, Started, Blank
<1>6. RegistryTypeOK'
  <2>1. tpc' = tpc \/ tpc' = "head"
    BY DEF Create
  <2>2. QED
    BY <1>2, <2>1 DEF RegistryTypeOK
<1>7. Walking'
  <2>1. tpc' = tpc \/ tpc' = "head"
    BY DEF Create
  <2>2. QED
    BY <1>2, <2>1 DEF Walking
<1>8. QED
  BY <1>1, <1>2, <1>5, <1>6, <1>7 DEF EmptyingRegistry, Unloading, Cancelling

LEMMA LinkKeeps == ASSUME ThreadInv, ~dead, Link PROVE ThreadInv'
<1> USE Numbers, Places DEF ThreadInv
<1>1. cpc = "none"
  BY DEF Link, Registering, EmptyingRegistry, Unloading, RegistryTypeOK, Cancelling
<1>2. /\ mpc = "link" /\ mpc' = "count" /\ mi' = mi /\ mi \in Thread
      /\ entry' = [entry EXCEPT ![mi] = "linked"]
      /\ tid' = [tid EXCEPT ![mi] = TRUE]
      /\ UNCHANGED <<thi, thcount, run, cancelled, detached, service, lib, cpc, ci,
                     tpc, wi, dead>>
  BY <1>1 DEF Link, Registering, threads, modules, closer, walker
<1>3. /\ entry'[mi] = "linked" /\ tid'[mi]
      /\ \A t \in Thread : t # mi => entry'[t] = entry[t] /\ tid'[t] = tid[t]
  BY <1>2 DEF RegistryTypeOK
<1>4. run[mi] = "running"
  BY <1>1, <1>2 DEF Registering
<1>5. Registering'
  BY <1>1, <1>2, <1>3, <1>4 DEF Registering, Started, Blank
<1>6. RegistryTypeOK'
  BY <1>2 DEF RegistryTypeOK
<1>7. Walking'
  BY <1>2, <1>3 DEF Walking
<1>8. QED
  BY <1>1, <1>2, <1>5, <1>6, <1>7 DEF EmptyingRegistry, Unloading, Cancelling

LEMMA CountUpKeeps == ASSUME ThreadInv, ~dead, CountUp PROVE ThreadInv'
<1> USE Numbers, Places DEF ThreadInv
<1>1. cpc = "none"
  BY DEF CountUp, Registering, EmptyingRegistry, Unloading, RegistryTypeOK, Cancelling
<1>2. /\ mpc = "count" /\ mpc' = "create" /\ mi' = mi + 1 /\ mi \in Thread
      /\ thcount' = thcount + 1 /\ thcount = mi - 1
      /\ UNCHANGED <<thi, entry, tid, run, cancelled, detached, service, lib, cpc,
                     ci, tpc, wi, dead>>
  BY <1>1 DEF CountUp, Registering, threads, modules, closer, walker
<1>3. Registering'
  <2>1. ASSUME NEW t \in Thread
        PROVE  (t < mi + 1 => Started(t)) /\ (t > mi => Blank(t))
    <3>1. t < mi + 1 => t < mi \/ t = mi
      OBVIOUS
    <3>2. QED
      BY <1>1, <1>2, <3>1 DEF Registering
  <2>2. ASSUME NEW t \in Thread
        PROVE  /\ (t < mi + 1 => Started(t)') /\ (t > mi => Blank(t)')
    BY <1>2, <2>1 DEF Started, Blank
  <2>3. thcount' = mi' - 1
    BY <1>2
  <2>4. QED
    BY <1>1, <1>2, <2>2, <2>3 DEF Registering
<1>4. RegistryTypeOK'
  <2>1. thcount' \in 0..Last /\ mi' \in 1..(Last + 1)
    BY <1>2
  <2>2. QED
    BY <1>2, <2>1 DEF RegistryTypeOK
<1>5. Walking'
  BY <1>2 DEF Walking
<1>6. QED
  BY <1>1, <1>2, <1>3, <1>4, <1>5 DEF EmptyingRegistry, Unloading, Cancelling

LEMMA StartCloseKeeps == ASSUME ThreadInv, ~dead, StartClose PROVE ThreadInv'
<1> USE Numbers, Places DEF ThreadInv
<1>1. cpc = "none"
  BY DEF StartClose, Registering, EmptyingRegistry, Unloading, RegistryTypeOK, Cancelling
<1>2. /\ mpc = "create" /\ mi = Last + 1 /\ mpc' = "serve" /\ mi' = 1 /\ cpc' = "xsd"
      /\ UNCHANGED <<thi, entry, tid, thcount, run, cancelled, detached, service,
                     lib, ci, tpc, wi, dead>>
  BY DEF StartClose, registry, threads, modules, walker
<1>3. \A t \in Thread : Started(t)
  BY <1>1, <1>2 DEF Registering
<1>4. /\ cancelled = {} /\ ci = 1 /\ thcount = Last /\ \A m \in Module : lib[m] = "in"
  BY <1>1, <1>2 DEF Registering
<1>5. \A t \in Thread : ~Asked(t)' /\ Handle(t)'
  BY <1>2 DEF Asked, Handle
<1>6. EmptyingRegistry'
  BY <1>2, <1>3, <1>4, <1>5 DEF EmptyingRegistry, Started
<1>7. RegistryTypeOK'
  BY <1>2 DEF RegistryTypeOK
<1>8. QED
  BY <1>2, <1>6, <1>7 DEF Registering, Unloading, Walking

LEMMA ServeKeeps == ASSUME ThreadInv, ~dead, Serve PROVE ThreadInv'
<1> USE Numbers, Places DEF ThreadInv
<1>1. cpc # "none"
  BY DEF Serve, Registering
<1>2. /\ mpc' \in {"serve", "rest"}
      /\ UNCHANGED <<thi, entry, tid, thcount, run, cancelled, detached, lib, cpc, ci,
                     tpc, wi, dead>>
  BY DEF Serve, registry, threads, closer, walker
<1>3. mi' \in 1..(Last + 1) /\ service' \in [Module -> BOOLEAN]
  <2>1. CASE mi <= NM /\ cpc # "done"
    <3>1. mi \in Module
      BY <2>1 DEF Module
    <3>2. (lib[mi] \in {"in", "off"}) \in BOOLEAN
      OBVIOUS
    <3>3. /\ mi' = mi + 1
          /\ service' = [service EXCEPT ![mi] = lib[mi] \in {"in", "off"}]
      BY <2>1 DEF Serve
    <3>4. service' \in [Module -> BOOLEAN]
      BY <3>1, <3>2, <3>3 DEF RegistryTypeOK
    <3>5. QED
      BY <2>1, <3>3, <3>4
  <2>2. CASE ~(mi <= NM /\ cpc # "done")
    BY <2>2 DEF Serve, RegistryTypeOK
  <2>3. QED
    BY <2>1, <2>2
<1>4. RegistryTypeOK'
  BY <1>2, <1>3 DEF RegistryTypeOK
<1>5. EmptyingRegistry'
  BY <1>2 DEF EmptyingRegistry, Asked, Handle
<1>6. QED
  BY <1>1, <1>2, <1>4, <1>5 DEF Registering, Unloading, Walking

-----------------------------------------------------------------------------
\* The close thread.
LEMMA CancelSweeperKeeps == ASSUME ThreadInv, ~dead, CancelSweeper PROVE ThreadInv'
<1> USE Numbers, Places DEF ThreadInv
<1>1. /\ cpc = "xsd" /\ cpc' = "xsdclear"
      /\ cancelled' = IF tid[XSD] THEN cancelled \cup {XSD} ELSE cancelled
      /\ UNCHANGED <<thi, entry, tid, thcount, run, detached, service, lib, mpc, mi,
                     ci, tpc, wi, dead>>
  BY DEF CancelSweeper, registry, modules, main, walker
<1>2. tid[XSD]
  BY <1>1 DEF EmptyingRegistry, Cancelling, Handle
<1>3. cancelled' = cancelled \cup {XSD}
  BY <1>1, <1>2
<1>4. \A t \in Thread : /\ Asked(t)' <=> (Asked(t) \/ t = XSD)
                        /\ Handle(t) /\ Handle(t)'
  BY <1>1 DEF Asked, Handle
<1>5. EmptyingRegistry'
  BY <1>1, <1>3, <1>4 DEF EmptyingRegistry, Cancelling
<1>6. RegistryTypeOK'
  BY <1>1, <1>3 DEF RegistryTypeOK
<1>7. QED
  BY <1>1, <1>5, <1>6 DEF Registering, Unloading, Walking

LEMMA ClearSweeperKeeps == ASSUME ThreadInv, ~dead, ClearSweeper PROVE ThreadInv'
<1> USE Numbers, Places DEF ThreadInv
<1>1. /\ cpc = "xsdclear" /\ cpc' = "cancel" /\ tid' = [tid EXCEPT ![XSD] = FALSE]
      /\ UNCHANGED <<thi, entry, thcount, run, cancelled, detached, service, lib,
                     mpc, mi, ci, tpc, wi, dead>>
  BY DEF ClearSweeper, threads, modules, main, walker
<1>2. ~tid'[XSD] /\ \A t \in Thread : t # XSD => tid'[t] = tid[t]
  BY <1>1 DEF RegistryTypeOK
<1>3. ci = 1
  BY <1>1 DEF EmptyingRegistry, Cancelling
<1>4. \A t \in Thread : /\ Asked(t)' <=> Asked(t)
                        /\ Handle(t)' <=> t # XSD
                        /\ Handle(t)
  BY <1>1, <1>3 DEF Asked, Handle
<1>5. EmptyingRegistry'
  BY <1>1, <1>2, <1>4 DEF EmptyingRegistry, Cancelling
<1>6. RegistryTypeOK'
  BY <1>1 DEF RegistryTypeOK
<1>7. QED
  BY <1>1, <1>5, <1>6 DEF Registering, Unloading, Walking

LEMMA CancelKeeps == ASSUME ThreadInv, ~dead, Cancel PROVE ThreadInv'
<1> USE Numbers, Places DEF ThreadInv
<1>1. /\ cpc = "cancel" /\ cpc' = "clear" /\ ci <= thcount
      /\ cancelled' = IF tid[ci] THEN cancelled \cup {ci} ELSE cancelled
      /\ UNCHANGED <<thi, entry, tid, thcount, run, detached, service, lib, mpc, mi,
                     ci, tpc, wi, dead>>
  BY DEF Cancel, registry, modules, main, walker
<1>2. ci \in Thread
  BY <1>1
<1>3. tid[ci] <=> ci # XSD
  BY <1>1, <1>2 DEF EmptyingRegistry, Cancelling, Handle
<1>4. XSD \in cancelled
  BY <1>1 DEF EmptyingRegistry, Cancelling, Asked
<1>5. cancelled' = cancelled \cup {ci}
  BY <1>1, <1>3, <1>4
<1>6. \A t \in Thread : /\ Asked(t)' <=> (Asked(t) \/ t = ci)
                        /\ Handle(t)' <=> Handle(t)
  BY <1>1, <1>2 DEF Asked, Handle
<1>7. EmptyingRegistry'
  BY <1>1, <1>2, <1>5, <1>6 DEF EmptyingRegistry, Cancelling
<1>8. RegistryTypeOK'
  BY <1>1, <1>2, <1>5 DEF RegistryTypeOK
<1>9. QED
  BY <1>1, <1>7, <1>8 DEF Registering, Unloading, Walking

LEMMA ClearKeeps == ASSUME ThreadInv, ~dead, Clear PROVE ThreadInv'
<1> USE Numbers, Places DEF ThreadInv
<1>1. /\ cpc = "clear" /\ cpc' = "free" /\ tid' = [tid EXCEPT ![ci] = FALSE]
      /\ UNCHANGED <<thi, entry, thcount, run, cancelled, detached, service, lib,
                     mpc, mi, ci, tpc, wi, dead>>
  BY DEF Clear, threads, modules, main, walker
<1>2. ci \in Thread
  BY <1>1 DEF EmptyingRegistry, Cancelling
<1>3. ~tid'[ci] /\ \A t \in Thread : t # ci => tid'[t] = tid[t]
  BY <1>1, <1>2 DEF RegistryTypeOK
<1>4. \A t \in Thread : /\ Asked(t)' <=> Asked(t)
                        /\ Handle(t)' <=> (Handle(t) /\ t # ci)
  BY <1>1, <1>2 DEF Asked, Handle
<1>5. EmptyingRegistry'
  BY <1>1, <1>2, <1>3, <1>4 DEF EmptyingRegistry, Cancelling
<1>6. RegistryTypeOK'
  BY <1>1 DEF RegistryTypeOK
<1>7. QED
  BY <1>1, <1>5, <1>6 DEF Registering, Unloading, Walking

LEMMA FreeEntryKeeps == ASSUME ThreadInv, ~dead, FreeEntry PROVE ThreadInv'
<1> USE Numbers, Places DEF ThreadInv
<1>1. /\ cpc = "free" /\ cpc' = "cancel" /\ ci' = ci + 1
      /\ entry' = [entry EXCEPT ![ci] = "freed"]
      /\ UNCHANGED <<thi, tid, thcount, run, cancelled, detached, service, lib,
                     mpc, mi, tpc, wi, dead>>
  BY DEF FreeEntry, threads, modules, main, walker
<1>2. ci \in Thread
  BY <1>1 DEF EmptyingRegistry, Cancelling
<1>3. ASSUME NEW t \in Thread
      PROVE  (Asked(t)' <=> Asked(t)) /\ (Handle(t)' <=> Handle(t))
  <2>1. (t < ci + 1 <=> t <= ci) /\ ((t > ci + 1 \/ t = ci + 1) <=> t > ci)
    BY <1>2
  <2>2. QED
    BY <1>1, <2>1 DEF Asked, Handle
<1>4. EmptyingRegistry'
  BY <1>1, <1>3 DEF EmptyingRegistry, Cancelling
<1>5. RegistryTypeOK'
  <2>1. ci' \in 1..(Last + 1)
    BY <1>1, <1>2
  <2>2. QED
    BY <1>1, <2>1 DEF RegistryTypeOK
<1>6. QED
  BY <1>1, <1>4, <1>5 DEF Registering, Unloading, Walking

LEMMA EmptyKeeps == ASSUME ThreadInv, ~dead, Empty PROVE ThreadInv'
<1> USE Numbers, Places DEF ThreadInv
<1>1. /\ cpc = "cancel" /\ cpc' = "exit" /\ ci' = 1 /\ ci > thcount /\ thcount' = 0
      /\ UNCHANGED <<thi, entry, tid, run, cancelled, detached, service, lib, mpc, mi,
                     tpc, wi, dead>>
  BY DEF Empty, threads, modules, main, walker
<1>2. thcount = Last /\ mpc \in {"serve", "rest"}
  BY <1>1 DEF EmptyingRegistry, Cancelling
<1>3. \A t \in Thread : t \in cancelled
  <2>1. \A t \in Thread : t < ci
    BY <1>1, <1>2
  <2>2. QED
    BY <1>1, <2>1 DEF EmptyingRegistry, Cancelling, Asked
<1>4. cancelled = Thread
  BY <1>3 DEF RegistryTypeOK
<1>5. Unloading'
  BY <1>1, <1>2, <1>4 DEF Unloading
<1>6. RegistryTypeOK'
  <2>1. ci' \in 1..(Last + 1) /\ thcount' \in 0..Last
    BY <1>1
  <2>2. QED
    BY <1>1, <2>1 DEF RegistryTypeOK
<1>7. QED
  BY <1>1, <1>5, <1>6 DEF Registering, EmptyingRegistry, Cancelling, Walking

\* mod_free
LEMMA UnloadingKeeps ==
  ASSUME ThreadInv, ~dead, ExitModule \/ FreeStruct \/ Unload \/ Done
  PROVE  ThreadInv'
<1> USE Numbers, Places DEF ThreadInv
<1>1. /\ cpc \in {"exit", "struct", "unload"}
      /\ cpc' \in {"exit", "struct", "unload", "done"}
      /\ UNCHANGED <<thi, entry, tid, thcount, run, cancelled, detached, service, mpc,
                     mi, tpc, wi, dead>>
  BY DEF ExitModule, FreeStruct, Unload, Done, registry, threads, modules, main, walker
<1>2. ci' <= NM + 1 /\ ci' \in 1..(Last + 1)
      /\ (cpc' \in {"struct", "unload"} => ci' \in Module)
  <2>1. ci <= NM + 1 /\ (cpc \in {"struct", "unload"} => ci \in Module)
    BY <1>1 DEF Unloading
  <2>2. CASE ExitModule
    BY <2>1, <2>2 DEF ExitModule, Module
  <2>3. CASE FreeStruct
    BY <2>1, <2>3 DEF FreeStruct
  <2>4. CASE Unload
    <3>1. ci \in Module /\ ci' = ci + 1 /\ cpc' = "exit"
      BY <2>1, <2>4 DEF Unload
    <3>2. ci <= NM
      BY <3>1 DEF Module
    <3>3. QED
      BY <3>1, <3>2
  <2>5. CASE Done
    BY <2>1, <2>5 DEF Done
  <2>6. QED
    BY <2>2, <2>3, <2>4, <2>5
<1>3. lib' \in [Module -> {"in", "off", "freed", "unloaded"}]
  BY DEF ExitModule, FreeStruct, Unload, Done, modules, RegistryTypeOK
<1>4. RegistryTypeOK'
  BY <1>1, <1>2, <1>3 DEF RegistryTypeOK
<1>5. Unloading'
  BY <1>1, <1>2 DEF Unloading
<1>6. QED
  BY <1>1, <1>4, <1>5 DEF Registering, EmptyingRegistry, Cancelling, Walking

-----------------------------------------------------------------------------
\* thi0's walk changes only what it holds and whom it has detached.
LEMMA WalkKeeps == ASSUME ThreadInv, ~dead, Walk PROVE ThreadInv'
<1> USE Numbers, Places DEF ThreadInv
<1>1. UNCHANGED <<thi, entry, tid, thcount, run, cancelled, service, lib, mpc, mi,
                  cpc, ci, dead>>
  BY DEF Walk, Wake, Head, Enter, Check, Detach, TryJoin, Join, WalkTo, registry,
         modules, main, closer
<1>2. Registering' /\ EmptyingRegistry' /\ Unloading'
  <2>1. Registering'
    BY <1>1 DEF Registering, Started, Blank
  <2>2. EmptyingRegistry'
    BY <1>1 DEF EmptyingRegistry, Asked, Handle
  <2>3. QED
    BY <1>1, <2>1, <2>2 DEF Unloading
<1>3. /\ tpc' \in {"sleep", "head", "enter", "check", "detach", "join", "joining"}
      /\ wi' \in 1..(Last + 1) /\ detached' \subseteq Thread /\ Walking'
  <2>1. wi \in 1..(Last + 1) /\ detached \subseteq Thread
    BY DEF RegistryTypeOK
  <2>2. CASE Wake
    BY <2>1, <2>2 DEF Wake, WalkTo, Walking
  <2>3. CASE Head \/ Enter
    BY <2>1, <2>3 DEF Head, Enter, WalkTo, Walking
  <2>4. CASE Check
    <3>1. detached' = detached
      BY <2>4 DEF Check
    <3>2. CASE wi > thcount \/ Quiet \/ entry[wi] = "none"
      BY <2>1, <2>4, <3>1, <3>2 DEF Check, WalkTo, Walking
    <3>3. CASE ~(wi > thcount \/ Quiet \/ entry[wi] = "none")
      <4>1. wi \in Thread
        BY <3>3
      <4>2. CASE tid[wi]
        BY <1>1, <2>1, <2>4, <3>1, <3>3, <4>1, <4>2 DEF Check, WalkTo, Walking
      <4>3. CASE ~tid[wi]
        <5>1. tpc' = "check" /\ wi' = wi + 1
          BY <2>4, <3>3, <4>3 DEF Check, WalkTo
        <5>2. QED
          BY <2>1, <3>1, <4>1, <5>1 DEF Walking
      <4>4. QED
        BY <4>2, <4>3
    <3>4. QED
      BY <3>2, <3>3
  <2>5. CASE Detach
    <3>1. tpc = "detach" /\ wi \in Thread /\ (cpc = "none" => tid[wi])
      BY <2>5 DEF Detach, Walking
    <3>2. CASE wi \in detached
      <4>1. tpc' = "join" /\ wi' = wi /\ detached' = detached
        BY <2>5, <3>2 DEF Detach, WalkTo
      <4>2. cpc' = "none" => tid'[wi']
        BY <1>1, <3>1, <4>1
      <4>3. QED
        BY <2>1, <3>1, <3>2, <4>1, <4>2 DEF Walking
    <3>3. CASE wi \notin detached
      <4>1. tpc' = "check" /\ wi' = wi + 1 /\ detached' = detached \cup {wi}
        BY <2>5, <3>3 DEF Detach, WalkTo
      <4>2. QED
        BY <2>1, <3>1, <4>1 DEF Walking
    <3>4. QED
      BY <3>2, <3>3
  <2>6. CASE TryJoin
    <3>1. /\ tpc = "join" /\ wi \in Thread /\ wi \in detached /\ detached' = detached
          /\ cpc = "none" => tid[wi]
      BY <2>6 DEF TryJoin, Walking
    <3>2. CASE tid[wi]
      BY <1>1, <2>1, <2>6, <3>1, <3>2 DEF TryJoin, WalkTo, Walking
    <3>3. CASE ~tid[wi]
      <4>1. tpc' = "check" /\ wi' = wi + 1
        BY <2>6, <3>3 DEF TryJoin, WalkTo
      <4>2. QED
        BY <2>1, <3>1, <4>1 DEF Walking
    <3>4. QED
      BY <3>2, <3>3
  <2>7. CASE Join
    <3>1. wi \in Thread /\ tpc' = "check" /\ wi' = wi + 1 /\ detached' = detached
      BY <2>7 DEF Join, WalkTo, Walking
    <3>2. QED
      BY <2>1, <3>1 DEF Walking
  <2>8. QED
    BY <2>2, <2>3, <2>4, <2>5, <2>6, <2>7 DEF Walk
<1>4. RegistryTypeOK'
  BY <1>1, <1>3 DEF RegistryTypeOK
<1>5. QED
  BY <1>2, <1>3, <1>4

\* While the program is in service no thread ends.
LEMMA EndKeeps == ASSUME ThreadInv, ~dead, NEW t \in Thread, End(t) PROVE ThreadInv'
<1> USE Numbers, Places DEF ThreadInv
<1>1. /\ run' = [run EXCEPT ![t] = "ended"]
      /\ UNCHANGED <<thi, entry, tid, thcount, cancelled, detached, service, lib, mpc,
                     mi, cpc, ci, tpc, wi, dead>>
  BY DEF End, registry, modules, main, closer, walker
<1>2. t \in cancelled \/ \E m \in Module : lib[m] # "in"
  <2>1. thi \in Module
    BY DEF RegistryTypeOK
  <2>2. QED
    BY <2>1 DEF End
<1>3. cpc # "none"
  BY <1>2 DEF Registering
<1>4. cpc \in Cancelling => t \in cancelled
  BY <1>2 DEF EmptyingRegistry
<1>5. \A u \in Thread : u # t => run'[u] = run[u]
  BY <1>1 DEF RegistryTypeOK
<1>6. EmptyingRegistry'
  BY <1>1, <1>4, <1>5 DEF EmptyingRegistry, Asked, Handle
<1>7. RegistryTypeOK'
  BY <1>1 DEF RegistryTypeOK
<1>8. QED
  BY <1>1, <1>3, <1>6, <1>7 DEF Registering, Unloading, Walking

\* Nothing undefined is reached before the close thread runs: every handle thi0
\* holds is good, every entry linked and every module loaded.
LEMMA UndefinedKeeps == ASSUME ThreadInv, ~dead, Undefined PROVE ThreadInv'
<1> USE Numbers, Places DEF ThreadInv
<1>1. cpc # "none"
  <2> SUFFICES ASSUME cpc = "none" PROVE FALSE
    OBVIOUS
  <2>1. /\ \A m \in Module : lib[m] = "in"
        /\ mpc # "serve"
    BY DEF Registering
  <2>2. ASSUME NEW u \in Thread
        PROVE  run[u] # "ended" /\ entry[u] # "freed"
    <3>1. u < mi \/ u = mi \/ u > mi
      OBVIOUS
    <3>2. mpc \in {"create", "link", "count"}
      BY DEF Registering
    <3>3. CASE u < mi
      BY <3>3 DEF Registering, Started
    <3>4. CASE u > mi
      BY <3>4 DEF Registering, Blank
    <3>5. CASE u = mi
      BY <3>2, <3>5 DEF Registering, Blank, Started
    <3>6. QED
      BY <3>1, <3>3, <3>4, <3>5
  <2>3. tpc \in {"detach", "join", "joining"} => wi \in Thread /\ tid[wi]
    BY DEF Walking
  <2>4. ~NullHandle
    BY <2>3 DEF NullHandle
  <2>5. ~StaleHandle /\ ~FreedEntry
    BY <2>2, <2>3 DEF StaleHandle, FreedEntry
  <2>6. ~FreedStruct /\ ~Unloaded
    BY <2>1 DEF FreedStruct, Unloaded
  <2>7. QED
    BY <2>4, <2>5, <2>6 DEF Undefined
<1>2. /\ dead' = TRUE /\ run' = [u \in Thread |-> "ended"] /\ tpc' = "none" /\ wi' = 1
      /\ UNCHANGED <<thi, entry, tid, thcount, cancelled, detached, service, lib, mpc,
                     mi, cpc, ci>>
  BY DEF Undefined, NullHandle, StaleHandle, FreedEntry, FreedStruct, Unloaded, Die,
         registry, modules, main, closer
<1>3. RegistryTypeOK'
  <2>1. run' \in [Thread -> {"none", "running", "ended"}] /\ wi' \in 1..(Last + 1)
    BY <1>2
  <2>2. QED
    BY <1>2, <2>1 DEF RegistryTypeOK
<1>4. EmptyingRegistry'
  BY <1>2 DEF EmptyingRegistry, Asked, Handle
<1>5. QED
  BY <1>1, <1>2, <1>3, <1>4 DEF Registering, Unloading, Walking

LEMMA StepThreadInv == ThreadInv /\ [RegistryNext]_registryVars => ThreadInv'
<1> SUFFICES ASSUME ThreadInv, [RegistryNext]_registryVars PROVE ThreadInv'
  OBVIOUS
<1>1. CASE UNCHANGED registryVars
  BY <1>1 DEF registryVars, registry, threads, modules, main, closer, walker, ThreadInv, RegistryTypeOK,
     Registering, Started, Blank, EmptyingRegistry, Asked, Handle, Unloading, Walking
<1>2. CASE RegistryNext
  <2>1. ~dead
    BY <1>2 DEF RegistryNext
  <2>2. CASE Main
    BY <2>1, <2>2, CreateKeeps, LinkKeeps, CountUpKeeps, ServeKeeps DEF Main
  <2>3. CASE StartClose
    BY <2>1, <2>3, StartCloseKeeps
  <2>4. CASE Closer
    BY <2>1, <2>4, CancelSweeperKeeps, ClearSweeperKeeps, CancelKeeps, ClearKeeps,
       FreeEntryKeeps, EmptyKeeps, UnloadingKeeps DEF Closer
  <2>5. CASE Walk
    BY <2>1, <2>5, WalkKeeps
  <2>6. CASE Undefined
    BY <2>1, <2>6, UndefinedKeeps
  <2>7. CASE \E t \in Thread : End(t)
    BY <2>1, <2>7, EndKeeps
  <2>8. QED
    BY <1>2, <2>2, <2>3, <2>4, <2>5, <2>6, <2>7 DEF RegistryNext
<1>3. QED
  BY <1>1, <1>2

LEMMA AlwaysThreadInv == RegistrySpec => []ThreadInv
<1>1. QED
  BY InitThreadInv, StepThreadInv, PTL DEF RegistrySpec

-----------------------------------------------------------------------------
\* Every variable of the registry keeps its type; in particular the count never
\* exceeds the threads the program starts.
THEOREM RegistryTypeCorrect == RegistrySpec => []RegistryTypeOK
<1>1. ThreadInv => RegistryTypeOK
  BY DEF ThreadInv
<1>2. QED
  BY <1>1, AlwaysThreadInv, PTL

\* mod_free takes no module apart before mod_thread_exit has cancelled every thread.
THEOREM CancelledFirst == RegistrySpec => []CancelledBeforeExit
<1>1. ThreadInv => CancelledBeforeExit
  BY DEF ThreadInv, RegistryTypeOK, Registering, EmptyingRegistry, Unloading, Cancelling,
     CancelledBeforeExit
<1>2. QED
  BY <1>1, AlwaysThreadInv, PTL

\* thi0's thread joins only what it has detached, so it never waits for a thread.
THEOREM NeverJoins == RegistrySpec => []NeverWaitsInJoin
<1>1. ThreadInv => NeverWaitsInJoin
  BY DEF ThreadInv, Walking, NeverWaitsInJoin
<1>2. QED
  BY <1>1, AlwaysThreadInv, PTL

\* The registry is safe to walk until the close thread starts taking it apart.
THEOREM DiesClosing == RegistrySpec => []DiesOnlyClosing
<1>1. ThreadInv => DiesOnlyClosing
  BY DEF ThreadInv, Registering, DiesOnlyClosing
<1>2. QED
  BY <1>1, AlwaysThreadInv, PTL

\* The close thread cancels each thread once and while it runs, although the
\* sweeper is in the registry and closed by librmc_exit as well.
THEOREM NoStaleCancels == RegistrySpec => NoStaleCancel
<1> DEFINE Cancels(t) ==
      \/ cpc = "xsd" /\ cpc' = "xsdclear" /\ t = XSD /\ tid[t]
      \/ cpc = "cancel" /\ cpc' = "clear" /\ t = ci /\ tid[t]
<1>1. ASSUME ThreadInv, [RegistryNext]_registryVars, NEW t \in Thread, Cancels(t)
      PROVE  run[t] = "running" /\ t \notin cancelled
  <2>1. ~dead
    BY <1>1 DEF RegistryNext, registryVars, closer
  <2>2. cpc \in Cancelling
    BY <1>1 DEF Cancelling
  <2>3. t \in cancelled <=> Asked(t)
    BY <1>1, <2>2 DEF ThreadInv, EmptyingRegistry
  <2>4. tid[t] <=> Handle(t)
    BY <1>1, <2>2 DEF ThreadInv, EmptyingRegistry
  <2>5. run[t] = "running" \/ t \in cancelled \/ dead
    BY <1>1, <2>2 DEF ThreadInv, EmptyingRegistry
  <2>6. ~Asked(t)
    BY <1>1, <2>4, Numbers DEF Asked, Handle
  <2>7. QED
    BY <2>1, <2>3, <2>5, <2>6
<1>2. ThreadInv /\ [RegistryNext]_registryVars =>
        \A t \in Thread : Cancels(t) => run[t] = "running" /\ t \notin cancelled
  BY <1>1
<1>3. ThreadInv /\ [RegistryNext]_registryVars =>
      [\A t \in Thread :
         \/ cpc = "xsd" /\ cpc' = "xsdclear" /\ t = XSD /\ tid[t]
         \/ cpc = "cancel" /\ cpc' = "clear" /\ t = ci /\ tid[t]
         => run[t] = "running" /\ t \notin cancelled]_registryVars
  BY <1>2
<1>4. QED
  BY <1>3, AlwaysThreadInv, PTL DEF RegistrySpec, NoStaleCancel

=============================================================================
