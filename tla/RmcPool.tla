------------------------------ MODULE RmcPool ------------------------------
(***************************************************************************)
(* The slot pool of librmc while crserv is in service: the sound thread    *)
(* takes the first free slot for every block (librmc_create) and looks the *)
(* block's code up again when the modules are done (librmc_select); the    *)
(* sweeper thread xsd wakes every second and visits slots in the order of  *)
(* a random cursor, releasing the ones that look too old (librmc_find).    *)
(* Nothing else gives a slot back: select compares where it means to       *)
(* assign CRMC_FINAL, so librmc_final, polled by procv, never finds one.   *)
(*                                                                         *)
(* The list lock does not exist; the walks are modelled slot by slot.      *)
(***************************************************************************)
EXTENDS CrClock

CONSTANTS
  N,        \* slots: CORE_BITS, 2048
  NBUF,     \* static buffers cdigest hands out in turn: 10
  USHORT,   \* number of values of an unsigned short: 65536
  Limit     \* a slot or a sweep older than this many seconds times out: 15

ASSUME PoolAssumption ==
  /\ N \in Nat /\ N > 1
  /\ NBUF \in Nat /\ NBUF > 0
  /\ USHORT \in Nat /\ USHORT > N
  /\ Limit \in Nat /\ Limit > 0

Slot == 0..(N - 1)
NoSlot == N

VARIABLES
  now,      \* wall clock
  status,   \* slot -> "ENABLE" or "PROCESS"
  first,    \* slot -> reading stamped by librmc_create
  brain,    \* sptr_core->core: reading of the sweep, overwritten by timeouts
  code,     \* the sweeper's cursor
  xpc,      \* where the sweeper is
  xi,       \* librmc_find calls made in this sweep
  ppc,      \* where the sound thread is
  pos,      \* the slot its list walk is at
  handle,   \* the slot it was given for its block
  stack,    \* the slot its second lookup found
  age,      \* ghost: seconds since the slot was stamped, up to Limit
  ticked,   \* ghost: the clock ticked since the sweeper last woke or slept
  lost      \* ghost: the producer's handle was released under it

sweeper  == <<code, xpc, xi, brain>>
producer == <<ppc, pos, handle, stack>>
vars == <<now, status, first, sweeper, producer, age, ticked, lost>>

\* The cursors rand()%N - 1 can become in an unsigned short: never N - 1,
\* and the wrapped -1, which is no slot.
Nowhere == USHORT - 1
RandStr == {(r - 1) % USHORT : r \in 0..(N - 1)}

\* Slots share a code when cdigest gave them the same buffer.
Alias(i, j) == i % NBUF = j % NBUF

Init ==
  /\ now \in Reading
  /\ status = [i \in Slot |-> "ENABLE"]
  /\ first = [i \in Slot |-> <<0, 0>>]
  /\ brain = <<0, 0>>
  /\ code = 0
  /\ xpc = "sleep" /\ xi = 0
  /\ ppc = "idle" /\ pos = 0 /\ handle = NoSlot /\ stack = NoSlot
  /\ age = [i \in Slot |-> 0]
  /\ ticked = FALSE /\ lost = FALSE

\* A second passes.
Second1 ==
  /\ now' = Tick(now)
  /\ age' = [i \in Slot |-> Least(age[i] + 1, Limit)]
  /\ ticked' = TRUE
  /\ UNCHANGED <<status, first, sweeper, producer, lost>>

-----------------------------------------------------------------------------
(***************************************************************************)
(* The sound thread: one block at a time.                                  *)
(***************************************************************************)
Block ==
  /\ ppc = "idle"
  /\ ppc' = "create" /\ pos' = 0
  /\ handle' = NoSlot /\ stack' = NoSlot /\ lost' = FALSE
  /\ UNCHANGED <<now, status, first, sweeper, age, ticked>>

\* librmc_create: walk on over a slot in use ...
SkipUsed ==
  /\ ppc = "create" /\ pos < N /\ status[pos] # "ENABLE"
  /\ pos' = pos + 1
  /\ UNCHANGED <<now, status, first, sweeper, ppc, handle, stack, age, ticked,
                 lost>>

\* Variant: a slot that was used before keeps its old stamp.
StampOnce ==
  /\ ppc = "create" /\ pos < N /\ status[pos] = "ENABLE"
  /\ first' = [first EXCEPT ![pos] = IF @ = <<0, 0>> THEN now ELSE @]
  /\ age' = [age EXCEPT ![pos] = 0]
  /\ ppc' = "stamped"
  /\ UNCHANGED <<now, status, sweeper, pos, handle, stack, ticked, lost>>

\* ... stamp the first free one, and only then ...
Stamp ==
  /\ ppc = "create" /\ pos < N /\ status[pos] = "ENABLE"
  /\ first' = [first EXCEPT ![pos] = now]
  /\ age' = [age EXCEPT ![pos] = 0]
  /\ ppc' = "stamped"
  /\ UNCHANGED <<now, status, sweeper, pos, handle, stack, ticked, lost>>

\* Variant: the slot is handed out without being marked.
TakeUnmarked ==
  /\ ppc = "stamped"
  /\ handle' = pos
  /\ ppc' = "select" /\ pos' = 0
  /\ UNCHANGED <<now, status, first, sweeper, stack, age, ticked, lost>>

\* ... take it; the modules then work on the block.
Take ==
  /\ ppc = "stamped"
  /\ status' = [status EXCEPT ![pos] = "PROCESS"]
  /\ handle' = pos
  /\ ppc' = "select" /\ pos' = 0
  /\ UNCHANGED <<now, first, sweeper, stack, age, ticked, lost>>

\* No slot free: the callback returns and the block is dropped.
DropBlock ==
  /\ ppc = "create" /\ pos = N
  /\ ppc' = "idle" /\ pos' = 0
  /\ UNCHANGED <<now, status, first, sweeper, handle, stack, age, ticked, lost>>

\* Variant: the codes are not compared.
SelectsAny(i) == status[i] = "PROCESS"

\* librmc_select: the first slot in use that has the block's code.
Selects(i) == status[i] = "PROCESS" /\ Alias(i, handle)

SkipOther ==
  /\ ppc = "select" /\ pos < N /\ ~Selects(pos)
  /\ pos' = pos + 1
  /\ UNCHANGED <<now, status, first, sweeper, ppc, handle, stack, age, ticked,
                 lost>>

Select ==
  /\ ppc = "select" /\ pos < N /\ Selects(pos)
  /\ stack' = pos
  /\ ppc' = "idle" /\ pos' = 0
  /\ UNCHANGED <<now, status, first, sweeper, handle, age, ticked, lost>>

\* No slot has it any more: the block's answer is not sent.
LoseBlock ==
  /\ ppc = "select" /\ pos = N
  /\ ppc' = "idle" /\ pos' = 0
  /\ UNCHANGED <<now, status, first, sweeper, handle, stack, age, ticked, lost>>

Producer ==
  \/ Block \/ SkipUsed \/ Stamp \/ Take \/ DropBlock
  \/ SkipOther \/ Select \/ LoseBlock

-----------------------------------------------------------------------------
(***************************************************************************)
(* The sweeper thread xsd.                                                 *)
(***************************************************************************)
SweepBegin ==
  /\ xpc = "sleep" /\ ticked
  /\ brain' = now
  /\ xi' = 0 /\ xpc' = "find" /\ ticked' = FALSE
  /\ UNCHANGED <<now, status, first, code, producer, age, lost>>

\* Variant: the cursor moves although no slot was found.
FindMissMoves ==
  /\ xpc = "find" /\ xi < N /\ code \notin Slot
  /\ code' \in RandStr
  /\ xi' = xi + 1
  /\ UNCHANGED <<now, status, first, xpc, brain, producer, age, ticked, lost>>

\* No slot has the cursor's number: librmc_find returns it unchanged.
FindMiss ==
  /\ xpc = "find" /\ xi < N /\ code \notin Slot
  /\ xi' = xi + 1
  /\ UNCHANGED <<now, status, first, code, xpc, brain, producer, age, ticked,
                 lost>>

Release(i) ==
  /\ status' = [status EXCEPT ![i] = "ENABLE"]
  /\ lost' = (lost \/ i = handle)

TimedOut(start) == Elapsed(start, now) > Limit

\* The slot's own timer: get_time_final as one call that nobody disturbs ...
FindSlot ==
  /\ xpc = "find" /\ xi < N /\ code \in Slot
  /\ IF status[code] = "PROCESS" /\ TimedOut(first[code])
       THEN Release(code) ELSE UNCHANGED <<status, lost>>
  /\ xpc' = "core"
  /\ UNCHANGED <<now, first, code, xi, brain, producer, age, ticked>>

\* ... and the sweep's timer, whose start the call overwrites with the time it
\* measured; then the cursor moves.
FindCore ==
  /\ xpc = "core"
  /\ IF status[code] = "PROCESS" /\ TimedOut(brain)
       THEN Release(code) ELSE UNCHANGED <<status, lost>>
  /\ brain' = Lapse(brain, now)
  /\ code' \in RandStr
  /\ xi' = xi + 1 /\ xpc' = "find"
  /\ UNCHANGED <<now, first, producer, age, ticked>>

SweepEnd ==
  /\ xpc = "find" /\ xi = N
  /\ brain' = Lapse(brain, now)
  /\ xpc' = "sleep" /\ ticked' = FALSE
  /\ UNCHANGED <<now, status, first, code, xi, producer, age, lost>>

Sweeper == SweepBegin \/ FindMiss \/ FindSlot \/ FindCore \/ SweepEnd

Next == Second1 \/ Producer \/ Sweeper

Spec == Init /\ [][Next]_vars

-----------------------------------------------------------------------------
TypeOK ==
  /\ now \in Reading
  /\ status \in [Slot -> {"ENABLE", "PROCESS"}]
  /\ first \in [Slot -> Reading]
  /\ brain \in (Minute \X (0..SPM))
  /\ code \in (0..(N - 2)) \cup {Nowhere}
  /\ xpc \in {"sleep", "find", "core"}
  /\ xi \in 0..N
  /\ ppc \in {"idle", "create", "stamped", "select"}
  /\ pos \in 0..N
  /\ handle \in 0..N
  /\ stack \in 0..N
  /\ age \in [Slot -> 0..Limit]
  /\ ticked \in BOOLEAN
  /\ lost \in BOOLEAN

Released(i) == status[i] = "PROCESS" /\ status'[i] = "ENABLE"

\* The cursor never names the last slot of the list, so the last slot, once
\* taken, is in use until the service ends.
LastSlotPinned == [][~Released(N - 1)]_vars

\* Once the cursor is the wrapped -1 it never moves and no slot is released
\* any more: the pool only fills up.
WedgedForGood ==
  [][code = Nowhere => code' = Nowhere /\ \A i \in Slot : ~Released(i)]_vars

\* No slot is taken from a block early: it goes when its own timer has run
\* Limit seconds (one less than the test > Limit asks for), or when the clock
\* ticked in the middle of a sweep.
NoEarlyRelease ==
  [][\A i \in Slot : Released(i) => age[i] >= Limit \/ ticked]_vars

\* What the second lookup can find: a slot before the block's own that has the
\* same code and is still in use, or the own slot; a later one only when the
\* sweeper released the own slot in between.
LookupFindsOwnOrEarlier ==
  stack # NoSlot => /\ Alias(stack, handle)
                    /\ stack > handle => lost

\* The second lookup passes over the block's own slot, and so loses the block
\* or answers through a later slot, only if the sweeper released that slot.
AnswerLostOnlyIfReleased ==
  (ppc = "select" /\ pos > handle) => lost
=============================================================================
