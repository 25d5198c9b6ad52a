--------------------------- MODULE PowerOffProofs ---------------------------
(***************************************************************************)
(* Powering off, for any daemons and any number of nodes, slots and        *)
(* modules: how often a daemon closes, what it has released when it ends,  *)
(* when it can die, and that the protocol implements Lifecycle.            *)
(***************************************************************************)
EXTENDS PowerOff, TLAPS

(***************************************************************************)
(* The invariant of one daemon.  The percentage matters only through "zero *)
(* or not": it is zero exactly until the close thread is created.  Main    *)
(* counts the nodes, at least half of the total, before it comes back to   *)
(* the head of its loop; the close thread can make it lose counts, but not *)
(* before it has freed the slots, and their count is its own.              *)
(***************************************************************************)
\* Nothing is freed twice, and nothing before the close thread runs.
Counted(d) ==
  /\ nodes[d] <= NodeCount(d) /\ slots[d] <= SlotCount(d)
  /\ mods[d] <= ModCount(d)
  /\ Up(d) /\ ctrl_state[d] => nodes[d] = NodeCount(d)
  /\ Up(d) /\ procx[d] = "none" =>
       /\ closers[d] = 0 /\ ~ctrl_state[d]
       /\ nodes[d] = 0 /\ slots[d] = 0 /\ mods[d] = 0

\* The close thread counts in crt_free, or has done so.
Sharing(d) == d \in Servers /\ procx[d] \in {"mods", "mod", "close", "idle"}

\* crt_free never passes what is freed, and is exact as long as main alone has
\* counted.
Tallied(d) ==
  /\ crt[d] <= nodes[d] + mods[d]
  /\ pc[d] = "node" => mreg[d] + 1 <= nodes[d] + mods[d]
  /\ procx[d] = "mod" => creg[d] + 1 <= nodes[d] + mods[d]
  /\ Up(d) /\ ~Sharing(d) =>
       /\ pc[d] # "node" => crt[d] = nodes[d]
       /\ pc[d] = "node" => crt[d] + 1 = nodes[d] /\ mreg[d] = crt[d]

\* The order in which the close thread works.
Ordered(d) ==
  /\ procx[d] # "none" => closers[d] = 1
  /\ procx[d] \in {"sweeper", "slots", "cancel", "mods", "mod"} => d \in Servers
  /\ procx[d] \in {"sweeper", "slots", "cancel"} => mods[d] = 0
  /\ procx[d] \in {"cancel", "mods", "mod", "close", "idle"} => slots[d] = SlotCount(d)
  /\ procx[d] \in {"close", "idle"} => mods[d] = ModCount(d)
  /\ mods[d] > 0 => slots[d] = SlotCount(d)
  /\ Up(d) => (close_final[d] <=> procx[d] # "idle")
  /\ closers[d] <= 1

\* Where main is, and what it knows there.
Looping(d) ==
  /\ pc[d] \in {"off", "zero", "fresh", "thread"} => procx[d] = "none"
  /\ pc[d] \in {"serve", "nodes", "node", "final", "exit"} => procx[d] # "none"
  /\ pc[d] = "serve" => d \in Servers
  /\ pc[d] = "exit" => procx[d] = "idle"
  /\ pc[d] \in {"top", "state", "write", "final", "exit"} /\ procx[d] # "none"
       => ctrl_state[d]
  /\ pc[d] \in {"state", "write"} => (ptty[d] = 0 <=> procx[d] = "none")
  /\ walk[d] => Up(d) /\ d \in Servers

\* Everything that follows a request follows one made since the startup.
Asked(d) ==
  /\ value[d] = DISABLE => asked[d]
  /\ pc[d] \in {"zero", "fresh"} => value[d] = 0
  /\ pc[d] = "thread" => value[d] = DISABLE
  /\ procx[d] # "none" => asked[d]

Ended(d) ==
  /\ Up(d) => ended[d] = "never"
  /\ ended[d] \in {"orderly", "crashed"} => asked[d] /\ closers[d] = 1
  /\ ended[d] = "orderly" => FreedAll(d)
  /\ ended[d] = "crashed" => d \in Servers

DaemonInv(d) ==
  /\ Counted(d) /\ Tallied(d) /\ Ordered(d) /\ Looping(d) /\ Asked(d) /\ Ended(d)

\* A request that stands has been made since the startup of every daemon: the
\* last one to start would have withdrawn it.
Standing == poweroff = DISABLE => \A d \in Daemons : asked[d]

PowerInv == TypeOK /\ Standing /\ \A d \in Daemons : DaemonInv(d)

-----------------------------------------------------------------------------
(***************************************************************************)
(* Numbers.                                                                *)
(***************************************************************************)
LEMMA PercentOf ==
  ASSUME NEW F \in Nat, NEW T \in Nat \ {0}, F <= T
  PROVE  /\ (100 * F) \div T \in 0..100
         /\ F = 0 => (100 * F) \div T = 0
         /\ 100 * F >= T => (100 * F) \div T >= 1
  BY SMT

\* The register read as an unsigned: a percentage, or what -1 becomes.
LEMMA ReadOf ==
  ASSUME TypeOK
  PROVE  ProgRead \in 0..100 \cup {UINT - 1}
<1>1. ASSUME NEW p \in -1..100
      PROVE  p % UINT \in 0..100 \cup {UINT - 1}
  BY <1>1, UintAssumption, SMT
<1>2. QED
  BY <1>1 DEF TypeOK, ProgRead

LEMMA Counts ==
  ASSUME NEW d \in Daemons
  PROVE  /\ NodeCount(d) \in Nat \ {0} /\ SlotCount(d) \in Nat
         /\ ModCount(d) \in Nat /\ Total(d) \in Nat \ {0}
         /\ 2 * NodeCount(d) >= Total(d)
         /\ NodeCount(d) <= NODES /\ SlotCount(d) <= SLOTS
         /\ ModCount(d) <= MODS
  BY SizeAssumption DEF NodeCount, SlotCount, ModCount, Total

\* At the head of the loop the percentage is zero exactly while the nodes are
\* not freed.
LEMMA PercentZero ==
  ASSUME TypeOK, NEW d \in Daemons, Counted(d), Tallied(d), Ordered(d)
  PROVE  /\ Percent(d) \in 0..100
         /\ Up(d) /\ pc[d] # "node" /\ ctrl_state[d] => Percent(d) # 0
         /\ Freed(d) = 0 => Percent(d) = 0
<1>1. /\ nodes[d] \in Nat /\ slots[d] \in Nat /\ mods[d] \in Nat
      /\ crt[d] \in Nat
  BY DEF TypeOK
<1>2. Freed(d) \in Nat /\ Freed(d) <= Total(d)
  BY <1>1, Counts DEF Counted, Tallied, Freed, Total
<1>3. ASSUME Up(d), pc[d] # "node", ctrl_state[d]
      PROVE  100 * Freed(d) >= Total(d)
  <2>1. CASE ~Sharing(d)
    <3>1. crt[d] = NodeCount(d)
      BY <1>3, <2>1 DEF Counted, Tallied
    <3>2. 2 * Freed(d) >= Total(d)
      BY <1>1, <3>1, Counts DEF Freed
    <3>3. QED
      BY <1>2, <3>2, Counts
  <2>2. CASE Sharing(d)
    <3>1. d \in Servers /\ slots[d] = SLOTS
      BY <2>2 DEF Sharing, Ordered, SlotCount
    <3>2. 100 * SLOTS >= Total(d)
      BY <3>1, SizeAssumption DEF Total, NodeCount, SlotCount, ModCount
    <3>3. Freed(d) >= SLOTS
      BY <1>1, <3>1 DEF Freed
    <3>4. QED
      BY <1>2, <3>2, <3>3, Counts, SizeAssumption
  <2>3. QED
    BY <2>1, <2>2
<1>4. QED
  BY <1>2, <1>3, Counts, PercentOf DEF Percent

-----------------------------------------------------------------------------
(***************************************************************************)
(* A step of one daemon is none of the others, who may be asked by it.     *)
(***************************************************************************)
Same(d) ==
  /\ pc'[d] = pc[d] /\ value'[d] = value[d] /\ ptty'[d] = ptty[d]
  /\ ctrl_state'[d] = ctrl_state[d] /\ procx'[d] = procx[d]
  /\ closers'[d] = closers[d] /\ close_final'[d] = close_final[d]
  /\ slots'[d] = slots[d] /\ mods'[d] = mods[d] /\ nodes'[d] = nodes[d]
  /\ crt'[d] = crt[d] /\ mreg'[d] = mreg[d] /\ creg'[d] = creg[d]
  /\ walk'[d] = walk[d] /\ ended'[d] = ended[d] /\ (asked[d] => asked'[d])

DaemonStep(d) ==
  \/ Start(d) \/ MainStep(d) \/ CloserStep(d)
  \/ EnterWalk(d) \/ LeaveWalk(d)
  \/ TouchFreedSlot(d) \/ TouchFreedModule(d) \/ TouchRegistry(d) \/ Fail(d)

OffwAction == Ask \/ AskRestart \/ OffwStep \/ Interrupt

LEMMA Elsewhere ==
  ASSUME TypeOK, NEW e \in Daemons, NEW d \in Daemons, d # e, DaemonStep(e)
  PROVE  Same(d)
<1>1. CASE Start(e)
  <2>1. asked[d] => asked'[d]
    BY <1>1 DEF Start, LoadFails
  <2>2. QED
    BY <1>1, <2>1 DEF Same, Start, TypeOK
<1>2. CASE MainStep(e)
  BY <1>2 DEF Same, TypeOK, MainStep, Zero, Fresh, Count, ReadState, Publish,
     CreateCloser, Serve, FreeNode, CountNode, Final, Exit, Gone, closevars,
     freevars
<1>3. CASE CloserStep(e)
  BY <1>3 DEF Same, TypeOK, CloserStep, CancelSweeper, FreeSlots,
     CancelThreads, FreeModule, CountModule, Close, mainvars, freevars
<1>4. CASE EnterWalk(e) \/ LeaveWalk(e)
  BY <1>4 DEF Same, TypeOK, EnterWalk, LeaveWalk, mainvars, closevars, freevars
<1>5. CASE TouchFreedSlot(e) \/ TouchFreedModule(e) \/ TouchRegistry(e) \/ Fail(e)
  BY <1>5 DEF Same, TypeOK, TouchFreedSlot, TouchFreedModule, TouchRegistry,
     Fail, Gone
<1>6. QED
  BY <1>1, <1>2, <1>3, <1>4, <1>5 DEF DaemonStep

LEMMA SameKeeps ==
  ASSUME NEW d \in Daemons, DaemonInv(d), Same(d)
  PROVE  DaemonInv(d)'
  BY DEF DaemonInv, Counted, Tallied, Sharing, Ordered, Looping, Asked, Ended,
     Same, Up, FreedAll, NodeCount, SlotCount, ModCount

LEMMA Own ==
  ASSUME PowerInv, NEW d \in Daemons, DaemonStep(d)
  PROVE  DaemonInv(d)'
<1> USE DEF PowerInv, TypeOK, DaemonInv, Counted, Tallied, Sharing, Ordered,
        Looping, Asked, Ended, Up, FreedAll, NodeCount, SlotCount, ModCount,
        mainvars, closevars, freevars
<1>1. CASE Start(d)
  <2>1. Counted(d)' /\ Tallied(d)'
    BY <1>1, SizeAssumption DEF Start
  <2>2. Ordered(d)'
    BY <1>1 DEF Start
  <2>3. Looping(d)' /\ Asked(d)'
    BY <1>1 DEF Start, DISABLE
  <2>4. Ended(d)'
    BY <1>1 DEF Start
  <2>5. QED
    BY <2>1, <2>2, <2>3, <2>4
<1>2. CASE Zero(d)
  BY <1>2 DEF Zero
<1>3. CASE Fresh(d)
  <2>1. Counted(d)' /\ Tallied(d)' /\ Ordered(d)' /\ Ended(d)'
    BY <1>3 DEF Fresh
  <2>2. Looping(d)'
    BY <1>3 DEF Fresh
  <2>3. Asked(d)'
    BY <1>3 DEF Fresh, DISABLE
  <2>4. QED
    BY <2>1, <2>2, <2>3
<1>4. CASE Count(d)
  <2>1. Counted(d)' /\ Tallied(d)' /\ Ordered(d)' /\ Ended(d)'
    BY <1>4 DEF Count
  <2>2. Looping(d)'
    <3>1. pc[d] = "top"
      BY <1>4 DEF Count
    <3>2. procx[d] = "none" => Percent(d) = 0
      <4>1. ASSUME procx[d] = "none" PROVE Freed(d) = 0
        <5>1. nodes[d] = 0 /\ slots[d] = 0 /\ mods[d] = 0
          BY <3>1, <4>1
        <5>2. crt[d] = 0
          BY <3>1, <4>1, <5>1
        <5>3. QED
          BY <5>1, <5>2 DEF Freed
      <4>2. QED
        BY <4>1, PercentZero
    <3>3. procx[d] # "none" => Percent(d) # 0
      BY <3>1, PercentZero
    <3>4. /\ pc' = [pc EXCEPT ![d] = "state"] /\ ptty'[d] = Percent(d)
          /\ UNCHANGED <<procx, ctrl_state, walk>>
      BY <1>4 DEF Count
    <3>5. QED
      BY <3>1, <3>2, <3>3, <3>4
  <2>3. Asked(d)'
    BY <1>4 DEF Count, DISABLE
  <2>4. QED
    BY <2>1, <2>2, <2>3
<1>5. CASE ReadState(d)
  <2>1. Counted(d)' /\ Tallied(d)' /\ Ordered(d)' /\ Ended(d)'
    BY <1>5 DEF ReadState
  <2>2. Looping(d)'
    BY <1>5 DEF ReadState
  <2>3. Asked(d)'
    BY <1>5 DEF ReadState, Standing, DISABLE
  <2>4. QED
    BY <2>1, <2>2, <2>3
<1>6. CASE Publish(d)
  BY <1>6 DEF Publish, Branch
<1>7. CASE CreateCloser(d)
  BY <1>7, SizeAssumption DEF CreateCloser, FirstCloseStep, AfterCreate, AddCloser
<1>8. CASE Serve(d)
  BY <1>8 DEF Serve
<1>9. CASE FreeNode(d)
  <2>1. Counted(d)' /\ Tallied(d)'
    <3>1. /\ pc[d] = "nodes" /\ nodes[d] \in Nat /\ mods[d] \in Nat
          /\ crt[d] \in Nat /\ procx[d] # "none"
          /\ UNCHANGED <<crt, creg, procx, closers, slots, mods>>
      BY <1>9 DEF FreeNode
    <3>2. CASE nodes[d] < NodeCount(d) /\ ~ctrl_state[d]
      <4>1. /\ nodes'[d] = nodes[d] + 1 /\ mreg'[d] = crt[d] /\ pc'[d] = "node"
            /\ UNCHANGED ctrl_state
        BY <1>9, <3>2 DEF FreeNode
      <4>2. Counted(d)'
        BY <3>1, <3>2, <4>1, Counts
      <4>3. Tallied(d)'
        BY <3>1, <3>2, <4>1
      <4>4. QED
        BY <4>2, <4>3
    <3>3. CASE ~(nodes[d] < NodeCount(d) /\ ~ctrl_state[d])
      <4>1. /\ ctrl_state'[d] = TRUE /\ pc'[d] = "top" /\ UNCHANGED <<nodes, mreg>>
        BY <1>9, <3>3 DEF FreeNode
      <4>2. nodes[d] = NodeCount(d)
        <5>1. ctrl_state[d] => nodes[d] = NodeCount(d)
          BY <3>1
        <5>2. nodes[d] <= NodeCount(d) /\ NodeCount(d) \in Nat
          BY Counts
        <5> HIDE DEF PowerInv, TypeOK, DaemonInv, Counted, Tallied, Ordered,
                     Looping, Asked, Ended, NodeCount
        <5>3. ~ctrl_state[d] => ~(nodes[d] < NodeCount(d))
          BY <3>3
        <5>4. ~ctrl_state[d] => nodes[d] = NodeCount(d)
          BY <3>1, <5>2, <5>3
        <5>5. QED
          BY <5>1, <5>4
      <4>3. Counted(d)'
        BY <3>1, <4>1, <4>2
      <4>4. Tallied(d)'
        BY <3>1, <4>1
      <4>5. QED
        BY <4>3, <4>4
    <3>4. QED
      BY <3>2, <3>3
  <2>2. Ordered(d)' /\ Looping(d)'
    BY <1>9 DEF FreeNode
  <2>3. Asked(d)'
    BY <1>9 DEF FreeNode
  <2>4. Ended(d)'
    BY <1>9 DEF FreeNode
  <2>5. QED
    BY <2>1, <2>2, <2>3, <2>4
<1>23. CASE CountNode(d)
  <2>1. Counted(d)' /\ Tallied(d)'
    BY <1>23, SizeAssumption DEF CountNode
  <2>2. Ordered(d)' /\ Looping(d)' /\ Asked(d)' /\ Ended(d)'
    BY <1>23 DEF CountNode
  <2>3. QED
    BY <2>1, <2>2
<1>10. CASE Final(d)
  BY <1>10 DEF Final
<1>11. CASE Exit(d)
  BY <1>11 DEF Exit, Gone
<1>12. CASE CancelSweeper(d)
  BY <1>12 DEF CancelSweeper
<1>13. CASE FreeSlots(d)
  BY <1>13, SizeAssumption DEF FreeSlots
<1>14. CASE CancelThreads(d)
  BY <1>14 DEF CancelThreads
<1>15. CASE FreeModule(d)
  <2>1. Counted(d)' /\ Tallied(d)'
    BY <1>15, SizeAssumption DEF FreeModule
  <2>2. Ordered(d)' /\ Looping(d)'
    BY <1>15, SizeAssumption DEF FreeModule
  <2>3. Asked(d)' /\ Ended(d)'
    BY <1>15 DEF FreeModule
  <2>4. QED
    BY <2>1, <2>2, <2>3
<1>24. CASE CountModule(d)
  <2>1. Counted(d)' /\ Tallied(d)'
    BY <1>24, SizeAssumption DEF CountModule
  <2>2. Ordered(d)' /\ Looping(d)' /\ Asked(d)' /\ Ended(d)'
    BY <1>24 DEF CountModule
  <2>3. QED
    BY <2>1, <2>2
<1>16. CASE Close(d)
  BY <1>16 DEF Close
<1>17. CASE EnterWalk(d)
  BY <1>17 DEF EnterWalk
<1>18. CASE LeaveWalk(d)
  BY <1>18 DEF LeaveWalk
<1>19. CASE TouchFreedSlot(d)
  BY <1>19 DEF TouchFreedSlot, Gone
<1>20. CASE TouchFreedModule(d)
  BY <1>20 DEF TouchFreedModule, Gone
<1>21. CASE TouchRegistry(d)
  BY <1>21 DEF TouchRegistry, Gone
<1>25. CASE Fail(d)
  <2>1. /\ pc'[d] = "off" /\ value'[d] = 0 /\ procx'[d] = "none"
        /\ ended'[d] = "failed" /\ walk'[d] = FALSE /\ crt'[d] = 0
        /\ UNCHANGED <<closers, slots, mods, nodes, asked>>
    BY <1>25 DEF Fail, Gone
  <2>2. Counted(d)'
    BY <2>1
  <2>3. Tallied(d)'
    BY <2>1
  <2>4. Ordered(d)' /\ Looping(d)'
    BY <2>1
  <2>5. Asked(d)' /\ Ended(d)'
    BY <2>1 DEF DISABLE
  <2>6. QED
    BY <2>2, <2>3, <2>4, <2>5
<1>22. QED
  BY <1>23, <1>24, <1>25, <1>1, <1>2, <1>3, <1>4, <1>5, <1>6, <1>7, <1>8, <1>9, <1>10, <1>11, <1>12, <1>13, <1>14, <1>15, <1>16, <1>17, <1>18, <1>19, <1>20, <1>21
     DEF DaemonStep, MainStep, CloserStep

-----------------------------------------------------------------------------
(***************************************************************************)
(* Types, and the registers.                                               *)
(***************************************************************************)
LEMMA TypeKept ==
  ASSUME PowerInv, [Next]_vars
  PROVE  TypeOK'
<1> USE DEF PowerInv, TypeOK, registers, mainvars, closevars, freevars, offwvars,
        ProgWrite, RestartWrite
<1>1. ASSUME NEW d \in Daemons, Start(d) \/ Zero(d) \/ Fresh(d) \/ ReadState(d)
      PROVE  TypeOK'
  <2>1. CASE Start(d)
    <3>1. /\ asked' \in [Daemons -> BOOLEAN] /\ poweroff' \in 0..2
          /\ progress' \in -1..100
      <4>1. CASE LoadFails(d)
        BY <4>1 DEF LoadFails, PowerOffWrite, DISABLE
      <4>2. CASE UNCHANGED <<registers, asked>>
        BY <4>2
      <4>3. QED
        BY <2>1, <4>1, <4>2 DEF Start
    <3>2. 0 \in 0..SLOTS /\ 0 \in 0..MODS /\ 0 \in 0..NODES /\ 0 \in 0..(NODES + MODS)
      BY SizeAssumption
    <3>3. /\ pc' \in [Daemons -> MainPC] /\ value' \in [Daemons -> 0..2]
          /\ ptty' \in [Daemons -> 0..100] /\ ctrl_state' \in [Daemons -> BOOLEAN]
          /\ svc' \in [Daemons -> 0..MODS]
      BY <2>1, <3>2 DEF Start, MainPC
    <3>4. /\ closers' \in [Daemons -> 0..2] /\ close_final' \in [Daemons -> BOOLEAN]
          /\ slots' \in [Daemons -> 0..SLOTS] /\ mods' \in [Daemons -> 0..MODS]
          /\ nodes' \in [Daemons -> 0..NODES]
      BY <2>1, <3>2 DEF Start
    <3>5. /\ crt' \in [Daemons -> 0..(NODES + MODS)]
          /\ mreg' \in [Daemons -> 0..(NODES + MODS)]
          /\ creg' \in [Daemons -> 0..(NODES + MODS)]
      BY <2>1, <3>2 DEF Start
    <3>6. /\ ended' \in [Daemons -> {"absent", "never", "orderly", "crashed", "failed"}]
          /\ UNCHANGED <<procx, walk, offwvars>>
      BY <2>1 DEF Start
    <3>7. QED
      BY <3>1, <3>3, <3>4, <3>5, <3>6
  <2>2. CASE Zero(d)
    BY <2>2 DEF Zero, MainPC
  <2>3. CASE Fresh(d)
    BY <2>3 DEF Fresh, MainPC
  <2>4. CASE ReadState(d)
    BY <2>4 DEF ReadState, MainPC
  <2>5. QED
    BY <1>1, <2>1, <2>2, <2>3, <2>4
<1>2. ASSUME NEW d \in Daemons, Count(d)
      PROVE  TypeOK'
  <2>1. Percent(d) \in 0..100
    BY PercentZero DEF DaemonInv
  <2>2. QED
    BY <1>2, <2>1 DEF Count, MainPC
<1>3. ASSUME NEW d \in Daemons, Publish(d)
      PROVE  TypeOK'
  BY <1>3 DEF Publish, Branch, MainPC
<1>4. ASSUME NEW d \in Daemons, CreateCloser(d)
      PROVE  TypeOK'
  <2>1. /\ FirstCloseStep(d) \in ProcxPC /\ AfterCreate(d) \in MainPC
        /\ (IF d \in Servers THEN "mods" ELSE "close") \in ProcxPC
    BY DEF FirstCloseStep, AfterCreate, MainPC, ProcxPC
  <2>2. AddCloser(closers[d]) \in 0..2
    BY DEF AddCloser
  <2>3. 0 \in 0..MODS
    BY SizeAssumption
  <2>4. QED
    BY <1>4, <2>1, <2>2, <2>3 DEF CreateCloser
<1>5. ASSUME NEW d \in Daemons, Serve(d) \/ Final(d)
      PROVE  TypeOK'
  BY <1>5, SizeAssumption DEF Serve, Final, MainPC
<1>6. ASSUME NEW d \in Daemons, FreeNode(d) \/ CountNode(d)
      PROVE  TypeOK'
  <2>1. nodes[d] < NodeCount(d) => nodes[d] + 1 \in 0..NODES
    BY Counts, SizeAssumption
  <2>2. CASE FreeNode(d)
    <3>1. /\ pc' \in [Daemons -> MainPC] /\ ctrl_state' \in [Daemons -> BOOLEAN]
      BY <2>2 DEF FreeNode, MainPC
    <3>2. nodes' \in [Daemons -> 0..NODES]
      BY <2>1, <2>2 DEF FreeNode
    <3>3. mreg' \in [Daemons -> 0..(NODES + MODS)]
      BY <2>2 DEF FreeNode
    <3>4. UNCHANGED <<registers, value, ptty, svc, closevars, crt, creg, walk,
                      ended, asked, offwvars>>
      BY <2>2 DEF FreeNode
    <3>5. QED
      BY <3>1, <3>2, <3>3, <3>4
  <2>3. CASE CountNode(d)
    <3>1. mreg[d] + 1 \in 0..(NODES + MODS) /\ 0 \in 0..(NODES + MODS)
      BY <2>3, SizeAssumption DEF CountNode, DaemonInv, Tallied
    <3>2. QED
      BY <2>3, <3>1 DEF CountNode, MainPC
  <2>4. QED
    BY <1>6, <2>2, <2>3
<1>7. ASSUME NEW d \in Daemons, CancelSweeper(d) \/ CancelThreads(d) \/ Close(d)
      PROVE  TypeOK'
  BY <1>7, ZenonT(90) DEF CancelSweeper, CancelThreads, Close, ProcxPC
<1>8. ASSUME NEW d \in Daemons, FreeSlots(d) \/ FreeModule(d) \/ CountModule(d)
      PROVE  TypeOK'
  <2>1. CASE FreeSlots(d) \/ FreeModule(d)
    BY <2>1, SizeAssumption DEF FreeSlots, FreeModule, ProcxPC
  <2>2. CASE CountModule(d)
    <3>1. creg[d] + 1 \in 0..(NODES + MODS) /\ 0 \in 0..(NODES + MODS)
      BY <2>2, SizeAssumption DEF CountModule, DaemonInv, Tallied
    <3>2. QED
      BY <2>2, <3>1 DEF CountModule, ProcxPC
  <2>3. QED
    BY <1>8, <2>1, <2>2
<1>9. ASSUME NEW d \in Daemons, EnterWalk(d) \/ LeaveWalk(d)
      PROVE  TypeOK'
  BY <1>9, ZenonT(30) DEF EnterWalk, LeaveWalk
<1>10. ASSUME NEW d \in Daemons,
              \/ Exit(d) \/ TouchFreedSlot(d) \/ TouchFreedModule(d)
              \/ TouchRegistry(d) \/ Fail(d)
       PROVE  TypeOK'
  <2>1. PICK how \in {"orderly", "crashed", "failed"} : Gone(d, how)
    BY <1>10 DEF Exit, TouchFreedSlot, TouchFreedModule, TouchRegistry, Fail
  <2>2. 0 \in 0..(NODES + MODS) /\ 0 \in 0..MODS
    BY SizeAssumption
  <2>3. /\ pc' \in [Daemons -> MainPC] /\ procx' \in [Daemons -> ProcxPC]
        /\ ended' \in [Daemons -> {"absent", "never", "orderly", "crashed", "failed"}]
    BY <2>1 DEF Gone, MainPC, ProcxPC
  <2>4. QED
    BY <2>1, <2>2, <2>3 DEF Gone
<1>11. CASE Ask \/ AskRestart \/ GiveUp \/ Withdraw \/ Interrupt
  <2>1. CASE Ask
    <3>1. /\ asked' \in [Daemons -> BOOLEAN] /\ said' \in BOOLEAN
          /\ opc' \in {"idle", "poll", "done"}
      BY <2>1 DEF Ask
    <3>2. /\ poweroff' \in 0..2 /\ progress' \in -1..100
          /\ ocount' \in 0..5 /\ oold' \in 0..98 /\ ovalue' \in 0..100
      BY <2>1 DEF Ask, PowerOffWrite, DISABLE
    <3>3. QED
      BY <2>1, <3>1, <3>2 DEF Ask
  <2>2. CASE AskRestart \/ Withdraw
    BY <2>2 DEF AskRestart, Withdraw
  <2>3. CASE GiveUp \/ Interrupt
    BY <2>3 DEF GiveUp, Interrupt
  <2>4. QED
    BY <1>11, <2>1, <2>2, <2>3
<1>12. CASE Poll
  <2>1. ProgRead \in 0..100 \cup {UINT - 1}
    BY ReadOf
  <2>2. ProgRead < 99 => ProgRead \in 0..98
    BY <2>1, UintAssumption
  <2>3. /\ ovalue' = ProgRead
        /\ ocount' \in 0..5 /\ oold' \in 0..98
        /\ said' \in BOOLEAN /\ opc' \in {"idle", "poll", "done"}
    <3>1. CASE ProgRead >= 99
      BY <1>12, <3>1 DEF Poll
    <3>2. CASE ~(ProgRead >= 99)
      <4>1. ProgRead < 99
        BY <2>1, <3>2, UintAssumption
      <4>2. oold' \in 0..98
        BY <1>12, <2>2, <3>2, <4>1 DEF Poll
      <4>3. ocount' \in 0..5
        BY <1>12, <3>2 DEF Poll
      <4>4. QED
        BY <1>12, <3>2, <4>2, <4>3 DEF Poll
    <3>3. QED
      BY <3>1, <3>2
  <2>4. QED
    BY <1>12, <2>1, <2>3 DEF Poll
<1>13. CASE UNCHANGED vars
  BY <1>13 DEF vars
<1>14. QED
  BY <1>1, <1>2, <1>3, <1>4, <1>5, <1>6, <1>7, <1>8, <1>9, <1>10, <1>11,
     <1>12, <1>13 DEF Next, MainStep, CloserStep, OffwStep

\* The disable value is written by Ask only, to every daemon that is there;
\* a startup forgets the request of its own daemon and withdraws it for all.
LEMMA StandingKept ==
  ASSUME PowerInv, [Next]_vars
  PROVE  Standing'
<1> USE DEF PowerInv, Standing, DISABLE
<1>1. CASE Ask
  BY <1>1 DEF Ask
<1>2. CASE AskRestart \/ Withdraw
  BY <1>2 DEF AskRestart, Withdraw, RestartWrite
<1>3. CASE Poll \/ GiveUp \/ Interrupt
  BY <1>3 DEF Poll, GiveUp, Interrupt, registers
<1>4. ASSUME NEW d \in Daemons, Fresh(d)
      PROVE  Standing'
  BY <1>4 DEF Fresh, RestartWrite
<1>8. ASSUME NEW d \in Daemons, Start(d)
      PROVE  Standing'
  BY <1>8 DEF Start, LoadFails, registers
<1>5. ASSUME NEW d \in Daemons, DaemonStep(d), ~Fresh(d), ~Start(d)
      PROVE  UNCHANGED <<poweroff, asked>>
  BY <1>5 DEF DaemonStep, MainStep, Zero, Count, ReadState, Publish,
     CreateCloser, Serve, FreeNode, CountNode, Final, Exit, Gone, CloserStep,
     CancelSweeper, FreeSlots, CancelThreads, FreeModule, CountModule, Close,
     EnterWalk, LeaveWalk, TouchFreedSlot, TouchFreedModule, TouchRegistry, Fail,
     registers,
     ProgWrite
<1>6. CASE UNCHANGED vars
  BY <1>6 DEF vars, registers
<1>7. QED
  BY <1>1, <1>2, <1>3, <1>4, <1>5, <1>6, <1>8 DEF Next, OffwStep, DaemonStep

\* What croffw does reaches a daemon through the registers only.
LEMMA OffwKeeps ==
  ASSUME PowerInv, NEW d \in Daemons,
         OffwAction \/ UNCHANGED vars
  PROVE  DaemonInv(d)'
<1>1. Same(d)
  <2>1. CASE Ask
    BY <2>1 DEF Ask, Same, mainvars, closevars, freevars
  <2>2. CASE AskRestart \/ OffwStep \/ Interrupt \/ UNCHANGED vars
    BY <2>2 DEF AskRestart, OffwStep, Poll, GiveUp, Withdraw, Interrupt, Same,
       vars, mainvars, closevars, freevars
  <2>3. QED
    BY <2>1, <2>2 DEF OffwAction
<1>2. QED
  BY <1>1, SameKeeps DEF PowerInv

LEMMA StepKeeps ==
  ASSUME PowerInv, [Next]_vars
  PROVE  PowerInv'
<1>1. ASSUME NEW d \in Daemons
      PROVE  DaemonInv(d)'
  <2>1. ASSUME NEW e \in Daemons, DaemonStep(e)
        PROVE  DaemonInv(d)'
    <3>1. CASE d = e
      BY <2>1, <3>1, Own
    <3>2. CASE d # e
      <4>1. Same(d)
        BY <2>1, <3>2, Elsewhere DEF PowerInv
      <4>2. QED
        BY <4>1, SameKeeps DEF PowerInv
    <3>3. QED
      BY <3>1, <3>2
  <2>2. CASE OffwAction \/ UNCHANGED vars
    BY <2>2, OffwKeeps
  <2>3. QED
    BY <2>1, <2>2 DEF Next, DaemonStep, OffwAction
<1>2. QED
  BY <1>1, TypeKept, StandingKept DEF PowerInv

LEMMA InitHolds == Init => PowerInv
<1> SUFFICES ASSUME Init
             PROVE  PowerInv
  OBVIOUS
<1>1. PICK F \in Fleets :
        ended = [d \in Daemons |-> IF d \in F THEN "never" ELSE "absent"]
  BY DEF Init
<1>2. TypeOK
  <2>1. ended \in [Daemons -> {"absent", "never", "orderly", "crashed", "failed"}]
    BY <1>1
  <2>2. 0 \in 0..SLOTS /\ 0 \in 0..MODS /\ 0 \in 0..NODES /\ 0 \in 0..(NODES + MODS)
    BY SizeAssumption
  <2>3. /\ progress \in -1..100 /\ poweroff \in 0..2
        /\ ocount \in 0..5 /\ oold \in 0..98 /\ ovalue \in 0..100
    BY DEF Init, RegistersInit
  <2>4. /\ pc \in [Daemons -> MainPC] /\ procx \in [Daemons -> ProcxPC]
        /\ value \in [Daemons -> 0..2] /\ ptty \in [Daemons -> 0..100]
        /\ closers \in [Daemons -> 0..2]
    BY DEF Init, MainPC, ProcxPC
  <2>5. /\ svc \in [Daemons -> 0..MODS] /\ slots \in [Daemons -> 0..SLOTS]
        /\ mods \in [Daemons -> 0..MODS] /\ nodes \in [Daemons -> 0..NODES]
        /\ crt \in [Daemons -> 0..(NODES + MODS)]
        /\ mreg \in [Daemons -> 0..(NODES + MODS)]
        /\ creg \in [Daemons -> 0..(NODES + MODS)]
    BY <2>2 DEF Init
  <2>6. /\ ctrl_state \in [Daemons -> BOOLEAN] /\ walk \in [Daemons -> BOOLEAN]
        /\ close_final \in [Daemons -> BOOLEAN] /\ asked \in [Daemons -> BOOLEAN]
        /\ opc \in {"idle", "poll", "done"} /\ said \in BOOLEAN
    BY DEF Init
  <2>7. QED
    BY <2>1, <2>3, <2>4, <2>5, <2>6 DEF TypeOK
<1>3. Standing
  BY DEF Init, Standing, RegistersInit, DISABLE
<1>4. ASSUME NEW d \in Daemons
      PROVE  DaemonInv(d)
  BY <1>1, SizeAssumption DEF Init, DaemonInv, Counted, Tallied, Sharing, Ordered,
     Looping, Asked, Ended, Up, FreedAll, NodeCount, SlotCount, ModCount, DISABLE
<1>5. QED
  BY <1>2, <1>3, <1>4 DEF PowerInv

LEMMA PowerInvariant == Spec => []PowerInv
<1>1. PowerInv /\ [Next]_vars => PowerInv'
  BY StepKeeps
<1>2. QED
  BY <1>1, InitHolds, PTL DEF Spec

-----------------------------------------------------------------------------
\* The registers and every variable of every daemon and of croffw keep their
\* types, for any daemons and numbers: no percentage passes 100, and no count
\* of what is freed passes what there is.
THEOREM TypeCorrect == Spec => []TypeOK
<1>1. PowerInv => TypeOK
  BY DEF PowerInv
<1>2. QED
  BY <1>1, PowerInvariant, PTL

\* A daemon that leaves its loop, and does not die, has freed every node,
\* slot and module it had, however many there are: 90 percent can only be
\* read after main has freed the nodes, and close_final is cleared last.
THEOREM OrderlyEnd == Spec => []OrderlyEndFreesAll
<1>1. PowerInv => OrderlyEndFreesAll
  BY DEF PowerInv, DaemonInv, Ended, OrderlyEndFreesAll
<1>2. QED
  BY <1>1, PowerInvariant, PTL

\* Main creates one close thread in a run, however often it comes round.
THEOREM ClosesOnce == Spec => []OneCloser
<1>1. PowerInv => OneCloser
  BY DEF PowerInv, DaemonInv, Ordered, OneCloser
<1>2. QED
  BY <1>1, PowerInvariant, PTL

\* No daemon starts to close, leaves its loop or crashes on freed memory on a
\* request older than its startup, for any number of daemons that share the
\* registers.
THEOREM AskedClose == Spec => []OnlyAskedDaemonsClose
<1>1. PowerInv => OnlyAskedDaemonsClose
  BY DEF PowerInv, DaemonInv, Asked, Ended, OnlyAskedDaemonsClose
<1>2. QED
  BY <1>1, PowerInvariant, PTL

\* Modules are unloaded after the pool is empty, and only a server whose close
\* thread has been created crashes on freed memory, for any daemons.
THEOREM CrashesClosing == Spec => []CrashesOnlyClosing
<1>1. PowerInv => CrashesOnlyClosing
  <2> SUFFICES ASSUME PowerInv, NEW d \in Daemons
               PROVE  /\ mods[d] > 0 => slots[d] = SLOTS
                      /\ ended[d] = "crashed" => d \in Servers /\ closers[d] = 1
    BY DEF CrashesOnlyClosing
  <2>1. mods[d] \in Nat
    BY DEF PowerInv, TypeOK
  <2>2. QED
    BY <2>1 DEF PowerInv, DaemonInv, Counted, Ordered, Ended, SlotCount,
       ModCount
<1>2. QED
  BY <1>1, PowerInvariant, PTL

-----------------------------------------------------------------------------
(***************************************************************************)
(* The refinement.  Every step of a daemon is a step of its abstract life, *)
(* or leaves phase and held as they are.                                   *)
(***************************************************************************)
Phases == [d \in Daemons |-> Phase(d)]
Holds  == [d \in Daemons |-> Held(d)]

LEMMA PhaseCases ==
  ASSUME NEW d \in Daemons
  PROVE  /\ Up(d) /\ procx[d] = "none" => Phase(d) = "up"
         /\ Up(d) /\ procx[d] # "none" => Phase(d) = "closing"
         /\ ~Up(d) => Phase(d) \in {"off", "crashed", "dead"}
         /\ ~Up(d) /\ ended[d] = "crashed" => Phase(d) = "crashed"
         /\ ~Up(d) /\ ended[d] = "failed" => Phase(d) = "dead"
         /\ ~Up(d) /\ ended[d] \notin {"crashed", "failed"} => Phase(d) = "off"
         /\ ~Up(d) => Held(d) = {}
  BY DEF Phase, Held

LEMMA SameLife ==
  ASSUME NEW d \in Daemons, Same(d)
  PROVE  Phase(d)' = Phase(d) /\ Held(d)' = Held(d)
<1>1. Up(d)' <=> Up(d)
  BY DEF Same, Up
<1>2. Phase(d)' = Phase(d)
  BY <1>1 DEF Phase, Same
<1>3. Held(d)' = Held(d)
  BY <1>1 DEF Held, Same, Kinds, NodeCount, SlotCount, ModCount
<1>4. QED
  BY <1>2, <1>3

\* What one daemon does changes its own entry of the two functions.
LEMMA Lifted ==
  ASSUME TypeOK, NEW e \in Daemons, DaemonStep(e)
  PROVE  /\ Phases' = [Phases EXCEPT ![e] = Phase(e)']
         /\ Holds' = [Holds EXCEPT ![e] = Held(e)']
<1>1. ASSUME NEW d \in Daemons, d # e
      PROVE  Phase(d)' = Phase(d) /\ Held(d)' = Held(d)
  BY <1>1, Elsewhere, SameLife
<1>2. QED
  BY <1>1 DEF Phases, Holds

LEMMA StartLife ==
  ASSUME PowerInv, NEW e \in Daemons, Start(e)
  PROVE  /\ Phase(e) \in {"off", "crashed", "dead"} /\ Phase(e)' = "up"
         /\ Held(e)' = Kinds(e)
<1>1. ~Up(e) /\ Up(e)' /\ procx[e] = "none" /\ procx'[e] = "none"
  BY DEF Start, Up, PowerInv, TypeOK, DaemonInv, Looping
<1>2. nodes'[e] = 0 /\ slots'[e] = 0 /\ mods'[e] = 0
  BY DEF Start, PowerInv, TypeOK
<1>3. Phase(e)' = "up"
  BY <1>1 DEF Phase
<1>4. NodeCount(e) > 0 /\ (e \in Servers => SlotCount(e) > 0 /\ ModCount(e) > 0)
  BY SizeAssumption DEF NodeCount, SlotCount, ModCount
<1>5. Held(e)' = Kinds(e)
  BY <1>1, <1>2, <1>4 DEF Held, Kinds, NodeCount, SlotCount, ModCount
<1>6. QED
  BY <1>1, <1>3, <1>5, PhaseCases

LEMMA CreateLife ==
  ASSUME PowerInv, NEW e \in Daemons, CreateCloser(e)
  PROVE  /\ Phase(e) = "up" /\ Phase(e)' = "closing"
         /\ Held(e)' = Held(e)
<1>1. Up(e) /\ Up(e)' /\ procx[e] = "none" /\ procx'[e] # "none"
  BY DEF CreateCloser, Up, PowerInv, TypeOK, DaemonInv, Looping, AfterCreate,
     FirstCloseStep
<1>2. UNCHANGED <<nodes, slots, mods>>
  BY DEF CreateCloser, freevars
<1>3. Phase(e)' = "closing"
  BY <1>1 DEF Phase
<1>4. Held(e)' = Held(e)
  BY <1>1, <1>2 DEF Held, Kinds, NodeCount, SlotCount, ModCount
<1>5. QED
  BY <1>1, <1>3, <1>4, PhaseCases

\* One of the three counters grows, in the order the abstract life asks for.
LEMMA FreeLife ==
  ASSUME PowerInv, NEW e \in Daemons,
         FreeNode(e) \/ FreeSlots(e) \/ FreeModule(e)
  PROVE  /\ Phase(e) = "closing" /\ Phase(e)' = "closing"
         /\ \/ Held(e)' = Held(e)
            \/ \E r \in {"nodes", "slots", "modules"} :
                 /\ r \in Held(e) /\ Held(e)' = Held(e) \ {r}
                 /\ r = "modules" => "slots" \notin Held(e)
<1>1. Up(e) /\ procx[e] # "none" /\ Up(e)' /\ procx'[e] # "none"
  BY DEF FreeNode, FreeSlots, FreeModule, Up, PowerInv, TypeOK, DaemonInv,
     Looping, mainvars, closevars, freevars
<1>2. Phase(e) = "closing" /\ Phase(e)' = "closing"
  BY <1>1 DEF Phase
<1>3. /\ nodes[e] \in Nat /\ slots[e] \in Nat /\ mods[e] \in Nat
      /\ Counted(e) /\ Ordered(e)
  BY DEF PowerInv, TypeOK, DaemonInv
<1>4. CASE FreeNode(e)
  <2>1. slots'[e] = slots[e] /\ mods'[e] = mods[e]
    BY <1>4 DEF FreeNode, closevars
  <2>2. CASE nodes'[e] = nodes[e]
    BY <1>1, <1>2, <2>1, <2>2 DEF Held, Kinds, NodeCount, SlotCount, ModCount
  <2>3. CASE nodes[e] < NodeCount(e) /\ nodes'[e] = nodes[e] + 1
    <3>1. "nodes" \in Held(e)
      BY <1>1, <2>3 DEF Held, Kinds
    <3>2. \/ Held(e)' = Held(e)
          \/ Held(e)' = Held(e) \ {"nodes"}
      BY <1>1, <1>3, <2>1, <2>3, Counts
         DEF Held, Kinds, NodeCount, SlotCount, ModCount
    <3>3. QED
      BY <1>2, <3>1, <3>2
  <2>4. nodes'[e] = nodes[e] \/ (nodes[e] < NodeCount(e) /\ nodes'[e] = nodes[e] + 1)
    BY <1>4 DEF FreeNode, PowerInv, TypeOK
  <2>5. QED
    BY <2>2, <2>3, <2>4
<1>5. CASE FreeSlots(e)
  <2>1. nodes'[e] = nodes[e] /\ mods'[e] = mods[e] /\ procx[e] = "slots"
    BY <1>5 DEF FreeSlots, freevars
  <2>2. e \in Servers
    BY <1>3, <2>1 DEF Ordered
  <2>3. /\ slots[e] \in 0..SLOTS /\ slots'[e] \in 0..SLOTS
        /\ slots'[e] < SLOTS => slots[e] < SLOTS
    BY <1>5, SizeAssumption DEF FreeSlots, PowerInv, TypeOK
  <2>4. \/ Held(e)' = Held(e)
        \/ "slots" \in Held(e) /\ Held(e)' = Held(e) \ {"slots"}
    BY <1>1, <2>1, <2>2, <2>3
       DEF Held, Kinds, NodeCount, SlotCount, ModCount
  <2>5. QED
    BY <1>2, <2>4
<1>6. CASE FreeModule(e)
  <2>1. nodes'[e] = nodes[e] /\ slots'[e] = slots[e] /\ procx[e] = "mods"
    BY <1>6 DEF FreeModule
  <2>2. e \in Servers /\ slots[e] = SLOTS
    BY <1>3, <2>1 DEF Ordered, SlotCount
  <2>3. /\ mods[e] \in 0..MODS /\ mods'[e] \in 0..MODS
        /\ mods'[e] < MODS => mods[e] < MODS
    BY <1>6, SizeAssumption DEF FreeModule, PowerInv, TypeOK
  <2>4. "slots" \notin Held(e)
    BY <2>2, SizeAssumption DEF Held, SlotCount
  <2>5. \/ Held(e)' = Held(e)
        \/ "modules" \in Held(e) /\ Held(e)' = Held(e) \ {"modules"}
    BY <1>1, <2>1, <2>2, <2>3
       DEF Held, Kinds, NodeCount, SlotCount, ModCount
  <2>6. QED
    BY <1>2, <2>4, <2>5
<1>7. QED
  BY <1>4, <1>5, <1>6

LEMMA EndLife ==
  ASSUME PowerInv, NEW e \in Daemons, Exit(e)
  PROVE  /\ Phase(e) = "closing" /\ Held(e) = {}
         /\ Phase(e)' = "off" /\ Held(e)' = {}
<1>1. /\ Up(e) /\ procx[e] = "idle" /\ ctrl_state[e]
      /\ Counted(e) /\ Ordered(e)
  BY DEF Exit, Up, PowerInv, DaemonInv, Looping
<1>2. /\ nodes[e] = NodeCount(e) /\ slots[e] = SlotCount(e)
      /\ mods[e] = ModCount(e)
  BY <1>1 DEF Counted, Ordered
<1>3. Held(e) = {}
  BY <1>2, Counts DEF Held
<1>4. pc'[e] = "off" /\ ended'[e] = "orderly"
  BY DEF Exit, Gone, PowerInv, TypeOK
<1>5. Phase(e)' = "off" /\ Held(e)' = {}
  BY <1>4 DEF Phase, Held, Up
<1>6. QED
  BY <1>1, <1>3, <1>5, PhaseCases

LEMMA CrashLife ==
  ASSUME PowerInv, NEW e \in Daemons,
         TouchFreedSlot(e) \/ TouchFreedModule(e) \/ TouchRegistry(e)
  PROVE  /\ Phase(e) = "closing" /\ "modules" \in Kinds(e)
         /\ Phase(e)' = "crashed" /\ Held(e)' = {}
<1>1. Up(e) /\ procx[e] # "none" /\ e \in Servers
  <2>1. Counted(e) /\ Looping(e) /\ slots[e] \in Nat
    BY DEF PowerInv, TypeOK, DaemonInv
  <2>2. QED
    BY <2>1 DEF TouchFreedSlot, TouchFreedModule, TouchRegistry, Counted,
       Looping, Up
<1>2. pc'[e] = "off" /\ ended'[e] = "crashed"
  BY DEF TouchFreedSlot, TouchFreedModule, TouchRegistry, Gone, PowerInv,
     TypeOK
<1>3. Phase(e)' = "crashed" /\ Held(e)' = {}
  BY <1>2 DEF Phase, Held, Up
<1>4. QED
  BY <1>1, <1>3, PhaseCases DEF Kinds

LEMMA DieLife ==
  ASSUME PowerInv, NEW e \in Daemons, Fail(e)
  PROVE  /\ Phase(e) \in {"up", "closing"}
         /\ Phase(e)' = "dead" /\ Held(e)' = {}
<1>1. Phase(e) \in {"up", "closing"}
  BY PhaseCases DEF Fail
<1>2. pc'[e] = "off" /\ ended'[e] = "failed"
  BY DEF Fail, Gone, PowerInv, TypeOK
<1>3. Phase(e)' = "dead" /\ Held(e)' = {}
  BY <1>2 DEF Phase, Held, Up
<1>4. QED
  BY <1>1, <1>3

OtherStep(d) ==
  \/ Zero(d) \/ Fresh(d) \/ Count(d) \/ ReadState(d) \/ Publish(d)
  \/ Serve(d) \/ CountNode(d) \/ Final(d)
  \/ CancelSweeper(d) \/ CancelThreads(d) \/ CountModule(d) \/ Close(d)
  \/ EnterWalk(d) \/ LeaveWalk(d)

LEMMA OtherLife ==
  ASSUME PowerInv, NEW e \in Daemons, OtherStep(e)
  PROVE  Phase(e)' = Phase(e) /\ Held(e)' = Held(e)
<1> USE DEF PowerInv, TypeOK, Up
<1>1. UNCHANGED <<nodes, slots, mods, ended>>
  BY DEF OtherStep, Zero, Fresh, Count, ReadState, Publish, Serve, CountNode,
     Final, CancelSweeper, CancelThreads, CountModule, Close, EnterWalk, LeaveWalk,
     closevars, freevars
<1>2. Up(e) /\ Up(e)' /\ (procx'[e] = "none" <=> procx[e] = "none")
  <2>1. CASE \/ Zero(e) \/ Fresh(e) \/ Count(e) \/ ReadState(e) \/ Serve(e)
             \/ CountNode(e)
    BY <2>1 DEF Zero, Fresh, Count, ReadState, Serve, CountNode, closevars
  <2>2. CASE Publish(e) \/ Final(e)
    BY <2>2 DEF Publish, Final, Branch, closevars
  <2>3. CASE CancelSweeper(e) \/ CancelThreads(e) \/ CountModule(e) \/ Close(e)
    BY <2>3 DEF CancelSweeper, CancelThreads, CountModule, Close, mainvars, DaemonInv,
       Looping
  <2>4. CASE EnterWalk(e) \/ LeaveWalk(e)
    BY <2>4 DEF EnterWalk, LeaveWalk, mainvars, closevars, DaemonInv, Looping
  <2>5. QED
    BY <2>1, <2>2, <2>3, <2>4 DEF OtherStep
<1>3. Phase(e)' = Phase(e)
  BY <1>2 DEF Phase
<1>4. Held(e)' = Held(e)
  BY <1>1, <1>2 DEF Held, Kinds, NodeCount, SlotCount, ModCount
<1>5. QED
  BY <1>3, <1>4

LEMMA StepRefines ==
  ASSUME PowerInv, [Next]_vars
  PROVE  [Life!ANext]_(Life!avars)
<1> USE DEF Phases, Holds
<1>1. ASSUME NEW e \in Daemons, DaemonStep(e)
      PROVE  [Life!ANext]_(Life!avars)
  <2>1. /\ Phases' = [Phases EXCEPT ![e] = Phase(e)']
        /\ Holds' = [Holds EXCEPT ![e] = Held(e)']
        /\ Phases[e] = Phase(e) /\ Holds[e] = Held(e)
    BY <1>1, Lifted DEF PowerInv
  <2>2. CASE Start(e)
    BY <2>1, <2>2, StartLife DEF Life!ANext, Life!AStart
  <2>3. CASE CreateCloser(e)
    BY <2>1, <2>3, CreateLife DEF Life!ANext, Life!AClose
  <2>4. CASE FreeNode(e) \/ FreeSlots(e) \/ FreeModule(e)
    BY <2>1, <2>4, FreeLife, ZenonT(30)
       DEF Life!ANext, Life!ARelease, Life!Resource, Life!avars
  <2>5. CASE Exit(e)
    BY <2>1, <2>5, EndLife DEF Life!ANext, Life!AEnd
  <2>6. CASE TouchFreedSlot(e) \/ TouchFreedModule(e) \/ TouchRegistry(e)
    BY <2>1, <2>6, CrashLife DEF Life!ANext, Life!ACrash
  <2>9. CASE Fail(e)
    BY <2>1, <2>9, DieLife DEF Life!ANext, Life!ADie
  <2>7. CASE OtherStep(e)
    BY <2>1, <2>7, OtherLife DEF Life!avars
  <2>8. QED
    BY <1>1, <2>2, <2>3, <2>4, <2>5, <2>6, <2>7, <2>9
       DEF DaemonStep, OtherStep, MainStep, CloserStep
<1>2. CASE OffwAction \/ UNCHANGED vars
  <2>1. UNCHANGED <<pc, procx, ended, nodes, slots, mods>>
    BY <1>2 DEF OffwAction, Ask, AskRestart, OffwStep, Poll, GiveUp, Withdraw,
       Interrupt, vars, mainvars, closevars, freevars
  <2>2. Phases' = Phases /\ Holds' = Holds
    BY <2>1 DEF Phase, Held, Up
  <2>3. QED
    BY <2>2 DEF Life!avars
<1>3. QED
  BY <1>1, <1>2 DEF Next, DaemonStep, OffwAction

\* The protocol of registers, main loops and close threads implements the
\* abstract life of a daemon, for any daemons: it closes once, gives back slots
\* before modules, ends in order only with empty hands, and crashes on what it
\* has given back only while it closes; it can fail at any time.
THEOREM Implements == Spec => LifecycleSpec
<1>1. Init => Life!AInit
  BY DEF Init, Life!AInit, Phase, Held, Up
<1>2. PowerInv /\ [Next]_vars => [Life!ANext]_(Life!avars)
  BY StepRefines
<1>3. QED
  BY <1>1, <1>2, PowerInvariant, PTL DEF Spec, LifecycleSpec, Life!ASpec
=============================================================================
