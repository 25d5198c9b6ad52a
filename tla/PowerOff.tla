------------------------------ MODULE PowerOff ------------------------------
(***************************************************************************)
(* Powering the project off: the tool croffw, the two registers of the     *)
(* control driver, and the daemons crserv, crmicp and crinp that poll them *)
(* from their main loop.  A daemon that reads the disable value starts a   *)
(* close thread, frees its system nodes itself, and leaves its loop when   *)
(* it finds almost everything freed and the close thread done; after every *)
(* turn it publishes the percentage it has freed.  croffw asks, polls that *)
(* percentage, and withdraws the request when it has read 99 or seen no    *)
(* progress five times.                                                    *)
(*                                                                         *)
(* What main and the close thread free of nodes and modules they count in  *)
(* one plain variable, crt_free: an increment reads it and writes it back, *)
(* and what the other has counted in between is lost.                      *)
(*                                                                         *)
(* A daemon can also crash: crserv's close thread frees the slot list,     *)
(* empties the thread registry and unloads the modules under the feet of   *)
(* threads that may still use them, and the handler it installs turns      *)
(* SIGSEGV into exit(0).  And it can fail at any time, in service too: the *)
(* same handler ends it on SIGPIPE when a client of its socket has gone,   *)
(* and libmic calls exit when the sound device gives an error.             *)
(***************************************************************************)
EXTENDS Ctl10

CONSTANTS
  Servers,     \* crserv processes: they own a slot pool and loaded modules
  Inputs,      \* crmicp and crinp processes: they own one system node each
  NODES,       \* system nodes a server registers (crt_count, sysnodes)
  SLOTS,       \* slots of a server's pool (rmc_count, 2048 in the code)
  MODS,        \* modules a server loads (crt_count, mod_update)
  BATCH,       \* slots the close thread frees in one step of the model
  Fleets       \* the sets of daemons an installation may have

Daemons == Servers \cup Inputs

\* Every slot and every module registers a system node of its own; the slots
\* are more than one in a hundred of all that is counted.
ASSUME SizeAssumption ==
  /\ Servers \cap Inputs = {} /\ Fleets \subseteq SUBSET Daemons
  /\ SLOTS \in Nat \ {0} /\ MODS \in Nat \ {0} /\ BATCH \in Nat \ {0}
  /\ NODES \in Nat \ {0} /\ NODES >= SLOTS + MODS
  /\ 100 * SLOTS >= NODES + SLOTS + MODS

VARIABLES
  pc,          \* where main() of a daemon is
  value,       \* main's copy of the power-off register
  ptty,        \* main's percentage
  ctrl_state,  \* main has freed the system nodes
  svc,         \* modules main has visited in mod_disable_service
  procx,       \* where the close thread is
  closers,     \* close threads created since the start (capped at 2)
  close_final, \* FALSE once the close thread has finished
  slots,       \* slots freed (rmc_free)
  mods,        \* ghost: modules freed
  nodes,       \* ghost: system nodes freed
  crt,         \* crt_free: what has been counted of both
  mreg, creg,  \* what main and the close thread have read of it, to add one
  walk,        \* some other thread is inside a walk of the slot list
  ended,       \* how the last run of the daemon ended, or that it is absent
  asked,       \* ghost: croffw, or a server that could not load its modules,
               \* has asked since this daemon's startup RESTART
  opc,         \* where croffw is
  ocount,      \* its polls without progress
  oold,        \* its last percentage
  ovalue,      \* its ptty_value
  said         \* it has printed "complete progress"

mainvars  == <<pc, value, ptty, ctrl_state, svc>>
closevars == <<procx, closers, close_final, slots, mods>>
offwvars  == <<opc, ocount, oold, ovalue, said>>
freevars  == <<nodes, crt, mreg, creg>>
vars == <<registers, mainvars, closevars, freevars, walk, ended, asked, offwvars>>

-----------------------------------------------------------------------------
\* What a daemon has to free, what it has freed, and percent() of the two,
\* truncated by the assignment to an unsigned.
NodeCount(d) == IF d \in Servers THEN NODES ELSE 1
SlotCount(d) == IF d \in Servers THEN SLOTS ELSE 0
ModCount(d)  == IF d \in Servers THEN MODS ELSE 0

Total(d) == NodeCount(d) + SlotCount(d) + ModCount(d)
Freed(d) == crt[d] + slots[d]     \* libcrt_cfree() + librmc_cfree()
Percent(d) == (100 * Freed(d)) \div Total(d)

Up(d) == pc[d] # "off"

Init ==
  /\ RegistersInit
  /\ pc = [d \in Daemons |-> "off"]
  /\ value = [d \in Daemons |-> 0]
  /\ ptty = [d \in Daemons |-> 0]
  /\ ctrl_state = [d \in Daemons |-> FALSE]
  /\ svc = [d \in Daemons |-> 0]
  /\ procx = [d \in Daemons |-> "none"]
  /\ closers = [d \in Daemons |-> 0]
  /\ close_final = [d \in Daemons |-> TRUE]
  /\ slots = [d \in Daemons |-> 0]
  /\ mods = [d \in Daemons |-> 0]
  /\ nodes = [d \in Daemons |-> 0] /\ crt = [d \in Daemons |-> 0]
  /\ mreg = [d \in Daemons |-> 0] /\ creg = [d \in Daemons |-> 0]
  /\ walk = [d \in Daemons |-> FALSE]
  /\ \E F \in Fleets :
       ended = [d \in Daemons |-> IF d \in F THEN "never" ELSE "absent"]
  /\ asked = [d \in Daemons |-> FALSE]
  /\ opc = "idle" /\ ocount = 0 /\ oold = 0 /\ ovalue = 0 /\ said = FALSE

-----------------------------------------------------------------------------
(***************************************************************************)
(* main() of a daemon.                                                     *)
(***************************************************************************)

\* A module cannot be loaded: the server asks everybody to power off, and goes
\* on.
LoadFails(d) ==
  /\ d \in Servers
  /\ PowerOffWrite(DISABLE)
  /\ asked' = [e \in Daemons |-> TRUE]

\* The process starts and initialises: modules loaded, pool built, threads
\* running.
Start(d) ==
  /\ pc[d] = "off" /\ ended[d] # "absent"
  /\ pc' = [pc EXCEPT ![d] = "zero"]
  /\ value' = [value EXCEPT ![d] = 0]
  /\ ptty' = [ptty EXCEPT ![d] = 0]
  /\ ctrl_state' = [ctrl_state EXCEPT ![d] = FALSE]
  /\ svc' = [svc EXCEPT ![d] = 0]
  /\ closers' = [closers EXCEPT ![d] = 0]
  /\ close_final' = [close_final EXCEPT ![d] = TRUE]
  /\ slots' = [slots EXCEPT ![d] = 0]
  /\ mods' = [mods EXCEPT ![d] = 0]
  /\ nodes' = [nodes EXCEPT ![d] = 0] /\ crt' = [crt EXCEPT ![d] = 0]
  /\ mreg' = [mreg EXCEPT ![d] = 0] /\ creg' = [creg EXCEPT ![d] = 0]
  /\ ended' = [ended EXCEPT ![d] = "never"]
  /\ LoadFails(d) \/ UNCHANGED <<registers, asked>>
  /\ UNCHANGED <<procx, walk, offwvars>>

\* It publishes 0 percent ...
Zero(d) ==
  /\ pc[d] = "zero"
  /\ ProgWrite(0)
  /\ pc' = [pc EXCEPT ![d] = "fresh"]
  /\ UNCHANGED <<value, ptty, ctrl_state, svc, closevars, freevars, walk, ended,
                 asked, offwvars>>

\* Variant: the startup leaves a request that is pending.
FreshKeepsRequest(d) ==
  /\ pc[d] = "fresh"
  /\ asked' = [asked EXCEPT ![d] = FALSE]
  /\ pc' = [pc EXCEPT ![d] = "top"]
  /\ UNCHANGED <<registers, value, ptty, ctrl_state, svc, closevars, freevars,
                 walk, ended, offwvars>>

\* ... and resets the request register, whoever wrote it.
Fresh(d) ==
  /\ pc[d] = "fresh"
  /\ RestartWrite(0)
  /\ asked' = [asked EXCEPT ![d] = FALSE]
  /\ pc' = [pc EXCEPT ![d] = "top"]
  /\ UNCHANGED <<value, ptty, ctrl_state, svc, closevars, freevars, walk, ended,
                 offwvars>>

\* Head of the loop: the freed counters are read before the register.
Count(d) ==
  /\ pc[d] = "top"
  /\ value' = [value EXCEPT ![d] = 0]
  /\ ptty' = [ptty EXCEPT ![d] = Percent(d)]
  /\ pc' = [pc EXCEPT ![d] = "state"]
  /\ UNCHANGED <<registers, ctrl_state, svc, closevars, freevars, walk, ended,
                 asked, offwvars>>

ReadState(d) ==
  /\ pc[d] = "state"
  /\ value' = [value EXCEPT ![d] = poweroff]
  /\ pc' = [pc EXCEPT ![d] = "write"]
  /\ UNCHANGED <<registers, ptty, ctrl_state, svc, closevars, freevars, walk,
                 ended, asked, offwvars>>

\* Which of the three tests on the percentage can hold; the gaps 61..89 and,
\* once the nodes are freed, 1..60 lead straight back to the head.
Branch(d) ==
  IF value[d] # DISABLE THEN "top"
  ELSE IF ptty[d] = 0 THEN "thread"
  ELSE IF ptty[d] <= 60 THEN "nodes"
  ELSE IF ptty[d] >= 90 THEN "final"
  ELSE "top"

Publish(d) ==
  /\ pc[d] = "write"
  /\ ProgWrite(ptty[d])
  /\ pc' = [pc EXCEPT ![d] = Branch(d)]
  /\ UNCHANGED <<value, ptty, ctrl_state, svc, closevars, freevars, walk, ended,
                 asked, offwvars>>

AddCloser(n) == IF n < 2 THEN n + 1 ELSE 2

\* crserv's close thread begins with the pool, the other programs' has nothing
\* to do; only crserv tells its modules.
FirstCloseStep(d) == IF d \in Servers THEN "sweeper" ELSE "close"
AfterCreate(d)    == IF d \in Servers THEN "serve" ELSE "nodes"

\* Variant: the close thread unloads the modules before anything else.
CreateUnloader(d) ==
  /\ pc[d] = "thread"
  /\ procx' = [procx EXCEPT ![d] = IF d \in Servers THEN "mods" ELSE "close"]
  /\ closers' = [closers EXCEPT ![d] = AddCloser(@)]
  /\ svc' = [svc EXCEPT ![d] = 0]
  /\ pc' = [pc EXCEPT ![d] = AfterCreate(d)]
  /\ UNCHANGED <<registers, value, ptty, ctrl_state, close_final, slots, mods,
                 freevars, walk, ended, asked, offwvars>>

CreateCloser(d) ==
  /\ pc[d] = "thread"
  /\ procx' = [procx EXCEPT ![d] = FirstCloseStep(d)]
  /\ closers' = [closers EXCEPT ![d] = AddCloser(@)]
  /\ svc' = [svc EXCEPT ![d] = 0]
  /\ pc' = [pc EXCEPT ![d] = AfterCreate(d)]
  /\ UNCHANGED <<registers, value, ptty, ctrl_state, close_final, slots, mods,
                 freevars, walk, ended, asked, offwvars>>

\* mod_disable_service visits the modules one by one while the close thread
\* may already be unloading them; it stops when the list's count is zeroed.
Serve(d) ==
  /\ pc[d] = "serve"
  /\ IF svc[d] < MODS /\ procx[d] # "idle"
       THEN svc' = [svc EXCEPT ![d] = @ + 1] /\ pc' = pc
       ELSE svc' = svc /\ pc' = [pc EXCEPT ![d] = "nodes"]
  /\ UNCHANGED <<registers, value, ptty, ctrl_state, closevars, freevars, walk,
                 ended, asked, offwvars>>

\* libcrt_snexit, once: it frees a node, reads the count of what is freed ...
FreeNode(d) ==
  /\ pc[d] = "nodes"
  /\ IF nodes[d] < NodeCount(d) /\ ~ctrl_state[d]
       THEN /\ nodes' = [nodes EXCEPT ![d] = @ + 1]
            /\ mreg' = [mreg EXCEPT ![d] = crt[d]]
            /\ pc' = [pc EXCEPT ![d] = "node"]
            /\ UNCHANGED ctrl_state
       ELSE /\ ctrl_state' = [ctrl_state EXCEPT ![d] = TRUE]
            /\ pc' = [pc EXCEPT ![d] = "top"]
            /\ UNCHANGED <<nodes, mreg>>
  /\ UNCHANGED <<registers, value, ptty, svc, closevars, crt, creg, walk, ended,
                 asked, offwvars>>

\* Variant: the nodes are freed without being counted.
CountNodeNot(d) ==
  /\ pc[d] = "node"
  /\ mreg' = [mreg EXCEPT ![d] = 0]
  /\ pc' = [pc EXCEPT ![d] = "nodes"]
  /\ UNCHANGED <<registers, value, ptty, ctrl_state, svc, closevars, nodes, crt,
                 creg, walk, ended, asked, offwvars>>

\* ... and writes it back, one larger, whatever it is by now.
CountNode(d) ==
  /\ pc[d] = "node"
  /\ crt' = [crt EXCEPT ![d] = mreg[d] + 1]
  /\ mreg' = [mreg EXCEPT ![d] = 0]
  /\ pc' = [pc EXCEPT ![d] = "nodes"]
  /\ UNCHANGED <<registers, value, ptty, ctrl_state, svc, closevars, nodes, creg,
                 walk, ended, asked, offwvars>>

\* Variant: the percentage alone decides, close_final is not looked at.
FinalUnchecked(d) ==
  /\ pc[d] = "final"
  /\ pc' = [pc EXCEPT ![d] = "exit"]
  /\ UNCHANGED <<registers, value, ptty, ctrl_state, svc, closevars, freevars,
                 walk, ended, asked, offwvars>>

\* libcrt_poweroff, if the close thread has finished.
Final(d) ==
  /\ pc[d] = "final"
  /\ pc' = [pc EXCEPT ![d] = IF close_final[d] THEN "top" ELSE "exit"]
  /\ UNCHANGED <<registers, value, ptty, ctrl_state, svc, closevars, freevars,
                 walk, ended, asked, offwvars>>

\* The process is gone, and its threads and variables with it; what it had freed
\* is remembered.
Gone(d, how) ==
  /\ pc' = [pc EXCEPT ![d] = "off"]
  /\ value' = [value EXCEPT ![d] = 0]
  /\ ptty' = [ptty EXCEPT ![d] = 0]
  /\ ctrl_state' = [ctrl_state EXCEPT ![d] = FALSE]
  /\ svc' = [svc EXCEPT ![d] = 0]
  /\ procx' = [procx EXCEPT ![d] = "none"]
  /\ crt' = [crt EXCEPT ![d] = 0]
  /\ mreg' = [mreg EXCEPT ![d] = 0] /\ creg' = [creg EXCEPT ![d] = 0]
  /\ walk' = [walk EXCEPT ![d] = FALSE]
  /\ ended' = [ended EXCEPT ![d] = how]
  /\ UNCHANGED <<registers, closers, close_final, slots, mods, nodes, asked,
                 offwvars>>

Exit(d) == pc[d] = "exit" /\ Gone(d, "orderly")

MainStep(d) ==
  \/ Zero(d) \/ Fresh(d) \/ Count(d) \/ ReadState(d) \/ Publish(d)
  \/ CreateCloser(d) \/ Serve(d) \/ FreeNode(d) \/ CountNode(d)
  \/ Final(d) \/ Exit(d)

-----------------------------------------------------------------------------
(***************************************************************************)
(* thread_procx.  In crserv: librmc_exit, mod_thread_exit, mod_free; in    *)
(* the two input programs nothing but the last assignment.                 *)
(***************************************************************************)

\* mod_thread_close: the pool's sweeper is cancelled, and its entry in the
\* thread registry loses the thread's handle.
CancelSweeper(d) ==
  /\ procx[d] = "sweeper"
  /\ procx' = [procx EXCEPT ![d] = "slots"]
  /\ UNCHANGED <<registers, mainvars, closers, close_final, slots, mods, freevars,
                 walk, ended, asked, offwvars>>

\* librmc_free, BATCH slots at a time; with the last one sptr_core is NULL.
FreeSlots(d) ==
  /\ procx[d] = "slots"
  /\ LET n == slots[d] + BATCH
     IN IF n < SLOTS
          THEN slots' = [slots EXCEPT ![d] = n] /\ procx' = procx
          ELSE /\ slots' = [slots EXCEPT ![d] = SLOTS]
               /\ procx' = [procx EXCEPT ![d] = "cancel"]
  /\ UNCHANGED <<registers, mainvars, closers, close_final, mods, freevars, walk,
                 ended, asked, offwvars>>

\* mod_thread_exit cancels every registered thread, and waits for none.
CancelThreads(d) ==
  /\ procx[d] = "cancel"
  /\ procx' = [procx EXCEPT ![d] = "mods"]
  /\ UNCHANGED <<registers, mainvars, closers, close_final, slots, mods, freevars,
                 walk, ended, asked, offwvars>>

\* One turn of mod_free: xm_exit, dlclose, free, and the same increment ...
FreeModule(d) ==
  /\ procx[d] = "mods"
  /\ IF mods[d] < MODS
       THEN /\ mods' = [mods EXCEPT ![d] = @ + 1]
            /\ creg' = [creg EXCEPT ![d] = crt[d]]
            /\ procx' = [procx EXCEPT ![d] = "mod"]
       ELSE /\ procx' = [procx EXCEPT ![d] = "close"]
            /\ UNCHANGED <<mods, creg>>
  /\ UNCHANGED <<registers, mainvars, closers, close_final, slots, nodes, crt,
                 mreg, walk, ended, asked, offwvars>>

\* ... with what main has counted since the read lost.
CountModule(d) ==
  /\ procx[d] = "mod"
  /\ crt' = [crt EXCEPT ![d] = creg[d] + 1]
  /\ creg' = [creg EXCEPT ![d] = 0]
  /\ procx' = [procx EXCEPT ![d] = "mods"]
  /\ UNCHANGED <<registers, mainvars, closers, close_final, slots, mods, nodes,
                 mreg, walk, ended, asked, offwvars>>

\* Variant: close_final is not cleared.
CloseKeepsFlag(d) ==
  /\ procx[d] = "close"
  /\ procx' = [procx EXCEPT ![d] = "idle"]
  /\ UNCHANGED <<registers, mainvars, closers, close_final, slots, mods, freevars,
                 walk, ended, asked, offwvars>>

\* The module list's count is zeroed and close_final cleared.
Close(d) ==
  /\ procx[d] = "close"
  /\ close_final' = [close_final EXCEPT ![d] = FALSE]
  /\ procx' = [procx EXCEPT ![d] = "idle"]
  /\ UNCHANGED <<registers, mainvars, closers, slots, mods, freevars, walk, ended,
                 asked, offwvars>>

CloserStep(d) ==
  \/ CancelSweeper(d) \/ FreeSlots(d) \/ CancelThreads(d) \/ FreeModule(d)
  \/ CountModule(d) \/ Close(d)

-----------------------------------------------------------------------------
(***************************************************************************)
(* The other threads of a server.  They enter the slot list (create,       *)
(* select, final, find) while sptr_core is set; cancellation is deferred,  *)
(* so it does not stop a walk under way.                                   *)
(***************************************************************************)
EnterWalk(d) ==
  /\ d \in Servers /\ Up(d) /\ ~walk[d]
  /\ procx[d] \in {"none", "sweeper", "slots"}
  /\ walk' = [walk EXCEPT ![d] = TRUE]
  /\ UNCHANGED <<registers, mainvars, closevars, freevars, ended, asked, offwvars>>

LeaveWalk(d) ==
  /\ walk[d]
  /\ walk' = [walk EXCEPT ![d] = FALSE]
  /\ UNCHANGED <<registers, mainvars, closevars, freevars, ended, asked, offwvars>>

\* A walk reads a slot that is freed: one outcome of it is SIGSEGV, which the
\* handler turns into exit(0); going on is LeaveWalk.
TouchFreedSlot(d) ==
  /\ walk[d] /\ slots[d] > 0
  /\ Gone(d, "crashed")

\* mod_disable_service calls into a module that is unloaded, before mod_free
\* has zeroed the count; going on is Serve.
TouchFreedModule(d) ==
  /\ pc[d] = "serve" /\ svc[d] < mods[d] /\ procx[d] # "idle"
  /\ Gone(d, "crashed")

\* A module's own thread: the registry it walks is being emptied, or its code
\* is unloaded before the cancellation has ended it.  ThreadRegistry has the
\* steps that lead there; here it can happen once the close thread works.
TouchRegistry(d) ==
  /\ d \in Servers /\ Up(d) /\ procx[d] \notin {"none", "sweeper"}
  /\ Gone(d, "crashed")

\* The end of a daemon for another reason, in service or not: SIGPIPE, any other
\* signal, an error of the sound device.
Fail(d) == Up(d) /\ Gone(d, "failed")

-----------------------------------------------------------------------------
(***************************************************************************)
(* croffw.                                                                 *)
(***************************************************************************)
Ask ==
  /\ opc = "idle"
  /\ PowerOffWrite(DISABLE)
  /\ asked' = [d \in Daemons |-> TRUE]
  /\ opc' = "poll"
  /\ ocount' = 0 /\ oold' = 0 /\ ovalue' = DISABLE /\ said' = FALSE
  /\ UNCHANGED <<mainvars, closevars, freevars, walk, ended>>

\* "croffw restart"
AskRestart ==
  /\ opc = "idle"
  /\ RestartWrite(1)
  /\ UNCHANGED <<mainvars, closevars, freevars, walk, ended, asked, offwvars>>

\* Variant: polls that read zero percent are not counted.
PollZeroPatient ==
  /\ opc = "poll" /\ ocount < 5
  /\ ovalue' = ProgRead
  /\ IF ProgRead >= 99
       THEN said' = TRUE /\ opc' = "done" /\ UNCHANGED <<ocount, oold>>
       ELSE /\ IF ProgRead > 0 /\ ProgRead = oold
                 THEN ocount' = ocount + 1 /\ oold' = oold
                 ELSE ocount' = ocount /\ oold' = ProgRead
            /\ UNCHANGED <<said, opc>>
  /\ UNCHANGED <<registers, mainvars, closevars, freevars, walk, ended, asked>>

\* One second of croffw: 99 percent ends it, 0 percent and the percentage
\* read before count towards giving up.
Poll ==
  /\ opc = "poll" /\ ocount < 5
  /\ ovalue' = ProgRead
  /\ IF ProgRead >= 99
       THEN said' = TRUE /\ opc' = "done" /\ UNCHANGED <<ocount, oold>>
       ELSE /\ IF ProgRead < 1 \/ ProgRead = oold
                 THEN ocount' = ocount + 1 /\ oold' = oold
                 ELSE ocount' = ocount /\ oold' = ProgRead
            /\ UNCHANGED <<said, opc>>
  /\ UNCHANGED <<registers, mainvars, closevars, freevars, walk, ended, asked>>

GiveUp ==
  /\ opc = "poll" /\ ocount >= 5
  /\ opc' = "done"
  /\ UNCHANGED <<registers, mainvars, closevars, freevars, walk, ended, asked,
                 ocount, oold, ovalue, said>>

\* The last ioctl: RESTART with whatever percentage was read last.
Withdraw ==
  /\ opc = "done"
  /\ RestartWrite(ovalue)
  /\ opc' = "idle"
  /\ UNCHANGED <<mainvars, closevars, freevars, walk, ended, asked, ocount, oold,
                 ovalue, said>>

\* The user interrupts croffw: it installs no handler, the request stays.
Interrupt ==
  /\ opc \in {"poll", "done"}
  /\ opc' = "idle"
  /\ UNCHANGED <<registers, mainvars, closevars, freevars, walk, ended, asked,
                 ocount, oold, ovalue, said>>

OffwStep == Poll \/ GiveUp \/ Withdraw

-----------------------------------------------------------------------------
Next ==
  \/ \E d \in Daemons :
        \/ Start(d) \/ MainStep(d) \/ CloserStep(d)
        \/ EnterWalk(d) \/ LeaveWalk(d)
        \/ TouchFreedSlot(d) \/ TouchFreedModule(d) \/ TouchRegistry(d) \/ Fail(d)
  \/ Ask \/ AskRestart \/ OffwStep \/ Interrupt

\* The scheduler runs every thread that can run and croffw while it polls;
\* nobody has to start a daemon, to ask, or to interrupt croffw.
Fairness ==
  /\ \A d \in Daemons : /\ WF_vars(MainStep(d))
                        /\ WF_vars(CloserStep(d))
                        /\ WF_vars(LeaveWalk(d))
  /\ WF_vars(OffwStep)

Spec == Init /\ [][Next]_vars /\ Fairness

-----------------------------------------------------------------------------
MainPC  == {"off", "zero", "fresh", "top", "state", "write", "thread", "serve",
            "nodes", "node", "final", "exit"}
ProcxPC == {"none", "sweeper", "slots", "cancel", "mods", "mod", "close", "idle"}

TypeOK ==
  /\ progress \in -1..100 /\ poweroff \in 0..2
  /\ pc \in [Daemons -> MainPC]
  /\ value \in [Daemons -> 0..2]
  /\ ptty \in [Daemons -> 0..100]
  /\ ctrl_state \in [Daemons -> BOOLEAN]
  /\ svc \in [Daemons -> 0..MODS]
  /\ procx \in [Daemons -> ProcxPC]
  /\ closers \in [Daemons -> 0..2]
  /\ close_final \in [Daemons -> BOOLEAN]
  /\ slots \in [Daemons -> 0..SLOTS]
  /\ mods \in [Daemons -> 0..MODS]
  /\ nodes \in [Daemons -> 0..NODES]
  /\ crt \in [Daemons -> 0..(NODES + MODS)]
  /\ mreg \in [Daemons -> 0..(NODES + MODS)]
  /\ creg \in [Daemons -> 0..(NODES + MODS)]
  /\ walk \in [Daemons -> BOOLEAN]
  /\ ended \in [Daemons -> {"absent", "never", "orderly", "crashed", "failed"}]
  /\ asked \in [Daemons -> BOOLEAN]
  /\ opc \in {"idle", "poll", "done"}
  /\ ocount \in 0..5
  /\ oold \in 0..98
  /\ ovalue \in 0..100 \cup {UINT - 1}
  /\ said \in BOOLEAN

\* A daemon that leaves its loop has freed everything it had registered:
\* every node, slot and module, whatever the order in which main and the
\* close thread got there, whatever was lost in counting, and although 90
\* percent would be enough for main.
FreedAll(d) ==
  nodes[d] = NodeCount(d) /\ slots[d] = SlotCount(d) /\ mods[d] = ModCount(d)

OrderlyEndFreesAll ==
  \A d \in Daemons : ended[d] = "orderly" => FreedAll(d)

\* The test ptty == 0 starts a close thread at most once, although main may
\* come round many times while the request stands.
OneCloser == \A d \in Daemons : closers[d] <= 1

\* A daemon whose startup came after the last request neither starts closing nor
\* leaves its loop, and nothing it uses is freed under its threads: the reset of
\* the register at startup covers older requests.  It can fail unasked.
OnlyAskedDaemonsClose ==
  \A d \in Daemons :
    (procx[d] # "none" \/ ended[d] \in {"orderly", "crashed"}) => asked[d]

\* A server unloads modules only after it has emptied the pool,
\* and none crashes on freed memory before its
\* close thread is at work.
CrashesOnlyClosing ==
  \A d \in Daemons :
    /\ mods[d] > 0 => slots[d] = SLOTS
    /\ ended[d] = "crashed" => d \in Servers /\ closers[d] = 1

\* The abstract life of a daemon: everything above the registers.
Kinds(d) == IF d \in Servers THEN {"nodes", "slots", "modules"} ELSE {"nodes"}

Held(d) ==
  IF ~Up(d) THEN {}
  ELSE {r \in Kinds(d) : \/ r = "nodes" /\ nodes[d] < NodeCount(d)
                         \/ r = "slots" /\ slots[d] < SlotCount(d)
                         \/ r = "modules" /\ mods[d] < ModCount(d)}

Phase(d) ==
  CASE Up(d) /\ procx[d] = "none"         -> "up"
    [] Up(d) /\ procx[d] # "none"         -> "closing"
    [] ~Up(d) /\ ended[d] = "crashed"     -> "crashed"
    [] ~Up(d) /\ ended[d] = "failed"      -> "dead"
    [] OTHER                              -> "off"

Life == INSTANCE Lifecycle WITH
  Process <- Daemons,
  Owns    <- Kinds,
  phase   <- [d \in Daemons |-> Phase(d)],
  held    <- [d \in Daemons |-> Held(d)]

\* Every step of the daemons, the driver and croffw is a step of Lifecycle or
\* changes nothing there.
LifecycleSpec == Life!ASpec

\* Everything is freed, and too little of it counted: main will never find 90
\* percent.
Undercounted(d) == FreedAll(d) /\ Percent(d) < 90

\* While the request stands a daemon is down again and again: it always gets out
\* of its loop or ends otherwise, unless somebody withdraws the request, or
\* increments were lost and it turns in its loop for good.
StandingRequestEnds ==
  \A d \in Daemons : []<>(poweroff # DISABLE \/ ~Up(d) \/ Undercounted(d))

\* Every run of croffw ends, however the daemons move the shared register.
OffwEnds == []<>(opc = "idle")

\* What croffw's last message says: once it has reported complete progress,
\* withdrawn its request and exited, a daemon that is closing goes down
\* without croffw having to ask again.
CompleteMeansOff ==
  \A d \in Daemons :
    (said /\ opc = "idle" /\ poweroff = 0 /\ procx[d] # "none")
      ~> (~Up(d) \/ opc = "poll")
=============================================================================
