--------------------------- MODULE ThreadRegistry ---------------------------
(***************************************************************************)
(* The thread registry of crserv (libcrt/mod.c), which three threads use   *)
(* without a lock: main appends an entry for every thread it or a module   *)
(* creates, the close thread cancels what is registered and frees the      *)
(* entries before it unloads the modules, and the thread of module thi0    *)
(* walks the registry every second and detaches every thread it finds.     *)
(* Nobody waits for a cancelled thread, so it may still run when its entry *)
(* is freed or its module unloaded; what it touches then is undefined, and *)
(* one outcome is SIGSEGV, on which the process exits.                     *)
(*                                                                         *)
(* Threads are numbered in the order of the registry: modules 1..NM in the *)
(* order they were loaded, then the sweeper, then main's own.              *)
(***************************************************************************)
EXTENDS Naturals

CONSTANTS
  NM,      \* modules that run a thread of their own: 5 in the tree
  OWN      \* threads main runs itself: 2, the sound thread and procv

ASSUME ThreadsAssumption == NM \in Nat \ {0} /\ OWN \in Nat

Module == 1..NM
XSD    == NM + 1
Last   == NM + 1 + OWN
Thread == 1..Last

VARIABLES
  thi,        \* which module is thi0
  entry,      \* registry entry: "none", "linked" or "freed"
  tid,        \* the entry holds the thread's handle
  thcount,    \* entries counted
  run,        \* thread: "none", "running" or "ended"
  cancelled,  \* threads asked to stop by pthread_cancel
  detached,   \* threads that pthread_detach has been called for
  service,    \* mod_struct.service: the module has been told to be quiet
  lib,        \* module: "in", "off" (runstate 0), "freed", "unloaded"
  mpc, mi,    \* main, and the thread or module it is at
  cpc, ci,    \* the close thread, and the entry or module it is at
  tpc, wi,    \* thi0's thread, and the entry it is at
  dead        \* the process has died of a signal

registry == <<entry, tid, thcount>>
threads  == <<run, cancelled, detached>>
modules  == <<service, lib>>
main     == <<mpc, mi>>
closer   == <<cpc, ci>>
walker   == <<tpc, wi>>
registryVars == <<thi, registry, threads, modules, main, closer, walker, dead>>

RegistryInit ==
  /\ thi \in Module
  /\ entry = [t \in Thread |-> "none"]
  /\ tid = [t \in Thread |-> FALSE]
  /\ thcount = 0
  /\ run = [t \in Thread |-> "none"]
  /\ cancelled = {}
  /\ detached = {}
  /\ service = [m \in Module |-> FALSE]
  /\ lib = [m \in Module |-> "in"]
  /\ mpc = "create" /\ mi = 1
  /\ cpc = "none" /\ ci = 1
  /\ tpc = "none" /\ wi = 1
  /\ dead = FALSE

-----------------------------------------------------------------------------
(***************************************************************************)
(* main: create a thread, link its entry, count it; later start the close  *)
(* thread and tell the modules to be quiet.                                *)
(***************************************************************************)
Create ==
  /\ mpc = "create" /\ mi <= Last
  /\ run' = [run EXCEPT ![mi] = "running"]
  /\ tpc' = IF mi = thi THEN "head" ELSE tpc
  /\ mpc' = "link"
  /\ UNCHANGED <<thi, registry, cancelled, detached, modules, mi, closer, wi,
                 dead>>

Link ==
  /\ mpc = "link"
  /\ entry' = [entry EXCEPT ![mi] = "linked"]
  /\ tid' = [tid EXCEPT ![mi] = TRUE]
  /\ mpc' = "count"
  /\ UNCHANGED <<thi, thcount, threads, modules, mi, closer, walker, dead>>

CountUp ==
  /\ mpc = "count"
  /\ thcount' = thcount + 1
  /\ mi' = mi + 1
  /\ mpc' = "create"
  /\ UNCHANGED <<thi, entry, tid, threads, modules, closer, walker, dead>>

\* Somebody has asked the project to power off.
StartClose ==
  /\ mpc = "create" /\ mi = Last + 1
  /\ cpc' = "xsd"
  /\ mpc' = "serve" /\ mi' = 1
  /\ UNCHANGED <<thi, registry, threads, modules, ci, walker, dead>>

\* mod_disable_service, until it has visited all or the count is zeroed.  A
\* module whose structure is freed loses the flag; one that is unloaded is
\* TouchUnloaded.
Serve ==
  /\ mpc = "serve"
  /\ IF mi <= NM /\ cpc # "done"
       THEN /\ service' = [service EXCEPT ![mi] = lib[mi] \in {"in", "off"}]
            /\ mi' = mi + 1 /\ mpc' = mpc
       ELSE mpc' = "rest" /\ UNCHANGED <<service, mi>>
  /\ UNCHANGED <<thi, registry, threads, lib, closer, walker, dead>>

Main == Create \/ Link \/ CountUp \/ Serve

-----------------------------------------------------------------------------
(***************************************************************************)
(* The close thread.                                                       *)
(***************************************************************************)
\* mod_thread_close for the sweeper's entry: cancel, then clear the handle.
CancelSweeper ==
  /\ cpc = "xsd"
  /\ cancelled' = IF tid[XSD] THEN cancelled \cup {XSD} ELSE cancelled
  /\ cpc' = "xsdclear"
  /\ UNCHANGED <<thi, registry, run, detached, modules, main, ci, walker, dead>>

\* Variant: the handle is not cleared.
KeepSweeper ==
  /\ cpc = "xsdclear"
  /\ cpc' = "cancel"
  /\ UNCHANGED <<thi, registry, threads, modules, main, ci, walker, dead>>

\* librmc_free follows; PowerOff has it.
ClearSweeper ==
  /\ cpc = "xsdclear"
  /\ tid' = [tid EXCEPT ![XSD] = FALSE]
  /\ cpc' = "cancel"
  /\ UNCHANGED <<thi, entry, thcount, threads, modules, main, ci, walker, dead>>

\* mod_thread_exit, one entry: cancel, clear, free, go on through the freed
\* entry; at the end only the count is zeroed.
Cancel ==
  /\ cpc = "cancel" /\ ci <= thcount
  /\ cancelled' = IF tid[ci] THEN cancelled \cup {ci} ELSE cancelled
  /\ cpc' = "clear"
  /\ UNCHANGED <<thi, registry, run, detached, modules, main, ci, walker, dead>>

Clear ==
  /\ cpc = "clear"
  /\ tid' = [tid EXCEPT ![ci] = FALSE]
  /\ cpc' = "free"
  /\ UNCHANGED <<thi, entry, thcount, threads, modules, main, ci, walker, dead>>

FreeEntry ==
  /\ cpc = "free"
  /\ entry' = [entry EXCEPT ![ci] = "freed"]
  /\ ci' = ci + 1
  /\ cpc' = "cancel"
  /\ UNCHANGED <<thi, tid, thcount, threads, modules, main, walker, dead>>

\* Variant: the loop stops one entry early.
EmptyEarly ==
  /\ cpc = "cancel" /\ ci >= thcount
  /\ thcount' = 0
  /\ ci' = 1 /\ cpc' = "exit"
  /\ UNCHANGED <<thi, entry, tid, threads, modules, main, walker, dead>>

Empty ==
  /\ cpc = "cancel" /\ ci > thcount
  /\ thcount' = 0
  /\ ci' = 1 /\ cpc' = "exit"
  /\ UNCHANGED <<thi, entry, tid, threads, modules, main, walker, dead>>

\* mod_free, one module.  Its exit finds no entry to close, the count being
\* zero, and clears the runstate its thread loops on ...
ExitModule ==
  /\ cpc = "exit" /\ ci <= NM
  /\ lib' = [lib EXCEPT ![ci] = "off"]
  /\ cpc' = "struct"
  /\ UNCHANGED <<thi, registry, threads, service, main, ci, walker, dead>>

\* ... then its structure is freed ...
FreeStruct ==
  /\ cpc = "struct"
  /\ lib' = [lib EXCEPT ![ci] = "freed"]
  /\ cpc' = "unload"
  /\ UNCHANGED <<thi, registry, threads, service, main, ci, walker, dead>>

\* ... and its code unloaded.
Unload ==
  /\ cpc = "unload"
  /\ lib' = [lib EXCEPT ![ci] = "unloaded"]
  /\ ci' = ci + 1 /\ cpc' = "exit"
  /\ UNCHANGED <<thi, registry, threads, service, main, walker, dead>>

Done ==
  /\ cpc = "exit" /\ ci > NM
  /\ cpc' = "done"
  /\ UNCHANGED <<thi, registry, threads, modules, main, ci, walker, dead>>

Closer ==
  \/ CancelSweeper \/ ClearSweeper \/ Cancel \/ Clear \/ FreeEntry \/ Empty
  \/ ExitModule \/ FreeStruct \/ Unload \/ Done

-----------------------------------------------------------------------------
(***************************************************************************)
(* thi0's thread.                                                          *)
(***************************************************************************)
Awake == run[thi] = "running"
Quiet == service[thi] \/ lib[thi] # "in"

WalkTo(pc, i) ==
  /\ tpc' = pc /\ wi' = i
  /\ UNCHANGED <<thi, registry, run, cancelled, modules, main, closer, dead>>

Wake == Awake /\ tpc = "sleep" /\ WalkTo("head", wi) /\ UNCHANGED detached

\* The runstate is tested, then the registry is reached through the module's
\* structure.
Head ==
  /\ Awake /\ tpc = "head" /\ lib[thi] = "in"
  /\ WalkTo("enter", 1) /\ UNCHANGED detached

Enter == Awake /\ tpc = "enter" /\ WalkTo("check", 1) /\ UNCHANGED detached

\* The tests before an entry: the count, the module's own flags, the end of
\* the list, and whether the entry holds a handle.
Check ==
  /\ Awake /\ tpc = "check"
  /\ IF wi > thcount \/ Quiet \/ entry[wi] = "none"
       THEN WalkTo("sleep", wi)
       ELSE IF tid[wi] THEN WalkTo("detach", wi) ELSE WalkTo("check", wi + 1)
  /\ UNCHANGED detached

\* Variant: the thread is joined first, and detached only if that fails.
JoinFirst ==
  /\ Awake /\ tpc = "detach" /\ tid[wi]
  /\ WalkTo("join", wi) /\ UNCHANGED detached

\* The handle is read again and the thread detached; that fails for a thread
\* detached before.
Detach ==
  /\ Awake /\ tpc = "detach" /\ tid[wi]
  /\ IF wi \in detached
       THEN WalkTo("join", wi) /\ UNCHANGED detached
       ELSE WalkTo("check", wi + 1) /\ detached' = detached \cup {wi}

\* Then the thread is joined, if the entry still holds a handle.
TryJoin ==
  /\ Awake /\ tpc = "join"
  /\ IF tid[wi] THEN WalkTo("joining", wi) ELSE WalkTo("check", wi + 1)
  /\ UNCHANGED detached

\* pthread_join refuses a detached thread at once and would wait for another.
Join ==
  /\ Awake /\ tpc = "joining" /\ tid[wi]
  /\ wi \in detached \/ run[wi] = "ended"
  /\ WalkTo("check", wi + 1) /\ UNCHANGED detached

Walk == Wake \/ Head \/ Enter \/ Check \/ Detach \/ TryJoin \/ Join

-----------------------------------------------------------------------------
(***************************************************************************)
(* How a thread ends.  A cancelled one does at its next cancellation point *)
(* (thi0's thread has only the sleep); a module's thread also when it sees *)
(* its runstate cleared at the head of its loop.                           *)
(***************************************************************************)
\* Variant: a thread may return by itself while the program is in service.
EndAnyTime(t) ==
  /\ run[t] = "running"
  /\ run' = [run EXCEPT ![t] = "ended"]
  /\ UNCHANGED <<thi, registry, cancelled, detached, modules, main, closer,
                 walker, dead>>

End(t) ==
  /\ run[t] = "running"
  /\ t # thi => t \in cancelled \/ (t \in Module /\ lib[t] # "in")
  /\ t = thi => \/ t \in cancelled /\ tpc = "sleep"
                \/ tpc = "head" /\ lib[t] # "in"
  /\ run' = [run EXCEPT ![t] = "ended"]
  /\ UNCHANGED <<thi, registry, cancelled, detached, modules, main, closer,
                 walker, dead>>

-----------------------------------------------------------------------------
(***************************************************************************)
(* Undefined behaviour, with the outcome that the process dies, and every  *)
(* thread with it; the other outcome is the ordinary step.                 *)
(***************************************************************************)
Die ==
  /\ dead' = TRUE
  /\ run' = [t \in Thread |-> "ended"]
  /\ tpc' = "none" /\ wi' = 1
  /\ UNCHANGED <<thi, registry, cancelled, detached, modules, main, closer>>

\* The handle tested a moment ago has been cleared: pthread_detach(NULL).
NullHandle == Awake /\ tpc \in {"detach", "joining"} /\ ~tid[wi] /\ Die

\* The handle is that of a thread that is gone, its stack with it.
StaleHandle ==
  /\ Awake /\ tpc \in {"detach", "joining"} /\ tid[wi]
  /\ wi \in detached /\ run[wi] = "ended"
  /\ Die

\* The entry is freed memory.
FreedEntry ==
  /\ Awake /\ tpc \in {"detach", "join", "joining"} /\ entry[wi] = "freed"
  /\ Die

\* A module's thread that saw its runstate set reads the module's structure,
\* which is freed memory.
FreedStruct ==
  /\ \E m \in Module :
        /\ run[m] = "running" /\ lib[m] = "freed"
        /\ m = thi => tpc \in {"enter", "check"}
  /\ Die

\* A module's thread goes on in code that is unloaded, or main calls into it.
Unloaded ==
  /\ \/ \E m \in Module : run[m] = "running" /\ lib[m] = "unloaded"
     \/ mpc = "serve" /\ mi <= NM /\ cpc # "done" /\ lib[mi] = "unloaded"
  /\ Die

Undefined == NullHandle \/ StaleHandle \/ FreedEntry \/ FreedStruct \/ Unloaded

RegistryNext ==
  /\ ~dead
  /\ \/ Main \/ StartClose \/ Closer \/ Walk \/ Undefined
     \/ \E t \in Thread : End(t)

\* Every thread that can run is run; nobody has to ask for the power-off.
Fairness ==
  /\ WF_registryVars(~dead /\ Main) /\ WF_registryVars(~dead /\ Closer)
  /\ WF_registryVars(~dead /\ Walk) /\ WF_registryVars(~dead /\ NullHandle)
  /\ \A t \in Thread : WF_registryVars(~dead /\ End(t))

RegistrySpec == RegistryInit /\ [][RegistryNext]_registryVars /\ Fairness

-----------------------------------------------------------------------------
RegistryTypeOK ==
  /\ thi \in Module
  /\ entry \in [Thread -> {"none", "linked", "freed"}]
  /\ tid \in [Thread -> BOOLEAN]
  /\ thcount \in 0..Last
  /\ run \in [Thread -> {"none", "running", "ended"}]
  /\ cancelled \subseteq Thread /\ detached \subseteq Thread
  /\ service \in [Module -> BOOLEAN]
  /\ lib \in [Module -> {"in", "off", "freed", "unloaded"}]
  /\ mpc \in {"create", "link", "count", "serve", "rest"}
  /\ mi \in 1..(Last + 1)
  /\ cpc \in {"none", "xsd", "xsdclear", "cancel", "clear", "free", "exit",
              "struct", "unload", "done"}
  /\ ci \in 1..(Last + 1)
  /\ tpc \in {"none", "sleep", "head", "enter", "check", "detach", "join",
              "joining"}
  /\ wi \in 1..(Last + 1)
  /\ dead \in BOOLEAN

\* mod_free takes a module apart only after its thread, and every other
\* thread that was started, has been cancelled: the registry was complete and
\* mod_thread_exit went through all of it.
CancelledBeforeExit ==
  \A m \in Module : lib[m] # "in" => cancelled = Thread

\* pthread_cancel is never called with the handle of a thread that has ended:
\* each thread is cancelled once, although the sweeper's entry is visited both
\* by librmc_exit and by mod_thread_exit.
NoStaleCancel ==
  [][\A t \in Thread :
       \/ cpc = "xsd" /\ cpc' = "xsdclear" /\ t = XSD /\ tid[t]
       \/ cpc = "cancel" /\ cpc' = "clear" /\ t = ci /\ tid[t]
       => run[t] = "running" /\ t \notin cancelled]_registryVars

\* thi0 never waits in pthread_join, not even for itself: what it joins it has
\* detached in an earlier walk.
NeverWaitsInJoin ==
  tpc = "joining" /\ tid[wi] /\ ~dead => wi \in detached

\* In service, while main still registers threads and thi0 already walks the
\* registry, nothing undefined is reached: the process dies only while closing.
DiesOnlyClosing == dead => cpc # "none"

\* Once the close thread is done every thread the program started comes to its
\* end, although nobody joins one, unless the process dies first.
AllThreadsEnd ==
  (cpc = "done") ~> (dead \/ \A t \in Thread : run[t] = "ended")
=============================================================================
