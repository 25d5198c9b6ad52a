----------------------------- MODULE Lifecycle -----------------------------
(***************************************************************************)
(* What powering off promises about one daemon, whatever the protocol: it  *)
(* closes once per run, gives its resources back in an order that is safe  *)
(* for the code still running, and ends in order only with empty hands.    *)
(* It can crash on what it has given back only while it closes, and only   *)
(* if it has modules, whose threads are not waited for.  That it fails for *)
(* reasons of its own nobody promises away.                                *)
(***************************************************************************)
CONSTANTS Process,      \* the daemons
          Owns(_)       \* the resource kinds a daemon starts with

Resource == {"nodes", "slots", "modules"}

VARIABLES phase,        \* "off", "up", "closing", "crashed" or "dead"
          held          \* the kinds not completely given back

avars == <<phase, held>>

AInit ==
  /\ phase = [p \in Process |-> "off"]
  /\ held = [p \in Process |-> {}]

AStart(p) ==
  /\ phase[p] \in {"off", "crashed", "dead"}
  /\ phase' = [phase EXCEPT ![p] = "up"]
  /\ held' = [held EXCEPT ![p] = Owns(p)]

AClose(p) ==
  /\ phase[p] = "up"
  /\ phase' = [phase EXCEPT ![p] = "closing"]
  /\ UNCHANGED held

\* Modules go after the slots: the threads that run in them use the slots.
ARelease(p, r) ==
  /\ phase[p] = "closing" /\ r \in held[p]
  /\ r = "modules" => "slots" \notin held[p]
  /\ held' = [held EXCEPT ![p] = @ \ {r}]
  /\ UNCHANGED phase

AEnd(p) ==
  /\ phase[p] = "closing" /\ held[p] = {}
  /\ phase' = [phase EXCEPT ![p] = "off"]
  /\ UNCHANGED held

ACrash(p) ==
  /\ phase[p] = "closing" /\ "modules" \in Owns(p)
  /\ phase' = [phase EXCEPT ![p] = "crashed"]
  /\ held' = [held EXCEPT ![p] = {}]

ADie(p) ==
  /\ phase[p] \in {"up", "closing"}
  /\ phase' = [phase EXCEPT ![p] = "dead"]
  /\ held' = [held EXCEPT ![p] = {}]

ANext ==
  \E p \in Process :
     \/ AStart(p) \/ AClose(p) \/ AEnd(p) \/ ACrash(p) \/ ADie(p)
     \/ \E r \in Resource : ARelease(p, r)

ASpec == AInit /\ [][ANext]_avars
=============================================================================
