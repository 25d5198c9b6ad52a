------------------------------- MODULE Ctl10 -------------------------------
(***************************************************************************)
(* The control device of driver/ctl10: two registers in the kernel that    *)
(* outlive every process of the project and are shared by all of them.     *)
(* Each ioctl is one atomic step.                                          *)
(***************************************************************************)
EXTENDS Integers

CONSTANT UINT      \* number of values of an unsigned int: 2^32 in the code

ASSUME UintAssumption == UINT \in Nat /\ UINT > 101

VARIABLES
  progress,        \* progress_value: the last percentage anybody wrote
  poweroff         \* poweroff_value: 2 is a pending request to power off

registers == <<progress, poweroff>>

DISABLE == 2       \* CTL10_DISABLE_VALUE

Registers == [progress : -1..100, poweroff : 0..2]

RegistersInit == progress = -1 /\ poweroff = 1

\* CTL10_PROGWRITE
ProgWrite(v) == progress' = v /\ UNCHANGED poweroff

\* CTL10_PROGREAD into an unsigned variable: the initial -1 reads as UINT-1.
ProgRead == progress % UINT

\* CTL10_POWEROFF
PowerOffWrite(v) == poweroff' = v /\ UNCHANGED progress

\* CTL10_RESTART: any value but 1 is replaced by a copy from user address 1,
\* which faults and leaves the register zeroed.
RestartWrite(v) ==
  /\ poweroff' = IF v = 1 THEN 1 ELSE 0
  /\ UNCHANGED progress
=============================================================================
