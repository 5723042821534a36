----------------------------- MODULE Lifecycle -----------------------------
(***************************************************************************)
(* What the process table promises its users, whatever its scheduling, its  *)
(* blocking and its counters: a process is created by a living process, has *)
(* the CPU only while it is alive, exits at most once, and what is left of  *)
(* it is collected at most once, by the process recorded as its maker.      *)
(***************************************************************************)
CONSTANTS
    Proc,   \* process slots
    Boot    \* the slot of the process the machine starts with

VARIABLES
    alive,    \* slots whose process has not exited
    exited,   \* slots whose process has exited and is not collected yet
    maker,    \* the slot that created the process in a slot
    cpu       \* the slot that has the CPU

vars == <<alive, exited, maker, cpu>>

Init ==
    /\ alive = {Boot}
    /\ exited = {}
    /\ maker \in [Proc -> Proc]
    /\ cpu = Boot

\* The process that has the CPU creates another one in a free slot.
Create(c) ==
    /\ cpu \in alive
    /\ c \notin alive \cup exited
    /\ alive' = alive \cup {c}
    /\ maker' = [maker EXCEPT ![c] = cpu]
    /\ UNCHANGED <<exited, cpu>>

\* The CPU goes to another living process.
Dispatch(q) ==
    /\ cpu \in alive
    /\ q \in alive
    /\ cpu' = q
    /\ UNCHANGED <<alive, exited, maker>>

\* The process that has the CPU exits.  The CPU goes to a living process or
\* stops where it is, for good: every action needs a living process on it.
Die ==
    /\ cpu \in alive
    /\ alive' = alive \ {cpu}
    /\ exited' = exited \cup {cpu}
    /\ cpu' \in alive' \cup {cpu}
    /\ UNCHANGED maker

\* The maker of an exited process collects it; its slot is free again.
Collect(c) ==
    /\ cpu \in alive
    /\ c \in exited
    /\ maker[c] = cpu
    /\ exited' = exited \ {c}
    /\ UNCHANGED <<alive, maker, cpu>>

Next ==
    \/ \E c \in Proc : Create(c) \/ Collect(c)
    \/ \E q \in Proc : Dispatch(q)
    \/ Die

Spec == Init /\ [][Next]_vars
=============================================================================
