----------------------------- MODULE Scheduler -----------------------------
(***************************************************************************)
(* The scheduling primitives of kernel/process.asm as operators: the slot   *)
(* search of the creators, the round-robin selection of `schedule' and the  *)
(* state changes of `context_switch'.  They are pure: the process table and *)
(* `current_pid' are arguments, so that every module that owns a process    *)
(* table (ProcessTable, Ipc, Threads) uses the same ones.                   *)
(*                                                                          *)
(* A slot of the table is named by its index; `get_pcb' (process.asm        *)
(* 158-171) turns an index below MAX_PROCS into that slot's PCB, and the    *)
(* models only pass indices below MaxProcs.                                 *)
(***************************************************************************)
EXTENDS Integers

CONSTANT MaxProcs    \* MAX_PROCS: slots of process_table (16 in the code)

ASSUME MaxProcsAssumption == MaxProcs \in Nat \ {0}

Pids == 0 .. MaxProcs - 1

\* PROC_UNUSED .. PROC_ZOMBIE.  PROC_STOPPED is written by check_signals
\* alone, which nothing in the kernel calls.
States == {"UNUSED", "READY", "RUNNING", "BLOCKED", "ZOMBIE"}

\* How many slots `schedule' looks at before slot q when it starts behind cur:
\* it begins at cur + 1, wraps at MAX_PROCS and comes to cur itself last.
ScanDistance(cur, q) == IF q > cur THEN q - cur ELSE q - cur + MaxProcs

\* Faulty variant: the scan does not wrap at MAX_PROCS.
SelectsNoWrap(st, cur, q) ==
    \/ /\ st[q] = "READY"
       /\ q > cur
       /\ \A r \in Pids : st[r] = "READY" /\ r > cur => q <= r
    \/ /\ \A r \in Pids : st[r] = "READY" => r <= cur
       /\ q = cur

\* Faulty variant: the scan always starts at slot 0.
SelectsLowest(st, cur, q) ==
    \/ /\ st[q] = "READY"
       /\ \A r \in Pids : st[r] = "READY" => q <= r
    \/ /\ \A r \in Pids : st[r] # "READY"
       /\ q = cur

\* `schedule' returns q: the first READY slot of the scan, and the current
\* slot, whatever its state, when the whole table holds no READY one.
Selects(st, cur, q) ==
    \/ /\ st[q] = "READY"
       /\ \A r \in Pids : st[r] = "READY"
                            => ScanDistance(cur, q) <= ScanDistance(cur, r)
    \/ /\ \A r \in Pids : st[r] # "READY"
       /\ q = cur

\* Faulty variant: the old process keeps its state.
SwitchedNoDemote(st, cur, q) == [st EXCEPT ![q] = "RUNNING"]

\* The table after `context_switch' from cur to q: the old process is READY
\* again unless its state says otherwise, the new one is RUNNING.
Switched(st, cur, q) ==
    [st EXCEPT ![cur] = IF @ = "RUNNING" THEN "READY" ELSE @,
               ![q]   = "RUNNING"]

\* c is the slot a creator takes: the lowest UNUSED one from slot lo on.
FirstUnused(st, lo, c) ==
    /\ c >= lo
    /\ st[c] = "UNUSED"
    /\ \A d \in Pids : d >= lo /\ d < c => st[d] # "UNUSED"
=============================================================================
