------------------------------ MODULE Threads -------------------------------
(***************************************************************************)
(* The kernel threads of kernel/process.asm: thread_create, thread_exit,    *)
(* thread_yield, thread_join, thread_detach, for the threads of the kernel  *)
(* process (slot 0).                                                        *)
(*                                                                          *)
(* A thread takes the first free slot of the process table but gets its pid *)
(* from the counter next_pid.  Every call finds a thread with get_pcb(pid), *)
(* which takes the pid for a slot number.                                   *)
(*                                                                          *)
(* A program is named by the pid thread_create gave it (0 is the kernel's   *)
(* main program).  What the CPU executes and what current_pid says are two  *)
(* things here: `running' is the program whose instructions are executed,   *)
(* and `saved' the one whose registers a PCB holds.                         *)
(***************************************************************************)
EXTENDS Scheduler

CONSTANT MaxPid    \* threads are created until next_pid is beyond this

ASSUME MaxPidAssumption == MaxPid \in Nat \ {0}

Programs == 0 .. MaxPid
NoJoiner == 0     \* PCB_THREAD_JOINER when nobody waits
Halt     == -1    \* the cli; hlt at the end of exit_process, as a program

VARIABLES
    state,       \* PCB_STATE of every slot
    isThread,    \* slots with PCB_IS_THREAD set
    pcbPid,      \* PCB_PID
    joined,      \* slots with PCB_THREAD_JOINED set
    detached,    \* slots with PCB_THREAD_DETACHED set
    joiner,      \* PCB_THREAD_JOINER
    saved,       \* the program whose context the PCB holds
    current,     \* current_pid: a slot number
    nextPid,     \* next_pid
    running,     \* the program the CPU executes
    finished,    \* history: programs that have called thread_exit
    joinedLive   \* history: a thread was joined that had not exited

vars == <<state, isThread, pcbPid, joined, detached, joiner, saved, current,
          nextPid, running, finished, joinedLive>>

TypeOK ==
    /\ state \in [Pids -> States]
    /\ isThread \in SUBSET Pids
    /\ joined \in SUBSET Pids
    /\ detached \in SUBSET Pids
    /\ pcbPid \in [Pids -> Programs]
    /\ joiner \in [Pids -> Pids]
    /\ saved \in [Pids -> Programs \cup {Halt}]
    /\ current \in Pids
    /\ nextPid \in 1 .. MaxPid + 1
    /\ running \in Programs \cup {Halt}
    /\ finished \in SUBSET Programs
    /\ joinedLive \in BOOLEAN

Init ==
    /\ state = [p \in Pids |-> IF p = 0 THEN "RUNNING" ELSE "UNUSED"]
    /\ isThread = {}
    /\ joined = {}
    /\ detached = {}
    /\ pcbPid = [p \in Pids |-> 0]
    /\ joiner = [p \in Pids |-> NoJoiner]
    /\ saved = [p \in Pids |-> 0]
    /\ current = 0
    /\ nextPid = 1
    /\ running = 0
    /\ finished = {}
    /\ joinedLive = FALSE

-----------------------------------------------------------------------------
\* Faulty variant: current_pid is moved before the registers are saved.
SwitchToLate(st, q, ctx) ==
    /\ state' = Switched(st, current, q)
    /\ saved' = [saved EXCEPT ![q] = ctx]
    /\ running' = saved[q]
    /\ current' = q

\* `call context_switch' with the table st: the registers of what is running
\* go to the PCB of current_pid, those of slot q's PCB are loaded.
SwitchTo(st, q, ctx) ==
    /\ state' = Switched(st, current, q)
    /\ saved' = [saved EXCEPT ![current] = ctx]
    /\ running' = IF q = current THEN ctx ELSE saved[q]
    /\ current' = q

\* thread_create: the first free slot, and the next pid.
ThreadCreate(c) ==
    /\ running # Halt
    /\ nextPid <= MaxPid
    /\ FirstUnused(state, 0, c)
    /\ state' = [state EXCEPT ![c] = "READY"]
    /\ pcbPid' = [pcbPid EXCEPT ![c] = nextPid]
    /\ saved' = [saved EXCEPT ![c] = nextPid]
    /\ nextPid' = nextPid + 1
    /\ isThread' = isThread \cup {c}
    /\ joined' = joined \ {c}
    /\ detached' = detached \ {c}
    /\ joiner' = [joiner EXCEPT ![c] = NoJoiner]
    /\ UNCHANGED <<current, running, finished, joinedLive>>

\* thread_yield is yield.
ThreadYield ==
    /\ running # Halt
    /\ \E q \in Pids \ {current} : /\ Selects(state, current, q)
                                   /\ SwitchTo(state, q, running)
    /\ UNCHANGED <<isThread, pcbPid, joined, detached, joiner, nextPid,
                   finished, joinedLive>>

\* The thread that exits is not detached and has a joiner to wake.
WakesJoiner == current \notin detached /\ joiner[current] # NoJoiner

\* Faulty variant: the slot of a thread nobody joins yet stays READY.
LeftReady(frees) ==
    LET woken == IF WakesJoiner
                 THEN [state EXCEPT ![joiner[current]] = "READY"] ELSE state
    IN  [woken EXCEPT ![current] = IF frees THEN "UNUSED" ELSE "READY"]

\* What thread_exit leaves behind: a zombie, unless the slot is freed.
Left(frees) ==
    LET woken == IF WakesJoiner
                 THEN [state EXCEPT ![joiner[current]] = "READY"] ELSE state
    IN  [woken EXCEPT ![current] = IF frees THEN "UNUSED" ELSE "ZOMBIE"]

\* thread_exit of a thread: its slot is freed if it is detached or a joiner
\* can be woken.  switch_to_process loads the PCB that `schedule' names
\* without saving anything.
ThreadExit ==
    /\ running # Halt
    /\ current \in isThread
    /\ LET frees == current \in detached \/ WakesJoiner
       IN  /\ isThread' = IF frees THEN isThread \ {current} ELSE isThread
           /\ \E q \in Pids : /\ Selects(Left(frees), current, q)
                              /\ state' = [Left(frees) EXCEPT ![q] = "RUNNING"]
                              /\ current' = q
                              /\ running' = saved[q]
    /\ finished' = finished \cup {running}
    /\ UNCHANGED <<pcbPid, joined, detached, joiner, saved, nextPid,
                   joinedLive>>

\* thread_exit when the slot current_pid names is no thread's: exit_process.
\* A thread gets there after thread_join has put it under another slot.  The
\* parent of every slot here is the kernel, which never waits in waitpid.
MainExit ==
    /\ running \notin {0, Halt}     \* the kernel's main program never exits
    /\ current \notin isThread
    /\ LET dead == [state EXCEPT ![current] = "ZOMBIE"]
       IN  \E q \in Pids : Selects(dead, current, q) /\ SwitchTo(dead, q, Halt)
    /\ finished' = finished \cup {running}
    /\ UNCHANGED <<isThread, pcbPid, joined, detached, joiner, nextPid,
                   joinedLive>>

-----------------------------------------------------------------------------
(* thread_join(t) and thread_detach(t), t a pid thread_create returned.     *)

\* get_pcb(t) succeeds and the slot passes thread_join's tests.
Joinable(t) ==
    /\ t \in isThread
    /\ t \notin joined
    /\ t \notin detached
    /\ state[t] # "UNUSED"

\* The end of thread_join: the slot of t is free again.
Collect(st, t) ==
    /\ state' = [st EXCEPT ![t] = "UNUSED"]
    /\ isThread' = isThread \ {t}
    /\ joined' = joined \cup {t}

JoinExited(t) ==
    /\ running # Halt
    /\ Joinable(t)
    /\ state[t] = "ZOMBIE"
    /\ Collect(state, t)
    /\ UNCHANGED <<pcbPid, detached, joiner, saved, current, nextPid, running,
                   finished, joinedLive>>

\* The thread has not exited: the caller's slot is BLOCKED and current_pid is
\* set to what `schedule' returns.  No context is switched, so the caller runs
\* on, under the slot of another process, and collects the thread.
JoinLive(t) ==
    /\ running # Halt
    /\ Joinable(t)
    /\ state[t] # "ZOMBIE"
    /\ joiner' = [joiner EXCEPT ![t] = current]
    /\ LET blocked == [state EXCEPT ![current] = "BLOCKED"]
       IN  /\ \E q \in Pids : Selects(blocked, current, q) /\ current' = q
           /\ Collect(blocked, t)
    /\ joinedLive' = TRUE
    /\ UNCHANGED <<pcbPid, detached, saved, nextPid, running, finished>>

ThreadJoin(t) ==
    /\ t \in Pids
    /\ JoinExited(t) \/ JoinLive(t)

ThreadDetach(t) ==
    /\ running # Halt
    /\ t \in isThread
    /\ t \notin joined
    /\ detached' = detached \cup {t}
    /\ UNCHANGED <<state, isThread, pcbPid, joined, joiner, saved, current,
                   nextPid, running, finished, joinedLive>>

Next ==
    \/ \E c \in Pids : ThreadCreate(c)
    \/ ThreadYield
    \/ ThreadExit
    \/ MainExit
    \/ \E t \in 1 .. nextPid - 1 : ThreadJoin(t) \/ ThreadDetach(t)

Spec == Init /\ [][Next]_vars

\* Threads are cooperative: the running one goes on making calls.
FairSpec == Spec /\ WF_vars(Next)

-----------------------------------------------------------------------------
(* What holds whatever the programs join.                                  *)

\* Only the slot current_pid names is ever marked RUNNING: thread_exit and
\* thread_join move current_pid without context_switch (process.asm 1301-1309,
\* 1483-1487).
OneRunning == \A p \in Pids : state[p] = "RUNNING" => p = current

-----------------------------------------------------------------------------
(* What holds as long as threads are joined only after they have exited:    *)
(* thread_join of a live thread puts its caller under another slot.         *)

\* Every context is where it belongs: the CPU executes the program of the slot
\* that current_pid names, and the PCB of every READY slot holds the registers
\* of the thread that was created in it (process.asm 642-718, 1577-1607).
OwnContext ==
    ~joinedLive => /\ running = pcbPid[current]
                   /\ \A p \in Pids : state[p] = "READY" => saved[p] = pcbPid[p]

\* "thread_exit never returns" (process.asm 1241): a program that has called it
\* is never executed again, though switch_to_process does not say who left.
ExitedNeverRuns == ~joinedLive => running \notin finished

\* Every READY thread gets the CPU.
ReadyRuns ==
    \A p \in Pids : state[p] = "READY" ~> (state[p] = "RUNNING" \/ joinedLive)

=============================================================================
