---------------------------- MODULE ProcessTable ----------------------------
(***************************************************************************)
(* The process table of kernel/process.asm and the system calls that work   *)
(* on it: spawn (create_process), fork, yield, exit, wait/waitpid, and the  *)
(* part of kill (kernel/signal.asm) that changes a process's state.         *)
(*                                                                          *)
(* The machine has one CPU.  isr_syscall runs with interrupts off (cli,     *)
(* isr.asm 381), timer_tick only counts, so a call runs undisturbed up to   *)
(* the point where it calls context_switch: that stretch is one action.  A  *)
(* process switched out inside waitpid goes on inside waitpid when it gets  *)
(* the CPU back; `resume' says where.                                       *)
(*                                                                          *)
(* Left out: the saved registers (but for the point of resumption), user    *)
(* and group ids, exit codes, and the pending-signal words.                 *)
(***************************************************************************)
EXTENDS Scheduler, FiniteSets

CONSTANTS
    WaitTargets,         \* arguments processes pass to waitpid (-1 = any child)
    KillTargets,         \* processes that may be sent SIGKILL
    ReadyMin, ReadyMax   \* bounds at which the model stops counting ready_count

AnyChild   == -1    \* waitpid(-1)
NotWaiting == 0     \* PCB_WAIT_PID of a process that never waited
InUser     == -2    \* resume point: after the system call, in the program
InHalt     == -3    \* resume point: the cli; hlt at the end of exit_process

ASSUME WaitTargetsAssumption == WaitTargets \subseteq Pids \cup {AnyChild}
ASSUME KillTargetsAssumption == KillTargets \subseteq Pids
ASSUME ReadyBoundsAssumption == /\ ReadyMin \in Int
                                /\ ReadyMax \in Int
                                /\ ReadyMin <= 1 /\ 1 <= ReadyMax

VARIABLES
    state,       \* PCB_STATE of every slot
    parent,      \* PCB_PARENT; stays as it is when a slot is freed
    waitPid,     \* PCB_WAIT_PID; never cleared when waitpid returns
    resume,      \* where a slot's saved context (PCB_EIP, PCB_EBX) goes on
    current,     \* current_pid
    readyCount   \* ready_count; nothing in the kernel ever reads it

vars == <<state, parent, waitPid, resume, current, readyCount>>

TypeOK ==
    /\ state \in [Pids -> States]
    /\ parent \in [Pids -> Pids]
    /\ waitPid \in [Pids -> Pids \cup {AnyChild}]
    /\ resume \in [Pids -> Pids \cup {AnyChild, InUser, InHalt}]
    /\ current \in Pids
    /\ readyCount \in ReadyMin .. ReadyMax

\* init_scheduler: the kernel is process 0, RUNNING and its own parent.
Init ==
    /\ state = [p \in Pids |-> IF p = 0 THEN "RUNNING" ELSE "UNUSED"]
    /\ parent = [p \in Pids |-> 0]
    /\ waitPid = [p \in Pids |-> NotWaiting]
    /\ resume = [p \in Pids |-> InUser]
    /\ current = 0
    /\ readyCount = 1

-----------------------------------------------------------------------------
\* ready_count after n more inc / dec instructions.  The code's counter is a
\* free-running int32; the model holds it at its bounds.
ReadyPlus(n) ==
    LET r == readyCount + n
    IN  IF r < ReadyMin THEN ReadyMin ELSE IF r > ReadyMax THEN ReadyMax ELSE r

\* The program of the current process has the CPU and may make a call.
InProgram == resume[current] = InUser

\* `call schedule; call context_switch' on the table st.
ScheduleAndSwitch(st) ==
    \E q \in Pids : /\ Selects(st, current, q)
                    /\ state' = Switched(st, current, q)
                    /\ current' = q

-----------------------------------------------------------------------------
(* System calls.                                                           *)

\* spawn -> create_process(entry, current_pid).  Of the fields modelled here
\* it sets state and parent; the slot's PCB_WAIT_PID is left as it was.
Spawn(c) ==
    /\ InProgram
    /\ FirstUnused(state, 0, c)
    /\ state' = [state EXCEPT ![c] = "READY"]
    /\ parent' = [parent EXCEPT ![c] = current]
    /\ resume' = [resume EXCEPT ![c] = InUser]
    /\ readyCount' = ReadyPlus(1)
    /\ UNCHANGED <<waitPid, current>>

\* fork: slot 0 is skipped, the PCB is a copy of the caller's with the fields
\* of the child set afterwards, PCB_WAIT_PID among them.
Fork(c) ==
    /\ InProgram
    /\ FirstUnused(state, 1, c)
    /\ state' = [state EXCEPT ![c] = "READY"]
    /\ parent' = [parent EXCEPT ![c] = current]
    /\ waitPid' = [waitPid EXCEPT ![c] = NotWaiting]
    /\ resume' = [resume EXCEPT ![c] = InUser]
    /\ readyCount' = ReadyPlus(1)
    /\ UNCHANGED current

\* yield: returns at once when `schedule' selects the caller.
Yield ==
    /\ InProgram
    /\ ~Selects(state, current, current)
    /\ ScheduleAndSwitch(state)
    /\ UNCHANGED <<parent, waitPid, resume, readyCount>>

\* Faulty variant: the parent waiting for any child is forgotten.
WakesNamingParent(p) ==
    /\ state[parent[p]] = "BLOCKED"
    /\ waitPid[parent[p]] = p

\* exit_process wakes the parent of p: it is BLOCKED and its PCB_WAIT_PID
\* names any child or p.
WakesParent(p) ==
    /\ state[parent[p]] = "BLOCKED"
    /\ waitPid[parent[p]] # NotWaiting
    /\ waitPid[parent[p]] \in {AnyChild, p}

\* exit_process.  Control never returns to the caller: should its context be
\* loaded again, and `schedule' returns the caller itself when nobody is
\* READY, it runs into cli; hlt.
Exit ==
    /\ InProgram
    /\ LET dead  == [state EXCEPT ![current] = "ZOMBIE"]
           after == IF WakesParent(current)
                    THEN [dead EXCEPT ![parent[current]] = "READY"]
                    ELSE dead
       IN  ScheduleAndSwitch(after)
    /\ resume' = [resume EXCEPT ![current] = InHalt]
    /\ readyCount' = IF WakesParent(current)
                     THEN readyCount ELSE ReadyPlus(-1)
    /\ UNCHANGED <<parent, waitPid>>

-----------------------------------------------------------------------------
(* waitpid(t).  The same code runs when the call is made and, after the     *)
(* process was blocked, each time it gets the CPU back (.check_children).   *)

Matches(t, c) == t = AnyChild \/ t = c

\* Faulty variant: any zombie will do, whoever its parent is.
ZombiesOfAnybody(t) == {c \in Pids : state[c] = "ZOMBIE" /\ Matches(t, c)}

\* What the first scan looks for: zombie children of the caller that t names.
ZombieChildren(t) ==
    {c \in Pids : parent[c] = current /\ state[c] = "ZOMBIE" /\ Matches(t, c)}

\* The second scan counts the children t names; the kernel, whose parent is
\* itself, is one of its own.
HasChild(t) ==
    \E c \in Pids : /\ state[c] # "UNUSED"
                    /\ parent[c] = current
                    /\ Matches(t, c)

\* .found_zombie: free the slot of the first one and return its pid.
WaitpidReap(t) ==
    /\ \E c \in ZombieChildren(t) :
          /\ \A d \in ZombieChildren(t) : c <= d
          /\ state' = [state EXCEPT ![c] = "UNUSED"]
    /\ resume' = [resume EXCEPT ![current] = InUser]
    /\ UNCHANGED <<parent, waitPid, current, readyCount>>

\* Faulty variant: PCB_WAIT_PID is not written.
WaitpidBlockUnnamed(t) ==
    /\ ZombieChildren(t) = {}
    /\ HasChild(t)
    /\ resume' = [resume EXCEPT ![current] = t]
    /\ readyCount' = ReadyPlus(-1)
    /\ ScheduleAndSwitch([state EXCEPT ![current] = "BLOCKED"])
    /\ UNCHANGED <<parent, waitPid>>

\* .done_counting with children left: block and give up the CPU.
WaitpidBlock(t) ==
    /\ ZombieChildren(t) = {}
    /\ HasChild(t)
    /\ waitPid' = [waitPid EXCEPT ![current] = t]
    /\ resume' = [resume EXCEPT ![current] = t]
    /\ readyCount' = ReadyPlus(-1)
    /\ ScheduleAndSwitch([state EXCEPT ![current] = "BLOCKED"])
    /\ UNCHANGED parent

\* .error: nobody to wait for, return -1.
WaitpidFail(t) ==
    /\ ZombieChildren(t) = {}
    /\ ~HasChild(t)
    /\ resume' = [resume EXCEPT ![current] = InUser]
    /\ UNCHANGED <<state, parent, waitPid, current, readyCount>>

Waitpid ==
    \E t \in WaitTargets :
        /\ resume[current] \in {InUser, t}
        /\ WaitpidReap(t) \/ WaitpidBlock(t) \/ WaitpidFail(t)

-----------------------------------------------------------------------------
\* Faulty variant: the target is left in PROC_STOPPED.
KillStops(p) ==
    /\ InProgram
    /\ p # 0
    /\ state[p] = "BLOCKED"
    /\ state' = [state EXCEPT ![p] = "STOPPED"]
    /\ UNCHANGED <<parent, waitPid, resume, current, readyCount>>

\* Faulty variant: a zombie is woken as well.
KillExited(p) ==
    /\ InProgram
    /\ p # 0
    /\ state[p] \in {"BLOCKED", "ZOMBIE"}
    /\ state' = [state EXCEPT ![p] = "READY"]
    /\ readyCount' = ReadyPlus(1)
    /\ UNCHANGED <<parent, waitPid, resume, current>>

\* Faulty variant: the woken process is not counted.
KillUncounted(p) ==
    /\ InProgram
    /\ p # 0
    /\ state[p] = "BLOCKED"
    /\ state' = [state EXCEPT ![p] = "READY"]
    /\ UNCHANGED <<parent, waitPid, resume, current, readyCount>>

\* kill(p, SIGKILL) on a BLOCKED process makes it READY.  On a process in any
\* other state it only sets the pending bit; pid 0 means the caller itself.
KillBlocked(p) ==
    /\ InProgram
    /\ p # 0
    /\ state[p] = "BLOCKED"
    /\ state' = [state EXCEPT ![p] = "READY"]
    /\ readyCount' = ReadyPlus(1)
    /\ UNCHANGED <<parent, waitPid, resume, current>>

Next ==
    \/ \E c \in Pids : Spawn(c)
    \/ \E c \in Pids : Fork(c)
    \/ Yield
    \/ Exit
    \/ Waitpid
    \/ \E p \in KillTargets : KillBlocked(p)

Spec == Init /\ [][Next]_vars

\* Scheduling is cooperative: the process that has the CPU goes on making the
\* calls above ("Use cooperative scheduling via yield() instead").
FairSpec == Spec /\ WF_vars(Next)

-----------------------------------------------------------------------------
(* What the process table guarantees.                                      *)

\* `current_pid' and the states agree: the process that has the CPU is the one
\* marked RUNNING, and it is the only one.  exit_process, waitpid and yield
\* all mark states by hand around context_switch (process.asm 647-718), also
\* when `schedule' hands back the caller.
RunningIsCurrent == \A p \in Pids : state[p] = "RUNNING" <=> p = current

\* No lost wakeup: no process stays BLOCKED in waitpid while a child that its
\* call names is a zombie.  The check for zombies and the blocking
\* (process.asm 839-962) and the wakeup in exit_process (771-799) must not
\* leave a gap.
NoLostWakeup ==
    \A p, c \in Pids :
        (state[p] = "BLOCKED" /\ state[c] = "ZOMBIE" /\ parent[c] = p)
            => ~Matches(resume[p], c)

\* A BLOCKED process is inside waitpid, and the PCB_WAIT_PID that
\* exit_process looks at is the argument of that very call, not the one an
\* earlier call left behind (process.asm 948-950).
WaitPidIsCurrent ==
    \A p \in Pids : state[p] = "BLOCKED" => /\ resume[p] \in WaitTargets
                                            /\ waitPid[p] = resume[p]

\* The CPU is halted by exit_process (process.asm 810-812) only when no other
\* process could have run.
HaltOnlyWhenIdle ==
    resume[current] = InHalt => \A p \in Pids : state[p] # "READY"

\* "Never returns" (process.asm 808): a process that has exited gets neither
\* the CPU nor any other state again until its parent, running waitpid, frees
\* the slot.
ExitIsFinal ==
    [][\A p \in Pids :
          (state[p] = "ZOMBIE" /\ state'[p] # "ZOMBIE")
              => /\ state'[p] = "UNUSED"
                 /\ parent[p] = current
                 /\ state[current] = "RUNNING"]_vars

\* The scheduler is fair to every READY process: each switch brings the CPU
\* strictly closer to it in scan order, so fewer than MAX_PROCS switches
\* happen before its turn (schedule, process.asm 587-635).
BoundedBypass ==
    [][\A p \in Pids :
          (state[p] = "READY" /\ state'[p] = "READY" /\ current' # current)
              => ScanDistance(current', p) < ScanDistance(current, p)]_vars

Runnable(st) == {p \in Pids : st[p] \in {"READY", "RUNNING"}}

\* `schedule' found nobody READY and the caller, no longer runnable itself,
\* got the CPU back.
IdleSwitch ==
    /\ current' = current
    /\ \A p \in Pids : state'[p] # "READY"
    /\ resume'[current] # InUser

\* ready_count follows the number of runnable processes through every call
\* but one: it is off by one more after each context_switch of a process that
\* is no longer runnable to itself (process.asm 947-962).
ReadyCountFollows ==
    [][(ReadyMin < readyCount' /\ readyCount' < ReadyMax) =>
          \/ IdleSwitch
          \/ readyCount' - readyCount = Cardinality(Runnable(state'))
                                          - Cardinality(Runnable(state))]_vars

\* Every READY process gets the CPU, as long as the processes that have it go
\* on making calls.
ReadyRuns ==
    \A p \in Pids : state[p] = "READY" ~> state[p] = "RUNNING"

\* A process inside waitpid returns to its program once a child that the call
\* names has exited.
WaitpidReturns ==
    \A p, c \in Pids :
        (resume[p] \in WaitTargets /\ state[c] = "ZOMBIE" /\ parent[c] = p
            /\ Matches(resume[p], c)) ~> resume[p] = InUser

-----------------------------------------------------------------------------
(* The contract the table implements (Lifecycle.tla).                      *)

LifeAlive  == {p \in Pids : /\ state[p] \in {"READY", "RUNNING", "BLOCKED"}
                           /\ resume[p] # InHalt}
LifeExited == {p \in Pids : /\ state[p] # "UNUSED"
                           /\ p \notin LifeAlive}

Contract == INSTANCE Lifecycle WITH Proc <- Pids, Boot <- 0,
                alive <- LifeAlive, exited <- LifeExited,
                maker <- parent, cpu <- current

\* Every behaviour of the process table is one of the abstract lifecycle.
ImplementsLifecycle == Contract!Spec
=============================================================================
