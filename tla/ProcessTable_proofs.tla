------------------------ MODULE ProcessTable_proofs ------------------------
(***************************************************************************)
(* Proofs about ProcessTable, for every number of slots, every set of       *)
(* waitpid arguments and of kill targets.                                   *)
(*                                                                          *)
(* None of RunningIsCurrent, NoLostWakeup and HaltOnlyWhenIdle is inductive *)
(* on its own.  Inv adds what they rest on: that PCB_WAIT_PID is the        *)
(* argument of the call a process is blocked in, that the kernel's slot is  *)
(* never freed (0 could not be told from "not waiting" otherwise), and that *)
(* a process that has exited is on no queue.                                *)
(***************************************************************************)
EXTENDS ProcessTable, FiniteSetTheorems, TLAPS

\* Slot 0 belongs to the kernel for ever, and the kernel is its own parent.
KernelStays == state[0] # "UNUSED" /\ parent[0] = 0

\* A process whose context is the halt loop of exit_process is a zombie or
\* collected, unless it is the one that halted the CPU.
ExitedIsOut ==
    \A p \in Pids : resume[p] = InHalt
                        => state[p] \in {"ZOMBIE", "UNUSED"} \/ p = current

Inv ==
    /\ TypeOK
    /\ RunningIsCurrent
    /\ WaitPidIsCurrent
    /\ NoLostWakeup
    /\ HaltOnlyWhenIdle
    /\ KernelStays
    /\ ExitedIsOut

-----------------------------------------------------------------------------
(* The scheduling primitives.                                              *)

\* What `schedule' returns is a slot of the table: READY, or the current one.
LEMMA SelectsSlot ==
    ASSUME NEW st \in [Pids -> States], NEW cur \in Pids, NEW q \in Pids,
           Selects(st, cur, q)
    PROVE  st[q] = "READY" \/ (q = cur /\ \A r \in Pids : st[r] # "READY")
  BY DEF Selects

\* Every READY slot that `schedule' passes over to select another one is
\* nearer behind that one than it was behind the old current slot.
LEMMA SelectsCloser ==
    ASSUME NEW st \in [Pids -> States], NEW cur \in Pids, NEW q \in Pids,
           NEW p \in Pids, Selects(st, cur, q), st[p] = "READY", p # q
    PROVE  ScanDistance(q, p) < ScanDistance(cur, p)
<1>1. MaxProcs \in Nat \ {0}
  BY MaxProcsAssumption
<1>2. ScanDistance(cur, q) <= ScanDistance(cur, p)
  BY DEF Selects
<1>3. p \in Int /\ q \in Int /\ cur \in Int
    /\ 0 <= p /\ p < MaxProcs /\ 0 <= q /\ q < MaxProcs
    /\ 0 <= cur /\ cur < MaxProcs
  BY <1>1 DEF Pids
<1> QED
  BY <1>1, <1>2, <1>3 DEF ScanDistance

\* context_switch keeps the table's type and leaves every slot but the two it
\* is about as it was.
LEMMA SwitchedTable ==
    ASSUME NEW st \in [Pids -> States], NEW cur \in Pids, NEW q \in Pids
    PROVE  /\ Switched(st, cur, q) \in [Pids -> States]
           /\ Switched(st, cur, q)[q] = "RUNNING"
           /\ q # cur => Switched(st, cur, q)[cur] =
                            IF st[cur] = "RUNNING" THEN "READY" ELSE st[cur]
           /\ \A r \in Pids \ {cur, q} : Switched(st, cur, q)[r] = st[r]
  BY DEF Switched, States

-----------------------------------------------------------------------------
(* Types.                                                                  *)

LEMMA ConstantTypes ==
    /\ MaxProcs \in Nat \ {0}
    /\ 0 \in Pids
    /\ Pids \subseteq Int
    /\ \A p \in Pids : 0 <= p
    /\ WaitTargets \subseteq Pids \cup {AnyChild}
    /\ InHalt \notin Pids \cup {AnyChild, InUser}
    /\ InUser \notin Pids \cup {AnyChild}
    /\ AnyChild \notin Pids
  BY MaxProcsAssumption, WaitTargetsAssumption
     DEF Pids, AnyChild, InUser, InHalt

\* The bounded counter stays within its bounds.
LEMMA ReadyPlusType ==
    ASSUME TypeOK, NEW n \in Int
    PROVE  ReadyPlus(n) \in ReadyMin .. ReadyMax
  BY ReadyBoundsAssumption DEF ReadyPlus, TypeOK

\* Whatever table st it is given, switching keeps the types of state, current.
LEMMA SwitchType ==
    ASSUME NEW st \in [Pids -> States], current \in Pids,
           ScheduleAndSwitch(st)
    PROVE  state' \in [Pids -> States] /\ current' \in Pids
<1>1. PICK q \in Pids : state' = Switched(st, current, q) /\ current' = q
  BY DEF ScheduleAndSwitch
<1> QED
  BY <1>1, SwitchedTable

LEMMA InitType == Init => TypeOK
  BY ConstantTypes, ReadyBoundsAssumption
     DEF Init, TypeOK, States, NotWaiting, InUser

LEMMA NextType == TypeOK /\ [Next]_vars => TypeOK'
<1> SUFFICES ASSUME TypeOK, [Next]_vars PROVE TypeOK'
  OBVIOUS
<1>t. /\ state \in [Pids -> States] /\ parent \in [Pids -> Pids]
      /\ waitPid \in [Pids -> Pids \cup {AnyChild}]
      /\ resume \in [Pids -> Pids \cup {AnyChild, InUser, InHalt}]
      /\ current \in Pids /\ readyCount \in ReadyMin .. ReadyMax
  BY DEF TypeOK
<1>1. ASSUME NEW c \in Pids, Spawn(c) PROVE TypeOK'
  BY <1>t, <1>1, ReadyPlusType DEF Spawn, TypeOK, States
<1>2. ASSUME NEW c \in Pids, Fork(c) PROVE TypeOK'
  BY <1>t, <1>2, ReadyPlusType, ConstantTypes
     DEF Fork, TypeOK, States, NotWaiting
<1>3. CASE Yield
  BY <1>t, <1>3, SwitchType DEF Yield, TypeOK
<1>4. CASE Exit
  <2> DEFINE dead  == [state EXCEPT ![current] = "ZOMBIE"]
             after == IF WakesParent(current)
                      THEN [dead EXCEPT ![parent[current]] = "READY"] ELSE dead
  <2>1. after \in [Pids -> States]
    BY <1>t DEF States
  <2>2. ScheduleAndSwitch(after)
    BY <1>4 DEF Exit
  <2>3. state' \in [Pids -> States] /\ current' \in Pids
    BY <1>t, <2>1, <2>2, SwitchType
  <2>4. readyCount' \in ReadyMin .. ReadyMax
    BY <1>t, <1>4, ReadyPlusType DEF Exit
  <2> QED
    BY <1>t, <1>4, <2>3, <2>4 DEF Exit, TypeOK
<1>5. ASSUME NEW t \in WaitTargets, WaitpidReap(t) PROVE TypeOK'
  BY <1>t, <1>5 DEF WaitpidReap, ZombieChildren, TypeOK, States
<1>6. ASSUME NEW t \in WaitTargets, WaitpidBlock(t) PROVE TypeOK'
  <2>1. [state EXCEPT ![current] = "BLOCKED"] \in [Pids -> States]
    BY <1>t DEF States
  <2>2. state' \in [Pids -> States] /\ current' \in Pids
    BY <1>t, <1>6, <2>1, SwitchType DEF WaitpidBlock
  <2>3. readyCount' \in ReadyMin .. ReadyMax
    BY <1>6, ReadyPlusType DEF WaitpidBlock
  <2> QED
    BY <1>t, <1>6, <2>2, <2>3, ConstantTypes DEF WaitpidBlock, TypeOK
<1>7. ASSUME NEW t \in WaitTargets, WaitpidFail(t) PROVE TypeOK'
  BY <1>t, <1>7 DEF WaitpidFail, TypeOK
<1>8. ASSUME NEW p \in KillTargets, KillBlocked(p) PROVE TypeOK'
  BY <1>t, <1>8, ReadyPlusType, KillTargetsAssumption
     DEF KillBlocked, TypeOK, States
<1>9. CASE UNCHANGED vars
  BY <1>t, <1>9 DEF vars, TypeOK
<1> QED
  BY <1>1, <1>2, <1>3, <1>4, <1>5, <1>6, <1>7, <1>8, <1>9 DEF Next, Waitpid

\* Every field of every slot keeps its type (the PCB fields of process.asm
\* 14-62), for any number of slots.
THEOREM TypeCorrect == Spec => []TypeOK
<1> QED
  BY InitType, NextType, PTL DEF Spec

-----------------------------------------------------------------------------
(* The invariant.                                                          *)

\* The table each switching action hands to `schedule' has no RUNNING slot
\* but the current one; what comes back has the one `schedule' selected, and
\* is otherwise the table it was, except that the old current slot may have
\* become READY.
LEMMA SwitchKeepsOneRunning ==
    ASSUME NEW st \in [Pids -> States], current \in Pids,
           \A r \in Pids \ {current} : st[r] # "RUNNING",
           ScheduleAndSwitch(st)
    PROVE  /\ RunningIsCurrent'
           /\ \A r \in Pids \ {current, current'} : state'[r] = st[r]
           /\ current' # current =>
                /\ st[current'] = "READY"
                /\ state'[current] = IF st[current] = "RUNNING"
                                     THEN "READY" ELSE st[current]
           /\ current' = current =>
                \/ st[current] = "READY"
                \/ \A r \in Pids : st[r] # "READY"
<1>1. PICK q \in Pids : /\ Selects(st, current, q)
                        /\ state' = Switched(st, current, q)
                        /\ current' = q
  BY DEF ScheduleAndSwitch
<1>2. st[q] = "READY" \/ (q = current /\ \A r \in Pids : st[r] # "READY")
  BY <1>1, SelectsSlot
<1>3. /\ state'[q] = "RUNNING"
      /\ q # current => state'[current] = IF st[current] = "RUNNING"
                                          THEN "READY" ELSE st[current]
      /\ \A r \in Pids \ {current, q} : state'[r] = st[r]
  BY <1>1, SwitchedTable
<1>4. RunningIsCurrent'
  BY <1>1, <1>3 DEF RunningIsCurrent
<1> QED
  BY <1>1, <1>2, <1>3, <1>4

LEMMA InitInv == Init => Inv
  BY ConstantTypes, InitType
     DEF Init, Inv, RunningIsCurrent, WaitPidIsCurrent, NoLostWakeup,
         HaltOnlyWhenIdle, KernelStays, ExitedIsOut

\* The facts about the current state that the steps below use.
LEMMA InvFacts ==
    ASSUME Inv
    PROVE  /\ state \in [Pids -> States] /\ parent \in [Pids -> Pids]
           /\ waitPid \in [Pids -> Pids \cup {AnyChild}]
           /\ resume \in [Pids -> Pids \cup {AnyChild, InUser, InHalt}]
           /\ current \in Pids
           /\ state[current] = "RUNNING"
           /\ \A p \in Pids \ {current} : state[p] # "RUNNING"
           /\ \A p \in Pids : state[p] \in {"READY", "BLOCKED"}
                                => resume[p] # InHalt
  BY ConstantTypes DEF Inv, TypeOK, RunningIsCurrent, WaitPidIsCurrent,
                       ExitedIsOut

\* spawn and fork: a new process in the free slot c.
LEMMA CreateInv ==
    ASSUME Inv, TypeOK', NEW c \in Pids, Spawn(c) \/ Fork(c)
    PROVE  Inv'
<1>1. /\ state[c] = "UNUSED" /\ state' = [state EXCEPT ![c] = "READY"]
      /\ parent' = [parent EXCEPT ![c] = current]
      /\ resume' = [resume EXCEPT ![c] = InUser]
      /\ \A p \in Pids \ {c} : waitPid'[p] = waitPid[p]
      /\ current' = current /\ resume[current] = InUser
  BY InvFacts DEF Spawn, Fork, FirstUnused, InProgram
<1>2. c # current /\ c # 0
  BY <1>1, InvFacts DEF Inv, KernelStays
<1>3. RunningIsCurrent'
  BY <1>1, <1>2, InvFacts DEF RunningIsCurrent
<1>4. WaitPidIsCurrent'
  BY <1>1, InvFacts DEF Inv, WaitPidIsCurrent
<1>5. NoLostWakeup'
  BY <1>1, InvFacts DEF Inv, NoLostWakeup, Matches
<1>6. HaltOnlyWhenIdle'
  BY <1>1, <1>2, InvFacts, ConstantTypes DEF HaltOnlyWhenIdle
<1>7. KernelStays' /\ ExitedIsOut'
  BY <1>1, <1>2, InvFacts, ConstantTypes DEF Inv, KernelStays, ExitedIsOut
<1> QED
  BY <1>3, <1>4, <1>5, <1>6, <1>7 DEF Inv

\* yield: one process hands the CPU to another one.
LEMMA YieldInv ==
    ASSUME Inv, TypeOK', Yield
    PROVE  Inv'
<1>1. /\ ScheduleAndSwitch(state) /\ resume' = resume
      /\ waitPid' = waitPid /\ parent' = parent
      /\ resume[current] = InUser
  BY DEF Yield, InProgram
<1>2. /\ RunningIsCurrent' /\ current' \in Pids
      /\ state' \in [Pids -> States]
      /\ \A r \in Pids \ {current, current'} : state'[r] = state[r]
      /\ current' # current => state[current'] = "READY"
                               /\ state'[current] = "READY"
      /\ current' = current => \A r \in Pids : state[r] # "READY"
  BY <1>1, InvFacts, SwitchKeepsOneRunning, SwitchType
<1>3. state'[current'] = "RUNNING"
  BY <1>2 DEF RunningIsCurrent
<1>4. WaitPidIsCurrent' /\ NoLostWakeup'
  BY <1>1, <1>2, <1>3, InvFacts
     DEF Inv, WaitPidIsCurrent, NoLostWakeup, Matches
<1>5. HaltOnlyWhenIdle'
  BY <1>1, <1>2, InvFacts, ConstantTypes DEF HaltOnlyWhenIdle
<1>6. KernelStays' /\ ExitedIsOut'
  BY <1>1, <1>2, <1>3, InvFacts, ConstantTypes DEF Inv, KernelStays, ExitedIsOut
<1> QED
  BY <1>2, <1>4, <1>5, <1>6 DEF Inv

\* exit: the process becomes a zombie and its parent, if it waits, READY.
LEMMA ExitInv ==
    ASSUME Inv, TypeOK', Exit
    PROVE  Inv'
<1> DEFINE dead  == [state EXCEPT ![current] = "ZOMBIE"]
           after == IF WakesParent(current)
                    THEN [dead EXCEPT ![parent[current]] = "READY"] ELSE dead
<1>1. /\ ScheduleAndSwitch(after)
      /\ resume' = [resume EXCEPT ![current] = InHalt]
      /\ waitPid' = waitPid /\ parent' = parent
      /\ resume[current] = InUser
  BY DEF Exit, InProgram
\* The parent that is woken is another process.
<1>2. WakesParent(current) => parent[current] # current
  BY InvFacts DEF WakesParent
<1>3. /\ after \in [Pids -> States]
      /\ after[current] = "ZOMBIE"
      /\ \A r \in Pids \ {current} :
            \/ after[r] = state[r]
            \/ r = parent[current] /\ state[r] = "BLOCKED" /\ after[r] = "READY"
      /\ WakesParent(current) => after[parent[current]] = "READY"
  BY <1>2, InvFacts DEF WakesParent, States
<1>4. \A r \in Pids \ {current} : after[r] # "RUNNING"
  BY <1>3, InvFacts
<1> HIDE DEF after
<1>5. /\ RunningIsCurrent' /\ current' \in Pids
      /\ state' \in [Pids -> States]
      /\ \A r \in Pids \ {current, current'} : state'[r] = after[r]
      /\ current' # current => after[current'] = "READY"
                               /\ state'[current] = "ZOMBIE"
      /\ current' = current => \A r \in Pids : after[r] # "READY"
  BY <1>1, <1>3, <1>4, InvFacts, SwitchKeepsOneRunning, SwitchType
<1>6. state'[current'] = "RUNNING"
  BY <1>5 DEF RunningIsCurrent
\* Whoever is BLOCKED afterwards was BLOCKED before, and nobody woke it.
<1>7. ASSUME NEW p \in Pids, state'[p] = "BLOCKED"
      PROVE  /\ p # current /\ state[p] = "BLOCKED"
             /\ resume'[p] = resume[p] /\ waitPid'[p] = waitPid[p]
             /\ p = parent[current] => ~WakesParent(current)
  <2>1. p # current' /\ p # current
    BY <1>5, <1>6, <1>7
  <2>2. after[p] = "BLOCKED"
    BY <1>5, <1>7, <2>1
  <2> QED
    BY <1>1, <1>3, <2>1, <2>2, InvFacts
<1>8. WaitPidIsCurrent'
  BY <1>7 DEF Inv, WaitPidIsCurrent
<1>9. NoLostWakeup'
  <2> SUFFICES ASSUME NEW p \in Pids, NEW c \in Pids, state'[p] = "BLOCKED",
                      state'[c] = "ZOMBIE", parent'[c] = p
               PROVE  ~Matches(resume[p], c)
    BY <1>7 DEF NoLostWakeup, Matches
  <2>0. state[p] = "BLOCKED" /\ parent[c] = p /\ c # current'
        /\ waitPid[p] = resume[p]
    BY <1>1, <1>6, <1>7 DEF Inv, WaitPidIsCurrent
  <2>1. CASE c # current
    <3>1. state[c] = "ZOMBIE"
      BY <1>3, <1>5, <2>0, <2>1
    <3> QED
      BY <2>0, <3>1 DEF Inv, NoLostWakeup, Matches
  <2>2. CASE c = current
    <3>1. ~WakesParent(current)
      BY <1>7, <2>0, <2>2
    <3>2. c # 0
      BY <2>0, <2>2, InvFacts DEF Inv, KernelStays
    <3> QED
      BY <2>0, <2>2, <3>1, <3>2
         DEF WakesParent, Matches, NotWaiting, AnyChild
  <2> QED
    BY <2>1, <2>2
<1>10. HaltOnlyWhenIdle'
  <2>1. CASE current' = current
    <3>1. \A r \in Pids : state'[r] # "READY"
      BY <1>5, <1>6, <2>1
    <3> QED
      BY <3>1 DEF HaltOnlyWhenIdle
  <2>2. CASE current' # current
    <3>1. state[current'] \in {"READY", "BLOCKED"}
      BY <1>3, <1>5, <2>2
    <3>2. resume'[current'] # InHalt
      BY <1>1, <1>5, <2>2, <3>1, InvFacts
    <3> QED
      BY <3>2 DEF HaltOnlyWhenIdle
  <2> QED
    BY <2>1, <2>2
<1>11. KernelStays'
  BY <1>1, <1>3, <1>5, <1>6, InvFacts, ConstantTypes DEF Inv, KernelStays
<1>12. ExitedIsOut'
  <2> SUFFICES ASSUME NEW p \in Pids, resume'[p] = InHalt, p # current'
               PROVE  state'[p] \in {"ZOMBIE", "UNUSED"}
    BY DEF ExitedIsOut
  <2>1. CASE p = current
    BY <1>5, <2>1
  <2>2. CASE p # current
    <3>1. resume[p] = InHalt
      BY <1>1, <2>2, InvFacts
    <3>2. state[p] \in {"ZOMBIE", "UNUSED"}
      BY <2>2, <3>1 DEF Inv, ExitedIsOut
    <3> QED
      BY <1>3, <1>5, <2>2, <3>2
  <2> QED
    BY <2>1, <2>2
<1> QED
  BY <1>5, <1>8, <1>9, <1>10, <1>11, <1>12 DEF Inv

\* waitpid frees the slot of a zombie child.
LEMMA ReapInv ==
    ASSUME Inv, TypeOK', NEW t \in WaitTargets, resume[current] \in {InUser, t},
           WaitpidReap(t)
    PROVE  Inv'
<1>1. PICK c \in ZombieChildren(t) : state' = [state EXCEPT ![c] = "UNUSED"]
  BY DEF WaitpidReap
<1>2. /\ c \in Pids /\ state[c] = "ZOMBIE" /\ parent[c] = current
      /\ resume' = [resume EXCEPT ![current] = InUser]
      /\ parent' = parent /\ waitPid' = waitPid /\ current' = current
  BY <1>1 DEF WaitpidReap, ZombieChildren
<1>3. c # current
  BY <1>2, InvFacts
<1>4. RunningIsCurrent'
  BY <1>1, <1>2, <1>3, InvFacts DEF RunningIsCurrent
<1>5. WaitPidIsCurrent'
  BY <1>1, <1>2, InvFacts DEF Inv, WaitPidIsCurrent
<1>6. NoLostWakeup'
  BY <1>1, <1>2, InvFacts DEF Inv, NoLostWakeup, Matches
<1>7. HaltOnlyWhenIdle' /\ ExitedIsOut'
  BY <1>1, <1>2, InvFacts, ConstantTypes
     DEF Inv, HaltOnlyWhenIdle, ExitedIsOut
<1>8. KernelStays'
  BY <1>1, <1>2, <1>3, InvFacts, ConstantTypes DEF Inv, KernelStays
<1> QED
  BY <1>4, <1>5, <1>6, <1>7, <1>8 DEF Inv

\* waitpid blocks: there is no zombie that the call names.
LEMMA BlockInv ==
    ASSUME Inv, TypeOK', NEW t \in WaitTargets, resume[current] \in {InUser, t},
           WaitpidBlock(t)
    PROVE  Inv'
<1> DEFINE st == [state EXCEPT ![current] = "BLOCKED"]
<1>1. /\ ScheduleAndSwitch(st)
      /\ ZombieChildren(t) = {}
      /\ resume' = [resume EXCEPT ![current] = t]
      /\ waitPid' = [waitPid EXCEPT ![current] = t] /\ parent' = parent
  BY DEF WaitpidBlock
<1>2. /\ st \in [Pids -> States]
      /\ st[current] = "BLOCKED"
      /\ \A r \in Pids \ {current} : st[r] = state[r] /\ st[r] # "RUNNING"
  BY InvFacts DEF States
<1>3. t # InHalt
  BY ConstantTypes
<1> HIDE DEF st
<1>4. /\ RunningIsCurrent' /\ current' \in Pids
      /\ state' \in [Pids -> States]
      /\ \A r \in Pids \ {current, current'} : state'[r] = state[r]
      /\ current' # current => state[current'] = "READY"
                               /\ state'[current] = "BLOCKED"
  BY <1>1, <1>2, InvFacts, SwitchKeepsOneRunning, SwitchType
<1>5. state'[current'] = "RUNNING"
  BY <1>4 DEF RunningIsCurrent
<1>6. WaitPidIsCurrent'
  <2> SUFFICES ASSUME NEW p \in Pids, state'[p] = "BLOCKED"
               PROVE  resume'[p] \in WaitTargets /\ waitPid'[p] = resume'[p]
    BY DEF WaitPidIsCurrent
  <2>1. CASE p = current
    BY <1>1, <2>1, InvFacts
  <2>2. CASE p # current
    BY <1>1, <1>4, <1>5, <2>2, InvFacts DEF Inv, WaitPidIsCurrent
  <2> QED
    BY <2>1, <2>2
<1>7. NoLostWakeup'
  <2> SUFFICES ASSUME NEW p \in Pids, NEW c \in Pids, state'[p] = "BLOCKED",
                      state'[c] = "ZOMBIE", parent'[c] = p
               PROVE  ~Matches(resume'[p], c)
    BY DEF NoLostWakeup, Matches
  <2>1. state[c] = "ZOMBIE" /\ parent[c] = p
    BY <1>1, <1>4, <1>5
  <2>2. CASE p = current
    <3>1. c \notin ZombieChildren(t)
      BY <1>1
    <3> QED
      BY <1>1, <2>1, <2>2, <3>1, InvFacts DEF ZombieChildren
  <2>3. CASE p # current
    <3>1. state[p] = "BLOCKED" /\ resume'[p] = resume[p]
      BY <1>1, <1>4, <1>5, <2>3, InvFacts
    <3> QED
      BY <2>1, <3>1 DEF Inv, NoLostWakeup
  <2> QED
    BY <2>2, <2>3
<1>8. HaltOnlyWhenIdle'
  BY <1>1, <1>3, <1>4, InvFacts DEF HaltOnlyWhenIdle
<1>9. KernelStays'
  BY <1>1, <1>4, <1>5, InvFacts, ConstantTypes DEF Inv, KernelStays
<1>10. ExitedIsOut'
  BY <1>1, <1>3, <1>4, InvFacts DEF Inv, ExitedIsOut
<1> QED
  BY <1>4, <1>6, <1>7, <1>8, <1>9, <1>10 DEF Inv

\* waitpid fails: nothing but the point of resumption changes.
LEMMA FailInv ==
    ASSUME Inv, TypeOK', NEW t \in WaitTargets, WaitpidFail(t)
    PROVE  Inv'
<1>1. /\ resume' = [resume EXCEPT ![current] = InUser]
      /\ state' = state /\ parent' = parent /\ waitPid' = waitPid
      /\ current' = current
  BY DEF WaitpidFail
<1>2. RunningIsCurrent' /\ KernelStays'
  BY <1>1 DEF Inv, RunningIsCurrent, KernelStays
<1>3. WaitPidIsCurrent' /\ NoLostWakeup'
  BY <1>1, InvFacts DEF Inv, WaitPidIsCurrent, NoLostWakeup, Matches
<1>4. HaltOnlyWhenIdle' /\ ExitedIsOut'
  BY <1>1, InvFacts, ConstantTypes DEF Inv, HaltOnlyWhenIdle, ExitedIsOut
<1> QED
  BY <1>2, <1>3, <1>4 DEF Inv

\* kill: a BLOCKED process becomes READY.
LEMMA KillInv ==
    ASSUME Inv, TypeOK', NEW p \in KillTargets, KillBlocked(p)
    PROVE  Inv'
<1>1. /\ p \in Pids /\ state[p] = "BLOCKED" /\ p # current
      /\ state' = [state EXCEPT ![p] = "READY"]
      /\ parent' = parent /\ waitPid' = waitPid /\ current' = current
      /\ resume' = resume /\ resume[current] = InUser
  BY KillTargetsAssumption, InvFacts DEF KillBlocked, InProgram
<1>2. RunningIsCurrent' /\ KernelStays'
  BY <1>1, InvFacts, ConstantTypes DEF Inv, RunningIsCurrent, KernelStays
<1>3. WaitPidIsCurrent' /\ NoLostWakeup'
  BY <1>1, InvFacts DEF Inv, WaitPidIsCurrent, NoLostWakeup, Matches
<1>4. HaltOnlyWhenIdle' /\ ExitedIsOut'
  BY <1>1, InvFacts, ConstantTypes DEF Inv, HaltOnlyWhenIdle, ExitedIsOut
<1> QED
  BY <1>2, <1>3, <1>4 DEF Inv

LEMMA NextInv == Inv /\ [Next]_vars => Inv'
<1> SUFFICES ASSUME Inv, [Next]_vars PROVE Inv'
  OBVIOUS
<1>0. TypeOK'
  BY NextType DEF Inv
<1>1. CASE \E c \in Pids : Spawn(c) \/ Fork(c)
  BY <1>0, <1>1, CreateInv
<1>2. CASE Yield
  BY <1>0, <1>2, YieldInv
<1>3. CASE Exit
  BY <1>0, <1>3, ExitInv
<1>4. CASE Waitpid
  BY <1>0, <1>4, ReapInv, BlockInv, FailInv DEF Waitpid
<1>5. CASE \E p \in KillTargets : KillBlocked(p)
  BY <1>0, <1>5, KillInv
<1>6. CASE UNCHANGED vars
  BY <1>0, <1>6 DEF vars, Inv, RunningIsCurrent, WaitPidIsCurrent,
     NoLostWakeup, HaltOnlyWhenIdle, KernelStays, ExitedIsOut, Matches
<1> QED
  BY <1>1, <1>2, <1>3, <1>4, <1>5, <1>6 DEF Next

LEMMA Invariance == Spec => []Inv
<1> QED
  BY InitInv, NextInv, PTL DEF Spec

-----------------------------------------------------------------------------
(* The safety properties.                                                  *)

\* The process that has the CPU is the one, and the only one, marked RUNNING
\* (schedule and context_switch, process.asm 587-718).
THEOREM CpuOwnership == Spec => []RunningIsCurrent
<1>1. Inv => RunningIsCurrent
  BY DEF Inv
<1> QED
  BY Invariance, <1>1, PTL

\* A process blocked in waitpid has no zombie child that its call names: no
\* order of exits and waits loses a wakeup (process.asm 771-799, 839-962).
THEOREM WakeupsAreKept == Spec => []NoLostWakeup
<1>1. Inv => NoLostWakeup
  BY DEF Inv
<1> QED
  BY Invariance, <1>1, PTL

\* exit_process always sees the argument of the waitpid that is in progress
\* (process.asm 776-790, 948-950).
THEOREM WaitPidNeverStale == Spec => []WaitPidIsCurrent
<1>1. Inv => WaitPidIsCurrent
  BY DEF Inv
<1> QED
  BY Invariance, <1>1, PTL

\* The halt loop of exit_process is entered only when nobody is READY
\* (process.asm 810-812).
THEOREM HaltIsIdle == Spec => []HaltOnlyWhenIdle
<1>1. Inv => HaltOnlyWhenIdle
  BY DEF Inv
<1> QED
  BY Invariance, <1>1, PTL

\* A zombie changes state only when the process that is running collects it.
LEMMA ExitFinalStep ==
    ASSUME Inv, Next, NEW p \in Pids, state[p] = "ZOMBIE", state'[p] # "ZOMBIE"
    PROVE  state'[p] = "UNUSED" /\ parent[p] = current
           /\ state[current] = "RUNNING"
<1>0. p # current /\ state[current] = "RUNNING"
  BY InvFacts
<1>1. ~\E c \in Pids : Spawn(c) \/ Fork(c)
  BY InvFacts DEF Spawn, Fork, FirstUnused
<1>2. ~Yield
  <2> SUFFICES ASSUME Yield PROVE FALSE
    OBVIOUS
  <2> QED
    BY <1>0, InvFacts, SwitchKeepsOneRunning DEF Yield
<1>3. ~Exit
  <2> SUFFICES ASSUME Exit PROVE FALSE
    OBVIOUS
  <2> DEFINE dead  == [state EXCEPT ![current] = "ZOMBIE"]
             after == IF WakesParent(current)
                      THEN [dead EXCEPT ![parent[current]] = "READY"] ELSE dead
  <2>1. /\ after \in [Pids -> States]
        /\ after[p] = "ZOMBIE"
        /\ \A r \in Pids \ {current} : after[r] # "RUNNING"
    BY <1>0, InvFacts DEF WakesParent, States
  <2>2. ScheduleAndSwitch(after)
    BY DEF Exit
  <2> HIDE DEF after
  <2> QED
    BY <1>0, <2>1, <2>2, InvFacts, SwitchKeepsOneRunning
<1>4. ASSUME NEW t \in WaitTargets, WaitpidReap(t)
      PROVE  state'[p] = "UNUSED" /\ parent[p] = current
  BY <1>4, InvFacts DEF WaitpidReap, ZombieChildren
<1>5. ASSUME NEW t \in WaitTargets PROVE ~WaitpidBlock(t) /\ ~WaitpidFail(t)
  <2> DEFINE st == [state EXCEPT ![current] = "BLOCKED"]
  <2>1. /\ st \in [Pids -> States]
        /\ st[p] = "ZOMBIE"
        /\ \A r \in Pids \ {current} : st[r] # "RUNNING"
    BY <1>0, InvFacts DEF States
  <2>2. WaitpidBlock(t) => ScheduleAndSwitch(st)
    BY DEF WaitpidBlock
  <2> HIDE DEF st
  <2>3. ~WaitpidBlock(t)
    BY <1>0, <2>1, <2>2, InvFacts, SwitchKeepsOneRunning
  <2>4. ~WaitpidFail(t)
    BY DEF WaitpidFail
  <2> QED
    BY <2>3, <2>4
<1>6. ~\E k \in KillTargets : KillBlocked(k)
  BY InvFacts, KillTargetsAssumption DEF KillBlocked
<1> QED
  BY <1>0, <1>1, <1>2, <1>3, <1>4, <1>5, <1>6 DEF Next, Waitpid

\* "Never returns" (process.asm 808): after exit a process gets neither the CPU
\* nor a new state until its parent frees the slot.
THEOREM ExitFinality == Spec => ExitIsFinal
<1> DEFINE Final == \A p \in Pids :
              (state[p] = "ZOMBIE" /\ state'[p] # "ZOMBIE")
                  => /\ state'[p] = "UNUSED"
                     /\ parent[p] = current
                     /\ state[current] = "RUNNING"
<1>1. Inv /\ [Next]_vars => [Final]_vars
  BY ExitFinalStep
<1> QED
  BY <1>1, Invariance, PTL DEF Spec, ExitIsFinal

\* Each switch brings the CPU closer to a process that stays READY.
LEMMA BypassStep ==
    ASSUME Inv, Next, NEW p \in Pids, state[p] = "READY", state'[p] = "READY",
           current' # current
    PROVE  ScanDistance(current', p) < ScanDistance(current, p)
<1>0. p # current
  BY InvFacts
<1>1. ASSUME NEW st \in [Pids -> States], ScheduleAndSwitch(st),
             st[p] = "READY"
      PROVE  ScanDistance(current', p) < ScanDistance(current, p)
  <2>1. PICK q \in Pids : /\ Selects(st, current, q)
                          /\ state' = Switched(st, current, q)
                          /\ current' = q
    BY <1>1 DEF ScheduleAndSwitch
  <2>2. current \in Pids
    BY InvFacts
  <2>3. Switched(st, current, q)[q] = "RUNNING"
    BY <2>2, SwitchedTable
  <2>4. p # q
    BY <2>1, <2>3
  <2> QED
    BY <1>1, <2>1, <2>2, <2>4, SelectsCloser
<1>2. CASE Yield
  BY <1>1, <1>2, InvFacts DEF Yield
<1>3. CASE Exit
  <2> DEFINE dead  == [state EXCEPT ![current] = "ZOMBIE"]
             after == IF WakesParent(current)
                      THEN [dead EXCEPT ![parent[current]] = "READY"] ELSE dead
  <2>1. after \in [Pids -> States] /\ after[p] = "READY"
    BY <1>0, InvFacts DEF States
  <2>2. ScheduleAndSwitch(after)
    BY <1>3 DEF Exit
  <2> HIDE DEF after
  <2> QED
    BY <1>1, <2>1, <2>2
<1>4. ASSUME NEW t \in WaitTargets, WaitpidBlock(t)
      PROVE  ScanDistance(current', p) < ScanDistance(current, p)
  <2> DEFINE st == [state EXCEPT ![current] = "BLOCKED"]
  <2>1. st \in [Pids -> States] /\ st[p] = "READY"
    BY <1>0, InvFacts DEF States
  <2>2. ScheduleAndSwitch(st)
    BY <1>4 DEF WaitpidBlock
  <2> HIDE DEF st
  <2> QED
    BY <1>1, <2>1, <2>2
<1> QED
  BY <1>2, <1>3, <1>4
     DEF Next, Waitpid, Spawn, Fork, WaitpidReap, WaitpidFail, KillBlocked

\* Round robin: a READY process waits for fewer than MAX_PROCS switches, the
\* distance between the CPU and its slot decreases with each one (schedule,
\* process.asm 587-635).
THEOREM RoundRobin == Spec => BoundedBypass
<1> DEFINE Closer == \A p \in Pids :
              (state[p] = "READY" /\ state'[p] = "READY" /\ current' # current)
                  => ScanDistance(current', p) < ScanDistance(current, p)
<1>1. Inv /\ [Next]_vars => [Closer]_vars
  BY BypassStep
<1> QED
  BY <1>1, Invariance, PTL DEF Spec, BoundedBypass

-----------------------------------------------------------------------------
(* ready_count.                                                            *)

\* The runnable processes are finitely many.
LEMMA RunnableFinite ==
    ASSUME NEW st PROVE IsFiniteSet(Runnable(st)) /\ Cardinality(Runnable(st)) \in Nat
<1>1. IsFiniteSet(Pids)
  BY FS_Interval, MaxProcsAssumption DEF Pids
<1>2. Runnable(st) \subseteq Pids
  BY DEF Runnable
<1>3. IsFiniteSet(Runnable(st))
  BY <1>1, <1>2, FS_Subset
<1> QED
  BY <1>3, FS_CardinalityType

\* Switching to another process that is READY leaves the same ones runnable.
LEMMA SwitchKeepsRunnable ==
    ASSUME NEW st \in [Pids -> States], NEW cur \in Pids, NEW q \in Pids, st[q] = "READY"
    PROVE  Runnable(Switched(st, cur, q)) = Runnable(st)
<1>1. ASSUME NEW p \in Pids
      PROVE  Switched(st, cur, q)[p] \in {"READY", "RUNNING"} <=> st[p] \in {"READY", "RUNNING"}
  <2>1. CASE p = q
    BY <2>1, SwitchedTable
  <2>2. CASE p # q /\ p = cur
    BY <2>2, SwitchedTable
  <2>3. CASE p # q /\ p # cur
    BY <2>3, SwitchedTable
  <2> QED
    BY <2>1, <2>2, <2>3
<1> QED
  BY <1>1 DEF Runnable

\* One process more, one less, or one in the place of another.
LEMMA OneMore ==
    ASSUME NEW st, NEW new, NEW p, p \notin Runnable(st), Runnable(new) = Runnable(st) \cup {p}
    PROVE  Cardinality(Runnable(new)) - Cardinality(Runnable(st)) = 1
<1>1. Cardinality(Runnable(new)) = Cardinality(Runnable(st)) + 1
  BY RunnableFinite, FS_AddElement
<1> QED
  BY <1>1, RunnableFinite

\* What `schedule' does with a process that is no longer runnable: either it is
\* gone from the runnable ones, or it has the CPU back because nobody is READY.
LEMMA LeaveRunnable ==
    ASSUME Inv, NEW st \in [Pids -> States], ScheduleAndSwitch(st),
           st[current] \notin {"READY", "RUNNING"}, \A p \in Pids \ {current} : st[p] # "RUNNING"
    PROVE  \/ Runnable(state') = Runnable(st)
           \/ /\ current' = current /\ \A p \in Pids : st[p] # "READY"
              /\ \A p \in Pids : state'[p] # "READY"
<1>1. PICK q \in Pids : /\ Selects(st, current, q)
                        /\ state' = Switched(st, current, q) /\ current' = q
  BY DEF ScheduleAndSwitch
<1>2. current \in Pids
  BY InvFacts
<1>3. CASE st[q] = "READY"
  BY <1>1, <1>2, <1>3, SwitchKeepsRunnable
<1>4. CASE st[q] # "READY"
  <2>1. q = current /\ \A r \in Pids : st[r] # "READY"
    BY <1>1, <1>2, <1>4, SelectsSlot
  <2>2. \A r \in Pids : state'[r] = IF r = q THEN "RUNNING" ELSE st[r]
    BY <1>1, <1>2, <2>1, SwitchedTable
  <2>3. \A r \in Pids : state'[r] # "READY"
    BY <2>1, <2>2
  <2> QED
    BY <1>1, <2>1, <2>3
<1> QED
  BY <1>3, <1>4

LEMMA CountStep ==
    ASSUME Inv, Next, ReadyMin < readyCount', readyCount' < ReadyMax
    PROVE  \/ IdleSwitch
           \/ readyCount' - readyCount = Cardinality(Runnable(state')) - Cardinality(Runnable(state))
<1> DEFINE Follows(n) == Cardinality(Runnable(state')) - Cardinality(Runnable(state)) = n
           Idle == current' = current /\ \A p \in Pids : state'[p] # "READY"
<1>t. /\ state \in [Pids -> States] /\ current \in Pids /\ state[current] = "RUNNING"
      /\ parent \in [Pids -> Pids] /\ resume \in [Pids -> Pids \cup {AnyChild, InUser, InHalt}]
      /\ \A p \in Pids : state[p] = "RUNNING" <=> p = current
      /\ readyCount \in Int
  BY InvFacts, ReadyBoundsAssumption DEF Inv, TypeOK
<1>u. InUser \notin Pids \cup {AnyChild} /\ InUser # InHalt
  BY ConstantTypes DEF InUser, InHalt
<1>r. \A n \in {-1, 0, 1} : readyCount' = ReadyPlus(n) => readyCount' - readyCount = n
  BY <1>t, ReadyBoundsAssumption DEF ReadyPlus
<1>s. Runnable(state') = Runnable(state) => Follows(0)
  BY RunnableFinite
<1>m. ASSUME NEW p \in Pids, state[p] \notin {"READY", "RUNNING"}, state' = [state EXCEPT ![p] = "READY"]
      PROVE  Follows(1)
  <2>1. p \notin Runnable(state) /\ Runnable(state') = Runnable(state) \cup {p}
    BY <1>t, <1>m DEF Runnable, States
  <2> QED
    BY <2>1, OneMore
<1>l. ASSUME Runnable(state') = Runnable(state) \ {current} PROVE Follows(-1)
  <2>1. current \in Runnable(state)
    BY <1>t DEF Runnable
  <2>2. Cardinality(Runnable(state')) = Cardinality(Runnable(state)) - 1
    BY <1>l, <2>1, RunnableFinite, FS_RemoveElement
  <2> QED
    BY <2>2, RunnableFinite
<1> HIDE DEF Follows
<1>1. ASSUME NEW c \in Pids, Spawn(c) \/ Fork(c) PROVE readyCount' - readyCount = 1 /\ Follows(1)
  <2>1. state[c] \notin {"READY", "RUNNING"} /\ state' = [state EXCEPT ![c] = "READY"]
        /\ readyCount' = ReadyPlus(1)
    BY <1>1 DEF Spawn, Fork, FirstUnused
  <2> QED
    BY <1>r, <1>m, <2>1
<1>2. CASE Yield
  <2>1. PICK q \in Pids : Selects(state, current, q) /\ state' = Switched(state, current, q)
    BY <1>2 DEF Yield, ScheduleAndSwitch
  <2>2. state[q] = "READY"
    BY <1>2, <1>t, <2>1, SelectsSlot DEF Yield
  <2> QED
    BY <1>2, <1>s, <1>t, <2>1, <2>2, SwitchKeepsRunnable DEF Yield, Follows
<1>3. CASE Exit
  <2> DEFINE dead  == [state EXCEPT ![current] = "ZOMBIE"]
             after == IF WakesParent(current)
                      THEN [dead EXCEPT ![parent[current]] = "READY"] ELSE dead
  <2>1. /\ after \in [Pids -> States] /\ after[current] = "ZOMBIE"
        /\ \A p \in Pids \ {current} : after[p] # "RUNNING"
        /\ WakesParent(current) => after[parent[current]] = "READY"
        /\ ~WakesParent(current) => Runnable(after) = Runnable(state) \ {current}
        /\ WakesParent(current) =>
              /\ parent[current] \notin Runnable(state) /\ parent[current] \in Pids
              /\ Runnable(after) = (Runnable(state) \cup {parent[current]}) \ {current}
    BY <1>t DEF WakesParent, States, Runnable
  <2>2. ScheduleAndSwitch(after) /\ resume'[current] = InHalt
        /\ readyCount' = IF WakesParent(current) THEN readyCount ELSE ReadyPlus(-1)
    BY <1>3, <1>t DEF Exit
  <2> HIDE DEF after
  <2>3. \/ Runnable(state') = Runnable(after)
        \/ Idle /\ \A p \in Pids : after[p] # "READY"
    BY <2>1, <2>2, LeaveRunnable
  <2>4. Idle => IdleSwitch
    BY <1>u, <2>2 DEF IdleSwitch
  <2>5. CASE ~WakesParent(current) /\ Runnable(state') = Runnable(after)
    BY <1>l, <1>r, <2>1, <2>2, <2>5 DEF Follows
  <2>6. CASE WakesParent(current) /\ Runnable(state') = Runnable(after)
    <3> DEFINE both == Runnable(state) \cup {parent[current]}
    <3>1. IsFiniteSet(both) /\ Cardinality(both) = Cardinality(Runnable(state)) + 1
      BY <2>1, <2>6, RunnableFinite, FS_AddElement
    <3>2. current \in both
      BY <1>t DEF Runnable
    <3>3. Cardinality(both \ {current}) = Cardinality(both) - 1
      BY <3>1, <3>2, FS_RemoveElement
    <3>4. Runnable(state') = both \ {current} /\ readyCount' = readyCount
      BY <2>1, <2>2, <2>6
    <3> QED
      BY <1>t, <3>1, <3>3, <3>4, RunnableFinite
  <2> QED
    BY <2>1, <2>3, <2>4, <2>5, <2>6
<1>4. ASSUME NEW t \in WaitTargets, WaitpidReap(t)
      PROVE  readyCount' - readyCount = 0 /\ Follows(0)
  <2>1. Runnable(state') = Runnable(state)
    BY <1>4, <1>t DEF WaitpidReap, ZombieChildren, Runnable
  <2> QED
    BY <1>4, <1>s, <1>t, <2>1 DEF WaitpidReap
<1>5. ASSUME NEW t \in WaitTargets, WaitpidBlock(t)
      PROVE  IdleSwitch \/ (readyCount' - readyCount = -1 /\ Follows(-1))
  <2> DEFINE st == [state EXCEPT ![current] = "BLOCKED"]
  <2>1. /\ st \in [Pids -> States] /\ st[current] = "BLOCKED"
        /\ \A p \in Pids \ {current} : st[p] # "RUNNING"
        /\ Runnable(st) = Runnable(state) \ {current}
    BY <1>t DEF States, Runnable
  <2>2. ScheduleAndSwitch(st) /\ resume'[current] = t /\ readyCount' = ReadyPlus(-1)
    BY <1>5, <1>t DEF WaitpidBlock
  <2> HIDE DEF st
  <2>3. Runnable(state') = Runnable(st) \/ Idle
    BY <2>1, <2>2, LeaveRunnable
  <2>4. Idle => IdleSwitch
    BY <1>u, <2>2, ConstantTypes DEF IdleSwitch
  <2> QED
    BY <1>l, <1>r, <2>1, <2>2, <2>3, <2>4
<1>6. ASSUME NEW t \in WaitTargets, WaitpidFail(t)
      PROVE  readyCount' - readyCount = 0 /\ Follows(0)
  BY <1>6, <1>s, <1>t DEF WaitpidFail
<1>7. ASSUME NEW p \in KillTargets, KillBlocked(p)
      PROVE  readyCount' - readyCount = 1 /\ Follows(1)
  BY <1>7, <1>m, <1>r, KillTargetsAssumption DEF KillBlocked
<1> QED
  BY <1>1, <1>2, <1>3, <1>4, <1>5, <1>6, <1>7 DEF Next, Waitpid, Follows

\* ready_count follows the number of runnable processes through every call but
\* the one in which the CPU comes straight back to a process that is no longer
\* runnable (process.asm 947-962).
THEOREM ReadyCountIsKept == Spec => ReadyCountFollows
<1> DEFINE Count == (ReadyMin < readyCount' /\ readyCount' < ReadyMax) =>
              \/ IdleSwitch
              \/ readyCount' - readyCount = Cardinality(Runnable(state'))
                                              - Cardinality(Runnable(state))
<1>1. Inv /\ [Next]_vars => [Count]_vars
  BY CountStep
<1> QED
  BY <1>1, Invariance, PTL DEF Spec, ReadyCountFollows

-----------------------------------------------------------------------------
(* ProcessTable implements Lifecycle: under the mapping at the end of       *)
(* ProcessTable, every initial state is one of the contract and every step  *)
(* is a step of the contract or leaves the mapped variables alone.          *)

\* A process that exit_process has not finished with, and that the table
\* still lists in a state in which it may run, is alive.
LEMMA AliveFacts ==
    ASSUME Inv
    PROVE  /\ \A p \in Pids : state[p] \in {"READY", "BLOCKED"} => p \in LifeAlive
           /\ \A p \in Pids : state[p] = "UNUSED" => p \notin LifeAlive \cup LifeExited
           /\ \A p \in Pids : state[p] = "ZOMBIE" => p \in LifeExited
           /\ resume[current] # InHalt => current \in LifeAlive
  BY InvFacts DEF LifeAlive, LifeExited, States

LEMMA InitMaps == Init => Contract!Init
<1> SUFFICES ASSUME Init PROVE Contract!Init
  OBVIOUS
<1>1. LifeAlive = {0} /\ LifeExited = {}
  BY ConstantTypes DEF Init, LifeAlive, LifeExited, InUser, InHalt
<1>2. parent \in [Pids -> Pids] /\ current = 0
  BY ConstantTypes DEF Init
<1> QED
  BY <1>1, <1>2 DEF Contract!Init

\* spawn and fork create.
LEMMA CreateMaps ==
    ASSUME Inv, NEW c \in Pids, Spawn(c) \/ Fork(c)
    PROVE  Contract!Create(c)
<1>1. /\ state[c] = "UNUSED" /\ state' = [state EXCEPT ![c] = "READY"]
      /\ parent' = [parent EXCEPT ![c] = current]
      /\ resume' = [resume EXCEPT ![c] = InUser]
      /\ current' = current /\ resume[current] = InUser
  BY DEF Spawn, Fork, FirstUnused, InProgram
<1>2. c \notin LifeAlive \cup LifeExited
  BY <1>1, AliveFacts
<1>3. \A p \in Pids \ {c} : state'[p] = state[p] /\ resume'[p] = resume[p]
  BY <1>1, InvFacts
<1>4. state'[c] = "READY" /\ resume'[c] = InUser
  BY <1>1, InvFacts
<1>5. LifeAlive' = LifeAlive \cup {c} /\ LifeExited' = LifeExited
  BY <1>2, <1>3, <1>4, ConstantTypes DEF LifeAlive, LifeExited
<1>6. current \in LifeAlive
  BY <1>1, AliveFacts, ConstantTypes
<1> QED
  BY <1>1, <1>2, <1>5, <1>6 DEF Contract!Create

\* A switch between living processes, and any other step that lets every
\* slot go on being alive, exited or free, dispatches or stutters.
LEMMA SameLives ==
    ASSUME LifeAlive' = LifeAlive, LifeExited' = LifeExited, parent' = parent,
           current \in LifeAlive, current' \in LifeAlive, current' \in Pids
    PROVE  Contract!Dispatch(current')
  BY DEF Contract!Dispatch

\* yield dispatches.
LEMMA YieldMaps ==
    ASSUME Inv, TypeOK', Yield
    PROVE  Contract!Next
<1>1. /\ ScheduleAndSwitch(state) /\ resume' = resume
      /\ parent' = parent /\ resume[current] = InUser
  BY DEF Yield, InProgram
<1>2. /\ current' \in Pids
      /\ RunningIsCurrent'
      /\ \A r \in Pids \ {current, current'} : state'[r] = state[r]
      /\ current' # current => state[current'] = "READY"
                               /\ state'[current] = "READY"
  BY <1>1, InvFacts, SwitchKeepsOneRunning, SwitchType
<1>3. state'[current'] = "RUNNING"
  BY <1>2 DEF RunningIsCurrent
<1>4. \A p \in Pids :
         /\ p \in LifeAlive' <=> p \in LifeAlive
         /\ p \in LifeExited' <=> p \in LifeExited
  BY <1>1, <1>2, <1>3, InvFacts DEF LifeAlive, LifeExited
<1>5. LifeAlive' = LifeAlive /\ LifeExited' = LifeExited
  BY <1>4 DEF LifeAlive, LifeExited
<1>6. current \in LifeAlive /\ current' \in LifeAlive
  BY <1>1, <1>2, AliveFacts, ConstantTypes
<1> QED
  BY <1>1, <1>2, <1>5, <1>6, SameLives DEF Contract!Next

\* exit is a death.
LEMMA ExitMaps ==
    ASSUME Inv, TypeOK', Exit
    PROVE  Contract!Die
<1> DEFINE dead  == [state EXCEPT ![current] = "ZOMBIE"]
           after == IF WakesParent(current)
                    THEN [dead EXCEPT ![parent[current]] = "READY"] ELSE dead
<1>1. /\ ScheduleAndSwitch(after)
      /\ resume' = [resume EXCEPT ![current] = InHalt]
      /\ parent' = parent /\ resume[current] = InUser
  BY DEF Exit, InProgram
<1>2. /\ after \in [Pids -> States]
      /\ after[current] = "ZOMBIE"
      /\ \A r \in Pids \ {current} :
            \/ after[r] = state[r]
            \/ state[r] = "BLOCKED" /\ after[r] = "READY"
  BY InvFacts DEF WakesParent, States
<1>3. \A r \in Pids \ {current} : after[r] # "RUNNING"
  BY <1>2, InvFacts
<1> HIDE DEF after
<1>4. /\ current' \in Pids
      /\ RunningIsCurrent'
      /\ \A r \in Pids \ {current, current'} : state'[r] = after[r]
      /\ current' # current => after[current'] = "READY"
                               /\ state'[current] = "ZOMBIE"
  BY <1>1, <1>2, <1>3, InvFacts, SwitchKeepsOneRunning, SwitchType
<1>5. state'[current'] = "RUNNING"
  BY <1>4 DEF RunningIsCurrent
<1>6. \A r \in Pids \ {current} : resume'[r] = resume[r]
  BY <1>1, InvFacts
<1>7. resume'[current] = InHalt /\ state'[current] # "UNUSED"
  BY <1>1, <1>4, <1>5, InvFacts
<1>8. \A p \in Pids \ {current} :
         /\ p \in LifeAlive' <=> p \in LifeAlive
         /\ p \in LifeExited' <=> p \in LifeExited
  <2> SUFFICES ASSUME NEW p \in Pids \ {current}
               PROVE  /\ p \in LifeAlive' <=> p \in LifeAlive
                      /\ p \in LifeExited' <=> p \in LifeExited
    OBVIOUS
  <2>1. \/ state'[p] = state[p]
        \/ state[p] \in {"READY", "BLOCKED"} /\ state'[p] \in {"READY", "RUNNING"}
    BY <1>2, <1>4, <1>5
  <2> QED
    BY <1>6, <2>1 DEF LifeAlive, LifeExited
<1>9. current \in LifeAlive /\ current \notin LifeAlive' /\ current \in LifeExited'
  BY <1>1, <1>7, AliveFacts, InvFacts, ConstantTypes DEF LifeAlive, LifeExited
<1>10. LifeAlive \subseteq Pids /\ LifeAlive' \subseteq Pids
       /\ LifeExited \subseteq Pids /\ LifeExited' \subseteq Pids
  BY DEF LifeAlive, LifeExited
<1>11. LifeAlive' = LifeAlive \ {current}
       /\ LifeExited' = LifeExited \cup {current}
  BY <1>8, <1>9, <1>10, InvFacts
<1>12. current' \in LifeAlive' \cup {current}
  <2>1. CASE current' # current
    <3>1. state[current'] \in {"READY", "BLOCKED"}
      BY <1>2, <1>4, <2>1
    <3> QED
      BY <1>4, <1>8, <2>1, <3>1, AliveFacts
  <2> QED
    BY <2>1
<1> QED
  BY <1>1, <1>9, <1>11, <1>12 DEF Contract!Die

\* A successful waitpid collects.
LEMMA ReapMaps ==
    ASSUME Inv, NEW t \in WaitTargets, resume[current] \in {InUser, t},
           WaitpidReap(t)
    PROVE  Contract!Next
<1>1. PICK c \in ZombieChildren(t) : state' = [state EXCEPT ![c] = "UNUSED"]
  BY DEF WaitpidReap
<1>2. /\ c \in Pids /\ state[c] = "ZOMBIE" /\ parent[c] = current
      /\ resume' = [resume EXCEPT ![current] = InUser]
      /\ parent' = parent /\ current' = current
  BY <1>1 DEF WaitpidReap, ZombieChildren
<1>3. c # current /\ resume[current] # InHalt
  BY <1>2, InvFacts, ConstantTypes
<1>4. c \in LifeExited /\ c \notin LifeAlive /\ current \in LifeAlive
  BY <1>2, <1>3, AliveFacts DEF LifeExited
<1>5. state'[c] = "UNUSED" /\ \A p \in Pids \ {c} : state'[p] = state[p]
  BY <1>1, <1>2, InvFacts
<1>6. \A p \in Pids : resume'[p] = InHalt <=> resume[p] = InHalt
  BY <1>2, <1>3, InvFacts, ConstantTypes
<1>7. LifeAlive' = LifeAlive /\ LifeExited' = LifeExited \ {c}
  BY <1>4, <1>5, <1>6 DEF LifeAlive, LifeExited
<1>8. Contract!Collect(c)
  BY <1>2, <1>4, <1>7 DEF Contract!Collect
<1> QED
  BY <1>2, <1>8 DEF Contract!Next

\* A waitpid that blocks dispatches.
LEMMA BlockMaps ==
    ASSUME Inv, TypeOK', NEW t \in WaitTargets, resume[current] \in {InUser, t},
           WaitpidBlock(t)
    PROVE  Contract!Next
<1> DEFINE st == [state EXCEPT ![current] = "BLOCKED"]
<1>1. /\ ScheduleAndSwitch(st)
      /\ resume' = [resume EXCEPT ![current] = t] /\ parent' = parent
  BY DEF WaitpidBlock
<1>2. /\ st \in [Pids -> States]
      /\ st[current] = "BLOCKED"
      /\ \A r \in Pids \ {current} : st[r] = state[r] /\ st[r] # "RUNNING"
  BY InvFacts DEF States
<1>3. resume[current] # InHalt
  BY ConstantTypes
<1> HIDE DEF st
<1>4. /\ current' \in Pids
      /\ RunningIsCurrent'
      /\ \A r \in Pids \ {current, current'} : state'[r] = state[r]
      /\ current' # current => state[current'] = "READY"
                               /\ state'[current] = "BLOCKED"
  BY <1>1, <1>2, InvFacts, SwitchKeepsOneRunning, SwitchType
<1>5. state'[current'] = "RUNNING"
  BY <1>4 DEF RunningIsCurrent
<1>6. \A p \in Pids : resume'[p] = InHalt <=> resume[p] = InHalt
  BY <1>1, <1>3, InvFacts, ConstantTypes
<1>7. \A p \in Pids : \/ state'[p] = state[p]
                      \/ /\ state[p] \in {"READY", "RUNNING"}
                         /\ state'[p] \in {"RUNNING", "BLOCKED"}
  BY <1>4, <1>5, InvFacts
<1>8. LifeAlive' = LifeAlive /\ LifeExited' = LifeExited
  BY <1>6, <1>7 DEF LifeAlive, LifeExited
<1>9. current \in LifeAlive /\ current' \in LifeAlive
  BY <1>3, <1>4, AliveFacts
<1> QED
  BY <1>1, <1>4, <1>8, <1>9, SameLives DEF Contract!Next

\* A waitpid that fails is invisible.
LEMMA FailMaps ==
    ASSUME Inv, NEW t \in WaitTargets, resume[current] \in {InUser, t},
           WaitpidFail(t)
    PROVE  UNCHANGED Contract!vars
<1>1. /\ state' = state /\ parent' = parent /\ current' = current
      /\ resume' = [resume EXCEPT ![current] = InUser]
  BY DEF WaitpidFail
<1>2. \A p \in Pids : resume'[p] = InHalt <=> resume[p] = InHalt
  BY <1>1, InvFacts, ConstantTypes
<1>3. LifeAlive' = LifeAlive /\ LifeExited' = LifeExited
  BY <1>1, <1>2 DEF LifeAlive, LifeExited
<1> QED
  BY <1>1, <1>3 DEF Contract!vars

\* So is a kill that wakes a process.
LEMMA KillMaps ==
    ASSUME Inv, NEW p \in KillTargets, KillBlocked(p)
    PROVE  UNCHANGED Contract!vars
<1>1. /\ p \in Pids /\ state[p] = "BLOCKED"
      /\ state' = [state EXCEPT ![p] = "READY"]
      /\ parent' = parent /\ current' = current /\ resume' = resume
  BY KillTargetsAssumption DEF KillBlocked
<1>2. state'[p] = "READY" /\ \A q \in Pids \ {p} : state'[q] = state[q]
  BY <1>1, InvFacts
<1>3. LifeAlive' = LifeAlive /\ LifeExited' = LifeExited
  BY <1>1, <1>2 DEF LifeAlive, LifeExited
<1> QED
  BY <1>1, <1>3 DEF Contract!vars

LEMMA NextMaps == Inv /\ [Next]_vars => [Contract!Next]_(Contract!vars)
<1> SUFFICES ASSUME Inv, [Next]_vars PROVE Contract!Next \/ UNCHANGED Contract!vars
  OBVIOUS
<1>0. TypeOK'
  BY NextType DEF Inv
<1>1. ASSUME NEW c \in Pids, Spawn(c) \/ Fork(c) PROVE Contract!Next
  BY <1>1, CreateMaps DEF Contract!Next
<1>2. CASE Yield
  BY <1>0, <1>2, YieldMaps
<1>3. CASE Exit
  BY <1>0, <1>3, ExitMaps DEF Contract!Next
<1>4. CASE Waitpid
  BY <1>0, <1>4, ReapMaps, BlockMaps, FailMaps DEF Waitpid
<1>5. ASSUME NEW p \in KillTargets, KillBlocked(p)
      PROVE  UNCHANGED Contract!vars
  BY <1>5, KillMaps
<1>6. CASE UNCHANGED vars
  BY <1>6 DEF vars, Contract!vars, LifeAlive, LifeExited
<1> QED
  BY <1>1, <1>2, <1>3, <1>4, <1>5, <1>6 DEF Next

\* The process table keeps the contract of Lifecycle (process.asm 173-366,
\* 724-972, signal.asm 231-243): processes are created by living ones, exit
\* once, do not have the CPU afterwards, and are collected once, by their
\* maker.
THEOREM KeepsContract == Spec => ImplementsLifecycle
<1> QED
  BY InitMaps, NextMaps, Invariance, PTL
     DEF Spec, ImplementsLifecycle, Contract!Spec
=============================================================================
