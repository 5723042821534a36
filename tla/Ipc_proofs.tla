----------------------------- MODULE Ipc_proofs -----------------------------
(***************************************************************************)
(* Proofs about Ipc, for every number of slots and every set of arguments   *)
(* of recv, waitpid and kill.                                               *)
(*                                                                          *)
(* OneRunning survives although send writes READY into a slot without       *)
(* looking at its state: READY is never a second RUNNING.  UnreadKept is    *)
(* inductive because a receiver with an unread message never comes to wait  *)
(* for anybody: recv would find the message first.                          *)
(***************************************************************************)
EXTENDS Ipc, ProcessTable_proofs

IpcInv == IpcTypeOK /\ OneRunning /\ UnreadKept

\* The numbers that stand for no process are none.
LEMMA IpcConstants ==
    /\ MaxProcs \in Nat \ {0}
    /\ Pids \subseteq Nat /\ 0 \in Pids
    /\ RecvSources \subseteq Pids \cup {WaitAny}
    /\ WaitAny \notin Pids
    /\ InRecv \notin Pids \cup {AnyChild, InUser, InHalt}
    /\ InUser \notin Pids \cup {AnyChild}
  BY ConstantTypes, RecvSourcesAssumption
     DEF Pids, WaitAny, InRecv, AnyChild, InUser, InHalt

\* The facts about types that the steps below use.
LEMMA IpcTypes ==
    ASSUME IpcTypeOK
    PROVE  /\ state \in [Pids -> States] /\ parent \in [Pids -> Pids]
           /\ waitPid \in [Pids -> Pids \cup {AnyChild}]
           /\ resume \in [Pids -> Pids \cup {AnyChild, InUser, InHalt, InRecv}]
           /\ current \in Pids /\ readyCount \in ReadyMin .. ReadyMax
           /\ waiting \in [Pids -> Pids \cup {WaitAny}]
           /\ msgSlot \in [Pids -> [to : Pids, from : Pids]]
           /\ unread \in SUBSET Pids
  BY DEF IpcTypeOK

LEMMA CountType ==
    ASSUME IpcTypeOK, NEW n \in Int
    PROVE  ReadyPlus(n) \in ReadyMin .. ReadyMax
  BY ReadyBoundsAssumption DEF ReadyPlus, IpcTypeOK

-----------------------------------------------------------------------------
(* What a step does to the states.  Whoever becomes RUNNING has the CPU     *)
(* from then on, and a BLOCKED process becomes READY in one of four ways.   *)

\* schedule and context_switch on a table in which nobody but the caller is
\* RUNNING: afterwards nobody but the new current process is, and no BLOCKED
\* process of the table has become READY.
LEMMA SwitchStates ==
    ASSUME NEW st \in [Pids -> States], current \in Pids,
           \A r \in Pids \ {current} : st[r] # "RUNNING",
           ScheduleAndSwitch(st)
    PROVE  /\ state' \in [Pids -> States] /\ current' \in Pids
           /\ OneRunning'
           /\ \A r \in Pids : st[r] = "BLOCKED" => state'[r] # "READY"
<1>1. RunningIsCurrent' /\ state' \in [Pids -> States] /\ current' \in Pids
  BY SwitchKeepsOneRunning, SwitchType
<1>2. OneRunning'
  BY <1>1 DEF RunningIsCurrent, OneRunning
<1>3. ASSUME NEW r \in Pids, st[r] = "BLOCKED" PROVE state'[r] # "READY"
  <2>1. PICK q \in Pids : state' = Switched(st, current, q)
    BY DEF ScheduleAndSwitch
  <2>2. state'[r] \in {st[r], "RUNNING"}
    BY <1>3, <2>1, SwitchedTable
  <2> QED
    BY <1>3, <2>2
<1> QED
  BY <1>1, <1>2, <1>3

\* The four ways.
Woken(p) ==
    \/ p \in KillTargets
    \/ waitPid[p] # NotWaiting
    \/ Deliverable(p)

\* What every action of IpcNext owes the states.
StateStep ==
    /\ state' \in [Pids -> States] /\ current' \in Pids
    /\ OneRunning'
    /\ \A p \in Pids : state[p] = "BLOCKED" /\ state'[p] = "READY" => Woken(p)

LEMMA CreateStates ==
    ASSUME IpcTypeOK, OneRunning, NEW c \in Pids, Spawn(c) \/ Fork(c)
    PROVE  StateStep
  BY IpcTypes DEF Spawn, Fork, FirstUnused, StateStep, OneRunning, States

LEMMA YieldStates ==
    ASSUME IpcTypeOK, OneRunning, Yield
    PROVE  StateStep
<1>1. ScheduleAndSwitch(state) /\ \A r \in Pids \ {current} : state[r] # "RUNNING"
  BY DEF Yield, OneRunning
<1> QED
  BY <1>1, IpcTypes, SwitchStates DEF StateStep

LEMMA ExitStates ==
    ASSUME IpcTypeOK, OneRunning, Exit
    PROVE  StateStep
<1> DEFINE dead  == [state EXCEPT ![current] = "ZOMBIE"]
           after == IF WakesParent(current)
                    THEN [dead EXCEPT ![parent[current]] = "READY"] ELSE dead
<1>1. /\ after \in [Pids -> States]
      /\ \A r \in Pids \ {current} : after[r] # "RUNNING"
      /\ \A r \in Pids : state[r] = "BLOCKED" =>
            after[r] = "BLOCKED" \/ r = current \/ waitPid[r] # NotWaiting
      /\ after[current] \in {"ZOMBIE", "READY"}
      /\ after[current] = "READY" => waitPid[current] # NotWaiting
  BY IpcTypes DEF WakesParent, States, OneRunning
<1>2. ScheduleAndSwitch(after)
  BY DEF Exit
<1> HIDE DEF after
<1>3. /\ state' \in [Pids -> States] /\ current' \in Pids /\ OneRunning'
      /\ \A r \in Pids : after[r] = "BLOCKED" => state'[r] # "READY"
  BY <1>1, <1>2, IpcTypes, SwitchStates
<1>4. after[current] = "ZOMBIE" => state'[current] # "READY"
  <2>1. PICK q \in Pids : state' = Switched(after, current, q)
    BY <1>2 DEF ScheduleAndSwitch
  <2>2. after \in [Pids -> States] /\ current \in Pids
    BY <1>1, IpcTypes
  <2>3. /\ state'[q] = "RUNNING"
        /\ q # current => state'[current] = IF after[current] = "RUNNING"
                                            THEN "READY" ELSE after[current]
    BY <2>1, <2>2, SwitchedTable
  <2> QED
    BY <2>3
<1> QED
  BY <1>1, <1>3, <1>4 DEF StateStep, Woken

LEMMA WaitpidStates ==
    ASSUME IpcTypeOK, OneRunning, Waitpid
    PROVE  StateStep
<1>1. PICK t \in WaitTargets : WaitpidReap(t) \/ WaitpidBlock(t) \/ WaitpidFail(t)
  BY DEF Waitpid
<1>2. CASE WaitpidReap(t)
  BY <1>2, IpcTypes DEF WaitpidReap, ZombieChildren, StateStep, OneRunning, States
<1>3. CASE WaitpidBlock(t)
  <2> DEFINE st == [state EXCEPT ![current] = "BLOCKED"]
  <2>1. /\ st \in [Pids -> States]
        /\ \A r \in Pids \ {current} : st[r] # "RUNNING"
        /\ \A r \in Pids : state[r] = "BLOCKED" => st[r] = "BLOCKED"
    BY IpcTypes DEF States, OneRunning
  <2>2. ScheduleAndSwitch(st)
    BY <1>3 DEF WaitpidBlock
  <2> HIDE DEF st
  <2> QED
    BY <2>1, <2>2, IpcTypes, SwitchStates DEF StateStep
<1>4. CASE WaitpidFail(t)
  BY <1>4, IpcTypes DEF WaitpidFail, StateStep, OneRunning
<1> QED
  BY <1>1, <1>2, <1>3, <1>4

LEMMA KillStates ==
    ASSUME IpcTypeOK, OneRunning, NEW k \in KillTargets, KillBlocked(k)
    PROVE  StateStep
  BY IpcTypes, KillTargetsAssumption
     DEF KillBlocked, StateStep, OneRunning, States, Woken

LEMMA SendStates ==
    ASSUME IpcTypeOK, OneRunning, NEW d \in Pids, Send(d)
    PROVE  StateStep
  BY IpcTypes DEF Send, StateStep, OneRunning, States, Woken

\* recv and the second half of call: the caller blocks on the table st.
LEMMA BlockStates ==
    ASSUME IpcTypeOK, NEW st \in [Pids -> States], NEW w, NEW f,
           \A r \in Pids \ {current} : st[r] # "RUNNING",
           BlockInRecv(st, w, f)
    PROVE  /\ state' \in [Pids -> States] /\ current' \in Pids /\ OneRunning'
           /\ \A r \in Pids : st[r] = "BLOCKED" => state'[r] # "READY"
<1> DEFINE blocked == [st EXCEPT ![current] = "BLOCKED"]
<1>1. /\ blocked \in [Pids -> States]
      /\ \A r \in Pids \ {current} : blocked[r] # "RUNNING"
      /\ \A r \in Pids : st[r] = "BLOCKED" => blocked[r] = "BLOCKED"
  BY IpcTypes DEF States
<1>2. ScheduleAndSwitch(blocked)
  BY DEF BlockInRecv
<1> HIDE DEF blocked
<1> QED
  BY <1>1, <1>2, IpcTypes, SwitchStates

LEMMA RecvStates ==
    ASSUME IpcTypeOK, OneRunning, NEW f, RecvNow(f) \/ RecvBlock(f) \/ RecvResume
    PROVE  StateStep
<1>1. CASE RecvNow(f) \/ RecvResume
  BY <1>1, IpcTypes DEF RecvNow, RecvResume, vars, StateStep, OneRunning
<1>2. CASE RecvBlock(f)
  <2>1. BlockInRecv(state, waiting, f) /\ \A r \in Pids \ {current} : state[r] # "RUNNING"
    BY <1>2 DEF RecvBlock, OneRunning
  <2> QED
    BY <2>1, IpcTypes, BlockStates DEF StateStep
<1> QED
  BY <1>1, <1>2

LEMMA CallStates ==
    ASSUME IpcTypeOK, OneRunning, NEW d \in Pids, Call(d)
    PROVE  StateStep
<1> DEFINE st == [state EXCEPT ![d] = "READY"]
           w  == [waiting EXCEPT ![d] = WaitNone]
<1>1. /\ st \in [Pids -> States]
      /\ \A r \in Pids \ {current} : st[r] # "RUNNING"
      /\ \A r \in Pids : state[r] = "BLOCKED" => st[r] = "BLOCKED" \/ r = d
  BY IpcTypes DEF States, OneRunning
<1>2. Deliverable(d) /\ ((state' = st /\ current' = current) \/ BlockInRecv(st, w, d))
  BY DEF Call
<1>3. CASE state' = st /\ current' = current
  BY <1>1, <1>2, <1>3, IpcTypes DEF StateStep, OneRunning, Woken
<1>4. CASE BlockInRecv(st, w, d)
  <2> HIDE DEF st, w
  <2>1. /\ state' \in [Pids -> States] /\ current' \in Pids /\ OneRunning'
        /\ \A r \in Pids : st[r] = "BLOCKED" => state'[r] # "READY"
    BY <1>1, <1>4, BlockStates
  <2> QED
    BY <1>1, <1>2, <2>1 DEF StateStep, Woken
<1> QED
  BY <1>2, <1>3, <1>4

LEMMA EveryStateStep ==
    ASSUME IpcTypeOK, OneRunning, IpcNext
    PROVE  StateStep
<1>1. CASE \E c \in Pids : IpcSpawn(c) \/ IpcFork(c)
  BY <1>1, CreateStates DEF IpcSpawn, IpcFork
<1>2. CASE \E d \in Pids : Send(d) \/ Call(d)
  BY <1>2, SendStates, CallStates
<1>3. CASE \E f \in RecvSources : RecvNow(f) \/ RecvBlock(f)
  BY <1>3, RecvStates
<1>4. CASE RecvResume
  BY <1>4, RecvStates
<1>5. CASE Yield \/ Exit \/ Waitpid \/ \E p \in KillTargets : KillBlocked(p)
  BY <1>5, YieldStates, ExitStates, WaitpidStates, KillStates
<1> QED
  BY <1>1, <1>2, <1>3, <1>4, <1>5 DEF IpcNext

-----------------------------------------------------------------------------
(* Types.                                                                  *)

LEMMA IpcInitInv == IpcInit => IpcInv
  BY IpcConstants, ReadyBoundsAssumption
     DEF IpcInit, Init, IpcInv, IpcTypeOK, OneRunning, UnreadKept, States,
         NotWaiting, WaitNone

\* A slot that delivers to d, or is freed.
LEMMA SlotTypes ==
    ASSUME IpcTypeOK, NEW d \in Pids
    PROVE  /\ Delivered(d) \in [Pids -> [to : Pids, from : Pids]]
           /\ Delivered(d)[d].to = d
           /\ \A p \in Pids \ {d} : Delivered(d)[p] = msgSlot[p]
  BY IpcTypes DEF Delivered

LEMMA TakenTypes ==
    ASSUME IpcTypeOK, NEW slots \in [Pids -> [to : Pids, from : Pids]],
           TakeMessage(slots)
    PROVE  /\ msgSlot' \in [Pids -> [to : Pids, from : Pids]]
           /\ \A p \in Pids \ {current} : msgSlot'[p] = slots[p]
<1>1. current \in Pids /\ 0 \in Pids /\ msgSlot' = [slots EXCEPT ![current].to = 0]
  BY IpcTypes, IpcConstants DEF TakeMessage
<1>2. [slots[current] EXCEPT !.to = 0] \in [to : Pids, from : Pids]
  BY <1>1
<1> QED
  BY <1>1, <1>2

\* The calls of the process table and the messages: types and unread.
LEMMA TableCallInv ==
    ASSUME IpcInv, StateStep,
           \/ \E c \in Pids : IpcSpawn(c) \/ IpcFork(c)
           \/ (Yield \/ Exit \/ Waitpid \/ \E p \in KillTargets : KillBlocked(p)) /\ NoIpc
    PROVE  IpcInv'
<1>t. /\ IpcTypeOK /\ UnreadKept
      /\ state' \in [Pids -> States] /\ current' \in Pids /\ OneRunning'
  BY DEF IpcInv, StateStep
<1>1. ASSUME NEW c \in Pids, IpcSpawn(c) PROVE IpcTypeOK' /\ UnreadKept'
  BY <1>t, <1>1, IpcTypes, CountType DEF IpcSpawn, Spawn, IpcTypeOK, UnreadKept
<1>2. ASSUME NEW c \in Pids, IpcFork(c) PROVE IpcTypeOK' /\ UnreadKept'
  <2>1. /\ parent' = [parent EXCEPT ![c] = current]
        /\ waitPid' = [waitPid EXCEPT ![c] = 0]
        /\ resume' = [resume EXCEPT ![c] = InUser]
        /\ readyCount' = ReadyPlus(1)
        /\ waiting' = [waiting EXCEPT ![c] = waiting[current]]
        /\ unread' = unread \ {c} /\ msgSlot' = msgSlot
    BY <1>2 DEF IpcFork, Fork, NotWaiting
  <2>2. IpcTypeOK'
    BY <1>t, <2>1, IpcTypes, IpcConstants, CountType DEF IpcTypeOK
  <2>3. UnreadKept'
    BY <1>t, <2>1, IpcTypes DEF UnreadKept
  <2> QED
    BY <2>2, <2>3
<1>3. ASSUME Yield \/ Exit \/ Waitpid \/ \E p \in KillTargets : KillBlocked(p)
      PROVE  /\ parent' \in [Pids -> Pids]
             /\ waitPid' \in [Pids -> Pids \cup {AnyChild}]
             /\ resume' \in [Pids -> Pids \cup {AnyChild, InUser, InHalt, InRecv}]
             /\ readyCount' \in ReadyMin .. ReadyMax
  <2>1. CASE Yield
    BY <1>t, <2>1, IpcTypes DEF Yield
  <2>2. CASE Exit
    BY <1>t, <2>2, IpcTypes, CountType DEF Exit
  <2>3. CASE Waitpid
    <3>1. PICK t \in WaitTargets : WaitpidReap(t) \/ WaitpidBlock(t) \/ WaitpidFail(t)
      BY <2>3 DEF Waitpid
    <3> QED
      BY <1>t, <3>1, IpcTypes, CountType, ConstantTypes
         DEF WaitpidReap, WaitpidBlock, WaitpidFail
  <2>4. CASE \E p \in KillTargets : KillBlocked(p)
    BY <1>t, <2>4, IpcTypes, CountType DEF KillBlocked
  <2> QED
    BY <1>3, <2>1, <2>2, <2>3, <2>4
<1>4. ASSUME NoIpc, Yield \/ Exit \/ Waitpid \/ \E p \in KillTargets : KillBlocked(p)
      PROVE  IpcTypeOK' /\ UnreadKept'
  BY <1>t, <1>3, <1>4, IpcTypes DEF NoIpc, ipcVars, IpcTypeOK, UnreadKept
<1> QED
  BY <1>t, <1>1, <1>2, <1>4 DEF IpcInv

LEMMA SendInv ==
    ASSUME IpcInv, StateStep, NEW d \in Pids, Send(d)
    PROVE  IpcInv'
<1>t. /\ IpcTypeOK /\ UnreadKept
      /\ state' \in [Pids -> States] /\ current' \in Pids /\ OneRunning'
  BY DEF IpcInv, StateStep
<1>1. /\ msgSlot' = Delivered(d) /\ waiting' = [waiting EXCEPT ![d] = WaitNone]
      /\ unread' = unread \cup {d} /\ resume' = resume /\ parent' = parent
      /\ waitPid' = waitPid /\ readyCount' = readyCount
  BY DEF Send
<1>2. IpcTypeOK'
  BY <1>t, <1>1, IpcTypes, IpcConstants, SlotTypes DEF IpcTypeOK, WaitNone
<1>3. ASSUME NEW p \in unread' PROVE msgSlot'[p].to = p /\ waiting'[p] # WaitAny
  <2>1. CASE p = d
    <3>1. waiting'[p] = 0
      BY <1>t, <1>1, <2>1, IpcTypes DEF WaitNone
    <3> QED
      BY <1>t, <1>1, <2>1, <3>1, SlotTypes DEF WaitAny
  <2>2. CASE p # d
    <3>1. p \in unread /\ waiting'[p] = waiting[p] /\ msgSlot'[p] = msgSlot[p]
      BY <1>t, <1>1, <1>3, <2>2, IpcTypes, SlotTypes
    <3> QED
      BY <1>t, <3>1 DEF UnreadKept
  <2> QED
    BY <2>1, <2>2
<1> QED
  BY <1>t, <1>2, <1>3 DEF IpcInv, UnreadKept

LEMMA RecvInv ==
    ASSUME IpcInv, StateStep, NEW f \in RecvSources,
           RecvNow(f) \/ RecvBlock(f) \/ RecvResume
    PROVE  IpcInv'
<1>t. /\ IpcTypeOK /\ UnreadKept
      /\ state' \in [Pids -> States] /\ current' \in Pids /\ OneRunning'
  BY DEF IpcInv, StateStep
<1>1. CASE RecvNow(f)
  <2>1. TakeMessage(msgSlot) /\ unread' = unread \ {current}
        /\ waiting' = waiting /\ UNCHANGED vars
    BY <1>1 DEF RecvNow
  <2>2. /\ msgSlot' \in [Pids -> [to : Pids, from : Pids]]
        /\ \A p \in Pids \ {current} : msgSlot'[p] = msgSlot[p]
    BY <1>t, <2>1, IpcTypes, TakenTypes
  <2>3. IpcTypeOK'
    BY <1>t, <2>1, <2>2, IpcTypes DEF IpcTypeOK, vars
  <2>4. UnreadKept'
    BY <1>t, <2>1, <2>2, IpcTypes DEF UnreadKept
  <2> QED
    BY <1>t, <2>3, <2>4 DEF IpcInv
<1>2. CASE RecvBlock(f)
  <2>1. /\ ~HasMessage(msgSlot, f)
        /\ waiting' = [waiting EXCEPT ![current] = f]
        /\ resume' = [resume EXCEPT ![current] = InRecv]
        /\ UNCHANGED <<parent, waitPid, readyCount, msgSlot, unread>>
    BY <1>2 DEF RecvBlock, BlockInRecv
  \* A receiver with an unread message would have found it.
  <2>2. current \in unread => f # WaitAny
    BY <1>t, <2>1, IpcTypes DEF UnreadKept, HasMessage
  <2>3. IpcTypeOK'
    BY <1>t, <2>1, IpcTypes, IpcConstants DEF IpcTypeOK
  <2>4. UnreadKept'
    BY <1>t, <2>1, <2>2, IpcTypes DEF UnreadKept
  <2> QED
    BY <1>t, <2>3, <2>4 DEF IpcInv
<1>3. CASE RecvResume
  BY <1>t, <1>3, IpcTypes DEF RecvResume, IpcInv, IpcTypeOK, UnreadKept
<1> QED
  BY <1>1, <1>2, <1>3

LEMMA CallInv ==
    ASSUME IpcInv, StateStep, NEW d \in Pids, Call(d)
    PROVE  IpcInv'
<1> DEFINE w == [waiting EXCEPT ![d] = WaitNone]
<1>t. /\ IpcTypeOK /\ UnreadKept
      /\ state' \in [Pids -> States] /\ current' \in Pids /\ OneRunning'
  BY DEF IpcInv, StateStep
<1>w. /\ w \in [Pids -> Pids \cup {WaitAny}] /\ w[d] = WaitNone
      /\ \A p \in Pids \ {d} : w[p] = waiting[p]
  BY <1>t, IpcTypes, IpcConstants DEF WaitNone
<1>1. UNCHANGED <<parent, waitPid, readyCount>>
  BY DEF Call
<1>2. CASE /\ TakeMessage(Delivered(d))
           /\ unread' = (unread \cup {d}) \ {current}
           /\ waiting' = w /\ resume' = resume
  <2>1. /\ msgSlot' \in [Pids -> [to : Pids, from : Pids]]
        /\ \A p \in Pids \ {current} : msgSlot'[p] = Delivered(d)[p]
    BY <1>t, <1>2, SlotTypes, TakenTypes
  <2>2. IpcTypeOK'
    <3>1. waiting' = w /\ resume' = resume /\ unread' = (unread \cup {d}) \ {current}
      BY <1>2
    <3>2. unread' \in SUBSET Pids
      BY <1>t, <3>1, IpcTypes
    <3>3. waiting' \in [Pids -> Pids \cup {WaitAny}]
      BY <1>w, <3>1
    <3> QED
      BY <1>t, <1>1, <2>1, <3>1, <3>2, <3>3, IpcTypes DEF IpcTypeOK
  <2>3. UnreadKept'
    BY <1>t, <1>w, <1>2, <2>1, IpcTypes, SlotTypes DEF UnreadKept, WaitNone, WaitAny
  <2> QED
    BY <1>t, <2>2, <2>3 DEF IpcInv
<1>3. CASE /\ msgSlot' = Delivered(d) /\ unread' = unread \cup {d}
           /\ waiting' = [w EXCEPT ![current] = d]
           /\ resume' = [resume EXCEPT ![current] = InRecv]
  <2>1. /\ waiting' \in [Pids -> Pids \cup {WaitAny}]
        /\ waiting'[current] = d
        /\ \A p \in Pids \ {current} : waiting'[p] = w[p]
    BY <1>t, <1>w, <1>3, IpcTypes
  <2>2. IpcTypeOK'
    <3>1. unread' \in SUBSET Pids
      BY <1>t, <1>3, IpcTypes
    <3>2. resume' \in [Pids -> Pids \cup {AnyChild, InUser, InHalt, InRecv}]
      BY <1>t, <1>3, IpcTypes DEF IpcTypeOK
    <3>3. msgSlot' \in [Pids -> [to : Pids, from : Pids]]
      BY <1>t, <1>3, SlotTypes
    <3> QED
      BY <1>t, <1>1, <2>1, <3>1, <3>2, <3>3, IpcTypes DEF IpcTypeOK
  <2>3. UnreadKept'
    <3>1. /\ unread' = unread \cup {d} /\ unread \subseteq Pids /\ current \in Pids
          /\ msgSlot'[d].to = d /\ \A p \in Pids \ {d} : msgSlot'[p] = msgSlot[p]
      BY <1>t, <1>3, IpcTypes, SlotTypes
    <3>2. ASSUME NEW p \in unread' PROVE msgSlot'[p].to = p
      BY <1>t, <3>1 DEF UnreadKept
    <3>3. ASSUME NEW p \in unread' PROVE waiting'[p] # WaitAny
      <4>1. CASE p = current
        BY <2>1, <4>1, IpcConstants DEF WaitAny
      <4>2. CASE p # current /\ p = d
        BY <1>w, <2>1, <4>2 DEF WaitNone, WaitAny
      <4>3. CASE p # current /\ p # d
        BY <1>t, <1>w, <2>1, <3>1, <4>3 DEF UnreadKept
      <4> QED
        BY <4>1, <4>2, <4>3
    <3> QED
      BY <3>2, <3>3 DEF UnreadKept
  <2> QED
    BY <1>t, <2>2, <2>3 DEF IpcInv
<1> QED
  BY <1>2, <1>3 DEF Call, BlockInRecv

LEMMA IpcNextInv == IpcInv /\ [IpcNext]_allVars => IpcInv'
<1> SUFFICES ASSUME IpcInv, [IpcNext]_allVars PROVE IpcInv'
  OBVIOUS
<1>0. CASE UNCHANGED allVars
  BY <1>0 DEF allVars, vars, ipcVars, IpcInv, IpcTypeOK, OneRunning, UnreadKept
<1>s. CASE IpcNext
  <2>0. StateStep
    BY <1>s, EveryStateStep DEF IpcInv
  <2>1. CASE \E d \in Pids : Send(d) \/ Call(d)
    BY <2>0, <2>1, SendInv, CallInv
  <2>2. CASE \E f \in RecvSources : RecvNow(f) \/ RecvBlock(f)
    BY <2>0, <2>2, RecvInv
  <2>3. CASE RecvResume
    <3>1. /\ IpcTypeOK /\ UnreadKept
          /\ state' \in [Pids -> States] /\ current' \in Pids /\ OneRunning'
      BY <2>0 DEF IpcInv, StateStep
    <3> QED
      BY <2>3, <3>1, IpcTypes DEF RecvResume, IpcInv, IpcTypeOK, UnreadKept
  <2>4. CASE \/ \E c \in Pids : IpcSpawn(c) \/ IpcFork(c)
             \/ (Yield \/ Exit \/ Waitpid \/ \E p \in KillTargets : KillBlocked(p)) /\ NoIpc
    BY <2>0, <2>4, TableCallInv
  <2> QED
    BY <1>s, <2>1, <2>2, <2>3, <2>4 DEF IpcNext
<1> QED
  BY <1>0, <1>s

LEMMA IpcInvariance == IpcSpec => []IpcInv
<1> QED
  BY IpcInitInv, IpcNextInv, PTL DEF IpcSpec

-----------------------------------------------------------------------------
(* The properties.                                                         *)

\* The fields of every PCB and message slot keep their types, the counter its
\* bounds (ipc.asm 41-45), for any number of slots.
THEOREM MessagesTyped == IpcSpec => []IpcTypeOK
<1>1. IpcInv => IpcTypeOK
  BY DEF IpcInv
<1> QED
  BY IpcInvariance, <1>1, PTL

\* No slot but that of current_pid is marked RUNNING, although ipc_send writes
\* READY into any slot (ipc.asm 123-125).
THEOREM SendKeepsCpu == IpcSpec => []OneRunning
<1>1. IpcInv => OneRunning
  BY DEF IpcInv
<1> QED
  BY IpcInvariance, <1>1, PTL

\* A message that was accepted is in its slot until it is read, and nobody but
\* a sender asked for by name can write over it (ipc.asm 96-125, 186-206).
THEOREM MessagesAreKept == IpcSpec => []UnreadKept
<1>1. IpcInv => UnreadKept
  BY DEF IpcInv
<1> QED
  BY IpcInvariance, <1>1, PTL

\* A receiver that waits for one partner is woken by it, a kill, or the trace
\* of an earlier waitpid, and by nothing else (ipc.asm 80-94, 274-280).
THEOREM PartnerWakes == IpcSpec => OnlyPartnerWakes
<1> DEFINE Awaited == \A p \in Pids \ KillTargets :
              (/\ state[p] = "BLOCKED" /\ resume[p] = InRecv
               /\ waitPid[p] = NotWaiting
               /\ state'[p] = "READY") => waiting[p] \in {WaitAny, current}
<1>1. IpcInv /\ IpcNext => Awaited
  BY EveryStateStep DEF IpcInv, StateStep, Woken, Deliverable
<1>2. IpcInv /\ [IpcNext]_allVars => [Awaited]_allVars
  BY <1>1
<1> QED
  BY <1>2, IpcInvariance, PTL DEF IpcSpec, OnlyPartnerWakes
=============================================================================
