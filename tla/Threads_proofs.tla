--------------------------- MODULE Threads_proofs ---------------------------
(***************************************************************************)
(* Proofs about Threads, for every number of slots and of threads.          *)
(*                                                                          *)
(* OneRunning holds whatever is joined.  OwnContext and ExitedNeverRuns     *)
(* hold until a live thread is joined, and rest on what the table then is   *)
(* (Cooperative): every slot on the CPU or on its way to it but the         *)
(* kernel's is a thread's, so that thread_exit never takes the path of      *)
(* exit_process; the kernel's own slot is always one of them, so that       *)
(* `schedule' never hands the CPU back to the thread that exits; and no two *)
(* such slots have the same pid.                                            *)
(***************************************************************************)
EXTENDS Threads, TLAPS

\* Slots that have the CPU or will get it.
Live == {p \in Pids : state[p] \in {"READY", "RUNNING"}}

Cooperative ==
    /\ state[current] = "RUNNING"
    /\ 0 \in Live /\ pcbPid[0] = 0 /\ 0 \notin isThread
    /\ \A p \in Live : p = 0 \/ (p \in isThread /\ pcbPid[p] # 0)
    /\ \A p \in Pids : pcbPid[p] < nextPid /\ joiner[p] = NoJoiner
    /\ \A p, q \in Live : pcbPid[p] = pcbPid[q] => p = q
    /\ \A p \in Live : pcbPid[p] \notin finished
    /\ \A n \in finished : n < nextPid
    /\ \A p \in Live \ {current} : saved[p] = pcbPid[p]
    /\ running = pcbPid[current]

Inv == TypeOK /\ OneRunning /\ (~joinedLive => Cooperative)

-----------------------------------------------------------------------------
(* Constants, types and the scheduling primitives.                         *)

LEMMA ThreadConstants ==
    /\ Pids \subseteq Nat /\ 0 \in Pids
    /\ MaxPid \in Nat \ {0} /\ Programs \subseteq Nat /\ 0 \in Programs
    /\ Halt \notin Programs
  BY MaxProcsAssumption, MaxPidAssumption DEF Pids, Programs, Halt

LEMMA ThreadTypes ==
    ASSUME TypeOK
    PROVE  /\ state \in [Pids -> States]
           /\ isThread \in SUBSET Pids /\ joined \in SUBSET Pids
           /\ detached \in SUBSET Pids
           /\ pcbPid \in [Pids -> Programs] /\ joiner \in [Pids -> Pids]
           /\ saved \in [Pids -> Programs \cup {Halt}]
           /\ current \in Pids /\ nextPid \in 1 .. MaxPid + 1
           /\ running \in Programs \cup {Halt}
           /\ finished \in SUBSET Programs /\ joinedLive \in BOOLEAN
  BY DEF TypeOK

\* `schedule' names a READY slot, or the current one when there is none.
LEMMA ScheduledSlot ==
    ASSUME NEW st, NEW cur, NEW q, Selects(st, cur, q)
    PROVE  st[q] = "READY" \/ (q = cur /\ \A r \in Pids : st[r] # "READY")
  BY DEF Selects

\* context_switch leaves every slot but the two as it was.
LEMMA SwitchedSlots ==
    ASSUME NEW st \in [Pids -> States], NEW cur \in Pids, NEW q \in Pids
    PROVE  /\ Switched(st, cur, q) \in [Pids -> States]
           /\ Switched(st, cur, q)[q] = "RUNNING"
           /\ q # cur => Switched(st, cur, q)[cur] =
                            IF st[cur] = "RUNNING" THEN "READY" ELSE st[cur]
           /\ \A p \in Pids \ {cur, q} : Switched(st, cur, q)[p] = st[p]
  BY DEF Switched, States

\* The table thread_exit leaves: the joiner is READY, the caller gone.
LEMMA LeftTable ==
    ASSUME TypeOK, NEW frees \in BOOLEAN
    PROVE  /\ Left(frees) \in [Pids -> States]
           /\ Left(frees)[current] \in {"UNUSED", "ZOMBIE"}
           /\ \A p \in Pids \ {current} : Left(frees)[p] \in {state[p], "READY"}
           /\ (\A p \in Pids : joiner[p] = NoJoiner) =>
                 \A p \in Pids \ {current} : Left(frees)[p] = state[p]
  BY ThreadTypes DEF Left, WakesJoiner, States

-----------------------------------------------------------------------------
(* The invariant holds at the start and is kept by every action.           *)

LEMMA InitInv == Init => Inv
<1> SUFFICES ASSUME Init PROVE Inv
  OBVIOUS
<1>1. /\ MaxPid + 1 \in Nat /\ 1 \in 1 .. MaxPid + 1 /\ 0 \in Pids /\ 0 \in Programs
  BY ThreadConstants
<1>2. TypeOK
  BY <1>1 DEF Init, TypeOK, States, NoJoiner
<1>3. OneRunning
  BY <1>1 DEF Init, OneRunning
<1>4. Live = {0}
  BY <1>1 DEF Init, Live
<1>5. Cooperative
  BY <1>1, <1>4 DEF Init, Cooperative
<1> QED
  BY <1>2, <1>3, <1>5 DEF Inv

LEMMA CreateInv ==
    ASSUME Inv, NEW c \in Pids, ThreadCreate(c)
    PROVE  Inv'
<1>t. /\ TypeOK /\ OneRunning /\ state[c] = "UNUSED"
      /\ nextPid \in Programs /\ nextPid # 0 /\ nextPid + 1 \in 1 .. MaxPid + 1
  BY ThreadTypes, ThreadConstants DEF Inv, ThreadCreate, FirstUnused, Programs
<1>1. TypeOK'
  BY <1>t, ThreadTypes, ThreadConstants DEF ThreadCreate, TypeOK, States, NoJoiner
<1>2. OneRunning'
  BY <1>t, ThreadTypes DEF ThreadCreate, OneRunning
<1>3. ASSUME ~joinedLive' PROVE Cooperative'
  <2>1. Cooperative /\ c # current /\ c # 0
    BY <1>t, <1>3 DEF ThreadCreate, Inv, Cooperative, Live
  <2>2. Live' = Live \cup {c} /\ c \notin Live
    BY <1>t, ThreadTypes DEF ThreadCreate, Live
  <2>3. /\ pcbPid'[c] = nextPid /\ saved'[c] = nextPid /\ joiner'[c] = NoJoiner
        /\ \A p \in Pids \ {c} : /\ pcbPid'[p] = pcbPid[p]
                                 /\ saved'[p] = saved[p] /\ joiner'[p] = joiner[p]
                                 /\ state'[p] = state[p]
        /\ nextPid' = nextPid + 1 /\ isThread' = isThread \cup {c}
        /\ UNCHANGED <<current, running, finished>>
    BY <1>t, ThreadTypes DEF ThreadCreate
  <2>4. current \in Pids /\ \A p \in Pids : pcbPid[p] \in Nat
    BY <1>t, ThreadTypes, ThreadConstants
  <2>5. \A p \in Pids \ {c} : pcbPid'[p] < nextPid
    BY <2>1, <2>3 DEF Cooperative
  <2>6. nextPid \in Nat /\ finished \subseteq Nat /\ Live \subseteq Pids
    BY <1>t, ThreadTypes, ThreadConstants DEF Live
  <2>7. \A p \in Pids : pcbPid'[p] < nextPid' /\ joiner'[p] = NoJoiner
    BY <2>1, <2>3, <2>4, <2>6 DEF Cooperative
  <2>8. \A p, q \in Live' : pcbPid'[p] = pcbPid'[q] => p = q
    BY <2>1, <2>2, <2>3, <2>4, <2>5, <2>6 DEF Cooperative
  <2>9. \A p \in Live' : pcbPid'[p] \notin finished'
    BY <2>1, <2>2, <2>3, <2>6 DEF Cooperative
  <2>10. \A n \in finished' : n < nextPid'
    BY <2>1, <2>3, <2>6 DEF Cooperative
  <2>11. \A p \in Live' : p = 0 \/ (p \in isThread' /\ pcbPid'[p] # 0)
    BY <1>t, <2>1, <2>2, <2>3, <2>6 DEF Cooperative
  <2>12. \A p \in Live' \ {current'} : saved'[p] = pcbPid'[p]
    BY <2>1, <2>2, <2>3, <2>6 DEF Cooperative
  <2>13. /\ state'[current'] = "RUNNING" /\ running' = pcbPid'[current']
         /\ 0 \in Live' /\ pcbPid'[0] = 0 /\ 0 \notin isThread'
    BY <2>1, <2>2, <2>3, <2>4, ThreadConstants DEF Cooperative
  <2> QED
    BY <2>7, <2>8, <2>9, <2>10, <2>11, <2>12, <2>13 DEF Cooperative
<1> QED
  BY <1>1, <1>2, <1>3 DEF Inv

LEMMA YieldInv ==
    ASSUME Inv, ThreadYield
    PROVE  Inv'
<1>t. TypeOK /\ OneRunning /\ running # Halt
  BY DEF Inv, ThreadYield
<1>1. PICK q \in Pids \ {current} :
          Selects(state, current, q) /\ SwitchTo(state, q, running)
  BY DEF ThreadYield
<1>2. state[q] = "READY"
  BY <1>1, ScheduledSlot
<1>3. /\ state' \in [Pids -> States] /\ state'[q] = "RUNNING"
      /\ state'[current] = IF state[current] = "RUNNING" THEN "READY" ELSE state[current]
      /\ \A p \in Pids \ {current, q} : state'[p] = state[p]
  BY <1>t, <1>1, ThreadTypes, SwitchedSlots DEF SwitchTo
<1>4. /\ saved' \in [Pids -> Programs \cup {Halt}]
      /\ saved'[current] = running
      /\ \A p \in Pids \ {current} : saved'[p] = saved[p]
      /\ running' = saved[q] /\ current' = q
      /\ UNCHANGED <<isThread, pcbPid, joined, detached, joiner, nextPid,
                     finished, joinedLive>>
  BY <1>t, <1>1, ThreadTypes DEF SwitchTo, ThreadYield
<1>5. TypeOK'
  BY <1>t, <1>3, <1>4, ThreadTypes DEF TypeOK
<1>6. OneRunning'
  BY <1>t, <1>3, <1>4, ThreadTypes DEF OneRunning
<1>7. ASSUME ~joinedLive' PROVE Cooperative'
  <2>1. Cooperative
    BY <1>4, <1>7 DEF Inv
  <2>2. Live' = Live /\ q \in Live
    BY <1>2, <1>3, <1>t, <2>1, ThreadTypes DEF Live, Cooperative
  <2>3. \A p \in Live' \ {current'} : saved'[p] = pcbPid'[p]
    BY <1>t, <1>4, <2>1, <2>2, ThreadTypes DEF Cooperative, Live
  <2>4. running' = pcbPid'[current'] /\ state'[current'] = "RUNNING"
    BY <1>1, <1>3, <1>4, <2>1, <2>2 DEF Cooperative
  <2> QED
    BY <1>4, <2>1, <2>2, <2>3, <2>4 DEF Cooperative
<1> QED
  BY <1>5, <1>6, <1>7 DEF Inv

LEMMA ExitInv ==
    ASSUME Inv, ThreadExit
    PROVE  Inv'
<1> DEFINE frees == current \in detached \/ WakesJoiner
           left  == Left(frees)
<1>t. /\ TypeOK /\ OneRunning /\ running \in Programs /\ current \in isThread
      /\ frees \in BOOLEAN
  BY ThreadTypes DEF Inv, ThreadExit, WakesJoiner
<1>1. PICK q \in Pids : /\ Selects(left, current, q)
                        /\ state' = [left EXCEPT ![q] = "RUNNING"]
                        /\ current' = q /\ running' = saved[q]
  BY DEF ThreadExit
<1>2. /\ isThread' = IF frees THEN isThread \ {current} ELSE isThread
      /\ finished' = finished \cup {running}
      /\ UNCHANGED <<pcbPid, joined, detached, joiner, saved, nextPid, joinedLive>>
  BY DEF ThreadExit
<1>3. /\ left \in [Pids -> States] /\ left[current] \in {"UNUSED", "ZOMBIE"}
      /\ \A p \in Pids \ {current} : left[p] \in {state[p], "READY"}
      /\ (\A p \in Pids : joiner[p] = NoJoiner) =>
            \A p \in Pids \ {current} : left[p] = state[p]
  BY <1>t, LeftTable
<1>4. left[q] = "READY" \/ (q = current /\ \A r \in Pids : left[r] # "READY")
  BY <1>1, ScheduledSlot
<1> HIDE DEF left, frees
<1>5. /\ state' \in [Pids -> States] /\ state'[q] = "RUNNING"
      /\ \A p \in Pids \ {q} : state'[p] = left[p]
  BY <1>1, <1>3 DEF States
<1>6. TypeOK'
  BY <1>t, <1>1, <1>2, <1>5, ThreadTypes DEF TypeOK
<1>7. OneRunning'
  BY <1>t, <1>1, <1>3, <1>5, ThreadTypes DEF OneRunning
<1>8. ASSUME ~joinedLive' PROVE Cooperative'
  <2>1. Cooperative /\ current \in Pids /\ Live \subseteq Pids
    BY <1>t, <1>2, <1>8, ThreadTypes DEF Inv, Live
  \* The kernel's slot is READY: `schedule' finds somebody else.
  <2>2. /\ \A p \in Pids \ {current} : left[p] = state[p]
        /\ 0 # current /\ left[0] = "READY"
    BY <1>t, <1>3, <2>1, ThreadConstants DEF Cooperative, Live, OneRunning
  <2>3. q # current /\ state[q] = "READY"
    BY <1>3, <1>4, <2>2, ThreadConstants
  <2>4. Live' = Live \ {current} /\ q \in Live /\ current \in Live
    BY <1>3, <1>5, <2>1, <2>2, <2>3 DEF Live, Cooperative
  <2>5. pcbPid[current] < nextPid /\ running = pcbPid[current]
    BY <2>1 DEF Cooperative
  <2>6. \A n \in finished' : n < nextPid'
    BY <1>2, <2>1, <2>5 DEF Cooperative
  <2>7. \A p \in Live' : pcbPid'[p] \notin finished'
    BY <1>2, <2>1, <2>4, <2>5 DEF Cooperative
  <2>8. \A p \in Live' : p = 0 \/ (p \in isThread' /\ pcbPid'[p] # 0)
    BY <1>2, <2>1, <2>4 DEF Cooperative
  <2>9. running' = pcbPid'[current'] /\ state'[current'] = "RUNNING"
    BY <1>1, <1>2, <1>5, <2>1, <2>3, <2>4 DEF Cooperative
  <2>10. 0 \in Live' /\ pcbPid'[0] = 0 /\ 0 \notin isThread'
    BY <1>2, <2>1, <2>2, <2>4 DEF Cooperative
  <2> QED
    BY <1>1, <1>2, <2>1, <2>4, <2>6, <2>7, <2>8, <2>9, <2>10 DEF Cooperative
<1> QED
  BY <1>6, <1>7, <1>8 DEF Inv

\* thread_exit on a slot that is no thread's happens only after a live thread
\* was joined.
LEMMA MainExitInv ==
    ASSUME Inv, MainExit
    PROVE  Inv'
<1> DEFINE dead == [state EXCEPT ![current] = "ZOMBIE"]
<1>t. TypeOK /\ OneRunning /\ running \in Programs
  BY ThreadTypes DEF Inv, MainExit
<1>1. PICK q \in Pids : Selects(dead, current, q) /\ SwitchTo(dead, q, Halt)
  BY DEF MainExit
<1>2. /\ dead \in [Pids -> States] /\ dead[current] = "ZOMBIE"
      /\ \A p \in Pids \ {current} : dead[p] = state[p]
  BY <1>t, ThreadTypes DEF States
<1> HIDE DEF dead
<1>3. /\ state' \in [Pids -> States] /\ current' = q /\ state'[q] = "RUNNING"
      /\ q # current => state'[current] = dead[current]
      /\ \A p \in Pids \ {current, q} : state'[p] = dead[p]
  <2>1. state' = Switched(dead, current, q) /\ current' = q /\ current \in Pids
    BY <1>t, <1>1, ThreadTypes DEF SwitchTo
  <2> QED
    BY <1>2, <2>1, SwitchedSlots
<1>4. /\ saved' = [saved EXCEPT ![current] = Halt]
      /\ running' = IF q = current THEN Halt ELSE saved[q]
      /\ finished' = finished \cup {running}
      /\ UNCHANGED <<isThread, pcbPid, joined, detached, joiner, nextPid, joinedLive>>
  BY <1>1 DEF SwitchTo, MainExit
<1>5. saved' \in [Pids -> Programs \cup {Halt}] /\ running' \in Programs \cup {Halt}
  BY <1>t, <1>4, ThreadTypes
<1>6. TypeOK'
  BY <1>t, <1>3, <1>4, <1>5, ThreadTypes DEF TypeOK
<1>7. OneRunning'
  BY <1>t, <1>2, <1>3, ThreadTypes DEF OneRunning
<1>8. joinedLive
  <2>1. SUFFICES ASSUME ~joinedLive PROVE FALSE
    OBVIOUS
  <2>2. Cooperative /\ current \in Live
    BY <1>t, <2>1, ThreadTypes DEF Inv, Cooperative, Live
  <2>3. current # 0
    BY <2>2 DEF MainExit, Cooperative
  <2> QED
    BY <2>2, <2>3 DEF MainExit, Cooperative
<1> QED
  BY <1>4, <1>6, <1>7, <1>8 DEF Inv

LEMMA JoinInv ==
    ASSUME Inv, NEW t \in Pids, JoinExited(t) \/ JoinLive(t)
    PROVE  Inv'
<1>t. TypeOK /\ OneRunning
  BY DEF Inv
<1>1. CASE JoinExited(t)
  <2>1. /\ state[t] = "ZOMBIE" /\ state' = [state EXCEPT ![t] = "UNUSED"]
        /\ isThread' = isThread \ {t} /\ joined' = joined \cup {t}
        /\ UNCHANGED <<pcbPid, detached, joiner, saved, current, nextPid,
                       running, finished, joinedLive>>
    BY <1>1 DEF JoinExited, Collect
  <2>2. TypeOK'
    BY <1>t, <2>1, ThreadTypes DEF TypeOK, States
  <2>3. OneRunning'
    BY <1>t, <2>1, ThreadTypes DEF OneRunning
  <2>4. ASSUME ~joinedLive' PROVE Cooperative'
    <3>1. Cooperative
      BY <2>1, <2>4 DEF Inv
    <3>2. Live' = Live /\ t \notin Live
      BY <1>t, <2>1, ThreadTypes DEF Live
    <3>3. state'[current'] = "RUNNING"
      BY <1>t, <2>1, <3>1, ThreadTypes DEF Cooperative
    <3> QED
      BY <2>1, <3>1, <3>2, <3>3 DEF Cooperative
  <2> QED
    BY <2>2, <2>3, <2>4 DEF Inv
<1>2. CASE JoinLive(t)
  <2> DEFINE blocked == [state EXCEPT ![current] = "BLOCKED"]
  <2>1. /\ joiner' = [joiner EXCEPT ![t] = current]
        /\ \E q \in Pids : current' = q
        /\ state' = [blocked EXCEPT ![t] = "UNUSED"]
        /\ isThread' = isThread \ {t} /\ joined' = joined \cup {t}
        /\ joinedLive' = TRUE
        /\ UNCHANGED <<pcbPid, detached, saved, nextPid, running, finished>>
    BY <1>2 DEF JoinLive, Collect
  <2>2. /\ blocked \in [Pids -> States]
        /\ \A p \in Pids : blocked[p] # "RUNNING"
    BY <1>t, ThreadTypes DEF States, OneRunning
  <2> HIDE DEF blocked
  <2>3. TypeOK'
    BY <1>t, <2>1, <2>2, ThreadTypes DEF TypeOK, States
  <2>4. OneRunning'
    BY <2>1, <2>2 DEF OneRunning
  <2> QED
    BY <2>1, <2>3, <2>4 DEF Inv
<1> QED
  BY <1>1, <1>2

LEMMA DetachInv ==
    ASSUME Inv, NEW t, ThreadDetach(t)
    PROVE  Inv'
<1>1. /\ t \in isThread /\ detached' = detached \cup {t}
      /\ UNCHANGED <<state, isThread, pcbPid, joined, joiner, saved, current,
                     nextPid, running, finished, joinedLive>>
  BY DEF ThreadDetach
<1>2. TypeOK'
  BY <1>1, ThreadTypes DEF Inv, TypeOK
<1> QED
  BY <1>1, <1>2 DEF Inv, OneRunning, Cooperative, Live

LEMMA NextInv == Inv /\ [Next]_vars => Inv'
<1> SUFFICES ASSUME Inv, [Next]_vars PROVE Inv'
  OBVIOUS
<1>1. CASE UNCHANGED vars
  BY <1>1 DEF vars, Inv, TypeOK, OneRunning, Cooperative, Live
<1>2. CASE \E c \in Pids : ThreadCreate(c)
  BY <1>2, CreateInv
<1>3. CASE ThreadYield \/ ThreadExit \/ MainExit
  BY <1>3, YieldInv, ExitInv, MainExitInv
<1>4. CASE \E t \in 1 .. nextPid - 1 : ThreadJoin(t) \/ ThreadDetach(t)
  BY <1>4, JoinInv, DetachInv DEF ThreadJoin
<1> QED
  BY <1>1, <1>2, <1>3, <1>4 DEF Next

LEMMA Invariance == Spec => []Inv
  BY InitInv, NextInv, PTL DEF Spec

-----------------------------------------------------------------------------
(* The properties.                                                         *)

\* Every field of the thread table keeps its type: in particular a joiner is
\* always a slot and current_pid never leaves the table (process.asm
\* 1241-1309, 1423-1490).
THEOREM ThreadsTyped == Spec => []TypeOK
<1>1. Inv => TypeOK
  BY DEF Inv
<1> QED
  BY Invariance, <1>1, PTL

\* No slot but that of current_pid is marked RUNNING, whoever joins whom,
\* although thread_join and thread_exit move current_pid without
\* context_switch (process.asm 1301-1309, 1483-1487).
THEOREM ThreadsOneRunning == Spec => []OneRunning
<1>1. Inv => OneRunning
  BY DEF Inv
<1> QED
  BY Invariance, <1>1, PTL

\* Until a live thread is joined, the CPU executes the program of current_pid
\* and every READY slot holds its own registers (process.asm 642-718).
THEOREM ThreadsOwnContext == Spec => []OwnContext
<1>1. Inv => OwnContext
  <2>1. ASSUME TypeOK, Cooperative, NEW p \in Pids, state[p] = "READY"
        PROVE  saved[p] = pcbPid[p]
    BY <2>1 DEF Cooperative, Live
  <2> QED
    BY <2>1 DEF Inv, OwnContext, Cooperative
<1> QED
  BY Invariance, <1>1, PTL

\* Until a live thread is joined, a program that has called thread_exit is
\* never executed again (process.asm 1241).
THEOREM ThreadsExitedNeverRun == Spec => []ExitedNeverRuns
<1>1. Inv => ExitedNeverRuns
  BY ThreadTypes DEF Inv, ExitedNeverRuns, Cooperative, Live
<1> QED
  BY Invariance, <1>1, PTL
=============================================================================
