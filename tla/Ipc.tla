-------------------------------- MODULE Ipc --------------------------------
(***************************************************************************)
(* Message passing between processes, kernel/ipc.asm, on top of the process *)
(* table: send, recv, call and reply, interleaved with every system call of *)
(* ProcessTable.                                                            *)
(*                                                                          *)
(* There is one message slot per process (msg_buffers).  A send succeeds    *)
(* only when the receiver's PCB_WAITING says that it waits for the sender   *)
(* or for anybody; it then fills the slot and makes the receiver READY.  A  *)
(* process switched out inside ipc_recv goes on behind its context_switch.  *)
(*                                                                          *)
(* The 24 bytes of a message are not modelled, only whether they have been  *)
(* copied to the receiver's buffer.                                         *)
(***************************************************************************)
EXTENDS ProcessTable

CONSTANT RecvSources    \* source arguments of recv (-1 = any)

ASSUME RecvSourcesAssumption == RecvSources \subseteq Pids \cup {-1}

WaitNone == 0     \* WAIT_NONE
WaitAny  == -1    \* WAIT_ANY
InRecv   == -4    \* resume point: ipc_recv, after its context_switch

VARIABLES
    waiting,    \* PCB_WAITING of every slot
    msgSlot,    \* msg_buffers: MSG_RECEIVER and MSG_SENDER of every slot
    unread      \* history: processes to which a message was sent (the send
                \* returned 0) whose contents they do not have yet

ipcVars == <<waiting, msgSlot, unread>>
allVars == <<vars, ipcVars>>

IpcTypeOK ==
    /\ state \in [Pids -> States]
    /\ parent \in [Pids -> Pids]
    /\ waitPid \in [Pids -> Pids \cup {AnyChild}]
    /\ resume \in [Pids -> Pids \cup {AnyChild, InUser, InHalt, InRecv}]
    /\ current \in Pids
    /\ readyCount \in ReadyMin .. ReadyMax
    /\ waiting \in [Pids -> Pids \cup {WaitAny}]
    /\ msgSlot \in [Pids -> [to : Pids, from : Pids]]
    /\ unread \in SUBSET Pids

\* msg_buffers is in .bss: all zero, which also reads as "for process 0".
IpcInit ==
    /\ Init
    /\ waiting = [p \in Pids |-> WaitNone]
    /\ msgSlot = [p \in Pids |-> [to |-> 0, from |-> 0]]
    /\ unread = {}

-----------------------------------------------------------------------------
(* The system calls of the process table.  Only the creators touch the      *)
(* fields of this module: fork copies PCB_WAITING with the rest of the PCB, *)
(* create_process leaves the old value of the slot in place.                *)

IpcSpawn(c) ==
    /\ Spawn(c)
    /\ unread' = unread \ {c}   \* c is a new program
    /\ UNCHANGED <<waiting, msgSlot>>

IpcFork(c) ==
    /\ Fork(c)
    /\ waiting' = [waiting EXCEPT ![c] = waiting[current]]
    /\ unread' = unread \ {c}
    /\ UNCHANGED msgSlot

NoIpc == UNCHANGED ipcVars

-----------------------------------------------------------------------------
(* send and recv.                                                          *)

\* Faulty variant: whoever the destination waits for.
WaitsAtAll(d) == waiting[d] # WaitNone

\* ipc_send's test of the destination's PCB_WAITING.
Deliverable(d) == /\ waiting[d] # WaitNone
                  /\ waiting[d] \in {WaitAny, current}

\* .send_deliver: the slot is filled and the destination made READY, whatever
\* it was doing.
Delivered(d) == [msgSlot EXCEPT ![d] = [to |-> d, from |-> current]]

\* Faulty variant: the destination goes on waiting.
SendStillAwaited(d) ==
    /\ InProgram
    /\ Deliverable(d)
    /\ msgSlot' = Delivered(d)
    /\ state' = [state EXCEPT ![d] = "READY"]
    /\ unread' = unread \cup {d}
    /\ UNCHANGED <<parent, waitPid, resume, current, readyCount, waiting>>

\* Faulty variant: the destination is marked RUNNING.
SendRuns(d) ==
    /\ InProgram
    /\ Deliverable(d)
    /\ msgSlot' = Delivered(d)
    /\ waiting' = [waiting EXCEPT ![d] = WaitNone]
    /\ state' = [state EXCEPT ![d] = "RUNNING"]
    /\ unread' = unread \cup {d}
    /\ UNCHANGED <<parent, waitPid, resume, current, readyCount>>

\* ipc_send, and ipc_reply, which is a jump to it.  It returns -1 without any
\* effect when the destination is not waiting ("TODO: Implement blocking send").
Send(d) ==
    /\ InProgram
    /\ Deliverable(d)
    /\ msgSlot' = Delivered(d)
    /\ waiting' = [waiting EXCEPT ![d] = WaitNone]
    /\ state' = [state EXCEPT ![d] = "READY"]
    /\ unread' = unread \cup {d}
    /\ UNCHANGED <<parent, waitPid, resume, current, readyCount>>

\* ipc_recv looks for a message in the caller's slot: one whose MSG_RECEIVER
\* is the caller and, if the caller asked for one sender, that is from it.
HasMessage(slots, f) ==
    /\ slots[current].to = current
    /\ f = WaitAny \/ slots[current].from = f

\* .recv_deliver: the message is copied and the slot is free again.  (The
\* sender that the call returns is read from slot 0, whoever calls: the copy
\* loop has left 0 in the register.)
TakeMessage(slots) == msgSlot' = [slots EXCEPT ![current].to = 0]

\* .recv_block, on the table st: wait for f and give up the CPU.
BlockInRecv(st, w, f) ==
    /\ waiting' = [w EXCEPT ![current] = f]
    /\ resume' = [resume EXCEPT ![current] = InRecv]
    /\ ScheduleAndSwitch([st EXCEPT ![current] = "BLOCKED"])

RecvNow(f) ==
    /\ InProgram
    /\ HasMessage(msgSlot, f)
    /\ TakeMessage(msgSlot)
    /\ unread' = unread \ {current}
    /\ UNCHANGED <<vars, waiting>>

RecvBlock(f) ==
    /\ InProgram
    /\ ~HasMessage(msgSlot, f)
    /\ BlockInRecv(state, waiting, f)
    /\ UNCHANGED <<parent, waitPid, readyCount, msgSlot, unread>>

\* Back from context_switch: return the sender of what is in the slot.  The
\* buffer is not written and MSG_RECEIVER stays as it is.
RecvResume ==
    /\ resume[current] = InRecv
    /\ resume' = [resume EXCEPT ![current] = InUser]
    /\ UNCHANGED <<state, parent, waitPid, current, readyCount,
                   waiting, msgSlot, unread>>

\* ipc_call: send, then recv from the same process, in one system call.
Call(d) ==
    /\ InProgram
    /\ Deliverable(d)
    /\ LET st    == [state EXCEPT ![d] = "READY"]
           w     == [waiting EXCEPT ![d] = WaitNone]
           slots == Delivered(d)
       IN  \/ /\ HasMessage(slots, d)
              /\ TakeMessage(slots)
              /\ unread' = (unread \cup {d}) \ {current}
              /\ state' = st
              /\ waiting' = w
              /\ UNCHANGED <<resume, current>>
           \/ /\ ~HasMessage(slots, d)
              /\ BlockInRecv(st, w, d)
              /\ msgSlot' = slots
              /\ unread' = unread \cup {d}
    /\ UNCHANGED <<parent, waitPid, readyCount>>

IpcNext ==
    \/ \E c \in Pids : IpcSpawn(c)
    \/ \E c \in Pids : IpcFork(c)
    \/ Yield /\ NoIpc
    \/ Exit /\ NoIpc
    \/ Waitpid /\ NoIpc
    \/ \E p \in KillTargets : KillBlocked(p) /\ NoIpc
    \/ \E d \in Pids : Send(d) \/ Call(d)
    \/ \E f \in RecvSources : RecvNow(f) \/ RecvBlock(f)
    \/ RecvResume

IpcSpec == IpcInit /\ [][IpcNext]_allVars

-----------------------------------------------------------------------------
(* What message passing guarantees.                                        *)

\* Even when send makes a process READY that is not blocked (process.asm keeps
\* PCB_STATE, ipc.asm 123-125 overwrites it), no slot but that of current_pid
\* is ever marked RUNNING.
OneRunning == \A p \in Pids : state[p] = "RUNNING" => p = current

\* A message whose send returned 0 stays in its slot until its receiver has
\* copied it, and until then the receiver accepts no second one from just
\* anybody: only a process that it has since asked for by name, in a call or a
\* recv, may overwrite it (ipc.asm 96-125, 186-206).
UnreadKept ==
    \A p \in unread : msgSlot[p].to = p /\ waiting[p] # WaitAny

\* A process blocked in recv for one sender is made READY by nobody else; for
\* ipc_call, this is what ties a reply to its request (ipc.asm 274-280).  Two
\* kinds of process are not protected: one that may be killed, and one that
\* has used waitpid, for exit_process wakes a BLOCKED parent by the
\* PCB_WAIT_PID that an earlier waitpid left behind.
OnlyPartnerWakes ==
    [][\A p \in Pids \ KillTargets :
          (/\ state[p] = "BLOCKED" /\ resume[p] = InRecv
           /\ waitPid[p] = NotWaiting
           /\ state'[p] = "READY") => waiting[p] \in {WaitAny, current}]_allVars

=============================================================================
