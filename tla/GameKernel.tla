----------------------------- MODULE GameKernel -----------------------------
(***************************************************************************)
(* Processes, descriptors and system calls of the simulated Unix system    *)
(* (src/game/core/process.py and kernel.py).  A call is one step: nothing  *)
(* in it lets another session in.  The command, the arguments and the      *)
(* environment of a process, which exec replaces, are not state here.      *)
(***************************************************************************)
EXTENDS Vfs, Integers, FiniteSets

CONSTANTS Perms,        \* the permission system, complete before anybody logs in
          BootFs,       \* the file system _init_filesystem leaves
          MaxIno, MaxPid, MaxFds, MaxData    \* bounds of the instance

\* What system.py makes before anybody logs in is a tree.
ASSUME BootAssumption == IsVfs(BootFs) /\ IsTree(BootFs)
ASSUME BoundsAssumption == MaxIno \in Nat /\ MaxPid \in Nat \ {0} /\ MaxFds \in Nat /\ MaxData \in Nat

VARIABLES fs,           \* the inodes and the next inode number
          procs,        \* ProcessManager.processes
          nextPid,      \* ProcessManager.next_pid
          fds           \* Kernel.file_descriptors, empty for a pid that is missing

kernelVars == <<fs, procs, nextPid, fds>>

InitPid == 1
NoCode == -1
Process(ppid, uid, gid, euid, egid, cwd) ==
    [ppid |-> ppid, uid |-> uid, gid |-> gid, euid |-> euid, egid |-> egid,
     state |-> "RUNNING", cwd |-> cwd, exitCode |-> NoCode]

KernelInit ==
    /\ fs = BootFs
    /\ procs = [p \in {InitPid} |-> Process(0, 0, 0, 0, 0, Root)]
    /\ nextPid = 2
    /\ fds = [p \in 1..MaxPid |-> [f \in {} |-> f]]

Room == fs.next <= MaxIno

(***************************************************************************)
(* The process manager.  A parent has only to be in the table.             *)
(***************************************************************************)
NewPid == nextPid

Spawn(process) ==
    /\ process.ppid \in DOMAIN procs /\ nextPid <= MaxPid
    /\ procs' = With(procs, NewPid, process)
    /\ nextPid' = nextPid + 1
    /\ UNCHANGED <<fs, fds>>

Signals == {"KILL", "TERM", "STOP", "CONT"}
AfterSignal(process, signal) ==
    CASE signal = "KILL" -> [process EXCEPT !.state = "DEAD", !.exitCode = 128 + 9]
      [] signal = "TERM" -> [process EXCEPT !.state = "DEAD", !.exitCode = 0]
      [] signal = "STOP" -> [process EXCEPT !.state = "STOPPED"]
      [] signal = "CONT" -> IF process.state = "STOPPED"
                            THEN [process EXCEPT !.state = "RUNNING"] ELSE process

CanSignal(pid) == pid > InitPid /\ pid \in DOMAIN procs /\ procs[pid].state # "DEAD"

\* kill_process: who dies leaves its children to init.
Signalled(table, pid, signal) ==
    LET after == AfterSignal(table[pid], signal)
    IN [p \in DOMAIN table |->
          IF p = pid THEN after
          ELSE IF after.state = "DEAD" /\ table[p].ppid = pid THEN [table[p] EXCEPT !.ppid = InitPid]
          ELSE table[p]]

Kill(pid, signal) ==
    /\ CanSignal(pid)
    /\ procs' = Signalled(procs, pid, signal)
    /\ UNCHANGED <<fs, nextPid, fds>>

(***************************************************************************)
(* cleanup_dead goes through the dead in the order of the table, which is  *)
(* the order of the pids, and looks at each parent as the loop has left    *)
(* it: by then a dead parent with a lower pid is removed or a zombie.      *)
(***************************************************************************)
Dead(pid) == pid > InitPid /\ pid \in DOMAIN procs /\ procs[pid].state = "DEAD"

Removed ==
    LET gone[pid \in 0..MaxPid] ==
            /\ Dead(pid)
            /\ LET parent == procs[pid].ppid
               IN \/ parent \notin DOMAIN procs
                  \/ IF parent < pid THEN gone[parent] ELSE Dead(parent)
    IN {pid \in DOMAIN procs : gone[pid]}

CleanupDead ==
    /\ procs' = [p \in DOMAIN procs \ Removed |->
                   IF Dead(p) THEN [procs[p] EXCEPT !.state = "ZOMBIE"] ELSE procs[p]]
    /\ UNCHANGED <<fs, nextPid, fds>>

(***************************************************************************)
(* The calls on files.  `file' is the inode of an entry, which may be gone.*)
(***************************************************************************)
Table(pid) == fds[pid]
LowestFd(pid) == CHOOSE f \in 3..(3 + MaxFds) :
                    f \notin DOMAIN Table(pid) /\ \A g \in 3..(f - 1) : g \in DOMAIN Table(pid)

\* O_RDWR is 2 and the code tests bit 0, so it opens for reading.
\* A file the call has created stays when its mode then refuses the caller.
Open(pid, path, writes, creates, mode) ==
    LET self == procs[pid]
        found == Resolve(fs, path, self.cwd, TRUE)
        making == found = NoInode /\ creates
        ino == IF making THEN CreatedIno(fs, path, self.cwd) ELSE found
        after == IF making THEN CreateFile(fs, path, mode, self.euid, self.egid, <<>>, self.cwd) ELSE fs
        allowed == /\ Exists(after, ino)
                   /\ IF writes THEN CanWrite(Perms, self.euid, after.inodes[ino])
                                ELSE CanRead(Perms, self.euid, after.inodes[ino])
    IN /\ Cardinality(DOMAIN Table(pid)) < MaxFds
       /\ making => Room
       /\ fs' = after
       /\ fds' = IF allowed
                 THEN [fds EXCEPT ![pid] = With(@, LowestFd(pid), [inode |-> ino, offset |-> 0])]
                 ELSE fds
       /\ UNCHANGED <<procs, nextPid>>

\* A device hands nothing out: its handlers are a pair, in which the test for
\* the name 'read' finds nothing.
Read(pid, fd, count) ==
    LET entry == Table(pid)[fd]
        node == fs.inodes[entry.inode]
        left == IF entry.offset < Len(node.data) THEN Len(node.data) - entry.offset ELSE 0
    IN /\ fd \in DOMAIN Table(pid)
       /\ Exists(fs, entry.inode)
       /\ CanRead(Perms, procs[pid].euid, node)
       /\ fds' = [fds EXCEPT ![pid][fd].offset = @ + (IF left < count THEN left ELSE count)]
       /\ UNCHANGED <<fs, procs, nextPid>>

\* A file that has been truncated is shorter than the offset: what is written
\* then lands at its end.
Overwritten(old, offset, data) ==
    SubSeq(old, 1, IF offset < Len(old) THEN offset ELSE Len(old)) \o data
        \o SubSeq(old, offset + Len(data) + 1, Len(old))

Write(pid, fd, data) ==
    LET entry == Table(pid)[fd]
        node == fs.inodes[entry.inode]
    IN /\ fd \in DOMAIN Table(pid)
       /\ IsFile(fs, entry.inode)
       /\ CanWrite(Perms, procs[pid].euid, node)
       /\ entry.offset + Len(data) <= MaxData
       /\ fs' = Stored(fs, entry.inode, Overwritten(node.data, entry.offset, data))
       /\ fds' = [fds EXCEPT ![pid][fd].offset = @ + Len(data)]
       /\ UNCHANGED <<procs, nextPid>>

Close(pid, fd) ==
    /\ fd \in DOMAIN Table(pid)
    /\ fds' = [fds EXCEPT ![pid] = [f \in DOMAIN @ \ {fd} |-> @[f]]]
    /\ UNCHANGED <<fs, procs, nextPid>>

\* Neither of these asks for a permission.
MkdirCall(pid, path, mode) ==
    /\ Room
    /\ fs' = Mkdir(fs, path, mode, procs[pid].euid, procs[pid].egid, procs[pid].cwd)
    /\ UNCHANGED <<procs, nextPid, fds>>

UnlinkCall(pid, path) ==
    /\ fs' = Unlink(fs, path, procs[pid].cwd)
    /\ UNCHANGED <<procs, nextPid, fds>>

\* chdir as the call does it, for whoever `user' is.
MoveTo(pid, user, path) ==
    LET ino == Resolve(fs, path, procs[pid].cwd, TRUE)
    IN /\ IsDir(fs, ino)
       /\ CanExecute(Perms, user, fs.inodes[ino])
       /\ procs' = [procs EXCEPT ![pid].cwd = ino]
       /\ UNCHANGED <<fs, nextPid, fds>>

Chdir(pid, path) == MoveTo(pid, procs[pid].euid, path)

(***************************************************************************)
(* The calls on processes.  Descriptors are not inherited, and a process   *)
(* that exits keeps its own.                                               *)
(***************************************************************************)
Fork(pid) ==
    LET self == procs[pid]
    IN Spawn(Process(pid, self.uid, self.gid, self.euid, self.egid, self.cwd))

\* The code is stored and then replaced by the one of the signal, unless the
\* process is dead already and the signal refused.
Exit(pid, code) ==
    LET marked == [procs EXCEPT ![pid].exitCode = code]
    IN /\ procs' = IF CanSignal(pid) THEN Signalled(marked, pid, "TERM") ELSE marked
       /\ UNCHANGED <<fs, nextPid, fds>>
=============================================================================
