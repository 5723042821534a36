------------------------------ MODULE GameShell ------------------------------
(***************************************************************************)
(* Shells and scripts of the simulated Unix system (src/game/core/shell.py,*)
(* pooscript.py and the sessions of system.py).  Several terminals work on *)
(* one system, each with a shell process of its own.  A script runs in the *)
(* process of the shell that started it; what it computes is free, so a    *)
(* running script may make any call the three interfaces offer it, or end. *)
(***************************************************************************)
EXTENDS GameKernel, ShellLine

CONSTANTS Sessions,     \* terminals
          Lines,        \* command lines, as sequences of tokens
          Paths, Texts, Modes,        \* what scripts pass to the calls
          MaxDepth, MaxCalls          \* bounds of the instance

VARIABLES shell,        \* per session: the shell's process and what it is doing
          escaped,      \* history, per session: how deep exceptions have left scripts
          calls         \* commands and calls so far, bounded by MaxCalls

vars == <<kernelVars, shell, escaped, calls>>

Pipelines == {ParsePipeline(line) : line \in {l \in Lines : Readable(l)}}

NoPid == 0

\* A level of the stack is a pipeline being executed: the commands to come
\* and, in `script', the one that runs, if it is a script.
Level(pipeline) == [todo |-> pipeline, script |-> <<>>]

Pid(s) == shell[s].pid
Stack(s) == shell[s].stack
Top(s) == Stack(s)[Len(Stack(s))]
AtPrompt(s) == Stack(s) = <<>>
InScript(s) == ~AtPrompt(s) /\ Top(s).script # <<>>
BetweenCommands(s) == ~AtPrompt(s) /\ Top(s).script = <<>>
Frame(s) == Head(Top(s).script)

Become(s, level) == shell' = [shell EXCEPT ![s].stack[Len(Stack(s))] = level]
Counted == calls < MaxCalls /\ calls' = calls + 1

Init ==
    /\ KernelInit
    /\ shell = [s \in Sessions |-> [pid |-> NoPid, stack |-> <<>>]]
    /\ escaped = [s \in Sessions |-> {}]
    /\ calls = 0

Login(s, uid, password) ==
    LET user == Perms.users[uid]
        home == Resolve(fs, user.home, Root, TRUE)
    IN /\ AtPrompt(s)
       /\ CheckPassword(Perms, uid, password)
       /\ Spawn(Process(InitPid, uid, user.gid, uid, user.gid, IF home = NoInode THEN Root ELSE home))
       /\ shell' = [shell EXCEPT ![s].pid = NewPid]
       /\ escaped' = [escaped EXCEPT ![s] = {}]
       /\ UNCHANGED calls

Enter(s, pipeline) ==
    /\ AtPrompt(s) /\ Pid(s) # NoPid
    /\ Counted
    /\ shell' = [shell EXCEPT ![s].stack = <<Level(pipeline)>>]
    /\ UNCHANGED <<kernelVars, escaped>>

(***************************************************************************)
(* execute_command.  A binary named without a slash is searched for in the *)
(* directories of PATH, where anything of that name will do.               *)
(***************************************************************************)
BuiltinCd == Relative(<<"cd">>)
PathDirs == <<<<"bin">>, <<"usr", "bin">>, <<"sbin">>, <<"usr", "sbin">>, <<"usr", "local", "bin">>>>

InPath(name) ==
    LET In(dir) == Resolve(fs, Absolute(dir \o <<name>>), Root, TRUE)
        hits == {i \in 1..Len(PathDirs) : Exists(fs, In(PathDirs[i]))}
    IN IF hits = {} THEN NoInode
       ELSE In(PathDirs[CHOOSE i \in hits : \A j \in hits : i <= j])

FindBinary(exe, cwd) ==
    IF ~exe.absolute /\ Len(exe.parts) = 1 THEN InPath(exe.parts[1])
    ELSE LET ino == Resolve(fs, exe, cwd, TRUE) IN IF IsFile(fs, ino) THEN ino ELSE NoInode

Shebang == "#!"
IsPooscript(node) == node.data # <<>> /\ Head(node.data) = Shebang

ToFile(tree, path, text, process) ==
    CreateFile(tree, path, Mode(RW, R, R), process.uid, process.gid, text, process.cwd)
Found(tree, path, process) == Exists(tree, Resolve(tree, path, process.cwd, TRUE))
Extended(tree, path, text, process) ==
    WriteFile(tree, path, ReadFile(tree, path, process.cwd) \o text, process.cwd)

\* `>' replaces, `>>' adds to a file there is and makes none.
OutputTo(tree, command, text, process) ==
    IF command.stdout = <<>> THEN tree
    ELSE LET path == command.stdout[1]
         IN IF command.append THEN Extended(tree, path, text, process)
            ELSE IF Found(tree, path, process) THEN WriteFile(tree, path, text, process.cwd)
            ELSE ToFile(tree, path, text, process)

\* `2>' adds to a file there is and makes one otherwise.
ErrorsTo(tree, command, text, process) ==
    IF command.stderr = <<>> THEN tree
    ELSE LET path == command.stderr[1]
         IN IF Found(tree, path, process) THEN Extended(tree, path, text, process)
            ELSE ToFile(tree, path, text, process)

Redirected(command, text, process) ==
    ErrorsTo(OutputTo(fs, command, text, process), command, text, process)

\* Both redirections of `&>' find room, in the table and in the file.
RedirectFits(command, text, process) ==
    /\ fs.next <= MaxIno
    /\ \A path \in {command.stdout, command.stderr} \ {<<>>} :
          Len(ReadFile(fs, path[1], process.cwd)) + 2 * Len(text) <= MaxData

\* Standard input from something that cannot be read, a binary that is not
\* there, or one the real user may not execute: the command ends at once.
NoInput(command, process) ==
    /\ command.stdin # <<>>
    /\ LET ino == Resolve(fs, command.stdin[1], process.cwd, TRUE)
       IN ~(Exists(fs, ino) /\ fs.inodes[ino].type \in {"file", "device"})

Refused(command, process) ==
    LET binary == FindBinary(command.exe, process.cwd)
    IN \/ NoInput(command, process)
       \/ /\ command.exe # BuiltinCd
          /\ ~(binary # NoInode /\ CanExecute(Perms, process.uid, fs.inodes[binary]))

Command(s) == Head(Top(s).todo)
Skipped(s) == [Top(s) EXCEPT !.todo = Tail(@)]
CanBegin(s) == BetweenCommands(s) /\ Top(s).todo # <<>>

RefuseCommand(s) ==
    /\ CanBegin(s) /\ Refused(Command(s), procs[Pid(s)])
    /\ Become(s, Skipped(s))
    /\ UNCHANGED <<kernelVars, escaped, calls>>

\* cd moves the shell if the real user may enter the directory.
Cd(s) ==
    LET self == procs[Pid(s)]
        user == Perms.users[self.uid]
        target == IF Command(s).args = <<>> THEN user.home ELSE Command(s).args[1]
        ino == Resolve(fs, target, self.cwd, TRUE)
        moved == IsDir(fs, ino) /\ CanExecute(Perms, self.uid, fs.inodes[ino])
        after == IF moved THEN [self EXCEPT !.cwd = ino] ELSE self
    IN /\ CanBegin(s) /\ Command(s).exe = BuiltinCd /\ ~Refused(Command(s), self)
       /\ RedirectFits(Command(s), <<>>, after)
       /\ procs' = [procs EXCEPT ![Pid(s)] = after]
       /\ fs' = Redirected(Command(s), <<>>, after)
       /\ Become(s, Skipped(s))
       /\ UNCHANGED <<nextPid, fds, escaped, calls>>

\* A binary that is no script has no handler; only its redirection happens.
RunPlain(s) ==
    LET self == procs[Pid(s)]
    IN /\ CanBegin(s) /\ Command(s).exe # BuiltinCd /\ ~Refused(Command(s), self)
       /\ ~IsPooscript(fs.inodes[FindBinary(Command(s).exe, self.cwd)])
       /\ RedirectFits(Command(s), <<>>, self)
       /\ fs' = Redirected(Command(s), <<>>, self)
       /\ Become(s, Skipped(s))
       /\ UNCHANGED <<procs, nextPid, fds, escaped, calls>>

\* The interfaces copy the effective ids and the directory when the script
\* starts; `home' is the copy that no chdir of the script changes.
BeginScript(s) ==
    LET self == procs[Pid(s)]
        node == fs.inodes[FindBinary(Command(s).exe, self.cwd)]
        euid == IF node.mode.suid THEN node.uid ELSE self.euid
        egid == IF node.mode.sgid THEN node.gid ELSE self.egid
        frame == [euid |-> euid, egid |-> egid, oldEuid |-> self.euid, oldEgid |-> self.egid,
                  home |-> self.cwd, cwd |-> self.cwd, command |-> Command(s)]
    IN /\ CanBegin(s) /\ Command(s).exe # BuiltinCd /\ ~Refused(Command(s), self)
       /\ IsPooscript(node)
       /\ procs' = [procs EXCEPT ![Pid(s)].euid = euid, ![Pid(s)].egid = egid]
       /\ Become(s, [Skipped(s) EXCEPT !.script = <<frame>>])
       /\ UNCHANGED <<fs, nextPid, fds, escaped, calls>>

\* Mutant: the user's own ids come back, not those of the script around.
RestoredToUser(process, frame) == [process EXCEPT !.euid = process.uid, !.egid = process.gid]

Restored(process, frame) == [process EXCEPT !.euid = frame.oldEuid, !.egid = frame.oldEgid]

\* The script ends, by itself, by exit or by an exception the interpreter
\* catches, and its output can be encoded: the ids it found come back, also
\* when a script it started has left others, and its output is redirected.
EndScript(s, text) ==
    LET after == Restored(procs[Pid(s)], Frame(s))
    IN /\ InScript(s)
       /\ RedirectFits(Frame(s).command, text, after)
       /\ procs' = [procs EXCEPT ![Pid(s)] = after]
       /\ fs' = Redirected(Frame(s).command, text, after)
       /\ Become(s, [Top(s) EXCEPT !.script = <<>>])
       /\ escaped' = [escaped EXCEPT ![s] = {depth \in @ : depth < Len(Stack(s))}]
       /\ UNCHANGED <<nextPid, fds, calls>>

\* An exception passes execute_command: the ids stay, nothing is redirected,
\* the pipelines above `depth' are gone, with what was still to run.
LeaveScripts(s, depth) ==
    /\ shell' = [shell EXCEPT ![s].stack = SubSeq(@, 1, depth)]
    /\ escaped' = [escaped EXCEPT ![s] = {d \in @ : d < depth} \cup {depth}]
    /\ UNCHANGED <<kernelVars, calls>>

\* The output of the script holds a character that UTF-8 cannot encode, and it
\* is encoded outside the try.  The script around gets the exception, and may
\* go on; execute catches what leaves the first one.
EscapeScript(s) == InScript(s) /\ LeaveScripts(s, Len(Stack(s)) - 1)

\* The player's interrupt is no Exception: nothing below the loop that reads
\* the lines catches it.
Interrupt(s) == InScript(s) /\ LeaveScripts(s, 0)

EndPipeline(s) ==
    /\ BetweenCommands(s) /\ Top(s).todo = <<>>
    /\ shell' = [shell EXCEPT ![s].stack = SubSeq(@, 1, Len(@) - 1)]
    /\ UNCHANGED <<kernelVars, escaped, calls>>

(***************************************************************************)
(* `process' of a script.  A spawned process has the effective user of the *)
(* script as its real one.  execute runs a pipeline in the same process.   *)
(***************************************************************************)
ProcessSpawn(s) ==
    Spawn(Process(Pid(s), Frame(s).euid, Frame(s).egid, Frame(s).euid, Frame(s).egid, Frame(s).cwd))

ProcessExecute(s, pipeline) ==
    /\ Len(Stack(s)) < MaxDepth
    /\ shell' = [shell EXCEPT ![s].stack = Append(@, Level(pipeline))]
    /\ UNCHANGED kernelVars

\* No permission is asked for, and the copy in `vfs' keeps the old directory.
ProcessChdir(s, path) ==
    LET ino == Resolve(fs, path, Frame(s).cwd, TRUE)
    IN /\ IsDir(fs, ino)
       /\ procs' = [procs EXCEPT ![Pid(s)].cwd = ino]
       /\ Become(s, [Top(s) EXCEPT !.script[1].cwd = ino])
       /\ UNCHANGED <<fs, nextPid, fds>>

(***************************************************************************)
(* `vfs' of a script: none of its calls asks for a permission.             *)
(***************************************************************************)
VfsCreate(f, path, mode, text) == CreateFile(fs, path, mode, f.euid, f.egid, text, f.home)
VfsMkdir(f, path, mode) == Mkdir(fs, path, mode, f.euid, f.egid, f.home)
VfsWrite(f, path, text) == WriteFile(fs, path, text, f.home)
VfsUnlink(f, path) == Unlink(fs, path, f.home)
VfsChmod(f, path, mode) ==
    LET ino == Resolve(fs, path, f.home, TRUE)
    IN IF Exists(fs, ino) THEN [fs EXCEPT !.inodes[ino].mode = mode] ELSE fs

VfsChown(f, path, uid, gid) ==
    LET ino == Resolve(fs, path, f.home, TRUE)
    IN IF Exists(fs, ino) THEN [fs EXCEPT !.inodes[ino].uid = uid, !.inodes[ino].gid = gid] ELSE fs

VfsCall(s) ==
    /\ \E path \in Paths :
          \/ Room /\ \E mode \in Modes :
                \/ fs' = VfsMkdir(Frame(s), path, mode)
                \/ \E text \in Texts : fs' = VfsCreate(Frame(s), path, mode, text)
          \/ \E text \in Texts : fs' = VfsWrite(Frame(s), path, text)
          \/ fs' = VfsUnlink(Frame(s), path)
          \/ \E mode \in Modes : fs' = VfsChmod(Frame(s), path, mode)
          \/ \E uid \in DOMAIN Perms.users : fs' = VfsChown(Frame(s), path, uid, Perms.users[uid].gid)
    /\ UNCHANGED <<procs, nextPid, fds>>

FileCall(pid) ==
    \/ \E path \in Paths, writes, creates \in BOOLEAN, mode \in Modes :
          Open(pid, path, writes, creates, mode)
    \/ \E fd \in DOMAIN Table(pid) :
          \/ Read(pid, fd, 1)
          \/ \E text \in Texts : Write(pid, fd, text)
          \/ Close(pid, fd)

DirectoryCall(pid) ==
    \E path \in Paths :
       \/ \E mode \in Modes : MkdirCall(pid, path, mode)
       \/ UnlinkCall(pid, path)
       \/ Chdir(pid, path)

ProcessCall(s) ==
    \/ Fork(Pid(s))
    \/ Exit(Pid(s), 1)
    \/ \E pid \in DOMAIN procs, signal \in Signals : Kill(pid, signal)
    \/ ProcessSpawn(s)

\* A call of a script, through whichever of its interfaces.  One that is
\* refused changes nothing; the script may go on or end with the exception.
Call(s) ==
    /\ InScript(s) /\ Counted /\ UNCHANGED escaped
    /\ \/ (VfsCall(s) \/ FileCall(Pid(s)) \/ DirectoryCall(Pid(s)) \/ ProcessCall(s)) /\ UNCHANGED shell
       \/ \E path \in Paths : ProcessChdir(s, path)
       \/ \E pipeline \in Pipelines : ProcessExecute(s, pipeline)
    /\ <<kernelVars, shell>>' # <<kernelVars, shell>>

Housekeep == CleanupDead /\ UNCHANGED <<shell, escaped, calls>>

Next ==
    \/ \E s \in Sessions :
          \/ \E uid \in DOMAIN Perms.users : Login(s, uid, Perms.users[uid].password)
          \/ \E pipeline \in Pipelines : Enter(s, pipeline)
          \/ RefuseCommand(s) \/ Cd(s) \/ RunPlain(s) \/ BeginScript(s)
          \/ Call(s)
          \/ \E text \in Texts : EndScript(s, text)
          \/ EscapeScript(s) \/ Interrupt(s)
          \/ EndPipeline(s)
    \/ Housekeep

Spec == Init /\ [][Next]_vars

-----------------------------------------------------------------------------
(***************************************************************************)
(* TreeIsSound: whatever scripts create, remove and overwrite, through     *)
(* relative names, links and directories that are gone, the inodes form    *)
(* one tree.                                                               *)
(***************************************************************************)
TreeIsSound == IsTree(fs)

(***************************************************************************)
(* GoneStaysGone: unlink looks at no descriptor and no current directory,  *)
(* so both may hold the number of an inode that is gone; that number never *)
(* comes to be another file.                                               *)
(***************************************************************************)
HeldInodes == {procs[p].cwd : p \in DOMAIN procs}
              \cup UNION {{fds[p][f].inode : f \in DOMAIN fds[p]} : p \in DOMAIN fds}

GoneStaysGone ==
    [][\A i \in HeldInodes \cap HeldInodes' : i \notin DOMAIN fs.inodes => i \notin DOMAIN fs.inodes']_vars

(***************************************************************************)
(* EffectiveIsInnermost: the effective user of a shell's process is the    *)
(* one of the innermost script that runs in it, and the user's own at the  *)
(* prompt: through nested pipelines, binaries changed or removed while     *)
(* they run, deaths of the process, refused commands and exits.  Only an   *)
(* exception that leaves execute_command keeps an id beyond its script,    *)
(* and no longer than the script around runs that it has come to: when     *)
(* that one ends, all is as it was.  What comes to the prompt stays.       *)
(***************************************************************************)
EffectiveIsInnermost ==
    \A s \in Sessions : Pid(s) # NoPid /\ escaped[s] = {} =>
       LET self == procs[Pid(s)]
           running == {k \in 1..Len(Stack(s)) : Stack(s)[k].script # <<>>}
           innermost == Head(Stack(s)[CHOOSE k \in running : \A j \in running : j <= k].script)
       IN <<self.euid, self.egid>> =
             IF running = {} THEN <<self.uid, self.gid>> ELSE <<innermost.euid, innermost.egid>>

=============================================================================
