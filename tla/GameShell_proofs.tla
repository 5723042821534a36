-------------------------- MODULE GameShell_proofs --------------------------
(***************************************************************************)
(* Proofs about GameShell, for every boot file system that is a tree, every *)
(* table of users, every number of sessions, and whatever lines they type   *)
(* and paths, texts and modes their scripts pass.                           *)
(*                                                                          *)
(* KernelInv says that every inode number anybody holds was given out, and  *)
(* that a parent has a lower pid than its child; from that cleanup_dead     *)
(* removes nobody.  SessionInv says that each script on a session's stack   *)
(* remembers the ids of the level below, so that ending scripts in the      *)
(* order they were started gives each level its own ids back.  What an      *)
(* exception has left with other ids is above the level it has come to.     *)
(***************************************************************************)
EXTENDS GameShell, Vfs_proofs, SequenceTheorems

ProcessFields == {"ppid", "uid", "gid", "euid", "egid", "state", "cwd", "exitCode"}

ProcessOK(f, pid, process) ==
    /\ DOMAIN process = ProcessFields
    /\ process.ppid \in Nat /\ process.ppid < pid
    /\ pid # InitPid => process.ppid >= InitPid
    /\ Given(f, process.cwd)

EntriesOK(f, table) ==
    \A p \in DOMAIN table : \A fd \in DOMAIN table[p] :
        DOMAIN table[p][fd] = {"inode", "offset"} /\ Given(f, table[p][fd].inode)

ProcessesOK(f, table, next) ==
    /\ next \in 2 .. (MaxPid + 1)
    /\ DOMAIN table = 1 .. (next - 1)
    /\ \A p \in DOMAIN table : ProcessOK(f, p, table[p])

KernelInv == Good(fs) /\ ProcessesOK(fs, procs, nextPid) /\ EntriesOK(fs, fds)

-----------------------------------------------------------------------------
(* The stack of a session.                                                 *)

FrameOK(f, frame) ==
    /\ DOMAIN frame = {"euid", "egid", "oldEuid", "oldEgid", "home", "cwd", "command"}
    /\ Given(f, frame.home) /\ Given(f, frame.cwd)

LevelOK(f, level) ==
    /\ DOMAIN level = {"todo", "script"}
    /\ level.script # <<>> => \E frame : level.script = <<frame>> /\ FrameOK(f, frame)

\* The ids of the script at level k; below the first is the user at the prompt.
IdsAt(stack, k, user) ==
    IF k = 0 THEN user ELSE <<stack[k].script[1].euid, stack[k].script[1].egid>>
SavedAt(stack, k) == <<stack[k].script[1].oldEuid, stack[k].script[1].oldEgid>>

\* The levels on which a script runs: all, or all but the last.
Depth(stack) ==
    IF stack # <<>> /\ stack[Len(stack)].script = <<>> THEN Len(stack) - 1 ELSE Len(stack)

\* Level k began before an exception came to a lower one.
Before(out, k) == \A e \in out : k <= e

StackOK(f, stack, out, user, effective) ==
    /\ \E S : stack \in Seq(S)
    /\ \A k \in 1 .. Len(stack) : LevelOK(f, stack[k])
    /\ \A k \in 1 .. (Len(stack) - 1) : stack[k].script # <<>>
    /\ \A e \in out : e \in 0 .. Depth(stack)
    /\ \A k \in 1 .. Len(stack) :
          stack[k].script # <<>> /\ Before(out, k) => SavedAt(stack, k) = IdsAt(stack, k - 1, user)
    /\ out = {} => effective = IdsAt(stack, Depth(stack), user)

UserIds(table, p) == <<table[p].uid, table[p].gid>>
EffectiveIds(table, p) == <<table[p].euid, table[p].egid>>

SessionOK(s) ==
    /\ DOMAIN shell[s] = {"pid", "stack"}
    /\ Pid(s) \in Nat /\ Pid(s) < nextPid
    /\ Pid(s) = NoPid => Stack(s) = <<>>
    /\ Pid(s) # NoPid =>
          StackOK(fs, Stack(s), escaped[s], UserIds(procs, Pid(s)), EffectiveIds(procs, Pid(s)))

SessionInv ==
    /\ DOMAIN shell = Sessions /\ DOMAIN escaped = Sessions
    /\ \A s \in Sessions : SessionOK(s)
    /\ \A s, t \in Sessions : s # t /\ Pid(s) # NoPid => Pid(s) # Pid(t)

\* A line is executed: a level with no script on a level that runs one.
LEMMA PushLevel ==
    ASSUME NEW f, NEW stack, NEW out, NEW user, NEW effective,
           StackOK(f, stack, out, user, effective),
           NEW level, LevelOK(f, level), level.script = <<>>,
           stack = <<>> \/ stack[Len(stack)].script # <<>>
    PROVE  StackOK(f, Append(stack, level), out, user, effective)
<1> DEFINE new == Append(stack, level)
<1>1. PICK S : stack \in Seq(S)
  BY DEF StackOK
<1>2. stack \in Seq(S \cup {level}) /\ level \in S \cup {level} /\ Len(stack) \in Nat
  BY <1>1
<1>3. /\ new \in Seq(S \cup {level}) /\ Len(new) = Len(stack) + 1
      /\ new[Len(stack) + 1] = level
      /\ \A k \in 1 .. Len(stack) : new[k] = stack[k]
  BY <1>2
<1> HIDE DEF new
<1>4. new # <<>> /\ Depth(new) = Len(stack) /\ Depth(stack) = Len(stack)
  BY <1>2, <1>3 DEF Depth
<1>5. ASSUME NEW k \in 0 .. Len(stack) PROVE IdsAt(new, k, user) = IdsAt(stack, k, user)
  <2>1. k = 0 \/ k \in 1 .. Len(stack)
    BY <1>2
  <2> QED
    BY <1>3, <2>1 DEF IdsAt
<1>6. \A k \in 1 .. Len(stack) : k - 1 \in 0 .. Len(stack) /\ SavedAt(new, k) = SavedAt(stack, k)
  BY <1>2, <1>3 DEF SavedAt
<1>7. \A k \in 1 .. Len(new) : k \in 1 .. Len(stack) \/ k = Len(stack) + 1
  BY <1>2, <1>3
<1>8. \A k \in 1 .. Len(stack) : stack[k].script # <<>>
  <2>1. stack = <<>> => Len(stack) = 0
    OBVIOUS
  <2> QED
    BY <1>2, <2>1 DEF StackOK
<1>9. \A k \in 1 .. Len(new) : LevelOK(f, new[k])
  BY <1>3, <1>7 DEF StackOK
<1>10. \A k \in 1 .. (Len(new) - 1) : new[k].script # <<>>
  BY <1>2, <1>3, <1>8
<1>11. \A k \in 1 .. Len(new) :
          new[k].script # <<>> /\ Before(out, k) => SavedAt(new, k) = IdsAt(new, k - 1, user)
  BY <1>3, <1>5, <1>6, <1>7 DEF StackOK
<1>12. out = {} => effective = IdsAt(new, Depth(new), user)
  BY <1>2, <1>4, <1>5 DEF StackOK
<1>13. \A e \in out : e \in 0 .. Depth(new)
  BY <1>4 DEF StackOK
<1> QED
  BY <1>3, <1>9, <1>10, <1>11, <1>12, <1>13 DEF StackOK, new

\* The pipeline is done.
LEMMA PopLevel ==
    ASSUME NEW f, NEW stack, NEW out, NEW user, NEW effective,
           StackOK(f, stack, out, user, effective),
           stack # <<>>, stack[Len(stack)].script = <<>>
    PROVE  StackOK(f, SubSeq(stack, 1, Len(stack) - 1), out, user, effective)
<1> DEFINE new == SubSeq(stack, 1, Len(stack) - 1)
<1>1. PICK S : stack \in Seq(S)
  BY DEF StackOK
<1>2. Len(stack) \in Nat \ {0}
  BY <1>1
<1>3. /\ new \in Seq(S) /\ Len(new) = Len(stack) - 1
      /\ \A k \in 1 .. Len(new) : new[k] = stack[k] /\ k \in 1 .. Len(stack)
  <2>1. \A i \in 1 .. (Len(stack) - 1) : stack[i] \in S
    BY <1>1, <1>2
  <2>2. PICK m \in Nat : m = Len(stack) - 1
    BY <1>2
  <2>3. new = SubSeq(stack, 1, m)
    BY <2>2
  <2>4. /\ new \in Seq(S) /\ Len(new) = IF 1 <= m THEN m - 1 + 1 ELSE 0
        /\ \A i \in 1 .. m - 1 + 1 : new[i] = stack[1 + i - 1]
    BY <2>1, <2>2, <2>3, SubSeqProperties
  <2> HIDE DEF new
  <2>5. Len(new) = m
    BY <2>2, <2>4
  <2> QED
    BY <1>2, <2>2, <2>4, <2>5
<1> HIDE DEF new
<1>4. Depth(stack) = Len(new)
  BY <1>3 DEF Depth
<1>5. \A k \in 1 .. Len(new) : new[k].script # <<>>
  BY <1>3 DEF StackOK
<1>6. Depth(new) = Len(new)
  <2>1. new # <<>> => Len(new) \in 1 .. Len(new)
    BY <1>2, <1>3
  <2> QED
    BY <1>5, <2>1 DEF Depth
<1>7. ASSUME NEW k \in 0 .. Len(new) PROVE IdsAt(new, k, user) = IdsAt(stack, k, user)
  <2>1. k = 0 \/ k \in 1 .. Len(new)
    BY <1>2, <1>3
  <2> QED
    BY <1>3, <2>1 DEF IdsAt
<1>8. \A k \in 1 .. Len(new) : k - 1 \in 0 .. Len(new) /\ SavedAt(new, k) = SavedAt(stack, k)
  BY <1>2, <1>3 DEF SavedAt
<1>9. out = {} => effective = IdsAt(new, Depth(new), user)
  BY <1>2, <1>3, <1>4, <1>6, <1>7 DEF StackOK
<1>10. \A k \in 1 .. Len(new) : Before(out, k) => SavedAt(new, k) = IdsAt(new, k - 1, user)
  BY <1>3, <1>5, <1>7, <1>8 DEF StackOK
<1>11. \A k \in 1 .. (Len(new) - 1) : k \in 1 .. Len(new)
  BY <1>2, <1>3
<1>12. \A e \in out : e \in 0 .. Depth(new)
  BY <1>4, <1>6 DEF StackOK
<1> QED
  BY <1>3, <1>5, <1>9, <1>10, <1>11, <1>12 DEF StackOK, new

\* An exception leaves the scripts above depth, whatever the ids are then.
LEMMA LeaveLevels ==
    ASSUME NEW f, NEW stack, NEW out, NEW user, NEW effective,
           StackOK(f, stack, out, user, effective),
           stack # <<>>, NEW depth \in 0 .. (Len(stack) - 1)
    PROVE  StackOK(f, SubSeq(stack, 1, depth), {e \in out : e < depth} \cup {depth}, user, effective)
<1> DEFINE new == SubSeq(stack, 1, depth)
           newOut == {e \in out : e < depth} \cup {depth}
<1>1. PICK S : stack \in Seq(S)
  BY DEF StackOK
<1>2. Len(stack) \in Nat \ {0} /\ depth \in Nat
  BY <1>1
<1>3. /\ new \in Seq(S) /\ Len(new) = depth
      /\ \A k \in 1 .. depth : new[k] = stack[k] /\ k \in 1 .. (Len(stack) - 1) /\ k \in 1 .. Len(stack)
  <2>1. \A i \in 1 .. depth : stack[i] \in S
    BY <1>1, <1>2
  <2>2. /\ new \in Seq(S) /\ Len(new) = IF 1 <= depth THEN depth - 1 + 1 ELSE 0
        /\ \A i \in 1 .. depth - 1 + 1 : new[i] = stack[1 + i - 1]
    BY <1>2, <2>1, SubSeqProperties
  <2> HIDE DEF new
  <2>3. Len(new) = depth
    BY <1>2, <2>2
  <2> QED
    BY <1>2, <2>2, <2>3
<1> HIDE DEF new
<1>4. \A k \in 1 .. depth : new[k].script # <<>>
  BY <1>3 DEF StackOK
<1>5. Depth(new) = depth
  <2>1. new # <<>> => depth \in 1 .. depth
    BY <1>2, <1>3
  <2> QED
    BY <1>3, <1>4, <2>1 DEF Depth
<1>6. ASSUME NEW k \in 0 .. depth PROVE IdsAt(new, k, user) = IdsAt(stack, k, user)
  <2>1. k = 0 \/ k \in 1 .. depth
    BY <1>2
  <2> QED
    BY <1>3, <2>1 DEF IdsAt
<1>7. ASSUME NEW e \in newOut PROVE e \in 0 .. depth
  <2>1. e = depth \/ (e \in out /\ e < depth)
    OBVIOUS
  <2>2. stack[Len(stack)].script = <<>> \/ stack[Len(stack)].script # <<>>
    OBVIOUS
  <2>3. Depth(stack) \in Nat
    BY <1>2, <2>2 DEF Depth
  <2>4. e \in out => e \in 0 .. Depth(stack)
    BY DEF StackOK
  <2> QED
    BY <1>2, <2>1, <2>3, <2>4
<1>8. ASSUME NEW k \in 1 .. depth, Before(newOut, k) PROVE Before(out, k)
  <2>1. ASSUME NEW e \in out PROVE k <= e
    <3>1. stack[Len(stack)].script = <<>> \/ stack[Len(stack)].script # <<>>
      OBVIOUS
    <3>2. Depth(stack) \in Nat
      BY <1>2, <3>1 DEF Depth
    <3>3. e \in 0 .. Depth(stack)
      BY DEF StackOK
    <3>4. CASE e < depth
      BY <1>8, <3>4 DEF Before
    <3>5. CASE depth <= e
      BY <1>2, <3>2, <3>3, <3>5
    <3> QED
      BY <1>2, <3>2, <3>3, <3>4, <3>5
  <2> QED
    BY <2>1 DEF Before
<1>9. \A k \in 1 .. depth : k - 1 \in 0 .. depth /\ SavedAt(new, k) = SavedAt(stack, k)
  BY <1>2, <1>3 DEF SavedAt
<1>10. \A k \in 1 .. depth : Before(newOut, k) => SavedAt(new, k) = IdsAt(new, k - 1, user)
  <2>1. \A k \in 1 .. depth : stack[k].script # <<>>
    BY <1>3 DEF StackOK
  <2> QED
    BY <1>3, <1>6, <1>8, <1>9, <2>1 DEF StackOK
<1>11. \A k \in 1 .. depth : LevelOK(f, new[k])
  BY <1>3 DEF StackOK
<1>12. \A k \in 1 .. (depth - 1) : k \in 1 .. depth
  BY <1>2
<1>13. newOut # {}
  OBVIOUS
<1> HIDE DEF newOut
<1> QED
  BY <1>3, <1>4, <1>5, <1>7, <1>10, <1>11, <1>12, <1>13 DEF StackOK, new, newOut

\* The last level is replaced: the levels below keep their ids.
LEMMA ReplaceLevel ==
    ASSUME NEW f, NEW stack, NEW out, NEW user, NEW effective,
           StackOK(f, stack, out, user, effective),
           stack # <<>>, NEW level, LevelOK(f, level), NEW after,
           NEW newOut, newOut \subseteq out, \A e \in out : e < Len(stack) => e \in newOut,
           level.script # <<>> =>
              /\ newOut = {} => after = <<level.script[1].euid, level.script[1].egid>>
              /\ Before(newOut, Len(stack)) =>
                    <<level.script[1].oldEuid, level.script[1].oldEgid>> =
                       IdsAt(stack, Len(stack) - 1, user),
           level.script = <<>> =>
              /\ newOut = {} => after = IdsAt(stack, Len(stack) - 1, user)
              /\ \A e \in newOut : e < Len(stack)
    PROVE  StackOK(f, [stack EXCEPT ![Len(stack)] = level], newOut, user, after)
<1> DEFINE new == [stack EXCEPT ![Len(stack)] = level]
           n == Len(stack)
<1>1. PICK S : stack \in Seq(S)
  BY DEF StackOK
<1>2. n \in Nat \ {0}
  BY <1>1
<1>3. /\ new \in Seq(S \cup {level}) /\ Len(new) = n /\ new[n] = level
      /\ \A k \in 1 .. (n - 1) : new[k] = stack[k]
  BY <1>1, <1>2
<1> HIDE DEF new
<1>4. ASSUME NEW k \in 0 .. (n - 1) PROVE IdsAt(new, k, user) = IdsAt(stack, k, user)
  <2>1. k = 0 \/ k \in 1 .. (n - 1)
    BY <1>2
  <2> QED
    BY <1>3, <2>1 DEF IdsAt
<1>5. \A k \in 1 .. n : k \in 1 .. (n - 1) \/ k = n
  BY <1>2
<1>6. /\ new # <<>>
      /\ Depth(new) = IF level.script = <<>> THEN n - 1 ELSE n
  BY <1>2, <1>3 DEF Depth
<1>7. newOut = {} => after = IdsAt(new, Depth(new), user)
  BY <1>2, <1>3, <1>4, <1>6 DEF IdsAt
<1>8. \A e \in out : e \in 0 .. n
  <2>1. Depth(stack) = n \/ Depth(stack) = n - 1
    BY DEF Depth
  <2> QED
    BY <1>2, <2>1 DEF StackOK
<1>9. ASSUME NEW k \in 1 .. n, new[k].script # <<>>, Before(newOut, k)
      PROVE  SavedAt(new, k) = IdsAt(new, k - 1, user)
  <2>1. CASE k = n
    BY <1>2, <1>3, <1>4, <1>9, <2>1 DEF SavedAt
  <2>2. CASE k \in 1 .. (n - 1)
    <3>1. new[k] = stack[k] /\ k - 1 \in 0 .. (n - 1)
      BY <1>3, <2>2
    <3>2. ASSUME NEW e \in out PROVE k <= e
      <4>1. CASE e \in newOut
        BY <1>9, <4>1 DEF Before
      <4>2. CASE e \notin newOut
        BY <1>2, <1>8, <2>2, <4>2
      <4> QED
        BY <4>1, <4>2
    <3>3. Before(out, k)
      BY <3>2 DEF Before
    <3> QED
      BY <1>4, <1>9, <3>1, <3>3 DEF StackOK, SavedAt
  <2> QED
    BY <1>5, <2>1, <2>2
<1>10. \A k \in 1 .. n : LevelOK(f, new[k])
  BY <1>3, <1>5 DEF StackOK
<1>11. \A k \in 1 .. (n - 1) : new[k].script # <<>>
  BY <1>3 DEF StackOK
<1>12. \A e \in newOut : e \in 0 .. Depth(new)
  BY <1>2, <1>6, <1>8
<1> QED
  BY <1>3, <1>7, <1>9, <1>10, <1>11, <1>12 DEF StackOK, new

LEMMA GivenGrows ==
    ASSUME NEW f, NEW g, IsVfs(f), IsVfs(g), Grows(f, g), NEW i, Given(f, i)
    PROVE  Given(g, i)
  BY DEF IsVfs, Grows, Given

LEMMA StackGrows ==
    ASSUME NEW f, NEW g, IsVfs(f), IsVfs(g), Grows(f, g),
           NEW stack, NEW out, NEW user, NEW effective, StackOK(f, stack, out, user, effective)
    PROVE  StackOK(g, stack, out, user, effective)
<1>1. ASSUME NEW level, LevelOK(f, level) PROVE LevelOK(g, level)
  BY <1>1, GivenGrows DEF LevelOK, FrameOK
<1> QED
  BY <1>1 DEF StackOK

-----------------------------------------------------------------------------
(* What a call does to the kernel's state.                                 *)

KernelStep == KernelInv' /\ Grows(fs, fs') /\ nextPid <= nextPid'

\* A call that leaves everybody's ids alone, as all do but those that start
\* and end a script.
IdsKeptBut(q) ==
    \A p \in DOMAIN procs \ {q} :
        /\ UserIds(procs', p) = UserIds(procs, p)
        /\ EffectiveIds(procs', p) = EffectiveIds(procs, p)
IdsKept == \A p \in DOMAIN procs :
        /\ UserIds(procs', p) = UserIds(procs, p)
        /\ EffectiveIds(procs', p) = EffectiveIds(procs, p)
CallStep == KernelStep /\ IdsKept

LEMMA ProcessesGrow ==
    ASSUME NEW f, NEW g, IsVfs(f), IsVfs(g), Grows(f, g), NEW table, NEW next
    PROVE  ProcessesOK(f, table, next) => ProcessesOK(g, table, next)
  BY GivenGrows DEF ProcessesOK, ProcessOK

LEMMA EntriesGrow ==
    ASSUME NEW f, NEW g, IsVfs(f), IsVfs(g), Grows(f, g), NEW table, EntriesOK(f, table)
    PROVE  EntriesOK(g, table)
  BY GivenGrows DEF EntriesOK

LEMMA GrowsReflexive ==
    ASSUME NEW f, IsVfs(f)
    PROVE  Grows(f, f)
  BY DEF Grows, IsVfs

LEMMA NextPidGrows ==
    ASSUME KernelInv, UNCHANGED nextPid
    PROVE  nextPid <= nextPid'
  BY DEF KernelInv, ProcessesOK

\* Only the file system changes, and the descriptors keep their inodes.
LEMMA FileStep ==
    ASSUME KernelInv, Good(fs'), Grows(fs, fs'), EntriesOK(fs', fds'),
           UNCHANGED <<procs, nextPid>>
    PROVE  CallStep
<1>1. ProcessesOK(fs', procs', nextPid')
  BY ProcessesGrow DEF KernelInv, Good
<1> QED
  BY <1>1, NextPidGrows DEF CallStep, KernelStep, KernelInv, IdsKept

LEMMA TreeStep ==
    ASSUME KernelInv, NEW g, Good(g), Grows(fs, g), fs' = g,
           UNCHANGED <<procs, nextPid, fds>>
    PROVE  CallStep
<1>1. EntriesOK(fs', fds')
  BY EntriesGrow DEF KernelInv, Good
<1> QED
  BY <1>1, FileStep

\* Only processes change.
LEMMA ProcessStep ==
    ASSUME KernelInv, ProcessesOK(fs, procs', nextPid'), nextPid <= nextPid',
           UNCHANGED <<fs, fds>>
    PROVE  KernelStep
  BY GrowsReflexive DEF KernelStep, KernelInv, Good

LEMMA SpawnStep ==
    ASSUME KernelInv, NEW ppid, NEW uid, NEW gid, NEW euid, NEW egid, NEW cwd,
           Given(fs, cwd), Spawn(Process(ppid, uid, gid, euid, egid, cwd))
    PROVE  /\ CallStep /\ nextPid' = nextPid + 1
           /\ UserIds(procs', nextPid) = <<uid, gid>>
           /\ EffectiveIds(procs', nextPid) = <<euid, egid>>
<1> DEFINE child == Process(ppid, uid, gid, euid, egid, cwd)
<1>1. /\ child.ppid = ppid /\ child.cwd = cwd /\ DOMAIN child = ProcessFields
      /\ <<child.uid, child.gid>> = <<uid, gid>>
      /\ <<child.euid, child.egid>> = <<euid, egid>>
  BY DEF Process, ProcessFields
<1> HIDE DEF child
<1>2. /\ ppid \in DOMAIN procs /\ nextPid <= MaxPid
      /\ procs' = With(procs, nextPid, child) /\ nextPid' = nextPid + 1
      /\ UNCHANGED <<fs, fds>>
  BY <1>1 DEF Spawn, NewPid, child
<1>3. /\ nextPid \in 2 .. (MaxPid + 1) /\ DOMAIN procs = 1 .. (nextPid - 1)
      /\ MaxPid \in Nat
      /\ \A p \in DOMAIN procs : ProcessOK(fs, p, procs[p])
  BY BoundsAssumption DEF KernelInv, ProcessesOK
<1>4. /\ nextPid \notin DOMAIN procs /\ procs'[nextPid] = child
      /\ \A p \in DOMAIN procs : procs'[p] = procs[p]
      /\ DOMAIN procs' = DOMAIN procs \cup {nextPid}
  BY <1>2, <1>3 DEF With
<1>5. ProcessOK(fs, nextPid, child)
  BY <1>1, <1>2, <1>3 DEF ProcessOK, InitPid
<1>6. DOMAIN procs' = 1 .. (nextPid' - 1) /\ nextPid' \in 2 .. (MaxPid + 1)
  BY <1>2, <1>3, <1>4
<1>7. ProcessesOK(fs, procs', nextPid')
  BY <1>3, <1>4, <1>5, <1>6 DEF ProcessesOK
<1>8. KernelStep
  BY <1>2, <1>3, <1>7, ProcessStep
<1> QED
  BY <1>1, <1>2, <1>4, <1>8 DEF CallStep, IdsKept, UserIds, EffectiveIds

\* Every process keeps its ids, or is one that keeps them under another parent.
LEMMA TableStep ==
    ASSUME KernelInv, DOMAIN procs' = DOMAIN procs, UNCHANGED <<fs, fds, nextPid>>,
           \A p \in DOMAIN procs :
              /\ DOMAIN procs'[p] = ProcessFields
              /\ \/ procs'[p].ppid = procs[p].ppid
                 \/ procs'[p].ppid = InitPid /\ p > InitPid
              /\ Given(fs, procs'[p].cwd)
              /\ <<procs'[p].uid, procs'[p].gid>> = <<procs[p].uid, procs[p].gid>>
              /\ <<procs'[p].euid, procs'[p].egid>> = <<procs[p].euid, procs[p].egid>>
    PROVE  CallStep
<1>1. ProcessesOK(fs, procs', nextPid')
  BY DEF KernelInv, ProcessesOK, ProcessOK, InitPid
<1>2. KernelStep
  BY <1>1, NextPidGrows, ProcessStep
<1> QED
  BY <1>2 DEF CallStep, IdsKept, UserIds, EffectiveIds

LEMMA SignalledTable ==
    ASSUME KernelInv, NEW table, DOMAIN table = DOMAIN procs,
           NEW pid \in DOMAIN procs, pid > InitPid, NEW signal \in Signals,
           \A p \in DOMAIN procs :
              /\ DOMAIN table[p] = ProcessFields
              /\ table[p].ppid = procs[p].ppid /\ table[p].cwd = procs[p].cwd
              /\ <<table[p].uid, table[p].gid>> = <<procs[p].uid, procs[p].gid>>
              /\ <<table[p].euid, table[p].egid>> = <<procs[p].euid, procs[p].egid>>,
           procs' = Signalled(table, pid, signal), UNCHANGED <<fs, fds, nextPid>>
    PROVE  CallStep
<1> DEFINE after == AfterSignal(table[pid], signal)
<1>1. /\ DOMAIN after = ProcessFields
      /\ after.ppid = table[pid].ppid /\ after.cwd = table[pid].cwd
      /\ <<after.uid, after.gid>> = <<table[pid].uid, table[pid].gid>>
      /\ <<after.euid, after.egid>> = <<table[pid].euid, table[pid].egid>>
  BY DEF AfterSignal, Signals, ProcessFields
<1> HIDE DEF after
<1>2. DOMAIN procs' = DOMAIN procs
  BY DEF Signalled
<1>3. \A p \in DOMAIN procs :
          procs'[p] = IF p = pid THEN after
                      ELSE IF after.state = "DEAD" /\ table[p].ppid = pid
                           THEN [table[p] EXCEPT !.ppid = InitPid]
                           ELSE table[p]
  BY DEF Signalled, after
<1>4. \A p \in DOMAIN procs : Given(fs, procs[p].cwd) /\ p \in Nat
                              /\ procs[p].ppid \in Nat /\ procs[p].ppid < p
  BY DEF KernelInv, ProcessesOK, ProcessOK
<1>5. ASSUME NEW p \in DOMAIN procs
      PROVE  /\ DOMAIN procs'[p] = ProcessFields
             /\ \/ procs'[p].ppid = procs[p].ppid
                \/ procs'[p].ppid = InitPid /\ p > InitPid
             /\ Given(fs, procs'[p].cwd)
             /\ <<procs'[p].uid, procs'[p].gid>> = <<procs[p].uid, procs[p].gid>>
             /\ <<procs'[p].euid, procs'[p].egid>> = <<procs[p].euid, procs[p].egid>>
  <2>1. CASE p = pid
    BY <1>1, <1>3, <1>4, <2>1
  <2>2. CASE p # pid /\ after.state = "DEAD" /\ table[p].ppid = pid
    <3>1. p > InitPid
      BY <1>4, <2>2 DEF InitPid
    <3>2. procs'[p] = [table[p] EXCEPT !.ppid = InitPid]
      BY <1>3, <2>2
    <3>3. DOMAIN table[p] = ProcessFields
      OBVIOUS
    <3>4. /\ DOMAIN procs'[p] = ProcessFields /\ procs'[p].ppid = InitPid
          /\ procs'[p].cwd = table[p].cwd
          /\ procs'[p].uid = table[p].uid /\ procs'[p].gid = table[p].gid
          /\ procs'[p].euid = table[p].euid /\ procs'[p].egid = table[p].egid
      BY <3>2, <3>3 DEF ProcessFields
    <3> QED
      BY <1>4, <3>1, <3>4
  <2>3. CASE p # pid /\ ~(after.state = "DEAD" /\ table[p].ppid = pid)
    BY <1>3, <1>4, <2>3
  <2> QED
    BY <2>1, <2>2, <2>3
<1> QED
  BY <1>2, <1>5, TableStep

LEMMA KillStep ==
    ASSUME KernelInv, NEW pid, NEW signal \in Signals, Kill(pid, signal)
    PROVE  CallStep
<1>1. \A p \in DOMAIN procs : DOMAIN procs[p] = ProcessFields
  BY DEF KernelInv, ProcessesOK, ProcessOK
<1> QED
  BY <1>1, SignalledTable DEF Kill, CanSignal

LEMMA ExitStep ==
    ASSUME KernelInv, NEW pid, NEW code, Exit(pid, code)
    PROVE  CallStep
<1> DEFINE marked == [procs EXCEPT ![pid].exitCode = code]
<1>1. /\ DOMAIN marked = DOMAIN procs
      /\ \A p \in DOMAIN procs :
            /\ DOMAIN marked[p] = ProcessFields
            /\ marked[p].ppid = procs[p].ppid /\ marked[p].cwd = procs[p].cwd
            /\ <<marked[p].uid, marked[p].gid>> = <<procs[p].uid, procs[p].gid>>
            /\ <<marked[p].euid, marked[p].egid>> = <<procs[p].euid, procs[p].egid>>
  <2>1. \A p \in DOMAIN procs : DOMAIN procs[p] = ProcessFields
    BY DEF KernelInv, ProcessesOK, ProcessOK
  <2>2. /\ DOMAIN marked = DOMAIN procs
        /\ \A p \in DOMAIN procs :
              marked[p] = IF p = pid THEN [procs[p] EXCEPT !.exitCode = code] ELSE procs[p]
    OBVIOUS
  <2> HIDE DEF marked
  <2> QED
    BY <2>1, <2>2 DEF ProcessFields
<1>2. CASE CanSignal(pid)
  <2>1. procs' = Signalled(marked, pid, "TERM") /\ UNCHANGED <<fs, fds, nextPid>>
    BY <1>2 DEF Exit
  <2>2. pid \in DOMAIN procs /\ pid > InitPid /\ "TERM" \in Signals
    BY <1>2 DEF CanSignal, Signals
  <2> HIDE DEF marked
  <2> QED
    BY <1>1, <2>1, <2>2, SignalledTable
<1>3. CASE ~CanSignal(pid)
  <2>1. procs' = marked /\ UNCHANGED <<fs, fds, nextPid>>
    BY <1>3 DEF Exit
  <2>2. \A p \in DOMAIN procs : Given(fs, procs[p].cwd)
    BY DEF KernelInv, ProcessesOK, ProcessOK
  <2> HIDE DEF marked
  <2> QED
    BY <1>1, <2>1, <2>2, TableStep
<1> QED
  BY <1>2, <1>3

-----------------------------------------------------------------------------
(* cleanup_dead removes nobody: going up the pids, the parent of a dead     *)
(* process is in the table and is no longer dead.                          *)

Gone(gone) ==
    gone = [pid \in 0 .. MaxPid |->
              /\ Dead(pid)
              /\ LET parent == procs[pid].ppid
                 IN \/ parent \notin DOMAIN procs
                    \/ IF parent < pid THEN gone[parent] ELSE Dead(parent)]

LEMMA NobodyRemoved ==
    ASSUME KernelInv
    PROVE  Removed = {}
<1> DEFINE none == [pid \in 0 .. MaxPid |-> FALSE]
           gone == CHOOSE g : Gone(g)
<1>1. /\ MaxPid \in Nat /\ nextPid \in 2 .. (MaxPid + 1)
      /\ DOMAIN procs = 1 .. (nextPid - 1)
  BY BoundsAssumption DEF KernelInv, ProcessesOK
<1>2. ASSUME NEW pid \in 0 .. MaxPid, Dead(pid)
      PROVE  /\ procs[pid].ppid \in DOMAIN procs /\ procs[pid].ppid < pid
             /\ procs[pid].ppid \in 0 .. MaxPid
  <2>1. pid \in DOMAIN procs /\ pid # InitPid
    BY <1>1, <1>2 DEF Dead, InitPid
  <2>2. /\ procs[pid].ppid \in Nat /\ procs[pid].ppid < pid
        /\ procs[pid].ppid >= InitPid
    BY <2>1 DEF KernelInv, ProcessesOK, ProcessOK
  <2> QED
    BY <1>1, <2>1, <2>2 DEF InitPid
<1>3. Gone(none)
  <2>1. \A pid \in 0 .. MaxPid :
          ~(/\ Dead(pid)
            /\ LET parent == procs[pid].ppid
               IN \/ parent \notin DOMAIN procs
                  \/ IF parent < pid THEN none[parent] ELSE Dead(parent))
    BY <1>2
  <2> HIDE DEF none
  <2>2. none = [pid \in 0 .. MaxPid |-> FALSE]
    BY DEF none
  <2> QED
    BY <2>1, <2>2, Zenon DEF Gone
<1>4. Gone(gone)
  BY <1>3
<1>5. Removed = {pid \in DOMAIN procs : gone[pid]}
  BY DEF Removed, Gone
<1> HIDE DEF gone
<1>6. ASSUME NEW pid \in DOMAIN procs, gone[pid] PROVE FALSE
  <2> DEFINE T == {p \in 0 .. MaxPid : gone[p]}
  <2>1. pid \in T /\ T \in SUBSET Nat
    BY <1>1, <1>6
  <2>2. PICK m \in T : \A k \in T : m <= k
    BY <2>1, LeastNumber
  <2>3. /\ Dead(m)
        /\ \/ procs[m].ppid \notin DOMAIN procs
           \/ IF procs[m].ppid < m THEN gone[procs[m].ppid] ELSE Dead(procs[m].ppid)
    BY <1>4, <2>2 DEF Gone
  <2>4. procs[m].ppid \in T /\ procs[m].ppid < m
    BY <1>2, <2>2, <2>3
  <2> QED
    BY <1>1, <2>1, <2>2, <2>4
<1> QED
  BY <1>5, <1>6

LEMMA CleanupStep ==
    ASSUME KernelInv, CleanupDead
    PROVE  CallStep
<1>1. /\ DOMAIN procs' = DOMAIN procs /\ UNCHANGED <<fs, fds, nextPid>>
      /\ \A p \in DOMAIN procs :
            procs'[p] = IF Dead(p) THEN [procs[p] EXCEPT !.state = "ZOMBIE"] ELSE procs[p]
  BY NobodyRemoved DEF CleanupDead
<1>2. \A p \in DOMAIN procs : DOMAIN procs[p] = ProcessFields /\ Given(fs, procs[p].cwd)
  BY DEF KernelInv, ProcessesOK, ProcessOK
<1>3. \A p \in DOMAIN procs :
          /\ DOMAIN procs'[p] = ProcessFields /\ procs'[p].ppid = procs[p].ppid
          /\ procs'[p].cwd = procs[p].cwd
          /\ procs'[p].uid = procs[p].uid /\ procs'[p].gid = procs[p].gid
          /\ procs'[p].euid = procs[p].euid /\ procs'[p].egid = procs[p].egid
  BY <1>1, <1>2 DEF ProcessFields
<1> QED
  BY <1>1, <1>2, <1>3, TableStep

-----------------------------------------------------------------------------
(* The calls on files.                                                     *)

LEMMA DirectoryGiven ==
    ASSUME NEW f, Good(f), NEW i, Exists(f, i)
    PROVE  Given(f, i)
  BY DEF Good, IsVfs, IsTree, Exists, Given

LEMMA OpenStep ==
    ASSUME KernelInv, NEW pid, NEW path, NEW writes, NEW creates, NEW mode,
           Open(pid, path, writes, creates, mode)
    PROVE  CallStep
<1> DEFINE self == procs[pid]
           found == Resolve(fs, path, self.cwd, TRUE)
           making == found = NoInode /\ creates
           ino == IF making THEN CreatedIno(fs, path, self.cwd) ELSE found
           after == IF making THEN CreateFile(fs, path, mode, self.euid, self.egid, <<>>, self.cwd)
                    ELSE fs
           entry == [inode |-> ino, offset |-> 0]
<1>1. /\ fs' = after /\ UNCHANGED <<procs, nextPid>>
      /\ \/ fds' = fds
         \/ /\ Exists(after, ino)
            /\ fds' = [fds EXCEPT ![pid] = With(@, LowestFd(pid), entry)]
  BY DEF Open
<1>2. Good(after) /\ Grows(fs, after)
  BY CreateFileTree, GrowsReflexive DEF KernelInv, Good
<1>3. DOMAIN entry = {"inode", "offset"} /\ entry.inode = ino
  OBVIOUS
<1> HIDE DEF after, ino, entry
<1>4. EntriesOK(after, fds)
  BY <1>2, EntriesGrow DEF KernelInv, Good
<1>5. CASE fds' = fds
  BY <1>1, <1>2, <1>4, <1>5, FileStep
<1>6. CASE /\ Exists(after, ino)
           /\ fds' = [fds EXCEPT ![pid] = With(@, LowestFd(pid), entry)]
  <2>1. Given(after, ino)
    BY <1>2, <1>6, DirectoryGiven
  <2>2. ASSUME NEW p \in DOMAIN fds', NEW fd \in DOMAIN fds'[p]
        PROVE  DOMAIN fds'[p][fd] = {"inode", "offset"} /\ Given(after, fds'[p][fd].inode)
    <3>1. p \in DOMAIN fds
      BY <1>6
    <3>2. CASE p = pid /\ fd = LowestFd(pid)
      <4>1. fds'[p][fd] = entry
        BY <1>6, <3>1, <3>2 DEF With
      <4> QED
        BY <1>3, <2>1, <4>1
    <3>3. CASE ~(p = pid /\ fd = LowestFd(pid))
      <4>1. fd \in DOMAIN fds[p] /\ fds'[p][fd] = fds[p][fd]
        BY <1>6, <2>2, <3>1, <3>3 DEF With
      <4> QED
        BY <1>4, <3>1, <4>1 DEF EntriesOK
    <3> QED
      BY <3>2, <3>3
  <2>3. EntriesOK(after, fds')
    BY <2>2 DEF EntriesOK
  <2> QED
    BY <1>1, <1>2, <2>3, FileStep
<1> QED
  BY <1>1, <1>5, <1>6

\* An offset moves, or an entry goes.
LEMMA OffsetsOK ==
    ASSUME NEW f, EntriesOK(f, fds), NEW pid, NEW fd, NEW offset
    PROVE  EntriesOK(f, [fds EXCEPT ![pid][fd].offset = offset])
<1> DEFINE new == [fds EXCEPT ![pid][fd].offset = offset]
<1>1. DOMAIN new = DOMAIN fds
  OBVIOUS
<1>2. ASSUME NEW p \in DOMAIN fds, NEW d \in DOMAIN new[p]
      PROVE  DOMAIN new[p][d] = {"inode", "offset"} /\ Given(f, new[p][d].inode)
  <2>1. d \in DOMAIN fds[p]
    BY <1>2
  <2>2. DOMAIN fds[p][d] = {"inode", "offset"} /\ Given(f, fds[p][d].inode)
    BY <2>1 DEF EntriesOK
  <2>3. CASE p = pid /\ d = fd
    <3>1. new[p][d] = [fds[p][d] EXCEPT !.offset = offset]
      BY <2>1, <2>3
    <3> QED
      BY <2>2, <3>1
  <2>4. CASE ~(p = pid /\ d = fd)
    <3>1. new[p][d] = fds[p][d]
      BY <2>1, <2>4
    <3> QED
      BY <2>2, <3>1
  <2> QED
    BY <2>3, <2>4
<1> QED
  BY <1>1, <1>2 DEF EntriesOK

LEMMA ReadStep ==
    ASSUME KernelInv, NEW pid, NEW fd, NEW count, Read(pid, fd, count)
    PROVE  CallStep
<1>1. PICK offset : fds' = [fds EXCEPT ![pid][fd].offset = offset]
  BY DEF Read
<1>2. EntriesOK(fs, fds')
  BY <1>1, OffsetsOK DEF KernelInv
<1> QED
  BY <1>2, FileStep, GrowsReflexive DEF Read, KernelInv, Good

LEMMA WriteStep ==
    ASSUME KernelInv, NEW pid, NEW fd, NEW data, Write(pid, fd, data)
    PROVE  CallStep
<1>1. PICK offset : fds' = [fds EXCEPT ![pid][fd].offset = offset]
  BY DEF Write
<1>2. PICK ino \in DOMAIN fs.inodes : \E content : fs' = Stored(fs, ino, content)
  BY DEF Write, IsFile, Exists
<1>3. Good(fs') /\ Grows(fs, fs')
  BY <1>2, StoredTree DEF KernelInv
<1>4. EntriesOK(fs', fds)
  BY <1>3, EntriesGrow DEF KernelInv, Good
<1>5. EntriesOK(fs', fds')
  BY <1>1, <1>4, OffsetsOK
<1> QED
  BY <1>3, <1>5, FileStep DEF Write

LEMMA CloseStep ==
    ASSUME KernelInv, NEW pid, NEW fd, Close(pid, fd)
    PROVE  CallStep
<1>1. fds' = [fds EXCEPT ![pid] = [f \in DOMAIN @ \ {fd} |-> @[f]]]
  BY DEF Close
<1>2. EntriesOK(fs, fds')
  BY <1>1 DEF EntriesOK, KernelInv
<1> QED
  BY <1>2, FileStep, GrowsReflexive DEF Close, KernelInv, Good

LEMMA ChdirStep ==
    ASSUME KernelInv, NEW pid, NEW ino, IsDir(fs, ino), procs' = [procs EXCEPT ![pid].cwd = ino],
           UNCHANGED <<fs, nextPid, fds>>
    PROVE  CallStep
<1>1. Given(fs, ino)
  BY DirectoryGiven DEF IsDir, KernelInv
<1>2. \A p \in DOMAIN procs : DOMAIN procs[p] = ProcessFields /\ Given(fs, procs[p].cwd)
  BY DEF KernelInv, ProcessesOK, ProcessOK
<1>3. /\ DOMAIN procs' = DOMAIN procs
      /\ \A p \in DOMAIN procs :
            procs'[p] = IF p = pid THEN [procs[p] EXCEPT !.cwd = ino] ELSE procs[p]
  OBVIOUS
<1> QED
  BY <1>1, <1>2, <1>3, TableStep DEF ProcessFields

LEMMA DirectoryStep ==
    ASSUME KernelInv, NEW pid, DirectoryCall(pid)
    PROVE  CallStep
<1>1. PICK path \in Paths : \/ \E mode \in Modes : MkdirCall(pid, path, mode)
                            \/ UnlinkCall(pid, path)
                            \/ Chdir(pid, path)
  BY DEF DirectoryCall
<1>2. CASE \E mode \in Modes : MkdirCall(pid, path, mode)
  BY <1>2, MkdirTree, TreeStep DEF MkdirCall, KernelInv
<1>3. CASE UnlinkCall(pid, path)
  BY <1>3, UnlinkTree, TreeStep DEF UnlinkCall, KernelInv
<1>4. CASE Chdir(pid, path)
  BY <1>4, ChdirStep DEF Chdir, MoveTo
<1> QED
  BY <1>1, <1>2, <1>3, <1>4

LEMMA FileCallStep ==
    ASSUME KernelInv, NEW pid, FileCall(pid)
    PROVE  CallStep
  BY OpenStep, ReadStep, WriteStep, CloseStep DEF FileCall

LEMMA AttributesTree ==
    ASSUME NEW f, Good(f), NEW ino \in DOMAIN f.inodes, NEW mode, NEW uid, NEW gid
    PROVE  LET m == [f EXCEPT !.inodes[ino].mode = mode]
               o == [f EXCEPT !.inodes[ino].uid = uid, !.inodes[ino].gid = gid]
           IN /\ Good(m) /\ Grows(f, m)
              /\ Good(o) /\ Grows(f, o)
<1>1. /\ DOMAIN f = {"inodes", "next"}
      /\ \A i \in DOMAIN f.inodes : DOMAIN f.inodes[i] = NodeFields
  BY DEF Good, IsVfs
<1>2. LET m == [f EXCEPT !.inodes[ino].mode = mode] IN Good(m) /\ Grows(f, m)
  BY <1>1, SameTree DEF NodeFields
<1>3. LET o == [f EXCEPT !.inodes[ino].uid = uid, !.inodes[ino].gid = gid]
      IN Good(o) /\ Grows(f, o)
  BY <1>1, SameTree DEF NodeFields
<1> QED
  BY <1>2, <1>3

\* Both redirections of a command.
LEMMA RedirectTree ==
    ASSUME Good(fs), NEW command, NEW text, NEW process
    PROVE  LET g == Redirected(command, text, process) IN Good(g) /\ Grows(fs, g)
<1> DEFINE out == OutputTo(fs, command, text, process)
           g == ErrorsTo(out, command, text, process)
<1>1. ASSUME NEW f, Good(f), NEW path
      PROVE  /\ Good(Extended(f, path, text, process)) /\ Grows(f, Extended(f, path, text, process))
             /\ Good(WriteFile(f, path, text, process.cwd))
             /\ Grows(f, WriteFile(f, path, text, process.cwd))
             /\ Good(ToFile(f, path, text, process)) /\ Grows(f, ToFile(f, path, text, process))
             /\ Grows(f, f)
  BY <1>1, WriteFileTree, CreateFileTree, GrowsReflexive DEF Extended, ToFile, Good
<1>2. Good(out) /\ Grows(fs, out)
  BY <1>1 DEF OutputTo
<1> HIDE DEF out
<1>3. Good(g) /\ Grows(out, g)
  BY <1>1, <1>2 DEF ErrorsTo
<1> HIDE DEF g
<1>4. Grows(fs, g)
  BY <1>2, <1>3, GrowsTransitive DEF Good
<1> QED
  BY <1>3, <1>4 DEF Redirected, g, out

LEMMA VfsCallStep ==
    ASSUME KernelInv, NEW s, VfsCall(s)
    PROVE  CallStep
<1>1. UNCHANGED <<procs, nextPid, fds>> /\ Good(fs)
  BY DEF VfsCall, KernelInv
<1>2. PICK path \in Paths :
          \/ \E mode \in Modes : fs' = VfsMkdir(Frame(s), path, mode)
          \/ \E mode \in Modes, text \in Texts : fs' = VfsCreate(Frame(s), path, mode, text)
          \/ \E text \in Texts : fs' = VfsWrite(Frame(s), path, text)
          \/ fs' = VfsUnlink(Frame(s), path)
          \/ \E mode \in Modes : fs' = VfsChmod(Frame(s), path, mode)
          \/ \E uid \in DOMAIN Perms.users : fs' = VfsChown(Frame(s), path, uid, Perms.users[uid].gid)
  BY DEF VfsCall
<1>3. CASE \E mode \in Modes : fs' = VfsMkdir(Frame(s), path, mode)
  BY <1>1, <1>3, MkdirTree, TreeStep DEF VfsMkdir
<1>4. CASE \E mode \in Modes, text \in Texts : fs' = VfsCreate(Frame(s), path, mode, text)
  BY <1>1, <1>4, CreateFileTree, TreeStep DEF VfsCreate
<1>5. CASE \E text \in Texts : fs' = VfsWrite(Frame(s), path, text)
  BY <1>1, <1>5, WriteFileTree, TreeStep DEF VfsWrite
<1>6. CASE fs' = VfsUnlink(Frame(s), path)
  BY <1>1, <1>6, UnlinkTree, TreeStep DEF VfsUnlink
<1>7. CASE \E mode \in Modes : fs' = VfsChmod(Frame(s), path, mode)
  <2>1. PICK mode \in Modes : fs' = VfsChmod(Frame(s), path, mode)
    BY <1>7
  <2>2. Good(fs') /\ Grows(fs, fs')
    BY <1>1, <2>1, AttributesTree, GrowsReflexive DEF VfsChmod, Exists, Good
  <2> QED
    BY <1>1, <2>2, TreeStep
<1>8. CASE \E uid \in DOMAIN Perms.users : fs' = VfsChown(Frame(s), path, uid, Perms.users[uid].gid)
  <2>1. PICK uid : fs' = VfsChown(Frame(s), path, uid, Perms.users[uid].gid)
    BY <1>8
  <2>2. Good(fs') /\ Grows(fs, fs')
    BY <1>1, <2>1, AttributesTree, GrowsReflexive DEF VfsChown, Exists, Good
  <2> QED
    BY <1>1, <2>2, TreeStep
<1> QED
  BY <1>2, <1>3, <1>4, <1>5, <1>6, <1>7, <1>8

\* One process is replaced and the file system changed.
LEMMA ReplaceProcess ==
    ASSUME KernelInv, NEW pid \in DOMAIN procs, NEW r,
           DOMAIN r = ProcessFields, r.ppid = procs[pid].ppid, Given(fs, r.cwd),
           NEW g, Good(g), Grows(fs, g), fs' = g,
           procs' = [procs EXCEPT ![pid] = r], UNCHANGED <<fds, nextPid>>
    PROVE  /\ KernelStep /\ IdsKeptBut(pid)
           /\ UserIds(procs', pid) = <<r.uid, r.gid>>
           /\ EffectiveIds(procs', pid) = <<r.euid, r.egid>>
<1>1. ProcessesOK(fs, procs', nextPid)
  BY DEF KernelInv, ProcessesOK, ProcessOK
<1>2. ProcessesOK(fs', procs', nextPid') /\ EntriesOK(fs', fds')
  BY <1>1, ProcessesGrow, EntriesGrow DEF KernelInv, Good
<1>3. KernelStep
  BY <1>2, NextPidGrows DEF KernelStep, KernelInv
<1> QED
  BY <1>3 DEF IdsKeptBut, UserIds, EffectiveIds

-----------------------------------------------------------------------------
(* Sessions.                                                               *)

LEMMA StackTop ==
    ASSUME NEW f, NEW stack, NEW out, NEW user, NEW effective,
           StackOK(f, stack, out, user, effective), stack # <<>>
    PROVE  /\ Len(stack) \in Nat \ {0} /\ Len(stack) \in 1 .. Len(stack)
           /\ LevelOK(f, stack[Len(stack)])
<1>1. PICK S : stack \in Seq(S)
  BY DEF StackOK
<1>2. Len(stack) \in Nat \ {0}
  BY <1>1
<1> QED
  BY <1>2 DEF StackOK

LEMMA ActiveSession ==
    ASSUME KernelInv, SessionInv, NEW s \in Sessions, ~AtPrompt(s)
    PROVE  /\ Pid(s) # NoPid /\ Pid(s) \in DOMAIN procs
           /\ StackOK(fs, Stack(s), escaped[s], UserIds(procs, Pid(s)), EffectiveIds(procs, Pid(s)))
           /\ Stack(s) # <<>>
           /\ LevelOK(fs, Top(s))
           /\ InScript(s) => Top(s).script = <<Frame(s)>> /\ FrameOK(fs, Frame(s))
<1>1. /\ SessionOK(s) /\ Stack(s) # <<>> /\ Pid(s) # NoPid
  BY DEF SessionInv, SessionOK, AtPrompt
<1>2. Pid(s) \in DOMAIN procs
  BY <1>1 DEF SessionOK, KernelInv, ProcessesOK, NoPid
<1>3. StackOK(fs, Stack(s), escaped[s], UserIds(procs, Pid(s)), EffectiveIds(procs, Pid(s)))
  BY <1>1 DEF SessionOK
<1>4. LevelOK(fs, Top(s))
  BY <1>1, <1>3, StackTop DEF Top
<1>5. ASSUME InScript(s) PROVE Top(s).script = <<Frame(s)>> /\ FrameOK(fs, Frame(s))
  <2>1. PICK frame : Top(s).script = <<frame>> /\ FrameOK(fs, frame)
    BY <1>4, <1>5 DEF InScript, LevelOK
  <2>2. Frame(s) = frame
    BY <2>1 DEF Frame
  <2> QED
    BY <2>1, <2>2
<1> QED
  BY <1>1, <1>2, <1>3, <1>4, <1>5

\* One session moves; the others run in other processes.
LEMMA SessionStep ==
    ASSUME KernelInv, SessionInv, KernelStep, NEW s \in Sessions, Pid(s) # NoPid,
           IdsKeptBut(Pid(s)),
           NEW stack, shell' = [shell EXCEPT ![s].stack = stack],
           DOMAIN escaped' = Sessions, \A t \in Sessions \ {s} : escaped'[t] = escaped[t],
           StackOK(fs', stack, escaped'[s], UserIds(procs', Pid(s)), EffectiveIds(procs', Pid(s)))
    PROVE  SessionInv'
<1>1. /\ DOMAIN shell' = Sessions
      /\ \A t \in Sessions \ {s} : shell'[t] = shell[t]
      /\ shell'[s] = [shell[s] EXCEPT !.stack = stack]
  BY DEF SessionInv
<1>2. /\ DOMAIN shell'[s] = {"pid", "stack"} /\ shell'[s].pid = Pid(s)
      /\ shell'[s].stack = stack
  BY <1>1 DEF SessionInv, SessionOK, Pid
<1>3. nextPid \in Nat /\ nextPid' \in Nat /\ nextPid <= nextPid'
  BY DEF KernelStep, KernelInv, ProcessesOK
<1>4. SessionOK(s)'
  BY <1>2, <1>3 DEF SessionInv, SessionOK, Pid, Stack
<1>5. ASSUME NEW t \in Sessions \ {s} PROVE SessionOK(t)'
  <2>1. /\ SessionOK(t) /\ Pid(t) \in Nat /\ Pid(t) < nextPid
        /\ Pid(t) # NoPid => Pid(t) # Pid(s)
    BY DEF SessionInv, SessionOK
  <2>2. Pid(t) # NoPid => Pid(t) \in DOMAIN procs \ {Pid(s)}
    BY <2>1 DEF KernelInv, ProcessesOK, NoPid
  <2>3. ASSUME Pid(t) # NoPid
        PROVE  StackOK(fs', Stack(t), escaped[t], UserIds(procs', Pid(t)), EffectiveIds(procs', Pid(t)))
    <3>1. StackOK(fs', Stack(t), escaped[t], UserIds(procs, Pid(t)), EffectiveIds(procs, Pid(t)))
      BY <2>1, <2>3, StackGrows DEF SessionOK, KernelStep, KernelInv, Good
    <3> QED
      BY <2>2, <2>3, <3>1 DEF IdsKeptBut
  <2> QED
    BY <1>1, <1>3, <2>1, <2>3 DEF SessionOK, Pid, Stack
<1>6. \A t \in Sessions : Pid(t)' = Pid(t)
  BY <1>1, <1>2 DEF Pid
<1> QED
  BY <1>1, <1>4, <1>5, <1>6 DEF SessionInv

\* A session that does nothing in a call that changes nobody's ids.
LEMMA KeptSession ==
    ASSUME KernelInv, SessionInv, CallStep, NEW t \in Sessions,
           shell'[t] = shell[t], escaped'[t] = escaped[t]
    PROVE  SessionOK(t)'
<1>1. nextPid \in Nat /\ nextPid' \in Nat /\ nextPid <= nextPid'
  BY DEF CallStep, KernelStep, KernelInv, ProcessesOK
<1>2. SessionOK(t) /\ Pid(t) \in Nat /\ Pid(t) < nextPid
  BY DEF SessionInv, SessionOK
<1>3. Pid(t) # NoPid => Pid(t) \in DOMAIN procs
  BY <1>2 DEF KernelInv, ProcessesOK, NoPid
<1>4. ASSUME Pid(t) # NoPid
      PROVE  StackOK(fs', Stack(t), escaped[t], UserIds(procs', Pid(t)), EffectiveIds(procs', Pid(t)))
  <2>1. StackOK(fs', Stack(t), escaped[t], UserIds(procs, Pid(t)), EffectiveIds(procs, Pid(t)))
    BY <1>2, <1>4, StackGrows DEF SessionOK, CallStep, KernelStep, KernelInv, Good
  <2> QED
    BY <1>3, <1>4, <2>1 DEF CallStep, IdsKept
<1> QED
  BY <1>1, <1>2, <1>4 DEF SessionOK, Pid, Stack

LEMMA QuietSessions ==
    ASSUME KernelInv, SessionInv, CallStep, shell' = shell, escaped' = escaped
    PROVE  SessionInv'
<1>1. \A t \in Sessions : SessionOK(t)'
  BY KeptSession
<1> QED
  BY <1>1 DEF SessionInv, Pid

LEMMA QuietKernel ==
    ASSUME KernelInv, UNCHANGED kernelVars
    PROVE  CallStep
<1>1. ProcessesOK(fs, procs', nextPid')
  BY DEF KernelInv, kernelVars
<1>2. KernelStep
  BY <1>1, NextPidGrows, ProcessStep DEF kernelVars
<1> QED
  BY <1>2 DEF CallStep, IdsKept, kernelVars

LEMMA KeptBut ==
    ASSUME IdsKept, NEW p
    PROVE  IdsKeptBut(p)
  BY DEF IdsKept, IdsKeptBut

\* Become replaces the last level.
LEMMA BecomeStack ==
    ASSUME SessionInv, NEW s \in Sessions, NEW level, Become(s, level)
    PROVE  shell' = [shell EXCEPT ![s].stack = [Stack(s) EXCEPT ![Len(Stack(s))] = level]]
  BY DEF Become, SessionInv, SessionOK, Stack

\* What the last level says of the effective ids.
LEMMA LastLevel ==
    ASSUME NEW f, NEW stack, NEW out, NEW user, NEW effective,
           StackOK(f, stack, out, user, effective),
           stack # <<>>, NEW top, top = stack[Len(stack)]
    PROVE  LET below == IdsAt(stack, Len(stack) - 1, user)
           IN /\ \A e \in out : e \in Nat
              /\ top.script # <<>> =>
                    /\ out = {} => effective = <<top.script[1].euid, top.script[1].egid>>
                    /\ Before(out, Len(stack)) =>
                          <<top.script[1].oldEuid, top.script[1].oldEgid>> = below
              /\ top.script = <<>> =>
                    /\ Before(out, Len(stack)) => out = {} /\ effective = below
                    /\ \A e \in out : e < Len(stack)
<1>1. Len(stack) \in Nat \ {0} /\ Len(stack) \in 1 .. Len(stack)
  BY StackTop
<1>2. out = {} => effective = IdsAt(stack, Depth(stack), user)
  BY DEF StackOK
<1>3. ASSUME top.script # <<>>
      PROVE  /\ out = {} => effective = <<top.script[1].euid, top.script[1].egid>>
             /\ Before(out, Len(stack)) =>
                   <<top.script[1].oldEuid, top.script[1].oldEgid>> = IdsAt(stack, Len(stack) - 1, user)
  <2>1. Depth(stack) = Len(stack)
    BY <1>3 DEF Depth
  <2>2. Before(out, Len(stack)) => SavedAt(stack, Len(stack)) = IdsAt(stack, Len(stack) - 1, user)
    BY <1>1, <1>3 DEF StackOK
  <2>3. IdsAt(stack, Len(stack), user) = <<top.script[1].euid, top.script[1].egid>>
    BY <1>1 DEF IdsAt
  <2> QED
    BY <1>2, <2>1, <2>2, <2>3 DEF SavedAt
<1>4. Depth(stack) = IF top.script = <<>> THEN Len(stack) - 1 ELSE Len(stack)
  BY DEF Depth
<1>5. \A e \in out : e \in 0 .. Depth(stack)
  BY DEF StackOK
<1>6. \A e \in out : e \in Nat /\ (top.script = <<>> => e < Len(stack))
  BY <1>1, <1>4, <1>5
<1>7. ASSUME top.script = <<>>, Before(out, Len(stack)) PROVE out = {}
  BY <1>1, <1>6, <1>7 DEF Before
<1> QED
  BY <1>2, <1>3, <1>4, <1>6, <1>7

\* A step that replaces the last level of a session.
LEMMA LevelStep ==
    ASSUME KernelInv, SessionInv, KernelStep, NEW s \in Sessions, ~AtPrompt(s),
           IdsKeptBut(Pid(s)), UserIds(procs', Pid(s)) = UserIds(procs, Pid(s)),
           NEW level, LevelOK(fs', level), Become(s, level),
           NEW below, below = IdsAt(Stack(s), Len(Stack(s)) - 1, UserIds(procs, Pid(s))),
           DOMAIN escaped' = Sessions, \A t \in Sessions \ {s} : escaped'[t] = escaped[t],
           NEW out, out = escaped'[s],
           out \subseteq escaped[s], \A e \in escaped[s] : e < Len(Stack(s)) => e \in out,
           level.script # <<>> =>
              /\ out = {} => EffectiveIds(procs', Pid(s)) = <<level.script[1].euid, level.script[1].egid>>
              /\ Before(out, Len(Stack(s))) =>
                    <<level.script[1].oldEuid, level.script[1].oldEgid>> = below,
           level.script = <<>> =>
              /\ out = {} => EffectiveIds(procs', Pid(s)) = below
              /\ \A e \in out : e < Len(Stack(s))
    PROVE  SessionInv'
<1> DEFINE stack == Stack(s)
           user == UserIds(procs, Pid(s))
           after == EffectiveIds(procs', Pid(s))
           old == escaped[s]
<1>1. /\ Pid(s) # NoPid /\ stack # <<>>
      /\ StackOK(fs, stack, old, user, EffectiveIds(procs, Pid(s)))
  BY ActiveSession
<1>2. StackOK(fs', stack, old, user, EffectiveIds(procs, Pid(s)))
  BY <1>1, StackGrows DEF KernelStep, KernelInv, Good
<1>3. shell' = [shell EXCEPT ![s].stack = [stack EXCEPT ![Len(stack)] = level]]
  BY BecomeStack
<1>4. /\ below = IdsAt(stack, Len(stack) - 1, user)
      /\ out \subseteq old /\ \A e \in old : e < Len(stack) => e \in out
  OBVIOUS
<1>5. /\ level.script # <<>> =>
            /\ out = {} => after = <<level.script[1].euid, level.script[1].egid>>
            /\ Before(out, Len(stack)) =>
                  <<level.script[1].oldEuid, level.script[1].oldEgid>> = below
      /\ level.script = <<>> =>
            /\ out = {} => after = below
            /\ \A e \in out : e < Len(stack)
  OBVIOUS
<1>6. user = UserIds(procs', Pid(s)) /\ after = EffectiveIds(procs', Pid(s))
  OBVIOUS
<1> HIDE DEF stack, user, after, old
<1>7. StackOK(fs', [stack EXCEPT ![Len(stack)] = level], out, user, after)
  BY <1>1, <1>2, <1>4, <1>5, ReplaceLevel
<1> QED
  BY <1>1, <1>3, <1>6, <1>7, SessionStep

\* What the last level is before such a step.
LEMMA ActiveLevel ==
    ASSUME KernelInv, SessionInv, NEW s \in Sessions, ~AtPrompt(s)
    PROVE  LET below == IdsAt(Stack(s), Len(Stack(s)) - 1, UserIds(procs, Pid(s)))
               effective == EffectiveIds(procs, Pid(s))
           IN /\ \A e \in escaped[s] : e \in Nat
              /\ Top(s).script # <<>> =>
                    /\ escaped[s] = {} => effective = <<Top(s).script[1].euid, Top(s).script[1].egid>>
                    /\ Before(escaped[s], Len(Stack(s))) =>
                          <<Top(s).script[1].oldEuid, Top(s).script[1].oldEgid>> = below
              /\ Top(s).script = <<>> =>
                    /\ Before(escaped[s], Len(Stack(s))) => escaped[s] = {} /\ effective = below
                    /\ \A e \in escaped[s] : e < Len(Stack(s))
<1>1. /\ StackOK(fs, Stack(s), escaped[s], UserIds(procs, Pid(s)), EffectiveIds(procs, Pid(s)))
      /\ Stack(s) # <<>>
  BY ActiveSession
<1> QED
  BY <1>1, LastLevel DEF Top

\* With no exception that has come to the session, every level is before it.
LEMMA NoneEscaped ==
    ASSUME NEW out, out = {}, NEW k
    PROVE  Before(out, k)
  BY DEF Before

\* A step that replaces the last level by one with the same script.
LEMMA SameScript ==
    ASSUME KernelInv, SessionInv, KernelStep, NEW s \in Sessions, ~AtPrompt(s),
           IdsKeptBut(Pid(s)),
           UserIds(procs', Pid(s)) = UserIds(procs, Pid(s)),
           EffectiveIds(procs', Pid(s)) = EffectiveIds(procs, Pid(s)),
           Become(s, Skipped(s)), escaped' = escaped
    PROVE  SessionInv'
<1>1. LevelOK(fs, Top(s))
  BY ActiveSession
<1>2. LevelOK(fs', Top(s))
  BY <1>1, GivenGrows DEF LevelOK, FrameOK, KernelStep, KernelInv, Good
<1>3. Skipped(s).script = Top(s).script /\ DOMAIN Skipped(s) = {"todo", "script"}
  BY <1>2 DEF LevelOK, Skipped
<1>4. LevelOK(fs', Skipped(s))
  BY <1>2, <1>3 DEF LevelOK
<1>5. escaped'[s] = escaped[s] /\ DOMAIN escaped' = Sessions
  BY DEF SessionInv
<1> QED
  BY <1>3, <1>4, <1>5, ActiveLevel, NoneEscaped, LevelStep

-----------------------------------------------------------------------------
(* The actions.                                                            *)

LEMMA EmptyStack ==
    ASSUME NEW f, NEW user
    PROVE  StackOK(f, <<>>, {}, user, user)
  BY DEF StackOK, Depth, IdsAt

LEMMA LoginInv ==
    ASSUME KernelInv, SessionInv, NEW s \in Sessions, NEW uid, NEW password,
           Login(s, uid, password)
    PROVE  KernelStep /\ SessionInv'
<1> DEFINE user == Perms.users[uid]
           home == Resolve(fs, user.home, Root, TRUE)
           cwd == IF home = NoInode THEN Root ELSE home
<1>1. /\ AtPrompt(s)
      /\ Spawn(Process(InitPid, uid, user.gid, uid, user.gid, cwd))
      /\ shell' = [shell EXCEPT ![s].pid = nextPid]
      /\ escaped' = [escaped EXCEPT ![s] = {}]
  BY DEF Login, NewPid
<1>2. Given(fs, Root)
  BY DirectoryGiven DEF KernelInv, Good, IsTree, RootIsRoot, Directories, Exists
<1>3. Given(fs, cwd)
  BY <1>2, ResolveGiven DEF KernelInv
<1> HIDE DEF cwd
<1>4. /\ CallStep /\ nextPid' = nextPid + 1
      /\ UserIds(procs', nextPid) = <<uid, user.gid>>
      /\ EffectiveIds(procs', nextPid) = <<uid, user.gid>>
  BY <1>1, <1>3, SpawnStep
<1>5. /\ DOMAIN shell' = Sessions
      /\ \A t \in Sessions \ {s} : shell'[t] = shell[t]
      /\ shell'[s] = [shell[s] EXCEPT !.pid = nextPid]
      /\ DOMAIN escaped' = Sessions /\ escaped'[s] = {}
      /\ \A t \in Sessions \ {s} : escaped'[t] = escaped[t]
  BY <1>1 DEF SessionInv
<1>6. DOMAIN shell'[s] = {"pid", "stack"} /\ shell'[s].pid = nextPid /\ shell'[s].stack = <<>>
  BY <1>1, <1>5 DEF SessionInv, SessionOK, AtPrompt, Stack
<1>7. nextPid \in Nat /\ nextPid # NoPid
  BY DEF KernelInv, ProcessesOK, NoPid
<1>8. SessionOK(s)'
  BY <1>4, <1>5, <1>6, <1>7, EmptyStack DEF SessionOK, Pid, Stack
<1>9. \A t \in Sessions \ {s} : SessionOK(t)' /\ Pid(t)' = Pid(t) /\ Pid(t) # nextPid
  BY <1>4, <1>5, <1>7, KeptSession DEF Pid, SessionInv, SessionOK
<1>10. Pid(s)' = nextPid
  BY <1>6 DEF Pid
<1>11. ASSUME NEW t \in Sessions, NEW u \in Sessions, t # u, Pid(t)' # NoPid
       PROVE  Pid(t)' # Pid(u)'
  BY <1>9, <1>10, <1>11 DEF SessionInv
<1> QED
  BY <1>4, <1>5, <1>8, <1>9, <1>11 DEF SessionInv, CallStep

LEMMA EnterInv ==
    ASSUME KernelInv, SessionInv, NEW s \in Sessions, NEW pipeline, Enter(s, pipeline)
    PROVE  KernelStep /\ SessionInv'
<1>1. /\ Stack(s) = <<>> /\ Pid(s) # NoPid /\ UNCHANGED kernelVars /\ escaped' = escaped
      /\ shell' = [shell EXCEPT ![s].stack = <<Level(pipeline)>>]
  BY DEF Enter, AtPrompt
<1>2. CallStep
  BY <1>1, QuietKernel
<1>3. LevelOK(fs, Level(pipeline)) /\ Level(pipeline).script = <<>>
  BY DEF LevelOK, Level
<1>4. StackOK(fs, <<>>, escaped[s], UserIds(procs, Pid(s)), EffectiveIds(procs, Pid(s)))
  BY <1>1 DEF SessionInv, SessionOK
<1>5. Append(<<>>, Level(pipeline)) = <<Level(pipeline)>>
  OBVIOUS
<1>6. StackOK(fs, <<Level(pipeline)>>, escaped[s], UserIds(procs, Pid(s)), EffectiveIds(procs, Pid(s)))
  BY <1>3, <1>4, <1>5, PushLevel
<1>7. StackOK(fs', <<Level(pipeline)>>, escaped'[s], UserIds(procs', Pid(s)), EffectiveIds(procs', Pid(s)))
  BY <1>1, <1>6 DEF kernelVars
<1>8. KernelStep /\ IdsKeptBut(Pid(s))
  BY <1>2, KeptBut DEF CallStep
<1> QED
  BY <1>1, <1>7, <1>8, SessionStep DEF SessionInv

\* The process of a session that executes something, as a call or a command finds it.
LEMMA ActiveProcess ==
    ASSUME KernelInv, SessionInv, NEW s \in Sessions, ~AtPrompt(s)
    PROVE  /\ Pid(s) \in DOMAIN procs /\ Good(fs)
           /\ DOMAIN procs[Pid(s)] = ProcessFields
           /\ Given(fs, procs[Pid(s)].cwd)
  BY ActiveSession DEF KernelInv, ProcessesOK, ProcessOK

LEMMA RefuseInv ==
    ASSUME KernelInv, SessionInv, NEW s \in Sessions, RefuseCommand(s)
    PROVE  KernelStep /\ SessionInv'
<1>1. /\ ~AtPrompt(s) /\ Become(s, Skipped(s)) /\ UNCHANGED kernelVars /\ escaped' = escaped
      /\ Pid(s) \in DOMAIN procs
  BY ActiveProcess DEF RefuseCommand, CanBegin, BetweenCommands
<1>2. CallStep
  BY <1>1, QuietKernel
<1> QED
  BY <1>1, <1>2, KeptBut, SameScript DEF CallStep, IdsKept

LEMMA CdInv ==
    ASSUME KernelInv, SessionInv, NEW s \in Sessions, Cd(s)
    PROVE  KernelStep /\ SessionInv'
<1> DEFINE self == procs[Pid(s)]
<1>1. ~AtPrompt(s) /\ Become(s, Skipped(s)) /\ UNCHANGED <<nextPid, fds>> /\ escaped' = escaped
  BY DEF Cd, CanBegin, BetweenCommands
<1>2. PICK after :
        /\ after = self \/ \E ino : IsDir(fs, ino) /\ after = [self EXCEPT !.cwd = ino]
        /\ procs' = [procs EXCEPT ![Pid(s)] = after]
        /\ fs' = Redirected(Command(s), <<>>, after)
  BY DEF Cd
<1>3. /\ Pid(s) \in DOMAIN procs /\ Good(fs)
      /\ DOMAIN self = ProcessFields /\ Given(fs, self.cwd)
  BY <1>1, ActiveProcess
<1>4. /\ DOMAIN after = ProcessFields /\ after.ppid = self.ppid /\ Given(fs, after.cwd)
      /\ <<after.uid, after.gid>> = <<self.uid, self.gid>>
      /\ <<after.euid, after.egid>> = <<self.euid, self.egid>>
  <2>1. CASE after = self
    BY <1>3, <2>1
  <2>2. CASE \E ino : IsDir(fs, ino) /\ after = [self EXCEPT !.cwd = ino]
    <3>1. PICK ino : IsDir(fs, ino) /\ after = [self EXCEPT !.cwd = ino]
      BY <2>2
    <3>2. Given(fs, ino)
      BY <1>3, <3>1, DirectoryGiven DEF IsDir
    <3> HIDE DEF self
    <3> QED
      BY <1>3, <3>1, <3>2 DEF ProcessFields
  <2> QED
    BY <1>2, <2>1, <2>2
<1>5. Good(fs') /\ Grows(fs, fs')
  BY <1>2, <1>3, RedirectTree
<1>6. /\ KernelStep /\ IdsKeptBut(Pid(s))
      /\ UserIds(procs', Pid(s)) = UserIds(procs, Pid(s))
      /\ EffectiveIds(procs', Pid(s)) = EffectiveIds(procs, Pid(s))
  BY <1>1, <1>2, <1>3, <1>4, <1>5, ReplaceProcess DEF UserIds, EffectiveIds
<1> QED
  BY <1>1, <1>6, SameScript

LEMMA RunPlainInv ==
    ASSUME KernelInv, SessionInv, NEW s \in Sessions, RunPlain(s)
    PROVE  KernelStep /\ SessionInv'
<1>1. /\ ~AtPrompt(s) /\ Become(s, Skipped(s)) /\ UNCHANGED <<procs, nextPid, fds>> /\ escaped' = escaped
      /\ fs' = Redirected(Command(s), <<>>, procs[Pid(s)])
      /\ Pid(s) \in DOMAIN procs /\ Good(fs)
  BY ActiveProcess DEF RunPlain, CanBegin, BetweenCommands
<1>2. CallStep
  BY <1>1, RedirectTree, TreeStep
<1> QED
  BY <1>1, <1>2, KeptBut, SameScript DEF CallStep, IdsKept

LEMMA BeginInv ==
    ASSUME KernelInv, SessionInv, NEW s \in Sessions, BeginScript(s)
    PROVE  KernelStep /\ SessionInv'
<1> DEFINE self == procs[Pid(s)]
<1>1. PICK euid, egid, command :
        LET frame == [euid |-> euid, egid |-> egid, oldEuid |-> self.euid, oldEgid |-> self.egid,
                      home |-> self.cwd, cwd |-> self.cwd, command |-> command]
        IN /\ procs' = [procs EXCEPT ![Pid(s)].euid = euid, ![Pid(s)].egid = egid]
           /\ Become(s, [Skipped(s) EXCEPT !.script = <<frame>>])
  BY DEF BeginScript
<1> DEFINE frame == [euid |-> euid, egid |-> egid, oldEuid |-> self.euid, oldEgid |-> self.egid,
                     home |-> self.cwd, cwd |-> self.cwd, command |-> command]
           level == [Skipped(s) EXCEPT !.script = <<frame>>]
           after == [self EXCEPT !.euid = euid, !.egid = egid]
<1>2. /\ ~AtPrompt(s) /\ Top(s).script = <<>> /\ UNCHANGED <<fs, nextPid, fds>> /\ escaped' = escaped
      /\ Become(s, level)
  BY <1>1 DEF BeginScript, CanBegin, BetweenCommands
<1>3. /\ Pid(s) \in DOMAIN procs /\ Good(fs)
      /\ DOMAIN self = ProcessFields /\ Given(fs, self.cwd)
      /\ LevelOK(fs, Top(s))
  BY <1>2, ActiveProcess, ActiveSession
<1>4. procs' = [procs EXCEPT ![Pid(s)] = after]
  BY <1>1
<1>5. /\ DOMAIN after = ProcessFields /\ after.ppid = self.ppid /\ after.cwd = self.cwd
      /\ <<after.uid, after.gid>> = <<self.uid, self.gid>>
      /\ <<after.euid, after.egid>> = <<euid, egid>>
  <2> HIDE DEF self
  <2> QED
    BY <1>3 DEF ProcessFields
<1>6. Grows(fs, fs)
  BY <1>3, GrowsReflexive DEF Good
<1>7. /\ KernelStep /\ IdsKeptBut(Pid(s))
      /\ UserIds(procs', Pid(s)) = UserIds(procs, Pid(s))
      /\ EffectiveIds(procs', Pid(s)) = <<euid, egid>>
  <2> HIDE DEF after
  <2> QED
    BY <1>2, <1>3, <1>4, <1>5, <1>6, ReplaceProcess DEF UserIds
<1>8. FrameOK(fs', frame)
  BY <1>2, <1>3 DEF FrameOK
<1>9. /\ <<frame.euid, frame.egid>> = <<euid, egid>>
      /\ <<frame.oldEuid, frame.oldEgid>> = EffectiveIds(procs, Pid(s))
  BY DEF EffectiveIds
<1> HIDE DEF frame
<1>10. /\ DOMAIN level = {"todo", "script"} /\ level.script = <<frame>>
       /\ level.script # <<>> /\ level.script[1] = frame
  BY <1>3 DEF LevelOK, Skipped
<1> HIDE DEF level
<1>11. LevelOK(fs', level)
  BY <1>8, <1>10 DEF LevelOK
<1>12. Before(escaped[s], Len(Stack(s))) =>
          EffectiveIds(procs, Pid(s)) = IdsAt(Stack(s), Len(Stack(s)) - 1, UserIds(procs, Pid(s)))
  BY <1>2, ActiveLevel
<1>13. escaped'[s] = escaped[s] /\ DOMAIN escaped' = Sessions
  BY <1>2 DEF SessionInv
<1> QED
  BY <1>2, <1>7, <1>9, <1>10, <1>11, <1>12, <1>13, LevelStep

LEMMA EndInv ==
    ASSUME KernelInv, SessionInv, NEW s \in Sessions, NEW text, EndScript(s, text)
    PROVE  KernelStep /\ SessionInv'
<1> DEFINE self == procs[Pid(s)]
           after == Restored(self, Frame(s))
           level == [Top(s) EXCEPT !.script = <<>>]
<1>1. /\ ~AtPrompt(s) /\ InScript(s) /\ Top(s).script # <<>> /\ UNCHANGED <<nextPid, fds>>
      /\ procs' = [procs EXCEPT ![Pid(s)] = after]
      /\ fs' = Redirected(Frame(s).command, text, after)
      /\ Become(s, level)
      /\ escaped' = [escaped EXCEPT ![s] = {d \in escaped[s] : d < Len(Stack(s))}]
  BY DEF EndScript, InScript
<1>2. /\ Pid(s) \in DOMAIN procs /\ Good(fs)
      /\ DOMAIN self = ProcessFields /\ Given(fs, self.cwd)
      /\ LevelOK(fs, Top(s)) /\ Top(s).script = <<Frame(s)>>
  BY <1>1, ActiveProcess, ActiveSession
<1>3. /\ DOMAIN after = ProcessFields /\ after.ppid = self.ppid /\ after.cwd = self.cwd
      /\ <<after.uid, after.gid>> = <<self.uid, self.gid>>
      /\ <<after.euid, after.egid>> = <<Frame(s).oldEuid, Frame(s).oldEgid>>
  <2> HIDE DEF self
  <2> QED
    BY <1>2 DEF ProcessFields, Restored
<1>4. Good(fs') /\ Grows(fs, fs')
  BY <1>1, <1>2, RedirectTree
<1>5. /\ KernelStep /\ IdsKeptBut(Pid(s))
      /\ UserIds(procs', Pid(s)) = UserIds(procs, Pid(s))
      /\ EffectiveIds(procs', Pid(s)) = <<Frame(s).oldEuid, Frame(s).oldEgid>>
  <2> HIDE DEF after
  <2> QED
    BY <1>1, <1>2, <1>3, <1>4, ReplaceProcess DEF UserIds
<1>6. LevelOK(fs', level) /\ level.script = <<>>
  BY <1>2 DEF LevelOK
<1>7. Top(s).script[1] = Frame(s)
  BY <1>2
<1>8. Before(escaped[s], Len(Stack(s))) =>
         <<Frame(s).oldEuid, Frame(s).oldEgid>> =
            IdsAt(Stack(s), Len(Stack(s)) - 1, UserIds(procs, Pid(s)))
  BY <1>1, <1>7, ActiveLevel
<1> DEFINE out == {d \in escaped[s] : d < Len(Stack(s))}
<1>9. /\ DOMAIN escaped' = Sessions /\ out = escaped'[s]
      /\ \A t \in Sessions \ {s} : escaped'[t] = escaped[t]
  BY <1>1 DEF SessionInv
<1>10. ASSUME out = {} PROVE Before(escaped[s], Len(Stack(s)))
  <2>1. Len(Stack(s)) \in Nat
    BY <1>1, ActiveSession, StackTop
  <2>2. \A e \in escaped[s] : e \in Nat /\ ~(e < Len(Stack(s)))
    BY <1>1, <1>10, ActiveLevel
  <2> QED
    BY <2>1, <2>2 DEF Before
<1>11. /\ out \subseteq escaped[s] /\ \A e \in escaped[s] : e < Len(Stack(s)) => e \in out
       /\ \A e \in out : e < Len(Stack(s))
  OBVIOUS
<1> DEFINE below == IdsAt(Stack(s), Len(Stack(s)) - 1, UserIds(procs, Pid(s)))
<1>12. out = {} => EffectiveIds(procs', Pid(s)) = below
  BY <1>5, <1>8, <1>10
<1>13. UserIds(procs', Pid(s)) = UserIds(procs, Pid(s)) /\ KernelStep /\ IdsKeptBut(Pid(s))
  BY <1>5
<1>14. ~AtPrompt(s) /\ Become(s, level) /\ below = IdsAt(Stack(s), Len(Stack(s)) - 1, UserIds(procs, Pid(s)))
  BY <1>1
<1> HIDE DEF level, out, below
<1>15. SessionInv'
  BY <1>6, <1>9, <1>11, <1>12, <1>13, <1>14, LevelStep
<1> QED
  BY <1>13, <1>15

\* An exception leaves scripts: what is left of the stack is as it was.
LEMMA LeaveInv ==
    ASSUME KernelInv, SessionInv, NEW s \in Sessions, InScript(s),
           NEW depth \in 0 .. (Len(Stack(s)) - 1), LeaveScripts(s, depth)
    PROVE  KernelStep /\ SessionInv'
<1> DEFINE new == SubSeq(Stack(s), 1, depth)
           out == {e \in escaped[s] : e < depth} \cup {depth}
<1>1. /\ ~AtPrompt(s) /\ UNCHANGED kernelVars
      /\ shell' = [shell EXCEPT ![s].stack = new]
      /\ escaped' = [escaped EXCEPT ![s] = out]
  BY DEF LeaveScripts, InScript, SessionInv, SessionOK, Stack
<1>2. /\ DOMAIN escaped' = Sessions /\ escaped'[s] = out
      /\ \A t \in Sessions \ {s} : escaped'[t] = escaped[t]
  BY <1>1 DEF SessionInv
<1>3. CallStep
  BY <1>1, QuietKernel
<1>4. /\ Pid(s) # NoPid /\ Stack(s) # <<>>
      /\ StackOK(fs, Stack(s), escaped[s], UserIds(procs, Pid(s)), EffectiveIds(procs, Pid(s)))
  BY <1>1, ActiveSession
<1>5. StackOK(fs, new, out, UserIds(procs, Pid(s)), EffectiveIds(procs, Pid(s)))
  BY <1>4, LeaveLevels
<1>6. StackOK(fs', new, out, UserIds(procs', Pid(s)), EffectiveIds(procs', Pid(s)))
  BY <1>1, <1>5 DEF kernelVars
<1>7. KernelStep /\ IdsKeptBut(Pid(s))
  BY <1>3, KeptBut DEF CallStep
<1> HIDE DEF new, out
<1> QED
  BY <1>1, <1>2, <1>4, <1>6, <1>7, SessionStep

LEMMA EscapeInv ==
    ASSUME KernelInv, SessionInv, NEW s \in Sessions, EscapeScript(s) \/ Interrupt(s)
    PROVE  KernelStep /\ SessionInv'
<1>1. InScript(s) /\ ~AtPrompt(s)
  BY DEF EscapeScript, Interrupt, InScript
<1>2. Len(Stack(s)) \in Nat \ {0}
  BY <1>1, ActiveSession, StackTop
<1>3. 0 \in 0 .. (Len(Stack(s)) - 1) /\ Len(Stack(s)) - 1 \in 0 .. (Len(Stack(s)) - 1)
  BY <1>2
<1> QED
  BY <1>1, <1>3, LeaveInv DEF EscapeScript, Interrupt

LEMMA EndPipelineInv ==
    ASSUME KernelInv, SessionInv, NEW s \in Sessions, EndPipeline(s)
    PROVE  KernelStep /\ SessionInv'
<1> DEFINE new == SubSeq(Stack(s), 1, Len(Stack(s)) - 1)
<1>1. /\ ~AtPrompt(s) /\ Top(s).script = <<>> /\ UNCHANGED kernelVars /\ escaped' = escaped
      /\ shell' = [shell EXCEPT ![s].stack = new]
  BY DEF EndPipeline, BetweenCommands, SessionInv, SessionOK, Stack
<1>2. CallStep
  BY <1>1, QuietKernel
<1>3. /\ Pid(s) # NoPid /\ Stack(s) # <<>>
      /\ StackOK(fs, Stack(s), escaped[s], UserIds(procs, Pid(s)), EffectiveIds(procs, Pid(s)))
  BY <1>1, ActiveSession
<1>4. StackOK(fs, new, escaped[s], UserIds(procs, Pid(s)), EffectiveIds(procs, Pid(s)))
  BY <1>1, <1>3, PopLevel DEF Top
<1>5. StackOK(fs', new, escaped'[s], UserIds(procs', Pid(s)), EffectiveIds(procs', Pid(s)))
  BY <1>1, <1>4 DEF kernelVars
<1>6. KernelStep /\ IdsKeptBut(Pid(s))
  BY <1>2, KeptBut DEF CallStep
<1> HIDE DEF new
<1> QED
  BY <1>1, <1>3, <1>5, <1>6, SessionStep DEF SessionInv

LEMMA ProcessCallStep ==
    ASSUME KernelInv, SessionInv, NEW s \in Sessions, InScript(s), ProcessCall(s)
    PROVE  CallStep
<1>1. /\ Given(fs, procs[Pid(s)].cwd) /\ Given(fs, Frame(s).cwd)
  BY ActiveProcess, ActiveSession DEF InScript, FrameOK
<1>2. CASE Fork(Pid(s))
  BY <1>1, <1>2, SpawnStep DEF Fork
<1>3. CASE Exit(Pid(s), 1)
  BY <1>3, ExitStep
<1>4. CASE \E pid \in DOMAIN procs, signal \in Signals : Kill(pid, signal)
  BY <1>4, KillStep
<1>5. CASE ProcessSpawn(s)
  BY <1>1, <1>5, SpawnStep DEF ProcessSpawn
<1> QED
  BY <1>2, <1>3, <1>4, <1>5 DEF ProcessCall

LEMMA ProcessChdirInv ==
    ASSUME KernelInv, SessionInv, NEW s \in Sessions, InScript(s), NEW path,
           ProcessChdir(s, path), escaped' = escaped
    PROVE  KernelStep /\ SessionInv'
<1> DEFINE ino == Resolve(fs, path, Frame(s).cwd, TRUE)
           moved == [Frame(s) EXCEPT !.cwd = ino]
           level == [Top(s) EXCEPT !.script[1].cwd = ino]
<1>1. /\ ~AtPrompt(s) /\ Top(s).script # <<>> /\ IsDir(fs, ino)
      /\ procs' = [procs EXCEPT ![Pid(s)].cwd = ino] /\ UNCHANGED <<fs, nextPid, fds>>
      /\ Become(s, level)
  BY DEF ProcessChdir, InScript
<1>2. /\ LevelOK(fs, Top(s)) /\ Top(s).script = <<Frame(s)>> /\ FrameOK(fs, Frame(s))
      /\ Pid(s) \in DOMAIN procs
  BY <1>1, ActiveSession
<1>3. CallStep
  BY <1>1, ChdirStep
<1>4. Given(fs, ino)
  BY <1>1, DirectoryGiven DEF IsDir, KernelInv
<1> HIDE DEF ino
<1>5. /\ FrameOK(fs, moved)
      /\ <<moved.euid, moved.egid>> = <<Frame(s).euid, Frame(s).egid>>
      /\ <<moved.oldEuid, moved.oldEgid>> = <<Frame(s).oldEuid, Frame(s).oldEgid>>
  BY <1>2, <1>4 DEF FrameOK
<1>6. DOMAIN level = {"todo", "script"} /\ level.script = [Top(s).script EXCEPT ![1].cwd = ino]
  BY <1>2 DEF LevelOK
<1>7. [Top(s).script EXCEPT ![1].cwd = ino] = <<moved>>
  BY <1>2
<1> HIDE DEF level, moved
<1>8. level.script = <<moved>> /\ level.script # <<>> /\ level.script[1] = moved
  BY <1>6, <1>7
<1>9. LevelOK(fs', level)
  BY <1>1, <1>5, <1>6, <1>8 DEF LevelOK
<1>10. Top(s).script[1] = Frame(s)
  BY <1>2
<1>11. /\ escaped[s] = {} => EffectiveIds(procs, Pid(s)) = <<moved.euid, moved.egid>>
       /\ Before(escaped[s], Len(Stack(s))) =>
             <<moved.oldEuid, moved.oldEgid>> =
                IdsAt(Stack(s), Len(Stack(s)) - 1, UserIds(procs, Pid(s)))
  BY <1>1, <1>5, <1>10, ActiveLevel
<1>12. /\ KernelStep /\ IdsKeptBut(Pid(s))
       /\ UserIds(procs', Pid(s)) = UserIds(procs, Pid(s))
       /\ EffectiveIds(procs', Pid(s)) = EffectiveIds(procs, Pid(s))
  BY <1>2, <1>3, KeptBut DEF CallStep, IdsKept
<1>13. escaped'[s] = escaped[s] /\ DOMAIN escaped' = Sessions
  BY DEF SessionInv
<1> QED
  BY <1>1, <1>8, <1>9, <1>11, <1>12, <1>13, LevelStep

LEMMA ProcessExecuteInv ==
    ASSUME KernelInv, SessionInv, NEW s \in Sessions, InScript(s), NEW pipeline,
           ProcessExecute(s, pipeline), escaped' = escaped
    PROVE  KernelStep /\ SessionInv'
<1> DEFINE new == Append(Stack(s), Level(pipeline))
<1>1. /\ ~AtPrompt(s) /\ Top(s).script # <<>> /\ UNCHANGED kernelVars
      /\ shell' = [shell EXCEPT ![s].stack = new]
  BY DEF ProcessExecute, InScript, SessionInv, SessionOK, Stack
<1>2. CallStep
  BY <1>1, QuietKernel
<1>3. /\ Pid(s) # NoPid /\ Stack(s) # <<>>
      /\ StackOK(fs, Stack(s), escaped[s], UserIds(procs, Pid(s)), EffectiveIds(procs, Pid(s)))
  BY <1>1, ActiveSession
<1>4. LevelOK(fs, Level(pipeline)) /\ Level(pipeline).script = <<>>
  BY DEF LevelOK, Level
<1>5. StackOK(fs, new, escaped[s], UserIds(procs, Pid(s)), EffectiveIds(procs, Pid(s)))
  BY <1>1, <1>3, <1>4, PushLevel DEF Top
<1>6. StackOK(fs', new, escaped'[s], UserIds(procs', Pid(s)), EffectiveIds(procs', Pid(s)))
  BY <1>1, <1>5 DEF kernelVars
<1>7. KernelStep /\ IdsKeptBut(Pid(s))
  BY <1>2, KeptBut DEF CallStep
<1> HIDE DEF new
<1> QED
  BY <1>1, <1>3, <1>6, <1>7, SessionStep DEF SessionInv

LEMMA CallInv ==
    ASSUME KernelInv, SessionInv, NEW s \in Sessions, Call(s)
    PROVE  KernelStep /\ SessionInv'
<1>1. /\ InScript(s) /\ escaped' = escaped
      /\ \/ (VfsCall(s) \/ FileCall(Pid(s)) \/ DirectoryCall(Pid(s)) \/ ProcessCall(s)) /\ UNCHANGED shell
         \/ \E path \in Paths : ProcessChdir(s, path)
         \/ \E pipeline \in Pipelines : ProcessExecute(s, pipeline)
  BY DEF Call
<1>2. CASE (VfsCall(s) \/ FileCall(Pid(s)) \/ DirectoryCall(Pid(s)) \/ ProcessCall(s)) /\ UNCHANGED shell
  <2>1. CallStep
    BY <1>1, <1>2, VfsCallStep, FileCallStep, DirectoryStep, ProcessCallStep
  <2> QED
    BY <1>1, <1>2, <2>1, QuietSessions DEF CallStep
<1>3. CASE \E path \in Paths : ProcessChdir(s, path)
  BY <1>1, <1>3, ProcessChdirInv
<1>4. CASE \E pipeline \in Pipelines : ProcessExecute(s, pipeline)
  BY <1>1, <1>4, ProcessExecuteInv
<1> QED
  BY <1>1, <1>2, <1>3, <1>4

-----------------------------------------------------------------------------
(* The invariant.                                                          *)

LEMMA InitInv ==
    ASSUME Init
    PROVE  KernelInv /\ SessionInv
<1>1. Good(fs)
  BY BootAssumption DEF Init, KernelInit, Good
<1>2. Given(fs, Root)
  BY <1>1, DirectoryGiven DEF Good, IsTree, RootIsRoot, Directories, Exists
<1>3. ProcessesOK(fs, procs, nextPid)
  BY <1>2, BoundsAssumption
     DEF Init, KernelInit, ProcessesOK, ProcessOK, Process, ProcessFields, InitPid
<1>4. EntriesOK(fs, fds)
  BY DEF Init, KernelInit, EntriesOK
<1>5. SessionInv
  BY DEF Init, KernelInit, SessionInv, SessionOK, Pid, Stack, NoPid
<1> QED
  BY <1>1, <1>3, <1>4, <1>5 DEF KernelInv

LEMMA NextInv ==
    ASSUME KernelInv, SessionInv, [Next]_vars
    PROVE  KernelStep /\ SessionInv'
<1>1. ASSUME NEW s \in Sessions, NEW uid \in DOMAIN Perms.users,
             Login(s, uid, Perms.users[uid].password)
      PROVE  KernelStep /\ SessionInv'
  BY <1>1, LoginInv
<1>2. ASSUME NEW s \in Sessions, NEW pipeline \in Pipelines, Enter(s, pipeline)
      PROVE  KernelStep /\ SessionInv'
  BY <1>2, EnterInv
<1>3. ASSUME NEW s \in Sessions, RefuseCommand(s) \/ Cd(s) \/ RunPlain(s) \/ BeginScript(s)
      PROVE  KernelStep /\ SessionInv'
  BY <1>3, RefuseInv, CdInv, RunPlainInv, BeginInv
<1>4. ASSUME NEW s \in Sessions, Call(s)
      PROVE  KernelStep /\ SessionInv'
  BY <1>4, CallInv
<1>5. ASSUME NEW s \in Sessions, NEW text \in Texts, EndScript(s, text)
      PROVE  KernelStep /\ SessionInv'
  BY <1>5, EndInv
<1>6. ASSUME NEW s \in Sessions, EndPipeline(s)
      PROVE  KernelStep /\ SessionInv'
  BY <1>6, EndPipelineInv
<1>7. ASSUME NEW s \in Sessions, EscapeScript(s) \/ Interrupt(s)
      PROVE  KernelStep /\ SessionInv'
  BY <1>7, EscapeInv
<1>8. CASE Housekeep
  BY <1>8, CleanupStep, QuietSessions DEF Housekeep, CallStep
<1>9. CASE UNCHANGED vars
  <2>1. UNCHANGED kernelVars /\ shell' = shell /\ escaped' = escaped
    BY <1>9 DEF vars
  <2> QED
    BY <2>1, QuietKernel, QuietSessions DEF CallStep
<1> QED
  BY <1>1, <1>2, <1>3, <1>4, <1>5, <1>6, <1>7, <1>8, <1>9 DEF Next

LEMMA Invariance == Spec => [](KernelInv /\ SessionInv)
<1>1. Init => KernelInv /\ SessionInv
  BY InitInv
<1>2. KernelInv /\ SessionInv /\ [Next]_vars => (KernelInv /\ SessionInv)'
  BY NextInv DEF KernelStep
<1> QED
  BY <1>1, <1>2, PTL DEF Spec

-----------------------------------------------------------------------------
(***************************************************************************)
(* The inodes of vfs.py form one tree in every state: after any commands   *)
(* and calls, through relative names, links and directories that are gone. *)
(***************************************************************************)
THEOREM GameTreeIsSound == Spec => []TreeIsSound
<1>1. KernelInv => TreeIsSound
  BY DEF KernelInv, Good, TreeIsSound
<1> QED
  BY <1>1, Invariance, PTL

(***************************************************************************)
(* unlink asks neither the descriptors nor the current directories; a      *)
(* number they hold of an inode that is gone is never given out again,     *)
(* because allocate_inode only counts up.                                  *)
(***************************************************************************)
THEOREM GameGoneStaysGone == Spec => GoneStaysGone
<1> DEFINE Stays == \A i \in HeldInodes \cap HeldInodes' :
                       i \notin DOMAIN fs.inodes => i \notin DOMAIN fs.inodes'
<1>1. ASSUME KernelInv PROVE \A i \in HeldInodes : Given(fs, i)
  BY <1>1 DEF HeldInodes, KernelInv, ProcessesOK, ProcessOK, EntriesOK
<1>2. ASSUME KernelInv, SessionInv, [Next]_vars PROVE Stays
  <2>1. Grows(fs, fs')
    BY <1>2, NextInv DEF KernelStep
  <2>2. fs.next \in Nat
    BY <1>2 DEF KernelInv, Good, IsVfs
  <2> QED
    BY <1>1, <1>2, <2>1, <2>2 DEF Grows, Given
<1>3. KernelInv /\ SessionInv /\ [Next]_vars => [Stays]_vars
  BY <1>2
<1> QED
  BY <1>3, Invariance, PTL DEF Spec, GoneStaysGone

(***************************************************************************)
(* The effective user of a shell's process is that of the innermost script *)
(* running in it, and the user's own when none runs: the scripts of nested *)
(* execute calls give back what they took, however they end inside         *)
(* execute_command.  After an exception that leaves it, this holds again   *)
(* when the script has ended that the exception came to.                   *)
(***************************************************************************)
THEOREM GameEffectiveIsInnermost == Spec => []EffectiveIsInnermost
<1>1. ASSUME KernelInv, SessionInv, NEW s \in Sessions, Pid(s) # NoPid, escaped[s] = {}
      PROVE  LET self == procs[Pid(s)]
                 running == {k \in 1..Len(Stack(s)) : Stack(s)[k].script # <<>>}
                 innermost == Head(Stack(s)[CHOOSE k \in running : \A j \in running : j <= k].script)
             IN <<self.euid, self.egid>> =
                   IF running = {} THEN <<self.uid, self.gid>> ELSE <<innermost.euid, innermost.egid>>
  <2> DEFINE stack == Stack(s)
             running == {k \in 1..Len(stack) : stack[k].script # <<>>}
             last == CHOOSE k \in running : \A j \in running : j <= k
             user == UserIds(procs, Pid(s))
  <2>1. StackOK(fs, stack, {}, user, EffectiveIds(procs, Pid(s)))
    BY <1>1 DEF SessionInv, SessionOK
  <2>2. PICK S : stack \in Seq(S)
    BY <2>1 DEF StackOK
  <2>3. Len(stack) \in Nat /\ (stack # <<>> => Len(stack) \in 1 .. Len(stack))
    BY <2>2
  <2>4. EffectiveIds(procs, Pid(s)) = IdsAt(stack, Depth(stack), user)
    BY <2>1 DEF StackOK
  <2>5. \A k \in 1 .. Len(stack) : LevelOK(fs, stack[k])
    BY <2>1 DEF StackOK
  <2>6. \A k \in 1 .. (Len(stack) - 1) : stack[k].script # <<>>
    BY <2>1 DEF StackOK
  <2> HIDE DEF stack, user
  <2>7. Depth(stack) \in Nat /\ running = 1 .. Depth(stack)
    <3>1. stack = <<>> => Len(stack) = 0
      OBVIOUS
    <3>2. \A k \in 1 .. Len(stack) : k = Len(stack) \/ k \in 1 .. (Len(stack) - 1)
      BY <2>3
    <3>3. CASE stack # <<>> /\ stack[Len(stack)].script = <<>>
      <4>1. Depth(stack) = Len(stack) - 1 /\ Len(stack) \in Nat \ {0}
        BY <2>3, <3>3 DEF Depth
      <4>2. \A k \in running : k \in 1 .. (Len(stack) - 1)
        BY <3>2, <3>3
      <4>3. \A k \in 1 .. (Len(stack) - 1) : k \in running
        BY <2>6, <4>1
      <4>4. running = 1 .. (Len(stack) - 1)
        BY <4>2, <4>3
      <4> QED
        BY <4>1, <4>4
    <3>4. CASE ~(stack # <<>> /\ stack[Len(stack)].script = <<>>)
      <4>1. Depth(stack) = Len(stack)
        BY <3>4 DEF Depth
      <4>2. \A k \in 1 .. Len(stack) : stack[k].script # <<>>
        BY <2>6, <3>1, <3>2, <3>4
      <4>3. running = 1 .. Len(stack)
        BY <4>2
      <4> QED
        BY <2>3, <4>1, <4>3
    <3> QED
      BY <3>3, <3>4
  <2>8. CASE running = {}
    BY <2>4, <2>7, <2>8 DEF IdsAt, UserIds, EffectiveIds, user, stack
  <2>9. CASE running # {}
    <3>1. Depth(stack) \in running /\ \A j \in running : j <= Depth(stack)
      BY <2>7, <2>9
    <3>2. last \in running /\ \A j \in running : j <= last
      BY <3>1
    <3> HIDE DEF last
    <3>3. last = Depth(stack)
      <4>1. last \in 1 .. Depth(stack) /\ Depth(stack) <= last
        BY <2>7, <3>1, <3>2
      <4> QED
        BY <2>7, <4>1
    <3>4. Head(stack[last].script) = stack[last].script[1]
      BY <2>5, <3>2 DEF LevelOK
    <3>5. EffectiveIds(procs, Pid(s)) = <<Head(stack[last].script).euid, Head(stack[last].script).egid>>
      BY <2>4, <2>7, <2>9, <3>3, <3>4 DEF IdsAt
    <3> QED
      BY <2>9, <3>5 DEF EffectiveIds, stack, last
  <2> QED
    BY <2>8, <2>9 DEF stack
<1>2. KernelInv /\ SessionInv => EffectiveIsInnermost
  BY <1>1 DEF EffectiveIsInnermost
<1> QED
  BY <1>2, Invariance, PTL
=============================================================================
