------------------------------- MODULE BrainFS -------------------------------
(***************************************************************************)
(* BrainFS (kernel_main.bh 1532-2830): one device, formatted by brfs_mkfs,  *)
(* and the calls made on it.  A call runs alone, but it writes its blocks   *)
(* one after the other and the machine may stop between any two: what is on *)
(* the disk at any moment is what the next boot finds.                      *)
(***************************************************************************)
EXTENDS BrfsDisk

CONSTANTS
    Extents,    \* the first and last block of a write, as offsets and lengths
                \* of brfs_write_file choose them
    Starts,     \* names of the directory and the two files of a disk that is
                \* nearly full to start with
    MaxCalls    \* bound on the calls in a behaviour

ASSUME CallsAssumption ==
    /\ Extents \subseteq {e \in (1 .. 3) \X (1 .. 3) : e[1] <= e[2]}
    /\ Starts \subseteq Names \X Names \X Names
    /\ MaxCalls \in Nat \ {0}

VARIABLES
    disk,      \* the device
    mem,       \* the entry of the mount table and the state of the journal
    todo,      \* the blocks the current call has still to write
    calls,     \* number of calls so far
    intact,    \* history: the journal has not overwritten anything in use
    crashed    \* history: the machine has stopped while mounted

vars == <<disk, mem, todo, calls, intact, crashed>>

-----------------------------------------------------------------------------
(* The names that can be reached from the root.                             *)

BlocksOf(d, i) == {Inode(d, i).blk[k] : k \in 1 .. 3} \ {0}

\* Slot k of block b, as a name in directory dir.
NameAt(d, dir, b, k) ==
    LET e == EntriesOf(d, b)[k]
    IN  [dir |-> dir, name |-> e.name, ino |-> e.ino, at |-> <<b, k>>]

NamesIn(d, dir) ==
    UNION {{NameAt(d, dir, b, k) :
                k \in {j \in DOMAIN EntriesOf(d, b) : EntriesOf(d, b)[j].name \in Names}} :
           b \in BlocksOf(d, dir)}

Directories(d) ==
    LET depth == Cardinality(DOMAIN d.inode)
        within[k \in 0 .. depth] ==
          IF k = 0 THEN {Root}
          ELSE LET up == within[k - 1]
               IN  up \cup {i \in {t.ino : t \in UNION {NamesIn(d, p) : p \in up}} :
                               Inode(d, i).kind = "dir"}
    IN  within[depth]

Tree(d)  == UNION {NamesIn(d, p) : p \in Directories(d)}
Named(d) == {t.ino : t \in Tree(d)} \cup {Root}

-----------------------------------------------------------------------------
(* The calls, as functions on sessions.                                     *)

\* brfs_create: the only call with a transaction.  The inode is allocated, its
\* block logged, the inode and the name written, the transaction committed.
Create(s, p, n) ==
    LET i      == FreeInode(s)
        logged == JournalRecord(TakeInode(s, i), 0, BlockRecord,
                                InodeTable + i \div InodesPerBlock)
        added  == AddEntry(PutInode(logged, i, Node("reg", 1, 0)), p, n, i)
    IN  CASE Lookup(s.d, p, n) > 0 \/ i = 0 -> s
          [] Lookup(s.d, p, n) = 0 /\ i > 0 /\ added.ok -> Commit(added.s)
          [] OTHER -> DropInode(added.s, i)

\* A directory starts with two links and two entries, a symbolic link with its
\* target.
FirstNode(kind, b) == Node(kind, IF kind = "dir" THEN 2 ELSE 1, b)
FirstContents(kind, i, p) == IF kind = "dir" THEN NewDirData(i, p) ELSE FileData(i)

\* Faulty variant of MakeWithBlock: the name is written before the inode.
MakeWithBlockNameFirst(s, p, n, kind) ==
    LET i     == FreeInode(s)
        s1    == TakeInode(s, i)
        b     == FreeBlock(s1)
        added == AddEntry(PutBlock(TakeBlock(s1, b), b, FirstContents(kind, i, p)), p, n, i)
    IN  CASE Lookup(s.d, p, n) > 0 \/ i = 0 -> [ok |-> FALSE, s |-> s]
          [] Lookup(s.d, p, n) = 0 /\ i > 0 /\ b = 0 ->
                [ok |-> FALSE, s |-> DropInode(s1, i)]
          [] Lookup(s.d, p, n) = 0 /\ i > 0 /\ b > 0 /\ added.ok ->
                [ok |-> TRUE, s |-> PutInode(added.s, i, FirstNode(kind, b))]
          [] OTHER -> [ok |-> FALSE, s |-> DropInode(DropBlock(added.s, b), i)]

\* The common part of brfs_mkdir and brfs_symlink: an inode, a block with its
\* contents, the inode, the name.  ok says that it was made.
MakeWithBlock(s, p, n, kind) ==
    LET i     == FreeInode(s)
        s1    == TakeInode(s, i)
        b     == FreeBlock(s1)
        s2    == PutBlock(TakeBlock(s1, b), b, FirstContents(kind, i, p))
        added == AddEntry(PutInode(s2, i, FirstNode(kind, b)), p, n, i)
    IN  CASE Lookup(s.d, p, n) > 0 \/ i = 0 -> [ok |-> FALSE, s |-> s]
          [] Lookup(s.d, p, n) = 0 /\ i > 0 /\ b = 0 ->
                [ok |-> FALSE, s |-> DropInode(s1, i)]
          [] Lookup(s.d, p, n) = 0 /\ i > 0 /\ b > 0 /\ added.ok ->
                [ok |-> TRUE, s |-> added.s]
          [] OTHER -> [ok |-> FALSE, s |-> DropInode(DropBlock(added.s, b), i)]

\* brfs_mkdir also counts the new ".." in the parent's links.
Mkdir(s, p, n) ==
    LET made == MakeWithBlock(s, p, n, "dir")
    IN  IF made.ok
        THEN PutInode(made.s, p, [Inode(made.s.d, p) EXCEPT !.links = @ + 1])
        ELSE made.s

Symlink(s, p, n) == MakeWithBlock(s, p, n, "lnk").s

\* brfs_link: the link count first, and down again if there is no room for the
\* name.
\* Faulty variant: the name first.
LinkNameFirst(s, p, n, i) ==
    LET added == AddEntry(s, p, n, i)
    IN  IF Lookup(s.d, p, n) > 0 \/ Inode(s.d, i).kind = "dir" \/ ~added.ok THEN s
        ELSE PutInode(added.s, i, [Inode(added.s.d, i) EXCEPT !.links = @ + 1])

Link(s, p, n, i) ==
    LET up    == PutInode(s, i, [Inode(s.d, i) EXCEPT !.links = @ + 1])
        added == AddEntry(up, p, n, i)
    IN  CASE Lookup(s.d, p, n) > 0 \/ Inode(s.d, i).kind = "dir" -> s
          [] Lookup(s.d, p, n) = 0 /\ Inode(s.d, i).kind # "dir" /\ added.ok -> added.s
          [] OTHER -> PutInode(added.s, i,
                               [Inode(added.s.d, i) EXCEPT !.links = @ - 1])

\* brfs_unlink, last part: the last link gone, the blocks and the inode are
\* freed; the inode table keeps the old inode.
Release(s, i) ==
    LET node       == Inode(s.d, i)
        without(t, k) == IF node.blk[k] = 0 THEN t ELSE DropBlock(t, node.blk[k])
    IN  IF node.links - 1 > 0
        THEN PutInode(s, i, [node EXCEPT !.links = @ - 1])
        ELSE DropInode(without(without(without(s, 1), 2), 3), i)

\* Faulty variant: the link count and the blocks go before the name.
UnlinkNameLast(s, p, n) ==
    LET i     == Lookup(s.d, p, n)
        place == FirstPlace(Places(s.d, p, n))
        t     == Release(s, i)
        b     == Inode(s.d, p).blk[place[1]]
    IN  IF i = 0 \/ Inode(s.d, i).kind = "dir" THEN s
        ELSE PutBlock(t, b, [t.d.content[b] EXCEPT !.entries =
                Restrict(@, DOMAIN @ \ {place[2]})])

\* brfs_unlink: the name first.
Unlink(s, p, n) ==
    LET i     == Lookup(s.d, p, n)
        place == FirstPlace(Places(s.d, p, n))
        b     == Inode(s.d, p).blk[place[1]]
    IN  IF i = 0 \/ Inode(s.d, i).kind = "dir" THEN s
        ELSE Release(PutBlock(s, b, [s.d.content[b] EXCEPT !.entries =
                        Restrict(@, DOMAIN @ \ {place[2]})]), i)

\* brfs_write_file over the blocks lo to hi of a file: missing blocks are
\* allocated, every block is written, the inode at the end.  A full disk ends
\* the loop.  A turn of the loop is for block k.
WriteTurn(a, i, k) ==
    LET b == FreeBlock(a.s)
    IN  CASE a.full -> a
          [] ~a.full /\ a.node.blk[k] # 0 ->
               [a EXCEPT !.s = PutBlock(a.s, a.node.blk[k], FileData(i))]
          [] ~a.full /\ a.node.blk[k] = 0 /\ b > 0 ->
               [a EXCEPT !.s = PutBlock(TakeBlock(a.s, b), b, FileData(i)),
                         !.node.blk[k] = b]
          [] OTHER -> [a EXCEPT !.full = TRUE]

WriteFile(s, i, lo, hi) ==
    LET turn(a, k) == IF k \in lo .. hi THEN WriteTurn(a, i, k) ELSE a
        start      == [s |-> s, node |-> Inode(s.d, i), full |-> FALSE]
        done       == turn(turn(turn(start, 1), 2), 3)
    IN  PutInode(done.s, i, done.node)

\* Files are written through a name.
Writable(d, i) == i \in Named(d) /\ Inode(d, i).kind # "dir"

-----------------------------------------------------------------------------
(* The state machine.                                                       *)

\* brfs_mount reads the counts of the superblock and recovers the journal;
\* brfs_unmount writes them back after a checkpoint.
MountSession(d) ==
    Recover(Session(d, [Unmounted EXCEPT !.mounted = TRUE,
                                         !.freeB = d.freeB, !.freeI = d.freeI]))
UnmountSession(s) ==
    LET c == Checkpoint(s)
    IN  [Logged(c, [c.d EXCEPT !.freeB = s.m.freeB, !.freeI = s.m.freeI], FALSE)
            EXCEPT !.m = Unmounted]

\* A disk that is nearly full, made on a freshly formatted and mounted device:
\* a directory holds two symbolic links, written to three blocks each.  It
\* counts as one call.
WithDirectory(a) == Mkdir(MountSession(Formatted), Root, a)

WithFile(s, dir, n) ==
    LET t == Symlink(s, dir, n)
        i == Lookup(t.d, dir, n)
    IN  IF Writable(t.d, i) THEN WriteFile(t, i, 1, 3) ELSE t

InitNearlyFull ==
    \E start \in Starts : \E dir \in Directories(WithDirectory(start[1]).d) \ {Root} :
        LET full == WithFile(WithFile(WithDirectory(start[1]), dir, start[2]), dir, start[3])
        IN  disk = full.d /\ mem = full.m /\ calls = 1

Init ==
    /\ \/ disk = Formatted /\ mem = Unmounted /\ calls = 0
       \/ InitNearlyFull
    /\ todo = <<>>
    /\ intact = TRUE
    /\ crashed = FALSE

\* A call that writes something.
Do(s) ==
    /\ todo = <<>> /\ calls < MaxCalls
    /\ s.log # <<>>
    /\ todo' = s.log
    /\ mem' = s.m
    /\ calls' = calls + 1
    /\ UNCHANGED <<disk, intact, crashed>>

Now == Session(disk, mem)

\* Bound: brfs_balloc and brfs_ialloc search up to the last block and the last
\* inode of the device, which may lie past the 8192 bits of a bitmap's one
\* block; what is in memory after it decides then.  On a device of more than
\* 8192 blocks, or inodes up to 8192, nothing is allocated unless the bitmaps
\* have bits left for all that a call takes: an inode and three blocks.
SearchesEndInside(d) ==
    /\ Blocks > 8192 => Cardinality((DataBlocks \cap BitNumbers) \ d.bmap) >= 3
    /\ InodeBlocks = 256 => (Inodes \cap BitNumbers) \ d.imap # {}

MayAllocate == mem.mounted /\ SearchesEndInside(disk)

Creates   == /\ MayAllocate
             /\ \E p \in Directories(disk), n \in Names : Do(Create(Now, p, n))
Mkdirs    == /\ MayAllocate
             /\ \E p \in Directories(disk), n \in Names : Do(Mkdir(Now, p, n))
Symlinks  == /\ MayAllocate
             /\ \E p \in Directories(disk), n \in Names : Do(Symlink(Now, p, n))
Links     == /\ MayAllocate
             /\ \E p \in Directories(disk), n \in Names, i \in Named(disk) :
                    Do(Link(Now, p, n, i))
Unlinks   == /\ mem.mounted
             /\ \E p \in Directories(disk), n \in Names : Do(Unlink(Now, p, n))
Writes    == /\ MayAllocate
             /\ \E i \in Named(disk), e \in Extents :
                    /\ Writable(disk, i)
                    /\ Do(WriteFile(Now, i, e[1], e[2]))

Mount ==
    /\ ~mem.mounted /\ todo = <<>>
    /\ todo' = MountSession(disk).log
    /\ mem' = MountSession(disk).m
    /\ UNCHANGED <<disk, calls, intact, crashed>>

Unmount == mem.mounted /\ Do(UnmountSession(Now))

\* The journal has written over something that was in use.
Overwrites(d, new) ==
    \/ new.bmap # d.bmap
    \/ new.inode # d.inode
    \/ new.content # d.content
    \/ ~(Named(d) \subseteq new.imap)

WriteBlock ==
    /\ todo # <<>>
    /\ disk' = Head(todo).disk
    /\ todo' = Tail(todo)
    /\ intact' = (intact /\ ~(Head(todo).journal /\ Overwrites(disk, Head(todo).disk)))
    /\ UNCHANGED <<mem, calls, crashed>>

\* The machine stops; the blocks not yet written are lost.
Crash ==
    /\ mem.mounted \/ todo # <<>>
    /\ mem' = Unmounted
    /\ todo' = <<>>
    /\ crashed' = TRUE
    /\ UNCHANGED <<disk, calls, intact>>

Next ==
    \/ Creates \/ Mkdirs \/ Symlinks \/ Links \/ Unlinks \/ Writes
    \/ Mount \/ Unmount \/ WriteBlock \/ Crash

Spec == Init /\ [][Next]_vars

-----------------------------------------------------------------------------
(* Properties.  They hold at every moment, that is, for every disk a crash  *)
(* can leave; and for as long as the journal has not written over anything  *)
(* in use, because nothing holds after that.                                *)

\* What every disk is, also one that the journal has written over.  What a
\* record leaves in a directory is an entry without a name.
NodeType == [kind : Kinds, links : Nat, blk : [1 .. 3 -> DataBlocks \cup {0}]]

DiskTypeOK(d) ==
    /\ d.imap \subseteq BitNumbers /\ d.bmap \subseteq BitNumbers
    /\ DOMAIN d.inode \subseteq Inodes
    /\ \A i \in DOMAIN d.inode : d.inode[i] \in NodeType
    /\ DOMAIN d.content = DataBlocks
    /\ \A b \in DataBlocks :
         /\ d.content[b].of \in Inodes \cup {0}
         /\ DOMAIN EntriesOf(d, b) \subseteq DirSlots
         /\ \A k \in DOMAIN EntriesOf(d, b) :
              EntriesOf(d, b)[k].name \in Names => EntriesOf(d, b)[k].ino \in Inodes
    /\ d.freeB \in Nat /\ d.freeI \in Nat

MemoryType == [mounted : BOOLEAN, seq : Nat, head : Nat, tail : Nat,
               freeB : Nat, freeI : Nat]

\* Type invariant, of the disk and of every disk the call in progress has still
\* to leave behind.  A journal recovered from what is an inode bitmap has any
\* sequence number, head and tail.
FsTypeOK ==
    /\ DiskTypeOK(disk)
    /\ mem \in MemoryType
    /\ \A k \in 1 .. Len(todo) :
         DiskTypeOK(todo[k].disk) /\ todo[k].journal \in BOOLEAN
    /\ calls \in 0 .. MaxCalls
    /\ intact \in BOOLEAN /\ crashed \in BOOLEAN

\* A name never leads to an inode that is free or not yet written, or to one
\* with a block that is free: brfs_mkdir, brfs_symlink and brfs_link write the
\* name last, brfs_unlink takes it away first, brfs_write_file stores a new
\* block in the inode only after the bitmap.
NamesAreBacked ==
    intact => \A t \in Tree(disk) :
                /\ t.ino \in disk.imap
                /\ Inode(disk, t.ino).kind # "none"
                /\ BlocksOf(disk, t.ino) \subseteq disk.bmap

\* A block that can be reached from a name holds what was written for that
\* inode and no other: no block has two owners, and none shows what it held
\* before it was allocated.
ContentIsOwn ==
    intact => \A i \in Named(disk) : \A b \in BlocksOf(disk, i) :
                disk.content[b].of = i

\* The link count of a file is never below the number of its names, so that
\* brfs_unlink does not free a file that has a name left; between calls, and
\* if nothing was interrupted, it is that number.  Every directory entry is a
\* name of its own here, also of two that say the same.
LinksCoverNames ==
    intact =>
        \A i \in Named(disk) \ Directories(disk) :
            LET names == Cardinality({t \in Tree(disk) : t.ino = i})
            IN  /\ Inode(disk, i).links >= names
                /\ (todo = <<>> /\ ~crashed) => Inode(disk, i).links = names

\* Between calls, and if nothing was interrupted, the block bitmap marks the
\* blocks of named inodes and no others, and the count of free blocks agrees:
\* every failing call gives back what it took.
AllocationExact ==
    (intact /\ todo = <<>> /\ ~crashed) =>
        /\ disk.bmap \cap DataBlocks = UNION {BlocksOf(disk, i) : i \in Named(disk)}
        /\ mem.mounted => mem.freeB = Cardinality(DataBlocks \ disk.bmap)

\* The names that longer ones are cut to.
Shortened == {Cut[n] : n \in {m \in Names : Cut[m] # m}}

N == INSTANCE Namespace WITH tree <- Tree(disk), dirs <- Directories(disk)

\* Every single write of a block changes the tree of names as one step of
\* Namespace does, or not at all: a crash leaves a call done or not done, as
\* far as names go.  Only what is left of a name of more than 24 bytes can be
\* given twice in a directory: brfs_create and the like look for the whole
\* name, and brfs_add_direntry stores its first 24 bytes.
ImplementsNamespace ==
    [][intact' => N!Next]_<<Tree(disk), Directories(disk)>>

\* What kernel_main.bh:1557 says of the journal, "Bitmaps and inode table
\* shifted to accommodate journal", as a user would notice it: the first block
\* of the root directory stays the root directory's.
RootSurvives == disk.content[FirstData].of = Root
=============================================================================
