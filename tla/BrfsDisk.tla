------------------------------ MODULE BrfsDisk ------------------------------
(***************************************************************************)
(* The disk of BrainFS and the operations of kernel_main.bh on it, as       *)
(* operators.                                                               *)
(*                                                                          *)
(* An operation is a function on sessions.  A session is the disk d as the  *)
(* operation sees it, the mount table entry m, and the log of the blocks    *)
(* written so far: for each brfs_bwrite the disk it leaves behind, and      *)
(* whether it was a write of the journal.  Blocks are written at once and   *)
(* in this order; the device does not fail.                                 *)
(*                                                                          *)
(* The two bitmaps are sets of bit numbers, so that a 32-bit word written   *)
(* over a bitmap has the effect it has on the disk.  The inode table and    *)
(* the directory blocks keep only the entries that were ever written.  Of   *)
(* the data of a file a block keeps whose data it is.  Times, modes other   *)
(* than the type, and sizes are left out.                                   *)
(***************************************************************************)
EXTENDS Integers, Sequences, SequencesExt, FiniteSetsExt

CONSTANTS
    Names,            \* file names (besides "." and "..")
    Cut,              \* the first 24 bytes of a name
    Blocks,           \* total_blocks of the device
    EntriesPerBlock   \* directory entries in a block (32)

\* brfs_mkfs refuses a device below 32 sectors; a journal record is as long as
\* a directory entry, and a transaction writes at most two of them.
ASSUME SizeAssumption ==
    Blocks \in Nat /\ Blocks >= 16 /\ EntriesPerBlock \in 2 .. 32
NoName == ""   \* in an entry whose name has length 0
ASSUME NamesAssumption ==
    /\ {NoName, ".", ".."} \cap Names = {}
    /\ Cut \in [Names -> Names]
    /\ \A n \in Names : Cut[Cut[n]] = Cut[n]

Root          == 1      \* BRFS_ROOT_INODE
InodesPerBlock == 32    \* BRFS_INODES_PER_BLOCK
JournalStart  == 1      \* BRFS_JOURNAL_START
JournalRing   == 31     \* BRFS_JOURNAL_BLOCKS - 1
JournalMagic  == 4870734 \* BRFS_JOURNAL_MAGIC, 0x4A524E
CommitRecord  == 1      \* BRFS_JRN_COMMIT
BlockRecord   == 2      \* BRFS_JRN_BLOCK

\* brfs_calc_layout and brfs_mkfs: superblock 0, inode bitmap 1, block bitmap
\* 2, inode table from 3, then the data.
InodeBitmap == 1
BlockBitmap == 2
InodeTable  == 3
InodeBlocks ==
    LET wanted == Max({64, Min({8192, Blocks \div 4})})
    IN  (wanted + InodesPerBlock - 1) \div InodesPerBlock
Inodes      == 1 .. InodeBlocks * InodesPerBlock
FirstData   == InodeTable + InodeBlocks
DataBlocks  == FirstData .. Blocks - 1
BitNumbers  == 0 .. 8191   \* of a bitmap, which is one block

\* Function f with y at x, where f may not be defined.
Put(f, x, y) == [z \in DOMAIN f \cup {x} |-> IF z = x THEN y ELSE f[z]]

Kinds == {"none", "reg", "dir", "lnk"}
Blank == [kind |-> "none", links |-> 0, blk |-> <<0, 0, 0>>]
Node(kind, links, block) ==
    [kind |-> kind, links |-> links, blk |-> <<block, 0, 0>>]

Inode(d, i) == IF i \in DOMAIN d.inode THEN d.inode[i] ELSE Blank

\* What a block holds: `of' is the inode whose data it is (0: nobody's), and
\* entries, in a directory, maps slots to names.
NoData      == [of |-> 0, entries |-> <<>>]
FileData(i) == [of |-> i, entries |-> <<>>]
NewDirData(i, parent) ==
    [of |-> i, entries |-> [k \in 0 .. 1 |-> IF k = 0 THEN [name |-> ".", ino |-> i]
                                           ELSE [name |-> "..", ino |-> parent]]]

\* brfs_mkfs.  The block of the root directory is marked as used as well.
Formatted ==
    [imap    |-> {0, Root},
     bmap    |-> 0 .. FirstData,
     inode   |-> [i \in {Root} |-> Node("dir", 2, FirstData)],
     content |-> [b \in DataBlocks |->
                    IF b = FirstData THEN NewDirData(Root, Root) ELSE NoData],
     freeB   |-> Blocks - FirstData - 1,
     freeI   |-> Cardinality(Inodes) - 1]

Unmounted == [mounted |-> FALSE, seq |-> 1, head |-> 0, tail |-> 0,
              freeB |-> 0, freeI |-> 0]

-----------------------------------------------------------------------------
(* 32-bit words in a bitmap.                                                *)

Bits(n, at) == {at + k : k \in {j \in 0 .. 30 : (n \div 2^j) % 2 = 1}}
WordAt(bits, at) ==
    LET high[k \in 0 .. 31] ==   \* the word's upper k bits
          IF k = 0 THEN 0
          ELSE 2 * high[k - 1] + (IF at + 31 - k \in bits THEN 1 ELSE 0)
    IN  high[31]
WithWord(bits, at, n) == (bits \ (at .. at + 31)) \cup Bits(n, at)

-----------------------------------------------------------------------------
(* Sessions.                                                                *)

Session(d, m) == [d |-> d, m |-> m, log |-> <<>>]

Logged(s, d, journal) ==
    [s EXCEPT !.d = d, !.log = Append(@, [disk |-> d, journal |-> journal])]

PutBlock(s, b, data) == Logged(s, [s.d EXCEPT !.content[b] = data], FALSE)

\* brfs_iput.
PutInode(s, i, node) ==
    Logged(s, [s.d EXCEPT !.inode = Put(@, i, node)], FALSE)

\* brfs_ialloc and brfs_balloc look for the first clear bit, but only while
\* the count in the mount table says there is one.  0 stands for -1.  No
\* call is made that would take the search past the end of the bitmap (see
\* BrainFS!SearchesEndInside).
Lowest(S) == IF S = {} THEN 0 ELSE Min(S)
FreeInode(s) ==
    IF s.m.freeI <= 0 THEN 0 ELSE Lowest((Inodes \cap BitNumbers) \ s.d.imap)
FreeBlock(s) ==
    IF s.m.freeB <= 0 THEN 0 ELSE Lowest((DataBlocks \cap BitNumbers) \ s.d.bmap)

CountInodes(s, n) == [s EXCEPT !.m.freeI = @ + n]
CountBlocks(s, n) == [s EXCEPT !.m.freeB = @ + n]

TakeInode(s, i) ==
    CountInodes(Logged(s, [s.d EXCEPT !.imap = @ \cup {i}], FALSE), -1)
\* Faulty variant: the bitmap is changed in memory and not written.
TakeBlockUnwritten(s, b) == CountBlocks(s, -1)
TakeBlock(s, b) ==
    CountBlocks(Logged(s, [s.d EXCEPT !.bmap = @ \cup {b}], FALSE), -1)

\* brfs_ifree and brfs_bfree.
DropInode(s, i) ==
    CountInodes(Logged(s, [s.d EXCEPT !.imap = @ \ {i}], FALSE), 1)
\* Faulty variant: the count of free blocks is forgotten.
DropBlockUncounted(s, b) == Logged(s, [s.d EXCEPT !.bmap = @ \ {b}], FALSE)
DropBlock(s, b) ==
    CountBlocks(Logged(s, [s.d EXCEPT !.bmap = @ \ {b}], FALSE), 1)

-----------------------------------------------------------------------------
(* Directories.                                                             *)

DirSlots == 0 .. EntriesPerBlock - 1
EntriesOf(d, b) == d.content[b].entries

\* Where the directory has name n: <<block index, slot>>.
Places(d, dir, n) ==
    {p \in (1 .. 3) \X DirSlots :
        LET b == Inode(d, dir).blk[p[1]]
        IN  /\ b # 0
            /\ p[2] \in DOMAIN EntriesOf(d, b)
            /\ EntriesOf(d, b)[p[2]].name = n}

FirstPlace(places) ==
    CHOOSE p \in places :
        \A q \in places : p[1] < q[1] \/ (p[1] = q[1] /\ p[2] <= q[2])

\* brfs_lookup; 0 stands for -1.
Lookup(d, dir, n) ==
    IF Inode(d, dir).kind # "dir" \/ Places(d, dir, n) = {} THEN 0
    ELSE LET p == FirstPlace(Places(d, dir, n))
         IN  EntriesOf(d, Inode(d, dir).blk[p[1]])[p[2]].ino

\* Faulty variant: the scan goes one entry too far.
FreeSlotsPastEnd(d, b) == (0 .. EntriesPerBlock) \ DOMAIN EntriesOf(d, b)

\* Slots of block b without an entry.
FreeSlots(d, b) == DirSlots \ DOMAIN EntriesOf(d, b)

\* brfs_add_direntry: a free slot in one of the three blocks, or a new block
\* for the first that is missing.  Of the name, 24 bytes are stored; the
\* searches above compare all of it.  ok is the return value.
AddEntry(s, dir, n, i) ==
    LET node   == Inode(s.d, dir)
        usable == {k \in 1 .. 3 :
                     node.blk[k] = 0 \/ FreeSlots(s.d, node.blk[k]) # {}}
        k      == Lowest(usable)
        fresh  == FreeBlock(s)
        entry(t, b) ==
            PutBlock(t, b, [t.d.content[b] EXCEPT !.entries =
                Put(@, Min(FreeSlots(t.d, b)), [name |-> Cut[n], ino |-> i])])
        grown  == PutInode(PutBlock(TakeBlock(s, fresh), fresh,
                                    [of |-> dir, entries |-> <<>>]),
                           dir, [node EXCEPT !.blk[k] = fresh])
    IN  CASE k = 0                         -> [ok |-> FALSE, s |-> s]
          [] k # 0 /\ node.blk[k] # 0      -> [ok |-> TRUE,
                                               s  |-> entry(s, node.blk[k])]
          [] k # 0 /\ node.blk[k] = 0 /\ fresh = 0
                                           -> [ok |-> FALSE, s |-> s]
          [] OTHER                         -> [ok |-> TRUE,
                                               s  |-> entry(grown, fresh)]

-----------------------------------------------------------------------------
(* The journal.  Its superblock is block 1 and its records go to the blocks *)
(* from 2 on, where brfs_mkfs puts the bitmaps, the inode table and data.   *)

\* The first 16 bytes of a record (sequence number, type, block, checksum) in
\* slot r of block j: over 128 bits of the block bitmap, over the type and
\* link count of an inode, over a directory entry, or over data.  Blocks
\* beyond the device are not written.
RecordWritten(d, j, r, seq, type, blk) ==
    CASE j = BlockBitmap ->
            [d EXCEPT !.bmap =
                WithWord(WithWord(WithWord(WithWord(@, 256 * r, seq),
                    256 * r + 32, type), 256 * r + 64, blk), 256 * r + 96, 0)]
      [] j \in InodeTable .. FirstData - 1 ->
            LET i == (j - InodeTable) * InodesPerBlock + r + 1
            IN  [d EXCEPT !.inode =
                    Put(@, i, [Inode(d, i) EXCEPT !.kind = "none", !.links = 0])]
      [] j \in DataBlocks ->
            [d EXCEPT !.content[j] =
                [of |-> 0, entries |-> Put(@.entries, r, [name |-> NoName, ino |-> seq])]]
      [] OTHER -> d

JournalRecord(s, r, type, blk) ==
    Logged(s, RecordWritten(s.d, JournalStart + 1 + s.m.head, r,
                            s.m.seq, type, blk), TRUE)

\* Words 1 to 3 of the journal superblock: sequence number, head and tail.
SuperblockWords(imap, m) ==
    WithWord(WithWord(WithWord(imap, 32, m.seq), 64, m.head), 96, m.tail)

\* brfs_txn_commit, with one block logged before.
Commit(s) ==
    LET r == JournalRecord(s, 1, CommitRecord, 0)
        m == [r.m EXCEPT !.head = (@ + 1) % JournalRing, !.seq = @ + 1]
    IN  [Logged(r, [r.d EXCEPT !.imap = SuperblockWords(@, m)], TRUE)
            EXCEPT !.m = m]

\* brfs_journal_recover.  Without the magic number the whole block is
\* initialised.  Otherwise a journal that is not empty is read
\* (brfs_journal_replay), no block is restored, and head and tail restart at 0.
Recover(s) ==
    LET head == WordAt(s.d.imap, 64)
        tail == WordAt(s.d.imap, 96)
    IN  IF WordAt(s.d.imap, 0) = JournalMagic
        THEN [s EXCEPT !.m.seq  = WordAt(s.d.imap, 32),
                       !.m.head = IF head = tail THEN head ELSE 0,
                       !.m.tail = IF head = tail THEN tail ELSE 0]
        ELSE [Logged(s, [s.d EXCEPT !.imap = Bits(JournalMagic, 0) \cup Bits(1, 32)],
                     TRUE)
                EXCEPT !.m.seq = 1, !.m.head = 0, !.m.tail = 0]

\* brfs_journal_checkpoint.
Checkpoint(s) ==
    [Logged(s, [s.d EXCEPT !.imap = WithWord(@, 96, s.m.head)], TRUE)
        EXCEPT !.m.tail = s.m.head]
=============================================================================
