--------------------------- MODULE BrainFS_proofs ---------------------------
(***************************************************************************)
(* Proofs about BrainFS: on a device of any size from 16 blocks on, as long *)
(* as no search leaves the one block of a bitmap (SearchesEndInside), with  *)
(* any names, of any lengths, and any number of calls: what a crash leaves  *)
(* on the disk is sound for as long as the journal has not written over     *)
(* anything in use, and every block that is written changes the names as    *)
(* Namespace allows; between calls that nothing interrupted, link counts,   *)
(* block bitmap and the count of free blocks agree with the tree; and the   *)
(* types of the disk, the session and the log are kept, journal or not.     *)
(*                                                                          *)
(* Sound(d) speaks of the directories of d, which are the least set that    *)
(* holds the root and is closed under names.  A write is shown to keep any  *)
(* such set closed; that is enough, and needs no induction over paths.      *)
(***************************************************************************)
EXTENDS BrainFS, FiniteSetTheorems, WellFoundedInduction, TLAPS

-----------------------------------------------------------------------------
(* Least elements.                                                          *)

LEMMA LeastNumber ==
    ASSUME NEW T \in SUBSET Nat, NEW n \in T
    PROVE  \E m \in T : \A k \in T : m <= k
<1> DEFINE F == {0 .. m : m \in {k \in T : k <= n}}
<1>1. \A m \in Int : IsFiniteSet(0 .. m)
  BY FS_Interval
<1>2. IsWellFoundedOn(StrictSubsetOrdering(0 .. n), FiniteSubsetsOf(0 .. n))
  BY FS_StrictSubsetOrderingWellFounded
<1>3. F \subseteq FiniteSubsetsOf(0 .. n) /\ F # {}
  BY <1>1 DEF FiniteSubsetsOf
<1> HIDE DEF F
<1>4. PICK s \in F : \A r \in F : ~(<<r, s>> \in StrictSubsetOrdering(0 .. n))
  BY <1>2, <1>3, WFMin
<1>5. PICK m \in T : m <= n /\ s = 0 .. m
  BY DEF F
<1>6. ASSUME NEW k \in T, k < m PROVE FALSE
  <2>1. 0 .. k \in F /\ 0 .. k \in SUBSET (0 .. n) /\ s \in SUBSET (0 .. n)
    BY <1>5, <1>6 DEF F
  <2>2. 0 .. k \subseteq s /\ 0 .. k # s
    BY <1>5, <1>6
  <2> QED
    BY <1>4, <2>1, <2>2 DEF StrictSubsetOrdering
<1> QED
  BY <1>6

LEMMA SetInduction ==
    ASSUME NEW max \in Nat, NEW S, 0 \in S,
           \A n \in 1 .. max : n - 1 \in S => n \in S
    PROVE  0 .. max \subseteq S
<1> SUFFICES ASSUME NEW n \in (0 .. max) \ S PROVE FALSE
  OBVIOUS
<1>1. PICK m \in (0 .. max) \ S : \A k \in (0 .. max) \ S : m <= k
  <2>1. (0 .. max) \ S \in SUBSET Nat
    OBVIOUS
  <2> QED
    BY <2>1, LeastNumber
<1>2. m # 0 /\ m - 1 \in S
  BY <1>1
<1> QED
  BY <1>2

LEMMA MinBelongs ==
    ASSUME NEW T \in SUBSET Nat, T # {}
    PROVE  Min(T) \in T
  BY LeastNumber DEF Min

LEMMA LowestBelongs ==
    ASSUME NEW T \in SUBSET Nat
    PROVE  Lowest(T) \in T \cup {0}
  BY MinBelongs DEF Lowest

\* The inode table takes at least two blocks, and leaves some for data.
LEMMA TableSize == InodeBlocks \in 2 .. 256 /\ InodeBlocks < Blocks - 3
<1> DEFINE c == Blocks \div 4
           m == Min({8192, c})
           w == Max({64, m})
<1>1. c \in Nat /\ c >= 4 /\ 4 * c <= Blocks /\ Blocks \in Nat /\ Blocks >= 16
  BY SizeAssumption
<1>2. InodeBlocks = (w + 32 - 1) \div 32
  BY SMT DEF InodeBlocks, InodesPerBlock
<1> HIDE DEF c
<1>3. m \in 4 .. 8192 /\ m <= c
  BY <1>1, SMT DEF Min
<1> HIDE DEF m
<1>4. w \in 64 .. 8192 /\ (w = 64 \/ w = m)
  BY <1>3, SMT DEF Max
<1> HIDE DEF w
<1>5. w + 32 - 1 = w + 31
  BY <1>4
<1>6. InodeBlocks = (w + 31) \div 32
  BY <1>2, <1>5
<1> QED
  BY <1>1, <1>3, <1>4, <1>6

\* The layout, for every number of blocks.
LEMMA Layout ==
    /\ Inodes \in SUBSET (Nat \ {0}) /\ Root \in Inodes /\ IsFiniteSet(Inodes)
    /\ DataBlocks \in SUBSET (Nat \ {0}) /\ FirstData \in DataBlocks
    /\ IsFiniteSet(DataBlocks)
    /\ {0, 1} \subseteq DirSlots /\ DirSlots \in SUBSET Nat /\ IsFiniteSet(DirSlots)
<1>1. FirstData \in Nat /\ FirstData > 0 /\ FirstData <= Blocks - 1 /\ Blocks \in Nat
  BY TableSize, SizeAssumption DEF FirstData, InodeTable
<1>2. InodeBlocks * 32 \in Nat /\ InodeBlocks * 32 >= 1
  BY TableSize
<1>3. IsFiniteSet(Inodes) /\ IsFiniteSet(DataBlocks) /\ IsFiniteSet(DirSlots)
  <2>1. \A a, b \in Int : IsFiniteSet(a .. b)
    BY FS_Interval
  <2> QED
    BY <1>1, <1>2, <2>1, SizeAssumption
    DEF Inodes, InodesPerBlock, DataBlocks, DirSlots
<1> QED
  BY <1>1, <1>2, <1>3, SizeAssumption
  DEF Inodes, InodesPerBlock, Root, DataBlocks, DirSlots

-----------------------------------------------------------------------------
(* Disks, and the directories of one.                                       *)

IsNode(node) ==
    /\ DOMAIN node = {"kind", "links", "blk"}
    /\ node.kind \in Kinds /\ node.links \in Int
    /\ DOMAIN node.blk = 1 .. 3
    /\ \A k \in 1 .. 3 : node.blk[k] \in DataBlocks \cup {0}

IsData(data) ==
    /\ DOMAIN data = {"of", "entries"}
    /\ DOMAIN data.entries \subseteq DirSlots

IsDisk(d) ==
    /\ DOMAIN d = {"imap", "bmap", "inode", "content", "freeB", "freeI"}
    /\ DOMAIN d.inode \subseteq Inodes
    /\ \A i \in DOMAIN d.inode : IsNode(d.inode[i])
    /\ DOMAIN d.content = DataBlocks
    /\ \A b \in DataBlocks : IsData(d.content[b])

\* Slot k of block b names inode i.
NamesAt(d, b, k, i) ==
    /\ k \in DOMAIN EntriesOf(d, b)
    /\ EntriesOf(d, b)[k].name \in Names
    /\ EntriesOf(d, b)[k].ino = i

Leads(d, p, i) == \E b \in BlocksOf(d, p) : \E k \in DirSlots : NamesAt(d, b, k, i)

\* A set of directories that holds the root and what names in it lead to.
Closed(d, C) ==
    /\ Root \in C
    /\ \A p \in C : \A i : (Leads(d, p, i) /\ Inode(d, i).kind = "dir") => i \in C

LEMMA BlocksAreData ==
    ASSUME NEW d, IsDisk(d), NEW i
    PROVE  /\ IsNode(Inode(d, i))
           /\ BlocksOf(d, i) \subseteq DataBlocks
           /\ \A b \in BlocksOf(d, i) : \E k \in 1 .. 3 : Inode(d, i).blk[k] = b
           /\ \A k \in 1 .. 3 : Inode(d, i).blk[k] # 0 => Inode(d, i).blk[k] \in BlocksOf(d, i)
           /\ Inode(d, i).kind # "none" => i \in DOMAIN d.inode /\ i \in Inodes
<1>1. IsNode(Inode(d, i))
  BY DEF IsDisk, IsNode, Inode, Blank, Kinds
<1>2. Inode(d, i).kind # "none" => i \in DOMAIN d.inode /\ i \in Inodes
  BY DEF IsDisk, Inode, Blank
<1> QED
  BY <1>1, <1>2 DEF IsNode, BlocksOf

LEMMA NamesInLead ==
    ASSUME NEW d, IsDisk(d), NEW p
    PROVE  /\ \A t \in NamesIn(d, p) : Leads(d, p, t.ino)
           /\ \A i : Leads(d, p, i) => \E t \in NamesIn(d, p) : t.ino = i
<1>1. \A b \in BlocksOf(d, p) : DOMAIN EntriesOf(d, b) \subseteq DirSlots
  BY BlocksAreData DEF IsDisk, IsData, EntriesOf
<1>2. ASSUME NEW t \in NamesIn(d, p) PROVE Leads(d, p, t.ino)
  <2>1. PICK b \in BlocksOf(d, p) : \E k \in DOMAIN EntriesOf(d, b) :
            EntriesOf(d, b)[k].name \in Names /\ t = NameAt(d, p, b, k)
    BY DEF NamesIn
  <2>2. PICK k \in DOMAIN EntriesOf(d, b) :
            EntriesOf(d, b)[k].name \in Names /\ t = NameAt(d, p, b, k)
    BY <2>1
  <2>3. t.ino = EntriesOf(d, b)[k].ino
    BY <2>2 DEF NameAt
  <2> QED
    BY <1>1, <2>2, <2>3 DEF Leads, NamesAt
<1>3. ASSUME NEW i, Leads(d, p, i) PROVE \E t \in NamesIn(d, p) : t.ino = i
  <2>1. PICK b \in BlocksOf(d, p), k \in DirSlots : NamesAt(d, b, k, i)
    BY <1>3 DEF Leads
  <2>2. NameAt(d, p, b, k) \in NamesIn(d, p)
    BY <2>1 DEF NamesIn, NamesAt
  <2>3. NameAt(d, p, b, k).ino = i
    BY <2>1 DEF NamesAt, NameAt
  <2> QED
    BY <2>2, <2>3
<1> QED
  BY <1>2, <1>3

\* Names below the directories of a set.
Below(d, up) == {t.ino : t \in UNION {NamesIn(d, p) : p \in up}}
Deeper(d, up) == up \cup {i \in Below(d, up) : Inode(d, i).kind = "dir"}

LEMMA BelowLeads ==
    ASSUME NEW d, IsDisk(d), NEW up
    PROVE  \A i : i \in Below(d, up) <=> \E p \in up : Leads(d, p, i)
<1>1. ASSUME NEW i \in Below(d, up) PROVE \E p \in up : Leads(d, p, i)
  BY <1>1, NamesInLead DEF Below
<1>2. ASSUME NEW i, NEW p \in up, Leads(d, p, i) PROVE i \in Below(d, up)
  BY <1>2, NamesInLead DEF Below
<1> QED
  BY <1>1, <1>2

Levels(d, within, max) ==
    within = [k \in 0 .. max |-> IF k = 0 THEN {Root} ELSE Deeper(d, within[k - 1])]

LEMMA LevelsExist ==
    ASSUME NEW d, NEW max \in Nat
    PROVE  \E within : Levels(d, within, max)
<1> DEFINE K == {n \in Nat : \E within : Levels(d, within, n)}
<1>1. 0 \in K
  <2>1. Levels(d, [k \in 0 .. 0 |-> {Root}], 0)
    BY DEF Levels
  <2> QED
    BY <2>1
<1>2. ASSUME NEW n \in 1 .. max, n - 1 \in K PROVE n \in K
  <2>1. PICK within : Levels(d, within, n - 1)
    BY <1>2
  <2> DEFINE longer == [k \in 0 .. n |-> IF k = n THEN Deeper(d, within[n - 1]) ELSE within[k]]
  <2>2. \A k \in 0 .. (n - 1) :
            within[k] = IF k = 0 THEN {Root} ELSE Deeper(d, within[k - 1])
    BY <2>1 DEF Levels
  <2>3. ASSUME NEW k \in 0 .. n
        PROVE  longer[k] = IF k = 0 THEN {Root} ELSE Deeper(d, longer[k - 1])
    <3>1. CASE k = n
      BY <3>1
    <3>2. CASE k # n /\ k = 0
      BY <2>2, <3>2
    <3>3. CASE k # n /\ k # 0
      <4>1. k \in 0 .. (n - 1) /\ k - 1 \in 0 .. n /\ k - 1 # n
        BY <3>3
      <4>2. longer[k] = within[k] /\ longer[k - 1] = within[k - 1]
        BY <3>3, <4>1
      <4> QED
        BY <2>2, <3>3, <4>1, <4>2
    <3> QED
      BY <3>1, <3>2, <3>3
  <2> HIDE DEF longer
  <2>4. longer = [k \in 0 .. n |-> longer[k]]
    BY DEF longer
  <2>5. Levels(d, longer, n)
    BY <2>3, <2>4 DEF Levels
  <2> QED
    BY <2>5
<1> HIDE DEF K
<1>3. max \in K
  BY <1>1, <1>2, SetInduction
<1> QED
  BY <1>3 DEF K

\* The directories of a disk are the least closed set.
LEMMA DirectoriesLeast ==
    ASSUME NEW d, IsDisk(d), Inode(d, Root).kind = "dir"
    PROVE  /\ Closed(d, Directories(d))
           /\ \A C : Closed(d, C) => Directories(d) \subseteq C
           /\ \A p \in Directories(d) : Inode(d, p).kind = "dir"
<1> DEFINE depth == Cardinality(DOMAIN d.inode)
           All == {i \in DOMAIN d.inode : Inode(d, i).kind = "dir"}
<1>1. IsFiniteSet(DOMAIN d.inode) /\ depth \in Nat
  BY Layout, FS_Subset, FS_CardinalityType DEF IsDisk
<1>2. Directories(d) = LET within[k \in 0 .. depth] ==
                             IF k = 0 THEN {Root} ELSE Deeper(d, within[k - 1])
                       IN  within[depth]
  BY DEF Directories, Deeper, Below
<1> HIDE DEF depth
<1> DEFINE within == CHOOSE v : Levels(d, v, depth)
<1>3. Levels(d, within, depth)
  BY <1>1, LevelsExist
<1>4. Directories(d) = within[depth]
  BY <1>2 DEF Levels
<1> HIDE DEF within
<1>5. within[0] = {Root} /\ \A k \in 1 .. depth : within[k] = Deeper(d, within[k - 1])
  <2>1. \A k \in 0 .. depth : within[k] = IF k = 0 THEN {Root} ELSE Deeper(d, within[k - 1])
    BY <1>3 DEF Levels
  <2> QED
    BY <1>1, <2>1
<1>6. \A k : BlocksOf(d, k) \subseteq DataBlocks
  BY BlocksAreData
<1>7. Root \in All
  BY BlocksAreData
<1>8. IsFiniteSet(All) /\ Cardinality(All) <= depth
  BY <1>1, FS_Subset DEF depth
<1>9. within[depth] \subseteq All
  <2> DEFINE S == {k \in 0 .. depth : within[k] \subseteq All}
  <2>1. 0 \in S
    BY <1>1, <1>5, <1>7
  <2>2. ASSUME NEW k \in 1 .. depth, k - 1 \in S PROVE k \in S
    BY <2>2, <1>1, <1>5, BlocksAreData DEF Deeper
  <2> HIDE DEF S
  <2>3. depth \in S
    BY <2>1, <2>2, <1>1, SetInduction
  <2> QED
    BY <2>3 DEF S
<1>10. ASSUME NEW C, Closed(d, C) PROVE within[depth] \subseteq C
  <2> DEFINE S == {k \in 0 .. depth : within[k] \subseteq C}
  <2>1. 0 \in S
    BY <1>1, <1>5, <1>10 DEF Closed
  <2>2. ASSUME NEW k \in 1 .. depth, k - 1 \in S PROVE k \in S
    <3>1. \A i \in Below(d, within[k - 1]) : \E p \in within[k - 1] : Leads(d, p, i)
      BY BelowLeads
    <3> QED
      BY <2>2, <3>1, <1>1, <1>5, <1>10 DEF Deeper, Closed
  <2> HIDE DEF S
  <2>3. depth \in S
    BY <2>1, <2>2, <1>1, SetInduction
  <2> QED
    BY <2>3 DEF S
<1>11. Closed(d, within[depth])
  <2> DEFINE W(k) == within[k] \subseteq All /\ Root \in within[k]
             S == {k \in 0 .. depth :
                     /\ W(k)
                     /\ Closed(d, within[k]) \/ Cardinality(within[k]) > k}
  <2>1. 0 \in S
    <3>1. Cardinality({Root}) = 1
      BY FS_Singleton
    <3> QED
      BY <1>1, <1>5, <1>7, <3>1
  <2>2. ASSUME NEW k \in 1 .. depth, k - 1 \in S PROVE k \in S
    <3> DEFINE up == within[k - 1]
               new == within[k]
    <3>1. up \subseteq All /\ Root \in up /\ k - 1 \in 0 .. depth
      BY <2>2
    <3>2. new = Deeper(d, up)
      BY <1>5
    <3>3. \A i : i \in Below(d, up) <=> \E p \in up : Leads(d, p, i)
      BY BelowLeads
    <3>4. Closed(d, up) \/ Cardinality(up) > k - 1
      BY <2>2
    <3> HIDE DEF up, new
    <3>5. up \subseteq new /\ new \subseteq All
      BY <3>1, <3>2, BlocksAreData DEF Deeper
    <3>6. CASE Closed(d, up)
      <4>1. new = up
        BY <3>2, <3>3, <3>6 DEF Deeper, Closed
      <4> QED
        BY <3>1, <3>6, <4>1 DEF up, new
    <3>7. CASE ~Closed(d, up)
      <4>1. PICK i : /\ \E p \in up : Leads(d, p, i)
                     /\ Inode(d, i).kind = "dir" /\ i \notin up
        BY <3>1, <3>7 DEF Closed
      <4>2. i \in new
        BY <3>2, <3>3, <4>1 DEF Deeper
      <4>3. IsFiniteSet(up) /\ IsFiniteSet(new)
        BY <1>8, <3>1, <3>5, FS_Subset
      <4>4. Cardinality(up \cup {i}) = Cardinality(up) + 1 /\ IsFiniteSet(up \cup {i})
        BY <4>1, <4>3, FS_AddElement
      <4>5. Cardinality(up \cup {i}) <= Cardinality(new)
        BY <4>2, <4>3, <3>5, FS_Subset
      <4>6. Cardinality(up) \in Nat /\ Cardinality(new) \in Nat
        BY <4>3, FS_CardinalityType
      <4>7. Cardinality(new) > k
        BY <3>4, <3>7, <4>4, <4>5, <4>6
      <4> QED
        BY <3>1, <3>5, <4>7 DEF up, new
    <3> QED
      BY <3>6, <3>7
  <2> HIDE DEF S
  <2>3. depth \in S
    BY <2>1, <2>2, <1>1, SetInduction
  <2>4. W(depth) /\ (Closed(d, within[depth]) \/ Cardinality(within[depth]) > depth)
    BY <2>3 DEF S
  <2>5. Cardinality(within[depth]) <= Cardinality(All) /\ Cardinality(All) \in Nat
        /\ Cardinality(within[depth]) \in Nat
    BY <1>8, <1>9, FS_Subset, FS_CardinalityType
  <2> QED
    BY <1>1, <1>8, <2>4, <2>5
<1> QED
  BY <1>4, <1>9, <1>10, <1>11

-----------------------------------------------------------------------------
(* A sound disk, and the writes of one block that leave it sound.           *)

Entry(d, p, b, k, i) == b \in BlocksOf(d, p) /\ NamesAt(d, b, k, i)
Reached(d, C) == C \cup Below(d, C)

\* Slot k of block b gives name n to inode i in directory p.
Called(d, p, b, k, n, i) ==
    /\ b \in BlocksOf(d, p) /\ k \in DOMAIN EntriesOf(d, b)
    /\ EntriesOf(d, b)[k].name = n /\ EntriesOf(d, b)[k].ino = i

NameIn(p, b, k, n, i) == [dir |-> p, name |-> n, ino |-> i, at |-> <<b, k>>]

\* The entries that name inode i.
Refs(d, C, i) == {e \in DataBlocks \X DirSlots : \E p \in C : Entry(d, p, e[1], e[2], i)}

Backed(d, i) ==
    /\ i \in d.imap
    /\ Inode(d, i).kind # "none"
    /\ \A b \in BlocksOf(d, i) : b \in d.bmap /\ d.content[b].of = i

SoundFor(d, C) ==
    /\ IsDisk(d)
    /\ Closed(d, C)
    /\ \A p \in C : Inode(d, p).kind = "dir"
    /\ \A i \in Reached(d, C) : Backed(d, i)
    /\ \A i \in Reached(d, C) \ C : Inode(d, i).links >= Cardinality(Refs(d, C, i))

Sound(d) == SoundFor(d, Directories(d))

LEMMA Leading ==
    ASSUME NEW d, IsDisk(d), NEW C
    PROVE  /\ \A p, i : Leads(d, p, i) <=>
                 \E b \in DataBlocks, k \in DirSlots : Entry(d, p, b, k, i)
           /\ \A i : i \in Reached(d, C) <=> (i \in C \/ \E p \in C : Leads(d, p, i))
           /\ \A i : IsFiniteSet(Refs(d, C, i)) /\ Cardinality(Refs(d, C, i)) \in Nat
<1>1. \A p, i : Leads(d, p, i) <=> \E b \in DataBlocks, k \in DirSlots : Entry(d, p, b, k, i)
  BY BlocksAreData DEF Leads, Entry
<1>2. \A i : i \in Reached(d, C) <=> (i \in C \/ \E p \in C : Leads(d, p, i))
  BY BelowLeads DEF Reached
<1>3. IsFiniteSet(DataBlocks \X DirSlots)
  BY Layout, FS_Product
<1>4. \A i : Refs(d, C, i) \in SUBSET (DataBlocks \X DirSlots)
  BY DEF Refs
<1>5. \A i : IsFiniteSet(Refs(d, C, i)) /\ Cardinality(Refs(d, C, i)) \in Nat
  BY <1>3, <1>4, FS_Subset, FS_CardinalityType
<1> QED
  BY <1>1, <1>2, <1>5

\* Every closed set shows a disk to be sound.
LEMMA SoundShrinks ==
    ASSUME NEW d, NEW C, SoundFor(d, C)
    PROVE  Sound(d) /\ Reached(d, Directories(d)) = Named(d)
<1> DEFINE D == Directories(d)
<1>1. IsDisk(d) /\ Inode(d, Root).kind = "dir"
  BY DEF SoundFor, Closed
<1>2. /\ Closed(d, D) /\ D \subseteq C
      /\ \A p \in D : Inode(d, p).kind = "dir"
      /\ \A B : Closed(d, B) => D \subseteq B
  BY <1>1, DirectoriesLeast DEF SoundFor
<1> HIDE DEF D
<1>3. \A i : i \in Reached(d, D) <=> (i \in D \/ \E p \in D : Leads(d, p, i))
  BY <1>1, Leading
<1>4. \A i : i \in Reached(d, C) <=> (i \in C \/ \E p \in C : Leads(d, p, i))
  BY <1>1, Leading
<1>5. Reached(d, D) \subseteq Reached(d, C)
  BY <1>2, <1>3, <1>4
<1>6. \A i \in Reached(d, D) \ D : i \notin C
  <2>1. \A i \in C : Inode(d, i).kind = "dir"
    BY DEF SoundFor
  <2> QED
    BY <1>2, <1>3, <2>1 DEF Closed
<1>7. ASSUME NEW i
      PROVE  /\ Cardinality(Refs(d, D, i)) <= Cardinality(Refs(d, C, i))
             /\ Cardinality(Refs(d, D, i)) \in Nat /\ Cardinality(Refs(d, C, i)) \in Nat
  <2>1. Refs(d, D, i) \in SUBSET Refs(d, C, i)
    BY <1>2 DEF Refs
  <2> QED
    BY <1>1, <2>1, Leading, FS_Subset
<1>8. \A i : Inode(d, i).links \in Int
  BY <1>1, BlocksAreData DEF IsNode
<1>9. ASSUME NEW i \in Reached(d, D) \ D
      PROVE  Inode(d, i).links >= Cardinality(Refs(d, D, i))
  <2>1. Inode(d, i).links >= Cardinality(Refs(d, C, i))
    BY <1>5, <1>6 DEF SoundFor
  <2> QED
    BY <2>1, <1>7, <1>8
<1>10. SoundFor(d, D)
  BY <1>1, <1>2, <1>5, <1>9 DEF SoundFor
<1>11. Closed(d, {p \in D : p = Root \/ \E q \in D : Leads(d, q, p)})
  BY <1>2 DEF Closed
<1>12. \A i : i \in Named(d) <=> (i = Root \/ \E p \in D : Leads(d, p, i))
  <2>1. Named(d) = Below(d, D) \cup {Root}
    BY DEF Named, Tree, Below, D
  <2> QED
    BY <2>1, <1>1, BelowLeads
<1>13. \A i : i \in Reached(d, D) <=> i \in Named(d)
  BY <1>2, <1>3, <1>11, <1>12 DEF Closed
<1> QED
  BY <1>10, <1>13 DEF Sound, D

SameNames(d, e) == Tree(e) = Tree(d) /\ Directories(e) = Directories(d)

\* What a write that changes no name leaves as it was.
Kept(d, e, C) ==
    /\ Reached(e, C) = Reached(d, C)
    /\ \A i : Refs(e, C, i) = Refs(d, C, i)
    /\ \A p \in C : NamesIn(e, p) = NamesIn(d, p)
    /\ SameNames(d, e)

AgreeOn(d, e, C) ==
    \A p \in C : \A b \in DataBlocks, k \in DirSlots : \A n \in Names :
        \A i : Called(e, p, b, k, n, i) <=> Called(d, p, b, k, n, i)

LEMMA CalledNames ==
    ASSUME NEW d, IsDisk(d)
    PROVE  /\ \A p, b, k, i : Entry(d, p, b, k, i) <=> \E n \in Names : Called(d, p, b, k, n, i)
           /\ \A p, t : t \in NamesIn(d, p) <=>
                 \E b \in DataBlocks, k \in DirSlots, n \in Names : \E i :
                     Called(d, p, b, k, n, i) /\ t = NameIn(p, b, k, n, i)
<1>1. \A p, b, k, i : Entry(d, p, b, k, i) <=> \E n \in Names : Called(d, p, b, k, n, i)
  BY DEF Entry, NamesAt, Called
<1>2. ASSUME NEW p, NEW t \in NamesIn(d, p)
      PROVE  \E b \in DataBlocks, k \in DirSlots, n \in Names : \E i :
                 Called(d, p, b, k, n, i) /\ t = NameIn(p, b, k, n, i)
  <2>1. PICK b \in BlocksOf(d, p) : \E k \in DOMAIN EntriesOf(d, b) :
            EntriesOf(d, b)[k].name \in Names /\ t = NameAt(d, p, b, k)
    BY DEF NamesIn
  <2>2. PICK k \in DOMAIN EntriesOf(d, b) :
            EntriesOf(d, b)[k].name \in Names /\ t = NameAt(d, p, b, k)
    BY <2>1
  <2>3. t = NameIn(p, b, k, EntriesOf(d, b)[k].name, EntriesOf(d, b)[k].ino)
    BY <2>2 DEF NameAt, NameIn
  <2>4. b \in DataBlocks /\ k \in DirSlots
    BY BlocksAreData DEF IsDisk, IsData, EntriesOf
  <2>5. Called(d, p, b, k, EntriesOf(d, b)[k].name, EntriesOf(d, b)[k].ino)
    BY DEF Called
  <2> QED
    BY <2>2, <2>3, <2>4, <2>5
<1>3. ASSUME NEW p, NEW b, NEW k, NEW n \in Names, NEW i, Called(d, p, b, k, n, i)
      PROVE  NameIn(p, b, k, n, i) \in NamesIn(d, p)
  <2>1. NameAt(d, p, b, k) = NameIn(p, b, k, n, i)
    BY <1>3 DEF Called, NameAt, NameIn
  <2>2. /\ b \in BlocksOf(d, p) /\ k \in DOMAIN EntriesOf(d, b)
        /\ EntriesOf(d, b)[k].name \in Names
    BY <1>3 DEF Called
  <2>3. NameAt(d, p, b, k) \in NamesIn(d, p)
    BY <2>2 DEF NamesIn
  <2> QED
    BY <2>1, <2>3
<1> QED
  BY <1>1, <1>2, <1>3

\* The parts of a name.
LEMMA NameParts ==
    ASSUME NEW p, NEW b, NEW k, NEW n, NEW i
    PROVE  /\ NameIn(p, b, k, n, i).dir = p /\ NameIn(p, b, k, n, i).name = n
           /\ NameIn(p, b, k, n, i).ino = i /\ NameIn(p, b, k, n, i).at = <<b, k>>
  BY DEF NameIn

\* Directories that agree name the same things, and so do their descendants.
LEMMA NamesFrame ==
    ASSUME NEW d, IsDisk(d), NEW C, Closed(d, C), NEW e, IsDisk(e), AgreeOn(d, e, C),
           Inode(d, Root).kind = "dir",
           \A i \in Reached(d, C) : Inode(e, i).kind = Inode(d, i).kind
    PROVE  SameNames(d, e) /\ \A p \in C : NamesIn(e, p) = NamesIn(d, p)
<1>1. \A p \in C : NamesIn(e, p) = NamesIn(d, p)
  <2> SUFFICES ASSUME NEW p \in C PROVE NamesIn(e, p) = NamesIn(d, p)
    OBVIOUS
  <2>1. \A t : t \in NamesIn(e, p) <=> t \in NamesIn(d, p)
    BY CalledNames DEF AgreeOn
  <2> QED
    BY <2>1
<1>2. \A p \in C : \A i : Leads(e, p, i) <=> Leads(d, p, i)
  BY <1>1, NamesInLead
<1>3. \A p \in C : \A i : Leads(d, p, i) => i \in Reached(d, C)
  BY Leading
<1>4. Root \in C /\ C \subseteq Reached(d, C)
  BY DEF Closed, Reached
<1>5. Inode(e, Root).kind = "dir"
  BY <1>4
<1> DEFINE D == Directories(d)
           E == Directories(e)
<1>6. Closed(d, D) /\ \A B : Closed(d, B) => D \subseteq B
  BY DirectoriesLeast
<1>7. Closed(e, E) /\ \A B : Closed(e, B) => E \subseteq B
  BY <1>5, DirectoriesLeast
<1> HIDE DEF D, E
<1>8. D \subseteq C
  BY <1>6
<1>9. Closed(e, D)
  BY <1>2, <1>3, <1>6, <1>8 DEF Closed
<1>10. E \subseteq D
  BY <1>7, <1>9
<1>11. Closed(d, E)
  BY <1>2, <1>3, <1>7, <1>8, <1>10 DEF Closed
<1>12. E = D
  BY <1>6, <1>10, <1>11
<1>13. Tree(e) = Tree(d)
  <2>1. Tree(e) = UNION {NamesIn(e, p) : p \in E} /\ Tree(d) = UNION {NamesIn(d, p) : p \in D}
    BY DEF Tree, D, E
  <2>2. \A p \in D : NamesIn(e, p) = NamesIn(d, p)
    BY <1>1, <1>8
  <2> QED
    BY <1>12, <2>1, <2>2
<1> QED
  BY <1>1, <1>12, <1>13 DEF SameNames, D, E

LEMMA Frame ==
    ASSUME NEW d, NEW C, SoundFor(d, C), NEW e, IsDisk(e), AgreeOn(d, e, C),
           \A i \in Reached(d, C) :
               /\ Inode(e, i).kind = Inode(d, i).kind
               /\ Backed(e, i)
               /\ i \notin C => Inode(e, i).links >= Cardinality(Refs(d, C, i))
    PROVE  SoundFor(e, C) /\ Kept(d, e, C)
<1>0. \A p \in C : \A b \in DataBlocks, k \in DirSlots : \A i :
          Entry(e, p, b, k, i) <=> Entry(d, p, b, k, i)
  BY CalledNames DEF SoundFor, AgreeOn
<1>1. \A p \in C : \A i : Leads(e, p, i) <=> Leads(d, p, i)
  <2>1. \A p, i : Leads(e, p, i) <=> \E b \in DataBlocks, k \in DirSlots : Entry(e, p, b, k, i)
    BY Leading
  <2>2. \A p, i : Leads(d, p, i) <=> \E b \in DataBlocks, k \in DirSlots : Entry(d, p, b, k, i)
    BY Leading DEF SoundFor
  <2> QED
    BY <1>0, <2>1, <2>2
<1>2. \A i : i \in Reached(e, C) <=> i \in Reached(d, C)
  <2>1. \A i : i \in Reached(e, C) <=> (i \in C \/ \E p \in C : Leads(e, p, i))
    BY Leading
  <2>2. \A i : i \in Reached(d, C) <=> (i \in C \/ \E p \in C : Leads(d, p, i))
    BY Leading DEF SoundFor
  <2> QED
    BY <2>1, <2>2, <1>1
<1>3. Reached(e, C) = Reached(d, C)
  BY <1>2
<1>4. \A i : Refs(e, C, i) = Refs(d, C, i)
  BY <1>0 DEF Refs
<1>5. Closed(e, C)
  <2>1. \A p \in C : \A i : Leads(d, p, i) => i \in Reached(d, C)
    BY Leading DEF SoundFor
  <2> QED
    BY <1>1, <2>1 DEF Closed, SoundFor
<1>6. C \subseteq Reached(d, C) /\ Root \in C
  BY DEF Reached, SoundFor, Closed
<1>7. SameNames(d, e) /\ \A p \in C : NamesIn(e, p) = NamesIn(d, p)
  BY <1>6, NamesFrame DEF SoundFor
<1> QED
  BY <1>3, <1>4, <1>5, <1>6, <1>7 DEF SoundFor, Kept

\* The bitmaps and the counts of the superblock.
LEMMA FrameMaps ==
    ASSUME NEW d, NEW C, SoundFor(d, C), NEW e,
           DOMAIN e = DOMAIN d, e.inode = d.inode, e.content = d.content,
           Reached(d, C) \subseteq e.imap,
           \A i \in Reached(d, C) : BlocksOf(d, i) \subseteq e.bmap
    PROVE  SoundFor(e, C) /\ Kept(d, e, C)
<1>1. IsDisk(e)
  BY DEF SoundFor, IsDisk
<1>2. \A i : Inode(e, i) = Inode(d, i) /\ BlocksOf(e, i) = BlocksOf(d, i)
  BY DEF Inode, BlocksOf
<1>3. \A b : EntriesOf(e, b) = EntriesOf(d, b)
  BY DEF EntriesOf
<1>4. AgreeOn(d, e, C)
  BY <1>2, <1>3 DEF AgreeOn, Called
<1>5. \A i \in Reached(d, C) : Backed(e, i)
  BY <1>2 DEF Backed, SoundFor
<1>6. \A i \in Reached(d, C) : i \notin C => Inode(e, i).links >= Cardinality(Refs(d, C, i))
  BY <1>2 DEF SoundFor
<1> QED
  BY <1>1, <1>2, <1>4, <1>5, <1>6, Frame

\* An inode that nothing reaches, or one that keeps its blocks.
CanPut(d, C, i, node) ==
    \/ i \notin Reached(d, C)
    \/ /\ node.kind = Inode(d, i).kind
       /\ \A b \in BlocksOf(d, i) : \E k \in 1 .. 3 : node.blk[k] = b
       /\ \A k \in 1 .. 3 : node.blk[k] # 0 =>
              /\ node.blk[k] \in d.bmap
              /\ d.content[node.blk[k]].of = i
              /\ node.blk[k] \in BlocksOf(d, i) \/ EntriesOf(d, node.blk[k]) = <<>>
       /\ i \notin C => node.links >= Cardinality(Refs(d, C, i))

LEMMA PutNode ==
    ASSUME NEW d, IsDisk(d), NEW i \in Inodes, NEW node, IsNode(node), NEW e,
           e = [d EXCEPT !.inode = Put(@, i, node)]
    PROVE  /\ IsDisk(e)
           /\ e.imap = d.imap /\ e.bmap = d.bmap /\ e.content = d.content
           /\ Inode(e, i) = node
           /\ \A j : j # i => Inode(e, j) = Inode(d, j) /\ BlocksOf(e, j) = BlocksOf(d, j)
           /\ \A b : EntriesOf(e, b) = EntriesOf(d, b)
           /\ BlocksOf(e, i) = {node.blk[k] : k \in 1 .. 3} \ {0}
<1>1. /\ e.imap = d.imap /\ e.bmap = d.bmap /\ e.content = d.content
      /\ e.inode = Put(d.inode, i, node) /\ DOMAIN e = DOMAIN d
  BY DEF IsDisk
<1>2. \A j : Inode(e, j) = IF j = i THEN node ELSE Inode(d, j)
  BY <1>1 DEF Inode, Put
<1>3. IsDisk(e)
  BY <1>1 DEF IsDisk, Put
<1> QED
  BY <1>1, <1>2, <1>3 DEF BlocksOf, EntriesOf

LEMMA FrameInode ==
    ASSUME NEW d, NEW C, SoundFor(d, C), NEW i \in Inodes, NEW node, IsNode(node),
           CanPut(d, C, i, node), NEW e,
           e = [d EXCEPT !.inode = Put(@, i, node)]
    PROVE  SoundFor(e, C) /\ Kept(d, e, C)
<1>1. IsDisk(d)
  BY DEF SoundFor
<1>2. /\ IsDisk(e)
      /\ e.imap = d.imap /\ e.bmap = d.bmap /\ e.content = d.content
      /\ Inode(e, i) = node
      /\ \A j : j # i => Inode(e, j) = Inode(d, j) /\ BlocksOf(e, j) = BlocksOf(d, j)
      /\ \A b : EntriesOf(e, b) = EntriesOf(d, b)
      /\ BlocksOf(e, i) = {node.blk[k] : k \in 1 .. 3} \ {0}
  BY <1>1, PutNode
<1>3. C \subseteq Reached(d, C)
  BY DEF Reached
<1>4. CASE i \notin Reached(d, C)
  <2>1. AgreeOn(d, e, C)
    BY <1>2, <1>3, <1>4 DEF AgreeOn, Called
  <2>2. \A j \in Reached(d, C) : Backed(e, j)
    BY <1>2, <1>4 DEF Backed, SoundFor
  <2>3. \A j \in Reached(d, C) :
            /\ Inode(e, j).kind = Inode(d, j).kind
            /\ j \notin C => Inode(e, j).links >= Cardinality(Refs(d, C, j))
    BY <1>2, <1>4 DEF SoundFor
  <2> QED
    BY <1>2, <2>1, <2>2, <2>3, Frame
<1>5. CASE i \in Reached(d, C)
  <2>1. /\ node.kind = Inode(d, i).kind
        /\ \A b \in BlocksOf(d, i) : \E k \in 1 .. 3 : node.blk[k] = b
        /\ \A k \in 1 .. 3 : node.blk[k] # 0 =>
              /\ node.blk[k] \in d.bmap
              /\ d.content[node.blk[k]].of = i
              /\ node.blk[k] \in BlocksOf(d, i) \/ EntriesOf(d, node.blk[k]) = <<>>
        /\ i \notin C => node.links >= Cardinality(Refs(d, C, i))
    BY <1>5 DEF CanPut
  <2>2. /\ BlocksOf(d, i) \subseteq BlocksOf(e, i)
        /\ \A b \in BlocksOf(e, i) :
              /\ b \in d.bmap /\ d.content[b].of = i
              /\ b \in BlocksOf(d, i) \/ EntriesOf(d, b) = <<>>
    BY <1>2, <2>1 DEF BlocksOf
  <2>3. AgreeOn(d, e, C)
    <3> SUFFICES ASSUME NEW p \in C, NEW b \in DataBlocks, NEW k \in DirSlots,
                        NEW n \in Names, NEW j
                 PROVE  Called(e, p, b, k, n, j) <=> Called(d, p, b, k, n, j)
      BY DEF AgreeOn
    <3>1. EntriesOf(e, b) = EntriesOf(d, b)
      BY <1>2
    <3>2. EntriesOf(d, b) = <<>> => k \notin DOMAIN EntriesOf(d, b)
      OBVIOUS
    <3> QED
      BY <1>2, <2>2, <3>1, <3>2 DEF Called
  <2>4. \A j \in Reached(d, C) : Backed(e, j)
    BY <1>2, <2>1, <2>2 DEF Backed, SoundFor
  <2>5. \A j \in Reached(d, C) :
            /\ Inode(e, j).kind = Inode(d, j).kind
            /\ j \notin C => Inode(e, j).links >= Cardinality(Refs(d, C, j))
    BY <1>2, <2>1 DEF SoundFor
  <2> QED
    BY <1>2, <2>3, <2>4, <2>5, Frame
<1> QED
  BY <1>4, <1>5

Wrote(d, e, b, data) == e = [d EXCEPT !.content[b] = data]

LEMMA PutData ==
    ASSUME NEW d, IsDisk(d), NEW b \in DataBlocks, NEW data, IsData(data), NEW e,
           Wrote(d, e, b, data)
    PROVE  /\ IsDisk(e)
           /\ e.imap = d.imap /\ e.bmap = d.bmap /\ e.inode = d.inode
           /\ \A c \in DataBlocks : e.content[c] = IF c = b THEN data ELSE d.content[c]
           /\ \A i : Inode(e, i) = Inode(d, i) /\ BlocksOf(e, i) = BlocksOf(d, i)
<1>1. /\ e.imap = d.imap /\ e.bmap = d.bmap /\ e.inode = d.inode /\ DOMAIN e = DOMAIN d
      /\ e.content = [d.content EXCEPT ![b] = data]
  BY DEF IsDisk, Wrote
<1>2. /\ DOMAIN e.content = DataBlocks
      /\ \A c \in DataBlocks : e.content[c] = IF c = b THEN data ELSE d.content[c]
  BY <1>1 DEF IsDisk
<1>3. IsDisk(e)
  BY <1>1, <1>2 DEF IsDisk
<1> QED
  BY <1>1, <1>2, <1>3 DEF Inode, BlocksOf

\* A block of a file, or one that nothing reaches.
LEMMA FrameBlock ==
    ASSUME NEW d, NEW C, SoundFor(d, C), NEW b \in DataBlocks, NEW data, IsData(data),
           \A i \in Reached(d, C) : b \in BlocksOf(d, i) => i \notin C /\ data.of = i,
           NEW e, Wrote(d, e, b, data)
    PROVE  SoundFor(e, C) /\ Kept(d, e, C)
<1>1. IsDisk(d)
  BY DEF SoundFor
<1>2. /\ IsDisk(e)
      /\ e.imap = d.imap /\ e.bmap = d.bmap /\ e.inode = d.inode
      /\ \A c \in DataBlocks : e.content[c] = IF c = b THEN data ELSE d.content[c]
      /\ \A i : Inode(e, i) = Inode(d, i) /\ BlocksOf(e, i) = BlocksOf(d, i)
  BY <1>1, PutData
<1>3. C \subseteq Reached(d, C)
  BY DEF Reached
<1>4. \A i : BlocksOf(d, i) \subseteq DataBlocks
  BY <1>1, BlocksAreData
<1>5. AgreeOn(d, e, C)
  <2> SUFFICES ASSUME NEW p \in C, NEW c \in DataBlocks, NEW k \in DirSlots,
                      NEW n \in Names, NEW j
               PROVE  Called(e, p, c, k, n, j) <=> Called(d, p, c, k, n, j)
    BY DEF AgreeOn
  <2>1. c \in BlocksOf(d, p) => c # b
    BY <1>3
  <2>2. c # b => EntriesOf(e, c) = EntriesOf(d, c)
    BY <1>2 DEF EntriesOf
  <2> QED
    BY <1>2, <2>1, <2>2 DEF Called
<1>6. \A i \in Reached(d, C) : Backed(e, i)
  BY <1>2, <1>4 DEF Backed, SoundFor
<1>7. \A i \in Reached(d, C) :
          /\ Inode(e, i).kind = Inode(d, i).kind
          /\ i \notin C => Inode(e, i).links >= Cardinality(Refs(d, C, i))
  BY <1>2 DEF SoundFor
<1> QED
  BY <1>2, <1>5, <1>6, <1>7, Frame

-----------------------------------------------------------------------------
(* Writing and removing a name.                                             *)

\* Inode i can be given a name: it is written, with all it has, and counts the
\* name already; if it is a directory, it is new and has no names.
Ready(d, C, i) ==
    /\ Backed(d, i)
    /\ Inode(d, i).kind = "dir" =>
          /\ i \notin Reached(d, C)
          /\ \A b \in DataBlocks, k \in DirSlots : \A j : ~Entry(d, i, b, k, j)
    /\ Inode(d, i).kind # "dir" =>
          Inode(d, i).links >= Cardinality(Refs(d, C, i)) + 1

Grown(d, C, i) == IF Inode(d, i).kind = "dir" THEN C \cup {i} ELSE C

\* Name n is not in directory p, or what is left of longer names, of which there
\* may be more than one.
Vacant(d, p, n) == n \in Shortened \/ \A t \in NamesIn(d, p) : t.name # n

\* The name is in its slot, and the other names are what they were.
LEMMA AddedNames ==
    ASSUME NEW d, NEW C, SoundFor(d, C), NEW p \in C, NEW b \in BlocksOf(d, p),
           NEW k \in DirSlots, k \notin DOMAIN EntriesOf(d, b), NEW n \in Names,
           NEW i, Ready(d, C, i), NEW data, IsData(data),
           data.entries = Put(EntriesOf(d, b), k, [name |-> n, ino |-> i]),
           NEW e, Wrote(d, e, b, data)
    PROVE  LET G == Grown(d, C, i)
           IN  /\ \A q \in G : \A c \in DataBlocks, h \in DirSlots, m \in Names : \A j :
                     Called(e, q, c, h, m, j) <=>
                        \/ q \in C /\ Called(d, q, c, h, m, j)
                        \/ q = p /\ c = b /\ h = k /\ m = n /\ j = i
               /\ \A q \in G : \A t : t \in NamesIn(e, q) <=>
                     \/ q \in C /\ t \in NamesIn(d, q)
                     \/ q = p /\ t = NameIn(p, b, k, n, i)
<1> DEFINE G == Grown(d, C, i)
<1>1. IsDisk(d) /\ b \in DataBlocks
  BY BlocksAreData DEF SoundFor
<1>2. /\ IsDisk(e)
      /\ \A c \in DataBlocks : e.content[c] = IF c = b THEN data ELSE d.content[c]
      /\ \A j : BlocksOf(e, j) = BlocksOf(d, j)
  BY <1>1, PutData
<1>3. \A q \in Reached(d, C) \cup {i} : b \in BlocksOf(d, q) => q = p
  <2>1. \A q \in Reached(d, C) \cup {i} : Backed(d, q)
    BY DEF SoundFor, Ready
  <2>2. p \in Reached(d, C)
    BY DEF Reached
  <2> QED
    BY <2>1, <2>2 DEF Backed
<1>4. \A q \in G : q \in Reached(d, C) \cup {i} /\ (q \in C \/ (q = i /\ Inode(d, i).kind = "dir"))
  BY DEF Grown, Reached
<1>5. p \in G
  BY DEF Grown
<1>6. ASSUME NEW c \in DataBlocks, NEW h \in DirSlots, NEW m \in Names,
             Inode(d, i).kind = "dir"
      PROVE  \A j : ~Called(d, i, c, h, m, j)
  <2>1. \A j : ~Entry(d, i, c, h, j)
    BY <1>6 DEF Ready
  <2> QED
    BY <2>1 DEF Entry, NamesAt, Called
<1> HIDE DEF G
<1>7. ASSUME NEW q \in G, NEW c \in DataBlocks, NEW h \in DirSlots, NEW m \in Names, NEW j
      PROVE  Called(e, q, c, h, m, j) <=>
                 \/ q \in C /\ Called(d, q, c, h, m, j)
                 \/ q = p /\ c = b /\ h = k /\ m = n /\ j = i
  <2>1. q \notin C => ~Called(d, q, c, h, m, j)
    BY <1>4, <1>6
  <2>2. CASE c # b
    <3>1. EntriesOf(e, c) = EntriesOf(d, c)
      BY <1>2, <2>2 DEF EntriesOf
    <3> QED
      BY <1>2, <2>1, <2>2, <3>1 DEF Called
  <2>3. CASE c = b
    <3>1. EntriesOf(e, c) = Put(EntriesOf(d, c), k, [name |-> n, ino |-> i])
      BY <1>2, <2>3 DEF EntriesOf
    <3>2. c \in BlocksOf(d, q) <=> q = p
      BY <1>3, <1>4, <2>3
    <3>3. CASE h = k
      BY <1>2, <2>1, <2>3, <3>1, <3>2, <3>3 DEF Called, Put
    <3>4. CASE h # k
      BY <1>2, <2>1, <2>3, <3>1, <3>2, <3>4 DEF Called, Put
    <3> QED
      BY <3>3, <3>4
  <2> QED
    BY <2>2, <2>3
<1>8. ASSUME NEW q \in G, NEW t
      PROVE  t \in NamesIn(e, q) <=>
                 \/ q \in C /\ t \in NamesIn(d, q)
                 \/ q = p /\ t = NameIn(p, b, k, n, i)
  <2>1. t \in NamesIn(e, q) <=>
          \E c \in DataBlocks, h \in DirSlots, m \in Names : \E j :
              Called(e, q, c, h, m, j) /\ t = NameIn(q, c, h, m, j)
    BY <1>2, CalledNames
  <2>2. t \in NamesIn(d, q) <=>
          \E c \in DataBlocks, h \in DirSlots, m \in Names : \E j :
              Called(d, q, c, h, m, j) /\ t = NameIn(q, c, h, m, j)
    BY <1>1, CalledNames
  <2> QED
    BY <1>1, <1>7, <2>1, <2>2
<1> QED
  BY <1>7, <1>8 DEF G

LEMMA AddName ==
    ASSUME NEW d, NEW C, SoundFor(d, C), NEW p \in C, NEW b \in BlocksOf(d, p),
           NEW k \in DirSlots, k \notin DOMAIN EntriesOf(d, b), NEW n \in Names,
           NEW i, Ready(d, C, i), NEW data, IsData(data),
           data.of = d.content[b].of,
           data.entries = Put(EntriesOf(d, b), k, [name |-> n, ino |-> i]),
           NEW e, Wrote(d, e, b, data)
    PROVE  SoundFor(e, Grown(d, C, i))
<1> DEFINE G == Grown(d, C, i)
<1>1. IsDisk(d) /\ b \in DataBlocks
  BY BlocksAreData DEF SoundFor
<1>2. /\ IsDisk(e)
      /\ e.imap = d.imap /\ e.bmap = d.bmap /\ e.inode = d.inode
      /\ \A c \in DataBlocks : e.content[c] = IF c = b THEN data ELSE d.content[c]
      /\ \A j : Inode(e, j) = Inode(d, j) /\ BlocksOf(e, j) = BlocksOf(d, j)
  BY <1>1, PutData
<1>3. /\ \A j \in Reached(d, C) \cup {i} : Backed(d, j)
      /\ C \subseteq Reached(d, C)
      /\ \A j : BlocksOf(d, j) \subseteq DataBlocks
      /\ \A j : Inode(d, j).links \in Int
      /\ \A q \in C : Inode(d, q).kind = "dir"
  BY <1>1, BlocksAreData DEF SoundFor, Ready, Reached, IsNode
<1>4. \A q \in Reached(d, C) \cup {i} : b \in BlocksOf(d, q) => q = p
  BY <1>3 DEF Backed
<1>5. \A j \in Reached(d, C) \cup {i} : Backed(e, j)
  <2>1. data.of = p
    BY <1>3 DEF Backed
  <2> QED
    BY <1>2, <1>3, <1>4, <2>1 DEF Backed
<1>6. ASSUME NEW c \in DataBlocks, NEW h \in DirSlots, NEW j
      PROVE  NamesAt(e, c, h, j) <=> (NamesAt(d, c, h, j) \/ (c = b /\ h = k /\ j = i))
  <2>1. CASE c # b
    BY <1>2, <2>1 DEF NamesAt, EntriesOf
  <2>2. CASE c = b
    <3>1. EntriesOf(e, c) = Put(EntriesOf(d, c), k, [name |-> n, ino |-> i])
      BY <1>2, <2>2 DEF EntriesOf
    <3> QED
      BY <2>2, <3>1 DEF NamesAt, Put
  <2> QED
    BY <2>1, <2>2
<1>7. /\ C \subseteq G /\ \A q \in G : q \in C \/ (q = i /\ Inode(d, i).kind = "dir")
      /\ Inode(d, i).kind = "dir" => i \in G /\ i \notin Reached(d, C)
  BY DEF Grown, Ready
<1>8. \A c \in DataBlocks, h \in DirSlots : \A j :
          Inode(d, i).kind = "dir" => ~Entry(d, i, c, h, j)
  BY DEF Ready
<1>9. \A q \in G : Inode(d, q).kind = "dir"
  BY <1>3, <1>7
<1> HIDE DEF G
<1>10. ASSUME NEW q \in G, NEW c \in DataBlocks, NEW h \in DirSlots, NEW j
       PROVE  Entry(e, q, c, h, j) <=>
                 ((q \in C /\ Entry(d, q, c, h, j)) \/ (q = p /\ c = b /\ h = k /\ j = i))
  <2>1. Entry(e, q, c, h, j) <=> (c \in BlocksOf(d, q) /\ NamesAt(e, c, h, j))
    BY <1>2 DEF Entry
  <2>2. c \in BlocksOf(d, q) /\ c = b => q = p
    BY <1>3, <1>4, <1>7
  <2>3. q \notin C => ~Entry(d, q, c, h, j)
    BY <1>7, <1>8
  <2> QED
    BY <1>6, <2>1, <2>2, <2>3 DEF Entry
<1>11. ASSUME NEW q \in G, NEW j
       PROVE  Leads(e, q, j) <=> ((q \in C /\ Leads(d, q, j)) \/ (q = p /\ j = i))
  <2>1. Leads(e, q, j) <=> \E c \in DataBlocks, h \in DirSlots : Entry(e, q, c, h, j)
    BY <1>2, Leading
  <2>2. Leads(d, q, j) <=> \E c \in DataBlocks, h \in DirSlots : Entry(d, q, c, h, j)
    BY <1>1, Leading
  <2> QED
    BY <1>1, <1>10, <2>1, <2>2
<1>12. \A j : j \in Reached(e, G) <=> (j \in Reached(d, C) \/ j = i)
  <2>1. \A j : j \in Reached(e, G) <=> (j \in G \/ \E q \in G : Leads(e, q, j))
    BY <1>2, Leading
  <2>2. \A j : j \in Reached(d, C) <=> (j \in C \/ \E q \in C : Leads(d, q, j))
    BY <1>1, Leading
  <2> QED
    BY <1>7, <1>11, <2>1, <2>2
<1>13. Closed(e, G)
  <2>1. Root \in G
    BY <1>7 DEF SoundFor, Closed
  <2>2. ASSUME NEW q \in G, NEW j, Leads(e, q, j), Inode(e, j).kind = "dir" PROVE j \in G
    <3>1. Inode(d, j).kind = "dir"
      BY <1>2, <2>2
    <3>2. CASE q \in C /\ Leads(d, q, j)
      BY <1>7, <3>1, <3>2 DEF SoundFor, Closed
    <3>3. CASE j = i
      BY <1>7, <3>1, <3>3
    <3> QED
      BY <1>11, <2>2, <3>2, <3>3
  <2> QED
    BY <2>1, <2>2 DEF Closed
<1>14. ASSUME NEW j \in Reached(e, G) \ G
       PROVE  Inode(e, j).links >= Cardinality(Refs(e, G, j))
  <2>1. \A r \in Refs(e, G, j) : r \in Refs(d, C, j) \/ (j = i /\ r = <<b, k>>)
    <3> SUFFICES ASSUME NEW r \in Refs(e, G, j)
                 PROVE  r \in Refs(d, C, j) \/ (j = i /\ r = <<b, k>>)
      OBVIOUS
    <3>1. PICK q \in G : Entry(e, q, r[1], r[2], j)
      BY DEF Refs
    <3>2. r \in DataBlocks \X DirSlots /\ r[1] \in DataBlocks /\ r[2] \in DirSlots
      BY DEF Refs
    <3>3. (q \in C /\ Entry(d, q, r[1], r[2], j)) \/ (r[1] = b /\ r[2] = k /\ j = i)
      BY <1>10, <3>1, <3>2
    <3> QED
      BY <3>2, <3>3 DEF Refs
  <2>2. /\ IsFiniteSet(Refs(d, C, j)) /\ Cardinality(Refs(d, C, j)) \in Nat
        /\ IsFiniteSet(Refs(e, G, j)) /\ Cardinality(Refs(e, G, j)) \in Nat
    BY <1>1, <1>2, Leading
  <2>3. Inode(e, j) = Inode(d, j) /\ Inode(d, j).links \in Int /\ j \notin C
    BY <1>2, <1>3, <1>7
  <2>4. CASE j # i
    <3>1. Refs(e, G, j) \in SUBSET Refs(d, C, j)
      BY <2>1, <2>4
    <3>2. Cardinality(Refs(e, G, j)) <= Cardinality(Refs(d, C, j))
      BY <2>2, <3>1, FS_Subset
    <3>3. Inode(d, j).links >= Cardinality(Refs(d, C, j))
      BY <1>12, <2>3, <2>4 DEF SoundFor
    <3> QED
      BY <2>2, <2>3, <3>2, <3>3
  <2>5. CASE j = i
    <3> DEFINE more == Refs(d, C, j) \cup {<<b, k>>}
    <3>1. IsFiniteSet(more) /\ Cardinality(more) <= Cardinality(Refs(d, C, j)) + 1
          /\ Cardinality(more) \in Nat
      <4>1. /\ IsFiniteSet(more)
            /\ Cardinality(more) = IF <<b, k>> \in Refs(d, C, j)
                                   THEN Cardinality(Refs(d, C, j))
                                   ELSE Cardinality(Refs(d, C, j)) + 1
        BY <2>2, FS_AddElement
      <4> HIDE DEF more
      <4> QED
        BY <2>2, <4>1
    <3>2. Refs(e, G, j) \in SUBSET more
      BY <2>1
    <3> HIDE DEF more
    <3>3. Cardinality(Refs(e, G, j)) <= Cardinality(more)
      BY <3>1, <3>2, FS_Subset
    <3>4. Inode(d, i).links >= Cardinality(Refs(d, C, i)) + 1
      BY <1>7, <2>5 DEF Ready
    <3> QED
      BY <2>2, <2>3, <2>5, <3>1, <3>3, <3>4
  <2> QED
    BY <2>4, <2>5
<1>15. \A q \in G : Inode(e, q).kind = "dir"
  BY <1>2, <1>9
<1>16. \A j \in Reached(e, G) : Backed(e, j)
  BY <1>5, <1>12
<1> QED
  BY <1>2, <1>13, <1>14, <1>15, <1>16 DEF SoundFor, G

Emptied(d, b, k, data) ==
    data.entries = Restrict(EntriesOf(d, b), DOMAIN EntriesOf(d, b) \ {k})

LEMMA DroppedNames ==
    ASSUME NEW d, IsDisk(d), NEW b \in DataBlocks, NEW k, NEW data, IsData(data),
           Emptied(d, b, k, data), NEW e, Wrote(d, e, b, data)
    PROVE  \A q, c, h, m, j : c \in DataBlocks =>
               (Called(e, q, c, h, m, j) <=>
                    Called(d, q, c, h, m, j) /\ ~(c = b /\ h = k))
<1> SUFFICES ASSUME NEW q, NEW c \in DataBlocks, NEW h, NEW m, NEW j
             PROVE  Called(e, q, c, h, m, j) <=>
                        Called(d, q, c, h, m, j) /\ ~(c = b /\ h = k)
  OBVIOUS
<1>1. /\ e.content[c] = IF c = b THEN data ELSE d.content[c]
      /\ BlocksOf(e, q) = BlocksOf(d, q)
  BY PutData
<1>2. CASE c # b
  BY <1>1, <1>2 DEF Called, EntriesOf
<1>3. CASE c = b
  <2>1. EntriesOf(e, c) = Restrict(EntriesOf(d, c), DOMAIN EntriesOf(d, c) \ {k})
    BY <1>1, <1>3 DEF EntriesOf, Emptied
  <2> QED
    BY <1>1, <1>3, <2>1 DEF Called, Restrict
<1> QED
  BY <1>2, <1>3

LEMMA DropName ==
    ASSUME NEW d, NEW C, SoundFor(d, C), NEW p \in C, NEW b \in BlocksOf(d, p),
           NEW k \in DirSlots, NEW i, NamesAt(d, b, k, i), Inode(d, i).kind # "dir",
           NEW data, IsData(data), data.of = d.content[b].of,
           Emptied(d, b, k, data), NEW e, Wrote(d, e, b, data)
    PROVE  /\ SoundFor(e, C)
           /\ i \notin C /\ Inode(e, i) = Inode(d, i) /\ Backed(e, i)
           /\ Inode(e, i).links >= Cardinality(Refs(e, C, i)) + 1
<1>1. IsDisk(d) /\ b \in DataBlocks
  BY BlocksAreData DEF SoundFor
<1>2. /\ IsDisk(e)
      /\ e.imap = d.imap /\ e.bmap = d.bmap /\ e.inode = d.inode
      /\ \A c \in DataBlocks : e.content[c] = IF c = b THEN data ELSE d.content[c]
      /\ \A j : Inode(e, j) = Inode(d, j) /\ BlocksOf(e, j) = BlocksOf(d, j)
  BY <1>1, PutData
<1>3. /\ \A j \in Reached(d, C) : Backed(d, j)
      /\ \A j : BlocksOf(d, j) \subseteq DataBlocks
      /\ \A j : Inode(d, j).links \in Int
      /\ \A q \in C : Inode(d, q).kind = "dir"
  BY <1>1, BlocksAreData DEF SoundFor, IsNode
<1>4. \A j \in Reached(d, C) : Backed(e, j)
  BY <1>2, <1>3 DEF Backed
<1>5. ASSUME NEW c \in DataBlocks, NEW h \in DirSlots, NEW j
      PROVE  NamesAt(e, c, h, j) <=> (NamesAt(d, c, h, j) /\ ~(c = b /\ h = k))
  <2>1. CASE c # b
    BY <1>2, <2>1 DEF NamesAt, EntriesOf
  <2>2. CASE c = b
    <3>1. EntriesOf(e, c) = Restrict(EntriesOf(d, c), DOMAIN EntriesOf(d, c) \ {k})
      BY <1>2, <2>2 DEF EntriesOf, Emptied
    <3> QED
      BY <2>2, <3>1 DEF NamesAt, Restrict
  <2> QED
    BY <2>1, <2>2
<1>6. \A q \in C : \A c \in DataBlocks, h \in DirSlots : \A j :
          Entry(e, q, c, h, j) <=> (Entry(d, q, c, h, j) /\ ~(c = b /\ h = k))
  BY <1>2, <1>5 DEF Entry
<1>7. \A q \in C : \A j : Leads(e, q, j) => Leads(d, q, j)
  <2>1. \A q, j : Leads(e, q, j) <=> \E c \in DataBlocks, h \in DirSlots : Entry(e, q, c, h, j)
    BY <1>2, Leading
  <2>2. \A q, j : Leads(d, q, j) <=> \E c \in DataBlocks, h \in DirSlots : Entry(d, q, c, h, j)
    BY <1>1, Leading
  <2> QED
    BY <1>6, <2>1, <2>2
<1>8. Reached(e, C) \subseteq Reached(d, C)
  <2>1. \A j : j \in Reached(e, C) <=> (j \in C \/ \E q \in C : Leads(e, q, j))
    BY <1>2, Leading
  <2>2. \A j : j \in Reached(d, C) <=> (j \in C \/ \E q \in C : Leads(d, q, j))
    BY <1>1, Leading
  <2> QED
    BY <1>7, <2>1, <2>2
<1>9. Closed(e, C)
  BY <1>2, <1>7 DEF Closed, SoundFor
<1>10. ASSUME NEW j
       PROVE  /\ Refs(e, C, j) \in SUBSET (Refs(d, C, j) \ {<<b, k>>})
              /\ IsFiniteSet(Refs(d, C, j)) /\ Cardinality(Refs(d, C, j)) \in Nat
              /\ IsFiniteSet(Refs(e, C, j)) /\ Cardinality(Refs(e, C, j)) \in Nat
              /\ Cardinality(Refs(e, C, j)) <= Cardinality(Refs(d, C, j) \ {<<b, k>>})
              /\ Cardinality(Refs(d, C, j) \ {<<b, k>>}) =
                    IF <<b, k>> \in Refs(d, C, j) THEN Cardinality(Refs(d, C, j)) - 1
                    ELSE Cardinality(Refs(d, C, j))
  <2>1. /\ IsFiniteSet(Refs(d, C, j)) /\ Cardinality(Refs(d, C, j)) \in Nat
        /\ IsFiniteSet(Refs(e, C, j)) /\ Cardinality(Refs(e, C, j)) \in Nat
    BY <1>1, <1>2, Leading
  <2>2. Refs(e, C, j) \in SUBSET (Refs(d, C, j) \ {<<b, k>>})
    <3> SUFFICES ASSUME NEW r \in Refs(e, C, j) PROVE r \in Refs(d, C, j) /\ r # <<b, k>>
      OBVIOUS
    <3>1. PICK q \in C : Entry(e, q, r[1], r[2], j)
      BY DEF Refs
    <3>2. r \in DataBlocks \X DirSlots /\ r[1] \in DataBlocks /\ r[2] \in DirSlots
      BY DEF Refs
    <3>3. Entry(d, q, r[1], r[2], j) /\ ~(r[1] = b /\ r[2] = k)
      BY <1>6, <3>1, <3>2
    <3> QED
      BY <3>2, <3>3 DEF Refs
  <2>3. /\ IsFiniteSet(Refs(d, C, j) \ {<<b, k>>})
        /\ Cardinality(Refs(d, C, j) \ {<<b, k>>}) =
              IF <<b, k>> \in Refs(d, C, j) THEN Cardinality(Refs(d, C, j)) - 1
              ELSE Cardinality(Refs(d, C, j))
    BY <2>1, FS_RemoveElement
  <2>4. Cardinality(Refs(e, C, j)) <= Cardinality(Refs(d, C, j) \ {<<b, k>>})
    BY <2>2, <2>3, FS_Subset
  <2> QED
    BY <2>1, <2>2, <2>3, <2>4
<1>11. ASSUME NEW j \in Reached(e, C) \ C
       PROVE  Inode(e, j).links >= Cardinality(Refs(e, C, j))
  <2>1. Inode(d, j).links >= Cardinality(Refs(d, C, j))
    BY <1>8 DEF SoundFor
  <2>2. Cardinality(Refs(e, C, j)) <= Cardinality(Refs(d, C, j))
    <3>1. Refs(e, C, j) \in SUBSET Refs(d, C, j) /\ IsFiniteSet(Refs(d, C, j))
      BY <1>10
    <3> QED
      BY <3>1, FS_Subset
  <2>3. Cardinality(Refs(d, C, j)) \in Nat /\ Cardinality(Refs(e, C, j)) \in Nat
    BY <1>10
  <2> QED
    BY <1>2, <1>3, <2>1, <2>2, <2>3
<1>12. SoundFor(e, C)
  BY <1>2, <1>3, <1>4, <1>8, <1>9, <1>11 DEF SoundFor
<1>13. i \notin C /\ i \in Reached(d, C)
  <2>1. Leads(d, p, i)
    BY <1>1 DEF Leads
  <2> QED
    BY <1>1, <1>3, <2>1, Leading
<1>14. Cardinality(Refs(e, C, i)) <= Cardinality(Refs(d, C, i)) - 1
  <2>1. <<b, k>> \in Refs(d, C, i)
    BY <1>1 DEF Refs, Entry
  <2> QED
    BY <1>10, <2>1
<1>15. Inode(d, i).links >= Cardinality(Refs(d, C, i))
  BY <1>13 DEF SoundFor
<1>16. Inode(e, i).links >= Cardinality(Refs(e, C, i)) + 1
  <2>1. Cardinality(Refs(d, C, i)) \in Nat /\ Cardinality(Refs(e, C, i)) \in Nat
    BY <1>10
  <2> QED
    BY <1>2, <1>3, <1>14, <1>15, <2>1
<1> QED
  BY <1>2, <1>4, <1>12, <1>13, <1>16

-----------------------------------------------------------------------------
(* What one write does to the tree of names: what Namespace allows.         *)

NameAdded(d, e, p, n, i) ==
    /\ n \in Shortened \/ \A t \in Tree(d) : t.dir # p \/ t.name # n
    /\ \E b, k : /\ NameIn(p, b, k, n, i) \notin Tree(d)
                  /\ Tree(e) = Tree(d) \cup {NameIn(p, b, k, n, i)}
    /\ \/ /\ i \notin Named(d)
          /\ Directories(e) \in {Directories(d), Directories(d) \cup {i}}
       \/ i \in Named(d) \ Directories(d) /\ Directories(e) = Directories(d)

NameDropped(d, e, t) ==
    /\ t.ino \notin Directories(d)
    /\ Tree(e) = Tree(d) \ {t}
    /\ Directories(e) = Directories(d)

Step(d, e) ==
    \/ SameNames(d, e)
    \/ \E p \in Directories(d), n \in Names : \E i : NameAdded(d, e, p, n, i)
    \/ \E t \in Tree(d) : NameDropped(d, e, t)

\* What is ready for a name among some directories is so among the least.
LEMMA ReadyLeast ==
    ASSUME NEW d, NEW C, SoundFor(d, C), NEW i, Ready(d, C, i)
    PROVE  /\ SoundFor(d, Directories(d)) /\ Reached(d, Directories(d)) = Named(d)
           /\ Directories(d) \subseteq C /\ Ready(d, Directories(d), i)
           /\ Closed(d, Directories(d)) /\ \A B : Closed(d, B) => Directories(d) \subseteq B
           /\ Inode(d, Root).kind = "dir"
<1> DEFINE D == Directories(d)
<1>1. IsDisk(d) /\ Closed(d, C) /\ Inode(d, Root).kind = "dir" /\ Inode(d, i).links \in Int
  BY BlocksAreData DEF SoundFor, Closed, IsNode
<1>2. SoundFor(d, D) /\ Reached(d, D) = Named(d)
  BY SoundShrinks DEF Sound
<1>3. Closed(d, D) /\ (\A B : Closed(d, B) => D \subseteq B) /\ D \subseteq C
  BY <1>1, DirectoriesLeast
<1> HIDE DEF D
<1>4. Reached(d, D) \subseteq Reached(d, C) /\ Refs(d, D, i) \in SUBSET Refs(d, C, i)
  BY <1>3 DEF Reached, Below, Refs
<1>5. /\ IsFiniteSet(Refs(d, C, i)) /\ Cardinality(Refs(d, C, i)) \in Nat
      /\ Cardinality(Refs(d, D, i)) \in Nat
  BY <1>1, Leading
<1>6. Cardinality(Refs(d, D, i)) <= Cardinality(Refs(d, C, i))
  BY <1>4, <1>5, FS_Subset
<1>7. Inode(d, i).kind # "dir" => Inode(d, i).links >= Cardinality(Refs(d, D, i)) + 1
  <2>1. Inode(d, i).kind # "dir" => Inode(d, i).links >= Cardinality(Refs(d, C, i)) + 1
    BY DEF Ready
  <2> QED
    BY <1>1, <1>5, <1>6, <2>1
<1>8. Ready(d, D, i)
  BY <1>4, <1>7 DEF Ready
<1> QED
  BY <1>1, <1>2, <1>3, <1>8 DEF D

LEMMA AddNameStep ==
    ASSUME NEW d, NEW C, SoundFor(d, C), NEW p \in C, NEW b \in BlocksOf(d, p),
           NEW k \in DirSlots, k \notin DOMAIN EntriesOf(d, b), NEW n \in Names,
           Vacant(d, p, n), NEW i, Ready(d, C, i), NEW data, IsData(data),
           data.of = d.content[b].of,
           data.entries = Put(EntriesOf(d, b), k, [name |-> n, ino |-> i]),
           NEW e, Wrote(d, e, b, data)
    PROVE  /\ Step(d, e)
           /\ p \in Directories(d) => /\ NameAdded(d, e, p, n, i)
                                     /\ Directories(e) = Grown(d, Directories(d), i)
<1> DEFINE D == Directories(d)
           E == Directories(e)
           x == NameIn(p, b, k, n, i)
<1>1. IsDisk(d) /\ b \in DataBlocks
  BY BlocksAreData DEF SoundFor
<1>2. /\ IsDisk(e)
      /\ \A c \in DataBlocks : e.content[c] = IF c = b THEN data ELSE d.content[c]
      /\ \A j : Inode(e, j) = Inode(d, j) /\ BlocksOf(e, j) = BlocksOf(d, j)
  BY <1>1, PutData
<1>3. /\ SoundFor(d, D) /\ Reached(d, D) = Named(d) /\ D \subseteq C /\ Ready(d, D, i)
      /\ Closed(d, D) /\ \A B : Closed(d, B) => D \subseteq B
      /\ Inode(d, Root).kind = "dir"
  BY ReadyLeast
<1>4. Closed(e, E) /\ \A B : Closed(e, B) => E \subseteq B
  BY <1>2, <1>3, DirectoriesLeast
<1>5. Tree(e) = UNION {NamesIn(e, q) : q \in E} /\ Tree(d) = UNION {NamesIn(d, q) : q \in D}
  BY DEF Tree
<1>6. \A q, t : t \in NamesIn(d, q) => t.dir = q
  BY <1>1, CalledNames, NameParts
<1> HIDE DEF D, E
<1>7. CASE p \notin D
  <2>1. \A q \in D : b \notin BlocksOf(d, q)
    <3>1. \A q \in D : Backed(d, q)
      BY <1>3 DEF SoundFor, Reached
    <3>2. Backed(d, p)
      BY DEF SoundFor, Reached
    <3> QED
      BY <1>7, <3>1, <3>2 DEF Backed
  <2>2. AgreeOn(d, e, D)
    <3> SUFFICES ASSUME NEW q \in D, NEW c \in DataBlocks, NEW h \in DirSlots,
                        NEW m \in Names, NEW j
                 PROVE  Called(e, q, c, h, m, j) <=> Called(d, q, c, h, m, j)
      BY DEF AgreeOn
    <3>1. c # b => EntriesOf(e, c) = EntriesOf(d, c)
      BY <1>2 DEF EntriesOf
    <3> QED
      BY <1>2, <2>1, <3>1 DEF Called
  <2>3. SameNames(d, e)
    BY <1>1, <1>2, <1>3, <2>2, NamesFrame
  <2> QED
    BY <1>7, <2>3 DEF Step, D
<1>8. CASE p \in D
  <2> DEFINE G == Grown(d, D, i)
  <2>1. SoundFor(e, G)
    BY <1>3, <1>8, AddName
  <2>2. \A q \in G : \A t : t \in NamesIn(e, q) <=>
            \/ q \in D /\ t \in NamesIn(d, q)
            \/ q = p /\ t = x
    BY <1>3, <1>8, AddedNames
  <2>3. /\ D \subseteq G /\ \A q \in G : q \in D \/ (q = i /\ Inode(d, i).kind = "dir")
        /\ Inode(d, i).kind = "dir" => i \in G /\ G = D \cup {i}
        /\ Inode(d, i).kind # "dir" => G = D
    BY DEF Grown
  <2>4. Inode(d, i).kind = "dir" => i \notin Named(d) /\ \A j : ~Leads(d, i, j)
    BY <1>1, <1>3, Leading DEF Ready
  <2> HIDE DEF G
  <2>5. E \subseteq G
    BY <1>4, <2>1 DEF SoundFor
  <2>6. Closed(d, E)
    <3>1. ASSUME NEW q \in E, NEW j, Leads(d, q, j) PROVE Leads(e, q, j)
      <4>1. q \in D
        BY <2>3, <2>4, <2>5, <3>1
      <4>2. PICK t \in NamesIn(d, q) : t.ino = j
        BY <1>1, <3>1, NamesInLead
      <4>3. t \in NamesIn(e, q)
        BY <2>2, <2>3, <4>1
      <4> QED
        BY <1>2, <4>2, <4>3, NamesInLead
    <3> QED
      BY <1>2, <1>4, <3>1 DEF Closed
  <2>7. D \subseteq E
    BY <1>3, <2>6
  <2>8. E = G
    <3>1. x \in NamesIn(e, p)
      BY <1>8, <2>2, <2>3
    <3>2. Leads(e, p, i)
      BY <1>2, <3>1, NamesInLead, NameParts
    <3>3. Inode(d, i).kind = "dir" => i \in E
      BY <1>2, <1>4, <1>8, <2>7, <3>2 DEF Closed
    <3> QED
      BY <2>3, <2>5, <2>7, <3>3
  <2>9. Tree(e) = Tree(d) \cup {x}
    <3>1. \A t : t \in Tree(e) <=> \E q \in G : t \in NamesIn(e, q)
      BY <1>5, <2>8
    <3>2. \A t : t \in Tree(d) <=> \E q \in D : t \in NamesIn(d, q)
      BY <1>5
    <3>3. \A t : t \in Tree(e) <=> (t \in Tree(d) \/ t = x)
      BY <1>8, <2>2, <2>3, <3>1, <3>2
    <3> QED
      BY <3>3
  <2>10. /\ n \in Shortened \/ \A t \in Tree(d) : t.dir # p \/ t.name # n
         /\ x \notin Tree(d)
    <3>1. n \in Shortened \/ \A t \in Tree(d) : t.dir # p \/ t.name # n
      BY <1>5, <1>6 DEF Vacant
    <3>2. ASSUME NEW q, x \in NamesIn(d, q) PROVE FALSE
      <4>1. PICK c \in DataBlocks, h \in DirSlots, m \in Names, j \in {x.ino} :
                Called(d, q, c, h, m, j) /\ x = NameIn(q, c, h, m, j)
        BY <1>1, <3>2, CalledNames, NameParts
      <4>2. <<c, h>> = <<b, k>>
        BY <4>1, NameParts
      <4> QED
        BY <4>1, <4>2 DEF Called
    <3> QED
      BY <1>5, <3>1, <3>2
  <2>11. i \in Named(d) => i \notin D
    <3>1. i \in D => Inode(d, i).kind = "dir"
      BY <1>3 DEF SoundFor
    <3> QED
      BY <2>4, <3>1
  <2>12. NameAdded(d, e, p, n, i)
    BY <2>3, <2>4, <2>8, <2>9, <2>10, <2>11 DEF NameAdded, D, E
  <2> QED
    BY <1>8, <2>8, <2>12 DEF Step, D, E, G
<1> QED
  BY <1>7, <1>8

LEMMA DropNameStep ==
    ASSUME NEW d, NEW C, SoundFor(d, C), NEW p \in C, NEW b \in BlocksOf(d, p),
           NEW k \in DirSlots, NEW i, NamesAt(d, b, k, i), Inode(d, i).kind # "dir",
           NEW data, IsData(data), data.of = d.content[b].of,
           Emptied(d, b, k, data), NEW e, Wrote(d, e, b, data)
    PROVE  /\ Step(d, e)
           /\ p \in Directories(d) => \E t \in Tree(d) : t.ino = i /\ NameDropped(d, e, t)
<1> DEFINE D == Directories(d)
           E == Directories(e)
<1>1. IsDisk(d) /\ b \in DataBlocks
  BY BlocksAreData DEF SoundFor
<1>2. /\ IsDisk(e)
      /\ \A c \in DataBlocks : e.content[c] = IF c = b THEN data ELSE d.content[c]
      /\ \A j : Inode(e, j) = Inode(d, j) /\ BlocksOf(e, j) = BlocksOf(d, j)
  BY <1>1, PutData
<1>3. SoundFor(d, D) /\ Inode(d, Root).kind = "dir"
  BY SoundShrinks DEF Sound, SoundFor, Closed
<1>4. Closed(d, D) /\ \A B : Closed(d, B) => D \subseteq B
  BY <1>1, <1>3, DirectoriesLeast
<1>5. Closed(e, E) /\ \A B : Closed(e, B) => E \subseteq B
  BY <1>2, <1>3, DirectoriesLeast
<1>6. Tree(e) = UNION {NamesIn(e, q) : q \in E} /\ Tree(d) = UNION {NamesIn(d, q) : q \in D}
  BY DEF Tree
<1>7. \A q, c, h, m, j : c \in DataBlocks =>
           (Called(e, q, c, h, m, j) <=>
                Called(d, q, c, h, m, j) /\ ~(c = b /\ h = k))
  BY <1>1, DroppedNames
<1> HIDE DEF D, E
<1>8. PICK n \in Names : Called(d, p, b, k, n, i)
  BY DEF NamesAt, Called
<1> DEFINE x == NameIn(p, b, k, n, i)
<1>9. \A q : b \in BlocksOf(d, q) /\ q \in C => q = p
  BY DEF SoundFor, Reached, Backed
<1>10. D \subseteq C
  BY <1>4 DEF SoundFor
<1>11. ASSUME NEW q \in D, NEW t
       PROVE  t \in NamesIn(e, q) <=> t \in NamesIn(d, q) /\ t # x
  <2>1. t \in NamesIn(e, q) <=>
          \E c \in DataBlocks, h \in DirSlots, m \in Names : \E j :
              Called(e, q, c, h, m, j) /\ t = NameIn(q, c, h, m, j)
    BY <1>2, CalledNames
  <2>2. t \in NamesIn(d, q) <=>
          \E c \in DataBlocks, h \in DirSlots, m \in Names : \E j :
              Called(d, q, c, h, m, j) /\ t = NameIn(q, c, h, m, j)
    BY <1>1, CalledNames
  <2>3. ASSUME t \in NamesIn(e, q) PROVE t \in NamesIn(d, q) /\ t # x
    <3>1. PICK c \in DataBlocks, h \in DirSlots, m \in Names, j \in {t.ino} :
              Called(e, q, c, h, m, j) /\ t = NameIn(q, c, h, m, j)
      BY <2>1, <2>3, NameParts
    <3>2. Called(d, q, c, h, m, j) /\ ~(c = b /\ h = k)
      BY <1>7, <3>1
    <3>3. t.at # x.at
      BY <3>1, <3>2, NameParts
    <3> QED
      BY <2>2, <3>1, <3>2, <3>3
  <2>4. ASSUME t \in NamesIn(d, q), t # x PROVE t \in NamesIn(e, q)
    <3>1. PICK c \in DataBlocks, h \in DirSlots, m \in Names, j \in {t.ino} :
              Called(d, q, c, h, m, j) /\ t = NameIn(q, c, h, m, j)
      BY <2>2, <2>4, NameParts
    <3>2. ASSUME c = b, h = k PROVE FALSE
      <4>1. q = p
        BY <1>9, <1>10, <3>1, <3>2 DEF Called
      <4>2. m = n /\ j = i
        BY <1>8, <3>1, <3>2 DEF Called
      <4> QED
        BY <2>4, <3>1, <3>2, <4>1, <4>2
    <3>3. Called(e, q, c, h, m, j)
      BY <1>7, <3>1, <3>2
    <3> QED
      BY <2>1, <3>1, <3>3
  <2> QED
    BY <2>3, <2>4
<1>12. E = D
  <2>1. \A q \in D : \A j : Leads(e, q, j) => Leads(d, q, j)
    BY <1>1, <1>2, <1>11, NamesInLead
  <2>2. Closed(e, D)
    BY <1>2, <1>4, <2>1 DEF Closed
  <2>3. E \subseteq D
    BY <1>5, <2>2
  <2>4. ASSUME NEW q \in D, NEW j, Leads(d, q, j), Inode(d, j).kind = "dir" PROVE Leads(e, q, j)
    <3>1. PICK t \in NamesIn(d, q) : t.ino = j
      BY <1>1, <2>4, NamesInLead
    <3>2. t # x
      BY <2>4, <3>1, NameParts
    <3>3. t \in NamesIn(e, q)
      BY <1>11, <3>1, <3>2
    <3> QED
      BY <1>2, <3>1, <3>3, NamesInLead
  <2>5. Closed(d, E)
    BY <1>2, <1>5, <2>3, <2>4 DEF Closed
  <2> QED
    BY <1>4, <2>3, <2>5
<1>13. Tree(e) = Tree(d) \ {x}
  <2>1. \A t : t \in Tree(e) <=> \E q \in D : t \in NamesIn(e, q)
    BY <1>6, <1>12
  <2>2. \A t : t \in Tree(d) <=> \E q \in D : t \in NamesIn(d, q)
    BY <1>6
  <2>3. \A t : t \in Tree(e) <=> (t \in Tree(d) /\ t # x)
    BY <1>11, <2>1, <2>2
  <2> QED
    BY <2>3
<1>14. i \notin D
  BY <1>3 DEF SoundFor
<1>15. CASE x \in Tree(d)
  <2>1. NameDropped(d, e, x) /\ x.ino = i
    BY <1>12, <1>13, <1>14, NameParts DEF NameDropped, D, E
  <2> QED
    BY <1>15, <2>1 DEF Step
<1>16. CASE x \notin Tree(d)
  <2>1. Tree(e) = Tree(d)
    BY <1>13, <1>16
  <2>2. p \notin D
    <3>1. x \in NamesIn(d, p)
      BY <1>1, <1>8, CalledNames
    <3> QED
      BY <1>6, <1>16, <3>1
  <2> QED
    BY <1>12, <2>1, <2>2 DEF Step, SameNames, D, E
<1> QED
  BY <1>15, <1>16

-----------------------------------------------------------------------------
(* Logs: the blocks a call writes on disk d0, one after the other.          *)

IsLog(l) == \E S : l \in Seq(S)

\* The disk that write k finds.
Before(d0, l, k) == IF k = 1 THEN d0 ELSE l[k - 1].disk

\* No write of the journal among the first n overwrites anything in use.
CleanTo(d0, l, n) ==
    \A k \in 1 .. n : l[k].journal => ~Overwrites(Before(d0, l, k), l[k].disk)

\* As long as nothing in use is overwritten, every write leaves a sound disk and
\* changes the names by one step.
SafeLog(d0, l) ==
    /\ IsLog(l)
    /\ \A n \in 1 .. Len(l) :
          CleanTo(d0, l, n) => Sound(l[n].disk) /\ Step(Before(d0, l, n), l[n].disk)

Proper(d0, s) ==
    /\ DOMAIN s = {"d", "m", "log"}
    /\ SafeLog(d0, s.log)
    /\ s.d = IF Len(s.log) = 0 THEN d0 ELSE s.log[Len(s.log)].disk

Clean(d0, s) == CleanTo(d0, s.log, Len(s.log))

\* A session with nothing overwritten so far, and one that is lost.
Ok(d0, s, C)  == Proper(d0, s) /\ Clean(d0, s) /\ SoundFor(s.d, C)
Lost(d0, s)   == Proper(d0, s) /\ ~Clean(d0, s)

LEMMA LogAppend ==
    ASSUME NEW l, IsLog(l), NEW x
    PROVE  /\ IsLog(Append(l, x)) /\ Len(l) \in Nat
           /\ Len(Append(l, x)) = Len(l) + 1
           /\ Append(l, x)[Len(l) + 1] = x
           /\ \A k \in 1 .. Len(l) : Append(l, x)[k] = l[k]
<1>1. PICK S : l \in Seq(S)
  BY DEF IsLog
<1>2. l \in Seq(S \cup {x})
  BY <1>1
<1>3. Append(l, x) \in Seq(S \cup {x})
  BY <1>2
<1> QED
  BY <1>2, <1>3 DEF IsLog

LEMMA LogOne ==
    ASSUME NEW d0, NEW s, Proper(d0, s), NEW journal \in BOOLEAN, NEW e,
           (Clean(d0, s) /\ (journal => ~Overwrites(s.d, e))) => Sound(e) /\ Step(s.d, e)
    PROVE  /\ Proper(d0, Logged(s, e, journal))
           /\ Logged(s, e, journal).d = e /\ Logged(s, e, journal).m = s.m
           /\ Clean(d0, Logged(s, e, journal)) <=>
                 (Clean(d0, s) /\ (journal => ~Overwrites(s.d, e)))
<1> DEFINE x == [disk |-> e, journal |-> journal]
           l == s.log
           n == Len(l)
           g == Append(l, x)
           t == Logged(s, e, journal)
<1>1. DOMAIN t = {"d", "m", "log"} /\ t.d = e /\ t.m = s.m /\ t.log = g
  BY DEF Logged, Proper
<1>2. IsLog(l)
  BY DEF Proper, SafeLog
<1>3. /\ IsLog(g) /\ n \in Nat /\ Len(g) = n + 1 /\ g[n + 1] = x
      /\ \A k \in 1 .. n : g[k] = l[k]
  BY <1>2, LogAppend
<1>4. s.d = Before(d0, g, n + 1)
  <2>1. CASE n = 0
    BY <2>1 DEF Before, Proper
  <2>2. CASE n # 0
    <3>1. g[n] = l[n] /\ n + 1 # 1 /\ (n + 1) - 1 = n
      BY <1>3, <2>2
    <3>2. s.d = l[n].disk
      BY <2>2 DEF Proper
    <3> QED
      BY <3>1, <3>2 DEF Before
  <2> QED
    BY <2>1, <2>2
<1>5. x.disk = e /\ x.journal = journal
  OBVIOUS
<1> HIDE DEF x, g, t
<1>6. ASSUME NEW j \in 1 .. n PROVE g[j] = l[j] /\ Before(d0, g, j) = Before(d0, l, j)
  <2>1. CASE j = 1
    BY <1>3, <2>1 DEF Before
  <2>2. CASE j # 1
    <3>1. j - 1 \in 1 .. n
      BY <1>3, <2>2
    <3> QED
      BY <1>3, <2>2, <3>1 DEF Before
  <2> QED
    BY <2>1, <2>2
<1>7. ASSUME NEW k \in 1 .. n PROVE CleanTo(d0, g, k) <=> CleanTo(d0, l, k)
  <2>1. \A j \in 1 .. k : g[j] = l[j] /\ Before(d0, g, j) = Before(d0, l, j)
    <3>1. 1 .. k \subseteq 1 .. n
      BY <1>3
    <3> QED
      BY <1>6, <3>1
  <2> QED
    BY <2>1 DEF CleanTo
<1>8. CleanTo(d0, g, n + 1) <=> (CleanTo(d0, l, n) /\ (journal => ~Overwrites(s.d, e)))
  <2>1. \A j \in 1 .. n : g[j] = l[j] /\ Before(d0, g, j) = Before(d0, l, j)
    BY <1>6
  <2>2. 1 .. (n + 1) = (1 .. n) \cup {n + 1}
    BY <1>3
  <2>3. CleanTo(d0, g, n + 1) <=>
            /\ \A j \in 1 .. n : g[j].journal => ~Overwrites(Before(d0, g, j), g[j].disk)
            /\ g[n + 1].journal => ~Overwrites(Before(d0, g, n + 1), g[n + 1].disk)
    BY <2>2 DEF CleanTo
  <2> QED
    BY <1>3, <1>4, <1>5, <2>1, <2>3 DEF CleanTo
<1>9. SafeLog(d0, g)
  <2>1. ASSUME NEW k \in 1 .. (n + 1), CleanTo(d0, g, k)
        PROVE  Sound(g[k].disk) /\ Step(Before(d0, g, k), g[k].disk)
    <3>1. CASE k = n + 1
      BY <1>3, <1>4, <1>5, <1>8, <2>1, <3>1 DEF Clean
    <3>2. CASE k # n + 1
      <4>1. k \in 1 .. n
        BY <1>3, <3>2
      <4>2. g[k] = l[k] /\ Before(d0, g, k) = Before(d0, l, k)
        BY <1>6, <4>1
      <4>3. SafeLog(d0, l) /\ n = Len(l)
        BY DEF Proper
      <4> HIDE DEF n, l
      <4> QED
        BY <1>7, <2>1, <4>1, <4>2, <4>3 DEF SafeLog
    <3> QED
      BY <3>1, <3>2
  <2> QED
    BY <1>3, <2>1 DEF SafeLog
<1>10. Proper(d0, t)
  <2>1. Len(g) # 0 /\ g[Len(g)].disk = e
    BY <1>3, <1>5
  <2> QED
    BY <1>1, <1>9, <2>1 DEF Proper
<1>11. Clean(d0, t) <=> (Clean(d0, s) /\ (journal => ~Overwrites(s.d, e)))
  BY <1>1, <1>3, <1>8 DEF Clean
<1> QED
  BY <1>1, <1>10, <1>11 DEF t

LEMMA OkWrite ==
    ASSUME NEW d0, NEW s, NEW C, Ok(d0, s, C), NEW e, NEW G, SoundFor(e, G),
           Step(s.d, e)
    PROVE  Ok(d0, Logged(s, e, FALSE), G) /\ Logged(s, e, FALSE).d = e
<1>1. Sound(e)
  BY SoundShrinks
<1>2. Proper(d0, s) /\ Clean(d0, s)
  BY DEF Ok
<1>3. \A journal \in BOOLEAN :
          /\ Proper(d0, Logged(s, e, journal)) /\ Logged(s, e, journal).d = e
          /\ Clean(d0, Logged(s, e, journal)) <=>
                (Clean(d0, s) /\ (journal => ~Overwrites(s.d, e)))
  BY <1>1, <1>2, LogOne
<1>4. Proper(d0, Logged(s, e, FALSE)) /\ Logged(s, e, FALSE).d = e
      /\ Clean(d0, Logged(s, e, FALSE))
  BY <1>2, <1>3
<1> QED
  BY <1>4 DEF Ok

LEMMA LostWrite ==
    ASSUME NEW d0, NEW s, Lost(d0, s), NEW journal \in BOOLEAN, NEW e
    PROVE  Lost(d0, Logged(s, e, journal))
  BY LogOne DEF Lost

\* What happens in memory only.
SameDisk(s, t) == DOMAIN t = DOMAIN s /\ t.d = s.d /\ t.log = s.log

LEMMA MemoryOnly ==
    ASSUME NEW d0, NEW s, NEW t, SameDisk(s, t)
    PROVE  /\ Proper(d0, s) => Proper(d0, t)
           /\ Clean(d0, s) <=> Clean(d0, t)
           /\ \A C : Ok(d0, s, C) => Ok(d0, t, C)
           /\ Lost(d0, s) => Lost(d0, t)
  BY DEF SameDisk, Proper, Clean, Ok, Lost

\* A write of the journal that overwrites nothing.
LEMMA NotOverwritten ==
    ASSUME NEW d, NEW C, SoundFor(d, C), NEW e, DOMAIN e = DOMAIN d, ~Overwrites(d, e)
    PROVE  /\ Sound(e) /\ Step(d, e) /\ SameNames(d, e)
           /\ e.imap = d.imap => SoundFor(e, C) /\ Kept(d, e, C)
           /\ e.inode = d.inode /\ e.bmap = d.bmap /\ e.content = d.content
<1>1. /\ e.inode = d.inode /\ e.bmap = d.bmap /\ e.content = d.content
      /\ Named(d) \subseteq e.imap
  BY DEF Overwrites
<1>2. Sound(d) /\ Reached(d, Directories(d)) = Named(d)
  BY SoundShrinks
<1>3. \A D : SoundFor(d, D) => \A i \in Reached(d, D) : BlocksOf(d, i) \subseteq e.bmap
  BY <1>1 DEF SoundFor, Backed
<1>4. SoundFor(e, Directories(d)) /\ Kept(d, e, Directories(d))
  BY <1>1, <1>2, <1>3, FrameMaps DEF Sound
<1>5. Sound(e) /\ Step(d, e)
  BY <1>4, SoundShrinks DEF Kept, Step
<1>6. ASSUME e.imap = d.imap PROVE SoundFor(e, C) /\ Kept(d, e, C)
  <2>1. Reached(d, C) \subseteq e.imap
    BY <1>6 DEF SoundFor, Backed
  <2> QED
    BY <1>1, <1>3, <2>1, FrameMaps
<1> QED
  BY <1>1, <1>4, <1>5, <1>6 DEF Kept

Recorded(s, e) == Logged(s, e, TRUE)

LEMMA JournalWrite ==
    ASSUME NEW d0, NEW s, Proper(d0, s), Clean(d0, s) => Sound(s.d),
           NEW e, DOMAIN e = DOMAIN s.d
    PROVE  /\ Proper(d0, Recorded(s, e))
           /\ Recorded(s, e).d = e /\ Recorded(s, e).m = s.m
           /\ Clean(d0, Recorded(s, e)) =>
                 Clean(d0, s) /\ ~Overwrites(s.d, e) /\ Sound(e)
<1>1. (Clean(d0, s) /\ ~Overwrites(s.d, e)) => Sound(e) /\ Step(s.d, e)
  BY NotOverwritten DEF Sound
<1>2. ASSUME NEW journal \in BOOLEAN, journal
      PROVE  /\ Proper(d0, Logged(s, e, journal)) /\ Logged(s, e, journal).d = e
             /\ Logged(s, e, journal).m = s.m
             /\ Clean(d0, Logged(s, e, journal)) =>
                   (Clean(d0, s) /\ ~Overwrites(s.d, e))
  <2>1. (Clean(d0, s) /\ (journal => ~Overwrites(s.d, e))) => Sound(e) /\ Step(s.d, e)
    BY <1>1, <1>2
  <2>2. /\ Proper(d0, Logged(s, e, journal)) /\ Logged(s, e, journal).d = e
        /\ Logged(s, e, journal).m = s.m
        /\ Clean(d0, Logged(s, e, journal)) <=>
              (Clean(d0, s) /\ (journal => ~Overwrites(s.d, e)))
    BY <2>1, LogOne
  <2> QED
    BY <1>2, <2>2
<1>3. TRUE \in BOOLEAN
  OBVIOUS
<1>4. /\ Proper(d0, Logged(s, e, TRUE)) /\ Logged(s, e, TRUE).d = e
      /\ Logged(s, e, TRUE).m = s.m
      /\ Clean(d0, Logged(s, e, TRUE)) => (Clean(d0, s) /\ ~Overwrites(s.d, e))
  BY <1>2, <1>3
<1> QED
  BY <1>1, <1>4 DEF Recorded

-----------------------------------------------------------------------------
(* The writes of a call that goes well.                                     *)

\* What stays after a write of a bitmap.
SameButImap(d, e) ==
    e.bmap = d.bmap /\ e.inode = d.inode /\ e.content = d.content
SameButBmap(d, e) ==
    e.imap = d.imap /\ e.inode = d.inode /\ e.content = d.content

\* The bitmaps of e mark what can be reached in d.
MarksUsed(d, C, e) ==
    \A j \in Reached(d, C) : j \in e.imap /\ BlocksOf(d, j) \subseteq e.bmap

Written(s, e) == Logged(s, e, FALSE)

LEMMA OkMaps ==
    ASSUME NEW d0, NEW s, NEW C, Ok(d0, s, C), NEW e,
           DOMAIN e = DOMAIN s.d, e.inode = s.d.inode, e.content = s.d.content,
           MarksUsed(s.d, C, e)
    PROVE  /\ Ok(d0, Written(s, e), C)
           /\ Written(s, e).d = e
           /\ Kept(s.d, e, C)
<1> DEFINE t == Logged(s, e, FALSE)
<1>1. SoundFor(s.d, C)
  BY DEF Ok
<1>2. SoundFor(e, C) /\ Kept(s.d, e, C)
  BY <1>1, FrameMaps DEF MarksUsed
<1>3. Ok(d0, t, C) /\ t.d = e
  BY <1>2, OkWrite DEF Kept, Step
<1>4. t = Written(s, e)
  BY DEF Written
<1> HIDE DEF t
<1> QED
  BY <1>2, <1>3, <1>4

LEMMA Counting ==
    ASSUME NEW d0, NEW t, NEW C, Ok(d0, t, C), NEW n
    PROVE  /\ Ok(d0, CountInodes(t, n), C) /\ CountInodes(t, n).d = t.d
           /\ Ok(d0, CountBlocks(t, n), C) /\ CountBlocks(t, n).d = t.d
<1>1. DOMAIN t = {"d", "m", "log"}
  BY DEF Ok, Proper
<1>2. SameDisk(t, CountInodes(t, n)) /\ SameDisk(t, CountBlocks(t, n))
  BY <1>1 DEF SameDisk, CountInodes, CountBlocks
<1>3. Ok(d0, CountInodes(t, n), C) /\ Ok(d0, CountBlocks(t, n), C)
  BY <1>2, MemoryOnly
<1> QED
  BY <1>2, <1>3 DEF SameDisk

LEMMA InUse ==
    ASSUME NEW d0, NEW s, NEW C, Ok(d0, s, C)
    PROVE  /\ DOMAIN s.d = {"imap", "bmap", "inode", "content", "freeB", "freeI"}
           /\ \A j \in Reached(s.d, C) : j \in s.d.imap /\ BlocksOf(s.d, j) \subseteq s.d.bmap
  BY DEF Ok, SoundFor, IsDisk, Backed

LEMMA OkTakeInode ==
    ASSUME NEW d0, NEW s, NEW C, Ok(d0, s, C), NEW i
    PROVE  /\ Ok(d0, TakeInode(s, i), C)
           /\ SameButImap(s.d, TakeInode(s, i).d)
           /\ TakeInode(s, i).d.imap = s.d.imap \cup {i}
           /\ Kept(s.d, TakeInode(s, i).d, C)
<1> DEFINE e == [s.d EXCEPT !.imap = @ \cup {i}]
<1>1. DOMAIN e = DOMAIN s.d /\ SameButImap(s.d, e) /\ e.imap = s.d.imap \cup {i}
  BY InUse DEF SameButImap
<1> DEFINE t == Written(s, e)
<1>2. TakeInode(s, i) = CountInodes(t, -1)
  BY DEF TakeInode, Written
<1> HIDE DEF e
<1>3. MarksUsed(s.d, C, e)
  BY <1>1, InUse DEF MarksUsed, SameButImap
<1>4. Ok(d0, t, C) /\ t.d = e /\ Kept(s.d, e, C)
  BY <1>1, <1>3, OkMaps DEF SameButImap
<1> HIDE DEF t
<1>5. Ok(d0, CountInodes(t, -1), C) /\ CountInodes(t, -1).d = t.d
  BY <1>4, Counting
<1> QED
  BY <1>1, <1>2, <1>4, <1>5

LEMMA OkTakeBlock ==
    ASSUME NEW d0, NEW s, NEW C, Ok(d0, s, C), NEW b
    PROVE  /\ Ok(d0, TakeBlock(s, b), C)
           /\ SameButBmap(s.d, TakeBlock(s, b).d)
           /\ TakeBlock(s, b).d.bmap = s.d.bmap \cup {b}
           /\ Kept(s.d, TakeBlock(s, b).d, C)
<1> DEFINE e == [s.d EXCEPT !.bmap = @ \cup {b}]
<1>1. DOMAIN e = DOMAIN s.d /\ SameButBmap(s.d, e) /\ e.bmap = s.d.bmap \cup {b}
  BY InUse DEF SameButBmap
<1> DEFINE t == Written(s, e)
<1>2. TakeBlock(s, b) = CountBlocks(t, -1)
  BY DEF TakeBlock, Written
<1> HIDE DEF e
<1>3. MarksUsed(s.d, C, e)
  BY <1>1, InUse DEF MarksUsed, SameButBmap
<1>4. Ok(d0, t, C) /\ t.d = e /\ Kept(s.d, e, C)
  BY <1>1, <1>3, OkMaps DEF SameButBmap
<1> HIDE DEF t
<1>5. Ok(d0, CountBlocks(t, -1), C) /\ CountBlocks(t, -1).d = t.d
  BY <1>4, Counting
<1> QED
  BY <1>1, <1>2, <1>4, <1>5

LEMMA OkDropInode ==
    ASSUME NEW d0, NEW s, NEW C, Ok(d0, s, C), NEW i,
           i \notin Reached(s.d, C)
    PROVE  /\ Ok(d0, DropInode(s, i), C)
           /\ SameButImap(s.d, DropInode(s, i).d)
           /\ DropInode(s, i).d.imap = s.d.imap \ {i}
           /\ Kept(s.d, DropInode(s, i).d, C)
<1> DEFINE e == [s.d EXCEPT !.imap = @ \ {i}]
<1>1. DOMAIN e = DOMAIN s.d /\ SameButImap(s.d, e) /\ e.imap = s.d.imap \ {i}
  BY InUse DEF SameButImap
<1> DEFINE t == Written(s, e)
<1>2. DropInode(s, i) = CountInodes(t, 1)
  BY DEF DropInode, Written
<1> HIDE DEF e
<1>3. MarksUsed(s.d, C, e)
  BY <1>1, InUse DEF MarksUsed, SameButImap
<1>4. Ok(d0, t, C) /\ t.d = e /\ Kept(s.d, e, C)
  BY <1>1, <1>3, OkMaps DEF SameButImap
<1> HIDE DEF t
<1>5. Ok(d0, CountInodes(t, 1), C) /\ CountInodes(t, 1).d = t.d
  BY <1>4, Counting
<1> QED
  BY <1>1, <1>2, <1>4, <1>5

LEMMA OkDropBlock ==
    ASSUME NEW d0, NEW s, NEW C, Ok(d0, s, C), NEW b,
           \A j \in Reached(s.d, C) : b \notin BlocksOf(s.d, j)
    PROVE  /\ Ok(d0, DropBlock(s, b), C)
           /\ SameButBmap(s.d, DropBlock(s, b).d)
           /\ DropBlock(s, b).d.bmap = s.d.bmap \ {b}
           /\ Kept(s.d, DropBlock(s, b).d, C)
<1> DEFINE e == [s.d EXCEPT !.bmap = @ \ {b}]
<1>1. DOMAIN e = DOMAIN s.d /\ SameButBmap(s.d, e) /\ e.bmap = s.d.bmap \ {b}
  BY InUse DEF SameButBmap
<1> DEFINE t == Written(s, e)
<1>2. DropBlock(s, b) = CountBlocks(t, 1)
  BY DEF DropBlock, Written
<1> HIDE DEF e
<1>3. MarksUsed(s.d, C, e)
  BY <1>1, InUse DEF MarksUsed, SameButBmap
<1>4. Ok(d0, t, C) /\ t.d = e /\ Kept(s.d, e, C)
  BY <1>1, <1>3, OkMaps DEF SameButBmap
<1> HIDE DEF t
<1>5. Ok(d0, CountBlocks(t, 1), C) /\ CountBlocks(t, 1).d = t.d
  BY <1>4, Counting
<1> QED
  BY <1>1, <1>2, <1>4, <1>5

LEMMA OkPutInode ==
    ASSUME NEW d0, NEW s, NEW C, Ok(d0, s, C), NEW i \in Inodes, NEW node, IsNode(node),
           CanPut(s.d, C, i, node)
    PROVE  /\ Ok(d0, PutInode(s, i, node), C)
           /\ Kept(s.d, PutInode(s, i, node).d, C)
           /\ PutInode(s, i, node).d = [s.d EXCEPT !.inode = Put(@, i, node)]
<1> DEFINE e == [s.d EXCEPT !.inode = Put(@, i, node)]
<1>1. SoundFor(s.d, C)
  BY DEF Ok
<1>2. SoundFor(e, C) /\ Kept(s.d, e, C)
  BY <1>1, FrameInode
<1>3. PutInode(s, i, node) = Logged(s, e, FALSE)
  BY DEF PutInode
<1> HIDE DEF e
<1>4. Ok(d0, Logged(s, e, FALSE), C) /\ Logged(s, e, FALSE).d = e
  BY <1>2, OkWrite DEF Kept, Step
<1> QED
  BY <1>2, <1>3, <1>4 DEF e

LEMMA OkPutBlock ==
    ASSUME NEW d0, NEW s, NEW C, Ok(d0, s, C), NEW b \in DataBlocks, NEW data, IsData(data),
           \A i \in Reached(s.d, C) : b \in BlocksOf(s.d, i) => i \notin C /\ data.of = i
    PROVE  /\ Ok(d0, PutBlock(s, b, data), C)
           /\ Kept(s.d, PutBlock(s, b, data).d, C)
           /\ Wrote(s.d, PutBlock(s, b, data).d, b, data)
<1> DEFINE e == [s.d EXCEPT !.content[b] = data]
<1>1. SoundFor(s.d, C)
  BY DEF Ok
<1>2. Wrote(s.d, e, b, data)
  BY DEF Wrote
<1>3. PutBlock(s, b, data) = Logged(s, e, FALSE)
  BY DEF PutBlock
<1> HIDE DEF e
<1>4. SoundFor(e, C) /\ Kept(s.d, e, C)
  BY <1>1, <1>2, FrameBlock
<1>5. Ok(d0, Logged(s, e, FALSE), C) /\ Logged(s, e, FALSE).d = e
  BY <1>4, OkWrite DEF Kept, Step
<1> QED
  BY <1>2, <1>3, <1>4, <1>5

\* Equal parts give equal inodes and blocks.
LEMMA SameParts ==
    ASSUME NEW d, NEW e
    PROVE  /\ e.inode = d.inode => \A i : Inode(e, i) = Inode(d, i) /\ BlocksOf(e, i) = BlocksOf(d, i)
           /\ e.content = d.content => \A b : EntriesOf(e, b) = EntriesOf(d, b)
  BY DEF Inode, BlocksOf, EntriesOf

LEMMA FreshBlock ==
    ASSUME NEW s, NEW C, SoundFor(s.d, C), FreeBlock(s) # 0
    PROVE  /\ FreeBlock(s) \in DataBlocks /\ FreeBlock(s) \notin s.d.bmap
           /\ \A i : (i \in Reached(s.d, C) \/ Backed(s.d, i)) => FreeBlock(s) \notin BlocksOf(s.d, i)
<1>1. FreeBlock(s) = Lowest((DataBlocks \cap BitNumbers) \ s.d.bmap)
  BY DEF FreeBlock
<1>2. FreeBlock(s) \in (DataBlocks \cap BitNumbers) \ s.d.bmap
  BY <1>1, Layout, LowestBelongs
<1> QED
  BY <1>2 DEF SoundFor, Backed

LEMMA FreshInode ==
    ASSUME NEW s, NEW C, SoundFor(s.d, C), FreeInode(s) # 0
    PROVE  FreeInode(s) \in Inodes /\ FreeInode(s) \notin Reached(s.d, C)
<1>1. FreeInode(s) = Lowest((Inodes \cap BitNumbers) \ s.d.imap)
  BY DEF FreeInode
<1>2. FreeInode(s) \in (Inodes \cap BitNumbers) \ s.d.imap
  BY <1>1, Layout, LowestBelongs
<1> QED
  BY <1>2 DEF SoundFor, Backed

-----------------------------------------------------------------------------
(* brfs_add_direntry and brfs_lookup.                                       *)

\* What AddEntry writes into block b.
Filled(t, b, n, i) ==
    PutBlock(t, b, [t.d.content[b] EXCEPT !.entries =
        Put(@, Min(FreeSlots(t.d, b)), [name |-> n, ino |-> i])])

LEMMA FilledOk ==
    ASSUME NEW d0, NEW t, NEW C, Ok(d0, t, C), NEW p \in C, NEW b \in BlocksOf(t.d, p),
           FreeSlots(t.d, b) # {}, NEW n \in Names, Vacant(t.d, p, n),
           NEW i, Ready(t.d, C, i)
    PROVE  LET u == Filled(t, b, n, i)
           IN  /\ Ok(d0, u, Grown(t.d, C, i))
               /\ u.d.inode = t.d.inode /\ u.d.bmap = t.d.bmap
               /\ p \in Directories(t.d) =>
                     /\ NameAdded(t.d, u.d, p, n, i)
                     /\ Directories(u.d) = Grown(t.d, Directories(t.d), i)
<1> DEFINE k == Min(FreeSlots(t.d, b))
           old == t.d.content[b]
           data == [old EXCEPT !.entries = Put(@, k, [name |-> n, ino |-> i])]
           e == [t.d EXCEPT !.content[b] = data]
<1>1. SoundFor(t.d, C) /\ IsDisk(t.d) /\ b \in DataBlocks
  BY BlocksAreData DEF Ok, SoundFor
<1>2. k \in DirSlots /\ k \notin DOMAIN EntriesOf(t.d, b)
  <2>1. FreeSlots(t.d, b) \in SUBSET Nat
    BY Layout DEF FreeSlots
  <2>2. k \in FreeSlots(t.d, b)
    BY <2>1, MinBelongs
  <2> QED
    BY <2>2 DEF FreeSlots
<1>3. IsData(old)
  BY <1>1 DEF IsDisk
<1> HIDE DEF k
<1>4. /\ IsData(data) /\ data.of = old.of
      /\ data.entries = Put(EntriesOf(t.d, b), k, [name |-> n, ino |-> i])
  BY <1>2, <1>3 DEF IsData, EntriesOf, Put
<1>5. Filled(t, b, n, i) = Logged(t, e, FALSE)
  BY DEF Filled, PutBlock, k
<1>6. Wrote(t.d, e, b, data)
  BY DEF Wrote
<1>7. e.inode = t.d.inode /\ e.bmap = t.d.bmap
  OBVIOUS
<1> HIDE DEF e, data
<1> DEFINE G == Grown(t.d, C, i)
<1>8. SoundFor(e, G)
  BY <1>1, <1>2, <1>4, <1>6, AddName
<1>9. /\ Step(t.d, e)
      /\ p \in Directories(t.d) => /\ NameAdded(t.d, e, p, n, i)
                                  /\ Directories(e) = Grown(t.d, Directories(t.d), i)
  BY <1>1, <1>2, <1>4, <1>6, AddNameStep
<1> HIDE DEF G, old
<1>10. Ok(d0, Logged(t, e, FALSE), G) /\ Logged(t, e, FALSE).d = e
  BY <1>8, <1>9, OkWrite
<1> QED
  BY <1>5, <1>7, <1>9, <1>10 DEF G

\* A block more for a directory: the fresh block, then the inode.
Wider(node, k, b) == [node EXCEPT !.blk[k] = b]
RoomData(s, p) == PutBlock(TakeBlock(s, FreeBlock(s)), FreeBlock(s), [of |-> p, entries |-> <<>>])
Room(s, p, k) == PutInode(RoomData(s, p), p, Wider(Inode(s.d, p), k, FreeBlock(s)))

LEMMA RoomOk ==
    ASSUME NEW d0, NEW s, NEW C, Ok(d0, s, C), NEW p \in C, NEW i, Ready(s.d, C, i),
           NEW k \in 1 .. 3, Inode(s.d, p).blk[k] = 0, FreeBlock(s) # 0
    PROVE  /\ FreeBlock(s) \in DataBlocks /\ FreeBlock(s) \notin s.d.bmap /\ p \in Inodes
           /\ \A h \in 1 .. 3 : Wider(Inode(s.d, p), k, FreeBlock(s)).blk[h] =
                                IF h = k THEN FreeBlock(s) ELSE Inode(s.d, p).blk[h]
           /\ Wider(Inode(s.d, p), k, FreeBlock(s)).links = Inode(s.d, p).links
           /\ IsNode(Wider(Inode(s.d, p), k, FreeBlock(s)))
           /\ Ok(d0, RoomData(s, p), C) /\ Kept(s.d, RoomData(s, p).d, C)
           /\ CanPut(RoomData(s, p).d, C, p, Wider(Inode(s.d, p), k, FreeBlock(s)))
           /\ \A j : Inode(RoomData(s, p).d, j) = Inode(s.d, j)
           /\ Ok(d0, Room(s, p, k), C) /\ Kept(s.d, Room(s, p, k).d, C)
           /\ FreeBlock(s) \in BlocksOf(Room(s, p, k).d, p)
           /\ FreeSlots(Room(s, p, k).d, FreeBlock(s)) # {}
           /\ Ready(Room(s, p, k).d, C, i) /\ Inode(Room(s, p, k).d, i) = Inode(s.d, i)
<1> DEFINE d == s.d
           node == Inode(d, p)
           fresh == FreeBlock(s)
           s1 == TakeBlock(s, fresh)
           s2 == PutBlock(s1, fresh, [of |-> p, entries |-> <<>>])
           node3 == [node EXCEPT !.blk[k] = fresh]
           s3 == PutInode(s2, p, node3)
<1>0. /\ SoundFor(d, C) /\ IsDisk(d) /\ IsNode(node) /\ node.kind = "dir"
      /\ p \in Reached(d, C) /\ p \in Inodes /\ Backed(d, p)
      /\ node.blk[k] = 0 /\ fresh # 0
  BY BlocksAreData DEF Ok, SoundFor, Reached
<1> HIDE DEF d, node, fresh
<1>1. /\ fresh \in DataBlocks /\ fresh \notin d.bmap /\ fresh # 0
      /\ \A j : (j \in Reached(d, C) \/ Backed(d, j)) => fresh \notin BlocksOf(d, j)
  BY <1>0, FreshBlock DEF d, fresh
<1>2. /\ Ok(d0, s1, C) /\ SameButBmap(d, s1.d) /\ Kept(d, s1.d, C)
      /\ s1.d.bmap = d.bmap \cup {fresh}
  BY OkTakeBlock DEF d
<1> HIDE DEF s1
<1> DEFINE data == [of |-> p, entries |-> <<>>]
<1>3. IsData(data)
  BY DEF IsData
<1>4. \A j : Inode(s1.d, j) = Inode(d, j) /\ BlocksOf(s1.d, j) = BlocksOf(d, j)
  BY <1>2, SameParts DEF SameButBmap
<1>5. /\ Ok(d0, s2, C) /\ Kept(s1.d, s2.d, C) /\ Wrote(s1.d, s2.d, fresh, data)
  <2>1. \A j \in Reached(s1.d, C) : fresh \notin BlocksOf(s1.d, j)
    BY <1>1, <1>2, <1>4 DEF Kept
  <2> QED
    BY <1>1, <1>2, <1>3, <2>1, OkPutBlock
<1> HIDE DEF s2
<1>6. /\ IsDisk(s2.d) /\ s2.d.imap = d.imap /\ s2.d.bmap = s1.d.bmap
      /\ \A c \in DataBlocks : s2.d.content[c] = IF c = fresh THEN data ELSE d.content[c]
      /\ \A j : Inode(s2.d, j) = Inode(d, j) /\ BlocksOf(s2.d, j) = BlocksOf(d, j)
  <2>1. IsDisk(s1.d)
    BY <1>2 DEF Ok, SoundFor
  <2>2. /\ IsDisk(s2.d) /\ s2.d.imap = s1.d.imap /\ s2.d.bmap = s1.d.bmap
        /\ \A c \in DataBlocks : s2.d.content[c] = IF c = fresh THEN data ELSE s1.d.content[c]
        /\ \A j : Inode(s2.d, j) = Inode(s1.d, j) /\ BlocksOf(s2.d, j) = BlocksOf(s1.d, j)
    BY <1>1, <1>3, <1>5, <2>1, PutData
  <2> QED
    BY <1>2, <1>4, <2>2 DEF SameButBmap
<1>7. IsNode(node3)
  BY <1>0, <1>1 DEF IsNode
<1>8. /\ node3.kind = node.kind
      /\ \A h \in 1 .. 3 : node3.blk[h] = IF h = k THEN fresh ELSE node.blk[h]
  BY <1>0 DEF IsNode
<1> HIDE DEF node3
<1>9. CanPut(s2.d, C, p, node3)
  <2>1. \A b \in BlocksOf(d, p) : \E h \in 1 .. 3 : node.blk[h] = b /\ h # k
    BY <1>0, BlocksAreData, Layout DEF node
  <2>2. \A h \in 1 .. 3 : h # k /\ node.blk[h] # 0 => node.blk[h] \in BlocksOf(d, p)
    BY <1>0, BlocksAreData DEF node
  <2>3. \A h \in 1 .. 3 : node3.blk[h] # 0 =>
          /\ node3.blk[h] \in s2.d.bmap
          /\ s2.d.content[node3.blk[h]].of = p
          /\ node3.blk[h] \in BlocksOf(s2.d, p) \/ EntriesOf(s2.d, node3.blk[h]) = <<>>
    <3> SUFFICES ASSUME NEW h \in 1 .. 3, node3.blk[h] # 0
                 PROVE  /\ node3.blk[h] \in s2.d.bmap
                        /\ s2.d.content[node3.blk[h]].of = p
                        /\ \/ node3.blk[h] \in BlocksOf(s2.d, p)
                           \/ EntriesOf(s2.d, node3.blk[h]) = <<>>
      OBVIOUS
    <3>1. CASE h = k
      BY <1>1, <1>2, <1>6, <1>8, <3>1 DEF EntriesOf
    <3>2. CASE h # k
      <4>1. node3.blk[h] \in BlocksOf(d, p) /\ node3.blk[h] # fresh
        BY <1>0, <1>1, <1>8, <2>2, <3>2
      <4>2. node3.blk[h] \in DataBlocks
        BY <1>0, <4>1, BlocksAreData
      <4> QED
        BY <1>0, <1>2, <1>6, <4>1, <4>2 DEF Backed
    <3> QED
      BY <3>1, <3>2
  <2> QED
    BY <1>6, <1>8, <2>1, <2>3 DEF CanPut, node
<1>10. /\ Ok(d0, s3, C) /\ Kept(s2.d, s3.d, C)
       /\ s3.d = [s2.d EXCEPT !.inode = Put(@, p, node3)]
  BY <1>0, <1>5, <1>7, <1>9, OkPutInode
<1> HIDE DEF s3
<1>11. /\ s3.d.imap = s2.d.imap /\ s3.d.bmap = s2.d.bmap /\ s3.d.content = s2.d.content
       /\ Inode(s3.d, p) = node3
       /\ \A j : j # p => Inode(s3.d, j) = Inode(s2.d, j) /\ BlocksOf(s3.d, j) = BlocksOf(s2.d, j)
       /\ \A b : EntriesOf(s3.d, b) = EntriesOf(s2.d, b)
       /\ BlocksOf(s3.d, p) = {node3.blk[h] : h \in 1 .. 3} \ {0}
  BY <1>0, <1>6, <1>7, <1>10, PutNode
<1>12. fresh \in BlocksOf(s3.d, p)
  BY <1>0, <1>1, <1>8, <1>11
<1>13. FreeSlots(s3.d, fresh) # {}
  <2>1. EntriesOf(s3.d, fresh) = <<>>
    BY <1>1, <1>6, <1>11 DEF EntriesOf
  <2>2. DOMAIN <<>> = {}
    OBVIOUS
  <2> QED
    BY <2>1, <2>2, Layout DEF FreeSlots
<1>14. /\ Reached(s3.d, C) = Reached(d, C)
       /\ \A j : Refs(s3.d, C, j) = Refs(d, C, j)
  BY <1>2, <1>5, <1>10 DEF Kept
<1>15. i # p
  BY <1>0 DEF Ready, node, d
<1>16. Inode(s3.d, i) = Inode(d, i) /\ BlocksOf(s3.d, i) = BlocksOf(d, i)
  BY <1>6, <1>11, <1>15
<1>17. Ready(d, C, i)
  BY DEF d
<1>18. fresh \notin BlocksOf(d, i) /\ BlocksOf(d, i) \subseteq DataBlocks
  BY <1>0, <1>1, <1>17, BlocksAreData DEF Ready
<1>19. \A b \in BlocksOf(d, i) : s3.d.content[b] = d.content[b] /\ EntriesOf(s3.d, b) = EntriesOf(d, b)
  BY <1>6, <1>11, <1>18 DEF EntriesOf
<1>20. Ready(s3.d, C, i)
  <2>1. Backed(s3.d, i)
    BY <1>2, <1>6, <1>11, <1>16, <1>17, <1>19 DEF Ready, Backed
  <2>2. \A b, h, j : Entry(s3.d, i, b, h, j) <=> Entry(d, i, b, h, j)
    BY <1>16, <1>19 DEF Entry, NamesAt
  <2> QED
    BY <1>14, <1>16, <1>17, <2>1, <2>2 DEF Ready
<1>21. Grown(s3.d, C, i) = Grown(d, C, i)
  BY <1>16 DEF Grown
<1>22. Kept(d, s3.d, C) /\ Kept(d, s2.d, C)
  BY <1>2, <1>5, <1>10 DEF Kept, SameNames
<1>23. node3.links = node.links
  BY <1>0 DEF IsNode, node3
<1>24. node3 = Wider(Inode(s.d, p), k, FreeBlock(s)) /\ s2 = RoomData(s, p) /\ s3 = Room(s, p, k)
  BY DEF s3, node3, s2, s1, fresh, node, d, Wider, RoomData, Room
<1>25. fresh = FreeBlock(s) /\ d = s.d /\ node = Inode(s.d, p)
  BY DEF fresh, d, node
<1> QED
  BY <1>0, <1>1, <1>5, <1>6, <1>7, <1>8, <1>9, <1>10, <1>12, <1>13, <1>16, <1>20, <1>22,
     <1>23, <1>24, <1>25

\* Whether the name is added or not, the session is sound; it is untouched if
\* the name is not added.
Added(d0, a, s, G) ==
    \/ a.ok = TRUE /\ Ok(d0, a.s, G)
    \/ a.ok = FALSE /\ a.s = s

LEMMA CutNames == \A n \in Names : Cut[n] \in Names /\ (Cut[n] = n \/ Cut[n] \in Shortened)
  BY NamesAssumption DEF Shortened

LEMMA AddEntryOk ==
    ASSUME NEW d0, NEW s, NEW C, Ok(d0, s, C), NEW p \in C, NEW n \in Names,
           Vacant(s.d, p, Cut[n]), NEW i, Ready(s.d, C, i)
    PROVE  Added(d0, AddEntry(s, p, n, i), s, Grown(s.d, C, i))
<1> DEFINE d == s.d
           node == Inode(d, p)
           usable == {h \in 1 .. 3 : node.blk[h] = 0 \/ FreeSlots(d, node.blk[h]) # {}}
           k == Lowest(usable)
           fresh == FreeBlock(s)
           s3 == Room(s, p, k)
           added == AddEntry(s, p, n, i)
           m == Cut[n]
<1>0. m \in Names
  BY CutNames
<1>1. added =
        CASE k = 0                    -> [ok |-> FALSE, s |-> s]
          [] k # 0 /\ node.blk[k] # 0 -> [ok |-> TRUE, s |-> Filled(s, node.blk[k], m, i)]
          [] k # 0 /\ node.blk[k] = 0 /\ fresh = 0 -> [ok |-> FALSE, s |-> s]
          [] OTHER                    -> [ok |-> TRUE, s |-> Filled(s3, fresh, m, i)]
  BY DEF AddEntry, Filled, Room, RoomData, Wider
<1>2. /\ SoundFor(d, C) /\ IsDisk(d) /\ IsNode(node) /\ node.kind = "dir"
      /\ p \in Reached(d, C) /\ p \in Inodes /\ Backed(d, p)
  BY BlocksAreData DEF Ok, SoundFor, Reached
<1>3. k \in usable \cup {0}
  <2>1. usable \in SUBSET Nat
    OBVIOUS
  <2> QED
    BY <2>1, LowestBelongs
<1> HIDE DEF k, d, added, m
<1>4. k # 0 => /\ k \in 1 .. 3
               /\ node.blk[k] # 0 => FreeSlots(d, node.blk[k]) # {}
  BY <1>3
<1> HIDE DEF node
<1>5. CASE k = 0
  <2>1. added.ok = FALSE /\ added.s = s
    BY <1>1, <1>5
  <2> QED
    BY <2>1 DEF Added, added
<1>6. CASE k # 0 /\ node.blk[k] # 0
  <2>1. node.blk[k] \in BlocksOf(d, p)
    BY <1>2, <1>4, <1>6, BlocksAreData DEF node
  <2>2. Ok(d0, Filled(s, node.blk[k], m, i), Grown(d, C, i))
    BY <1>0, <1>4, <1>6, <2>1, FilledOk DEF d, m
  <2>3. added.ok = TRUE /\ added.s = Filled(s, node.blk[k], m, i)
    BY <1>1, <1>6
  <2> QED
    BY <2>2, <2>3 DEF Added, added, d
<1>7. CASE k # 0 /\ node.blk[k] = 0 /\ fresh = 0
  <2>1. added.ok = FALSE /\ added.s = s
    BY <1>1, <1>7
  <2> QED
    BY <2>1 DEF Added, added
<1>8. CASE k # 0 /\ node.blk[k] = 0 /\ fresh # 0
  <2>1. /\ Ok(d0, s3, C) /\ Kept(d, s3.d, C)
        /\ fresh \in BlocksOf(s3.d, p) /\ FreeSlots(s3.d, fresh) # {}
        /\ Ready(s3.d, C, i) /\ Inode(s3.d, i) = Inode(d, i)
    <3>1. /\ k \in 1 .. 3 /\ Inode(s.d, p).blk[k] = 0 /\ FreeBlock(s) # 0
          /\ k \in DOMAIN Inode(s.d, p).blk
      BY <1>2, <1>4, <1>8 DEF node, d, IsNode
    <3> QED
      BY <3>1, RoomOk DEF node, d
  <2>2. added.ok = TRUE /\ added.s = Filled(s3, fresh, m, i)
    BY <1>1, <1>8
  <2> HIDE DEF s3, fresh
  <2>3. Vacant(s3.d, p, m)
    BY <2>1 DEF Kept, Vacant, d, m
  <2>4. Ok(d0, Filled(s3, fresh, m, i), Grown(s3.d, C, i))
    BY <1>0, <2>1, <2>3, FilledOk
  <2>5. Grown(s3.d, C, i) = Grown(d, C, i)
    BY <2>1 DEF Grown
  <2> QED
    BY <2>2, <2>4, <2>5 DEF Added, added, d
<1> QED
  BY <1>5, <1>6, <1>7, <1>8

LEMMA FirstPlaceBelongs ==
    ASSUME NEW places \in SUBSET ((1 .. 3) \X DirSlots), places # {}
    PROVE  FirstPlace(places) \in places
<1> DEFINE firsts == {q[1] : q \in places}
<1>1. firsts \in SUBSET Nat /\ firsts # {}
  OBVIOUS
<1>2. PICK x \in firsts : \A y \in firsts : x <= y
  BY <1>1, LeastNumber
<1> DEFINE seconds == {q[2] : q \in {r \in places : r[1] = x}}
<1>3. seconds \in SUBSET Nat /\ seconds # {}
  BY Layout
<1>4. PICK z \in seconds : \A y \in seconds : z <= y
  BY <1>3, LeastNumber
<1>5. PICK p \in places : p[1] = x /\ p[2] = z
  OBVIOUS
<1>6. \A q \in places : q[1] \in Nat /\ x <= q[1] /\ x \in Nat
  BY <1>1, <1>2
<1>7. \A q \in places : q[1] = x => z <= q[2]
  BY <1>4
<1>8. \A q \in places : p[1] < q[1] \/ (p[1] = q[1] /\ p[2] <= q[2])
  BY <1>5, <1>6, <1>7
<1> QED
  BY <1>5, <1>8 DEF FirstPlace

LEMMA LookupFinds ==
    ASSUME NEW d, NEW C, SoundFor(d, C), NEW p \in C, NEW n \in Names,
           NEW place, place = FirstPlace(Places(d, p, n)),
           NEW b, b = Inode(d, p).blk[place[1]]
    PROVE  \/ Lookup(d, p, n) = 0
           \/ /\ Lookup(d, p, n) \in Inodes /\ Lookup(d, p, n) \in Reached(d, C)
              /\ place[2] \in DirSlots /\ b \in BlocksOf(d, p)
              /\ NamesAt(d, b, place[2], Lookup(d, p, n))
<1> SUFFICES ASSUME Places(d, p, n) # {}
             PROVE  /\ Lookup(d, p, n) \in Inodes /\ Lookup(d, p, n) \in Reached(d, C)
                    /\ place[2] \in DirSlots /\ b \in BlocksOf(d, p)
                    /\ NamesAt(d, b, place[2], Lookup(d, p, n))
  BY DEF Lookup
<1>1. IsDisk(d) /\ Inode(d, p).kind = "dir"
  BY DEF SoundFor
<1>2. Places(d, p, n) \in SUBSET ((1 .. 3) \X DirSlots)
  BY DEF Places
<1>3. place \in Places(d, p, n)
  BY <1>2, FirstPlaceBelongs
<1>4. /\ place[1] \in 1 .. 3 /\ place[2] \in DirSlots /\ b # 0
      /\ place[2] \in DOMAIN EntriesOf(d, b)
      /\ EntriesOf(d, b)[place[2]].name = n
  BY <1>3 DEF Places
<1>5. b \in BlocksOf(d, p)
  BY <1>1, <1>4, BlocksAreData
<1>6. Lookup(d, p, n) = EntriesOf(d, b)[place[2]].ino
  BY <1>1 DEF Lookup
<1>7. NamesAt(d, b, place[2], Lookup(d, p, n))
  BY <1>4, <1>6 DEF NamesAt
<1>8. Lookup(d, p, n) \in Reached(d, C)
  <2>1. Leads(d, p, Lookup(d, p, n))
    BY <1>4, <1>5, <1>7 DEF Leads
  <2> QED
    BY <1>1, <2>1, Leading
<1>9. Lookup(d, p, n) \in Inodes
  BY <1>1, <1>8, BlocksAreData DEF SoundFor, Backed
<1> QED
  BY <1>4, <1>5, <1>7, <1>8, <1>9

LEMMA LookupType ==
    ASSUME NEW d, NEW C, SoundFor(d, C), NEW p \in C, NEW n \in Names
    PROVE  Lookup(d, p, n) \in Inodes \cup {0} /\ Lookup(d, p, n) \in Nat
<1> DEFINE place == FirstPlace(Places(d, p, n))
           b == Inode(d, p).blk[place[1]]
<1>1. Lookup(d, p, n) \in Inodes \cup {0}
  BY LookupFinds
<1> QED
  BY <1>1, Layout

\* brfs_lookup finds every name of up to 24 bytes.
LEMMA LookupVacant ==
    ASSUME NEW d, NEW C, SoundFor(d, C), NEW p \in C, NEW n \in Names,
           Lookup(d, p, n) = 0
    PROVE  Vacant(d, p, Cut[n])
<1> DEFINE place == FirstPlace(Places(d, p, n))
           b == Inode(d, p).blk[place[1]]
<1>1. IsDisk(d) /\ Inode(d, p).kind = "dir"
  BY DEF SoundFor
<1>2. Places(d, p, n) = {}
  <2> SUFFICES ASSUME Places(d, p, n) # {} PROVE FALSE
    OBVIOUS
  <2>1. Places(d, p, n) \in SUBSET ((1 .. 3) \X DirSlots)
    BY DEF Places
  <2>2. place \in Places(d, p, n)
    BY <2>1, FirstPlaceBelongs
  <2> HIDE DEF place
  <2>3. /\ place[1] \in 1 .. 3 /\ place[2] \in DirSlots /\ b # 0
        /\ place[2] \in DOMAIN EntriesOf(d, b) /\ EntriesOf(d, b)[place[2]].name = n
    BY <2>2 DEF Places
  <2>4. EntriesOf(d, b)[place[2]].ino = 0
    BY <1>1 DEF Lookup, place
  <2>5. b \in BlocksOf(d, p)
    BY <1>1, <2>3, BlocksAreData
  <2> HIDE DEF b
  <2>6. Leads(d, p, 0)
    BY <2>3, <2>4, <2>5 DEF Leads, NamesAt
  <2>7. Backed(d, 0)
    BY <1>1, <2>6, Leading DEF SoundFor
  <2> QED
    BY <1>1, <2>7, BlocksAreData, Layout DEF Backed
<1>3. ASSUME NEW t \in NamesIn(d, p), t.name = n PROVE FALSE
  <2>1. PICK c \in DataBlocks, k \in DirSlots, m \in Names, j \in {t.ino} :
            Called(d, p, c, k, m, j) /\ t = NameIn(p, c, k, m, j)
    BY <1>1, CalledNames, NameParts
  <2>2. c \in BlocksOf(d, p) /\ k \in DOMAIN EntriesOf(d, c) /\ EntriesOf(d, c)[k].name = n
    BY <1>3, <2>1, NameParts DEF Called
  <2>3. PICK h \in 1 .. 3 : Inode(d, p).blk[h] = c
    BY <1>1, <2>2, BlocksAreData
  <2>4. c # 0
    BY Layout
  <2>5. <<h, k>> \in Places(d, p, n)
    BY <2>2, <2>3, <2>4 DEF Places
  <2> QED
    BY <1>2, <2>5
<1> QED
  BY <1>3, CutNames DEF Vacant

-----------------------------------------------------------------------------
(* The calls without a transaction.                                         *)

\* A session after which nothing is lost.
OkNow(d0, s) == \E C : Ok(d0, s, C)

\* Nothing names an inode that is not reached.
LEMMA Unnamed ==
    ASSUME NEW d, NEW C, IsDisk(d), NEW i, i \notin Reached(d, C)
    PROVE  Refs(d, C, i) = {} /\ Cardinality(Refs(d, C, i)) = 0
<1>1. ASSUME NEW r \in Refs(d, C, i) PROVE FALSE
  <2>1. PICK p \in C : Entry(d, p, r[1], r[2], i)
    BY DEF Refs
  <2>2. r[1] \in DataBlocks /\ r[2] \in DirSlots
    BY DEF Refs
  <2>3. Leads(d, p, i)
    BY <2>1, <2>2, Leading
  <2> QED
    BY <2>3, Leading
<1>2. Refs(d, C, i) = {}
  BY <1>1
<1> QED
  BY <1>2, FS_EmptySet

\* A change of the link count.
LEMMA LinksOk ==
    ASSUME NEW d0, NEW s, NEW C, Ok(d0, s, C), NEW i, Backed(s.d, i), NEW n \in Int,
           n >= Cardinality(Refs(s.d, C, i)) \/ i \in C
    PROVE  LET node == [Inode(s.d, i) EXCEPT !.links = n]
               t    == PutInode(s, i, node)
           IN  /\ Ok(d0, t, C) /\ Kept(s.d, t.d, C)
               /\ Inode(t.d, i) = node /\ BlocksOf(t.d, i) = BlocksOf(s.d, i)
               /\ Backed(t.d, i)
               /\ \A j : j # i => Inode(t.d, j) = Inode(s.d, j)
<1> DEFINE d == s.d
           old == Inode(d, i)
           node == [old EXCEPT !.links = n]
           t == PutInode(s, i, node)
<1>1. /\ SoundFor(d, C) /\ IsDisk(d) /\ i \in Inodes /\ IsNode(old)
      /\ \A b \in BlocksOf(d, i) : \E k \in 1 .. 3 : old.blk[k] = b
      /\ \A k \in 1 .. 3 : old.blk[k] # 0 => old.blk[k] \in BlocksOf(d, i)
      /\ \A b \in BlocksOf(d, i) : b \in d.bmap /\ d.content[b].of = i
  BY BlocksAreData DEF Ok, SoundFor, Backed
<1> HIDE DEF old
<1>2. IsNode(node) /\ node.kind = old.kind /\ node.blk = old.blk /\ node.links = n
  BY <1>1 DEF IsNode
<1> HIDE DEF node
<1>3. CanPut(d, C, i, node)
  BY <1>1, <1>2 DEF CanPut, old
<1>4. /\ Ok(d0, t, C) /\ Kept(d, t.d, C)
      /\ t.d = [d EXCEPT !.inode = Put(@, i, node)]
  BY <1>1, <1>2, <1>3, OkPutInode
<1> HIDE DEF t
<1>5. /\ t.d.imap = d.imap /\ t.d.bmap = d.bmap /\ t.d.content = d.content
      /\ Inode(t.d, i) = node
      /\ \A j : j # i => Inode(t.d, j) = Inode(d, j)
      /\ BlocksOf(t.d, i) = {node.blk[k] : k \in 1 .. 3} \ {0}
  BY <1>1, <1>2, <1>4, PutNode
<1>6. BlocksOf(t.d, i) = BlocksOf(d, i)
  BY <1>2, <1>5 DEF BlocksOf, old
<1>7. Backed(t.d, i)
  BY <1>2, <1>5, <1>6 DEF Backed, old
<1> QED
  BY <1>4, <1>5, <1>6, <1>7 DEF node, old, t

LEMMA ReleaseOk ==
    ASSUME NEW d0, NEW s, NEW C, Ok(d0, s, C), NEW i, i \notin C, Backed(s.d, i),
           Inode(s.d, i).links >= Cardinality(Refs(s.d, C, i)) + 1
    PROVE  Ok(d0, Release(s, i), C)
<1> DEFINE d == s.d
           node == Inode(d, i)
           without(t, k) == IF node.blk[k] = 0 THEN t ELSE DropBlock(t, node.blk[k])
<1>1. SoundFor(d, C) /\ IsDisk(d) /\ IsNode(node) /\ node.links \in Int
      /\ Cardinality(Refs(d, C, i)) \in Nat
  BY BlocksAreData, Leading DEF Ok, SoundFor, IsNode
<1>2. CASE node.links - 1 > 0
  <2>1. Release(s, i) = PutInode(s, i, [node EXCEPT !.links = node.links - 1])
    BY <1>2 DEF Release
  <2>2. node.links - 1 \in Int /\ node.links - 1 >= Cardinality(Refs(d, C, i))
    BY <1>1
  <2> DEFINE n == node.links - 1
  <2> HIDE DEF n
  <2>3. Ok(d0, PutInode(s, i, [node EXCEPT !.links = n]), C)
    BY <2>2, LinksOk DEF n
  <2> QED
    BY <2>1, <2>3 DEF n
<1>3. CASE ~(node.links - 1 > 0)
  <2>1. Release(s, i) = DropInode(without(without(without(s, 1), 2), 3), i)
    BY <1>3 DEF Release
  <2>2. Cardinality(Refs(d, C, i)) = 0
    BY <1>1, <1>3
  <2>3. i \notin Reached(d, C)
    <3>1. Refs(d, C, i) = {}
      BY <1>1, <2>2, Leading, FS_EmptySet
    <3>2. \A p \in C : ~Leads(d, p, i)
      <4> SUFFICES ASSUME NEW p \in C, Leads(d, p, i) PROVE FALSE
        OBVIOUS
      <4>1. PICK b \in DataBlocks, k \in DirSlots : Entry(d, p, b, k, i)
        BY <1>1, Leading
      <4>2. <<b, k>> \in Refs(d, C, i)
        BY <4>1 DEF Refs
      <4> QED
        BY <3>1, <4>2
    <3> QED
      BY <1>1, <3>2, Leading
  <2> DEFINE Emptying(t) == /\ Ok(d0, t, C) /\ t.d.inode = d.inode /\ t.d.content = d.content
                            /\ Reached(t.d, C) = Reached(d, C)
  <2>4. ASSUME NEW t, Emptying(t), NEW k \in 1 .. 3 PROVE Emptying(without(t, k))
    <3>1. CASE node.blk[k] = 0
      BY <2>4, <3>1
    <3>2. CASE node.blk[k] # 0
      <4>1. node.blk[k] \in BlocksOf(d, i)
        BY <1>1, <3>2, BlocksAreData
      <4>2. d.content[node.blk[k]].of = i
        BY <4>1 DEF Backed
      <4>3. \A j \in Reached(t.d, C) : node.blk[k] \notin BlocksOf(t.d, j)
        BY <1>1, <2>3, <2>4, <4>2, SameParts DEF SoundFor, Backed
      <4> DEFINE b == node.blk[k]
      <4> HIDE DEF b
      <4>4. /\ Ok(d0, DropBlock(t, b), C) /\ SameButBmap(t.d, DropBlock(t, b).d)
            /\ Kept(t.d, DropBlock(t, b).d, C)
        BY <2>4, <4>3, OkDropBlock DEF b
      <4>5. without(t, k) = DropBlock(t, b)
        BY <3>2 DEF b
      <4> HIDE DEF without
      <4> QED
        BY <2>4, <4>4, <4>5 DEF SameButBmap, Kept
    <3> QED
      BY <3>1, <3>2
  <2>5. Emptying(s)
    OBVIOUS
  <2> HIDE DEF Emptying, without
  <2>6. Emptying(without(without(without(s, 1), 2), 3))
    BY <2>4, <2>5
  <2> DEFINE t == without(without(without(s, 1), 2), 3)
  <2>7. Ok(d0, t, C) /\ i \notin Reached(t.d, C)
    BY <2>3, <2>6 DEF Emptying
  <2> HIDE DEF t
  <2>8. Ok(d0, DropInode(t, i), C)
    BY <2>7, OkDropInode
  <2> QED
    BY <2>1, <2>8 DEF t
<1> QED
  BY <1>2, <1>3

LEMMA UnlinkOk ==
    ASSUME NEW d0, NEW s, NEW C, Ok(d0, s, C), NEW p \in C, NEW n \in Names
    PROVE  Ok(d0, Unlink(s, p, n), C)
<1> DEFINE d == s.d
           i == Lookup(d, p, n)
           place == FirstPlace(Places(d, p, n))
           b == Inode(d, p).blk[place[1]]
           k == place[2]
           old == d.content[b]
           data == [old EXCEPT !.entries = Restrict(@, DOMAIN @ \ {k})]
           t == PutBlock(s, b, data)
<1>1. CASE i = 0 \/ Inode(d, i).kind = "dir"
  BY <1>1 DEF Unlink
<1>2. CASE i # 0 /\ Inode(d, i).kind # "dir"
  <2>1. Unlink(s, p, n) = Release(t, i)
    BY <1>2 DEF Unlink
  <2>2. SoundFor(d, C) /\ IsDisk(d)
    BY DEF Ok, SoundFor
  <2>3. i \in Inodes /\ k \in DirSlots /\ b \in BlocksOf(d, p) /\ NamesAt(d, b, k, i)
    BY <1>2, <2>2, LookupFinds
  <2> HIDE DEF i, k, b, place
  <2>4. b \in DataBlocks
    BY <2>2, <2>3, BlocksAreData
  <2>5. IsData(old)
    BY <2>2, <2>4 DEF IsDisk
  <2>6. IsData(data) /\ data.of = d.content[b].of /\ Emptied(d, b, k, data)
    BY <2>5 DEF IsData, EntriesOf, Restrict, Emptied
  <2> DEFINE e == [d EXCEPT !.content[b] = data]
  <2>7. Wrote(d, e, b, data)
    BY DEF Wrote
  <2>8. t = Logged(s, e, FALSE)
    BY DEF PutBlock
  <2> HIDE DEF e, data, d, t, old
  <2>9. /\ SoundFor(e, C) /\ i \notin C /\ Inode(e, i) = Inode(d, i) /\ Backed(e, i)
        /\ Inode(e, i).links >= Cardinality(Refs(e, C, i)) + 1
    BY <1>2, <2>2, <2>3, <2>6, <2>7, DropName
  <2>10. Ok(d0, t, C) /\ t.d = e
    <3>1. Step(d, e)
      BY <1>2, <2>2, <2>3, <2>6, <2>7, DropNameStep
    <3> QED
      BY <2>8, <2>9, <3>1, OkWrite DEF d
  <2>11. Ok(d0, Release(t, i), C)
    BY <2>9, <2>10, ReleaseOk
  <2> QED
    BY <2>1, <2>11
<1> QED
  BY <1>1, <1>2

LEMMA LinkOk ==
    ASSUME NEW d0, NEW s, NEW C, Ok(d0, s, C), NEW p \in C, NEW n \in Names,
           NEW i \in Reached(s.d, C)
    PROVE  Ok(d0, Link(s, p, n, i), C)
<1> DEFINE d == s.d
           node == Inode(d, i)
           up == PutInode(s, i, [node EXCEPT !.links = @ + 1])
           added == AddEntry(up, p, n, i)
           down == PutInode(added.s, i, [Inode(added.s.d, i) EXCEPT !.links = @ - 1])
<1>1. Link(s, p, n, i) =
        CASE Lookup(d, p, n) > 0 \/ node.kind = "dir" -> s
          [] Lookup(d, p, n) = 0 /\ node.kind # "dir" /\ added.ok -> added.s
          [] OTHER -> down
  BY DEF Link
<1>2. /\ SoundFor(d, C) /\ IsDisk(d) /\ IsNode(node) /\ Backed(d, i)
      /\ Cardinality(Refs(d, C, i)) \in Nat
  BY BlocksAreData, Leading DEF Ok, SoundFor
<1>3. Lookup(d, p, n) \in Nat
  BY <1>2, LookupType
<1> HIDE DEF d, node
<1>4. CASE Lookup(d, p, n) > 0 \/ node.kind = "dir"
  BY <1>1, <1>4
<1>5. CASE Lookup(d, p, n) = 0 /\ node.kind # "dir"
  <2> DEFINE more == node.links + 1
  <2>1. node.links \in Int /\ more \in Int /\ i \notin C
        /\ node.links >= Cardinality(Refs(d, C, i))
        /\ more >= Cardinality(Refs(d, C, i))
    <3>1. node.links \in Int /\ i \notin C
      BY <1>2, <1>5 DEF IsNode, SoundFor, node
    <3>2. node.links >= Cardinality(Refs(d, C, i))
      BY <1>2, <3>1 DEF SoundFor, node, d
    <3> QED
      BY <1>2, <3>1, <3>2
  <2>2. up = PutInode(s, i, [node EXCEPT !.links = more])
    OBVIOUS
  <2> HIDE DEF up, more
  <2>3. /\ Ok(d0, up, C) /\ Kept(d, up.d, C) /\ Backed(up.d, i)
        /\ Inode(up.d, i) = [node EXCEPT !.links = more]
    BY <1>2, <2>1, <2>2, LinksOk DEF d, node
  <2>4. Inode(up.d, i).kind = node.kind /\ Inode(up.d, i).links = more
    BY <1>2, <2>3 DEF IsNode
  <2>5. Ready(up.d, C, i)
    <3>1. more >= Cardinality(Refs(d, C, i)) + 1
      BY <1>2, <2>1 DEF more
    <3> QED
      BY <1>5, <2>3, <2>4, <3>1 DEF Ready, Kept
  <2>6. Grown(up.d, C, i) = C
    BY <1>5, <2>4 DEF Grown
  <2>7. Added(d0, added, up, C)
    <3>1. Ok(d0, up, C) /\ Ready(up.d, C, i) /\ Vacant(up.d, p, Cut[n])
      BY <1>2, <1>5, <2>3, <2>5, LookupVacant DEF Kept, Vacant
    <3> DEFINE G == Grown(up.d, C, i)
    <3>2. Added(d0, AddEntry(up, p, n, i), up, G)
      BY <3>1, AddEntryOk
    <3> HIDE DEF G
    <3> QED
      BY <2>6, <3>2 DEF G
  <2> HIDE DEF added
  <2>8. CASE added.ok = TRUE /\ Ok(d0, added.s, C)
    BY <1>1, <1>3, <1>5, <2>8
  <2>9. CASE added.ok = FALSE /\ added.s = up
    <3>1. added.ok = FALSE /\ added.s = up
      BY <2>9
    <3>2. Link(s, p, n, i) = down
      BY <1>1, <1>3, <1>5, <3>1
    <3>3. Inode(up.d, i).links - 1 = node.links
      BY <2>1, <2>4 DEF more
    <3> DEFINE less == Inode(up.d, i).links - 1
    <3>4. down = PutInode(up, i, [Inode(up.d, i) EXCEPT !.links = less])
      BY <3>1
    <3>5. less \in Int /\ less >= Cardinality(Refs(up.d, C, i))
      BY <2>1, <2>3, <3>3 DEF Kept
    <3> HIDE DEF less, down
    <3>6. Ok(d0, PutInode(up, i, [Inode(up.d, i) EXCEPT !.links = less]), C)
      BY <2>3, <3>5, LinksOk
    <3> QED
      BY <3>2, <3>4, <3>6
  <2> QED
    BY <2>7, <2>8, <2>9 DEF Added
<1> QED
  BY <1>3, <1>4, <1>5

\* The first contents of a directory name nothing but itself and its parent.
LEMMA FirstParts ==
    ASSUME NEW kind \in {"dir", "lnk"}, NEW b \in DataBlocks, NEW i, NEW p
    PROVE  /\ IsNode(FirstNode(kind, b)) /\ IsData(FirstContents(kind, i, p))
           /\ FirstNode(kind, b).kind = kind /\ FirstNode(kind, b).links \in Nat \ {0}
           /\ {FirstNode(kind, b).blk[k] : k \in 1 .. 3} \ {0} = {b}
           /\ FirstContents(kind, i, p).of = i
           /\ \A k \in DOMAIN FirstContents(kind, i, p).entries :
                 FirstContents(kind, i, p).entries[k].name \notin Names
<1> DEFINE node == FirstNode(kind, b)
           data == FirstContents(kind, i, p)
<1>1. node = [kind |-> kind, links |-> IF kind = "dir" THEN 2 ELSE 1, blk |-> <<b, 0, 0>>]
  BY DEF FirstNode, Node
<1>2. /\ <<b, 0, 0>>[1] = b /\ <<b, 0, 0>>[2] = 0 /\ <<b, 0, 0>>[3] = 0
      /\ DOMAIN <<b, 0, 0>> = 1 .. 3
  OBVIOUS
<1>3. b # 0
  BY Layout
<1>4. IsNode(node)
  BY <1>1, <1>2 DEF IsNode, Kinds
<1>5. {node.blk[k] : k \in 1 .. 3} \ {0} = {b}
  BY <1>1, <1>2, <1>3
<1>6. CASE kind = "dir"
  <2>1. data.of = i /\ DOMAIN data = {"of", "entries"} /\ DOMAIN data.entries = 0 .. 1
    BY <1>6 DEF FirstContents, NewDirData
  <2>2. \A k \in 0 .. 1 : data.entries[k].name \in {".", ".."}
    BY <1>6 DEF FirstContents, NewDirData
  <2>3. 0 .. 1 \subseteq DirSlots
    BY Layout
  <2> HIDE DEF data
  <2>4. IsData(data) /\ data.of = i /\ \A k \in DOMAIN data.entries : data.entries[k].name \notin Names
    BY <2>1, <2>2, <2>3, NamesAssumption DEF IsData
  <2> QED
    BY <1>1, <1>4, <1>5, <2>4 DEF data
<1>7. CASE kind = "lnk"
  <2>1. data = [of |-> i, entries |-> <<>>]
    BY <1>7 DEF FirstContents, FileData
  <2>2. DOMAIN <<>> = {}
    OBVIOUS
  <2> HIDE DEF data
  <2>3. IsData(data) /\ data.of = i /\ \A k \in DOMAIN data.entries : data.entries[k].name \notin Names
    BY <2>1, <2>2 DEF IsData
  <2> QED
    BY <1>1, <1>4, <1>5, <2>3 DEF data
<1> QED
  BY <1>6, <1>7

\* A new inode with a new block, before it has a name.
MadeNode(s, p, kind) ==
    LET i  == FreeInode(s)
        s1 == TakeInode(s, i)
        b  == FreeBlock(s1)
    IN  PutInode(PutBlock(TakeBlock(s1, b), b, FirstContents(kind, i, p)), i, FirstNode(kind, b))

LEMMA MadeNodeOk ==
    ASSUME NEW d0, NEW s, NEW C, Ok(d0, s, C), NEW p, NEW kind \in {"dir", "lnk"},
           NEW i, i = FreeInode(s), i # 0,
           NEW b, b = FreeBlock(TakeInode(s, i)), b # 0
    PROVE  LET t == MadeNode(s, p, kind)
           IN  /\ Ok(d0, t, C) /\ i \notin Reached(t.d, C) /\ Ready(t.d, C, i)
               /\ \A j \in Reached(t.d, C) : b \notin BlocksOf(t.d, j)
               /\ Inode(t.d, i).kind = kind
               /\ \A q \in C : NamesIn(t.d, q) = NamesIn(s.d, q)
<1> DEFINE d == s.d
           s1 == TakeInode(s, i)
           s2 == TakeBlock(s1, b)
           data == FirstContents(kind, i, p)
           s3 == PutBlock(s2, b, data)
           node == FirstNode(kind, b)
           t == PutInode(s3, i, node)
<1>1. SoundFor(d, C) /\ i \in Inodes /\ i \notin Reached(d, C)
  BY FreshInode DEF Ok
<1>2. /\ Ok(d0, s1, C) /\ Kept(d, s1.d, C) /\ s1.d.imap = d.imap \cup {i}
  BY OkTakeInode
<1> HIDE DEF d
<1> HIDE DEF s1
<1>3. /\ SoundFor(s1.d, C) /\ b \in DataBlocks
      /\ \A j \in Reached(s1.d, C) : b \notin BlocksOf(s1.d, j)
  <2>1. SoundFor(s1.d, C) /\ FreeBlock(s1) # 0
    BY <1>2 DEF Ok, s1
  <2>2. /\ FreeBlock(s1) \in DataBlocks
        /\ \A j \in Reached(s1.d, C) : FreeBlock(s1) \notin BlocksOf(s1.d, j)
    BY <2>1, FreshBlock
  <2> QED
    BY <2>1, <2>2 DEF s1
<1>4. /\ Ok(d0, s2, C) /\ SameButBmap(s1.d, s2.d) /\ Kept(s1.d, s2.d, C)
      /\ s2.d.bmap = s1.d.bmap \cup {b}
  BY <1>2, OkTakeBlock
<1> HIDE DEF s2
<1>5. \A j : Inode(s2.d, j) = Inode(s1.d, j) /\ BlocksOf(s2.d, j) = BlocksOf(s1.d, j)
  BY <1>4, SameParts DEF SameButBmap
<1>6. /\ IsNode(node) /\ IsData(data) /\ node.kind = kind /\ node.links \in Nat \ {0}
      /\ {node.blk[k] : k \in 1 .. 3} \ {0} = {b} /\ data.of = i
      /\ \A k \in DOMAIN data.entries : data.entries[k].name \notin Names
  BY <1>3, FirstParts
<1> HIDE DEF node, data
<1>7. /\ Ok(d0, s3, C) /\ Kept(s2.d, s3.d, C) /\ Wrote(s2.d, s3.d, b, data)
  <2>1. \A j \in Reached(s2.d, C) : b \notin BlocksOf(s2.d, j)
    BY <1>3, <1>4, <1>5 DEF Kept
  <2> QED
    BY <1>3, <1>4, <1>6, <2>1, OkPutBlock
<1> HIDE DEF s3
<1>8. /\ IsDisk(s3.d) /\ s3.d.imap = s1.d.imap /\ s3.d.bmap = s2.d.bmap
      /\ s3.d.content[b] = data
  <2>1. IsDisk(s2.d)
    BY <1>4 DEF Ok, SoundFor
  <2>2. /\ IsDisk(s3.d) /\ s3.d.imap = s2.d.imap /\ s3.d.bmap = s2.d.bmap
        /\ \A c \in DataBlocks : s3.d.content[c] = IF c = b THEN data ELSE s2.d.content[c]
    BY <1>3, <1>6, <1>7, <2>1, PutData
  <2> QED
    BY <1>3, <1>4, <2>2 DEF SameButBmap
<1>9. i \notin Reached(s3.d, C)
  BY <1>1, <1>2, <1>4, <1>7 DEF Kept
<1>10. /\ Ok(d0, t, C) /\ Kept(s3.d, t.d, C)
       /\ t.d = [s3.d EXCEPT !.inode = Put(@, i, node)]
  <2>1. CanPut(s3.d, C, i, node)
    BY <1>9 DEF CanPut
  <2> QED
    BY <1>1, <1>6, <1>7, <2>1, OkPutInode
<1> HIDE DEF t
<1>11. /\ t.d.imap = s3.d.imap /\ t.d.bmap = s3.d.bmap /\ t.d.content = s3.d.content
       /\ Inode(t.d, i) = node /\ BlocksOf(t.d, i) = {b} /\ IsDisk(t.d)
  BY <1>1, <1>6, <1>8, <1>10, PutNode
<1>12. i \notin Reached(t.d, C)
  BY <1>9, <1>10 DEF Kept
<1>13. t.d.content[b] = data
  BY <1>8, <1>11
<1>14. Backed(t.d, i)
  BY <1>2, <1>4, <1>6, <1>8, <1>11, <1>13 DEF Backed, Kinds
<1>15. \A c \in DataBlocks, k \in DirSlots : \A j : ~Entry(t.d, i, c, k, j)
  BY <1>6, <1>11, <1>13 DEF Entry, NamesAt, EntriesOf
<1>16. Inode(t.d, i).links >= Cardinality(Refs(t.d, C, i)) + 1
  BY <1>6, <1>11, <1>12, Unnamed
<1>17. Ready(t.d, C, i)
  BY <1>12, <1>14, <1>15, <1>16 DEF Ready
<1>18. ASSUME NEW j \in Reached(t.d, C) PROVE b \notin BlocksOf(t.d, j)
  <2>1. Backed(t.d, j) /\ j # i
    BY <1>10, <1>12 DEF Ok, SoundFor
  <2> QED
    BY <1>6, <1>13, <2>1 DEF Backed
<1>19. t = MadeNode(s, p, kind)
  BY DEF MadeNode, t, s3, s2, s1, node, data
<1>20. \A q \in C : NamesIn(t.d, q) = NamesIn(s.d, q)
  BY <1>2, <1>4, <1>7, <1>10 DEF Kept, d
<1> QED
  BY <1>6, <1>10, <1>11, <1>12, <1>17, <1>18, <1>19, <1>20

LEMMA MakeOk ==
    ASSUME NEW d0, NEW s, NEW C, Ok(d0, s, C), NEW p \in C, NEW n \in Names,
           NEW kind \in {"dir", "lnk"}
    PROVE  \E G : C \subseteq G /\ Ok(d0, MakeWithBlock(s, p, n, kind).s, G)
<1> DEFINE i == FreeInode(s)
           s1 == TakeInode(s, i)
           b == FreeBlock(s1)
           t == MadeNode(s, p, kind)
           added == AddEntry(t, p, n, i)
           made == MakeWithBlock(s, p, n, kind)
           there == Lookup(s.d, p, n)
<1>1. made.s =
        CASE there > 0 \/ i = 0 -> s
          [] there = 0 /\ i > 0 /\ b = 0 -> DropInode(s1, i)
          [] there = 0 /\ i > 0 /\ b > 0 /\ added.ok -> added.s
          [] OTHER -> DropInode(DropBlock(added.s, b), i)
  <2>1. made =
        CASE there > 0 \/ i = 0 -> [ok |-> FALSE, s |-> s]
          [] there = 0 /\ i > 0 /\ b = 0 -> [ok |-> FALSE, s |-> DropInode(s1, i)]
          [] there = 0 /\ i > 0 /\ b > 0 /\ added.ok -> [ok |-> TRUE, s |-> added.s]
          [] OTHER -> [ok |-> FALSE, s |-> DropInode(DropBlock(added.s, b), i)]
    BY DEF MakeWithBlock, MadeNode
  <2> HIDE DEF made, added, b, s1, i, there
  <2> QED
    BY <2>1
<1>2. SoundFor(s.d, C)
  BY DEF Ok
<1>3. there \in Nat
  BY <1>2, LookupType
<1>4. i \in Nat
  BY <1>2, FreshInode, Layout
<1>5. i # 0 => Ok(d0, s1, C) /\ i \notin Reached(s1.d, C)
  BY <1>2, OkTakeInode, FreshInode DEF Kept
<1>6. (i # 0 /\ b # 0) => b \in Nat
  BY <1>5, FreshBlock, Layout DEF Ok
<1>7. CASE there > 0 \/ i = 0
  <2> HIDE DEF made, added, b, s1, i, there
  <2>1. made.s = s
    BY <1>1, <1>7
  <2> QED
    BY <2>1 DEF made
<1>8. CASE there = 0 /\ i # 0 /\ b = 0
  <2>1. Ok(d0, DropInode(s1, i), C)
    BY <1>5, <1>8, OkDropInode
  <2> HIDE DEF made, added, b, s1, i, there
  <2>2. made.s = DropInode(s1, i)
    BY <1>1, <1>3, <1>4, <1>8
  <2> QED
    BY <2>1, <2>2 DEF made
<1>9. CASE there = 0 /\ i # 0 /\ b # 0
  <2>1. /\ Ok(d0, t, C) /\ i \notin Reached(t.d, C) /\ Ready(t.d, C, i)
        /\ \A j \in Reached(t.d, C) : b \notin BlocksOf(t.d, j)
        /\ \A q \in C : NamesIn(t.d, q) = NamesIn(s.d, q)
    BY <1>9, MadeNodeOk
  <2>2. Vacant(s.d, p, Cut[n])
    BY <1>2, <1>9, LookupVacant
  <2> HIDE DEF t, b, s1, i, there
  <2>3. Vacant(t.d, p, Cut[n])
    BY <2>1, <2>2 DEF Vacant
  <2> DEFINE G == Grown(t.d, C, i)
  <2>4. Added(d0, added, t, G)
    BY <2>1, <2>3, AddEntryOk
  <2>5. C \subseteq G
    BY DEF Grown
  <2> HIDE DEF G, added, made
  <2>6. CASE added.ok = TRUE /\ Ok(d0, added.s, G)
    <3>1. made.s = added.s
      BY <1>1, <1>3, <1>4, <1>6, <1>9, <2>6
    <3> QED
      BY <2>5, <2>6, <3>1 DEF made
  <2>7. CASE added.ok = FALSE /\ added.s = t
    <3>1. made.s = DropInode(DropBlock(t, b), i)
      BY <1>1, <1>3, <1>4, <1>6, <1>9, <2>7
    <3> DEFINE u == DropBlock(t, b)
    <3>2. Ok(d0, u, C) /\ i \notin Reached(u.d, C)
      BY <2>1, OkDropBlock DEF Kept
    <3> HIDE DEF u
    <3>3. Ok(d0, DropInode(u, i), C)
      BY <3>2, OkDropInode
    <3> QED
      BY <3>1, <3>3 DEF made, u
  <2> QED
    BY <2>4, <2>6, <2>7 DEF Added
<1> QED
  BY <1>3, <1>7, <1>8, <1>9

LEMMA MkdirOk ==
    ASSUME NEW d0, NEW s, NEW C, Ok(d0, s, C), NEW p \in C, NEW n \in Names
    PROVE  \E G : C \subseteq G /\ Ok(d0, Mkdir(s, p, n), G)
<1> DEFINE made == MakeWithBlock(s, p, n, "dir")
<1>1. Mkdir(s, p, n) =
        IF made.ok THEN PutInode(made.s, p, [Inode(made.s.d, p) EXCEPT !.links = @ + 1])
        ELSE made.s
  BY DEF Mkdir
<1>2. "dir" \in {"dir", "lnk"}
  OBVIOUS
<1>3. PICK G : C \subseteq G /\ Ok(d0, made.s, G)
  BY <1>2, MakeOk
<1> HIDE DEF made
<1>4. Backed(made.s.d, p) /\ Inode(made.s.d, p).links \in Int
  BY <1>3, BlocksAreData DEF Ok, SoundFor, Reached, IsNode
<1> DEFINE more == Inode(made.s.d, p).links + 1
<1>5. more \in Int /\ p \in G
  BY <1>3, <1>4
<1>6. Ok(d0, PutInode(made.s, p, [Inode(made.s.d, p) EXCEPT !.links = more]), G)
  <2> HIDE DEF more
  <2> QED
    BY <1>3, <1>4, <1>5, LinksOk
<1> QED
  BY <1>1, <1>3, <1>6

\* brfs_write_file between two turns: the inode on the disk has not changed,
\* and the one in memory has its blocks and new ones.
Writing(d0, a, C, i) ==
    /\ DOMAIN a = {"s", "node", "full"}
    /\ Ok(d0, a.s, C) /\ i \in Reached(a.s.d, C) /\ i \notin C
    /\ IsNode(a.node) /\ CanPut(a.s.d, C, i, a.node)

\* Data in a block of the file in memory.
LEMMA WriteData ==
    ASSUME NEW d0, NEW s, NEW C, Ok(d0, s, C), NEW i \in Reached(s.d, C), i \notin C,
           NEW node, IsNode(node), CanPut(s.d, C, i, node), NEW b \in DataBlocks,
           s.d.content[b].of = i \/ \A j \in Reached(s.d, C) : b \notin BlocksOf(s.d, j)
    PROVE  LET t == PutBlock(s, b, FileData(i))
           IN  /\ Ok(d0, t, C) /\ i \in Reached(t.d, C) /\ CanPut(t.d, C, i, node)
               /\ t.d.bmap = s.d.bmap /\ t.d.content[b].of = i /\ EntriesOf(t.d, b) = <<>>
               /\ BlocksOf(t.d, i) = BlocksOf(s.d, i)
<1> DEFINE d == s.d
           data == FileData(i)
           t == PutBlock(s, b, data)
<1>1. SoundFor(d, C) /\ IsDisk(d)
  BY DEF Ok, SoundFor
<1>2. data.of = i /\ data.entries = <<>> /\ IsData(data)
  BY DEF IsData, FileData
<1> HIDE DEF data
<1>3. \A j \in Reached(d, C) : b \in BlocksOf(d, j) => j \notin C /\ data.of = j
  BY <1>1, <1>2 DEF SoundFor, Backed
<1>4. /\ Ok(d0, t, C) /\ Kept(d, t.d, C) /\ Wrote(d, t.d, b, data)
  BY <1>2, <1>3, OkPutBlock
<1> HIDE DEF t
<1>5. /\ t.d.bmap = d.bmap
      /\ \A c \in DataBlocks : t.d.content[c] = IF c = b THEN data ELSE d.content[c]
      /\ \A j : Inode(t.d, j) = Inode(d, j) /\ BlocksOf(t.d, j) = BlocksOf(d, j)
  BY <1>1, <1>2, <1>4, PutData
<1>6. \A c \in DataBlocks :
          /\ d.content[c].of = i => t.d.content[c].of = i
          /\ EntriesOf(t.d, c) = <<>> \/ EntriesOf(t.d, c) = EntriesOf(d, c)
  BY <1>2, <1>5 DEF EntriesOf
<1>7. \A k \in 1 .. 3 : node.blk[k] # 0 => node.blk[k] \in DataBlocks
  BY DEF IsNode
<1>8. CanPut(t.d, C, i, node)
  BY <1>4, <1>5, <1>6, <1>7 DEF CanPut, Kept
<1>9. t.d.content[b].of = i /\ EntriesOf(t.d, b) = <<>> /\ i \in Reached(t.d, C)
  BY <1>2, <1>4, <1>5 DEF EntriesOf, Kept
<1> QED
  BY <1>4, <1>5, <1>8, <1>9 DEF t, data

LEMMA WriteTurnOk ==
    ASSUME NEW d0, NEW a, NEW C, NEW i, Writing(d0, a, C, i), NEW k \in 1 .. 3
    PROVE  Writing(d0, WriteTurn(a, i, k), C, i)
<1> DEFINE s == a.s
           d == s.d
           node == a.node
           b == FreeBlock(s)
           s1 == TakeBlock(s, b)
           r == WriteTurn(a, i, k)
<1>1. r = CASE a.full -> a
            [] ~a.full /\ node.blk[k] # 0 ->
                 [a EXCEPT !.s = PutBlock(s, node.blk[k], FileData(i))]
            [] ~a.full /\ node.blk[k] = 0 /\ b > 0 ->
                 [a EXCEPT !.s = PutBlock(s1, b, FileData(i)), !.node.blk[k] = b]
            [] OTHER -> [a EXCEPT !.full = TRUE]
  BY DEF WriteTurn
<1>2. /\ DOMAIN a = {"s", "node", "full"}
      /\ Ok(d0, s, C) /\ i \in Reached(d, C) /\ i \notin C
      /\ IsNode(node) /\ CanPut(d, C, i, node)
  BY DEF Writing
<1>3. SoundFor(d, C) /\ IsDisk(d)
  BY <1>2 DEF Ok, SoundFor
<1> HIDE DEF r, s, node
<1>4. CASE r = a
  BY <1>4 DEF r
<1>5. CASE r = [a EXCEPT !.full = TRUE]
  <2>1. DOMAIN r = {"s", "node", "full"} /\ r.s = s /\ r.node = node
    BY <1>2, <1>5 DEF s, node
  <2> QED
    BY <1>2, <2>1 DEF Writing, r
<1>6. CASE /\ node.blk[k] # 0
           /\ r = [a EXCEPT !.s = PutBlock(s, node.blk[k], FileData(i))]
  <2> DEFINE c == node.blk[k]
             t == PutBlock(s, c, FileData(i))
  <2>1. c \in DataBlocks
    BY <1>2, <1>6 DEF IsNode
  <2>2. d.content[c].of = i
    BY <1>2, <1>6 DEF CanPut
  <2> HIDE DEF c
  <2>3. Ok(d0, t, C) /\ i \in Reached(t.d, C) /\ CanPut(t.d, C, i, node)
    BY <1>2, <2>1, <2>2, WriteData
  <2> HIDE DEF t
  <2>4. DOMAIN r = {"s", "node", "full"} /\ r.s = t /\ r.node = node
    BY <1>2, <1>6 DEF s, node, t, c
  <2> QED
    BY <1>2, <2>3, <2>4 DEF Writing, r
<1>7. CASE /\ node.blk[k] = 0 /\ b # 0
           /\ r = [a EXCEPT !.s = PutBlock(s1, b, FileData(i)), !.node.blk[k] = b]
  <2>1. /\ b \in DataBlocks /\ b \notin d.bmap
        /\ \A j \in Reached(d, C) : b \notin BlocksOf(d, j)
    BY <1>3, <1>7, FreshBlock
  <2> HIDE DEF b
  <2>2. /\ Ok(d0, s1, C) /\ SameButBmap(d, s1.d) /\ Kept(d, s1.d, C)
        /\ s1.d.bmap = d.bmap \cup {b}
    BY <1>2, OkTakeBlock
  <2> DEFINE t == PutBlock(s1, b, FileData(i))
             more == [node EXCEPT !.blk[k] = b]
  <2> HIDE DEF s1
  <2>3. /\ \A j : Inode(s1.d, j) = Inode(d, j) /\ BlocksOf(s1.d, j) = BlocksOf(d, j)
        /\ \A c : EntriesOf(s1.d, c) = EntriesOf(d, c)
        /\ s1.d.content = d.content
    BY <2>2, SameParts DEF SameButBmap
  <2>4. /\ i \in Reached(s1.d, C) /\ CanPut(s1.d, C, i, node)
        /\ \A j \in Reached(s1.d, C) : b \notin BlocksOf(s1.d, j)
    BY <1>2, <2>1, <2>2, <2>3 DEF CanPut, Kept
  <2>5. /\ Ok(d0, t, C) /\ i \in Reached(t.d, C) /\ CanPut(t.d, C, i, node)
        /\ t.d.bmap = s1.d.bmap /\ t.d.content[b].of = i /\ EntriesOf(t.d, b) = <<>>
        /\ BlocksOf(t.d, i) = BlocksOf(s1.d, i)
    BY <1>2, <2>1, <2>2, <2>4, WriteData
  <2> HIDE DEF t
  <2>6. /\ IsNode(more) /\ more.kind = node.kind /\ more.links = node.links
        /\ \A h \in 1 .. 3 : more.blk[h] = IF h = k THEN b ELSE node.blk[h]
    BY <1>2, <1>7, <2>1 DEF IsNode
  <2> HIDE DEF more
  <2>7. CanPut(t.d, C, i, more)
    <3>1. \A c \in BlocksOf(t.d, i) : \E h \in 1 .. 3 : node.blk[h] = c
      BY <2>5 DEF CanPut
    <3>2. 0 \notin BlocksOf(t.d, i)
      BY DEF BlocksOf
    <3>3. \A c \in BlocksOf(t.d, i) : \E h \in 1 .. 3 : more.blk[h] = c
      BY <1>7, <2>6, <3>1, <3>2
    <3>4. b \in t.d.bmap
      BY <2>2, <2>5
    <3> QED
      BY <2>5, <2>6, <3>3, <3>4 DEF CanPut
  <2>8. DOMAIN r = {"s", "node", "full"} /\ r.s = t /\ r.node = more
    BY <1>2, <1>7 DEF s, node, t, more, s1, b
  <2> QED
    BY <1>2, <2>5, <2>6, <2>7, <2>8 DEF Writing, r
<1>8. b # 0 => b > 0
  <2>1. b # 0 => b \in DataBlocks
    BY <1>3, FreshBlock
  <2>2. \A x \in DataBlocks : x \in Nat /\ x # 0
    BY Layout
  <2> QED
    BY <2>1, <2>2
<1> HIDE DEF b, s1
<1>9. \/ r = a \/ r = [a EXCEPT !.full = TRUE]
      \/ /\ node.blk[k] # 0
         /\ r = [a EXCEPT !.s = PutBlock(s, node.blk[k], FileData(i))]
      \/ /\ node.blk[k] = 0 /\ b # 0
         /\ r = [a EXCEPT !.s = PutBlock(s1, b, FileData(i)), !.node.blk[k] = b]
  BY <1>1, <1>8
<1> QED
  BY <1>4, <1>5, <1>6, <1>7, <1>9 DEF b, s1

LEMMA WriteFileOk ==
    ASSUME NEW d0, NEW s, NEW C, Ok(d0, s, C), NEW i \in Reached(s.d, C), i \notin C,
           NEW lo, NEW hi
    PROVE  Ok(d0, WriteFile(s, i, lo, hi), C)
<1> DEFINE turn(a, k) == IF k \in lo .. hi THEN WriteTurn(a, i, k) ELSE a
           start == [s |-> s, node |-> Inode(s.d, i), full |-> FALSE]
           done == turn(turn(turn(start, 1), 2), 3)
<1>1. WriteFile(s, i, lo, hi) = PutInode(done.s, i, done.node)
  BY DEF WriteFile
<1>2. Writing(d0, start, C, i)
  <2>1. /\ IsDisk(s.d) /\ IsNode(Inode(s.d, i)) /\ Backed(s.d, i)
        /\ Inode(s.d, i).links >= Cardinality(Refs(s.d, C, i))
    BY BlocksAreData DEF Ok, SoundFor
  <2>2. CanPut(s.d, C, i, Inode(s.d, i))
    BY <2>1, BlocksAreData DEF CanPut, Backed
  <2> QED
    BY <2>1, <2>2 DEF Writing
<1> HIDE DEF start
<1>3. ASSUME NEW a, Writing(d0, a, C, i), NEW k \in 1 .. 3 PROVE Writing(d0, turn(a, k), C, i)
  BY <1>3, WriteTurnOk
<1> HIDE DEF turn
<1>4. Writing(d0, done, C, i)
  BY <1>2, <1>3
<1> HIDE DEF done
<1>5. i \in Inodes
  BY BlocksAreData DEF Ok, SoundFor, Backed
<1>6. Ok(d0, PutInode(done.s, i, done.node), C)
  BY <1>4, <1>5, OkPutInode DEF Writing
<1> QED
  BY <1>1, <1>6

-----------------------------------------------------------------------------
(* brfs_create, the call with a transaction.                                *)

\* Once something in use is overwritten, nothing is claimed of what follows.
LEMMA LostSteps ==
    ASSUME NEW d0, NEW s, Lost(d0, s)
    PROVE  /\ \A i, node : Lost(d0, PutInode(s, i, node))
           /\ \A b, data : Lost(d0, PutBlock(s, b, data))
           /\ \A b : Lost(d0, TakeBlock(s, b))
           /\ \A i : Lost(d0, DropInode(s, i))
<1>1. \A e : Lost(d0, Written(s, e))
  <2>1. \A e : \A journal \in BOOLEAN : Lost(d0, Logged(s, e, journal))
    BY LostWrite
  <2> QED
    BY <2>1 DEF Written
<1>2. ASSUME NEW t, Lost(d0, t), NEW n
      PROVE  Lost(d0, CountBlocks(t, n)) /\ Lost(d0, CountInodes(t, n))
  <2>1. DOMAIN t = {"d", "m", "log"}
    BY <1>2 DEF Lost, Proper
  <2>2. SameDisk(t, CountInodes(t, n)) /\ SameDisk(t, CountBlocks(t, n))
    BY <2>1 DEF SameDisk, CountInodes, CountBlocks
  <2> QED
    BY <1>2, <2>2, MemoryOnly
<1>3. ASSUME NEW i, NEW node PROVE Lost(d0, PutInode(s, i, node))
  <2> DEFINE e == [s.d EXCEPT !.inode = Put(@, i, node)]
  <2>1. PutInode(s, i, node) = Written(s, e)
    BY DEF PutInode, Written
  <2> HIDE DEF e
  <2> QED
    BY <1>1, <2>1
<1>4. ASSUME NEW b, NEW data PROVE Lost(d0, PutBlock(s, b, data))
  <2> DEFINE e == [s.d EXCEPT !.content[b] = data]
  <2>1. PutBlock(s, b, data) = Written(s, e)
    BY DEF PutBlock, Written
  <2> HIDE DEF e
  <2> QED
    BY <1>1, <2>1
<1>5. ASSUME NEW b PROVE Lost(d0, TakeBlock(s, b))
  <2> DEFINE e == [s.d EXCEPT !.bmap = @ \cup {b}]
             n == -1
  <2>1. TakeBlock(s, b) = CountBlocks(Written(s, e), n)
    BY DEF TakeBlock, Written
  <2> HIDE DEF e, n
  <2> QED
    BY <1>1, <1>2, <2>1
<1>6. ASSUME NEW i PROVE Lost(d0, DropInode(s, i))
  <2> DEFINE e == [s.d EXCEPT !.imap = @ \ {i}]
  <2>1. DropInode(s, i) = CountInodes(Written(s, e), 1)
    BY DEF DropInode, Written
  <2> HIDE DEF e
  <2> QED
    BY <1>1, <1>2, <2>1
<1> QED
  BY <1>3, <1>4, <1>5, <1>6

LEMMA LostAddEntry ==
    ASSUME NEW d0, NEW s, Lost(d0, s), NEW p, NEW n, NEW i
    PROVE  Lost(d0, AddEntry(s, p, n, i).s)
<1> DEFINE d == s.d
           node == Inode(d, p)
           m == Cut[n]
           usable == {h \in 1 .. 3 : node.blk[h] = 0 \/ FreeSlots(d, node.blk[h]) # {}}
           k == Lowest(usable)
           fresh == FreeBlock(s)
           s1 == TakeBlock(s, fresh)
           s2 == PutBlock(s1, fresh, [of |-> p, entries |-> <<>>])
           node3 == [node EXCEPT !.blk[k] = fresh]
           s3 == PutInode(s2, p, node3)
           added == AddEntry(s, p, n, i)
<1>1. added =
        CASE k = 0                    -> [ok |-> FALSE, s |-> s]
          [] k # 0 /\ node.blk[k] # 0 -> [ok |-> TRUE, s |-> Filled(s, node.blk[k], m, i)]
          [] k # 0 /\ node.blk[k] = 0 /\ fresh = 0 -> [ok |-> FALSE, s |-> s]
          [] OTHER                    -> [ok |-> TRUE, s |-> Filled(s3, fresh, m, i)]
  BY DEF AddEntry, Filled
<1>2. ASSUME NEW t, Lost(d0, t) PROVE \A b : Lost(d0, Filled(t, b, m, i))
  BY <1>2, LostSteps DEF Filled
<1>3. Lost(d0, s1)
  BY LostSteps
<1> HIDE DEF s1
<1>4. Lost(d0, s2)
  BY <1>3, LostSteps
<1> HIDE DEF s2, node3
<1>5. Lost(d0, s3)
  BY <1>4, LostSteps
<1> HIDE DEF s3, added, k, node, fresh
<1>6. added.s = s \/ added.s = Filled(s, node.blk[k], m, i) \/ added.s = Filled(s3, fresh, m, i)
  BY <1>1
<1>7. Lost(d0, added.s)
  BY <1>2, <1>5, <1>6
<1> QED
  BY <1>7 DEF added

\* Records of the journal change fields of a disk, and not the inode bitmap.
LEMMA RecordFields ==
    ASSUME NEW d, NEW j, NEW r, NEW seq, NEW type, NEW blk
    PROVE  LET e == RecordWritten(d, j, r, seq, type, blk)
           IN  DOMAIN e = DOMAIN d /\ e.imap = d.imap
  BY DEF RecordWritten

\* What a session is like before a write of the journal.
Recording(d0, s) == Proper(d0, s) /\ (Clean(d0, s) => Sound(s.d))

LEMMA Records ==
    ASSUME NEW d0, NEW s, Recording(d0, s), NEW r, NEW type, NEW blk
    PROVE  LET t == JournalRecord(s, r, type, blk)
           IN  /\ Recording(d0, t)
               /\ Clean(d0, t) => Clean(d0, s) /\ ~Overwrites(s.d, t.d)
               /\ DOMAIN t.d = DOMAIN s.d /\ t.d.imap = s.d.imap
<1> DEFINE e == RecordWritten(s.d, JournalStart + 1 + s.m.head, r, s.m.seq, type, blk)
           t == JournalRecord(s, r, type, blk)
<1>1. DOMAIN e = DOMAIN s.d /\ e.imap = s.d.imap
  BY RecordFields
<1>2. t = Recorded(s, e)
  BY DEF JournalRecord, Recorded
<1> HIDE DEF e
<1>3. /\ Proper(d0, Recorded(s, e)) /\ Recorded(s, e).d = e
      /\ Clean(d0, Recorded(s, e)) =>
            Clean(d0, s) /\ ~Overwrites(s.d, e) /\ Sound(e)
  BY <1>1, JournalWrite DEF Recording
<1> HIDE DEF t
<1>4. /\ Recording(d0, t) /\ t.d = e
      /\ Clean(d0, t) => Clean(d0, s) /\ ~Overwrites(s.d, e)
  BY <1>2, <1>3 DEF Recording
<1> QED
  BY <1>1, <1>4 DEF t

\* A write of the inode bitmap for the journal, with what changes in memory.
Noted(s, imap, m) == [Logged(s, [s.d EXCEPT !.imap = imap], TRUE) EXCEPT !.m = m]

LEMMA NotedOk ==
    ASSUME NEW d0, NEW s, Recording(d0, s), NEW imap, NEW m
    PROVE  /\ Recording(d0, Noted(s, imap, m))
           /\ Noted(s, imap, m).d = [s.d EXCEPT !.imap = imap] /\ Noted(s, imap, m).m = m
<1> DEFINE e == [s.d EXCEPT !.imap = imap]
           t == Recorded(s, e)
           u == [t EXCEPT !.m = m]
<1>1. DOMAIN e = DOMAIN s.d
  OBVIOUS
<1> HIDE DEF e
<1>2. Proper(d0, t) /\ t.d = e /\ (Clean(d0, t) => Sound(e))
  BY <1>1, JournalWrite DEF Recording
<1> HIDE DEF t
<1>3. DOMAIN t = {"d", "m", "log"}
  BY <1>2 DEF Proper
<1>4. SameDisk(t, u) /\ u.m = m
  BY <1>3 DEF SameDisk
<1> HIDE DEF u
<1>5. Recording(d0, u) /\ u.d = e
  BY <1>2, <1>4, MemoryOnly DEF Recording, SameDisk
<1>6. u = Noted(s, imap, m)
  BY DEF u, t, e, Noted, Recorded
<1> QED
  BY <1>4, <1>5, <1>6 DEF e

LEMMA CommitOk ==
    ASSUME NEW d0, NEW s, Recording(d0, s)
    PROVE  Proper(d0, Commit(s))
<1> DEFINE r == JournalRecord(s, 1, CommitRecord, 0)
           m == [r.m EXCEPT !.head = (@ + 1) % JournalRing, !.seq = @ + 1]
           words == SuperblockWords(r.d.imap, m)
<1>1. Recording(d0, r)
  BY Records
<1>2. Commit(s) = Noted(r, words, m)
  BY DEF Commit, Noted
<1> HIDE DEF r, m, words
<1>3. Recording(d0, Noted(r, words, m))
  BY <1>1, NotedOk
<1> QED
  BY <1>2, <1>3 DEF Recording

\* A new file, that has an inode and no name yet.
LEMMA NewFileOk ==
    ASSUME NEW d0, NEW s, NEW C, Ok(d0, s, C), NEW i \in Inodes,
           i \notin Reached(s.d, C), i \in s.d.imap
    PROVE  LET t == PutInode(s, i, Node("reg", 1, 0))
           IN  /\ Ok(d0, t, C) /\ Ready(t.d, C, i) /\ Grown(t.d, C, i) = C
               /\ i \notin Reached(t.d, C) /\ Kept(s.d, t.d, C)
<1> DEFINE node == Node("reg", 1, 0)
           t == PutInode(s, i, node)
<1>1. /\ node.kind = "reg" /\ node.links = 1 /\ IsNode(node)
      /\ {node.blk[k] : k \in 1 .. 3} \ {0} = {}
  <2>1. node = [kind |-> "reg", links |-> 1, blk |-> <<0, 0, 0>>]
    BY DEF Node
  <2>2. /\ <<0, 0, 0>>[1] = 0 /\ <<0, 0, 0>>[2] = 0 /\ <<0, 0, 0>>[3] = 0
        /\ DOMAIN <<0, 0, 0>> = 1 .. 3
    OBVIOUS
  <2> QED
    BY <2>1, <2>2 DEF IsNode, Kinds
<1> HIDE DEF node
<1>2. CanPut(s.d, C, i, node)
  BY DEF CanPut
<1>3. /\ Ok(d0, t, C) /\ Kept(s.d, t.d, C)
      /\ t.d = [s.d EXCEPT !.inode = Put(@, i, node)]
  BY <1>1, <1>2, OkPutInode
<1> HIDE DEF t
<1>4. IsDisk(s.d)
  BY DEF Ok, SoundFor
<1>5. IsDisk(t.d) /\ t.d.imap = s.d.imap /\ Inode(t.d, i) = node /\ BlocksOf(t.d, i) = {}
  BY <1>1, <1>3, <1>4, PutNode
<1>6. i \notin Reached(t.d, C)
  BY <1>3 DEF Kept
<1>7. Backed(t.d, i)
  BY <1>1, <1>5 DEF Backed
<1>8. Inode(t.d, i).links >= Cardinality(Refs(t.d, C, i)) + 1
  BY <1>1, <1>5, <1>6, Unnamed
<1>9. Ready(t.d, C, i) /\ Grown(t.d, C, i) = C
  BY <1>1, <1>5, <1>7, <1>8 DEF Ready, Grown
<1> QED
  BY <1>3, <1>6, <1>9 DEF t, node

LEMMA CreateOk ==
    ASSUME NEW d0, NEW s, NEW C, Ok(d0, s, C), NEW p \in C, NEW n \in Names
    PROVE  Proper(d0, Create(s, p, n))
<1> DEFINE i == FreeInode(s)
           s1 == TakeInode(s, i)
           blk == InodeTable + i \div InodesPerBlock
           logged == JournalRecord(s1, 0, BlockRecord, blk)
           node == Node("reg", 1, 0)
           s3 == PutInode(logged, i, node)
           added == AddEntry(s3, p, n, i)
           there == Lookup(s.d, p, n)
           all == Create(s, p, n)
<1>1. all = CASE there > 0 \/ i = 0 -> s
              [] there = 0 /\ i > 0 /\ added.ok -> Commit(added.s)
              [] OTHER -> DropInode(added.s, i)
  BY DEF Create
<1>2. SoundFor(s.d, C)
  BY DEF Ok
<1>3. there \in Nat
  BY <1>2, LookupType
<1>4. i # 0 => i \in Inodes /\ i \notin Reached(s.d, C)
  BY <1>2, FreshInode
<1> HIDE DEF i
<1>5. i # 0 => i > 0
  <2>1. \A x \in Inodes : x \in Nat /\ x # 0
    BY Layout
  <2> QED
    BY <1>4, <2>1
<1>6. CASE there > 0 \/ i = 0
  <2> HIDE DEF all, there, added
  <2>1. all = s
    BY <1>1, <1>6
  <2> QED
    BY <2>1 DEF all, Ok
<1>7. CASE there = 0 /\ i # 0
  <2>1. /\ Ok(d0, s1, C) /\ Kept(s.d, s1.d, C) /\ s1.d.imap = s.d.imap \cup {i}
    BY OkTakeInode
  <2> HIDE DEF s1, blk
  <2>2. Recording(d0, s1)
    BY <2>1, SoundShrinks DEF Recording, Ok
  <2>3. /\ Recording(d0, logged)
        /\ Clean(d0, logged) => Clean(d0, s1) /\ ~Overwrites(s1.d, logged.d)
        /\ DOMAIN logged.d = DOMAIN s1.d /\ logged.d.imap = s1.d.imap
    BY <2>2, Records
  <2> HIDE DEF logged
  <2>4. CASE Clean(d0, logged)
    <3>1. Ok(d0, logged, C) /\ Kept(s1.d, logged.d, C)
      BY <2>1, <2>3, <2>4, NotOverwritten DEF Ok, Recording
    <3>2. i \in logged.d.imap /\ i \notin Reached(logged.d, C)
      BY <1>4, <1>7, <2>1, <2>3, <3>1 DEF Kept
    <3>3. /\ Ok(d0, s3, C) /\ Ready(s3.d, C, i) /\ Grown(s3.d, C, i) = C
          /\ i \notin Reached(s3.d, C) /\ Kept(logged.d, s3.d, C)
      BY <1>4, <1>7, <3>1, <3>2, NewFileOk
    <3>4. Vacant(s3.d, p, Cut[n])
      BY <1>2, <1>7, <2>1, <3>1, <3>3, LookupVacant DEF Kept, Vacant
    <3> HIDE DEF s3
    <3>5. Added(d0, added, s3, C)
      <4> DEFINE G == Grown(s3.d, C, i)
      <4>1. Added(d0, added, s3, G)
        BY <3>3, <3>4, AddEntryOk
      <4> HIDE DEF G
      <4> QED
        BY <3>3, <4>1 DEF G
    <3> HIDE DEF added, all, there
    <3>6. CASE added.ok = TRUE /\ Ok(d0, added.s, C)
      <4>1. all = Commit(added.s)
        BY <1>1, <1>3, <1>5, <1>7, <3>6
      <4>2. Recording(d0, added.s)
        BY <3>6, SoundShrinks DEF Recording, Ok
      <4> QED
        BY <4>1, <4>2, CommitOk DEF all
    <3>7. CASE added.ok = FALSE /\ added.s = s3
      <4>1. all = DropInode(s3, i)
        BY <1>1, <1>3, <1>5, <1>7, <3>7
      <4>2. Ok(d0, DropInode(s3, i), C)
        BY <3>3, OkDropInode
      <4> QED
        BY <4>1, <4>2 DEF all, Ok
    <3> QED
      BY <3>5, <3>6, <3>7 DEF Added
  <2>5. CASE ~Clean(d0, logged)
    <3>1. Lost(d0, logged)
      BY <2>3, <2>5 DEF Lost, Recording
    <3> HIDE DEF node
    <3>2. Lost(d0, s3)
      BY <3>1, LostSteps
    <3> HIDE DEF s3
    <3>3. Lost(d0, added.s)
      BY <3>2, LostAddEntry
    <3> HIDE DEF added, all, there
    <3>4. Proper(d0, Commit(added.s))
      BY <3>3, CommitOk DEF Recording, Lost
    <3>5. Proper(d0, DropInode(added.s, i))
      BY <3>3, LostSteps DEF Lost
    <3>6. all = Commit(added.s) \/ all = DropInode(added.s, i)
      BY <1>1, <1>3, <1>5, <1>7
    <3> QED
      BY <3>4, <3>5, <3>6 DEF all
  <2> QED
    BY <2>4, <2>5
<1> QED
  BY <1>3, <1>6, <1>7

-----------------------------------------------------------------------------
(* Mounting and unmounting.                                                 *)

LEMMA NoLog == \A d0 : SafeLog(d0, <<>>) /\ Len(<<>>) = 0 /\ CleanTo(d0, <<>>, 0)
<1>1. <<>> \in Seq({}) /\ Len(<<>>) = 0
  OBVIOUS
<1>2. 1 .. 0 = {}
  OBVIOUS
<1>3. IsLog(<<>>)
  BY <1>1 DEF IsLog
<1> QED
  BY <1>1, <1>2, <1>3 DEF SafeLog, CleanTo

\* Every call starts with nothing written.
LEMMA SessionOk ==
    ASSUME NEW d, NEW C, SoundFor(d, C), NEW m
    PROVE  Ok(d, Session(d, m), C) /\ Session(d, m).d = d
<1> DEFINE s == Session(d, m)
<1>1. DOMAIN s = {"d", "m", "log"} /\ s.d = d /\ s.log = <<>>
  BY DEF Session
<1> HIDE DEF s
<1>2. Proper(d, s) /\ Clean(d, s)
  BY <1>1, NoLog DEF Proper, Clean
<1> QED
  BY <1>1, <1>2 DEF Ok, s

LEMMA OkLeast ==
    ASSUME NEW d0, NEW s, NEW C, Ok(d0, s, C)
    PROVE  /\ Ok(d0, s, Directories(s.d)) /\ Recording(d0, s)
           /\ Directories(s.d) \subseteq C /\ Named(s.d) \subseteq Reached(s.d, C)
<1>1. SoundFor(s.d, C)
  BY DEF Ok
<1>2. Sound(s.d) /\ Reached(s.d, Directories(s.d)) = Named(s.d)
  BY <1>1, SoundShrinks
<1>3. Directories(s.d) \subseteq C
  BY <1>1, DirectoriesLeast DEF SoundFor, Closed
<1>4. Named(s.d) \subseteq Reached(s.d, C)
  BY <1>2, <1>3 DEF Reached, Below
<1> QED
  BY <1>2, <1>3, <1>4 DEF Ok, Recording, Sound

LEMMA MemoryChange ==
    ASSUME NEW d0, NEW s, Recording(d0, s), NEW t, SameDisk(s, t)
    PROVE  Recording(d0, t) /\ (Clean(d0, s) => Clean(d0, t)) /\ t.d = s.d
  BY MemoryOnly DEF Recording, SameDisk

LEMMA RecoverOk ==
    ASSUME NEW d0, NEW s, Recording(d0, s), DOMAIN s = {"d", "m", "log"}
    PROVE  /\ Recording(d0, Recover(s))
           /\ (Clean(d0, s) /\ ~Overwrites(s.d, [s.d EXCEPT !.imap = Bits(JournalMagic, 0) \cup Bits(1, 32)]))
                 => Clean(d0, Recover(s))
<1> DEFINE head == WordAt(s.d.imap, 64)
           tail == WordAt(s.d.imap, 96)
           magic == WordAt(s.d.imap, 0)
           seq == WordAt(s.d.imap, 32)
           hd == IF head = tail THEN head ELSE 0
           tl == IF head = tail THEN tail ELSE 0
           e == [s.d EXCEPT !.imap = Bits(JournalMagic, 0) \cup Bits(1, 32)]
           t == Recorded(s, e)
           r == Recover(s)
<1>1. r = IF magic = JournalMagic
          THEN [s EXCEPT !.m.seq = seq, !.m.head = hd, !.m.tail = tl]
          ELSE [t EXCEPT !.m.seq = 1, !.m.head = 0, !.m.tail = 0]
  BY DEF Recover, Recorded
<1>2. DOMAIN e = DOMAIN s.d
  OBVIOUS
<1> HIDE DEF e
<1>3. Proper(d0, t) /\ t.d = e /\ (Clean(d0, t) => Sound(e))
  BY <1>2, JournalWrite DEF Recording
<1>4. Clean(d0, s) /\ ~Overwrites(s.d, e) => Clean(d0, t)
  <2>1. \A journal \in BOOLEAN : (Clean(d0, s) /\ ~Overwrites(s.d, e)) => Clean(d0, Logged(s, e, journal))
    <3>1. (Clean(d0, s) /\ ~Overwrites(s.d, e)) => Sound(e) /\ Step(s.d, e)
      BY <1>2, NotOverwritten DEF Recording, Sound
    <3>2. SUFFICES ASSUME NEW journal \in BOOLEAN, Clean(d0, s), ~Overwrites(s.d, e)
                   PROVE  Clean(d0, Logged(s, e, journal))
      OBVIOUS
    <3> QED
      BY <3>1, <3>2, LogOne DEF Recording
  <2> QED
    BY <2>1 DEF Recorded
<1> HIDE DEF t, magic, seq, hd, tl
<1>5. DOMAIN t = {"d", "m", "log"}
  BY <1>3 DEF Proper
<1>6. CASE magic = JournalMagic
  <2>1. r = [s EXCEPT !.m.seq = seq, !.m.head = hd, !.m.tail = tl]
    BY <1>1, <1>6
  <2> HIDE DEF r
  <2>2. SameDisk(s, r)
    BY <2>1 DEF SameDisk
  <2> QED
    BY <2>2, MemoryChange DEF r
<1>7. CASE magic # JournalMagic
  <2>1. r = [t EXCEPT !.m.seq = 1, !.m.head = 0, !.m.tail = 0]
    BY <1>1, <1>7
  <2> HIDE DEF r
  <2>2. SameDisk(t, r)
    BY <1>5, <2>1 DEF SameDisk
  <2>3. Recording(d0, t)
    BY <1>3 DEF Recording
  <2>4. Recording(d0, r) /\ (Clean(d0, t) => Clean(d0, r))
    BY <2>2, <2>3, MemoryChange
  <2> QED
    BY <1>4, <2>4 DEF r, e
<1> QED
  BY <1>6, <1>7

LEMMA MountOk ==
    ASSUME NEW d, Sound(d)
    PROVE  /\ Recording(d, MountSession(d))
           /\ ~Overwrites(d, [d EXCEPT !.imap = Bits(JournalMagic, 0) \cup Bits(1, 32)])
                 => Clean(d, MountSession(d))
<1> DEFINE m == [Unmounted EXCEPT !.mounted = TRUE, !.freeB = d.freeB, !.freeI = d.freeI]
           s == Session(d, m)
<1>1. MountSession(d) = Recover(s)
  BY DEF MountSession
<1> HIDE DEF m
<1>2. Ok(d, s, Directories(d)) /\ s.d = d
  BY SessionOk DEF Sound
<1> HIDE DEF s
<1>3. Recording(d, s) /\ Clean(d, s) /\ DOMAIN s = {"d", "m", "log"}
  BY <1>2, OkLeast DEF Ok, Proper
<1>4. /\ Recording(d, Recover(s))
      /\ (Clean(d, s) /\ ~Overwrites(s.d, [s.d EXCEPT !.imap = Bits(JournalMagic, 0) \cup Bits(1, 32)]))
                 => Clean(d, Recover(s))
  BY <1>3, RecoverOk
<1> QED
  BY <1>1, <1>2, <1>3, <1>4

LEMMA UnmountOk ==
    ASSUME NEW d0, NEW s, Recording(d0, s)
    PROVE  Proper(d0, UnmountSession(s))
<1> DEFINE words == WithWord(s.d.imap, 96, s.m.head)
           t == Recorded(s, [s.d EXCEPT !.imap = words])
           c == Checkpoint(s)
           e == [c.d EXCEPT !.freeB = s.m.freeB, !.freeI = s.m.freeI]
           u == Written(c, e)
           r == UnmountSession(s)
<1>1. c = [t EXCEPT !.m.tail = s.m.head]
  BY DEF Checkpoint, Recorded
<1>2. r = [u EXCEPT !.m = Unmounted]
  BY DEF UnmountSession, Written
<1> HIDE DEF words
<1>3. Recording(d0, t)
  <2> DEFINE f == [s.d EXCEPT !.imap = words]
  <2>1. DOMAIN f = DOMAIN s.d
    OBVIOUS
  <2> HIDE DEF f
  <2>2. Recording(d0, Recorded(s, f))
    BY <2>1, JournalWrite DEF Recording
  <2> QED
    BY <2>2 DEF f
<1> HIDE DEF t, c
<1>4. SameDisk(t, c)
  BY <1>1, <1>3 DEF Recording, Proper, SameDisk
<1>5. Recording(d0, c)
  BY <1>3, <1>4, MemoryChange
<1>6. DOMAIN e = DOMAIN c.d /\ e.imap = c.d.imap /\ e.bmap = c.d.bmap
      /\ e.inode = c.d.inode /\ e.content = c.d.content
  OBVIOUS
<1> HIDE DEF e
<1>7. Clean(d0, c) => Sound(e) /\ Step(c.d, e)
  <2>1. SUFFICES ASSUME Clean(d0, c) PROVE Sound(e) /\ Step(c.d, e)
    OBVIOUS
  <2> DEFINE D == Directories(c.d)
  <2>2. SoundFor(c.d, D)
    BY <1>5, <2>1 DEF Recording, Sound
  <2> HIDE DEF D
  <2>3. Reached(c.d, D) \subseteq c.d.imap /\ \A i \in Reached(c.d, D) : BlocksOf(c.d, i) \subseteq c.d.bmap
    BY <2>2 DEF SoundFor, Backed
  <2>4. SoundFor(e, D) /\ Kept(c.d, e, D)
    BY <1>6, <2>2, <2>3, FrameMaps
  <2> QED
    BY <2>4, SoundShrinks DEF Kept, Step
<1>8. Proper(d0, u)
  <2>1. \A journal \in BOOLEAN : ~journal => Proper(d0, Logged(c, e, journal))
    <3>1. SUFFICES ASSUME NEW journal \in BOOLEAN, ~journal PROVE Proper(d0, Logged(c, e, journal))
      OBVIOUS
    <3> QED
      BY <1>5, <1>7, <3>1, LogOne DEF Recording
  <2> QED
    BY <2>1 DEF Written
<1> HIDE DEF u, r
<1>9. SameDisk(u, r)
  BY <1>2, <1>8 DEF SameDisk, Proper
<1> QED
  BY <1>8, <1>9, MemoryOnly DEF r

-----------------------------------------------------------------------------
(* The disks to start from.                                                 *)

LEMMA FormattedSound ==
    SoundFor(Formatted, {Root}) /\ Reached(Formatted, {Root}) = {Root}
<1> DEFINE d == Formatted
           data == NewDirData(Root, Root)
<1>1. /\ DOMAIN d = {"imap", "bmap", "inode", "content", "freeB", "freeI"}
      /\ d.imap = {0, Root} /\ d.bmap = 0 .. FirstData
      /\ DOMAIN d.inode = {Root} /\ d.inode[Root] = Node("dir", 2, FirstData)
      /\ DOMAIN d.content = DataBlocks
      /\ \A b \in DataBlocks : d.content[b] = IF b = FirstData THEN data ELSE NoData
  BY DEF Formatted
<1>2. /\ FirstData \in DataBlocks /\ FirstData \in 0 .. FirstData /\ FirstData # 0
      /\ Root \in Inodes /\ DataBlocks \in SUBSET Nat
  <2>1. FirstData \in Nat \ {0}
    BY Layout
  <2> QED
    BY <2>1, Layout
<1>3. /\ IsNode(Node("dir", 2, FirstData)) /\ Node("dir", 2, FirstData).kind = "dir"
      /\ {Node("dir", 2, FirstData).blk[k] : k \in 1 .. 3} \ {0} = {FirstData}
  <2>1. "dir" \in {"dir", "lnk"} /\ FirstNode("dir", FirstData) = Node("dir", 2, FirstData)
    BY DEF FirstNode
  <2> QED
    BY <1>2, <2>1, FirstParts
<1>4. /\ IsData(data) /\ data.of = Root
      /\ \A k \in DOMAIN data.entries : data.entries[k].name \notin Names
  <2>1. "dir" \in {"dir", "lnk"} /\ FirstContents("dir", Root, Root) = data
    BY DEF FirstContents
  <2> HIDE DEF data
  <2> QED
    BY <1>2, <2>1, FirstParts
<1>5. IsData(NoData)
  <2>1. NoData = [of |-> 0, entries |-> <<>>] /\ DOMAIN <<>> = {}
    BY DEF NoData
  <2> QED
    BY <2>1 DEF IsData
<1> HIDE DEF d, data
<1>6. IsDisk(d)
  BY <1>1, <1>2, <1>3, <1>4, <1>5 DEF IsDisk
<1>7. Inode(d, Root) = Node("dir", 2, FirstData) /\ BlocksOf(d, Root) = {FirstData}
  BY <1>1, <1>3 DEF Inode, BlocksOf
<1>8. \A i : ~Leads(d, Root, i)
  BY <1>1, <1>2, <1>4, <1>7 DEF Leads, NamesAt, EntriesOf
<1>9. Reached(d, {Root}) = {Root}
  BY <1>6, <1>8, Leading
<1>10. Closed(d, {Root})
  BY <1>8 DEF Closed
<1>11. Backed(d, Root)
  BY <1>1, <1>2, <1>3, <1>4, <1>7 DEF Backed
<1> QED
  BY <1>3, <1>6, <1>7, <1>9, <1>10, <1>11 DEF SoundFor, d

\* The magic number sets the bit of the root inode.
LEMMA MagicBit == 1 \in Bits(JournalMagic, 0)
<1>1. 2 ^ 1 = 2
  BY SMT
<1>2. (JournalMagic \div 2) % 2 = 1
  BY SMT DEF JournalMagic
<1>3. 1 \in {j \in 0 .. 30 : (JournalMagic \div 2^j) % 2 = 1}
  BY <1>1, <1>2
<1>4. 0 + 1 = 1
  OBVIOUS
<1> QED
  BY <1>3, <1>4 DEF Bits

LEMMA FormattedKept ==
    ~Overwrites(Formatted, [Formatted EXCEPT !.imap = Bits(JournalMagic, 0) \cup Bits(1, 32)])
<1> DEFINE new == Bits(JournalMagic, 0) \cup Bits(1, 32)
           e == [Formatted EXCEPT !.imap = new]
<1>1. 1 \in new
  BY MagicBit
<1>2. Named(Formatted) \subseteq {Root}
  <2>1. Ok(Formatted, Session(Formatted, Unmounted), {Root})
        /\ Session(Formatted, Unmounted).d = Formatted
    BY FormattedSound, SessionOk
  <2> DEFINE s == Session(Formatted, Unmounted)
  <2> HIDE DEF s
  <2>2. Ok(Formatted, s, {Root}) /\ s.d = Formatted
    BY <2>1 DEF s
  <2>3. Named(s.d) \subseteq Reached(s.d, {Root})
    BY <2>2, OkLeast
  <2> QED
    BY <2>2, <2>3, FormattedSound
<1> HIDE DEF new
<1>3. /\ e.bmap = Formatted.bmap /\ e.inode = Formatted.inode
      /\ e.content = Formatted.content /\ e.imap = new
  BY DEF Formatted
<1> HIDE DEF e
<1>4. ~Overwrites(Formatted, e)
  BY <1>1, <1>2, <1>3 DEF Overwrites, Root
<1> QED
  BY <1>4 DEF e, new

\* A disk made on a formatted device by calls that overwrote nothing.
LEMMA WithDirectoryOk ==
    ASSUME NEW a \in Names
    PROVE  \E G : Ok(Formatted, WithDirectory(a), G)
<1> DEFINE s == MountSession(Formatted)
           C == Directories(s.d)
<1>1. Sound(Formatted)
  BY FormattedSound, SoundShrinks
<1>2. Recording(Formatted, s) /\ Clean(Formatted, s)
  BY <1>1, FormattedKept, MountOk
<1> HIDE DEF s
<1>3. Ok(Formatted, s, C)
  BY <1>2 DEF Ok, Recording, Sound
<1>4. Root \in C
  BY <1>3 DEF Ok, SoundFor, Closed
<1> HIDE DEF C
<1>5. \E G : C \subseteq G /\ Ok(Formatted, Mkdir(s, Root, a), G)
  BY <1>3, <1>4, MkdirOk
<1> QED
  BY <1>5 DEF WithDirectory, s

LEMMA WithFileOk ==
    ASSUME NEW d0, NEW s, NEW C, Ok(d0, s, C), NEW dir \in C, NEW n \in Names
    PROVE  \E G : C \subseteq G /\ Ok(d0, WithFile(s, dir, n), G)
<1> DEFINE t == Symlink(s, dir, n)
           i == Lookup(t.d, dir, n)
           r == WithFile(s, dir, n)
<1>1. r = IF Writable(t.d, i) THEN WriteFile(t, i, 1, 3) ELSE t
  BY DEF WithFile
<1>2. PICK G : C \subseteq G /\ Ok(d0, t, G)
  <2>1. "lnk" \in {"dir", "lnk"}
    OBVIOUS
  <2>2. \E G : C \subseteq G /\ Ok(d0, MakeWithBlock(s, dir, n, "lnk").s, G)
    BY <2>1, MakeOk
  <2> QED
    BY <2>2 DEF Symlink
<1> HIDE DEF t, i, r
<1>3. CASE Writable(t.d, i)
  <2>1. i \in Reached(t.d, G) /\ i \notin G
    BY <1>2, <1>3, OkLeast DEF Writable, Ok, SoundFor
  <2>2. Ok(d0, WriteFile(t, i, 1, 3), G)
    BY <1>2, <2>1, WriteFileOk
  <2> QED
    BY <1>1, <1>2, <1>3, <2>2 DEF r
<1>4. CASE ~Writable(t.d, i)
  BY <1>1, <1>2, <1>4 DEF r
<1> QED
  BY <1>3, <1>4

LEMMA NearlyFullSound ==
    ASSUME InitNearlyFull
    PROVE  Sound(disk)
<1>1. PICK a \in Names, b \in Names, c \in Names :
          \E dir \in Directories(WithDirectory(a).d) \ {Root} :
              disk = WithFile(WithFile(WithDirectory(a), dir, b), dir, c).d
  BY CallsAssumption DEF InitNearlyFull
<1>2. PICK dir \in Directories(WithDirectory(a).d) \ {Root} :
              disk = WithFile(WithFile(WithDirectory(a), dir, b), dir, c).d
  BY <1>1
<1> DEFINE s == WithDirectory(a)
           d0 == Formatted
<1>3. PICK G : Ok(d0, s, G)
  BY WithDirectoryOk
<1> HIDE DEF s, d0
<1>4. dir \in G
  BY <1>3, OkLeast DEF s
<1>5. PICK H : G \subseteq H /\ Ok(d0, WithFile(s, dir, b), H)
  BY <1>3, <1>4, WithFileOk
<1> DEFINE t == WithFile(s, dir, b)
<1> HIDE DEF t
<1>6. Ok(d0, t, H) /\ dir \in H
  BY <1>4, <1>5 DEF t
<1>7. PICK K : H \subseteq K /\ Ok(d0, WithFile(t, dir, c), K)
  BY <1>6, WithFileOk
<1>8. disk = WithFile(t, dir, c).d
  BY <1>2 DEF t, s
<1> QED
  BY <1>7, <1>8, SoundShrinks DEF Ok

-----------------------------------------------------------------------------
(* Every behaviour.                                                         *)

\* The invariant: the disk is sound, and so is every disk the call in progress
\* still has to write, up to the first write of the journal that overwrites
\* something in use; each of these changes the names by one step.  A crash can
\* leave any of them.
Consistent == intact => Sound(disk) /\ SafeLog(disk, todo)

LEMMA InitConsistent == Init => Consistent
<1> SUFFICES ASSUME Init PROVE Sound(disk) /\ SafeLog(disk, todo)
  BY DEF Consistent
<1>1. Sound(disk)
  <2>1. CASE disk = Formatted
    BY <2>1, FormattedSound, SoundShrinks
  <2>2. CASE InitNearlyFull
    BY <2>2, NearlyFullSound
  <2> QED
    BY <2>1, <2>2 DEF Init
<1>2. todo = <<>>
  BY DEF Init
<1> QED
  BY <1>1, <1>2, NoLog

\* The log without its first block, on the disk that block leaves.
LEMMA LogTail ==
    ASSUME NEW d0, NEW l, IsLog(l), l # <<>>,
           ~(Head(l).journal /\ Overwrites(d0, Head(l).disk))
    PROVE  /\ IsLog(Tail(l)) /\ l[1] = Head(l)
           /\ Len(l) \in Nat \ {0} /\ Len(Tail(l)) = Len(l) - 1
           /\ \A n \in 1 .. Len(Tail(l)) :
                 /\ Tail(l)[n] = l[n + 1]
                 /\ Before(Head(l).disk, Tail(l), n) = Before(d0, l, n + 1)
           /\ \A n \in 0 .. Len(Tail(l)) :
                 CleanTo(Head(l).disk, Tail(l), n) => CleanTo(d0, l, n + 1)
<1> DEFINE x == Head(l)
           r == Tail(l)
<1>1. PICK S : l \in Seq(S)
  BY DEF IsLog
<1>2. /\ r \in Seq(S) /\ Len(l) \in Nat /\ Len(r) = Len(l) - 1 /\ Len(l) > 0
      /\ l[1] = x /\ \A k \in 1 .. Len(r) : r[k] = l[k + 1]
  BY <1>1
<1> HIDE DEF x, r
<1>3. l[1].journal => ~Overwrites(Before(d0, l, 1), l[1].disk)
  BY <1>2 DEF Before, x
<1>4. ASSUME NEW j \in 1 .. Len(r) PROVE Before(x.disk, r, j) = Before(d0, l, j + 1)
  <2>1. j + 1 # 1 /\ (j + 1) - 1 = j
    BY <1>2
  <2>2. CASE j = 1
    BY <1>2, <2>1, <2>2 DEF Before
  <2>3. CASE j # 1
    <3>1. j - 1 \in 1 .. Len(r) /\ (j - 1) + 1 = j
      BY <1>2, <2>1, <2>3
    <3> QED
      BY <1>2, <2>1, <2>3, <3>1 DEF Before
  <2> QED
    BY <2>2, <2>3
<1>5. ASSUME NEW n \in 0 .. Len(r), CleanTo(x.disk, r, n)
      PROVE  CleanTo(d0, l, n + 1)
  <2>1. ASSUME NEW k \in 1 .. (n + 1), k # 1, l[k].journal
        PROVE  ~Overwrites(Before(d0, l, k), l[k].disk)
    <3> DEFINE j == k - 1
    <3>1. j \in 1 .. n /\ j \in 1 .. Len(r) /\ j + 1 = k
      BY <1>2, <2>1
    <3> HIDE DEF j
    <3>2. r[j] = l[k] /\ Before(x.disk, r, j) = Before(d0, l, k)
      BY <1>2, <1>4, <3>1
    <3> QED
      BY <1>5, <2>1, <3>1, <3>2 DEF CleanTo
  <2> QED
    BY <1>3, <2>1 DEF CleanTo
<1>6. IsLog(r)
  BY <1>2 DEF IsLog
<1> QED
  BY <1>2, <1>4, <1>5, <1>6 DEF x, r

\* The block written leaves a sound disk, and the rest of the log is safe on it.
LEMMA LogRest ==
    ASSUME NEW d0, NEW l, SafeLog(d0, l), l # <<>>,
           ~(Head(l).journal /\ Overwrites(d0, Head(l).disk))
    PROVE  /\ Sound(Head(l).disk) /\ Step(d0, Head(l).disk)
           /\ SafeLog(Head(l).disk, Tail(l))
<1> DEFINE x == Head(l)
           r == Tail(l)
<1>1. \A n \in 1 .. Len(l) :
          CleanTo(d0, l, n) => Sound(l[n].disk) /\ Step(Before(d0, l, n), l[n].disk)
  BY DEF SafeLog
<1>2. /\ IsLog(r) /\ l[1] = x /\ Len(l) \in Nat \ {0} /\ Len(r) = Len(l) - 1
      /\ \A n \in 1 .. Len(r) : r[n] = l[n + 1] /\ Before(x.disk, r, n) = Before(d0, l, n + 1)
      /\ \A n \in 0 .. Len(r) : CleanTo(x.disk, r, n) => CleanTo(d0, l, n + 1)
  BY LogTail DEF SafeLog
<1> HIDE DEF x, r
<1>3. Sound(x.disk) /\ Step(d0, x.disk)
  <2>1. 0 \in 0 .. Len(r) /\ 0 + 1 = 1 /\ 1 \in 1 .. Len(l) /\ Before(d0, l, 1) = d0
    BY <1>2 DEF Before
  <2>2. CleanTo(x.disk, r, 0)
    BY DEF CleanTo
  <2>3. CleanTo(d0, l, 1)
    BY <1>2, <2>1, <2>2
  <2> QED
    BY <1>1, <1>2, <2>1, <2>3
<1>4. ASSUME NEW n \in 1 .. Len(r), CleanTo(x.disk, r, n)
      PROVE  Sound(r[n].disk) /\ Step(Before(x.disk, r, n), r[n].disk)
  <2>1. n + 1 \in 1 .. Len(l) /\ n \in 0 .. Len(r)
    BY <1>2
  <2>2. CleanTo(d0, l, n + 1)
    BY <1>2, <1>4, <2>1
  <2> QED
    BY <1>1, <1>2, <2>1, <2>2
<1> QED
  BY <1>2, <1>3, <1>4 DEF SafeLog, x, r

\* A call made on a sound disk.
LEMMA CallConsistent ==
    ASSUME Consistent, NEW s, Do(s), intact => Proper(disk, s)
    PROVE  Consistent'
<1>1. todo' = s.log /\ UNCHANGED <<disk, intact>>
  BY DEF Do
<1>2. intact => Sound(disk) /\ SafeLog(disk, s.log)
  BY DEF Consistent, Proper
<1> QED
  BY <1>1, <1>2 DEF Consistent

LEMMA NowOk ==
    ASSUME Consistent, intact
    PROVE  /\ Ok(disk, Now, Directories(disk)) /\ Now.d = disk
           /\ Recording(disk, Now)
           /\ Named(disk) = Reached(disk, Directories(disk))
<1>1. SoundFor(disk, Directories(disk))
  BY DEF Consistent, Sound
<1>2. Ok(disk, Now, Directories(disk)) /\ Now.d = disk
  BY <1>1, SessionOk DEF Now
<1>3. Named(disk) = Reached(disk, Directories(disk))
  BY <1>1, SoundShrinks
<1> HIDE DEF Now
<1> QED
  BY <1>2, <1>3, OkLeast

LEMMA NextConsistent == Consistent /\ [Next]_vars => Consistent'
<1> SUFFICES ASSUME Consistent, [Next]_vars PROVE Consistent'
  OBVIOUS
<1> DEFINE C == Directories(disk)
<1>1. intact => /\ Ok(disk, Now, C) /\ Now.d = disk /\ Recording(disk, Now)
                /\ Named(disk) = Reached(disk, C)
  BY NowOk
<1> HIDE DEF C
<1>2. ASSUME NEW p \in C, NEW n \in Names, intact
      PROVE  /\ Proper(disk, Create(Now, p, n)) /\ Proper(disk, Mkdir(Now, p, n))
             /\ Proper(disk, Symlink(Now, p, n)) /\ Proper(disk, Unlink(Now, p, n))
             /\ \A i \in Named(disk) : Proper(disk, Link(Now, p, n, i))
  <2>1. Ok(disk, Now, C)
    BY <1>1, <1>2
  <2>2. Proper(disk, Create(Now, p, n))
    BY <2>1, CreateOk
  <2>3. Proper(disk, Mkdir(Now, p, n))
    BY <2>1, MkdirOk DEF Ok
  <2>4. Proper(disk, Symlink(Now, p, n))
    <3>1. "lnk" \in {"dir", "lnk"}
      OBVIOUS
    <3> QED
      BY <2>1, <3>1, MakeOk DEF Ok, Symlink
  <2>5. Proper(disk, Unlink(Now, p, n))
    BY <2>1, UnlinkOk DEF Ok
  <2>6. ASSUME NEW i \in Named(disk) PROVE Proper(disk, Link(Now, p, n, i))
    <3>1. i \in Reached(Now.d, C)
      BY <1>1, <1>2
    <3> QED
      BY <2>1, <3>1, LinkOk DEF Ok
  <2> QED
    BY <2>2, <2>3, <2>4, <2>5, <2>6
<1>3. CASE Creates
  BY <1>2, <1>3, CallConsistent DEF Creates, C
<1>4. CASE Mkdirs
  BY <1>2, <1>4, CallConsistent DEF Mkdirs, C
<1>5. CASE Symlinks
  BY <1>2, <1>5, CallConsistent DEF Symlinks, C
<1>6. CASE Links
  BY <1>2, <1>6, CallConsistent DEF Links, C
<1>7. CASE Unlinks
  BY <1>2, <1>7, CallConsistent DEF Unlinks, C
<1>8. CASE Writes
  <2>1. PICK i \in Named(disk), e \in Extents :
            Writable(disk, i) /\ Do(WriteFile(Now, i, e[1], e[2]))
    BY <1>8 DEF Writes
  <2>2. ASSUME intact PROVE Proper(disk, WriteFile(Now, i, e[1], e[2]))
    <3>1. Ok(disk, Now, C) /\ i \in Reached(Now.d, C) /\ i \notin C
      BY <1>1, <2>1, <2>2 DEF Writable, Ok, SoundFor
    <3> QED
      BY <3>1, WriteFileOk DEF Ok
  <2> QED
    BY <2>1, <2>2, CallConsistent
<1>9. CASE Mount
  <2>1. /\ todo' = MountSession(disk).log /\ UNCHANGED <<disk, intact>>
    BY <1>9 DEF Mount
  <2>2. intact => Sound(disk) /\ Proper(disk, MountSession(disk))
    BY MountOk DEF Consistent, Recording
  <2> QED
    BY <2>1, <2>2 DEF Consistent, Proper
<1>10. CASE Unmount
  BY <1>1, <1>10, UnmountOk, CallConsistent DEF Unmount
<1>11. CASE WriteBlock
  <2> SUFFICES ASSUME intact' PROVE Sound(disk') /\ SafeLog(disk', todo')
    BY DEF Consistent
  <2>1. /\ todo # <<>> /\ disk' = Head(todo).disk /\ todo' = Tail(todo)
        /\ intact /\ ~(Head(todo).journal /\ Overwrites(disk, Head(todo).disk))
    BY <1>11 DEF WriteBlock
  <2> QED
    BY <2>1, LogRest DEF Consistent
<1>12. CASE Crash
  BY <1>12, NoLog DEF Crash, Consistent
<1>13. CASE UNCHANGED vars
  BY <1>13 DEF vars, Consistent
<1> QED
  BY <1>3, <1>4, <1>5, <1>6, <1>7, <1>8, <1>9, <1>10, <1>11, <1>12, <1>13 DEF Next

\* A name is an entry, and no entry is two names.
LEMMA NamesCounted ==
    ASSUME NEW d, NEW C, C = Directories(d), SoundFor(d, C), NEW i
    PROVE  /\ Cardinality({t \in Tree(d) : t.ino = i}) <= Cardinality(Refs(d, C, i))
           /\ Cardinality({t \in Tree(d) : t.ino = i}) \in Nat
           /\ IsFiniteSet({t \in Tree(d) : t.ino = i})
<1> DEFINE T == {t \in Tree(d) : t.ino = i}
           R == Refs(d, C, i)
           f == [r \in R |-> NameAt(d, d.content[r[1]].of, r[1], r[2])]
<1>1. IsDisk(d) /\ \A p \in C : \A b \in BlocksOf(d, p) : d.content[b].of = p
  BY DEF SoundFor, Reached, Backed
<1>2. ASSUME NEW r \in R PROVE f[r] \in T
  <2>1. PICK p \in C : Entry(d, p, r[1], r[2], i)
    BY DEF Refs
  <2>2. /\ r[1] \in BlocksOf(d, p) /\ r[2] \in DOMAIN EntriesOf(d, r[1])
        /\ EntriesOf(d, r[1])[r[2]].name \in Names /\ EntriesOf(d, r[1])[r[2]].ino = i
    BY <2>1 DEF Entry, NamesAt
  <2>3. f[r] = NameAt(d, p, r[1], r[2])
    BY <1>1, <2>2
  <2>4. NameAt(d, p, r[1], r[2]) \in NamesIn(d, p)
    BY <2>2 DEF NamesIn
  <2>5. NameAt(d, p, r[1], r[2]).ino = i
    BY <2>2 DEF NameAt
  <2> HIDE DEF f
  <2> QED
    BY <2>3, <2>4, <2>5 DEF Tree
<1>3. ASSUME NEW t \in T PROVE \E r \in R : f[r] = t
  <2>1. PICK p \in C : t \in NamesIn(d, p)
    BY DEF Tree
  <2>2. PICK b \in BlocksOf(d, p) : \E k \in DOMAIN EntriesOf(d, b) :
            EntriesOf(d, b)[k].name \in Names /\ t = NameAt(d, p, b, k)
    BY <2>1 DEF NamesIn
  <2>3. PICK k \in DOMAIN EntriesOf(d, b) :
            EntriesOf(d, b)[k].name \in Names /\ t = NameAt(d, p, b, k)
    BY <2>2
  <2>4. b \in DataBlocks /\ k \in DirSlots
    BY <1>1, BlocksAreData DEF IsDisk, IsData, EntriesOf
  <2>5. EntriesOf(d, b)[k].ino = i
    BY <2>3 DEF NameAt
  <2>6. Entry(d, p, b, k, i)
    BY <2>3, <2>5 DEF Entry, NamesAt
  <2>7. <<b, k>> \in R
    BY <2>4, <2>6 DEF Refs
  <2>8. f[<<b, k>>] = t
    BY <1>1, <2>3, <2>7
  <2> QED
    BY <2>7, <2>8
<1>4. f \in [R -> T]
  BY <1>2
<1> HIDE DEF f, R, T
<1>5. f \in Surjection(R, T)
  BY <1>3, <1>4 DEF Surjection
<1>6. IsFiniteSet(R)
  BY <1>1, Leading DEF R
<1> QED
  BY <1>5, <1>6, FS_Surjection, FS_CardinalityType DEF R, T

-----------------------------------------------------------------------------
(* The theorems.                                                            *)

\* Whatever call was interrupted between whatever two of its writes, the disk
\* is sound: every directory that can be reached is one, and every inode that
\* can be reached is in use, written, owns its blocks alone and counts at least
\* its names.
THEOREM BrainFSConsistent == Spec => []Consistent
<1>1. Init => Consistent
  BY InitConsistent
<1>2. Consistent /\ [Next]_vars => Consistent'
  BY NextConsistent
<1> QED
  BY <1>1, <1>2, PTL DEF Spec

\* What soundness says in the words of the properties of BrainFS.
LEMMA SoundMeans ==
    ASSUME Consistent, intact
    PROVE  /\ \A i \in Named(disk) : Backed(disk, i)
           /\ \A t \in Tree(disk) : t.ino \in Named(disk)
           /\ \A i \in Named(disk) \ Directories(disk) :
                 Inode(disk, i).links >= Cardinality({t \in Tree(disk) : t.ino = i})
<1> DEFINE C == Directories(disk)
<1>1. SoundFor(disk, C)
  BY DEF Consistent, Sound
<1>2. Named(disk) = Reached(disk, C)
  BY <1>1, SoundShrinks
<1>3. \A t \in Tree(disk) : t.ino \in Named(disk)
  BY DEF Named
<1>4. ASSUME NEW i \in Named(disk) \ C
      PROVE  Inode(disk, i).links >= Cardinality({t \in Tree(disk) : t.ino = i})
  <2> DEFINE T == {t \in Tree(disk) : t.ino = i}
  <2>1. Cardinality(T) <= Cardinality(Refs(disk, C, i)) /\ Cardinality(T) \in Nat
    BY <1>1, NamesCounted
  <2>2. Inode(disk, i).links >= Cardinality(Refs(disk, C, i))
    BY <1>1, <1>2, <1>4 DEF SoundFor
  <2>3. Inode(disk, i).links \in Int /\ Cardinality(Refs(disk, C, i)) \in Nat
    BY <1>1, BlocksAreData, Leading DEF SoundFor, IsNode
  <2> QED
    BY <2>1, <2>2, <2>3
<1> QED
  BY <1>1, <1>2, <1>3, <1>4 DEF SoundFor

\* A name never leads to an inode that is free or not yet written, or to one
\* with a block that is free.
THEOREM BrainFSNamesAreBacked == Spec => []NamesAreBacked
<1>1. Consistent => NamesAreBacked
  BY SoundMeans DEF NamesAreBacked, Backed
<1> QED
  BY <1>1, BrainFSConsistent, PTL

\* A block that can be reached from a name belongs to that inode alone, and
\* holds what was written for it.
THEOREM BrainFSContentIsOwn == Spec => []ContentIsOwn
<1>1. Consistent => ContentIsOwn
  BY SoundMeans DEF ContentIsOwn, Backed
<1> QED
  BY <1>1, BrainFSConsistent, PTL

\* What a write may do to the names is a step of Namespace.
LEMMA StepIsNext ==
    ASSUME Step(disk, disk')
    PROVE  N!Next \/ UNCHANGED <<Tree(disk), Directories(disk)>>
<1>1. CASE SameNames(disk, disk')
  BY <1>1 DEF SameNames
<1>2. CASE \E p \in Directories(disk), n \in Names : \E i : NameAdded(disk, disk', p, n, i)
  <2>1. PICK p \in Directories(disk), n \in Names : \E i : NameAdded(disk, disk', p, n, i)
    BY <1>2
  <2>2. PICK i : NameAdded(disk, disk', p, n, i)
    BY <2>1
  <2>3. PICK b, k : /\ NameIn(p, b, k, n, i) \notin Tree(disk)
                    /\ Tree(disk)' = Tree(disk) \cup {NameIn(p, b, k, n, i)}
    BY <2>2 DEF NameAdded
  <2> DEFINE t == NameIn(p, b, k, n, i)
  <2>4. t.dir = p /\ t.name = n /\ t.ino = i
    BY NameParts
  <2> HIDE DEF t
  <2>5. /\ N!MayBeGiven(p, n)
        /\ Tree(disk)' = Tree(disk) \cup {t} /\ t \in Tree(disk)' \ Tree(disk)
        /\ \/ /\ i \notin N!Objects
              /\ Directories(disk)' \in {Directories(disk), Directories(disk) \cup {i}}
           \/ i \in N!Objects \ Directories(disk) /\ UNCHANGED Directories(disk)
    BY <2>2, <2>3 DEF NameAdded, N!MayBeGiven, N!Objects, Named, t
  <2>6. N!New(t) \/ N!Link(t)
    BY <2>4, <2>5 DEF N!New, N!Link
  <2> QED
    BY <2>5, <2>6 DEF N!Next
<1>3. CASE \E t \in Tree(disk) : NameDropped(disk, disk', t)
  BY <1>3 DEF NameDropped, N!Next, N!Remove
<1> QED
  BY <1>1, <1>2, <1>3 DEF Step

\* BrainFS implements Namespace: as long as the journal has not written over
\* anything in use, every block that a call writes adds one name, takes one away
\* or leaves the tree of names as it is.
THEOREM BrainFSImplementsNamespace == Spec => ImplementsNamespace
<1>1. ASSUME Consistent, [Next]_vars
      PROVE  [intact' => N!Next]_<<Tree(disk), Directories(disk)>>
  <2>1. CASE UNCHANGED disk
    BY <2>1
  <2>2. CASE WriteBlock /\ intact'
    <3>1. /\ todo # <<>> /\ disk' = Head(todo).disk /\ intact
          /\ ~(Head(todo).journal /\ Overwrites(disk, Head(todo).disk))
      BY <2>2 DEF WriteBlock
    <3>2. Step(disk, disk')
      BY <1>1, <3>1, LogRest DEF Consistent
    <3> QED
      BY <3>2, StepIsNext
  <2>3. UNCHANGED disk \/ WriteBlock
    BY <1>1
    DEF Next, vars, Do, Creates, Mkdirs, Symlinks, Links, Unlinks, Writes, Mount, Unmount, Crash
  <2> QED
    BY <2>1, <2>2, <2>3
<1> QED
  BY <1>1, BrainFSConsistent, PTL DEF Spec, ImplementsNamespace

-----------------------------------------------------------------------------
(* The books: links count names, the block bitmap marks the blocks of named *)
(* inodes, the count of free blocks agrees.  In the middle of a call they   *)
(* are out by what the call has taken and not yet given a name.             *)

Owned(d)      == UNION {BlocksOf(d, i) : i \in Named(d)}
FreeBlocks(d) == Cardinality(DataBlocks \ d.bmap)
NamesOf(d, i) == Cardinality({t \in Tree(d) : t.ino = i})

\* No block is in an inode twice.
Apart(node) == \A h, k \in 1 .. 3 : (node.blk[h] = node.blk[k] /\ node.blk[h] # 0) => h = k

\* The blocks in X are marked and belong to no named inode; file x has one link
\* more than names, or no file has, when x is the root.
Extra(x, i) == IF i = x THEN 1 ELSE 0
Booked(d, X, x) ==
    /\ X \cap Owned(d) = {} /\ d.bmap \cap DataBlocks = Owned(d) \cup X
    /\ \A i \in Named(d) : Apart(Inode(d, i))
    /\ \A i \in Named(d) \ Directories(d) : Inode(d, i).links = NamesOf(d, i) + Extra(x, i)

\* What a change of the block bitmap does.
LEMMA BookedBmap ==
    ASSUME NEW d, NEW e, SameNames(d, e), e.inode = d.inode,
           NEW X, NEW Y, NEW x, Booked(d, X, x),
           Y \cap Owned(d) = {}, e.bmap \cap DataBlocks = Owned(d) \cup Y
    PROVE  Booked(e, Y, x)
<1>1. Named(e) = Named(d) /\ Directories(e) = Directories(d) /\ \A i : NamesOf(e, i) = NamesOf(d, i)
  BY DEF SameNames, Named, NamesOf
<1>2. \A i : Inode(e, i) = Inode(d, i) /\ BlocksOf(e, i) = BlocksOf(d, i)
  BY SameParts
<1>3. Owned(e) = Owned(d)
  BY <1>1, <1>2 DEF Owned
<1> QED
  BY <1>1, <1>2, <1>3 DEF Booked

\* What touches no name, no named inode and not the bitmap.
LEMMA BookedSame ==
    ASSUME NEW d, NEW e, SameNames(d, e), e.bmap = d.bmap,
           \A i \in Named(d) : Inode(e, i) = Inode(d, i),
           NEW X, NEW x, Booked(d, X, x)
    PROVE  Booked(e, X, x) /\ FreeBlocks(e) = FreeBlocks(d)
<1>1. Named(e) = Named(d) /\ Directories(e) = Directories(d) /\ \A i : NamesOf(e, i) = NamesOf(d, i)
  BY DEF SameNames, Named, NamesOf
<1>2. \A i \in Named(d) : BlocksOf(e, i) = BlocksOf(d, i)
  BY DEF BlocksOf
<1>3. Owned(e) = Owned(d)
  BY <1>1, <1>2 DEF Owned
<1> QED
  BY <1>1, <1>2, <1>3 DEF Booked, FreeBlocks

\* A named inode takes blocks of X, or changes its link count.
LEMMA BookedNode ==
    ASSUME NEW d, NEW e, SameNames(d, e), e.bmap = d.bmap, NEW i \in Named(d),
           \A j : j # i => Inode(e, j) = Inode(d, j),
           NEW X, NEW x, Booked(d, X, x), NEW y, Apart(Inode(e, i)),
           BlocksOf(d, i) \subseteq BlocksOf(e, i),
           BlocksOf(e, i) \subseteq BlocksOf(d, i) \cup X,
           i \in Directories(d) \/ Inode(e, i).links = NamesOf(d, i) + Extra(y, i),
           \A j \in Named(d) \ Directories(d) : j # i => Extra(x, j) = Extra(y, j)
    PROVE  Booked(e, X \ BlocksOf(e, i), y) /\ FreeBlocks(e) = FreeBlocks(d)
<1>1. Named(e) = Named(d) /\ Directories(e) = Directories(d) /\ \A j : NamesOf(e, j) = NamesOf(d, j)
  BY DEF SameNames, Named, NamesOf
<1>2. \A j : j # i => BlocksOf(e, j) = BlocksOf(d, j)
  BY DEF BlocksOf
<1>3. Owned(e) = Owned(d) \cup BlocksOf(e, i)
  BY <1>1, <1>2 DEF Owned
<1>4. BlocksOf(d, i) \subseteq Owned(d)
  BY DEF Owned
<1>5. /\ (X \ BlocksOf(e, i)) \cap Owned(e) = {}
      /\ e.bmap \cap DataBlocks = Owned(e) \cup (X \ BlocksOf(e, i))
  BY <1>3, <1>4 DEF Booked
<1>6. \A j \in Named(e) : Apart(Inode(e, j))
  BY <1>1 DEF Booked
<1>7. ASSUME NEW j \in Named(e) \ Directories(e)
      PROVE  Inode(e, j).links = NamesOf(e, j) + Extra(y, j)
  BY <1>1 DEF Booked
<1> QED
  BY <1>5, <1>6, <1>7 DEF Booked, FreeBlocks

\* An inode that can be given a name: new, with blocks of X, or with the link
\* counted.
Nameable(d, X, x, i) ==
    \/ /\ i \notin Named(d) /\ x = Root
       /\ BlocksOf(d, i) \subseteq X /\ Apart(Inode(d, i))
       /\ Inode(d, i).kind = "dir" \/ Inode(d, i).links = 1
    \/ i \in Named(d) /\ x = i

LEMMA BookedAdded ==
    ASSUME NEW d, Sound(d), NEW e, NEW p, NEW n, NEW i, NameAdded(d, e, p, n, i),
           Directories(e) = Grown(d, Directories(d), i),
           e.inode = d.inode, e.bmap = d.bmap,
           NEW X, NEW x, Booked(d, X, x), Nameable(d, X, x, i)
    PROVE  /\ Booked(e, X \ BlocksOf(d, i), Root) /\ FreeBlocks(e) = FreeBlocks(d)
           /\ Directories(d) \subseteq Directories(e)
<1>0. PICK b, k : /\ NameIn(p, b, k, n, i) \notin Tree(d)
                  /\ Tree(e) = Tree(d) \cup {NameIn(p, b, k, n, i)}
  BY DEF NameAdded
<1> DEFINE new == NameIn(p, b, k, n, i)
           T(j) == {t \in Tree(d) : t.ino = j}
           U(j) == {t \in Tree(e) : t.ino = j}
<1>1. /\ new \notin Tree(d) /\ Tree(e) = Tree(d) \cup {new} /\ new.ino = i
      /\ Directories(d) \subseteq Directories(e) /\ Root \in Directories(d)
  BY <1>0, NameParts DEF NameAdded, Sound, SoundFor, Closed
<1> HIDE DEF new
<1>2. Named(e) = Named(d) \cup {i}
  BY <1>1 DEF Named
<1>3. \A j : Inode(e, j) = Inode(d, j) /\ BlocksOf(e, j) = BlocksOf(d, j)
  BY SameParts
<1>4. \A j : IsFiniteSet(T(j)) /\ NamesOf(d, j) = Cardinality(T(j)) /\ NamesOf(d, j) \in Nat
  BY NamesCounted DEF Sound, NamesOf
<1>5. \A j : j # i => NamesOf(e, j) = NamesOf(d, j)
  <2>1. \A j : j # i => U(j) = T(j)
    BY <1>1
  <2> QED
    BY <2>1 DEF NamesOf
<1>6. NamesOf(e, i) = NamesOf(d, i) + 1
  <2> DEFINE A == T(i)
             B == U(i)
  <2>1. B = A \cup {new} /\ new \notin A
    BY <1>1
  <2>2. IsFiniteSet(A) /\ NamesOf(d, i) = Cardinality(A) /\ NamesOf(e, i) = Cardinality(B)
    BY <1>4 DEF NamesOf
  <2> HIDE DEF A, B
  <2> QED
    BY <2>1, <2>2, FS_AddElement
<1>7. FreeBlocks(e) = FreeBlocks(d)
  BY DEF FreeBlocks
<1>8. Owned(e) = Owned(d) \cup BlocksOf(d, i)
  BY <1>2, <1>3 DEF Owned
<1>9. CASE /\ i \notin Named(d) /\ x = Root
           /\ BlocksOf(d, i) \subseteq X /\ Apart(Inode(d, i))
           /\ Inode(d, i).kind = "dir" \/ Inode(d, i).links = 1
  <2>1. NamesOf(d, i) = 0
    <3>1. T(i) = {}
      BY <1>9 DEF Named
    <3> QED
      BY <1>4, <3>1, FS_EmptySet
  <2>2. i \in Directories(e) \/ Inode(d, i).links = 1
    BY <1>9 DEF Grown
  <2>3. ASSUME NEW j \in Named(e) \ Directories(e)
        PROVE  Inode(e, j).links = NamesOf(e, j) + Extra(Root, j)
    <3>1. j # Root
      BY <1>1, <2>3
    <3>2. CASE j = i
      BY <1>3, <1>6, <2>1, <2>2, <2>3, <3>1, <3>2 DEF Extra
    <3>3. CASE j # i
      BY <1>1, <1>2, <1>3, <1>5, <1>9, <2>3, <3>3 DEF Booked
    <3> QED
      BY <3>2, <3>3
  <2>4. \A j \in Named(e) : Apart(Inode(e, j))
    BY <1>2, <1>3, <1>9 DEF Booked
  <2>5. /\ (X \ BlocksOf(d, i)) \cap Owned(e) = {}
        /\ e.bmap \cap DataBlocks = Owned(e) \cup (X \ BlocksOf(d, i))
    BY <1>8, <1>9 DEF Booked
  <2> QED
    BY <1>1, <1>7, <2>3, <2>4, <2>5 DEF Booked
<1>10. CASE i \in Named(d) /\ x = i
  <2>1. i \notin Directories(d) /\ Directories(e) = Directories(d) /\ Named(e) = Named(d)
    BY <1>2, <1>10 DEF NameAdded
  <2>2. ASSUME NEW j \in Named(e) \ Directories(e)
        PROVE  Inode(e, j).links = NamesOf(e, j) + Extra(Root, j)
    <3>1. j # Root /\ Inode(d, j).links = NamesOf(d, j) + Extra(i, j)
      <4>1. j \in Named(d) \ Directories(d) /\ Booked(d, X, i) /\ j # Root
        BY <1>1, <1>10, <2>1, <2>2
      <4> QED
        BY <4>1 DEF Booked
    <3>2. CASE j = i
      <4>1. Extra(i, i) = 1 /\ Extra(Root, i) = 0 /\ NamesOf(d, i) \in Nat
        BY <1>4, <3>1, <3>2 DEF Extra
      <4>2. Inode(d, i).links = NamesOf(d, i) + 1
        BY <3>1, <3>2, <4>1
      <4>3. Inode(e, i).links = NamesOf(e, i) + 0
        BY <1>3, <1>6, <4>1, <4>2
      <4> QED
        BY <3>2, <4>1, <4>3
    <3>3. CASE j # i
      BY <1>3, <1>5, <3>1, <3>3 DEF Extra
    <3> QED
      BY <3>2, <3>3
  <2>3. \A j \in Named(e) : Apart(Inode(e, j))
    BY <1>3, <2>1 DEF Booked
  <2>4. BlocksOf(d, i) \subseteq Owned(d)
    BY <1>10 DEF Owned
  <2>5. /\ (X \ BlocksOf(d, i)) \cap Owned(e) = {}
        /\ e.bmap \cap DataBlocks = Owned(e) \cup (X \ BlocksOf(d, i))
    BY <1>8, <2>4 DEF Booked
  <2> QED
    BY <1>1, <1>7, <2>2, <2>3, <2>5 DEF Booked
<1> QED
  BY <1>9, <1>10 DEF Nameable

\* A name less: the file has a link too many, or it is named no more and its
\* blocks are nobody's.
Uncounted(d, e, i, X) ==
    /\ FreeBlocks(e) = FreeBlocks(d) /\ Inode(d, i).links = NamesOf(d, i)
    /\ NamesOf(d, i) \in Nat \ {0} /\ NamesOf(e, i) = NamesOf(d, i) - 1
    /\ i \in Named(d) /\ i # Root /\ Apart(Inode(d, i))
    /\ NamesOf(d, i) > 1 => i \in Named(e) /\ Booked(e, X, i)
    /\ NamesOf(d, i) = 1 => i \notin Named(e) /\ Booked(e, X \cup BlocksOf(d, i), Root)

LEMMA BookedDropped ==
    ASSUME NEW d, Sound(d), NEW e, NEW t \in Tree(d), NameDropped(d, e, t),
           NEW i, i = t.ino, e.inode = d.inode, e.bmap = d.bmap,
           NEW X, Booked(d, X, Root)
    PROVE  Uncounted(d, e, i, X)
<1> DEFINE T(j) == {u \in Tree(d) : u.ino = j}
           U(j) == {u \in Tree(e) : u.ino = j}
<1>1. /\ i \notin Directories(d) /\ Tree(e) = Tree(d) \ {t}
      /\ Directories(e) = Directories(d) /\ Root \in Directories(d)
      /\ i \in Named(d) /\ i # Root
  BY DEF NameDropped, Sound, SoundFor, Closed, Named
<1>2. \A j : Inode(e, j) = Inode(d, j) /\ BlocksOf(e, j) = BlocksOf(d, j)
  BY SameParts
<1>3. \A j : IsFiniteSet(T(j)) /\ NamesOf(d, j) = Cardinality(T(j)) /\ NamesOf(d, j) \in Nat
  BY NamesCounted DEF Sound, NamesOf
<1>4. \A j : j # i => NamesOf(e, j) = NamesOf(d, j) /\ (j \in Named(e) <=> j \in Named(d))
  <2>1. \A j : j # i => U(j) = T(j)
    BY <1>1
  <2> QED
    BY <1>1, <2>1 DEF NamesOf, Named
<1>5. /\ NamesOf(e, i) = NamesOf(d, i) - 1 /\ NamesOf(d, i) \in Nat \ {0}
      /\ IsFiniteSet(U(i)) /\ NamesOf(e, i) = Cardinality(U(i))
  <2> DEFINE A == T(i)
             B == U(i)
  <2>1. B = A \ {t} /\ t \in A
    BY <1>1
  <2>2. IsFiniteSet(A) /\ NamesOf(d, i) = Cardinality(A) /\ NamesOf(e, i) = Cardinality(B)
        /\ Cardinality(A) \in Nat
    BY <1>3 DEF NamesOf
  <2> HIDE DEF A, B
  <2>3. IsFiniteSet(B) /\ Cardinality(B) = Cardinality(A) - 1 /\ Cardinality(B) \in Nat
    BY <2>1, <2>2, FS_RemoveElement, FS_CardinalityType
  <2>4. Cardinality(A) # 0
    BY <2>2, <2>3
  <2> QED
    BY <2>2, <2>3, <2>4 DEF B
<1>6. i \in Named(e) <=> NamesOf(e, i) # 0
  <2>1. i \in Named(e) <=> U(i) # {}
    BY <1>1 DEF Named
  <2> QED
    BY <1>5, <2>1, FS_EmptySet
<1>7. FreeBlocks(e) = FreeBlocks(d) /\ Apart(Inode(d, i))
  BY <1>1 DEF FreeBlocks, Booked
<1>8. Inode(d, i).links = NamesOf(d, i)
  <2>1. Inode(d, i).links = NamesOf(d, i) + Extra(Root, i) /\ Extra(Root, i) = 0
    BY <1>1 DEF Booked, Extra
  <2> QED
    BY <1>5, <2>1
<1>9. ASSUME NEW j \in Named(e) \ Directories(e), j # i
      PROVE  /\ Inode(e, j).links = NamesOf(e, j) + Extra(Root, j)
             /\ Extra(Root, j) = Extra(i, j) /\ Apart(Inode(e, j))
  <2>1. j \in Named(d) \ Directories(d) /\ j # Root
    BY <1>1, <1>4, <1>9
  <2> QED
    BY <1>2, <1>4, <1>9, <2>1 DEF Booked, Extra
<1>10. \A j \in Named(e) : j # i => Apart(Inode(e, j))
  BY <1>2, <1>4 DEF Booked
<1>11. ASSUME NamesOf(d, i) > 1 PROVE i \in Named(e) /\ Booked(e, X, i)
  <2>1. i \in Named(e)
    BY <1>5, <1>6, <1>11
  <2>2. Named(e) = Named(d)
    BY <1>1, <1>4, <2>1
  <2>3. Owned(e) = Owned(d)
    BY <1>2, <2>2 DEF Owned
  <2>4. Inode(e, i).links = NamesOf(e, i) + Extra(i, i)
    BY <1>2, <1>5, <1>8 DEF Extra
  <2> QED
    BY <1>2, <1>7, <1>9, <1>10, <2>1, <2>3, <2>4 DEF Booked
<1>12. ASSUME NamesOf(d, i) = 1
       PROVE  i \notin Named(e) /\ Booked(e, X \cup BlocksOf(d, i), Root)
  <2>1. i \notin Named(e)
    BY <1>5, <1>6, <1>12
  <2>2. Named(e) = Named(d) \ {i}
    BY <1>1, <1>4, <2>1
  <2>3. Owned(d) = Owned(e) \cup BlocksOf(d, i)
    BY <1>1, <1>2, <2>2 DEF Owned
  <2>4. BlocksOf(d, i) \cap Owned(e) = {}
    <3>1. \A j \in Named(d) : \A b \in BlocksOf(d, j) : d.content[b].of = j
      BY SoundShrinks DEF Sound, SoundFor, Backed
    <3> SUFFICES ASSUME NEW j \in Named(d), j # i, NEW b \in BlocksOf(d, j), b \in BlocksOf(d, i)
                 PROVE  FALSE
      BY <1>2, <2>2 DEF Owned
    <3> QED
      BY <1>1, <3>1
  <2>5. /\ (X \cup BlocksOf(d, i)) \cap Owned(e) = {}
        /\ e.bmap \cap DataBlocks = Owned(e) \cup (X \cup BlocksOf(d, i))
    BY <2>3, <2>4 DEF Booked
  <2> QED
    BY <1>9, <1>10, <2>1, <2>5 DEF Booked
<1> QED
  BY <1>1, <1>5, <1>7, <1>8, <1>11, <1>12 DEF Uncounted

\* A session of a call in which nothing is lost, and the books of its disk.
Open(m)   == {"freeB", "mounted"} \subseteq DOMAIN m /\ m.mounted
Counts(s) == Open(s.m) /\ s.m.freeB = FreeBlocks(s.d)
Balanced(d0, s, X, x) == Ok(d0, s, Directories(s.d)) /\ Booked(s.d, X, x) /\ Counts(s)

LEMMA MemoryIs ==
    ASSUME NEW s, DOMAIN s = {"d", "m", "log"}, Open(s.m)
    PROVE  /\ \A i, node : PutInode(s, i, node).m = s.m
           /\ \A b, data : PutBlock(s, b, data).m = s.m
           /\ \A i : /\ Open(TakeInode(s, i).m) /\ TakeInode(s, i).m.freeB = s.m.freeB
                     /\ Open(DropInode(s, i).m) /\ DropInode(s, i).m.freeB = s.m.freeB
           /\ \A b : /\ Open(TakeBlock(s, b).m)
                     /\ TakeBlock(s, b).m.freeB = s.m.freeB + (-1)
                     /\ Open(DropBlock(s, b).m)
                     /\ DropBlock(s, b).m.freeB = s.m.freeB + 1
<1>1. ASSUME NEW e
      PROVE  DOMAIN Logged(s, e, FALSE) = {"d", "m", "log"} /\ Logged(s, e, FALSE).m = s.m
  BY DEF Logged
<1>2. ASSUME NEW t, DOMAIN t = {"d", "m", "log"}, t.m = s.m, NEW n
      PROVE  /\ Open(CountInodes(t, n).m) /\ CountInodes(t, n).m.freeB = s.m.freeB
             /\ Open(CountBlocks(t, n).m) /\ CountBlocks(t, n).m.freeB = s.m.freeB + n
  BY <1>2 DEF CountInodes, CountBlocks, Open
<1>3. \A i, node : PutInode(s, i, node).m = s.m
  BY <1>1 DEF PutInode
<1>4. \A b, data : PutBlock(s, b, data).m = s.m
  BY <1>1 DEF PutBlock
<1>5. ASSUME NEW i
      PROVE  /\ Open(TakeInode(s, i).m) /\ TakeInode(s, i).m.freeB = s.m.freeB
             /\ Open(DropInode(s, i).m) /\ DropInode(s, i).m.freeB = s.m.freeB
  <2> DEFINE t == Logged(s, [s.d EXCEPT !.imap = @ \cup {i}], FALSE)
             u == Logged(s, [s.d EXCEPT !.imap = @ \ {i}], FALSE)
  <2>1. /\ DOMAIN t = {"d", "m", "log"} /\ t.m = s.m /\ DOMAIN u = {"d", "m", "log"} /\ u.m = s.m
    BY <1>1
  <2>2. TakeInode(s, i) = CountInodes(t, -1) /\ DropInode(s, i) = CountInodes(u, 1)
    BY DEF TakeInode, DropInode
  <2> HIDE DEF t, u
  <2> QED
    BY <1>2, <2>1, <2>2
<1>6. ASSUME NEW b
      PROVE  /\ Open(TakeBlock(s, b).m)
             /\ TakeBlock(s, b).m.freeB = s.m.freeB + (-1)
             /\ Open(DropBlock(s, b).m)
             /\ DropBlock(s, b).m.freeB = s.m.freeB + 1
  <2> DEFINE t == Logged(s, [s.d EXCEPT !.bmap = @ \cup {b}], FALSE)
             u == Logged(s, [s.d EXCEPT !.bmap = @ \ {b}], FALSE)
  <2>1. /\ DOMAIN t = {"d", "m", "log"} /\ t.m = s.m /\ DOMAIN u = {"d", "m", "log"} /\ u.m = s.m
    BY <1>1
  <2>2. TakeBlock(s, b) = CountBlocks(t, -1) /\ DropBlock(s, b) = CountBlocks(u, 1)
    BY DEF TakeBlock, DropBlock
  <2> HIDE DEF t, u
  <2> QED
    BY <1>2, <2>1, <2>2
<1> QED
  BY <1>3, <1>4, <1>5, <1>6

\* What follows from a balanced session.
LEMMA BalancedMeans ==
    ASSUME NEW d0, NEW s, NEW X, NEW x, Balanced(d0, s, X, x)
    PROVE  /\ Ok(d0, s, Directories(s.d)) /\ Booked(s.d, X, x)
           /\ DOMAIN s = {"d", "m", "log"} /\ Open(s.m)
           /\ s.m.freeB = FreeBlocks(s.d) /\ FreeBlocks(s.d) \in Nat
           /\ Sound(s.d) /\ SoundFor(s.d, Directories(s.d)) /\ IsDisk(s.d)
           /\ Reached(s.d, Directories(s.d)) = Named(s.d) /\ Directories(s.d) \subseteq Named(s.d)
           /\ Root \in Directories(s.d) /\ X \subseteq DataBlocks /\ X \subseteq s.d.bmap
           /\ \A j \in Named(s.d) : BlocksOf(s.d, j) \subseteq s.d.bmap /\ X \cap BlocksOf(s.d, j) = {}
<1>1. /\ Ok(d0, s, Directories(s.d)) /\ Booked(s.d, X, x)
      /\ DOMAIN s = {"d", "m", "log"} /\ Open(s.m)
      /\ s.m.freeB = FreeBlocks(s.d)
  BY DEF Balanced, Counts, Ok, Proper
<1>2. SoundFor(s.d, Directories(s.d)) /\ IsDisk(s.d) /\ Root \in Directories(s.d)
  BY <1>1 DEF Ok, SoundFor, Closed
<1>3. Sound(s.d) /\ Reached(s.d, Directories(s.d)) = Named(s.d)
  BY <1>2, SoundShrinks
<1>4. FreeBlocks(s.d) \in Nat
  <2>1. IsFiniteSet(DataBlocks \ s.d.bmap)
    BY Layout, FS_Subset
  <2> QED
    BY <2>1, FS_CardinalityType DEF FreeBlocks
<1>5. Directories(s.d) \subseteq Named(s.d)
  BY <1>3 DEF Reached
<1>6. X \subseteq DataBlocks /\ X \subseteq s.d.bmap /\ \A j \in Named(s.d) : X \cap BlocksOf(s.d, j) = {}
  BY <1>1 DEF Booked, Owned
<1>7. \A j \in Named(s.d) : BlocksOf(s.d, j) \subseteq s.d.bmap
  BY <1>2, <1>3 DEF SoundFor, Backed
<1> QED
  BY <1>1, <1>2, <1>3, <1>4, <1>5, <1>6, <1>7

\* A write of a named or an unnamed block or inode that leaves the books alone.
LEMMA BalancedSame ==
    ASSUME NEW d0, NEW s, NEW X, NEW x, Balanced(d0, s, X, x), NEW t,
           Ok(d0, t, Directories(s.d)), SameNames(s.d, t.d), t.d.bmap = s.d.bmap,
           \A i \in Named(s.d) : Inode(t.d, i) = Inode(s.d, i),
           Open(t.m), t.m.freeB = s.m.freeB
    PROVE  Balanced(d0, t, X, x)
<1>1. Booked(t.d, X, x) /\ FreeBlocks(t.d) = FreeBlocks(s.d)
  BY BalancedMeans, BookedSame
<1>2. Directories(t.d) = Directories(s.d)
  BY DEF SameNames
<1> QED
  BY <1>1, <1>2, BalancedMeans DEF Balanced, Counts

LEMMA BalancedTakeInode ==
    ASSUME NEW d0, NEW s, NEW X, NEW x, Balanced(d0, s, X, x), NEW i
    PROVE  LET t == TakeInode(s, i)
           IN  /\ Balanced(d0, t, X, x) /\ SameNames(s.d, t.d) /\ SameButImap(s.d, t.d)
               /\ t.d.imap = s.d.imap \cup {i}
<1> DEFINE t == TakeInode(s, i)
           C == Directories(s.d)
<1>0. Ok(d0, s, C) /\ DOMAIN s = {"d", "m", "log"} /\ Open(s.m)
  BY BalancedMeans
<1> HIDE DEF C
<1>1. /\ Ok(d0, t, C) /\ SameButImap(s.d, t.d) /\ t.d.imap = s.d.imap \cup {i}
      /\ Kept(s.d, t.d, C)
  BY <1>0, OkTakeInode
<1>2. Open(t.m) /\ t.m.freeB = s.m.freeB
  BY <1>0, MemoryIs
<1> HIDE DEF t
<1>3. \A j : Inode(t.d, j) = Inode(s.d, j)
  BY <1>1, SameParts DEF SameButImap
<1>4. SameNames(s.d, t.d) /\ t.d.bmap = s.d.bmap
  BY <1>1 DEF Kept, SameButImap
<1>5. Balanced(d0, t, X, x)
  BY <1>1, <1>2, <1>3, <1>4, BalancedSame DEF C
<1> QED
  BY <1>1, <1>4, <1>5 DEF t

LEMMA BalancedDropInode ==
    ASSUME NEW d0, NEW s, NEW X, NEW x, Balanced(d0, s, X, x), NEW i, i \notin Named(s.d)
    PROVE  Balanced(d0, DropInode(s, i), X, x) /\ SameNames(s.d, DropInode(s, i).d)
<1> DEFINE t == DropInode(s, i)
           C == Directories(s.d)
<1>0. /\ Ok(d0, s, C) /\ DOMAIN s = {"d", "m", "log"} /\ Open(s.m)
      /\ i \notin Reached(s.d, C)
  BY BalancedMeans
<1> HIDE DEF C
<1>1. Ok(d0, t, C) /\ SameButImap(s.d, t.d) /\ Kept(s.d, t.d, C)
  BY <1>0, OkDropInode
<1>2. Open(t.m) /\ t.m.freeB = s.m.freeB
  BY <1>0, MemoryIs
<1> HIDE DEF t
<1>3. \A j : Inode(t.d, j) = Inode(s.d, j)
  BY <1>1, SameParts DEF SameButImap
<1>4. SameNames(s.d, t.d) /\ t.d.bmap = s.d.bmap
  BY <1>1 DEF Kept, SameButImap
<1>5. Balanced(d0, t, X, x)
  BY <1>1, <1>2, <1>3, <1>4, BalancedSame DEF C
<1> QED
  BY <1>4, <1>5 DEF t

LEMMA BalancedTakeBlock ==
    ASSUME NEW d0, NEW s, NEW X, NEW x, Balanced(d0, s, X, x),
           NEW b \in DataBlocks, b \notin s.d.bmap
    PROVE  LET t == TakeBlock(s, b)
           IN  /\ Balanced(d0, t, X \cup {b}, x) /\ SameNames(s.d, t.d)
               /\ SameButBmap(s.d, t.d) /\ t.d.bmap = s.d.bmap \cup {b}
<1> DEFINE t == TakeBlock(s, b)
           C == Directories(s.d)
<1>0. /\ Ok(d0, s, C) /\ DOMAIN s = {"d", "m", "log"} /\ Open(s.m)
      /\ s.m.freeB = FreeBlocks(s.d) /\ Booked(s.d, X, x)
  BY BalancedMeans
<1> HIDE DEF C
<1>1. /\ Ok(d0, t, C) /\ SameButBmap(s.d, t.d) /\ Kept(s.d, t.d, C)
      /\ t.d.bmap = s.d.bmap \cup {b}
  BY <1>0, OkTakeBlock
<1>2. Open(t.m) /\ t.m.freeB = s.m.freeB + (-1)
  BY <1>0, MemoryIs
<1> HIDE DEF t
<1>3. SameNames(s.d, t.d) /\ t.d.inode = s.d.inode /\ Directories(t.d) = C
  BY <1>1 DEF Kept, SameNames, SameButBmap, C
<1>4. Booked(t.d, X \cup {b}, x)
  <2>1. /\ (X \cup {b}) \cap Owned(s.d) = {}
        /\ t.d.bmap \cap DataBlocks = Owned(s.d) \cup (X \cup {b})
    BY <1>0, <1>1 DEF Booked
  <2> QED
    BY <1>0, <1>3, <2>1, BookedBmap
<1>5. FreeBlocks(t.d) = FreeBlocks(s.d) - 1 /\ FreeBlocks(s.d) \in Nat
  <2> DEFINE A == DataBlocks \ s.d.bmap
             B == DataBlocks \ t.d.bmap
  <2>1. B = A \ {b} /\ b \in A /\ IsFiniteSet(A)
    BY <1>1, Layout, FS_Subset
  <2>2. FreeBlocks(s.d) = Cardinality(A) /\ FreeBlocks(t.d) = Cardinality(B)
    BY DEF FreeBlocks
  <2> HIDE DEF A, B
  <2> QED
    BY <2>1, <2>2, FS_RemoveElement, FS_CardinalityType
<1>6. Balanced(d0, t, X \cup {b}, x)
  BY <1>0, <1>1, <1>2, <1>3, <1>4, <1>5 DEF Balanced, Counts
<1> QED
  BY <1>1, <1>3, <1>6 DEF t

LEMMA BalancedDropBlock ==
    ASSUME NEW d0, NEW s, NEW X, NEW x, Balanced(d0, s, X, x), NEW b \in X
    PROVE  LET t == DropBlock(s, b)
           IN  Balanced(d0, t, X \ {b}, x) /\ SameNames(s.d, t.d) /\ SameButBmap(s.d, t.d)
<1> DEFINE t == DropBlock(s, b)
           C == Directories(s.d)
<1>0. /\ Ok(d0, s, C) /\ DOMAIN s = {"d", "m", "log"} /\ Open(s.m)
      /\ s.m.freeB = FreeBlocks(s.d) /\ Booked(s.d, X, x) /\ b \in DataBlocks /\ b \in s.d.bmap
      /\ \A j \in Reached(s.d, C) : b \notin BlocksOf(s.d, j)
  BY BalancedMeans
<1> HIDE DEF C
<1>1. /\ Ok(d0, t, C) /\ SameButBmap(s.d, t.d) /\ Kept(s.d, t.d, C)
      /\ t.d.bmap = s.d.bmap \ {b}
  BY <1>0, OkDropBlock
<1>2. Open(t.m) /\ t.m.freeB = s.m.freeB + 1
  BY <1>0, MemoryIs
<1> HIDE DEF t
<1>3. SameNames(s.d, t.d) /\ t.d.inode = s.d.inode /\ Directories(t.d) = C
  BY <1>1 DEF Kept, SameNames, SameButBmap, C
<1>4. Booked(t.d, X \ {b}, x)
  <2>1. /\ (X \ {b}) \cap Owned(s.d) = {}
        /\ t.d.bmap \cap DataBlocks = Owned(s.d) \cup (X \ {b})
    BY <1>0, <1>1 DEF Booked
  <2> QED
    BY <1>0, <1>3, <2>1, BookedBmap
<1>5. FreeBlocks(t.d) = FreeBlocks(s.d) + 1
  <2> DEFINE A == DataBlocks \ s.d.bmap
             B == DataBlocks \ t.d.bmap
  <2>1. B = A \cup {b} /\ b \notin A /\ IsFiniteSet(A)
    BY <1>0, <1>1, Layout, FS_Subset
  <2>2. FreeBlocks(s.d) = Cardinality(A) /\ FreeBlocks(t.d) = Cardinality(B)
    BY DEF FreeBlocks
  <2> HIDE DEF A, B
  <2> QED
    BY <2>1, <2>2, FS_AddElement, FS_CardinalityType
<1>6. Balanced(d0, t, X \ {b}, x)
  BY <1>0, <1>1, <1>2, <1>3, <1>4, <1>5 DEF Balanced, Counts
<1> QED
  BY <1>1, <1>3, <1>6 DEF t

\* Data of a file in a block of its own, or in a block that nobody names.
DataFits(d, b, data) ==
    /\ b \in DataBlocks /\ IsData(data)
    /\ \A i \in Named(d) : b \in BlocksOf(d, i) => i \notin Directories(d) /\ data.of = i

DataPut(d, e, b, data) ==
    /\ Kept(d, e, Directories(d)) /\ Wrote(d, e, b, data)
    /\ e.bmap = d.bmap /\ e.imap = d.imap
    /\ \A j : Inode(e, j) = Inode(d, j) /\ BlocksOf(e, j) = BlocksOf(d, j)

LEMMA BalancedPutBlock ==
    ASSUME NEW d0, NEW s, NEW X, NEW x, Balanced(d0, s, X, x),
           NEW b, NEW data, DataFits(s.d, b, data)
    PROVE  LET t == PutBlock(s, b, data)
           IN  Balanced(d0, t, X, x) /\ SameNames(s.d, t.d) /\ DataPut(s.d, t.d, b, data)
<1> DEFINE t == PutBlock(s, b, data)
           C == Directories(s.d)
<1>0. /\ Ok(d0, s, C) /\ DOMAIN s = {"d", "m", "log"} /\ Open(s.m) /\ IsDisk(s.d)
      /\ \A i \in Reached(s.d, C) : b \in BlocksOf(s.d, i) => i \notin C /\ data.of = i
      /\ b \in DataBlocks /\ IsData(data)
  BY BalancedMeans DEF DataFits
<1> HIDE DEF C
<1>1. Ok(d0, t, C) /\ Kept(s.d, t.d, C) /\ Wrote(s.d, t.d, b, data)
  BY <1>0, OkPutBlock
<1>2. t.m = s.m
  BY <1>0, MemoryIs
<1> HIDE DEF t
<1>3. /\ t.d.bmap = s.d.bmap /\ t.d.imap = s.d.imap
      /\ \A j : Inode(t.d, j) = Inode(s.d, j) /\ BlocksOf(t.d, j) = BlocksOf(s.d, j)
  BY <1>0, <1>1, PutData
<1>4. SameNames(s.d, t.d)
  BY <1>1 DEF Kept
<1>5. Balanced(d0, t, X, x)
  BY <1>0, <1>1, <1>2, <1>3, <1>4, BalancedSame DEF C
<1> QED
  BY <1>1, <1>3, <1>4, <1>5 DEF t, C, DataPut

\* The inode of nothing that has a name.
LEMMA BalancedPutNew ==
    ASSUME NEW d0, NEW s, NEW X, NEW x, Balanced(d0, s, X, x),
           NEW i \in Inodes, NEW node, IsNode(node), i \notin Named(s.d)
    PROVE  LET t == PutInode(s, i, node)
           IN  Balanced(d0, t, X, x) /\ SameNames(s.d, t.d) /\ Inode(t.d, i) = node
<1> DEFINE t == PutInode(s, i, node)
           C == Directories(s.d)
<1>0. /\ Ok(d0, s, C) /\ DOMAIN s = {"d", "m", "log"} /\ Open(s.m) /\ IsDisk(s.d)
      /\ CanPut(s.d, C, i, node)
  BY BalancedMeans DEF CanPut
<1> HIDE DEF C
<1>1. /\ Ok(d0, t, C) /\ Kept(s.d, t.d, C) /\ t.d = [s.d EXCEPT !.inode = Put(@, i, node)]
  BY <1>0, OkPutInode
<1>2. t.m = s.m
  BY <1>0, MemoryIs
<1> HIDE DEF t
<1>3. /\ t.d.bmap = s.d.bmap /\ Inode(t.d, i) = node
      /\ \A j : j # i => Inode(t.d, j) = Inode(s.d, j)
  BY <1>0, <1>1, PutNode
<1>4. SameNames(s.d, t.d)
  BY <1>1 DEF Kept
<1>5. Balanced(d0, t, X, x)
  BY <1>0, <1>1, <1>2, <1>3, <1>4, BalancedSame DEF C
<1> QED
  BY <1>3, <1>4, <1>5 DEF t

\* The inode of something that has a name: blocks of X, or another link count.
NodeFits(d, X, i, node) ==
    /\ i \in Inodes /\ IsNode(node) /\ i \in Named(d)
    /\ CanPut(d, Directories(d), i, node) /\ Apart(node)
    /\ \A h \in 1 .. 3 : node.blk[h] # 0 => node.blk[h] \in BlocksOf(d, i) \cup X

\* The inode whose link count is one too high is x before, and y after.
LinksFit(d, x, i, node, y) ==
    /\ i \in Directories(d) \/ node.links = NamesOf(d, i) + Extra(y, i)
    /\ \A j \in Named(d) \ Directories(d) : j # i => Extra(x, j) = Extra(y, j)

NodePut(d, e, i, node) ==
    /\ Kept(d, e, Directories(d)) /\ Inode(e, i) = node
    /\ \A j : j # i => Inode(e, j) = Inode(d, j)
    /\ e.bmap = d.bmap /\ e.content = d.content

LEMMA BalancedPutNode ==
    ASSUME NEW d0, NEW s, NEW X, NEW x, Balanced(d0, s, X, x), NEW i, NEW node,
           NodeFits(s.d, X, i, node), NEW y, LinksFit(s.d, x, i, node, y)
    PROVE  LET t == PutInode(s, i, node)
           IN  /\ Balanced(d0, t, X \ BlocksOf(t.d, i), y) /\ SameNames(s.d, t.d)
               /\ NodePut(s.d, t.d, i, node)
<1> DEFINE t == PutInode(s, i, node)
           C == Directories(s.d)
<1>0. /\ Ok(d0, s, C) /\ DOMAIN s = {"d", "m", "log"} /\ Open(s.m) /\ IsDisk(s.d)
      /\ Booked(s.d, X, x) /\ CanPut(s.d, C, i, node) /\ i \in Reached(s.d, C)
      /\ i \in Inodes /\ IsNode(node) /\ i \in Named(s.d) /\ Apart(node)
  BY BalancedMeans DEF NodeFits
<1> HIDE DEF C
<1>1. /\ Ok(d0, t, C) /\ Kept(s.d, t.d, C) /\ t.d = [s.d EXCEPT !.inode = Put(@, i, node)]
  BY <1>0, OkPutInode
<1>2. t.m = s.m
  BY <1>0, MemoryIs
<1> HIDE DEF t
<1>3. /\ t.d.bmap = s.d.bmap /\ t.d.content = s.d.content /\ Inode(t.d, i) = node
      /\ \A j : j # i => Inode(t.d, j) = Inode(s.d, j)
      /\ BlocksOf(t.d, i) = {node.blk[h] : h \in 1 .. 3} \ {0}
  BY <1>0, <1>1, PutNode
<1>4. SameNames(s.d, t.d) /\ Directories(t.d) = C
  BY <1>1 DEF Kept, SameNames, C
<1>5. /\ BlocksOf(s.d, i) \subseteq BlocksOf(t.d, i)
      /\ BlocksOf(t.d, i) \subseteq BlocksOf(s.d, i) \cup X
  <2>1. \A b \in BlocksOf(s.d, i) : b # 0 /\ \E k \in 1 .. 3 : node.blk[k] = b
    BY <1>0 DEF CanPut, BlocksOf
  <2>2. BlocksOf(s.d, i) \subseteq {node.blk[h] : h \in 1 .. 3} \ {0}
    BY <2>1
  <2>3. {node.blk[h] : h \in 1 .. 3} \ {0} \subseteq BlocksOf(s.d, i) \cup X
    BY DEF NodeFits
  <2> QED
    BY <1>3, <2>2, <2>3
<1>6. Booked(t.d, X \ BlocksOf(t.d, i), y) /\ FreeBlocks(t.d) = FreeBlocks(s.d)
  <2>1. /\ i \in Directories(s.d) \/ Inode(t.d, i).links = NamesOf(s.d, i) + Extra(y, i)
        /\ \A j \in Named(s.d) \ Directories(s.d) : j # i => Extra(x, j) = Extra(y, j)
    BY <1>3 DEF LinksFit
  <2>2. Apart(Inode(t.d, i))
    BY <1>0, <1>3
  <2> QED
    BY <1>0, <1>3, <1>4, <1>5, <2>1, <2>2, BookedNode
<1>7. Balanced(d0, t, X \ BlocksOf(t.d, i), y)
  BY <1>1, <1>2, <1>4, <1>6 DEF Balanced, Counts
<1> QED
  BY <1>1, <1>3, <1>4, <1>7 DEF t, C, NodePut

LEMMA BalancedFilled ==
    ASSUME NEW d0, NEW t, NEW X, NEW x, Balanced(d0, t, X, x),
           NEW p \in Directories(t.d), NEW b \in BlocksOf(t.d, p),
           FreeSlots(t.d, b) # {}, NEW n \in Names, Vacant(t.d, p, n),
           NEW i, Ready(t.d, Directories(t.d), i), Nameable(t.d, X, x, i)
    PROVE  LET u == Filled(t, b, n, i)
           IN  /\ Balanced(d0, u, X \ BlocksOf(t.d, i), Root)
               /\ Directories(t.d) \subseteq Directories(u.d)
<1> DEFINE u == Filled(t, b, n, i)
           C == Directories(t.d)
           G == Grown(t.d, C, i)
<1>0. /\ Ok(d0, t, C) /\ DOMAIN t = {"d", "m", "log"} /\ Open(t.m)
      /\ t.m.freeB = FreeBlocks(t.d) /\ Sound(t.d) /\ Booked(t.d, X, x)
  BY BalancedMeans
<1>1. /\ Ok(d0, u, G) /\ u.d.inode = t.d.inode /\ u.d.bmap = t.d.bmap
      /\ NameAdded(t.d, u.d, p, n, i) /\ Directories(u.d) = G
  BY <1>0, FilledOk
<1>2. u.m = t.m
  BY <1>0, MemoryIs DEF Filled
<1> HIDE DEF u
<1>3. Ok(d0, u, Directories(u.d))
  BY <1>1
<1>4. /\ Booked(u.d, X \ BlocksOf(t.d, i), Root) /\ FreeBlocks(u.d) = FreeBlocks(t.d)
      /\ Directories(t.d) \subseteq Directories(u.d)
  BY <1>0, <1>1, BookedAdded
<1> QED
  BY <1>0, <1>2, <1>3, <1>4 DEF Balanced, Counts, u

LEMMA BalancedRoom ==
    ASSUME NEW d0, NEW s, NEW X, NEW x, Balanced(d0, s, X, x),
           NEW p \in Directories(s.d), NEW i, Ready(s.d, Directories(s.d), i),
           Nameable(s.d, X, x, i),
           NEW k \in 1 .. 3, Inode(s.d, p).blk[k] = 0, FreeBlock(s) # 0
    PROVE  LET t == Room(s, p, k)
           IN  /\ Balanced(d0, t, X, x) /\ Nameable(t.d, X, x, i)
               /\ Directories(t.d) = Directories(s.d)
<1> DEFINE d == s.d
           C == Directories(d)
           f == FreeBlock(s)
           s1 == TakeBlock(s, f)
           data == [of |-> p, entries |-> <<>>]
           s2 == PutBlock(s1, f, data)
           old == Inode(d, p)
           node == Wider(old, k, f)
           t == PutInode(s2, p, node)
           Y == X \cup {f}
<1>1. s2 = RoomData(s, p) /\ t = Room(s, p, k)
  BY DEF RoomData, Room
<1>2. /\ Ok(d0, s, C) /\ IsDisk(d) /\ p \in Named(d) /\ X \subseteq d.bmap
      /\ BlocksOf(d, p) \subseteq d.bmap /\ X \cap BlocksOf(d, p) = {}
      /\ Apart(old)
  BY BalancedMeans DEF Booked
<1> HIDE DEF d, C, s2, t
<1>3. /\ f \in DataBlocks /\ f \notin d.bmap /\ p \in Inodes
      /\ \A h \in 1 .. 3 : node.blk[h] = IF h = k THEN f ELSE old.blk[h]
      /\ IsNode(node) /\ CanPut(s2.d, C, p, node)
      /\ Inode(Room(s, p, k).d, i) = Inode(d, i)
      /\ \A j : Inode(s2.d, j) = Inode(d, j)
  <2>1. Ok(d0, s, Directories(s.d))
    BY <1>2 DEF d, C
  <2>2. /\ FreeBlock(s) \in DataBlocks /\ FreeBlock(s) \notin s.d.bmap /\ p \in Inodes
        /\ \A h \in 1 .. 3 : Wider(Inode(s.d, p), k, FreeBlock(s)).blk[h] =
                             IF h = k THEN FreeBlock(s) ELSE Inode(s.d, p).blk[h]
        /\ IsNode(Wider(Inode(s.d, p), k, FreeBlock(s)))
        /\ CanPut(RoomData(s, p).d, Directories(s.d), p, Wider(Inode(s.d, p), k, FreeBlock(s)))
        /\ \A j : Inode(RoomData(s, p).d, j) = Inode(s.d, j)
        /\ Inode(Room(s, p, k).d, i) = Inode(s.d, i)
    BY <2>1, RoomOk
  <2> QED
    BY <1>1, <2>2 DEF d, C
<1> HIDE DEF f, node, old
<1>4. Balanced(d0, s1, Y, x) /\ SameNames(d, s1.d) /\ f \in Y
  BY <1>3, BalancedTakeBlock DEF d
<1> HIDE DEF s1, Y
<1>5. /\ Balanced(d0, s2, Y, x) /\ SameNames(s1.d, s2.d)
      /\ \A j : Inode(s2.d, j) = Inode(s1.d, j)
  <2>1. IsData(data)
    BY DEF IsData
  <2>2. \A j \in Named(s1.d) : f \notin BlocksOf(s1.d, j)
    BY <1>4, BalancedMeans
  <2> HIDE DEF data
  <2>3. /\ Balanced(d0, PutBlock(s1, f, data), Y, x) /\ SameNames(s1.d, PutBlock(s1, f, data).d)
        /\ \A j : Inode(PutBlock(s1, f, data).d, j) = Inode(s1.d, j)
    <3>1. DataFits(s1.d, f, data)
      BY <1>3, <2>1, <2>2 DEF DataFits
    <3>2. Balanced(d0, s1, Y, x)
      BY <1>4
    <3>3. /\ Balanced(d0, PutBlock(s1, f, data), Y, x) /\ SameNames(s1.d, PutBlock(s1, f, data).d)
          /\ DataPut(s1.d, PutBlock(s1, f, data).d, f, data)
      BY <3>2, <3>1, BalancedPutBlock
    <3> QED
      BY <3>3 DEF DataPut
  <2> QED
    BY <2>3 DEF s2
<1>6. SameNames(d, s2.d) /\ Directories(s2.d) = C /\ Named(s2.d) = Named(d)
  BY <1>4, <1>5 DEF SameNames, C, Named
<1>7. \A h \in 1 .. 3 : old.blk[h] # 0 => old.blk[h] \in BlocksOf(d, p)
  BY <1>2, BlocksAreData DEF old
<1>8. Apart(node)
  BY <1>2, <1>3, <1>7 DEF Apart
<1>9. BlocksOf(s2.d, p) = BlocksOf(d, p)
  BY <1>3 DEF BlocksOf
<1>10. \A h \in 1 .. 3 : node.blk[h] # 0 => node.blk[h] \in BlocksOf(s2.d, p) \cup Y
  BY <1>3, <1>4, <1>7, <1>9
<1>11. /\ Balanced(d0, t, Y \ BlocksOf(t.d, p), x) /\ SameNames(s2.d, t.d)
       /\ BlocksOf(t.d, p) = {node.blk[h] : h \in 1 .. 3} \ {0}
  <2>1. p \in Directories(s2.d) /\ p \in Named(s2.d) /\ CanPut(s2.d, Directories(s2.d), p, node)
    BY <1>2, <1>3, <1>6 DEF C, d
  <2>2. /\ Balanced(d0, PutInode(s2, p, node), Y \ BlocksOf(PutInode(s2, p, node).d, p), x)
        /\ SameNames(s2.d, PutInode(s2, p, node).d)
        /\ BlocksOf(PutInode(s2, p, node).d, p) = {node.blk[h] : h \in 1 .. 3} \ {0}
    <3>1. NodeFits(s2.d, Y, p, node) /\ LinksFit(s2.d, x, p, node, x)
      BY <1>3, <1>8, <1>10, <2>1 DEF NodeFits, LinksFit
    <3>2. Balanced(d0, s2, Y, x)
      BY <1>5
    <3>3. Balanced(d0, PutInode(s2, p, node), Y \ BlocksOf(PutInode(s2, p, node).d, p), x)
      BY <3>1, <3>2, BalancedPutNode
    <3>4. SameNames(s2.d, PutInode(s2, p, node).d)
      BY <3>1, <3>2, BalancedPutNode
    <3>5. NodePut(s2.d, PutInode(s2, p, node).d, p, node)
      BY <3>1, <3>2, BalancedPutNode
    <3> QED
      BY <3>3, <3>4, <3>5 DEF BlocksOf, NodePut
  <2> QED
    BY <2>2 DEF t
<1>12. Y \ BlocksOf(t.d, p) = X
  <2>1. f # 0
    BY <1>3, Layout
  <2>2. f \in BlocksOf(t.d, p)
    BY <1>3, <1>11, <2>1
  <2>3. BlocksOf(t.d, p) \subseteq BlocksOf(d, p) \cup {f}
    BY <1>3, <1>7, <1>11
  <2> QED
    BY <1>2, <1>3, <2>2, <2>3 DEF Y
<1>13. Nameable(t.d, X, x, i)
  <2>1. Named(t.d) = Named(d)
    BY <1>6, <1>11 DEF SameNames, Named
  <2>2. Inode(t.d, i) = Inode(d, i) /\ BlocksOf(t.d, i) = BlocksOf(d, i)
    BY <1>1, <1>3 DEF BlocksOf
  <2> QED
    BY <2>1, <2>2 DEF Nameable, d
<1>14. Directories(t.d) = C
  BY <1>6, <1>11 DEF SameNames
<1> QED
  BY <1>1, <1>11, <1>12, <1>13, <1>14 DEF C, d

\* brfs_add_direntry keeps the books, and touches nothing if it fails.
NameGiven(d0, a, s, X) ==
    \/ /\ a.ok = TRUE /\ Balanced(d0, a.s, X, Root)
       /\ Directories(s.d) \subseteq Directories(a.s.d)
    \/ a.ok = FALSE /\ a.s = s

LEMMA BalancedAddEntry ==
    ASSUME NEW d0, NEW s, NEW X, NEW x, Balanced(d0, s, X, x),
           NEW p \in Directories(s.d), NEW n \in Names, Vacant(s.d, p, Cut[n]),
           NEW i, Ready(s.d, Directories(s.d), i), Nameable(s.d, X, x, i)
    PROVE  NameGiven(d0, AddEntry(s, p, n, i), s, X \ BlocksOf(s.d, i))
<1> DEFINE d == s.d
           C == Directories(d)
           node == Inode(d, p)
           m == Cut[n]
           usable == {h \in 1 .. 3 : node.blk[h] = 0 \/ FreeSlots(d, node.blk[h]) # {}}
           k == Lowest(usable)
           fresh == FreeBlock(s)
           s3 == Room(s, p, k)
           a == AddEntry(s, p, n, i)
           Done(u) == /\ Balanced(d0, u, X \ BlocksOf(s.d, i), Root)
                      /\ Directories(s.d) \subseteq Directories(u.d)
<1>1. a = CASE k = 0                    -> [ok |-> FALSE, s |-> s]
            [] k # 0 /\ node.blk[k] # 0 -> [ok |-> TRUE, s |-> Filled(s, node.blk[k], m, i)]
            [] k # 0 /\ node.blk[k] = 0 /\ fresh = 0 -> [ok |-> FALSE, s |-> s]
            [] OTHER                    -> [ok |-> TRUE, s |-> Filled(s3, fresh, m, i)]
  BY DEF AddEntry, Filled, Room, RoomData, Wider
<1>2. /\ Ok(d0, s, C) /\ IsDisk(d) /\ IsNode(node) /\ SoundFor(d, C)
  BY BalancedMeans, BlocksAreData
<1>3. k \in usable \cup {0}
  <2>1. usable \in SUBSET Nat
    OBVIOUS
  <2> QED
    BY <2>1, LowestBelongs
<1>9. m \in Names /\ Vacant(s.d, p, m)
  BY CutNames
<1> HIDE DEF k, d, a, m
<1>4. k # 0 => /\ k \in 1 .. 3
               /\ node.blk[k] # 0 => FreeSlots(d, node.blk[k]) # {}
  BY <1>3
<1> HIDE DEF node, Done
<1>5. CASE k = 0
  <2>1. a.ok = FALSE /\ a.s = s
    BY <1>1, <1>5
  <2> QED
    BY <2>1 DEF a, NameGiven
<1>6. CASE k # 0 /\ node.blk[k] # 0
  <2>1. node.blk[k] \in BlocksOf(d, p)
    BY <1>2, <1>4, <1>6, BlocksAreData DEF node
  <2>2. Done(Filled(s, node.blk[k], m, i))
    BY <1>4, <1>6, <1>9, <2>1, BalancedFilled DEF d, Done
  <2>3. a.ok = TRUE /\ a.s = Filled(s, node.blk[k], m, i)
    BY <1>1, <1>6
  <2> QED
    BY <2>2, <2>3 DEF a, Done, NameGiven
<1>7. CASE k # 0 /\ node.blk[k] = 0 /\ fresh = 0
  <2>1. a.ok = FALSE /\ a.s = s
    BY <1>1, <1>7
  <2> QED
    BY <2>1 DEF a, NameGiven
<1>8. CASE k # 0 /\ node.blk[k] = 0 /\ fresh # 0
  <2>1. a.ok = TRUE /\ a.s = Filled(s3, fresh, m, i)
    BY <1>1, <1>8
  <2>2. /\ k \in 1 .. 3 /\ Inode(s.d, p).blk[k] = 0 /\ FreeBlock(s) # 0
        /\ Ok(d0, s, Directories(s.d)) /\ p \in Directories(s.d)
    BY <1>2, <1>4, <1>8 DEF node, d
  <2>3. /\ Balanced(d0, s3, X, x) /\ Nameable(s3.d, X, x, i)
        /\ Directories(s3.d) = Directories(s.d)
    BY <2>2, BalancedRoom
  <2>4. /\ Kept(s.d, s3.d, Directories(s.d))
        /\ fresh \in BlocksOf(s3.d, p) /\ FreeSlots(s3.d, fresh) # {}
        /\ Ready(s3.d, Directories(s.d), i) /\ Inode(s3.d, i) = Inode(s.d, i)
    BY <2>2, RoomOk
  <2> HIDE DEF s3, fresh
  <2>5. Vacant(s3.d, p, m)
    BY <1>9, <2>4 DEF Kept, Vacant
  <2>6. BlocksOf(s3.d, i) = BlocksOf(s.d, i)
    BY <2>4 DEF BlocksOf
  <2>7. Done(Filled(s3, fresh, m, i))
    BY <1>9, <2>3, <2>4, <2>5, <2>6, BalancedFilled DEF Done
  <2> QED
    BY <2>1, <2>7 DEF Done, a, NameGiven
<1> QED
  BY <1>5, <1>6, <1>7, <1>8


\* What follows of a named inode.
LEMMA BalancedNamed ==
    ASSUME NEW d0, NEW s, NEW X, NEW x, Balanced(d0, s, X, x), NEW i \in Named(s.d)
    PROVE  /\ IsNode(Inode(s.d, i)) /\ Backed(s.d, i) /\ i \in Inodes
           /\ \A k \in 1 .. 3 : Inode(s.d, i).blk[k] # 0 => Inode(s.d, i).blk[k] \in BlocksOf(s.d, i)
           /\ \A b \in BlocksOf(s.d, i) : \E k \in 1 .. 3 : Inode(s.d, i).blk[k] = b
           /\ \A b \in BlocksOf(s.d, i) : b \in s.d.bmap /\ s.d.content[b].of = i
           /\ X \cap BlocksOf(s.d, i) = {} /\ Apart(Inode(s.d, i))
           /\ Cardinality(Refs(s.d, Directories(s.d), i)) \in Nat
<1>1. /\ IsDisk(s.d) /\ SoundFor(s.d, Directories(s.d)) /\ Booked(s.d, X, x)
      /\ Reached(s.d, Directories(s.d)) = Named(s.d) /\ X \cap BlocksOf(s.d, i) = {}
  BY BalancedMeans
<1>2. Backed(s.d, i)
  BY <1>1 DEF SoundFor
<1>3. Apart(Inode(s.d, i))
  BY <1>1 DEF Booked
<1>4. IsNode(Inode(s.d, i)) /\ i \in Inodes
  BY <1>1, <1>2, BlocksAreData DEF Backed
<1>5. /\ \A k \in 1 .. 3 : Inode(s.d, i).blk[k] # 0 => Inode(s.d, i).blk[k] \in BlocksOf(s.d, i)
      /\ \A b \in BlocksOf(s.d, i) : \E k \in 1 .. 3 : Inode(s.d, i).blk[k] = b
  BY <1>1, BlocksAreData
<1>6. \A b \in BlocksOf(s.d, i) : b \in s.d.bmap /\ s.d.content[b].of = i
  BY <1>2 DEF Backed
<1>7. Cardinality(Refs(s.d, Directories(s.d), i)) \in Nat
  BY <1>1, Leading
<1> QED
  BY <1>1, <1>2, <1>3, <1>4, <1>5, <1>6, <1>7

\* A change of the link count.
LEMMA BalancedLinks ==
    ASSUME NEW d0, NEW s, NEW X, NEW x, Balanced(d0, s, X, x), NEW i \in Named(s.d),
           NEW n \in Int, n >= Cardinality(Refs(s.d, Directories(s.d), i)) \/ i \in Directories(s.d),
           NEW node, node = [Inode(s.d, i) EXCEPT !.links = n],
           NEW y, LinksFit(s.d, x, i, node, y)
    PROVE  LET t == PutInode(s, i, node)
           IN  /\ Balanced(d0, t, X, y) /\ SameNames(s.d, t.d) /\ NodePut(s.d, t.d, i, node)
               /\ Inode(t.d, i).kind = Inode(s.d, i).kind /\ Inode(t.d, i).links = n
               /\ BlocksOf(t.d, i) = BlocksOf(s.d, i) /\ Backed(t.d, i)
<1> DEFINE d == s.d
           old == Inode(d, i)
           C == Directories(d)
           t == PutInode(s, i, node)
<1>0. SoundFor(d, C) /\ IsDisk(d) /\ Ok(d0, s, C)
  BY BalancedMeans
<1>1. /\ Backed(d, i) /\ i \in Inodes /\ IsNode(old)
      /\ \A k \in 1 .. 3 : old.blk[k] # 0 => old.blk[k] \in BlocksOf(d, i)
      /\ \A b \in BlocksOf(d, i) : \E k \in 1 .. 3 : old.blk[k] = b
      /\ \A b \in BlocksOf(d, i) : b \in d.bmap /\ d.content[b].of = i
      /\ X \cap BlocksOf(d, i) = {} /\ Apart(old)
  BY BalancedNamed
<1> HIDE DEF C, old
<1>2. IsNode(node) /\ node.kind = old.kind /\ node.blk = old.blk /\ node.links = n
  BY <1>1 DEF IsNode, old
<1>3. CanPut(d, C, i, node)
  BY <1>1, <1>2 DEF CanPut, C, old
<1>4. Apart(node) /\ \A h \in 1 .. 3 : node.blk[h] # 0 => node.blk[h] \in BlocksOf(d, i) \cup X
  BY <1>1, <1>2 DEF Apart
<1>5. NodeFits(d, X, i, node)
  BY <1>1, <1>2, <1>3, <1>4 DEF NodeFits, C
<1>6. Balanced(d0, t, X \ BlocksOf(t.d, i), y)
  BY <1>5, BalancedPutNode
<1>7. SameNames(d, t.d)
  BY <1>5, BalancedPutNode
<1>8. NodePut(d, t.d, i, node)
  BY <1>5, BalancedPutNode
<1>9. /\ Ok(d0, t, C) /\ t.d.imap = d.imap
  <2>1. Ok(d0, t, C) /\ t.d = [d EXCEPT !.inode = Put(@, i, node)]
    BY <1>0, <1>1, <1>2, <1>3, OkPutInode
  <2> HIDE DEF t
  <2> QED
    BY <1>0, <1>1, <1>2, <2>1, PutNode
<1> HIDE DEF t
<1>10. BlocksOf(t.d, i) = BlocksOf(d, i)
  BY <1>2, <1>8 DEF BlocksOf, NodePut, old
<1>11. X \ BlocksOf(t.d, i) = X
  BY <1>1, <1>10
<1>12. Backed(t.d, i)
  BY <1>1, <1>2, <1>8, <1>9, <1>10 DEF Backed, NodePut, old
<1>13. Inode(t.d, i).kind = Inode(s.d, i).kind /\ Inode(t.d, i).links = n
  BY <1>2, <1>8 DEF NodePut, old
<1> QED
  BY <1>6, <1>7, <1>8, <1>10, <1>11, <1>12, <1>13 DEF t

\* brfs_link counts the name before it is written, and takes the count back if
\* there is no room for it.
LEMMA BalancedLink ==
    ASSUME NEW d0, NEW s, Balanced(d0, s, {}, Root),
           NEW p \in Directories(s.d), NEW n \in Names, NEW i \in Named(s.d)
    PROVE  Balanced(d0, Link(s, p, n, i), {}, Root)
<1> DEFINE d == s.d
           C == Directories(d)
           node == Inode(d, i)
           more == node.links + 1
           high == [node EXCEPT !.links = more]
           up == PutInode(s, i, high)
           added == AddEntry(up, p, n, i)
           down == PutInode(added.s, i, [Inode(added.s.d, i) EXCEPT !.links = @ - 1])
<1>1. Link(s, p, n, i) =
        CASE Lookup(d, p, n) > 0 \/ node.kind = "dir" -> s
          [] Lookup(d, p, n) = 0 /\ node.kind # "dir" /\ added.ok -> added.s
          [] OTHER -> down
  BY DEF Link
<1>2. /\ SoundFor(d, C) /\ IsDisk(d) /\ IsNode(node) /\ Backed(d, i)
      /\ Ok(d0, s, C) /\ Reached(d, C) = Named(d) /\ Root \in C /\ Booked(d, {}, Root)
      /\ Cardinality(Refs(d, C, i)) \in Nat
  BY BalancedMeans, BalancedNamed
<1>3. Lookup(d, p, n) \in Nat
  BY <1>2, LookupType
<1> HIDE DEF C, node
<1>4. CASE Lookup(d, p, n) > 0 \/ node.kind = "dir"
  BY <1>1, <1>4
<1>5. CASE Lookup(d, p, n) = 0 /\ node.kind # "dir"
  <2>1. /\ node.links \in Int /\ more \in Int /\ i \notin C /\ i # Root
        /\ node.links >= Cardinality(Refs(d, C, i))
        /\ more >= Cardinality(Refs(d, C, i))
    <3>1. node.links \in Int /\ i \notin C /\ i # Root
      BY <1>2, <1>5 DEF IsNode, SoundFor, node
    <3>2. node.links >= Cardinality(Refs(d, C, i))
      BY <1>2, <3>1 DEF SoundFor, node
    <3> QED
      BY <1>2, <3>1, <3>2
  <2>2. node.links = NamesOf(d, i) /\ NamesOf(d, i) \in Nat
    <3>1. node.links = NamesOf(d, i) + Extra(Root, i)
      BY <1>2, <2>1 DEF Booked, node, C
    <3>2. NamesOf(d, i) \in Nat /\ Extra(Root, i) = 0
      BY <1>2, <2>1, NamesCounted DEF NamesOf, Extra, C
    <3> QED
      BY <3>1, <3>2
  <2>3. high.links = more
    BY <1>2 DEF IsNode
  <2>4. LinksFit(d, Root, i, high, i)
    <3>1. high.links = NamesOf(d, i) + Extra(i, i)
      BY <2>2, <2>3 DEF Extra
    <3>2. \A j \in Named(d) \ Directories(d) : j # i => Extra(Root, j) = Extra(i, j)
      BY <1>2 DEF Extra, C
    <3> QED
      BY <3>1, <3>2 DEF LinksFit
  <2> HIDE DEF more
  <2>5. /\ Balanced(d0, up, {}, i) /\ SameNames(d, up.d) /\ NodePut(d, up.d, i, high)
        /\ Inode(up.d, i).kind = node.kind /\ Inode(up.d, i).links = more
        /\ BlocksOf(up.d, i) = BlocksOf(d, i) /\ Backed(up.d, i)
    BY <1>2, <2>1, <2>4, BalancedLinks DEF node, C
  <2> HIDE DEF up, high
  <2>6. Directories(up.d) = C /\ Named(up.d) = Named(d) /\ Kept(d, up.d, C)
    BY <2>5 DEF SameNames, Named, NodePut, C
  <2>7. Ready(up.d, C, i)
    <3>1. more >= Cardinality(Refs(d, C, i)) + 1
      BY <1>2, <2>1 DEF more
    <3> QED
      BY <1>5, <2>5, <2>6, <3>1 DEF Ready, Kept
  <2>8. Vacant(up.d, p, Cut[n])
    <3>1. Vacant(d, p, Cut[n])
      BY <1>2, <1>5, LookupVacant DEF C
    <3> QED
      BY <2>6, <3>1 DEF Kept, Vacant, C
  <2>9. Nameable(up.d, {}, i, i)
    BY <2>6 DEF Nameable
  <2>10. \/ added.ok = TRUE /\ Balanced(d0, added.s, {} \ BlocksOf(up.d, i), Root)
         \/ added.ok = FALSE /\ added.s = up
    <3>1. p \in Directories(up.d) /\ Ready(up.d, Directories(up.d), i) /\ Balanced(d0, up, {}, i)
      BY <2>5, <2>6, <2>7 DEF C
    <3> DEFINE X == {}
    <3>2. Nameable(up.d, X, i, i) /\ Balanced(d0, up, X, i)
      BY <2>9, <3>1
    <3> HIDE DEF X
    <3>3. NameGiven(d0, AddEntry(up, p, n, i), up, X \ BlocksOf(up.d, i))
      BY <2>8, <3>1, <3>2, BalancedAddEntry
    <3> QED
      BY <3>3 DEF X, NameGiven
  <2>11. {} \ BlocksOf(up.d, i) = {}
    OBVIOUS
  <2> HIDE DEF added
  <2>12. CASE added.ok = TRUE /\ Balanced(d0, added.s, {}, Root)
    BY <1>1, <1>3, <1>5, <2>12
  <2>13. CASE added.ok = FALSE /\ added.s = up
    <3> DEFINE less == more - 1
               low == [Inode(up.d, i) EXCEPT !.links = less]
    <3>1. Link(s, p, n, i) = PutInode(up, i, low)
      BY <1>1, <1>3, <1>5, <2>5, <2>13
    <3>2. less = node.links /\ less \in Int
      BY <2>1 DEF more
    <3>3. low.links = less
      <4>1. IsNode(Inode(up.d, i))
        BY <2>5, BalancedMeans, BlocksAreData
      <4> QED
        BY <4>1 DEF IsNode
    <3>4. LinksFit(up.d, i, i, low, Root)
      <4>1. NamesOf(up.d, i) = NamesOf(d, i)
        BY <2>5 DEF SameNames, NamesOf
      <4>2. low.links = NamesOf(up.d, i) + Extra(Root, i)
        BY <2>1, <2>2, <3>2, <3>3, <4>1 DEF Extra
      <4>3. \A j \in Named(up.d) \ Directories(up.d) : j # i => Extra(i, j) = Extra(Root, j)
        BY <1>2, <2>6 DEF Extra
      <4> QED
        BY <4>2, <4>3 DEF LinksFit
    <3>5. less >= Cardinality(Refs(up.d, Directories(up.d), i))
      BY <2>1, <2>6, <3>2 DEF Kept
    <3> HIDE DEF less, low
    <3>6. Balanced(d0, PutInode(up, i, low), {}, Root)
      <4>1. i \in Named(up.d) /\ Balanced(d0, up, {}, i)
        BY <2>5, <2>6
      <4>2. low = [Inode(up.d, i) EXCEPT !.links = less]
        BY DEF low
      <4> QED
        BY <3>2, <3>4, <3>5, <4>1, <4>2, BalancedLinks
    <3> QED
      BY <3>1, <3>6
  <2> QED
    BY <2>10, <2>11, <2>12, <2>13
<1> QED
  BY <1>3, <1>4, <1>5

\* The last part of brfs_unlink: a link less, or the blocks and the inode.
LEMMA BalancedFewer ==
    ASSUME NEW d0, NEW s, NEW i \in Named(s.d), Balanced(d0, s, {}, i), i \notin Directories(s.d),
           NamesOf(s.d, i) \in Nat \ {0}, Inode(s.d, i).links = NamesOf(s.d, i) + 1,
           Inode(s.d, i).links >= Cardinality(Refs(s.d, Directories(s.d), i)) + 1
    PROVE  Balanced(d0, Release(s, i), {}, Root)
<1> DEFINE d == s.d
           node == Inode(d, i)
           less == node.links - 1
           low == [node EXCEPT !.links = less]
<1>1. /\ IsNode(node) /\ Cardinality(Refs(d, Directories(d), i)) \in Nat /\ Root \in Directories(d)
  BY BalancedMeans, BalancedNamed
<1>2. /\ less = NamesOf(d, i) /\ less \in Int /\ node.links - 1 > 0
      /\ less >= Cardinality(Refs(d, Directories(d), i))
  BY <1>1
<1>3. Release(s, i) = PutInode(s, i, low)
  BY <1>2 DEF Release
<1>4. low.links = less
  BY <1>1 DEF IsNode
<1>5. LinksFit(d, i, i, low, Root)
  <2>1. low.links = NamesOf(d, i) + Extra(Root, i)
    BY <1>1, <1>2, <1>4 DEF Extra
  <2>2. \A j \in Named(d) \ Directories(d) : j # i => Extra(i, j) = Extra(Root, j)
    BY <1>1 DEF Extra
  <2> QED
    BY <2>1, <2>2 DEF LinksFit
<1>6. low = [Inode(s.d, i) EXCEPT !.links = less]
  OBVIOUS
<1> HIDE DEF less, low
<1>7. Balanced(d0, PutInode(s, i, low), {}, Root)
  BY <1>2, <1>5, <1>6, BalancedLinks
<1> QED
  BY <1>3, <1>7

LEMMA BalancedFreed ==
    ASSUME NEW d0, NEW s, NEW i, i \notin Named(s.d), Inode(s.d, i).links = 1,
           Apart(Inode(s.d, i)), Balanced(d0, s, BlocksOf(s.d, i), Root)
    PROVE  Balanced(d0, Release(s, i), {}, Root)
<1> DEFINE node == Inode(s.d, i)
           without(t, k) == IF node.blk[k] = 0 THEN t ELSE DropBlock(t, node.blk[k])
           Left(k) == {node.blk[h] : h \in k .. 3} \ {0}
           Part(t, k) == Balanced(d0, t, Left(k), Root) /\ i \notin Named(t.d)
           t1 == without(s, 1)
           t2 == without(t1, 2)
           t3 == without(t2, 3)
<1>1. Release(s, i) = DropInode(t3, i)
  BY DEF Release
<1>2. Part(s, 1)
  BY DEF BlocksOf
<1> HIDE DEF node
<1>3. ASSUME NEW t, NEW k \in 1 .. 3, Part(t, k) PROVE Part(without(t, k), k + 1)
  <2>1. k .. 3 = {k} \cup (k + 1) .. 3 /\ k \notin (k + 1) .. 3 /\ k .. 3 \subseteq 1 .. 3
    OBVIOUS
  <2>2. CASE node.blk[k] = 0
    <3>1. Left(k) = Left(k + 1)
      BY <2>1, <2>2
    <3> QED
      BY <1>3, <2>2, <3>1
  <2>3. CASE node.blk[k] # 0
    <3> DEFINE b == node.blk[k]
               X == Left(k)
               u == DropBlock(t, b)
    <3>1. b \in X /\ X \ {b} = Left(k + 1)
      <4>1. b \in X
        BY <2>1, <2>3
      <4>2. X = Left(k + 1) \cup {b}
        BY <2>1, <2>3
      <4>3. b \notin Left(k + 1)
        <5>1. \A h \in (k + 1) .. 3 : h \in 1 .. 3 /\ h # k
          BY <2>1
        <5> QED
          BY <2>3, <5>1 DEF Apart, node
      <4> QED
        BY <4>1, <4>2, <4>3
    <3> HIDE DEF b
    <3>2. without(t, k) = u
      BY <2>3 DEF b
    <3>3. Balanced(d0, t, X, Root) /\ i \notin Named(t.d)
      BY <1>3
    <3> HIDE DEF X, u
    <3>4. Balanced(d0, u, X \ {b}, Root) /\ SameNames(t.d, u.d)
      BY <3>1, <3>3, BalancedDropBlock DEF u
    <3>5. i \notin Named(u.d)
      BY <3>3, <3>4 DEF SameNames, Named
    <3> HIDE DEF Left, without
    <3> QED
      BY <3>1, <3>2, <3>4, <3>5 DEF X
  <2> QED
    BY <2>2, <2>3
<1> HIDE DEF Part
<1>4. Part(t1, 2) /\ Part(t2, 3) /\ Part(t3, 4)
  <2> HIDE DEF without
  <2>1. Part(t1, 2)
    BY <1>2, <1>3
  <2> HIDE DEF t1
  <2>2. Part(t2, 3)
    BY <1>3, <2>1
  <2> HIDE DEF t2
  <2> QED
    BY <1>3, <2>1, <2>2
<1>5. Left(4) = {}
  OBVIOUS
<1> HIDE DEF t3, Left
<1>6. Balanced(d0, t3, {}, Root) /\ i \notin Named(t3.d)
  BY <1>4, <1>5 DEF Part
<1>7. Balanced(d0, DropInode(t3, i), {}, Root)
  BY <1>6, BalancedDropInode
<1> QED
  BY <1>1, <1>7

LEMMA BalancedUnlink ==
    ASSUME NEW d0, NEW s, Balanced(d0, s, {}, Root), NEW p \in Directories(s.d), NEW n \in Names
    PROVE  Balanced(d0, Unlink(s, p, n), {}, Root)
<1> DEFINE d == s.d
           C == Directories(d)
           i == Lookup(d, p, n)
           place == FirstPlace(Places(d, p, n))
           b == Inode(d, p).blk[place[1]]
           k == place[2]
           old == d.content[b]
           data == [old EXCEPT !.entries = Restrict(@, DOMAIN @ \ {k})]
           t == PutBlock(s, b, data)
<1>1. CASE i = 0 \/ Inode(d, i).kind = "dir"
  BY <1>1 DEF Unlink
<1>2. CASE i # 0 /\ Inode(d, i).kind # "dir"
  <2>1. Unlink(s, p, n) = Release(t, i)
    BY <1>2 DEF Unlink
  <2>2. /\ SoundFor(d, C) /\ IsDisk(d) /\ Sound(d) /\ Ok(d0, s, C) /\ Booked(d, {}, Root)
        /\ DOMAIN s = {"d", "m", "log"} /\ Open(s.m) /\ s.m.freeB = FreeBlocks(d)
    BY BalancedMeans
  <2>3. i \in Inodes /\ k \in DirSlots /\ b \in BlocksOf(d, p) /\ NamesAt(d, b, k, i)
    BY <1>2, <2>2, LookupFinds
  <2> HIDE DEF i, k, b, place, C
  <2>4. b \in DataBlocks
    BY <2>2, <2>3, BlocksAreData
  <2>5. IsData(old)
    BY <2>2, <2>4 DEF IsDisk
  <2>6. IsData(data) /\ data.of = d.content[b].of /\ Emptied(d, b, k, data)
    BY <2>5 DEF IsData, EntriesOf, Restrict, Emptied
  <2> DEFINE e == [d EXCEPT !.content[b] = data]
  <2>7. Wrote(d, e, b, data)
    BY DEF Wrote
  <2>8. t = Logged(s, e, FALSE)
    BY DEF PutBlock
  <2> HIDE DEF e, data, old
  <2>9. t.m = s.m
    BY <2>2, MemoryIs
  <2>10. p \in C
    BY DEF C, d
  <2> HIDE DEF d, t
  <2>11. /\ SoundFor(e, C) /\ i \notin C /\ Inode(e, i) = Inode(d, i)
         /\ Inode(e, i).links >= Cardinality(Refs(e, C, i)) + 1
    BY <1>2, <2>2, <2>3, <2>6, <2>7, <2>10, DropName
  <2>12. Step(d, e) /\ \E u \in Tree(d) : u.ino = i /\ NameDropped(d, e, u)
    BY <1>2, <2>2, <2>3, <2>6, <2>7, <2>10, DropNameStep DEF C
  <2>13. Ok(d0, t, C) /\ t.d = e
    BY <2>2, <2>8, <2>11, <2>12, OkWrite DEF d
  <2>14. e.inode = d.inode /\ e.bmap = d.bmap /\ BlocksOf(e, i) = BlocksOf(d, i)
    BY <2>2, <2>4, <2>6, <2>7, PutData
  <2>15. PICK u \in Tree(d) : u.ino = i /\ NameDropped(d, e, u)
    BY <2>12
  <2>16. Directories(e) = C
    BY <2>15 DEF NameDropped, C
  <2> DEFINE X == {}
  <2>17. Booked(d, X, Root)
    BY <2>2
  <2> HIDE DEF X
  <2>18. Uncounted(d, e, i, X)
    BY <2>2, <2>14, <2>15, <2>17, BookedDropped
  <2>19. Ok(d0, t, Directories(t.d)) /\ Counts(t)
    BY <2>2, <2>9, <2>13, <2>16, <2>18 DEF Counts, Uncounted
  <2>20. CASE NamesOf(d, i) > 1
    <3>1. Booked(t.d, {}, i) /\ i \in Named(t.d)
      BY <2>13, <2>18, <2>20 DEF X, Uncounted
    <3>2. Balanced(d0, t, {}, i)
      BY <2>19, <3>1 DEF Balanced
    <3>3. /\ NamesOf(t.d, i) \in Nat \ {0} /\ Inode(t.d, i).links = NamesOf(t.d, i) + 1
      BY <2>11, <2>13, <2>18, <2>20 DEF Uncounted
    <3>4. Inode(t.d, i).links >= Cardinality(Refs(t.d, Directories(t.d), i)) + 1 /\ i \notin Directories(t.d)
      BY <2>11, <2>13, <2>16
    <3> QED
      BY <2>1, <3>1, <3>2, <3>3, <3>4, BalancedFewer
  <2>21. CASE NamesOf(d, i) = 1
    <3>1. X \cup BlocksOf(d, i) = BlocksOf(t.d, i)
      BY <2>13, <2>14 DEF X
    <3>2. Balanced(d0, t, BlocksOf(t.d, i), Root)
      BY <2>13, <2>18, <2>19, <2>21, <3>1 DEF Balanced, Uncounted
    <3>3. i \notin Named(t.d) /\ Inode(t.d, i).links = 1 /\ Apart(Inode(t.d, i))
      BY <2>11, <2>13, <2>18, <2>21 DEF Uncounted
    <3> QED
      BY <2>1, <3>2, <3>3, BalancedFreed
  <2> QED
    BY <2>18, <2>20, <2>21 DEF Uncounted
<1> QED
  BY <1>1, <1>2

\* brfs_mkdir and brfs_symlink: the new block is nobody's until the inode has
\* its name, and given back if there is no room for the name.
LEMMA BalancedMadeNode ==
    ASSUME NEW d0, NEW s, Balanced(d0, s, {}, Root), NEW p, NEW kind \in {"dir", "lnk"},
           NEW i, i = FreeInode(s), i # 0,
           NEW b, b = FreeBlock(TakeInode(s, i)), b # 0
    PROVE  LET t == MadeNode(s, p, kind)
           IN  /\ Balanced(d0, t, {b}, Root) /\ SameNames(s.d, t.d) /\ i \notin Named(t.d)
               /\ BlocksOf(t.d, i) = {b} /\ Nameable(t.d, {b}, Root, i)
<1> DEFINE s1 == TakeInode(s, i)
           s2 == TakeBlock(s1, b)
           data == FirstContents(kind, i, p)
           s3 == PutBlock(s2, b, data)
           node == FirstNode(kind, b)
           t == PutInode(s3, i, node)
           X == {b}
<1>1. t = MadeNode(s, p, kind)
  BY DEF MadeNode
<1>2. /\ SoundFor(s.d, Directories(s.d)) /\ Reached(s.d, Directories(s.d)) = Named(s.d)
  BY BalancedMeans
<1>3. i \in Inodes /\ i \notin Named(s.d)
  BY <1>2, FreshInode
<1>4. Balanced(d0, s1, {}, Root) /\ SameNames(s.d, s1.d)
  BY BalancedTakeInode
<1>5. b \in DataBlocks /\ b \notin s1.d.bmap
  <2>1. SoundFor(s1.d, Directories(s1.d)) /\ FreeBlock(s1) # 0
    BY <1>4, BalancedMeans
  <2> HIDE DEF s1
  <2>2. FreeBlock(s1) \in DataBlocks /\ FreeBlock(s1) \notin s1.d.bmap
    BY <2>1, FreshBlock
  <2> QED
    BY <2>2 DEF s1
<1> HIDE DEF s1
<1>6. Balanced(d0, s2, X, Root) /\ SameNames(s1.d, s2.d)
  <2> DEFINE none == {}
  <2>1. Balanced(d0, s1, none, Root)
    BY <1>4
  <2> HIDE DEF none
  <2>2. Balanced(d0, s2, none \cup {b}, Root)
    BY <1>5, <2>1, BalancedTakeBlock
  <2>3. SameNames(s1.d, s2.d)
    BY <1>5, <2>1, BalancedTakeBlock
  <2>4. none \cup {b} = X
    BY DEF none
  <2> QED
    BY <2>2, <2>3, <2>4
<1> HIDE DEF s2
<1>7. /\ IsNode(node) /\ IsData(data) /\ node.kind = kind
      /\ {node.blk[k] : k \in 1 .. 3} \ {0} = {b}
  BY <1>5, FirstParts
<1>8. /\ Apart(node) /\ (kind = "dir" \/ node.links = 1)
  <2>1. node = [kind |-> kind, links |-> IF kind = "dir" THEN 2 ELSE 1, blk |-> <<b, 0, 0>>]
    BY DEF FirstNode, Node
  <2>2. <<b, 0, 0>>[1] = b /\ <<b, 0, 0>>[2] = 0 /\ <<b, 0, 0>>[3] = 0
    OBVIOUS
  <2>3. node.blk[1] = b /\ node.blk[2] = 0 /\ node.blk[3] = 0
    BY <2>1, <2>2
  <2>4. kind = "dir" \/ node.links = 1
    BY <2>1
  <2> HIDE DEF node
  <2> QED
    BY <2>3, <2>4 DEF Apart
<1> HIDE DEF node, data
<1>9. Balanced(d0, s3, X, Root) /\ SameNames(s2.d, s3.d)
  <2>1. DataFits(s2.d, b, data)
    <3>1. \A j \in Named(s2.d) : X \cap BlocksOf(s2.d, j) = {}
      BY <1>6, BalancedMeans
    <3> QED
      BY <1>5, <1>7, <3>1 DEF DataFits
  <2> HIDE DEF X
  <2> QED
    BY <1>6, <2>1, BalancedPutBlock
<1> HIDE DEF s3
<1>10. i \notin Named(s3.d)
  BY <1>3, <1>4, <1>6, <1>9 DEF SameNames, Named
<1>11. Balanced(d0, t, X, Root) /\ SameNames(s3.d, t.d) /\ Inode(t.d, i) = node
  <2> HIDE DEF X
  <2> QED
    BY <1>3, <1>7, <1>9, <1>10, BalancedPutNew
<1> HIDE DEF t
<1>12. BlocksOf(t.d, i) = {b}
  BY <1>7, <1>11 DEF BlocksOf
<1>13. SameNames(s.d, t.d) /\ i \notin Named(t.d)
  BY <1>4, <1>6, <1>9, <1>10, <1>11 DEF SameNames, Named
<1>14. Nameable(t.d, {b}, Root, i)
  BY <1>7, <1>8, <1>11, <1>12, <1>13 DEF Nameable
<1> QED
  BY <1>1, <1>11, <1>12, <1>13, <1>14

\* A session in balance, with the directories of s and maybe more.
Settles(d0, s, t) == Balanced(d0, t, {}, Root) /\ Directories(s.d) \subseteq Directories(t.d)

LEMMA BalancedMake ==
    ASSUME NEW d0, NEW s, Balanced(d0, s, {}, Root), NEW p \in Directories(s.d), NEW n \in Names,
           NEW kind \in {"dir", "lnk"}
    PROVE  Settles(d0, s, MakeWithBlock(s, p, n, kind).s)
<1> DEFINE C == Directories(s.d)
           i == FreeInode(s)
           s1 == TakeInode(s, i)
           b == FreeBlock(s1)
           t == MadeNode(s, p, kind)
           added == AddEntry(t, p, n, i)
           made == MakeWithBlock(s, p, n, kind)
           there == Lookup(s.d, p, n)
<1>1. made.s =
        CASE there > 0 \/ i = 0 -> s
          [] there = 0 /\ i > 0 /\ b = 0 -> DropInode(s1, i)
          [] there = 0 /\ i > 0 /\ b > 0 /\ added.ok -> added.s
          [] OTHER -> DropInode(DropBlock(added.s, b), i)
  <2>1. made =
        CASE there > 0 \/ i = 0 -> [ok |-> FALSE, s |-> s]
          [] there = 0 /\ i > 0 /\ b = 0 -> [ok |-> FALSE, s |-> DropInode(s1, i)]
          [] there = 0 /\ i > 0 /\ b > 0 /\ added.ok -> [ok |-> TRUE, s |-> added.s]
          [] OTHER -> [ok |-> FALSE, s |-> DropInode(DropBlock(added.s, b), i)]
    BY DEF MakeWithBlock, MadeNode
  <2> HIDE DEF made, added, b, s1, i, there
  <2> QED
    BY <2>1
<1>2. SoundFor(s.d, C) /\ Ok(d0, s, C) /\ Reached(s.d, C) = Named(s.d)
  BY BalancedMeans
<1>3. there \in Nat
  BY <1>2, LookupType
<1>4. i \in Nat /\ (i # 0 => i \notin Named(s.d))
  BY <1>2, FreshInode, Layout
<1>5. Balanced(d0, s1, {}, Root) /\ SameNames(s.d, s1.d)
  BY BalancedTakeInode
<1>6. b # 0 => b \in Nat
  <2>1. SoundFor(s1.d, Directories(s1.d))
    BY <1>5, BalancedMeans
  <2> HIDE DEF s1
  <2> QED
    BY <2>1, FreshBlock, Layout
<1>7. CASE there > 0 \/ i = 0
  <2> HIDE DEF made, added, b, s1, i, there
  <2>1. made.s = s
    BY <1>1, <1>7
  <2> QED
    BY <2>1 DEF made, Settles
<1>8. CASE there = 0 /\ i # 0 /\ b = 0
  <2>1. i \notin Named(s1.d)
    BY <1>4, <1>5, <1>8 DEF SameNames, Named
  <2>2. made.s = DropInode(s1, i)
    <3> HIDE DEF made, added, b, s1, i, there
    <3> QED
      BY <1>1, <1>3, <1>4, <1>8
  <2> HIDE DEF made, s1, i
  <2>3. Balanced(d0, DropInode(s1, i), {}, Root) /\ SameNames(s1.d, DropInode(s1, i).d)
    BY <1>5, <2>1, BalancedDropInode
  <2>4. Settles(d0, s, DropInode(s1, i))
    BY <1>5, <2>3 DEF Settles, SameNames
  <2> QED
    BY <2>2, <2>4 DEF made
<1>9. CASE there = 0 /\ i # 0 /\ b # 0
  <2>1. /\ Balanced(d0, t, {b}, Root) /\ SameNames(s.d, t.d) /\ i \notin Named(t.d)
        /\ BlocksOf(t.d, i) = {b} /\ Nameable(t.d, {b}, Root, i)
    BY <1>9, BalancedMadeNode
  <2>2. /\ Ok(d0, t, C) /\ Ready(t.d, C, i)
        /\ \A q \in C : NamesIn(t.d, q) = NamesIn(s.d, q)
    BY <1>2, <1>9, MadeNodeOk
  <2>3. Vacant(s.d, p, Cut[n])
    BY <1>2, <1>9, LookupVacant
  <2> HIDE DEF t, b, s1, i, there
  <2>4. Vacant(t.d, p, Cut[n]) /\ Directories(t.d) = C
    BY <2>1, <2>2, <2>3 DEF Vacant, SameNames
  <2> DEFINE X == {b}
  <2>5. NameGiven(d0, added, t, X \ BlocksOf(t.d, i))
    <3>1. p \in Directories(t.d) /\ Ready(t.d, Directories(t.d), i)
      BY <2>2, <2>4
    <3>2. Balanced(d0, t, X, Root) /\ Nameable(t.d, X, Root, i)
      BY <2>1
    <3> HIDE DEF X, C
    <3> QED
      BY <2>4, <3>1, <3>2, BalancedAddEntry
  <2>6. X \ BlocksOf(t.d, i) = {}
    BY <2>1
  <2> HIDE DEF added, made
  <2>7. CASE added.ok = TRUE /\ Balanced(d0, added.s, {}, Root) /\ C \subseteq Directories(added.s.d)
    <3>1. made.s = added.s
      BY <1>1, <1>3, <1>4, <1>6, <1>9, <2>7
    <3> QED
      BY <2>7, <3>1 DEF made, Settles
  <2>8. CASE added.ok = FALSE /\ added.s = t
    <3>1. made.s = DropInode(DropBlock(t, b), i)
      BY <1>1, <1>3, <1>4, <1>6, <1>9, <2>8
    <3> DEFINE u == DropBlock(t, b)
    <3>2. Balanced(d0, u, {}, Root) /\ SameNames(t.d, u.d)
      <4>1. Balanced(d0, t, X, Root) /\ b \in X
        BY <2>1
      <4>2. X \ {b} = {}
        OBVIOUS
      <4> HIDE DEF X
      <4>3. Balanced(d0, u, X \ {b}, Root) /\ SameNames(t.d, u.d)
        BY <4>1, BalancedDropBlock
      <4> QED
        BY <4>2, <4>3
    <3> HIDE DEF u
    <3>3. i \notin Named(u.d)
      BY <2>1, <3>2 DEF SameNames, Named
    <3>4. Balanced(d0, DropInode(u, i), {}, Root) /\ SameNames(u.d, DropInode(u, i).d)
      BY <3>2, <3>3, BalancedDropInode
    <3>5. Settles(d0, s, DropInode(u, i))
      BY <2>4, <3>2, <3>4 DEF Settles, SameNames
    <3> QED
      BY <3>1, <3>5 DEF made, u
  <2> QED
    BY <2>4, <2>5, <2>6, <2>7, <2>8 DEF NameGiven
<1> QED
  BY <1>3, <1>7, <1>8, <1>9

LEMMA BalancedMkdir ==
    ASSUME NEW d0, NEW s, Balanced(d0, s, {}, Root), NEW p \in Directories(s.d), NEW n \in Names
    PROVE  Settles(d0, s, Mkdir(s, p, n))
<1> DEFINE made == MakeWithBlock(s, p, n, "dir")
           t == made.s
           more == Inode(t.d, p).links + 1
           node == [Inode(t.d, p) EXCEPT !.links = more]
<1>1. Mkdir(s, p, n) = IF made.ok THEN PutInode(t, p, node) ELSE t
  BY DEF Mkdir
<1>2. "dir" \in {"dir", "lnk"}
  OBVIOUS
<1>3. Settles(d0, s, t)
  BY <1>2, BalancedMake
<1> HIDE DEF made
<1>4. Balanced(d0, t, {}, Root) /\ p \in Directories(t.d) /\ p \in Named(t.d)
  <2>1. Balanced(d0, t, {}, Root) /\ p \in Directories(t.d)
    BY <1>3 DEF Settles
  <2> HIDE DEF t
  <2> QED
    BY <2>1, BalancedMeans
<1> HIDE DEF t
<1>5. more \in Int
  BY <1>4, BalancedNamed DEF IsNode
<1>6. LinksFit(t.d, Root, p, node, Root)
  BY <1>4 DEF LinksFit
<1>7. node = [Inode(t.d, p) EXCEPT !.links = more]
  OBVIOUS
<1> HIDE DEF more, node
<1>8. Balanced(d0, PutInode(t, p, node), {}, Root) /\ SameNames(t.d, PutInode(t, p, node).d)
  BY <1>4, <1>5, <1>6, <1>7, BalancedLinks
<1>9. Settles(d0, s, PutInode(t, p, node))
  BY <1>3, <1>8 DEF Settles, SameNames
<1> QED
  BY <1>1, <1>3, <1>9

LEMMA BalancedSymlink ==
    ASSUME NEW d0, NEW s, Balanced(d0, s, {}, Root), NEW p \in Directories(s.d), NEW n \in Names
    PROVE  Settles(d0, s, Symlink(s, p, n))
<1>1. "lnk" \in {"dir", "lnk"}
  OBVIOUS
<1> QED
  BY <1>1, BalancedMake DEF Symlink

\* brfs_write_file: the new blocks are nobody's until the inode is written.
NewBlocks(d, i, node) == {node.blk[h] : h \in 1 .. 3} \ ({0} \cup BlocksOf(d, i))

BalancedWriting(d0, a, i) ==
    /\ Writing(d0, a, Directories(a.s.d), i)
    /\ Balanced(d0, a.s, NewBlocks(a.s.d, i, a.node), Root)
    /\ Apart(a.node) /\ a.node.links = Inode(a.s.d, i).links

\* Data in a block of the file in memory, or in one just taken.
LEMMA BalancedData ==
    ASSUME NEW d0, NEW s, NEW X, Balanced(d0, s, X, Root), NEW i,
           NEW b \in DataBlocks, i \notin Directories(s.d),
           s.d.content[b].of = i \/ b \in X
    PROVE  LET t == PutBlock(s, b, FileData(i))
           IN  /\ Balanced(d0, t, X, Root) /\ SameNames(s.d, t.d)
               /\ Inode(t.d, i) = Inode(s.d, i) /\ BlocksOf(t.d, i) = BlocksOf(s.d, i)
               /\ t.d.bmap = s.d.bmap
<1> DEFINE data == FileData(i)
<1>1. data.of = i /\ IsData(data)
  BY DEF IsData, FileData
<1>2. \A j \in Named(s.d) : b \in BlocksOf(s.d, j) => j = i
  <2>1. ASSUME NEW j \in Named(s.d), b \in BlocksOf(s.d, j) PROVE j = i
    <3>1. s.d.content[b].of = j /\ X \cap BlocksOf(s.d, j) = {}
      BY <2>1, BalancedNamed
    <3> QED
      BY <2>1, <3>1
  <2> QED
    BY <2>1
<1>3. DataFits(s.d, b, data)
  BY <1>1, <1>2 DEF DataFits
<1> HIDE DEF data
<1>4. /\ Balanced(d0, PutBlock(s, b, data), X, Root) /\ SameNames(s.d, PutBlock(s, b, data).d)
      /\ DataPut(s.d, PutBlock(s, b, data).d, b, data)
  BY <1>3, BalancedPutBlock
<1> QED
  BY <1>4 DEF data, DataPut

LEMMA BalancedWriteTurn ==
    ASSUME NEW d0, NEW a, NEW i, BalancedWriting(d0, a, i), NEW k \in 1 .. 3
    PROVE  /\ BalancedWriting(d0, WriteTurn(a, i, k), i)
           /\ Directories(WriteTurn(a, i, k).s.d) = Directories(a.s.d)
<1> DEFINE s == a.s
           d == s.d
           C == Directories(d)
           node == a.node
           b == FreeBlock(s)
           s1 == TakeBlock(s, b)
           r == WriteTurn(a, i, k)
           X == NewBlocks(d, i, node)
<1>1. r = CASE a.full -> a
            [] ~a.full /\ node.blk[k] # 0 ->
                 [a EXCEPT !.s = PutBlock(s, node.blk[k], FileData(i))]
            [] ~a.full /\ node.blk[k] = 0 /\ b > 0 ->
                 [a EXCEPT !.s = PutBlock(s1, b, FileData(i)), !.node.blk[k] = b]
            [] OTHER -> [a EXCEPT !.full = TRUE]
  BY DEF WriteTurn
<1>2. /\ DOMAIN a = {"s", "node", "full"}
      /\ Writing(d0, a, C, i) /\ Balanced(d0, s, X, Root)
      /\ Apart(node) /\ node.links = Inode(d, i).links
  BY DEF BalancedWriting, Writing
<1>3. /\ Ok(d0, s, C) /\ i \in Reached(d, C) /\ i \notin C
      /\ IsNode(node) /\ CanPut(d, C, i, node)
  BY <1>2 DEF Writing
<1>4. Writing(d0, r, C, i)
  BY <1>2, WriteTurnOk
<1>5. SoundFor(d, C) /\ IsDisk(d)
  BY <1>3 DEF Ok, SoundFor
<1> HIDE DEF r, s, node, X, C
\* What is left to show of a turn.
<1> DEFINE Turned(u, more) ==
             /\ Balanced(d0, u, NewBlocks(u.d, i, more), Root) /\ SameNames(d, u.d)
             /\ Apart(more) /\ more.links = Inode(u.d, i).links
<1>6. ASSUME NEW u, NEW more, Turned(u, more), r.s = u, r.node = more
      PROVE  BalancedWriting(d0, r, i) /\ Directories(r.s.d) = C
  BY <1>4, <1>6 DEF BalancedWriting, SameNames, C
<1>7. Turned(s, node)
  BY <1>2 DEF SameNames, X
<1> HIDE DEF Turned
<1>8. CASE r = a \/ r = [a EXCEPT !.full = TRUE]
  <2>1. r.s = s /\ r.node = node
    BY <1>2, <1>8 DEF s, node
  <2> QED
    BY <1>6, <1>7, <2>1 DEF r, C, s
<1>9. CASE /\ node.blk[k] # 0
           /\ r = [a EXCEPT !.s = PutBlock(s, node.blk[k], FileData(i))]
  <2> DEFINE c == node.blk[k]
             t == PutBlock(s, c, FileData(i))
  <2>1. c \in DataBlocks
    BY <1>3, <1>9 DEF IsNode
  <2>2. d.content[c].of = i
    BY <1>3, <1>9 DEF CanPut
  <2> HIDE DEF c
  <2>3. /\ Balanced(d0, t, X, Root) /\ SameNames(s.d, t.d)
        /\ Inode(t.d, i) = Inode(s.d, i) /\ BlocksOf(t.d, i) = BlocksOf(s.d, i)
    BY <1>2, <1>3, <2>1, <2>2, BalancedData DEF C
  <2> HIDE DEF t
  <2>4. r.s = t /\ r.node = node
    BY <1>2, <1>9 DEF s, node, t, c
  <2>5. Turned(t, node)
    BY <1>2, <2>3 DEF Turned, X, NewBlocks
  <2> QED
    BY <1>6, <2>4, <2>5 DEF r, C, s
<1>10. CASE /\ node.blk[k] = 0 /\ b # 0
            /\ r = [a EXCEPT !.s = PutBlock(s1, b, FileData(i)), !.node.blk[k] = b]
  <2>1. /\ b \in DataBlocks /\ b \notin d.bmap /\ b # 0 /\ b \notin BlocksOf(d, i)
    BY <1>3, <1>5, <1>10, FreshBlock
  <2> HIDE DEF b
  <2> DEFINE Y == X \cup {b}
             t == PutBlock(s1, b, FileData(i))
             more == [node EXCEPT !.blk[k] = b]
  <2>2. Balanced(d0, s1, Y, Root) /\ SameNames(d, s1.d)
    BY <1>2, <2>1, BalancedTakeBlock
  <2>3. SameButBmap(d, s1.d)
    BY <1>2, <2>1, BalancedTakeBlock
  <2>4. Inode(s1.d, i) = Inode(d, i) /\ BlocksOf(s1.d, i) = BlocksOf(d, i)
    BY <2>3, SameParts DEF SameButBmap
  <2>5. i \notin Directories(s1.d) /\ b \in Y
    BY <1>3, <2>2 DEF SameNames, C
  <2> HIDE DEF s1, Y, d
  <2>6. /\ Balanced(d0, t, Y, Root) /\ SameNames(s1.d, t.d)
        /\ Inode(t.d, i) = Inode(s1.d, i) /\ BlocksOf(t.d, i) = BlocksOf(s1.d, i)
    BY <2>1, <2>2, <2>5, BalancedData
  <2> HIDE DEF t
  <2>7. /\ more.links = node.links
        /\ \A h \in 1 .. 3 : more.blk[h] = IF h = k THEN b ELSE node.blk[h]
    BY <1>3 DEF IsNode
  <2>8. r.s = t /\ r.node = more
    BY <1>2, <1>10 DEF s, node, t, s1, b
  <2> HIDE DEF more
  <2>9. Apart(more)
    <3>1. \A h \in 1 .. 3 : node.blk[h] # 0 => node.blk[h] \in d.bmap
      BY <1>3 DEF CanPut
    <3>2. \A h \in 1 .. 3 : node.blk[h] # b
      BY <2>1, <3>1
    <3> QED
      BY <1>2, <2>7, <3>2 DEF Apart
  <2>10. NewBlocks(t.d, i, more) = Y
    <3>1. {more.blk[h] : h \in 1 .. 3} \cup {0} = {node.blk[h] : h \in 1 .. 3} \cup {b, 0}
      BY <1>10, <2>7
    <3>2. NewBlocks(t.d, i, more) =
            ({more.blk[h] : h \in 1 .. 3} \cup {0}) \ ({0} \cup BlocksOf(d, i))
      BY <2>4, <2>6 DEF NewBlocks
    <3>3. Y = ({node.blk[h] : h \in 1 .. 3} \cup {b, 0}) \ ({0} \cup BlocksOf(d, i))
      BY <2>1 DEF Y, X, NewBlocks
    <3> QED
      BY <3>1, <3>2, <3>3
  <2>11. Turned(t, more)
    BY <1>2, <2>2, <2>4, <2>6, <2>7, <2>9, <2>10 DEF Turned, SameNames
  <2> QED
    BY <1>6, <2>8, <2>11 DEF r, C, d, s
<1>11. b # 0 => b > 0
  <2>1. b # 0 => b \in DataBlocks
    BY <1>5, FreshBlock
  <2>2. \A x \in DataBlocks : x \in Nat /\ x # 0
    BY Layout
  <2> QED
    BY <2>1, <2>2
<1> HIDE DEF b, s1
<1>12. \/ r = a \/ r = [a EXCEPT !.full = TRUE]
       \/ /\ node.blk[k] # 0
          /\ r = [a EXCEPT !.s = PutBlock(s, node.blk[k], FileData(i))]
       \/ /\ node.blk[k] = 0 /\ b # 0
          /\ r = [a EXCEPT !.s = PutBlock(s1, b, FileData(i)), !.node.blk[k] = b]
  BY <1>1, <1>11
<1> QED
  BY <1>8, <1>9, <1>10, <1>12 DEF b, s1

LEMMA BalancedWriteFile ==
    ASSUME NEW d0, NEW s, Balanced(d0, s, {}, Root),
           NEW i \in Named(s.d), i \notin Directories(s.d), NEW lo, NEW hi
    PROVE  Settles(d0, s, WriteFile(s, i, lo, hi))
<1> DEFINE turn(a, k) == IF k \in lo .. hi THEN WriteTurn(a, i, k) ELSE a
           start == [s |-> s, node |-> Inode(s.d, i), full |-> FALSE]
           done == turn(turn(turn(start, 1), 2), 3)
           C == Directories(s.d)
           Turned(a) == BalancedWriting(d0, a, i) /\ Directories(a.s.d) = C
<1>1. WriteFile(s, i, lo, hi) = PutInode(done.s, i, done.node)
  BY DEF WriteFile
<1>2. Turned(start)
  <2>1. /\ IsNode(Inode(s.d, i)) /\ Backed(s.d, i) /\ Apart(Inode(s.d, i))
    BY BalancedNamed
  <2>2. /\ SoundFor(s.d, C) /\ IsDisk(s.d) /\ Ok(d0, s, C) /\ Reached(s.d, C) = Named(s.d)
    BY BalancedMeans
  <2>3. Inode(s.d, i).links >= Cardinality(Refs(s.d, C, i))
    BY <2>2 DEF SoundFor
  <2>4. CanPut(s.d, C, i, Inode(s.d, i))
    BY <2>1, <2>2, <2>3, BlocksAreData DEF CanPut, Backed
  <2>5. NewBlocks(s.d, i, Inode(s.d, i)) = {}
    BY DEF NewBlocks, BlocksOf
  <2> HIDE DEF C
  <2>6. Writing(d0, start, C, i)
    BY <2>1, <2>2, <2>4 DEF Writing, C
  <2> QED
    BY <2>1, <2>5, <2>6 DEF BalancedWriting, C
<1> HIDE DEF start
<1>3. ASSUME NEW a, Turned(a), NEW k \in 1 .. 3 PROVE Turned(turn(a, k))
  BY <1>3, BalancedWriteTurn
<1> HIDE DEF turn, Turned
<1>4. Turned(done)
  BY <1>2, <1>3
<1> HIDE DEF done
<1> DEFINE t == done.s
           node == done.node
           X == NewBlocks(t.d, i, node)
           u == PutInode(t, i, node)
<1>5. /\ Writing(d0, done, Directories(t.d), i) /\ Balanced(d0, t, X, Root)
      /\ Apart(node) /\ node.links = Inode(t.d, i).links /\ Directories(t.d) = C
  BY <1>4 DEF Turned, BalancedWriting
<1> HIDE DEF t, node, X
<1>6. /\ IsNode(node) /\ CanPut(t.d, Directories(t.d), i, node)
      /\ i \in Reached(t.d, Directories(t.d)) /\ i \notin Directories(t.d)
  BY <1>5 DEF Writing, t, node
<1>7. /\ i \in Named(t.d) /\ Booked(t.d, X, Root) /\ Root \in Directories(t.d)
  BY <1>5, <1>6, BalancedMeans
<1>8. NodeFits(t.d, X, i, node)
  <2>1. i \in Inodes
    BY <1>5, <1>7, BalancedNamed
  <2>2. \A h \in 1 .. 3 : node.blk[h] # 0 => node.blk[h] \in BlocksOf(t.d, i) \cup X
    BY DEF X, NewBlocks
  <2> QED
    BY <1>5, <1>6, <1>7, <2>1, <2>2 DEF NodeFits
<1>9. LinksFit(t.d, Root, i, node, Root)
  BY <1>5, <1>6, <1>7 DEF LinksFit, Booked
<1>10. Balanced(d0, u, X \ BlocksOf(u.d, i), Root)
  BY <1>5, <1>8, <1>9, BalancedPutNode
<1>11. SameNames(t.d, u.d)
  BY <1>5, <1>8, <1>9, BalancedPutNode
<1>12. NodePut(t.d, u.d, i, node)
  BY <1>5, <1>8, <1>9, BalancedPutNode
<1>13. X \ BlocksOf(u.d, i) = {}
  BY <1>12 DEF X, NewBlocks, BlocksOf, NodePut
<1> HIDE DEF u
<1>14. Settles(d0, s, u)
  BY <1>5, <1>10, <1>11, <1>13 DEF Settles, SameNames
<1> QED
  BY <1>1, <1>14 DEF u, t, node

-----------------------------------------------------------------------------
(* The books and the journal: a write of the journal that overwrites nothing *)
(* leaves them alone.                                                       *)

Balancing(d0, s, X, x) == Recording(d0, s) /\ (Clean(d0, s) => Balanced(d0, s, X, x))

LEMMA BalancedBegins ==
    ASSUME NEW d0, NEW s, NEW X, NEW x, Balanced(d0, s, X, x)
    PROVE  Balancing(d0, s, X, x) /\ Clean(d0, s)
<1>1. Ok(d0, s, Directories(s.d))
  BY BalancedMeans
<1> QED
  BY <1>1, OkLeast DEF Balancing, Ok

LEMMA BalancingRecorded ==
    ASSUME NEW d0, NEW s, NEW X, NEW x, Balancing(d0, s, X, x), NEW e, DOMAIN e = DOMAIN s.d
    PROVE  /\ Balancing(d0, Recorded(s, e), X, x)
           /\ Clean(d0, Recorded(s, e)) => Clean(d0, s)
           /\ Recorded(s, e).d = e /\ Recorded(s, e).m = s.m
<1> DEFINE t == Recorded(s, e)
<1>1. /\ Proper(d0, t) /\ t.d = e /\ t.m = s.m
      /\ Clean(d0, t) => Clean(d0, s) /\ ~Overwrites(s.d, e) /\ Sound(e)
  BY JournalWrite DEF Balancing, Recording
<1> HIDE DEF t
<1>2. ASSUME Clean(d0, t) PROVE Balanced(d0, t, X, x)
  <2>1. Balanced(d0, s, X, x) /\ ~Overwrites(s.d, e) /\ Sound(e)
    BY <1>1, <1>2 DEF Balancing
  <2>2. /\ SoundFor(s.d, Directories(s.d)) /\ Booked(s.d, X, x)
        /\ Open(s.m) /\ s.m.freeB = FreeBlocks(s.d)
    BY <2>1, BalancedMeans
  <2>3. SameNames(s.d, e) /\ e.inode = s.d.inode /\ e.bmap = s.d.bmap
    BY <2>1, <2>2, NotOverwritten
  <2>4. \A i : Inode(e, i) = Inode(s.d, i)
    BY <2>3, SameParts
  <2>5. Booked(e, X, x) /\ FreeBlocks(e) = FreeBlocks(s.d)
    BY <2>2, <2>3, <2>4, BookedSame
  <2>6. Ok(d0, t, Directories(t.d))
    BY <1>1, <1>2, <2>1 DEF Ok, Sound
  <2> QED
    BY <1>1, <2>2, <2>5, <2>6 DEF Balanced, Counts
<1> QED
  BY <1>1, <1>2 DEF Balancing, Recording, t

LEMMA BalancingMemory ==
    ASSUME NEW d0, NEW s, NEW X, NEW x, Balancing(d0, s, X, x), NEW t, SameDisk(s, t),
           Open(s.m) => Open(t.m) /\ t.m.freeB = s.m.freeB
    PROVE  Balancing(d0, t, X, x) /\ (Clean(d0, t) <=> Clean(d0, s))
<1>1. /\ Recording(d0, t) /\ (Clean(d0, s) <=> Clean(d0, t)) /\ t.d = s.d
  BY MemoryChange, MemoryOnly DEF Balancing, SameDisk
<1>2. ASSUME Clean(d0, t) PROVE Balanced(d0, t, X, x)
  <2>1. Balanced(d0, s, X, x)
    BY <1>1, <1>2 DEF Balancing
  <2>2. Ok(d0, t, Directories(t.d))
    BY <1>1, <2>1, BalancedMeans, MemoryOnly
  <2> QED
    BY <1>1, <2>1, <2>2 DEF Balanced, Counts
<1> QED
  BY <1>1, <1>2 DEF Balancing

LEMMA BalancingRecord ==
    ASSUME NEW d0, NEW s, NEW X, NEW x, Balancing(d0, s, X, x), NEW r, NEW type, NEW blk
    PROVE  LET t == JournalRecord(s, r, type, blk)
           IN  /\ Balancing(d0, t, X, x) /\ (Clean(d0, t) => Clean(d0, s)) /\ t.m = s.m
<1> DEFINE e == RecordWritten(s.d, JournalStart + 1 + s.m.head, r, s.m.seq, type, blk)
           t == JournalRecord(s, r, type, blk)
<1>1. DOMAIN e = DOMAIN s.d
  BY RecordFields
<1>2. t = Recorded(s, e)
  BY DEF JournalRecord, Recorded
<1> HIDE DEF e, t
<1>3. /\ Balancing(d0, Recorded(s, e), X, x)
      /\ Clean(d0, Recorded(s, e)) => Clean(d0, s)
      /\ Recorded(s, e).m = s.m
  BY <1>1, BalancingRecorded
<1> QED
  BY <1>2, <1>3 DEF t

LEMMA BalancingCommit ==
    ASSUME NEW d0, NEW s, NEW X, NEW x, Balancing(d0, s, X, x)
    PROVE  Balancing(d0, Commit(s), X, x) /\ (Clean(d0, Commit(s)) => Clean(d0, s))
<1> DEFINE r == JournalRecord(s, 1, CommitRecord, 0)
           m == [r.m EXCEPT !.head = (@ + 1) % JournalRing, !.seq = @ + 1]
           e == [r.d EXCEPT !.imap = SuperblockWords(@, m)]
           t == Recorded(r, e)
           u == [t EXCEPT !.m = m]
<1>1. Commit(s) = u
  BY DEF Commit, Recorded
<1>2. Balancing(d0, r, X, x) /\ (Clean(d0, r) => Clean(d0, s))
  BY BalancingRecord
<1>3. DOMAIN e = DOMAIN r.d
  OBVIOUS
<1>4. Open(r.m) => Open(m) /\ m.freeB = r.m.freeB
  BY DEF Open
<1> HIDE DEF r, m, e
<1>5. Balancing(d0, t, X, x) /\ (Clean(d0, t) => Clean(d0, r)) /\ t.m = r.m
  BY <1>2, <1>3, BalancingRecorded
<1> HIDE DEF t
<1>6. SameDisk(t, u) /\ u.m = m
  BY <1>5 DEF SameDisk, Balancing, Recording, Proper
<1> HIDE DEF u
<1>7. Balancing(d0, u, X, x) /\ (Clean(d0, u) <=> Clean(d0, t))
  BY <1>4, <1>5, <1>6, BalancingMemory
<1> QED
  BY <1>1, <1>2, <1>5, <1>7

\* brfs_create: the new inode has no blocks.
LEMMA BalancedCreate ==
    ASSUME NEW d0, NEW s, Balanced(d0, s, {}, Root), NEW p \in Directories(s.d), NEW n \in Names
    PROVE  Balancing(d0, Create(s, p, n), {}, Root)
<1> DEFINE i == FreeInode(s)
           C == Directories(s.d)
           s1 == TakeInode(s, i)
           blk == InodeTable + i \div InodesPerBlock
           logged == JournalRecord(s1, 0, BlockRecord, blk)
           node == Node("reg", 1, 0)
           s3 == PutInode(logged, i, node)
           added == AddEntry(s3, p, n, i)
           there == Lookup(s.d, p, n)
           all == Create(s, p, n)
<1>1. all = CASE there > 0 \/ i = 0 -> s
              [] there = 0 /\ i > 0 /\ added.ok -> Commit(added.s)
              [] OTHER -> DropInode(added.s, i)
  BY DEF Create
<1>2. /\ SoundFor(s.d, C) /\ Ok(d0, s, C) /\ Reached(s.d, C) = Named(s.d)
  BY BalancedMeans
<1>3. there \in Nat
  BY <1>2, LookupType
<1>4. i # 0 => i \in Inodes /\ i \notin Named(s.d)
  BY <1>2, FreshInode
<1> HIDE DEF i
<1>5. i # 0 => i > 0
  <2>1. \A j \in Inodes : j \in Nat /\ j # 0
    BY Layout
  <2> QED
    BY <1>4, <2>1
<1>6. CASE there > 0 \/ i = 0
  <2> HIDE DEF all, there, added
  <2>1. all = s
    BY <1>1, <1>6
  <2> QED
    BY <2>1, BalancedBegins DEF all
<1>7. CASE there = 0 /\ i # 0
  <2>1. /\ Balanced(d0, s1, {}, Root) /\ SameNames(s.d, s1.d) /\ s1.d.imap = s.d.imap \cup {i}
        /\ Ok(d0, s1, C) /\ Kept(s.d, s1.d, C)
    <3>1. Balanced(d0, s1, {}, Root) /\ SameNames(s.d, s1.d) /\ s1.d.imap = s.d.imap \cup {i}
      BY BalancedTakeInode
    <3> QED
      BY <1>2, <3>1, OkTakeInode
  <2> HIDE DEF s1, blk
  <2>2. Balancing(d0, s1, {}, Root) /\ Clean(d0, s1)
    BY <2>1, BalancedBegins
  <2>3. Balancing(d0, logged, {}, Root)
    BY <2>2, BalancingRecord
  <2>4. /\ Clean(d0, logged) => ~Overwrites(s1.d, logged.d)
        /\ DOMAIN logged.d = DOMAIN s1.d /\ logged.d.imap = s1.d.imap
    BY <2>2, Records DEF Balancing
  <2> HIDE DEF logged, C
  <2>5. CASE Clean(d0, logged)
    <3>1. Ok(d0, logged, C) /\ Kept(s1.d, logged.d, C) /\ SameNames(s1.d, logged.d)
      BY <2>1, <2>3, <2>4, <2>5, NotOverwritten DEF Ok, Recording, Balancing
    <3>2. Balanced(d0, logged, {}, Root)
      BY <2>3, <2>5 DEF Balancing
    <3>3. i \in logged.d.imap /\ i \notin Named(logged.d) /\ Directories(logged.d) = C
          /\ i \notin Reached(logged.d, C)
      <4>1. i \in logged.d.imap
        BY <2>1, <2>4
      <4>2. i \notin Named(logged.d) /\ Directories(logged.d) = C
        BY <1>4, <1>7, <2>1, <3>1 DEF SameNames, Named, C
      <4>3. Reached(logged.d, Directories(logged.d)) = Named(logged.d)
        BY <3>2, BalancedMeans
      <4> QED
        BY <4>1, <4>2, <4>3
    <3>4. /\ Ok(d0, s3, C) /\ Ready(s3.d, C, i) /\ Kept(logged.d, s3.d, C)
      BY <1>4, <1>7, <3>1, <3>3, NewFileOk
    <3>5. /\ IsNode(node) /\ node.kind = "reg" /\ node.links = 1 /\ Apart(node)
          /\ {node.blk[k] : k \in 1 .. 3} \ {0} = {}
      <4>1. node = [kind |-> "reg", links |-> 1, blk |-> <<0, 0, 0>>]
        BY DEF Node
      <4>2. /\ <<0, 0, 0>>[1] = 0 /\ <<0, 0, 0>>[2] = 0 /\ <<0, 0, 0>>[3] = 0
            /\ DOMAIN <<0, 0, 0>> = 1 .. 3
        OBVIOUS
      <4> QED
        BY <4>1, <4>2 DEF IsNode, Kinds, Apart
    <3> HIDE DEF node
    <3>6. Balanced(d0, s3, {}, Root) /\ SameNames(logged.d, s3.d) /\ Inode(s3.d, i) = node
      BY <1>4, <1>7, <3>2, <3>3, <3>5, BalancedPutNew
    <3> HIDE DEF s3
    <3>7. Directories(s3.d) = C /\ i \notin Named(s3.d) /\ BlocksOf(s3.d, i) = {}
      BY <3>3, <3>5, <3>6 DEF SameNames, Named, BlocksOf
    <3>8. Vacant(s3.d, p, Cut[n])
      <4>1. Vacant(s.d, p, Cut[n]) /\ p \in C
        BY <1>2, <1>7, LookupVacant DEF C
      <4> QED
        BY <2>1, <3>1, <3>4, <4>1 DEF Kept, Vacant
    <3>9. NameGiven(d0, added, s3, {})
      <4> DEFINE X == {}
      <4>1. Nameable(s3.d, X, Root, i) /\ Balanced(d0, s3, X, Root)
        BY <3>5, <3>6, <3>7 DEF Nameable
      <4>2. p \in Directories(s3.d) /\ Ready(s3.d, Directories(s3.d), i)
        BY <3>4, <3>7 DEF C
      <4> HIDE DEF X
      <4>3. NameGiven(d0, AddEntry(s3, p, n, i), s3, X \ BlocksOf(s3.d, i))
        BY <3>8, <4>1, <4>2, BalancedAddEntry
      <4>4. X \ BlocksOf(s3.d, i) = {}
        BY DEF X
      <4> QED
        BY <4>3, <4>4
    <3> HIDE DEF added, all, there
    <3>10. CASE added.ok = TRUE /\ Balanced(d0, added.s, {}, Root)
      <4>1. all = Commit(added.s)
        BY <1>1, <1>3, <1>5, <1>7, <3>10
      <4>2. Balancing(d0, added.s, {}, Root)
        BY <3>10, BalancedBegins
      <4> QED
        BY <4>1, <4>2, BalancingCommit DEF all
    <3>11. CASE added.ok = FALSE /\ added.s = s3
      <4>1. all = DropInode(s3, i)
        BY <1>1, <1>3, <1>5, <1>7, <3>11
      <4>2. Balanced(d0, DropInode(s3, i), {}, Root)
        BY <3>6, <3>7, BalancedDropInode
      <4> QED
        BY <4>1, <4>2, BalancedBegins DEF all
    <3> QED
      BY <3>9, <3>10, <3>11 DEF NameGiven
  <2>6. CASE ~Clean(d0, logged)
    <3>1. Lost(d0, logged)
      BY <2>3, <2>6 DEF Lost, Recording, Balancing
    <3> HIDE DEF node
    <3>2. Lost(d0, s3)
      BY <3>1, LostSteps
    <3> HIDE DEF s3
    <3>3. Lost(d0, added.s)
      BY <3>2, LostAddEntry
    <3> HIDE DEF added, all, there
    <3>4. Balancing(d0, added.s, {}, Root)
      BY <3>3 DEF Lost, Balancing, Recording
    <3>5. Balancing(d0, Commit(added.s), {}, Root)
      BY <3>4, BalancingCommit
    <3>6. Lost(d0, DropInode(added.s, i))
      BY <3>3, LostSteps
    <3>7. Balancing(d0, DropInode(added.s, i), {}, Root)
      BY <3>6 DEF Lost, Balancing, Recording
    <3>8. all = Commit(added.s) \/ all = DropInode(added.s, i)
      BY <1>1, <1>3, <1>5, <1>7
    <3> QED
      BY <3>5, <3>7, <3>8 DEF all
  <2> QED
    BY <2>5, <2>6
<1> QED
  BY <1>3, <1>6, <1>7

-----------------------------------------------------------------------------
(* The books when mounting and unmounting.                                  *)

\* The books of a disk no call is at work on, and one whose superblock has the
\* count of its free blocks.
Exact(d)  == Booked(d, {}, Root)
Stored(d) == Exact(d) /\ d.freeB = FreeBlocks(d)

LEMMA BalancedSession ==
    ASSUME NEW d, Sound(d), Exact(d), NEW m, Open(m), m.freeB = FreeBlocks(d)
    PROVE  Balanced(d, Session(d, m), {}, Root) /\ Session(d, m).d = d
<1> DEFINE s == Session(d, m)
<1>1. s.d = d /\ s.m = m
  BY DEF Session
<1>2. Ok(d, s, Directories(d))
  BY SessionOk DEF Sound
<1> HIDE DEF s
<1>3. Ok(d, s, Directories(s.d))
  BY <1>1, <1>2
<1>4. Booked(s.d, {}, Root) /\ Counts(s)
  BY <1>1 DEF Exact, Counts
<1>5. Balanced(d, s, {}, Root)
  BY <1>3, <1>4 DEF Balanced
<1> QED
  BY <1>1, <1>5 DEF s

LEMMA BalancingRecover ==
    ASSUME NEW d0, NEW s, NEW X, NEW x, Balancing(d0, s, X, x)
    PROVE  Balancing(d0, Recover(s), X, x)
<1> DEFINE head == WordAt(s.d.imap, 64)
           tail == WordAt(s.d.imap, 96)
           magic == WordAt(s.d.imap, 0)
           seq == WordAt(s.d.imap, 32)
           hd == IF head = tail THEN head ELSE 0
           tl == IF head = tail THEN tail ELSE 0
           e == [s.d EXCEPT !.imap = Bits(JournalMagic, 0) \cup Bits(1, 32)]
           t == Recorded(s, e)
           r == Recover(s)
           Reset(u, a, b, c) == [u EXCEPT !.m.seq = a, !.m.head = b, !.m.tail = c]
<1>1. r = IF magic = JournalMagic THEN Reset(s, seq, hd, tl) ELSE Reset(t, 1, 0, 0)
  BY DEF Recover, Recorded
<1>2. DOMAIN e = DOMAIN s.d /\ DOMAIN s = {"d", "m", "log"}
  BY DEF Balancing, Recording, Proper
<1> HIDE DEF e
<1>3. Balancing(d0, t, X, x)
  BY <1>2, BalancingRecorded
<1> HIDE DEF t, magic, seq, hd, tl
<1>4. DOMAIN t = {"d", "m", "log"}
  BY <1>3 DEF Balancing, Recording, Proper
<1>5. ASSUME NEW u, DOMAIN u = {"d", "m", "log"}, Balancing(d0, u, X, x), NEW a, NEW b, NEW c
      PROVE  Balancing(d0, Reset(u, a, b, c), X, x)
  <2> DEFINE v == Reset(u, a, b, c)
  <2>1. SameDisk(u, v)
    BY <1>5 DEF SameDisk
  <2>2. v.m = [u.m EXCEPT !.seq = a, !.head = b, !.tail = c]
    BY <1>5
  <2>3. Open(u.m) => Open(v.m) /\ v.m.freeB = u.m.freeB
    BY <2>2 DEF Open
  <2> HIDE DEF v
  <2>4. Balancing(d0, v, X, x)
    BY <1>5, <2>1, <2>3, BalancingMemory
  <2> QED
    BY <2>4 DEF v
<1> HIDE DEF r, Reset
<1>6. CASE magic = JournalMagic
  <2>1. r = Reset(s, seq, hd, tl)
    BY <1>1, <1>6
  <2> QED
    BY <1>2, <1>5, <2>1 DEF r
<1>7. CASE magic # JournalMagic
  <2>1. r = Reset(t, 1, 0, 0)
    BY <1>1, <1>7
  <2> QED
    BY <1>3, <1>4, <1>5, <2>1 DEF r
<1> QED
  BY <1>6, <1>7

LEMMA BalancingMount ==
    ASSUME NEW d, Sound(d), Stored(d)
    PROVE  Balancing(d, MountSession(d), {}, Root)
<1> DEFINE m == [Unmounted EXCEPT !.mounted = TRUE, !.freeB = d.freeB, !.freeI = d.freeI]
           s == Session(d, m)
           X == {}
<1>1. MountSession(d) = Recover(s)
  BY DEF MountSession
<1>2. Open(m) /\ m.freeB = FreeBlocks(d)
  BY DEF Unmounted, Open, Stored
<1> HIDE DEF m
<1>3. Balanced(d, s, X, Root)
  BY <1>2, BalancedSession DEF Stored
<1> HIDE DEF s, X
<1>4. Balancing(d, Recover(s), X, Root)
  BY <1>3, BalancedBegins, BalancingRecover
<1> QED
  BY <1>1, <1>4 DEF X

\* What brfs_unmount leaves: the count of the mount table is in the superblock.
LEMMA UnmountStores ==
    ASSUME NEW d0, NEW s, Balanced(d0, s, {}, Root)
    PROVE  /\ Clean(d0, UnmountSession(s)) => Stored(UnmountSession(s).d)
           /\ Proper(d0, UnmountSession(s)) /\ UnmountSession(s).m = Unmounted
<1> DEFINE words == WithWord(s.d.imap, 96, s.m.head)
           f == [s.d EXCEPT !.imap = words]
           t == Recorded(s, f)
           c == Checkpoint(s)
           e == [c.d EXCEPT !.freeB = s.m.freeB, !.freeI = s.m.freeI]
           u == Written(c, e)
           r == UnmountSession(s)
           X == {}
<1>1. c = [t EXCEPT !.m.tail = s.m.head]
  BY DEF Checkpoint, Recorded
<1>2. r = [u EXCEPT !.m = Unmounted]
  BY DEF UnmountSession, Written
<1>3. Balancing(d0, s, X, Root) /\ Open(s.m) /\ s.m.freeB = FreeBlocks(s.d)
  BY BalancedBegins, BalancedMeans
<1>4. DOMAIN f = DOMAIN s.d
  OBVIOUS
<1>5. f.bmap = s.d.bmap
  BY BalancedMeans DEF IsDisk
<1> HIDE DEF words, X, f
<1>6. Balancing(d0, t, X, Root) /\ t.d = f /\ t.m = s.m
  BY <1>3, <1>4, BalancingRecorded
<1> HIDE DEF t, c
<1>7. /\ SameDisk(t, c) /\ c.m = [s.m EXCEPT !.tail = s.m.head]
  BY <1>1, <1>6 DEF SameDisk, Balancing, Recording, Proper
<1>8. Open(c.m) /\ c.m.freeB = s.m.freeB
  BY <1>3, <1>7 DEF Open
<1>9. Balancing(d0, c, X, Root)
  BY <1>6, <1>7, <1>8, BalancingMemory
<1>10. /\ DOMAIN e = DOMAIN c.d /\ e.imap = c.d.imap /\ e.bmap = c.d.bmap
       /\ e.inode = c.d.inode /\ e.content = c.d.content
       /\ IsDisk(c.d) => e.freeB = s.m.freeB
  BY DEF IsDisk
<1> HIDE DEF e
<1>11. Clean(d0, c) => SoundFor(e, Directories(c.d)) /\ Kept(c.d, e, Directories(c.d))
  <2>1. SUFFICES ASSUME Clean(d0, c)
                 PROVE  SoundFor(e, Directories(c.d)) /\ Kept(c.d, e, Directories(c.d))
    OBVIOUS
  <2> DEFINE D == Directories(c.d)
  <2>2. SoundFor(c.d, D)
    BY <1>9, <2>1 DEF Balancing, Recording, Sound
  <2> HIDE DEF D
  <2>3. Reached(c.d, D) \subseteq c.d.imap /\ \A i \in Reached(c.d, D) : BlocksOf(c.d, i) \subseteq c.d.bmap
    BY <2>2 DEF SoundFor, Backed
  <2>4. SoundFor(e, D) /\ Kept(c.d, e, D)
    BY <1>10, <2>2, <2>3, FrameMaps
  <2> QED
    BY <2>4 DEF D
<1>12. Clean(d0, c) => Sound(e) /\ Step(c.d, e) /\ SameNames(c.d, e)
  BY <1>11, SoundShrinks DEF Kept, Step
<1>13. Proper(d0, u) /\ u.d = e /\ (Clean(d0, u) => Clean(d0, c))
  <2>1. \A journal \in BOOLEAN : ~journal =>
             /\ Proper(d0, Logged(c, e, journal)) /\ Logged(c, e, journal).d = e
             /\ Clean(d0, Logged(c, e, journal)) => Clean(d0, c)
    <3>1. SUFFICES ASSUME NEW journal \in BOOLEAN, ~journal
                   PROVE  /\ Proper(d0, Logged(c, e, journal)) /\ Logged(c, e, journal).d = e
                          /\ Clean(d0, Logged(c, e, journal)) => Clean(d0, c)
      OBVIOUS
    <3>2. Proper(d0, c)
      BY <1>9 DEF Balancing, Recording
    <3> QED
      BY <1>12, <3>1, <3>2, LogOne
  <2> QED
    BY <2>1 DEF Written
<1>14. Clean(d0, u) => Stored(e)
  <2>1. SUFFICES ASSUME Clean(d0, u) PROVE Stored(e)
    OBVIOUS
  <2>2. Balanced(d0, c, X, Root) /\ SameNames(c.d, e)
    BY <1>9, <1>12, <1>13, <2>1 DEF Balancing
  <2>3. /\ Booked(c.d, X, Root) /\ IsDisk(c.d) /\ c.m.freeB = FreeBlocks(c.d)
    BY <2>2, BalancedMeans
  <2>4. \A i : Inode(e, i) = Inode(c.d, i)
    BY <1>10, SameParts
  <2>5. Booked(e, X, Root) /\ FreeBlocks(e) = FreeBlocks(c.d)
    BY <1>10, <2>2, <2>3, <2>4, BookedSame
  <2>6. e.freeB = FreeBlocks(e)
    BY <1>8, <1>10, <2>3, <2>5
  <2> QED
    BY <2>5, <2>6 DEF Stored, Exact, X
<1> HIDE DEF u, r
<1>15. SameDisk(u, r) /\ r.m = Unmounted
  BY <1>2, <1>13 DEF SameDisk, Proper
<1>16. (Clean(d0, r) => Stored(r.d)) /\ Proper(d0, r)
  BY <1>13, <1>14, <1>15, MemoryOnly DEF SameDisk
<1> QED
  BY <1>15, <1>16 DEF r

-----------------------------------------------------------------------------
(* The books of the disks to start from.                                    *)

LEMMA FormattedStored == Stored(Formatted)
<1> DEFINE d == Formatted
<1>1. /\ d.bmap = 0 .. FirstData
      /\ DOMAIN d.inode = {Root} /\ d.inode[Root] = Node("dir", 2, FirstData)
      /\ d.freeB = Blocks - FirstData - 1
  BY DEF Formatted
<1>2. SoundFor(d, {Root}) /\ Reached(d, {Root}) = {Root}
  BY FormattedSound
<1> HIDE DEF d
<1>3. Directories(d) = {Root}
  <2>1. Directories(d) \subseteq {Root} /\ Root \in Directories(d)
    BY <1>2, DirectoriesLeast, SoundShrinks DEF SoundFor, Sound, Closed
  <2> QED
    BY <2>1
<1>4. Named(d) = {Root}
  <2>1. Reached(d, Directories(d)) = Named(d)
    BY <1>2, SoundShrinks
  <2> QED
    BY <1>2, <1>3, <2>1
<1>5. /\ FirstData \in Nat \ {0} /\ FirstData \in Int /\ Blocks \in Int /\ FirstData <= Blocks - 1
  <2>1. FirstData \in Nat \ {0} /\ FirstData \in FirstData .. Blocks - 1
    BY Layout DEF DataBlocks
  <2> QED
    BY <2>1, SizeAssumption
<1>6. /\ BlocksOf(d, Root) = {FirstData} /\ Apart(Inode(d, Root))
  <2>1. Inode(d, Root) = [kind |-> "dir", links |-> 2, blk |-> <<FirstData, 0, 0>>]
    BY <1>1 DEF Inode, Node
  <2>2. /\ <<FirstData, 0, 0>>[1] = FirstData /\ <<FirstData, 0, 0>>[2] = 0
        /\ <<FirstData, 0, 0>>[3] = 0
    OBVIOUS
  <2>3. Apart(Inode(d, Root))
    <3>1. \A k \in 1 .. 3 : Inode(d, Root).blk[k] # 0 => k = 1
      BY <2>1, <2>2
    <3> QED
      BY <3>1 DEF Apart
  <2>4. BlocksOf(d, Root) = {FirstData}
    <3>1. \A k \in 1 .. 3 : Inode(d, Root).blk[k] = IF k = 1 THEN FirstData ELSE 0
      BY <2>1, <2>2
    <3> QED
      BY <1>5, <3>1 DEF BlocksOf
  <2> QED
    BY <2>3, <2>4
<1>7. Owned(d) = {FirstData}
  BY <1>4, <1>6 DEF Owned
<1>8. d.bmap \cap DataBlocks = {FirstData}
  BY <1>1, <1>5 DEF DataBlocks
<1>9. Exact(d)
  BY <1>3, <1>4, <1>6, <1>7, <1>8 DEF Exact, Booked
<1>10. DataBlocks \ d.bmap = (FirstData + 1) .. (Blocks - 1)
  BY <1>1, <1>5 DEF DataBlocks
<1>11. FreeBlocks(d) = Blocks - FirstData - 1
  <2>1. \A a, b \in Int : Cardinality(a .. b) = IF a > b THEN 0 ELSE b - a + 1
    BY FS_Interval
  <2>2. FirstData + 1 \in Int /\ Blocks - 1 \in Int
    BY <1>5
  <2>3. FreeBlocks(d) = IF FirstData + 1 > Blocks - 1 THEN 0 ELSE (Blocks - 1) - (FirstData + 1) + 1
    BY <1>10, <2>1, <2>2 DEF FreeBlocks
  <2> QED
    BY <1>5, <2>3
<1> QED
  BY <1>1, <1>9, <1>11 DEF Stored, d

LEMMA BalancedWithFile ==
    ASSUME NEW d0, NEW s, Balanced(d0, s, {}, Root), NEW dir \in Directories(s.d), NEW n \in Names
    PROVE  Settles(d0, s, WithFile(s, dir, n))
<1> DEFINE t == Symlink(s, dir, n)
           i == Lookup(t.d, dir, n)
           r == WithFile(s, dir, n)
<1>1. r = IF Writable(t.d, i) THEN WriteFile(t, i, 1, 3) ELSE t
  BY DEF WithFile
<1>2. Settles(d0, s, t)
  BY BalancedSymlink
<1> HIDE DEF t, i, r
<1>3. CASE Writable(t.d, i)
  <2>1. Balanced(d0, t, {}, Root)
    BY <1>2 DEF Settles
  <2>2. SoundFor(t.d, Directories(t.d))
    BY <2>1, BalancedMeans
  <2>3. i \in Named(t.d) /\ i \notin Directories(t.d)
    BY <1>3, <2>2 DEF Writable, SoundFor
  <2>4. Settles(d0, t, WriteFile(t, i, 1, 3))
    BY <2>1, <2>3, BalancedWriteFile
  <2>5. Settles(d0, s, WriteFile(t, i, 1, 3))
    BY <1>2, <2>4 DEF Settles
  <2> QED
    BY <1>1, <1>3, <2>5 DEF r
<1>4. CASE ~Writable(t.d, i)
  BY <1>1, <1>2, <1>4 DEF r
<1> QED
  BY <1>3, <1>4

LEMMA BalancedNearlyFull ==
    ASSUME InitNearlyFull
    PROVE  Exact(disk) /\ Open(mem) /\ mem.freeB = FreeBlocks(disk)
<1>1. PICK a \in Names, b \in Names, c \in Names :
          \E dir \in Directories(WithDirectory(a).d) \ {Root} :
              LET full == WithFile(WithFile(WithDirectory(a), dir, b), dir, c)
              IN  disk = full.d /\ mem = full.m
  BY CallsAssumption DEF InitNearlyFull
<1>2. PICK dir \in Directories(WithDirectory(a).d) \ {Root} :
              LET full == WithFile(WithFile(WithDirectory(a), dir, b), dir, c)
              IN  disk = full.d /\ mem = full.m
  BY <1>1
<1> DEFINE first == MountSession(Formatted)
           s == WithDirectory(a)
           t == WithFile(s, dir, b)
           full == WithFile(t, dir, c)
           d0 == Formatted
           X == {}
<1>3. disk = full.d /\ mem = full.m /\ s = Mkdir(first, Root, a)
  BY <1>2 DEF WithDirectory
<1>4. Balanced(d0, first, X, Root)
  <2>1. Sound(Formatted)
    BY FormattedSound, SoundShrinks
  <2>2. Clean(Formatted, first)
    BY <2>1, FormattedKept, MountOk
  <2>3. Balancing(Formatted, first, X, Root)
    BY <2>1, FormattedStored, BalancingMount
  <2> QED
    BY <2>2, <2>3 DEF Balancing
<1> HIDE DEF first, d0
<1>5. Balanced(d0, s, X, Root)
  <2>1. Root \in Directories(first.d)
    BY <1>4, BalancedMeans
  <2>2. Settles(d0, first, Mkdir(first, Root, a))
    BY <1>4, <2>1, BalancedMkdir
  <2> QED
    BY <1>3, <2>2 DEF Settles
<1>6. dir \in Directories(s.d)
  BY <1>2
<1> HIDE DEF s
<1>7. Settles(d0, s, t)
  BY <1>5, <1>6, BalancedWithFile
<1>8. Balanced(d0, t, X, Root) /\ dir \in Directories(t.d)
  BY <1>6, <1>7 DEF Settles
<1> HIDE DEF t
<1>9. Balanced(d0, full, X, Root)
  BY <1>8, BalancedWithFile DEF Settles
<1> HIDE DEF full, X
<1>10. Booked(full.d, X, Root) /\ Open(full.m) /\ full.m.freeB = FreeBlocks(full.d)
  BY <1>9, BalancedMeans
<1> QED
  BY <1>3, <1>10 DEF Exact, X

-----------------------------------------------------------------------------
(* The books in every behaviour.                                            *)

\* The disk that is left when the log is written.
LastDisk(d, l) == IF Len(l) = 0 THEN d ELSE l[Len(l)].disk

\* The books of a disk and the count that goes with it: in the mount table, or
\* of a device that is not mounted in the superblock.
Whole(d, m) ==
    /\ Exact(d)
    /\ IF m.mounted THEN Open(m) /\ m.freeB = FreeBlocks(d) ELSE d.freeB = FreeBlocks(d)

\* The invariant: unless something was interrupted or overwritten, the books of
\* the disk that the call in progress leaves behind are right.
Settled ==
    (intact /\ ~crashed /\ CleanTo(disk, todo, Len(todo))) => Whole(LastDisk(disk, todo), mem)

\* A call that keeps the books, or overwrites something and so need not.
Keeps(s) == Proper(disk, s) /\ (Clean(disk, s) => Whole(s.d, s.m))

LEMMA BalancedKeeps ==
    ASSUME NEW s, Balancing(disk, s, {}, Root)
    PROVE  Keeps(s)
<1> DEFINE X == {}
<1>1. Balancing(disk, s, X, Root) /\ Proper(disk, s)
  BY DEF Balancing, Recording
<1> HIDE DEF X
<1>2. ASSUME Clean(disk, s) PROVE Whole(s.d, s.m)
  <2>1. Balanced(disk, s, X, Root)
    BY <1>1, <1>2 DEF Balancing
  <2>2. Booked(s.d, X, Root) /\ Open(s.m) /\ s.m.freeB = FreeBlocks(s.d)
    BY <2>1, BalancedMeans
  <2>3. Exact(s.d) /\ s.m.mounted
    BY <2>2 DEF Exact, Open, X
  <2> QED
    BY <2>2, <2>3 DEF Whole
<1> QED
  BY <1>1, <1>2 DEF Keeps

LEMMA KeepsSettled ==
    ASSUME NEW s, (intact /\ ~crashed) => Keeps(s),
           disk' = disk, intact' = intact, crashed' = crashed, todo' = s.log, mem' = s.m
    PROVE  Settled'
<1> SUFFICES ASSUME intact, ~crashed, CleanTo(disk, s.log, Len(s.log))
             PROVE  Whole(LastDisk(disk, s.log), s.m)
  BY DEF Settled
<1>1. Proper(disk, s) /\ Whole(s.d, s.m)
  BY DEF Keeps, Clean
<1>2. s.d = LastDisk(disk, s.log)
  BY <1>1 DEF Proper, LastDisk
<1> QED
  BY <1>1, <1>2

LEMMA NothingToDo ==
    ASSUME Settled, todo = <<>>, intact, ~crashed
    PROVE  Whole(disk, mem)
<1>1. Len(todo) = 0 /\ CleanTo(disk, todo, Len(todo))
  BY NoLog
<1> QED
  BY <1>1 DEF Settled, LastDisk

LEMMA NowBalanced ==
    ASSUME Consistent, Settled, todo = <<>>, mem.mounted, intact, ~crashed
    PROVE  Balanced(disk, Now, {}, Root) /\ Now.d = disk
<1>1. Sound(disk)
  BY DEF Consistent
<1>2. Exact(disk) /\ Open(mem) /\ mem.freeB = FreeBlocks(disk)
  BY NothingToDo DEF Whole
<1> QED
  BY <1>1, <1>2, BalancedSession DEF Now

LEMMA InitSettled == Init => Settled
<1> SUFFICES ASSUME Init PROVE Whole(disk, mem)
  <2>1. ASSUME Init PROVE Len(todo) = 0
    <3>1. todo = <<>>
      BY <2>1 DEF Init
    <3> QED
      BY <3>1, NoLog
  <2>2. ASSUME Init PROVE LastDisk(disk, todo) = disk
    BY <2>1, <2>2 DEF LastDisk
  <2> QED
    BY <2>2 DEF Settled
<1>1. CASE disk = Formatted /\ mem = Unmounted
  <2>1. mem.mounted = FALSE
    BY <1>1 DEF Unmounted
  <2> QED
    BY <1>1, <2>1, FormattedStored DEF Stored, Whole
<1>2. CASE InitNearlyFull
  <2>1. Exact(disk) /\ Open(mem) /\ mem.freeB = FreeBlocks(disk)
    BY <1>2, BalancedNearlyFull
  <2>2. mem.mounted
    BY <2>1 DEF Open
  <2> QED
    BY <2>1, <2>2 DEF Whole
<1> QED
  BY <1>1, <1>2 DEF Init

\* Each call keeps the books.
LEMMA CallsKeep ==
    ASSUME Balanced(disk, Now, {}, Root), Now.d = disk
    PROVE  /\ \A p \in Directories(disk), n \in Names :
                 /\ Keeps(Create(Now, p, n)) /\ Keeps(Mkdir(Now, p, n))
                 /\ Keeps(Symlink(Now, p, n)) /\ Keeps(Unlink(Now, p, n))
                 /\ \A i \in Named(disk) : Keeps(Link(Now, p, n, i))
           /\ \A i \in Named(disk) : Writable(disk, i) =>
                 \A lo, hi : Keeps(WriteFile(Now, i, lo, hi))
           /\ Keeps(UnmountSession(Now))
<1> DEFINE s == Now
           Good(t) == Balanced(disk, t, {}, Root)
<1> HIDE DEF s
<1>1. Good(s) /\ s.d = disk
  BY DEF s
<1>2. \A t : Good(t) => Keeps(t)
  <2>1. ASSUME NEW t, Balanced(disk, t, {}, Root) PROVE Keeps(t)
    <3> DEFINE X == {}
    <3>1. Balanced(disk, t, X, Root)
      BY <2>1
    <3> HIDE DEF X
    <3>2. Balancing(disk, t, X, Root)
      BY <3>1, BalancedBegins
    <3> QED
      BY <3>2, BalancedKeeps DEF X
  <2> QED
    BY <2>1
<1>3. ASSUME NEW p \in Directories(s.d), NEW n \in Names
      PROVE  /\ Keeps(Create(s, p, n)) /\ Keeps(Mkdir(s, p, n))
             /\ Keeps(Symlink(s, p, n)) /\ Keeps(Unlink(s, p, n))
             /\ \A i \in Named(s.d) : Keeps(Link(s, p, n, i))
  <2>1. Keeps(Create(s, p, n))
    BY <1>1, BalancedCreate, BalancedKeeps
  <2>2. Good(Mkdir(s, p, n))
    BY <1>1, BalancedMkdir DEF Settles
  <2>3. Good(Symlink(s, p, n))
    BY <1>1, BalancedSymlink DEF Settles
  <2>4. Good(Unlink(s, p, n))
    BY <1>1, BalancedUnlink
  <2>5. \A i \in Named(s.d) : Good(Link(s, p, n, i))
    BY <1>1, BalancedLink
  <2> HIDE DEF Good
  <2> QED
    BY <1>2, <2>1, <2>2, <2>3, <2>4, <2>5
<1>4. ASSUME NEW i \in Named(s.d), Writable(s.d, i), NEW lo, NEW hi
      PROVE  Keeps(WriteFile(s, i, lo, hi))
  <2>1. SoundFor(s.d, Directories(s.d))
    BY <1>1, BalancedMeans
  <2>2. i \notin Directories(s.d)
    BY <1>4, <2>1 DEF Writable, SoundFor
  <2>3. Good(WriteFile(s, i, lo, hi))
    BY <1>1, <2>2, BalancedWriteFile DEF Settles
  <2> HIDE DEF Good
  <2> QED
    BY <1>2, <2>3
<1>5. Keeps(UnmountSession(s))
  <2> DEFINE t == UnmountSession(s)
  <2>1. (Clean(disk, t) => Stored(t.d)) /\ Proper(disk, t) /\ t.m = Unmounted
    BY <1>1, UnmountStores
  <2> HIDE DEF t
  <2>2. t.m.mounted = FALSE
    BY <2>1 DEF Unmounted
  <2>3. Keeps(t)
    BY <2>1, <2>2 DEF Keeps, Whole, Stored
  <2> QED
    BY <2>3 DEF t
<1> HIDE DEF Good
<1> QED
  BY <1>1, <1>3, <1>4, <1>5 DEF s

LEMMA NextSettled == Consistent /\ Settled /\ [Next]_vars => Settled'
<1> SUFFICES ASSUME Consistent, Settled, [Next]_vars PROVE Settled'
  OBVIOUS
<1>1. ASSUME NEW s, Do(s), (intact /\ ~crashed) => Keeps(s)
      PROVE  Settled'
  <2>1. todo' = s.log /\ mem' = s.m /\ UNCHANGED <<disk, intact, crashed>>
    BY <1>1 DEF Do
  <2> QED
    BY <1>1, <2>1, KeepsSettled
<1>2. (todo = <<>> /\ mem.mounted /\ intact /\ ~crashed) =>
          /\ \A p \in Directories(disk), n \in Names :
                 /\ Keeps(Create(Now, p, n)) /\ Keeps(Mkdir(Now, p, n))
                 /\ Keeps(Symlink(Now, p, n)) /\ Keeps(Unlink(Now, p, n))
                 /\ \A i \in Named(disk) : Keeps(Link(Now, p, n, i))
          /\ \A i \in Named(disk) : Writable(disk, i) =>
                 \A lo, hi : Keeps(WriteFile(Now, i, lo, hi))
          /\ Keeps(UnmountSession(Now))
  BY NowBalanced, CallsKeep
<1>3. CASE Creates
  <2>1. PICK p \in Directories(disk), n \in Names : Do(Create(Now, p, n))
    BY <1>3 DEF Creates
  <2> QED
    BY <1>1, <1>2, <1>3, <2>1 DEF Creates, MayAllocate, Do
<1>4. CASE Mkdirs
  <2>1. PICK p \in Directories(disk), n \in Names : Do(Mkdir(Now, p, n))
    BY <1>4 DEF Mkdirs
  <2> QED
    BY <1>1, <1>2, <1>4, <2>1 DEF Mkdirs, MayAllocate, Do
<1>5. CASE Symlinks
  <2>1. PICK p \in Directories(disk), n \in Names : Do(Symlink(Now, p, n))
    BY <1>5 DEF Symlinks
  <2> QED
    BY <1>1, <1>2, <1>5, <2>1 DEF Symlinks, MayAllocate, Do
<1>6. CASE Links
  <2>1. PICK p \in Directories(disk), n \in Names, i \in Named(disk) : Do(Link(Now, p, n, i))
    BY <1>6 DEF Links
  <2> QED
    BY <1>1, <1>2, <1>6, <2>1 DEF Links, MayAllocate, Do
<1>7. CASE Unlinks
  <2>1. PICK p \in Directories(disk), n \in Names : Do(Unlink(Now, p, n))
    BY <1>7 DEF Unlinks
  <2> QED
    BY <1>1, <1>2, <1>7, <2>1 DEF Unlinks, Do
<1>8. CASE Writes
  <2>1. PICK i \in Named(disk), e \in Extents :
            Writable(disk, i) /\ Do(WriteFile(Now, i, e[1], e[2]))
    BY <1>8 DEF Writes
  <2> QED
    BY <1>1, <1>2, <1>8, <2>1 DEF Writes, MayAllocate, Do
<1>9. CASE Unmount
  BY <1>1, <1>2, <1>9 DEF Unmount, Do
<1>10. CASE Mount
  <2> DEFINE s == MountSession(disk)
  <2>1. /\ ~mem.mounted /\ todo = <<>> /\ todo' = s.log /\ mem' = s.m
        /\ disk' = disk /\ intact' = intact /\ crashed' = crashed
    BY <1>10 DEF Mount
  <2>2. ASSUME intact, ~crashed PROVE Keeps(s)
    <3>1. Sound(disk)
      BY <2>2 DEF Consistent
    <3>2. Stored(disk)
      BY <2>1, <2>2, NothingToDo DEF Whole, Stored
    <3> QED
      BY <3>1, <3>2, BalancingMount, BalancedKeeps
  <2> HIDE DEF s
  <2> QED
    BY <2>1, <2>2, KeepsSettled
<1>11. CASE WriteBlock
  <2>1. /\ todo # <<>> /\ disk' = Head(todo).disk /\ todo' = Tail(todo)
        /\ intact' => intact /\ ~(Head(todo).journal /\ Overwrites(disk, Head(todo).disk))
        /\ mem' = mem /\ crashed' = crashed
    BY <1>11 DEF WriteBlock
  <2> DEFINE d == Head(todo).disk
             r == Tail(todo)
  <2>2. SUFFICES ASSUME intact', ~crashed, CleanTo(d, r, Len(r)) PROVE Whole(LastDisk(d, r), mem)
    BY <2>1 DEF Settled
  <2>3. /\ intact /\ ~(Head(todo).journal /\ Overwrites(disk, d)) /\ IsLog(todo)
    BY <2>1, <2>2 DEF Consistent, SafeLog
  <2>4. /\ todo[1] = Head(todo) /\ Len(todo) \in Nat \ {0} /\ Len(r) = Len(todo) - 1
        /\ \A n \in 1 .. Len(r) : r[n] = todo[n + 1]
        /\ \A n \in 0 .. Len(r) : CleanTo(d, r, n) => CleanTo(disk, todo, n + 1)
    BY <2>1, <2>3, LogTail
  <2> HIDE DEF r
  <2>5. CleanTo(disk, todo, Len(todo))
    <3>1. Len(r) \in 0 .. Len(r) /\ Len(r) + 1 = Len(todo)
      BY <2>4
    <3>2. CleanTo(disk, todo, Len(r) + 1)
      BY <2>2, <2>4, <3>1
    <3> QED
      BY <3>1, <3>2
  <2>6. LastDisk(d, r) = LastDisk(disk, todo)
    <3>1. CASE Len(r) = 0
      <4>1. Len(todo) = 1
        BY <2>4, <3>1
      <4> QED
        BY <2>4, <3>1, <4>1 DEF LastDisk
    <3>2. CASE Len(r) # 0
      <4>1. Len(r) \in 1 .. Len(r) /\ Len(r) + 1 = Len(todo) /\ Len(todo) # 0
        BY <2>4, <3>2
      <4>2. r[Len(r)] = todo[Len(todo)]
        BY <2>4, <4>1
      <4> QED
        BY <3>2, <4>1, <4>2 DEF LastDisk
    <3> QED
      BY <3>1, <3>2
  <2> QED
    BY <2>2, <2>3, <2>5, <2>6 DEF Settled
<1>12. CASE Crash
  BY <1>12 DEF Crash, Settled
<1>13. CASE UNCHANGED vars
  BY <1>13 DEF vars, Settled
<1> QED
  BY <1>3, <1>4, <1>5, <1>6, <1>7, <1>8, <1>9, <1>10, <1>11, <1>12, <1>13 DEF Next

LEMMA BrainFSSettled == Spec => [](Consistent /\ Settled)
<1>1. Init => Consistent /\ Settled
  BY InitConsistent, InitSettled
<1>2. Consistent /\ Settled /\ [Next]_vars => Consistent' /\ Settled'
  BY NextConsistent, NextSettled
<1> QED
  BY <1>1, <1>2, PTL DEF Spec

\* The link count of a file is never below the number of its names, and between
\* calls, if nothing was interrupted, it is that number: brfs_unlink frees a
\* file with its last name, not before and not later.
THEOREM BrainFSLinksCoverNames == Spec => []LinksCoverNames
<1>1. Consistent /\ Settled => LinksCoverNames
  <2> SUFFICES ASSUME Consistent, Settled, intact, NEW i \in Named(disk) \ Directories(disk)
               PROVE  /\ Inode(disk, i).links >= NamesOf(disk, i)
                      /\ (todo = <<>> /\ ~crashed) => Inode(disk, i).links = NamesOf(disk, i)
    BY DEF LinksCoverNames, NamesOf
  <2>1. Inode(disk, i).links >= NamesOf(disk, i)
    BY SoundMeans DEF NamesOf
  <2>2. ASSUME todo = <<>>, ~crashed PROVE Inode(disk, i).links = NamesOf(disk, i)
    <3>1. Sound(disk)
      BY DEF Consistent
    <3>2. Exact(disk)
      BY <2>2, NothingToDo DEF Whole
    <3>3. i # Root /\ NamesOf(disk, i) \in Nat
      BY <3>1, NamesCounted DEF Sound, SoundFor, Closed, NamesOf
    <3>4. Inode(disk, i).links = NamesOf(disk, i) + Extra(Root, i) /\ Extra(Root, i) = 0
      BY <3>2, <3>3 DEF Exact, Booked, Extra
    <3> QED
      BY <3>3, <3>4
  <2> QED
    BY <2>1, <2>2
<1> QED
  BY <1>1, BrainFSSettled, PTL

\* Between calls, if nothing was interrupted, the block bitmap marks the blocks
\* of named inodes and no others, and the count of free blocks agrees: every
\* call, also one that fails half-way, gives back what it took.
THEOREM BrainFSAllocationExact == Spec => []AllocationExact
<1>1. Settled => AllocationExact
  <2> SUFFICES ASSUME Settled, intact, todo = <<>>, ~crashed
               PROVE  /\ disk.bmap \cap DataBlocks = Owned(disk)
                      /\ mem.mounted => mem.freeB = FreeBlocks(disk)
    BY DEF AllocationExact, Owned, FreeBlocks
  <2>1. Whole(disk, mem)
    BY NothingToDo
  <2>2. disk.bmap \cap DataBlocks = Owned(disk) \cup {}
    BY <2>1 DEF Whole, Exact, Booked
  <2> QED
    BY <2>1, <2>2 DEF Whole
<1> QED
  BY <1>1, BrainFSSettled, PTL
-----------------------------------------------------------------------------
(* Types.  Unlike soundness they hold of every disk, also of one that the   *)
(* journal has written over, and in every session.                          *)

Typed(d) == IsDisk(d) /\ DiskTypeOK(d)

IsTypedData(data) ==
    /\ IsData(data)
    /\ data.of \in Inodes \cup {0}
    /\ \A k \in DOMAIN data.entries :
          data.entries[k].name \in Names => data.entries[k].ino \in Inodes

TypedLog(l) ==
    /\ IsLog(l)
    /\ \A k \in 1 .. Len(l) : Typed(l[k].disk) /\ l[k].journal \in BOOLEAN

TypedSession(s) ==
    /\ DOMAIN s = {"d", "m", "log"}
    /\ Typed(s.d) /\ s.m \in MemoryType /\ TypedLog(s.log)

\* The bits that brfs_mkfs sets are in the bitmap's block.
LEMMA LayoutFits ==
    /\ InodeBlocks \in 2 .. 256
    /\ FirstData \in Nat /\ FirstData = InodeBlocks + 3 /\ FirstData <= Blocks - 1
    /\ {0, Root} \subseteq BitNumbers /\ 0 .. FirstData \subseteq BitNumbers
<1>1. FirstData \in Nat /\ FirstData = InodeBlocks + 3 /\ FirstData <= Blocks - 1
  BY TableSize, SizeAssumption DEF FirstData, InodeTable
<1>2. {0, Root} \subseteq BitNumbers /\ 0 .. FirstData \subseteq BitNumbers
  BY <1>1, TableSize DEF Root, BitNumbers
<1> QED
  BY <1>1, <1>2, TableSize

\* What brfs_create, brfs_mkdir and brfs_symlink put in the inode table.
LEMMA NodeTyped ==
    ASSUME NEW kind \in Kinds, NEW links \in Nat, NEW b \in DataBlocks \cup {0}
    PROVE  Node(kind, links, b) \in NodeType
<1>1. <<b, 0, 0>> \in [1 .. 3 -> DataBlocks \cup {0}]
  OBVIOUS
<1> QED
  BY <1>1 DEF Node, NodeType

LEMMA InodeTyped ==
    ASSUME NEW d, Typed(d), NEW i
    PROVE  Inode(d, i) \in NodeType
<1>1. <<0, 0, 0>> \in [1 .. 3 -> DataBlocks \cup {0}]
  OBVIOUS
<1>2. Blank \in NodeType
  BY <1>1 DEF Blank, NodeType, Kinds
<1> QED
  BY <1>2 DEF Inode, Typed, DiskTypeOK

LEMMA NodeTypeIsNode ==
    ASSUME NEW node \in NodeType
    PROVE  /\ IsNode(node)
           /\ node.kind \in Kinds /\ node.links \in Nat
           /\ \A k \in 1 .. 3 : node.blk[k] \in DataBlocks \cup {0}
           /\ \A n \in Nat : [node EXCEPT !.links = n] \in NodeType
           /\ \A k \in 1 .. 3, b \in DataBlocks \cup {0} :
                 [node EXCEPT !.blk[k] = b] \in NodeType
  BY DEF NodeType, IsNode

\* A block written to the disk.
LEMMA LoggedTyped ==
    ASSUME NEW s, TypedSession(s), NEW e, Typed(e), NEW journal \in BOOLEAN
    PROVE  /\ TypedSession(Logged(s, e, journal))
           /\ Logged(s, e, journal).d = e /\ Logged(s, e, journal).m = s.m
<1> DEFINE x == [disk |-> e, journal |-> journal]
           l == s.log
           n == Len(l)
           g == Append(l, x)
           t == Logged(s, e, journal)
<1>1. DOMAIN t = {"d", "m", "log"} /\ t.d = e /\ t.m = s.m /\ t.log = g
  BY DEF Logged, TypedSession
<1>2. IsLog(l)
  BY DEF TypedSession, TypedLog
<1>3. /\ IsLog(g) /\ n \in Nat /\ Len(g) = n + 1 /\ g[n + 1] = x
      /\ \A k \in 1 .. n : g[k] = l[k]
  BY <1>2, LogAppend
<1>4. x.disk = e /\ x.journal = journal
  OBVIOUS
<1> HIDE DEF x, g, t
<1>5. TypedLog(g)
  <2>1. ASSUME NEW k \in 1 .. (n + 1) PROVE Typed(g[k].disk) /\ g[k].journal \in BOOLEAN
    <3>1. CASE k = n + 1
      BY <1>3, <1>4, <3>1
    <3>2. CASE k # n + 1
      <4>1. k \in 1 .. n
        BY <1>3, <3>2
      <4> QED
        BY <1>3, <4>1 DEF TypedSession, TypedLog
    <3> QED
      BY <3>1, <3>2
  <2> QED
    BY <1>3, <2>1 DEF TypedLog
<1>6. TypedSession(t)
  BY <1>1, <1>5 DEF TypedSession
<1> QED
  BY <1>1, <1>6 DEF t

\* What changes in memory only.
LEMMA MemoryTyped ==
    ASSUME NEW s, TypedSession(s), NEW t, SameDisk(s, t), t.m \in MemoryType
    PROVE  TypedSession(t)
  BY DEF TypedSession, SameDisk

LEMMA PutInodeTyped ==
    ASSUME NEW s, TypedSession(s), NEW i \in Inodes, NEW node \in NodeType
    PROVE  /\ TypedSession(PutInode(s, i, node))
           /\ PutInode(s, i, node).m = s.m
           /\ Inode(PutInode(s, i, node).d, i) = node
           /\ PutInode(s, i, node).d.content = s.d.content
<1> DEFINE d == s.d
           e == [d EXCEPT !.inode = Put(@, i, node)]
<1>1. Typed(d) /\ IsDisk(d) /\ DiskTypeOK(d) /\ IsNode(node)
  BY NodeTypeIsNode DEF TypedSession, Typed
<1> HIDE DEF d
<1>2. IsDisk(e) /\ e.imap = d.imap /\ e.bmap = d.bmap /\ e.content = d.content
      /\ Inode(e, i) = node /\ \A b : EntriesOf(e, b) = EntriesOf(d, b)
  BY <1>1, PutNode
<1>3. e.inode = Put(d.inode, i, node) /\ e.freeB = d.freeB /\ e.freeI = d.freeI
  BY <1>1 DEF IsDisk
<1>4. DOMAIN e.inode \subseteq Inodes /\ \A j \in DOMAIN e.inode : e.inode[j] \in NodeType
  BY <1>1, <1>3 DEF Put, DiskTypeOK
<1>5. PutInode(s, i, node) = Logged(s, e, FALSE)
  BY DEF PutInode, d
<1> HIDE DEF e
<1>6. Typed(e)
  BY <1>1, <1>2, <1>3, <1>4 DEF Typed, DiskTypeOK
<1>7. \A journal \in BOOLEAN : /\ TypedSession(Logged(s, e, journal))
                               /\ Logged(s, e, journal).d = e /\ Logged(s, e, journal).m = s.m
  BY <1>6, LoggedTyped
<1> QED
  BY <1>2, <1>5, <1>7 DEF d

LEMMA WroteTyped ==
    ASSUME NEW d, Typed(d), NEW b \in DataBlocks, NEW data, IsTypedData(data),
           NEW e, Wrote(d, e, b, data)
    PROVE  Typed(e) /\ e.content[b] = data
<1>1. IsDisk(d) /\ DiskTypeOK(d) /\ IsData(data)
  BY DEF Typed, IsTypedData
<1>2. /\ DOMAIN e = DOMAIN d /\ e.freeB = d.freeB /\ e.freeI = d.freeI
  BY <1>1 DEF IsDisk, Wrote
<1>3. /\ IsDisk(e) /\ e.imap = d.imap /\ e.bmap = d.bmap /\ e.inode = d.inode
      /\ \A c \in DataBlocks : e.content[c] = IF c = b THEN data ELSE d.content[c]
  BY <1>1, PutData
<1>4. ASSUME NEW c \in DataBlocks
      PROVE  /\ e.content[c].of \in Inodes \cup {0}
             /\ DOMAIN e.content[c].entries \subseteq DirSlots
             /\ \A k \in DOMAIN e.content[c].entries :
                  e.content[c].entries[k].name \in Names => e.content[c].entries[k].ino \in Inodes
  <2>1. CASE c = b
    BY <1>3, <2>1 DEF IsTypedData, IsData
  <2>2. CASE c # b
    BY <1>1, <1>3, <2>2 DEF DiskTypeOK, EntriesOf
  <2> QED
    BY <2>1, <2>2
<1> QED
  BY <1>1, <1>2, <1>3, <1>4 DEF Typed, DiskTypeOK, EntriesOf, IsDisk

LEMMA PutBlockTyped ==
    ASSUME NEW s, TypedSession(s), NEW b \in DataBlocks, NEW data, IsTypedData(data)
    PROVE  /\ TypedSession(PutBlock(s, b, data))
           /\ PutBlock(s, b, data).m = s.m
           /\ PutBlock(s, b, data).d.content[b] = data
<1> DEFINE e == [s.d EXCEPT !.content[b] = data]
<1>1. PutBlock(s, b, data) = Logged(s, e, FALSE)
  BY DEF PutBlock
<1>2. Wrote(s.d, e, b, data)
  BY DEF Wrote
<1> HIDE DEF e
<1>3. Typed(e) /\ e.content[b] = data
  BY <1>2, WroteTyped DEF TypedSession
<1>4. \A journal \in BOOLEAN : /\ TypedSession(Logged(s, e, journal))
                               /\ Logged(s, e, journal).d = e /\ Logged(s, e, journal).m = s.m
  BY <1>3, LoggedTyped
<1> QED
  BY <1>1, <1>3, <1>4

\* The bitmaps and the counts of the superblock.
\* The bitmaps: a number that is marked exists, and a count that is above zero
\* when a number is taken does not fall below it.
LEMMA MapsTyped ==
    ASSUME NEW d, Typed(d), NEW e, DOMAIN e = DOMAIN d,
           e.imap \subseteq BitNumbers, e.bmap \subseteq BitNumbers,
           e.inode = d.inode, e.content = d.content, e.freeB \in Nat, e.freeI \in Nat
    PROVE  Typed(e)
  BY DEF Typed, IsDisk, DiskTypeOK, EntriesOf

LEMMA CountTyped ==
    ASSUME NEW s, TypedSession(s), NEW n \in Int
    PROVE  /\ s.m.freeB + n >= 0 => /\ TypedSession(CountBlocks(s, n))
                                    /\ CountBlocks(s, n).d = s.d
                                    /\ CountBlocks(s, n).m.freeI = s.m.freeI
           /\ s.m.freeI + n >= 0 => /\ TypedSession(CountInodes(s, n))
                                    /\ CountInodes(s, n).d = s.d
                                    /\ CountInodes(s, n).m.freeB = s.m.freeB
<1>1. DOMAIN s = {"d", "m", "log"} /\ s.m \in MemoryType
  BY DEF TypedSession
<1>2. /\ s.m.freeB \in Nat /\ s.m.freeI \in Nat
      /\ \A k \in Nat : [s.m EXCEPT !.freeB = k] \in MemoryType /\ [s.m EXCEPT !.freeI = k] \in MemoryType
      /\ \A k \in Nat : [s.m EXCEPT !.freeB = k].freeI = s.m.freeI /\ [s.m EXCEPT !.freeI = k].freeB = s.m.freeB
  BY <1>1 DEF MemoryType
<1>3. ASSUME s.m.freeB + n >= 0
      PROVE  TypedSession(CountBlocks(s, n)) /\ CountBlocks(s, n).d = s.d
             /\ CountBlocks(s, n).m.freeI = s.m.freeI
  <2> DEFINE t == CountBlocks(s, n)
             k == s.m.freeB + n
  <2>1. SameDisk(s, t) /\ t.m = [s.m EXCEPT !.freeB = k]
    BY <1>1 DEF CountBlocks, SameDisk
  <2>2. k \in Nat
    BY <1>2, <1>3
  <2> HIDE DEF t, k
  <2>3. t.m \in MemoryType /\ t.m.freeI = s.m.freeI
    BY <1>2, <2>1, <2>2
  <2>4. TypedSession(t) /\ t.d = s.d
    BY <2>1, <2>3, MemoryTyped DEF SameDisk
  <2> QED
    BY <2>3, <2>4 DEF t
<1>4. ASSUME s.m.freeI + n >= 0
      PROVE  TypedSession(CountInodes(s, n)) /\ CountInodes(s, n).d = s.d
             /\ CountInodes(s, n).m.freeB = s.m.freeB
  <2> DEFINE t == CountInodes(s, n)
             k == s.m.freeI + n
  <2>1. SameDisk(s, t) /\ t.m = [s.m EXCEPT !.freeI = k]
    BY <1>1 DEF CountInodes, SameDisk
  <2>2. k \in Nat
    BY <1>2, <1>4
  <2> HIDE DEF t, k
  <2>3. t.m \in MemoryType /\ t.m.freeB = s.m.freeB
    BY <1>2, <2>1, <2>2
  <2>4. TypedSession(t) /\ t.d = s.d
    BY <2>1, <2>3, MemoryTyped DEF SameDisk
  <2> QED
    BY <2>3, <2>4 DEF t
<1> QED
  BY <1>3, <1>4

LEMMA FreeTyped ==
    ASSUME NEW s, TypedSession(s)
    PROVE  /\ FreeInode(s) = 0 \/ (FreeInode(s) \in Inodes \cap BitNumbers /\ s.m.freeI > 0)
           /\ FreeBlock(s) = 0 \/ (FreeBlock(s) \in DataBlocks \cap BitNumbers /\ s.m.freeB > 0)
           /\ FreeInode(s) \in Nat /\ FreeBlock(s) \in Nat
<1>1. s.m.freeI \in Nat /\ s.m.freeB \in Nat
  BY DEF TypedSession, MemoryType
<1>2. ((Inodes \cap BitNumbers) \ s.d.imap) \in SUBSET Nat /\ ((DataBlocks \cap BitNumbers) \ s.d.bmap) \in SUBSET Nat
  BY Layout
<1>3. /\ Lowest((Inodes \cap BitNumbers) \ s.d.imap) \in (Inodes \cap BitNumbers) \cup {0}
      /\ Lowest((DataBlocks \cap BitNumbers) \ s.d.bmap) \in (DataBlocks \cap BitNumbers) \cup {0}
  BY <1>2, LowestBelongs
<1>4. /\ FreeInode(s) = 0 \/ (FreeInode(s) \in Inodes \cap BitNumbers /\ s.m.freeI > 0)
      /\ FreeBlock(s) = 0 \/ (FreeBlock(s) \in DataBlocks \cap BitNumbers /\ s.m.freeB > 0)
  BY <1>1, <1>3 DEF FreeInode, FreeBlock
<1> QED
  BY <1>4, Layout

\* Allocating in the bitmaps, and freeing.
LEMMA TakeTyped ==
    ASSUME NEW s, TypedSession(s)
    PROVE  /\ \A i \in Inodes \cap BitNumbers : s.m.freeI > 0 =>
                 /\ TypedSession(TakeInode(s, i))
                 /\ TakeInode(s, i).m.freeB = s.m.freeB
           /\ \A b \in DataBlocks \cap BitNumbers : s.m.freeB > 0 =>
                 /\ TypedSession(TakeBlock(s, b))
                 /\ TakeBlock(s, b).m.freeI = s.m.freeI
<1> DEFINE n == -1
<1>1. Typed(s.d) /\ IsDisk(s.d) /\ DiskTypeOK(s.d) /\ s.m.freeB \in Nat /\ s.m.freeI \in Nat
  BY DEF TypedSession, Typed, MemoryType
<1>2. ASSUME NEW i \in Inodes \cap BitNumbers, s.m.freeI > 0
      PROVE  TypedSession(TakeInode(s, i)) /\ TakeInode(s, i).m.freeB = s.m.freeB
  <2> DEFINE e == [s.d EXCEPT !.imap = @ \cup {i}]
             t == Logged(s, e, FALSE)
  <2>1. TakeInode(s, i) = CountInodes(t, n)
    BY DEF TakeInode
  <2>2. /\ DOMAIN e = DOMAIN s.d /\ e.imap = s.d.imap \cup {i} /\ e.bmap = s.d.bmap
        /\ e.inode = s.d.inode /\ e.content = s.d.content
        /\ e.freeB = s.d.freeB /\ e.freeI = s.d.freeI
    BY <1>1 DEF IsDisk
  <2> HIDE DEF e
  <2>3. Typed(e)
    BY <1>1, <2>2, MapsTyped DEF DiskTypeOK
  <2>4. \A journal \in BOOLEAN : /\ TypedSession(Logged(s, e, journal))
                                 /\ Logged(s, e, journal).d = e /\ Logged(s, e, journal).m = s.m
    BY <2>3, LoggedTyped
  <2>5. TypedSession(t) /\ t.m = s.m
    BY <2>4
  <2> HIDE DEF t
  <2>6. n \in Int /\ t.m.freeI + n >= 0
    BY <1>1, <1>2, <2>5
  <2> HIDE DEF n
  <2> QED
    BY <2>1, <2>5, <2>6, CountTyped
<1>3. ASSUME NEW b \in DataBlocks \cap BitNumbers, s.m.freeB > 0
      PROVE  TypedSession(TakeBlock(s, b)) /\ TakeBlock(s, b).m.freeI = s.m.freeI
  <2> DEFINE e == [s.d EXCEPT !.bmap = @ \cup {b}]
             t == Logged(s, e, FALSE)
  <2>1. TakeBlock(s, b) = CountBlocks(t, n)
    BY DEF TakeBlock
  <2>2. /\ DOMAIN e = DOMAIN s.d /\ e.imap = s.d.imap /\ e.bmap = s.d.bmap \cup {b}
        /\ e.inode = s.d.inode /\ e.content = s.d.content
        /\ e.freeB = s.d.freeB /\ e.freeI = s.d.freeI
    BY <1>1 DEF IsDisk
  <2> HIDE DEF e
  <2>3. Typed(e)
    BY <1>1, <2>2, MapsTyped DEF DiskTypeOK
  <2>4. \A journal \in BOOLEAN : /\ TypedSession(Logged(s, e, journal))
                                 /\ Logged(s, e, journal).d = e /\ Logged(s, e, journal).m = s.m
    BY <2>3, LoggedTyped
  <2>5. TypedSession(t) /\ t.m = s.m
    BY <2>4
  <2> HIDE DEF t
  <2>6. n \in Int /\ t.m.freeB + n >= 0
    BY <1>1, <1>3, <2>5
  <2> HIDE DEF n
  <2> QED
    BY <2>1, <2>5, <2>6, CountTyped
<1> QED
  BY <1>2, <1>3

LEMMA DropTyped ==
    ASSUME NEW s, TypedSession(s), NEW x
    PROVE  TypedSession(DropInode(s, x)) /\ TypedSession(DropBlock(s, x))
<1> DEFINE e == [s.d EXCEPT !.imap = @ \ {x}]
           f == [s.d EXCEPT !.bmap = @ \ {x}]
           t == Logged(s, e, FALSE)
           u == Logged(s, f, FALSE)
<1>1. Typed(s.d) /\ IsDisk(s.d) /\ DiskTypeOK(s.d) /\ s.m.freeB \in Nat /\ s.m.freeI \in Nat
  BY DEF TypedSession, Typed, MemoryType
<1>2. DropInode(s, x) = CountInodes(t, 1) /\ DropBlock(s, x) = CountBlocks(u, 1)
  BY DEF DropInode, DropBlock
<1>3. /\ DOMAIN e = DOMAIN s.d /\ e.imap = s.d.imap \ {x} /\ e.bmap = s.d.bmap
      /\ e.inode = s.d.inode /\ e.content = s.d.content
      /\ e.freeB = s.d.freeB /\ e.freeI = s.d.freeI
  BY <1>1 DEF IsDisk
<1>4. /\ DOMAIN f = DOMAIN s.d /\ f.imap = s.d.imap /\ f.bmap = s.d.bmap \ {x}
      /\ f.inode = s.d.inode /\ f.content = s.d.content
      /\ f.freeB = s.d.freeB /\ f.freeI = s.d.freeI
  BY <1>1 DEF IsDisk
<1> HIDE DEF e, f
<1>5. Typed(e)
  BY <1>1, <1>3, MapsTyped DEF DiskTypeOK
<1>6. Typed(f)
  BY <1>1, <1>4, MapsTyped DEF DiskTypeOK
<1>7. \A journal \in BOOLEAN :
        /\ TypedSession(Logged(s, e, journal)) /\ Logged(s, e, journal).m = s.m
        /\ TypedSession(Logged(s, f, journal)) /\ Logged(s, f, journal).m = s.m
  BY <1>5, <1>6, LoggedTyped
<1>8. TypedSession(t) /\ t.m = s.m /\ TypedSession(u) /\ u.m = s.m
  BY <1>7
<1> HIDE DEF t, u
<1>9. 1 \in Int /\ t.m.freeI + 1 >= 0 /\ u.m.freeB + 1 >= 0
  BY <1>1, <1>8
<1> QED
  BY <1>2, <1>8, <1>9, CountTyped

-----------------------------------------------------------------------------
(* Names lead to inodes.                                                    *)

LEMMA LeadsTyped ==
    ASSUME NEW d, Typed(d), NEW p, NEW i, Leads(d, p, i)
    PROVE  i \in Inodes
<1>1. PICK b \in BlocksOf(d, p), k \in DirSlots : NamesAt(d, b, k, i)
  BY DEF Leads
<1>2. b \in DataBlocks
  BY BlocksAreData DEF Typed
<1> QED
  BY <1>1, <1>2 DEF NamesAt, Typed, DiskTypeOK

\* Directories is reached by names from the root, which lie in the inode table.
LEMMA DirectoriesTyped ==
    ASSUME NEW d, Typed(d)
    PROVE  Directories(d) \subseteq Inodes /\ Named(d) \subseteq Inodes
<1> DEFINE depth == Cardinality(DOMAIN d.inode)
<1>1. IsFiniteSet(DOMAIN d.inode) /\ depth \in Nat /\ IsDisk(d)
  BY Layout, FS_Subset, FS_CardinalityType DEF IsDisk, Typed
<1>2. Directories(d) = LET within[k \in 0 .. depth] ==
                             IF k = 0 THEN {Root} ELSE Deeper(d, within[k - 1])
                       IN  within[depth]
  BY DEF Directories, Deeper, Below
<1> HIDE DEF depth
<1> DEFINE within == CHOOSE v : Levels(d, v, depth)
<1>3. Levels(d, within, depth)
  BY <1>1, LevelsExist
<1>4. Directories(d) = within[depth]
  BY <1>2 DEF Levels
<1> HIDE DEF within
<1>5. within[0] = {Root} /\ \A k \in 1 .. depth : within[k] = Deeper(d, within[k - 1])
  <2>1. \A k \in 0 .. depth : within[k] = IF k = 0 THEN {Root} ELSE Deeper(d, within[k - 1])
    BY <1>3 DEF Levels
  <2> QED
    BY <1>1, <2>1
<1>6. \A up : Below(d, up) \subseteq Inodes
  BY <1>1, BelowLeads, LeadsTyped
<1> DEFINE S == {k \in 0 .. depth : within[k] \subseteq Inodes}
<1>7. 0 \in S
  BY <1>1, <1>5, Layout
<1>8. ASSUME NEW k \in 1 .. depth, k - 1 \in S PROVE k \in S
  BY <1>8, <1>5, <1>6 DEF Deeper
<1> HIDE DEF S
<1>9. depth \in S
  BY <1>1, <1>7, <1>8, SetInduction
<1>10. Directories(d) \subseteq Inodes
  BY <1>4, <1>9 DEF S
<1>11. Named(d) = Below(d, Directories(d)) \cup {Root}
  BY DEF Named, Tree, Below
<1> QED
  BY <1>6, <1>10, <1>11, Layout

LEMMA PlacesMean ==
    ASSUME NEW d, NEW p, NEW n
    PROVE  \A q \in Places(d, p, n) :
              /\ q \in (1 .. 3) \X DirSlots
              /\ Inode(d, p).blk[q[1]] # 0
              /\ q[2] \in DOMAIN EntriesOf(d, Inode(d, p).blk[q[1]])
              /\ EntriesOf(d, Inode(d, p).blk[q[1]])[q[2]].name = n
  BY Zenon DEF Places

LEMMA LookupTyped ==
    ASSUME NEW d, Typed(d), NEW p, NEW n \in Names,
           NEW place, place = FirstPlace(Places(d, p, n)),
           NEW b, b = Inode(d, p).blk[place[1]]
    PROVE  \/ Lookup(d, p, n) = 0
           \/ Lookup(d, p, n) \in Inodes /\ b \in DataBlocks /\ place[2] \in DirSlots
<1> SUFFICES ASSUME Lookup(d, p, n) # 0
             PROVE  Lookup(d, p, n) \in Inodes /\ b \in DataBlocks /\ place[2] \in DirSlots
  OBVIOUS
<1>1. Places(d, p, n) # {} /\ Lookup(d, p, n) = EntriesOf(d, b)[place[2]].ino
  BY Zenon DEF Lookup
<1>2. Places(d, p, n) \in SUBSET ((1 .. 3) \X DirSlots)
  BY PlacesMean
<1>3. place \in Places(d, p, n)
  BY <1>1, <1>2, FirstPlaceBelongs
<1>4. /\ place \in (1 .. 3) \X DirSlots /\ b # 0
      /\ place[2] \in DOMAIN EntriesOf(d, b)
      /\ EntriesOf(d, b)[place[2]].name = n
  BY <1>3, PlacesMean
<1>5. b \in DataBlocks
  BY <1>4, InodeTyped, NodeTypeIsNode
<1> QED
  BY <1>1, <1>4, <1>5 DEF Typed, DiskTypeOK

-----------------------------------------------------------------------------
(* The types of brfs_add_direntry and of the calls.                         *)

LEMMA FilledTyped ==
    ASSUME NEW t, TypedSession(t), NEW b \in DataBlocks, FreeSlots(t.d, b) # {},
           NEW n, NEW i \in Inodes
    PROVE  TypedSession(Filled(t, b, n, i))
<1> DEFINE k == Min(FreeSlots(t.d, b))
           old == t.d.content[b]
           data == [old EXCEPT !.entries = Put(@, k, [name |-> n, ino |-> i])]
<1>1. k \in DirSlots
  <2>1. FreeSlots(t.d, b) \in SUBSET Nat
    BY Layout DEF FreeSlots
  <2>2. k \in FreeSlots(t.d, b)
    BY <2>1, MinBelongs
  <2> QED
    BY <2>2 DEF FreeSlots
<1>2. /\ IsData(old) /\ old.of \in Inodes \cup {0}
      /\ \A j \in DOMAIN old.entries : old.entries[j].name \in Names => old.entries[j].ino \in Inodes
  BY DEF TypedSession, Typed, IsDisk, DiskTypeOK, EntriesOf
<1>3. Filled(t, b, n, i) = PutBlock(t, b, data)
  BY DEF Filled
<1> HIDE DEF k, old
<1>4. /\ DOMAIN data = {"of", "entries"} /\ data.of = old.of
      /\ data.entries = Put(old.entries, k, [name |-> n, ino |-> i])
  BY <1>2 DEF IsData
<1> HIDE DEF data
<1>5. IsTypedData(data)
  BY <1>1, <1>2, <1>4 DEF IsTypedData, IsData, Put
<1> QED
  BY <1>3, <1>5, PutBlockTyped

\* brfs_add_direntry that fails has written nothing.
AddedTyped(a, s) ==
    /\ TypedSession(a.s)
    /\ a.ok = TRUE \/ (a.ok = FALSE /\ a.s = s)

\* The calls, and the steps they share.
LEMMA AddEntryTyped ==
    ASSUME NEW s, TypedSession(s), NEW p \in Inodes, NEW n, NEW i \in Inodes
    PROVE  AddedTyped(AddEntry(s, p, n, i), s)
<1> DEFINE d == s.d
           node == Inode(d, p)
           m == Cut[n]
           usable == {h \in 1 .. 3 : node.blk[h] = 0 \/ FreeSlots(d, node.blk[h]) # {}}
           k == Lowest(usable)
           fresh == FreeBlock(s)
           data == [of |-> p, entries |-> <<>>]
           s1 == TakeBlock(s, fresh)
           s2 == PutBlock(s1, fresh, data)
           node3 == [node EXCEPT !.blk[k] = fresh]
           s3 == PutInode(s2, p, node3)
           added == AddEntry(s, p, n, i)
<1>1. added =
        CASE k = 0                    -> [ok |-> FALSE, s |-> s]
          [] k # 0 /\ node.blk[k] # 0 -> [ok |-> TRUE, s |-> Filled(s, node.blk[k], m, i)]
          [] k # 0 /\ node.blk[k] = 0 /\ fresh = 0 -> [ok |-> FALSE, s |-> s]
          [] OTHER                    -> [ok |-> TRUE, s |-> Filled(s3, fresh, m, i)]
  BY DEF AddEntry, Filled
<1>2. Typed(d) /\ node \in NodeType
  BY InodeTyped DEF TypedSession
<1>3. k \in usable \cup {0}
  <2>1. usable \in SUBSET Nat
    OBVIOUS
  <2> QED
    BY <2>1, LowestBelongs
<1> HIDE DEF k, d, m
<1>4. k # 0 => /\ k \in 1 .. 3
               /\ node.blk[k] # 0 => FreeSlots(d, node.blk[k]) # {}
  BY <1>3
<1>5. fresh = 0 \/ (fresh \in DataBlocks \cap BitNumbers /\ s.m.freeB > 0)
  BY FreeTyped
<1> HIDE DEF node, added, fresh
<1>6. CASE added = [ok |-> FALSE, s |-> s]
  <2>1. added.ok = FALSE /\ added.s = s
    BY <1>6
  <2> QED
    BY <2>1 DEF AddedTyped, added
<1>7. CASE k # 0 /\ node.blk[k] # 0 /\ added = [ok |-> TRUE, s |-> Filled(s, node.blk[k], m, i)]
  <2>1. node.blk[k] \in DataBlocks /\ FreeSlots(s.d, node.blk[k]) # {}
    BY <1>2, <1>4, <1>7, NodeTypeIsNode DEF d
  <2> DEFINE t == Filled(s, node.blk[k], m, i)
  <2>2. TypedSession(t)
    BY <2>1, FilledTyped
  <2> HIDE DEF t
  <2>3. added.ok = TRUE /\ added.s = t
    BY <1>7 DEF t
  <2> QED
    BY <2>2, <2>3 DEF AddedTyped, added
<1>8. CASE k # 0 /\ fresh # 0 /\ added = [ok |-> TRUE, s |-> Filled(s3, fresh, m, i)]
  <2>1. TypedSession(s1)
    BY <1>5, <1>8, TakeTyped
  <2> HIDE DEF s1
  <2>2. IsTypedData(data) /\ data.entries = <<>>
    BY DEF IsTypedData, IsData
  <2> HIDE DEF data
  <2>3. TypedSession(s2) /\ s2.d.content[fresh] = data
    BY <1>5, <1>8, <2>1, <2>2, PutBlockTyped
  <2> HIDE DEF s2
  <2>4. node3 \in NodeType
    BY <1>2, <1>4, <1>5, <1>8, NodeTypeIsNode
  <2> HIDE DEF node3
  <2>5. TypedSession(s3) /\ s3.d.content = s2.d.content
    BY <2>3, <2>4, PutInodeTyped
  <2> HIDE DEF s3
  <2>6. FreeSlots(s3.d, fresh) # {}
    <3>1. EntriesOf(s3.d, fresh) = <<>> /\ DOMAIN <<>> = {}
      BY <2>2, <2>3, <2>5 DEF EntriesOf
    <3> QED
      BY <3>1, Layout DEF FreeSlots
  <2> DEFINE t == Filled(s3, fresh, m, i)
  <2>7. TypedSession(t)
    BY <1>5, <1>8, <2>5, <2>6, FilledTyped
  <2> HIDE DEF t
  <2>8. added.ok = TRUE /\ added.s = t
    BY <1>8 DEF t
  <2> QED
    BY <2>7, <2>8 DEF AddedTyped, added
<1> HIDE DEF s3
<1>9. \/ added = [ok |-> FALSE, s |-> s]
      \/ k # 0 /\ node.blk[k] # 0 /\ added = [ok |-> TRUE, s |-> Filled(s, node.blk[k], m, i)]
      \/ k # 0 /\ fresh # 0 /\ added = [ok |-> TRUE, s |-> Filled(s3, fresh, m, i)]
  BY <1>1
<1> QED
  BY <1>6, <1>7, <1>8, <1>9 DEF s3

LEMMA ReleaseTyped ==
    ASSUME NEW s, TypedSession(s), NEW i \in Inodes
    PROVE  TypedSession(Release(s, i))
<1> DEFINE node == Inode(s.d, i)
           without(t, k) == IF node.blk[k] = 0 THEN t ELSE DropBlock(t, node.blk[k])
<1>1. node \in NodeType /\ node.links \in Nat
  BY InodeTyped, NodeTypeIsNode DEF TypedSession
<1>2. CASE node.links - 1 > 0
  <2> DEFINE n == node.links - 1
  <2>1. Release(s, i) = PutInode(s, i, [node EXCEPT !.links = n])
    BY <1>2 DEF Release
  <2>2. n \in Nat
    BY <1>1, <1>2
  <2> HIDE DEF n
  <2>3. [node EXCEPT !.links = n] \in NodeType
    BY <1>1, <2>2, NodeTypeIsNode
  <2> QED
    BY <2>1, <2>3, PutInodeTyped
<1>3. CASE ~(node.links - 1 > 0)
  <2>1. Release(s, i) = DropInode(without(without(without(s, 1), 2), 3), i)
    BY <1>3 DEF Release
  <2>2. \A t : TypedSession(t) => \A k \in 1 .. 3 : TypedSession(without(t, k))
    BY DropTyped
  <2> HIDE DEF without
  <2>3. TypedSession(without(without(without(s, 1), 2), 3))
    BY <2>2
  <2> QED
    BY <2>1, <2>3, DropTyped
<1> QED
  BY <1>2, <1>3

LEMMA UnlinkTyped ==
    ASSUME NEW s, TypedSession(s), NEW p, NEW n \in Names
    PROVE  TypedSession(Unlink(s, p, n))
<1> DEFINE d == s.d
           i == Lookup(d, p, n)
           place == FirstPlace(Places(d, p, n))
           b == Inode(d, p).blk[place[1]]
           k == place[2]
           old == d.content[b]
           data == [old EXCEPT !.entries = Restrict(@, DOMAIN @ \ {k})]
           t == PutBlock(s, b, data)
<1>0. Unlink(s, p, n) = IF i = 0 \/ Inode(d, i).kind = "dir" THEN s ELSE Release(t, i)
  BY Zenon DEF Unlink
<1>1. CASE i = 0 \/ Inode(d, i).kind = "dir"
  <2> HIDE DEF i, d, t
  <2> QED
    BY <1>0, <1>1
<1>2. CASE i # 0 /\ Inode(d, i).kind # "dir"
  <2>1. Unlink(s, p, n) = Release(t, i)
    <3> HIDE DEF i, d, t
    <3> QED
      BY <1>0, <1>2
  <2>2. Typed(d)
    BY DEF TypedSession
  <2> HIDE DEF d
  <2>3. i \in Inodes /\ b \in DataBlocks
    BY <1>2, <2>2, LookupTyped, Zenon
  <2> HIDE DEF i, k, b, place
  <2>4. /\ IsData(old) /\ old.of \in Inodes \cup {0}
        /\ \A j \in DOMAIN old.entries : old.entries[j].name \in Names => old.entries[j].ino \in Inodes
    BY <2>2, <2>3 DEF Typed, IsDisk, DiskTypeOK, EntriesOf
  <2> HIDE DEF old, d
  <2>5. /\ DOMAIN data = {"of", "entries"} /\ data.of = old.of
        /\ data.entries = Restrict(old.entries, DOMAIN old.entries \ {k})
    BY <2>4 DEF IsData
  <2> HIDE DEF data
  <2>6. IsTypedData(data)
    BY <2>4, <2>5 DEF IsTypedData, IsData, Restrict
  <2>7. TypedSession(t)
    BY <2>3, <2>6, PutBlockTyped
  <2> HIDE DEF t
  <2> QED
    BY <2>1, <2>3, <2>7, ReleaseTyped
<1> QED
  BY <1>1, <1>2

LEMMA LinkTyped ==
    ASSUME NEW s, TypedSession(s), NEW p \in Inodes, NEW n \in Names, NEW i \in Inodes
    PROVE  TypedSession(Link(s, p, n, i))
<1> DEFINE d == s.d
           node == Inode(d, i)
           more == node.links + 1
           up == PutInode(s, i, [node EXCEPT !.links = more])
           added == AddEntry(up, p, n, i)
           down == PutInode(added.s, i, [Inode(added.s.d, i) EXCEPT !.links = @ - 1])
           there == Lookup(d, p, n)
           all == Link(s, p, n, i)
<1>1. all = CASE there > 0 \/ node.kind = "dir" -> s
              [] there = 0 /\ node.kind # "dir" /\ added.ok -> added.s
              [] OTHER -> down
  BY DEF Link
<1>2. Typed(d) /\ node \in NodeType /\ node.links \in Nat
  BY InodeTyped, NodeTypeIsNode DEF TypedSession
<1>3. there \in Nat
  <2>1. there \in Inodes \cup {0}
    BY <1>2, LookupTyped
  <2> QED
    BY <2>1, Layout
<1>4. [node EXCEPT !.links = more] \in NodeType /\ [node EXCEPT !.links = more].links = more
      /\ more - 1 = node.links
  <2>1. more \in Nat /\ more - 1 = node.links
    BY <1>2
  <2> HIDE DEF node, more
  <2> QED
    BY <1>2, <2>1, NodeTypeIsNode DEF NodeType
<1> DEFINE raised == [node EXCEPT !.links = more]
<1> HIDE DEF raised, more
<1>5. TypedSession(up) /\ Inode(up.d, i) = raised
  BY <1>4, PutInodeTyped DEF raised
<1> HIDE DEF up
<1>6. AddedTyped(added, up)
  BY <1>5, AddEntryTyped
<1> HIDE DEF added, node, d, there, all
<1>7. CASE added.ok = TRUE /\ TypedSession(added.s)
  BY <1>1, <1>3, <1>7 DEF all
<1>8. CASE added.ok = FALSE /\ added.s = up
  <2>1. all = s \/ all = down
    BY <1>1, <1>3, <1>8
  <2>2. down = PutInode(up, i, [raised EXCEPT !.links = more - 1])
    BY <1>4, <1>5, <1>8 DEF raised
  <2>3. [raised EXCEPT !.links = more - 1] \in NodeType
    BY <1>2, <1>4, NodeTypeIsNode DEF raised
  <2> HIDE DEF down
  <2>4. TypedSession(down)
    BY <1>5, <2>2, <2>3, PutInodeTyped
  <2> QED
    BY <2>1, <2>4 DEF all
<1> QED
  BY <1>6, <1>7, <1>8 DEF AddedTyped

LEMMA FirstContentsTyped ==
    ASSUME NEW kind \in {"dir", "lnk"}, NEW i \in Inodes, NEW p, NEW b \in DataBlocks
    PROVE  IsTypedData(FirstContents(kind, i, p)) /\ FirstNode(kind, b) \in NodeType
<1>1. /\ IsData(FirstContents(kind, i, p)) /\ FirstContents(kind, i, p).of = i
      /\ \A k \in DOMAIN FirstContents(kind, i, p).entries :
            FirstContents(kind, i, p).entries[k].name \notin Names
  BY FirstParts
<1>2. kind \in Kinds /\ (IF kind = "dir" THEN 2 ELSE 1) \in Nat
  BY DEF Kinds
<1> QED
  BY <1>1, <1>2, NodeTyped DEF IsTypedData, FirstNode

\* MakeWithBlock, and whether it was made.
LEMMA MakeTyped ==
    ASSUME NEW s, TypedSession(s), NEW p \in Inodes, NEW n \in Names,
           NEW kind \in {"dir", "lnk"}
    PROVE  TypedSession(MakeWithBlock(s, p, n, kind).s)
<1> DEFINE i == FreeInode(s)
           s1 == TakeInode(s, i)
           b == FreeBlock(s1)
           s2 == TakeBlock(s1, b)
           s3 == PutBlock(s2, b, FirstContents(kind, i, p))
           t == MadeNode(s, p, kind)
           added == AddEntry(t, p, n, i)
           made == MakeWithBlock(s, p, n, kind)
           there == Lookup(s.d, p, n)
<1>1. made.s =
        CASE there > 0 \/ i = 0 -> s
          [] there = 0 /\ i > 0 /\ b = 0 -> DropInode(s1, i)
          [] there = 0 /\ i > 0 /\ b > 0 /\ added.ok -> added.s
          [] OTHER -> DropInode(DropBlock(added.s, b), i)
  <2>1. made =
        CASE there > 0 \/ i = 0 -> [ok |-> FALSE, s |-> s]
          [] there = 0 /\ i > 0 /\ b = 0 -> [ok |-> FALSE, s |-> DropInode(s1, i)]
          [] there = 0 /\ i > 0 /\ b > 0 /\ added.ok -> [ok |-> TRUE, s |-> added.s]
          [] OTHER -> [ok |-> FALSE, s |-> DropInode(DropBlock(added.s, b), i)]
    BY DEF MakeWithBlock, MadeNode
  <2> HIDE DEF made, added, b, s1, i, there
  <2> QED
    BY <2>1
<1>2. there \in Nat
  <2>1. there \in Inodes \cup {0}
    BY LookupTyped DEF TypedSession
  <2> QED
    BY <2>1, Layout
<1>3. i = 0 \/ (i \in Inodes \cap BitNumbers /\ s.m.freeI > 0 /\ i > 0)
  BY FreeTyped, Layout
<1>4. t = PutInode(s3, i, FirstNode(kind, b))
  BY DEF MadeNode
<1> HIDE DEF i, there, made
<1>5. i # 0 => TypedSession(s1)
  BY <1>3, TakeTyped
<1> HIDE DEF s1
<1>6. i # 0 => b = 0 \/ (b \in DataBlocks \cap BitNumbers /\ s1.m.freeB > 0 /\ b > 0)
  BY <1>5, FreeTyped, Layout
<1> HIDE DEF b
<1>7. CASE there > 0 \/ i = 0
  <2>1. made.s = s
    <3> HIDE DEF added
    <3> QED
      BY <1>1, <1>7
  <2> QED
    BY <2>1 DEF made
<1>8. CASE there = 0 /\ i # 0 /\ b = 0
  <2>1. made.s = DropInode(s1, i)
    <3> HIDE DEF added
    <3> QED
      BY <1>1, <1>3, <1>8
  <2> QED
    BY <1>5, <1>8, <2>1, DropTyped DEF made
<1>9. CASE there = 0 /\ i # 0 /\ b # 0
  <2>1. TypedSession(s2)
    BY <1>5, <1>6, <1>9, TakeTyped
  <2> HIDE DEF s2, t
  <2>2. IsTypedData(FirstContents(kind, i, p)) /\ FirstNode(kind, b) \in NodeType
    BY <1>3, <1>6, <1>9, FirstContentsTyped
  <2>3. TypedSession(s3)
    BY <1>6, <1>9, <2>1, <2>2, PutBlockTyped
  <2> HIDE DEF s3
  <2>4. TypedSession(t)
    BY <1>3, <1>4, <1>9, <2>2, <2>3, PutInodeTyped
  <2>5. AddedTyped(added, t)
    BY <1>3, <1>9, <2>4, AddEntryTyped
  <2> HIDE DEF added
  <2>6. made.s = added.s \/ made.s = DropInode(DropBlock(added.s, b), i)
    BY <1>1, <1>2, <1>3, <1>6, <1>9
  <2>7. TypedSession(DropBlock(added.s, b))
    BY <2>5, DropTyped DEF AddedTyped
  <2> DEFINE u == DropBlock(added.s, b)
  <2> HIDE DEF u
  <2>8. TypedSession(DropInode(u, i))
    BY <2>7, DropTyped DEF u
  <2> QED
    BY <2>5, <2>6, <2>8 DEF AddedTyped, made, u
<1> QED
  BY <1>2, <1>7, <1>8, <1>9

LEMMA MkdirTyped ==
    ASSUME NEW s, TypedSession(s), NEW p \in Inodes, NEW n \in Names
    PROVE  TypedSession(Mkdir(s, p, n)) /\ TypedSession(Symlink(s, p, n))
<1> DEFINE made == MakeWithBlock(s, p, n, "dir")
           node == Inode(made.s.d, p)
           more == node.links + 1
<1>1. Mkdir(s, p, n) =
        IF made.ok THEN PutInode(made.s, p, [node EXCEPT !.links = more]) ELSE made.s
  BY DEF Mkdir
<1>2. "dir" \in {"dir", "lnk"} /\ "lnk" \in {"dir", "lnk"}
  OBVIOUS
<1>3. TypedSession(made.s) /\ TypedSession(Symlink(s, p, n))
  BY <1>2, MakeTyped DEF Symlink
<1> HIDE DEF made
<1>4. node \in NodeType /\ more \in Nat
  <2>1. node \in NodeType
    BY <1>3, InodeTyped DEF TypedSession
  <2> HIDE DEF node
  <2> QED
    BY <2>1, NodeTypeIsNode
<1> HIDE DEF node, more
<1>5. [node EXCEPT !.links = more] \in NodeType
  BY <1>4, NodeTypeIsNode
<1>6. TypedSession(PutInode(made.s, p, [node EXCEPT !.links = more]))
  BY <1>3, <1>5, PutInodeTyped
<1> QED
  BY <1>1, <1>3, <1>6

\* brfs_write_file between two turns.
TypedWriting(a) ==
    /\ DOMAIN a = {"s", "node", "full"}
    /\ TypedSession(a.s) /\ a.node \in NodeType

LEMMA WriteTurnTyped ==
    ASSUME NEW a, TypedWriting(a), NEW i \in Inodes, NEW k \in 1 .. 3
    PROVE  TypedWriting(WriteTurn(a, i, k))
<1> DEFINE s == a.s
           node == a.node
           b == FreeBlock(s)
           s1 == TakeBlock(s, b)
           data == FileData(i)
           t == PutBlock(s, node.blk[k], data)
           u == PutBlock(s1, b, data)
           r == WriteTurn(a, i, k)
<1>1. r = CASE a.full -> a
            [] ~a.full /\ node.blk[k] # 0 -> [a EXCEPT !.s = t]
            [] ~a.full /\ node.blk[k] = 0 /\ b > 0 -> [a EXCEPT !.s = u, !.node.blk[k] = b]
            [] OTHER -> [a EXCEPT !.full = TRUE]
  BY DEF WriteTurn
<1>2. DOMAIN a = {"s", "node", "full"} /\ TypedSession(s) /\ node \in NodeType
  BY DEF TypedWriting
<1>3. b = 0 \/ (b \in DataBlocks \cap BitNumbers /\ s.m.freeB > 0)
  BY <1>2, FreeTyped
<1>4. 0 \notin DataBlocks
  BY Layout
<1>5. IsTypedData(data)
  BY DEF IsTypedData, IsData, FileData
<1> HIDE DEF r, s, node, b, data
<1>6. node.blk[k] # 0 => TypedSession(t)
  BY <1>2, <1>5, NodeTypeIsNode, PutBlockTyped
<1>7. b # 0 => TypedSession(s1)
  BY <1>2, <1>3, TakeTyped
<1> HIDE DEF s1
<1>8. b # 0 => TypedSession(u)
  BY <1>3, <1>5, <1>7, PutBlockTyped
<1> HIDE DEF t, u
<1>9. CASE r = a
  BY <1>9 DEF r
<1>10. CASE r = [a EXCEPT !.full = TRUE]
  <2>1. DOMAIN r = {"s", "node", "full"} /\ r.s = s /\ r.node = node
    BY <1>2, <1>10 DEF s, node
  <2> QED
    BY <1>2, <2>1 DEF TypedWriting, r
<1>11. CASE node.blk[k] # 0 /\ r = [a EXCEPT !.s = t]
  <2>1. DOMAIN r = {"s", "node", "full"} /\ r.s = t /\ r.node = node
    BY <1>2, <1>11 DEF s, node
  <2> QED
    BY <1>2, <1>6, <1>11, <2>1 DEF TypedWriting, r
<1>12. CASE b # 0 /\ r = [a EXCEPT !.s = u, !.node.blk[k] = b]
  <2>1. DOMAIN r = {"s", "node", "full"} /\ r.s = u /\ r.node = [node EXCEPT !.blk[k] = b]
    BY <1>2, <1>12 DEF s, node
  <2>2. r.node \in NodeType
    BY <1>2, <1>3, <1>12, <2>1, NodeTypeIsNode
  <2> QED
    BY <1>8, <1>12, <2>1, <2>2 DEF TypedWriting, r
<1>13. ~(0 > 0)
  OBVIOUS
<1>14. \/ r = a \/ r = [a EXCEPT !.full = TRUE]
       \/ node.blk[k] # 0 /\ r = [a EXCEPT !.s = t]
       \/ b # 0 /\ r = [a EXCEPT !.s = u, !.node.blk[k] = b]
  BY <1>1, <1>13
<1> QED
  BY <1>9, <1>10, <1>11, <1>12, <1>14

LEMMA WriteFileTyped ==
    ASSUME NEW s, TypedSession(s), NEW i \in Inodes, NEW lo, NEW hi
    PROVE  TypedSession(WriteFile(s, i, lo, hi))
<1> DEFINE turn(a, k) == IF k \in lo .. hi THEN WriteTurn(a, i, k) ELSE a
           start == [s |-> s, node |-> Inode(s.d, i), full |-> FALSE]
           done == turn(turn(turn(start, 1), 2), 3)
<1>1. WriteFile(s, i, lo, hi) = PutInode(done.s, i, done.node)
  BY DEF WriteFile
<1>2. TypedWriting(start)
  BY InodeTyped DEF TypedWriting, TypedSession
<1> HIDE DEF start
<1>3. ASSUME NEW a, TypedWriting(a), NEW k \in 1 .. 3 PROVE TypedWriting(turn(a, k))
  BY <1>3, WriteTurnTyped
<1> HIDE DEF turn
<1>4. TypedWriting(done)
  BY <1>2, <1>3
<1> HIDE DEF done
<1> QED
  BY <1>1, <1>4, PutInodeTyped DEF TypedWriting

-----------------------------------------------------------------------------
(* The types of the journal, of mounting and of unmounting.                 *)

\* The upper bits of a word: the function in WordAt.
Bit(bits, k) == IF k \in bits THEN 1 ELSE 0
UpperBits(bits, at, high, max) ==
    high = [k \in 0 .. max |-> IF k = 0 THEN 0
                               ELSE 2 * high[k - 1] + Bit(bits, at + 31 - k)]

\* The upper bits of a word are defined by recursion on how many there are.
LEMMA UpperBitsExist ==
    ASSUME NEW bits, NEW at, NEW max \in Nat
    PROVE  \E high : UpperBits(bits, at, high, max)
<1> DEFINE K == {n \in Nat : \E high : UpperBits(bits, at, high, n)}
<1>1. 0 \in K
  <2> DEFINE none == [k \in 0 .. 0 |-> 0]
  <2>1. \A k \in 0 .. 0 : k = 0
    OBVIOUS
  <2>2. none = [k \in 0 .. 0 |-> IF k = 0 THEN 0 ELSE 2 * none[k - 1] + Bit(bits, at + 31 - k)]
    BY <2>1
  <2>3. UpperBits(bits, at, none, 0)
    BY <2>2 DEF UpperBits
  <2> QED
    BY <2>3
<1>2. ASSUME NEW n \in 1 .. max, n - 1 \in K PROVE n \in K
  <2>1. PICK high : UpperBits(bits, at, high, n - 1)
    BY <1>2
  <2> DEFINE next == 2 * high[n - 1] + Bit(bits, at + 31 - n)
             longer == [k \in 0 .. n |-> IF k = n THEN next ELSE high[k]]
  <2>2. \A k \in 0 .. (n - 1) :
            high[k] = IF k = 0 THEN 0 ELSE 2 * high[k - 1] + Bit(bits, at + 31 - k)
    BY <2>1 DEF UpperBits
  <2>3. ASSUME NEW k \in 0 .. n
        PROVE  longer[k] = IF k = 0 THEN 0 ELSE 2 * longer[k - 1] + Bit(bits, at + 31 - k)
    <3>1. CASE k = n
      <4>1. k - 1 \in 0 .. n /\ k - 1 # n /\ k # 0
        BY <3>1
      <4>2. longer[k - 1] = high[k - 1] /\ longer[k] = next
        BY <3>1, <4>1
      <4> QED
        BY <3>1, <4>1, <4>2
    <3>2. CASE k # n
      <4>1. k \in 0 .. (n - 1)
        BY <3>2
      <4>2. longer[k] = high[k]
        BY <3>2
      <4>3. k # 0 => longer[k - 1] = high[k - 1]
        <5>1. k # 0 => k - 1 \in 0 .. n /\ k - 1 # n
          BY <4>1
        <5> QED
          BY <5>1
      <4> HIDE DEF longer
      <4> QED
        BY <2>2, <4>1, <4>2, <4>3
    <3> QED
      BY <3>1, <3>2
  <2>4. longer = [k \in 0 .. n |-> longer[k]]
    OBVIOUS
  <2> HIDE DEF longer
  <2>5. UpperBits(bits, at, longer, n)
    BY <2>3, <2>4 DEF UpperBits
  <2> QED
    BY <2>5
<1> HIDE DEF K
<1>3. max \in K
  BY <1>1, <1>2, SetInduction
<1> QED
  BY <1>3 DEF K

LEMMA WordTyped ==
    ASSUME NEW bits, NEW at
    PROVE  WordAt(bits, at) \in Nat
<1> DEFINE high == CHOOSE v : UpperBits(bits, at, v, 31)
           top == 31
<1>1. WordAt(bits, at) = high[31]
  BY DEF WordAt, UpperBits, Bit
<1>2. UpperBits(bits, at, high, 31)
  BY UpperBitsExist
<1> HIDE DEF high
<1> DEFINE S == {k \in 0 .. top : high[k] \in Nat}
<1>3. top \in Nat
  OBVIOUS
<1>4. UpperBits(bits, at, high, top)
  BY <1>2
<1>5. high[31] = high[top] /\ at + 31 = at + top
  OBVIOUS
<1> HIDE DEF top
<1>6. high[0] = 0 /\ \A k \in 1 .. top : high[k] = 2 * high[k - 1] + Bit(bits, at + 31 - k)
  BY <1>3, <1>4 DEF UpperBits
<1>7. \A k : Bit(bits, k) \in Nat
  BY DEF Bit
<1>8. 0 \in S
  BY <1>3, <1>6
<1>9. ASSUME NEW k \in 1 .. top, k - 1 \in S PROVE k \in S
  BY <1>3, <1>6, <1>7, <1>9
<1> HIDE DEF S
<1>10. 0 .. top \subseteq S
  BY <1>3, <1>8, <1>9, SetInduction
<1>11. high[top] \in Nat
  BY <1>3, <1>10 DEF S
<1> QED
  BY <1>1, <1>5, <1>11

LEMMA BitsFit ==
    ASSUME NEW n, NEW at \in Nat, at <= 8160
    PROVE  Bits(n, at) \subseteq BitNumbers
<1>1. ASSUME NEW x \in Bits(n, at) PROVE x \in BitNumbers
  <2>1. PICK k \in 0 .. 30 : x = at + k
    BY DEF Bits
  <2>2. at + k \in Nat /\ at + k <= 8191
    BY <2>1
  <2> QED
    BY <2>1, <2>2, SMT DEF BitNumbers
<1> QED
  BY <1>1

LEMMA WordFits ==
    ASSUME NEW bits, bits \subseteq BitNumbers, NEW n, NEW at \in Nat, at <= 8160
    PROVE  WithWord(bits, at, n) \subseteq BitNumbers
  BY BitsFit DEF WithWord

\* A journal record written over a bitmap marks numbers the bitmap has; over the
\* inode table, an inode without a kind; over a directory, an entry without a name.
LEMMA RecordTyped ==
    ASSUME NEW d, Typed(d), NEW j \in Nat, NEW r \in 0 .. 1, NEW seq, NEW type, NEW blk
    PROVE  Typed(RecordWritten(d, j, r, seq, type, blk))
<1> DEFINE at == 256 * r
           bits == WithWord(WithWord(WithWord(WithWord(d.bmap, at, seq),
                       at + 32, type), at + 64, blk), at + 96, 0)
           i == (j - InodeTable) * InodesPerBlock + r + 1
           node == [Inode(d, i) EXCEPT !.kind = "none", !.links = 0]
           data == [of |-> 0, entries |-> Put(d.content[j].entries, r, [name |-> NoName, ino |-> seq])]
           e1 == [d EXCEPT !.bmap = bits]
           e2 == [d EXCEPT !.inode = Put(@, i, node)]
           e3 == [d EXCEPT !.content[j] = data]
           e == RecordWritten(d, j, r, seq, type, blk)
<1>0. IsDisk(d) /\ DiskTypeOK(d)
  BY DEF Typed
<1>1. e = CASE j = BlockBitmap -> e1
            [] j \in InodeTable .. FirstData - 1 -> e2
            [] j \in DataBlocks -> e3
            [] OTHER -> d
  <2>1. j \in DataBlocks => [d EXCEPT !.content[j] = [of |-> 0, entries |-> Put(@.entries, r, [name |-> NoName, ino |-> seq])]] = e3
    BY <1>0 DEF IsDisk
  <2> QED
    BY <2>1, Zenon DEF RecordWritten
<1>2. Typed(e1)
  <2>1. at \in Nat /\ at + 32 \in Nat /\ at + 64 \in Nat /\ at + 96 \in Nat
        /\ at <= 8160 /\ at + 32 <= 8160 /\ at + 64 <= 8160 /\ at + 96 <= 8160
    OBVIOUS
  <2> HIDE DEF at
  <2>2. d.bmap \subseteq BitNumbers
    BY <1>0 DEF DiskTypeOK
  <2>3. WithWord(d.bmap, at, seq) \subseteq BitNumbers
    BY <2>1, <2>2, WordFits
  <2>4. WithWord(WithWord(d.bmap, at, seq), at + 32, type) \subseteq BitNumbers
    BY <2>1, <2>3, WordFits
  <2>5. WithWord(WithWord(WithWord(d.bmap, at, seq), at + 32, type), at + 64, blk) \subseteq BitNumbers
    BY <2>1, <2>4, WordFits
  <2>6. bits \subseteq BitNumbers
    BY <2>1, <2>5, WordFits
  <2> HIDE DEF bits
  <2>7. /\ DOMAIN e1 = DOMAIN d /\ e1.bmap = bits /\ e1.imap = d.imap /\ e1.inode = d.inode
        /\ e1.content = d.content /\ e1.freeB = d.freeB /\ e1.freeI = d.freeI
    BY <1>0 DEF IsDisk
  <2> HIDE DEF e1
  <2> QED
    BY <1>0, <2>6, <2>7, MapsTyped DEF DiskTypeOK
<1>3. ASSUME j \in InodeTable .. FirstData - 1 PROVE Typed(e2)
  <2>1. i \in Inodes
    BY <1>3, LayoutFits DEF Inodes, InodeTable, InodesPerBlock
  <2> HIDE DEF i
  <2>2. Inode(d, i) \in NodeType
    BY InodeTyped
  <2>3. node \in NodeType
    BY <2>2 DEF NodeType, Kinds
  <2> HIDE DEF node
  <2>4. IsNode(node)
    BY <2>3, NodeTypeIsNode
  <2>5. IsDisk(e2) /\ e2.imap = d.imap /\ e2.bmap = d.bmap /\ e2.content = d.content
        /\ \A b : EntriesOf(e2, b) = EntriesOf(d, b)
    BY <1>0, <2>1, <2>4, PutNode
  <2>6. e2.inode = Put(d.inode, i, node) /\ e2.freeB = d.freeB /\ e2.freeI = d.freeI
    BY <1>0 DEF IsDisk
  <2>7. DOMAIN e2.inode \subseteq Inodes /\ \A k \in DOMAIN e2.inode : e2.inode[k] \in NodeType
    BY <1>0, <2>1, <2>3, <2>6 DEF Put, DiskTypeOK
  <2> HIDE DEF e2
  <2> QED
    BY <1>0, <2>5, <2>6, <2>7 DEF Typed, DiskTypeOK
<1>4. ASSUME j \in DataBlocks PROVE Typed(e3)
  <2>1. IsData(d.content[j])
        /\ \A k \in DOMAIN d.content[j].entries :
              d.content[j].entries[k].name \in Names => d.content[j].entries[k].ino \in Inodes
    BY <1>0, <1>4 DEF IsDisk, DiskTypeOK, EntriesOf
  <2>2. NoName \notin Names /\ r \in DirSlots
    BY NamesAssumption, Layout
  <2>3. IsTypedData(data)
    BY <2>1, <2>2 DEF IsTypedData, IsData, Put
  <2> HIDE DEF data
  <2>4. Wrote(d, e3, j, data)
    BY DEF Wrote
  <2> HIDE DEF e3
  <2> QED
    BY <1>4, <2>3, <2>4, WroteTyped
<1> HIDE DEF e, e1, e2, e3
<1>5. \/ e = e1 \/ (j \in InodeTable .. FirstData - 1 /\ e = e2)
      \/ (j \in DataBlocks /\ e = e3) \/ e = d
  BY <1>1
<1> QED
  BY <1>2, <1>3, <1>4, <1>5 DEF e

LEMMA JournalTyped ==
    ASSUME NEW s, TypedSession(s), NEW r \in 0 .. 1, NEW type, NEW blk
    PROVE  /\ TypedSession(JournalRecord(s, r, type, blk))
           /\ JournalRecord(s, r, type, blk).m = s.m
<1> DEFINE j == JournalStart + 1 + s.m.head
           e == RecordWritten(s.d, j, r, s.m.seq, type, blk)
<1>1. j \in Nat
  BY DEF TypedSession, MemoryType, JournalStart
<1> HIDE DEF j
<1>2. Typed(e)
  BY <1>1, RecordTyped DEF TypedSession
<1>3. JournalRecord(s, r, type, blk) = Logged(s, e, TRUE)
  BY DEF JournalRecord, j
<1> HIDE DEF e
<1>4. \A journal \in BOOLEAN : /\ TypedSession(Logged(s, e, journal))
                               /\ Logged(s, e, journal).m = s.m
  BY <1>2, LoggedTyped
<1> QED
  BY <1>3, <1>4

LEMMA NotedTyped ==
    ASSUME NEW s, TypedSession(s), NEW imap, imap \subseteq BitNumbers, NEW m \in MemoryType
    PROVE  TypedSession(Noted(s, imap, m))
<1> DEFINE e == [s.d EXCEPT !.imap = imap]
           t == Logged(s, e, TRUE)
           u == [t EXCEPT !.m = m]
<1>1. IsDisk(s.d) /\ DiskTypeOK(s.d) /\ Typed(s.d)
  BY DEF TypedSession, Typed
<1>2. /\ DOMAIN e = DOMAIN s.d /\ e.imap = imap /\ e.bmap = s.d.bmap /\ e.inode = s.d.inode
      /\ e.content = s.d.content /\ e.freeB = s.d.freeB /\ e.freeI = s.d.freeI
  BY <1>1 DEF IsDisk
<1>3. u = Noted(s, imap, m)
  BY DEF Noted
<1> HIDE DEF e
<1>4. Typed(e)
  BY <1>1, <1>2, MapsTyped DEF DiskTypeOK
<1>5. \A journal \in BOOLEAN : TypedSession(Logged(s, e, journal))
  BY <1>4, LoggedTyped
<1>6. TypedSession(t)
  BY <1>5
<1> HIDE DEF t
<1>7. DOMAIN t = {"d", "m", "log"}
  BY <1>6 DEF TypedSession
<1>8. SameDisk(t, u) /\ u.m = m
  BY <1>7 DEF SameDisk
<1> HIDE DEF u
<1>9. TypedSession(u)
  BY <1>6, <1>8, MemoryTyped
<1> QED
  BY <1>3, <1>9

LEMMA CommitTyped ==
    ASSUME NEW s, TypedSession(s)
    PROVE  TypedSession(Commit(s))
<1> DEFINE r == JournalRecord(s, 1, CommitRecord, 0)
           head == (r.m.head + 1) % JournalRing
           seq == r.m.seq + 1
           m == [r.m EXCEPT !.head = head, !.seq = seq]
           words == SuperblockWords(r.d.imap, m)
<1>1. TypedSession(r)
  BY JournalTyped
<1>2. Commit(s) = Noted(r, words, m)
  BY DEF Commit, Noted
<1> HIDE DEF r
<1>3. r.m \in MemoryType /\ r.d.imap \subseteq BitNumbers
  BY <1>1 DEF TypedSession, Typed, DiskTypeOK
<1>4. head \in Nat /\ seq \in Nat
  BY <1>3 DEF MemoryType, JournalRing
<1> HIDE DEF head, seq
<1>5. m \in MemoryType
  BY <1>3, <1>4 DEF MemoryType
<1> HIDE DEF m
<1>6. words \subseteq BitNumbers
  <2>1. 32 <= 8160 /\ 64 <= 8160 /\ 96 <= 8160
    OBVIOUS
  <2>2. WithWord(r.d.imap, 32, m.seq) \subseteq BitNumbers
    BY <1>3, <2>1, WordFits
  <2>3. WithWord(WithWord(r.d.imap, 32, m.seq), 64, m.head) \subseteq BitNumbers
    BY <2>1, <2>2, WordFits
  <2>4. WithWord(WithWord(WithWord(r.d.imap, 32, m.seq), 64, m.head), 96, m.tail) \subseteq BitNumbers
    BY <2>1, <2>3, WordFits
  <2> QED
    BY <2>4 DEF SuperblockWords
<1> QED
  BY <1>1, <1>2, <1>5, <1>6, NotedTyped

LEMMA CreateTyped ==
    ASSUME NEW s, TypedSession(s), NEW p \in Inodes, NEW n \in Names
    PROVE  TypedSession(Create(s, p, n))
<1> DEFINE i == FreeInode(s)
           s1 == TakeInode(s, i)
           blk == InodeTable + i \div InodesPerBlock
           logged == JournalRecord(s1, 0, BlockRecord, blk)
           node == Node("reg", 1, 0)
           s3 == PutInode(logged, i, node)
           added == AddEntry(s3, p, n, i)
           there == Lookup(s.d, p, n)
           all == Create(s, p, n)
<1>1. all = CASE there > 0 \/ i = 0 -> s
              [] there = 0 /\ i > 0 /\ added.ok -> Commit(added.s)
              [] OTHER -> DropInode(added.s, i)
  BY DEF Create
<1>2. i = 0 \/ (i \in Inodes \cap BitNumbers /\ s.m.freeI > 0)
  BY FreeTyped
<1> HIDE DEF i, all, there
<1>3. CASE i = 0
  <2> HIDE DEF added
  <2>1. all = s
    BY <1>1, <1>3
  <2> QED
    BY <2>1 DEF all
<1>4. CASE i # 0
  <2>1. TypedSession(s1)
    BY <1>2, <1>4, TakeTyped
  <2> HIDE DEF s1, blk
  <2>2. TypedSession(logged)
    BY <2>1, JournalTyped
  <2> HIDE DEF logged
  <2>3. node \in NodeType
    BY NodeTyped DEF Kinds
  <2> HIDE DEF node
  <2>4. TypedSession(s3)
    BY <1>2, <1>4, <2>2, <2>3, PutInodeTyped
  <2> HIDE DEF s3
  <2>5. AddedTyped(added, s3)
    BY <1>2, <1>4, <2>4, AddEntryTyped
  <2> HIDE DEF added
  <2>6. TypedSession(Commit(added.s)) /\ TypedSession(DropInode(added.s, i))
    BY <2>5, CommitTyped, DropTyped DEF AddedTyped
  <2>7. all = s \/ all = Commit(added.s) \/ all = DropInode(added.s, i)
    BY <1>1
  <2> QED
    BY <2>6, <2>7 DEF all
<1> QED
  BY <1>3, <1>4

LEMMA RecoverTyped ==
    ASSUME NEW s, TypedSession(s)
    PROVE  TypedSession(Recover(s))
<1> DEFINE head == WordAt(s.d.imap, 64)
           tail == WordAt(s.d.imap, 96)
           magic == WordAt(s.d.imap, 0)
           seq == WordAt(s.d.imap, 32)
           hd == IF head = tail THEN head ELSE 0
           tl == IF head = tail THEN tail ELSE 0
           imap == Bits(JournalMagic, 0) \cup Bits(1, 32)
           e == [s.d EXCEPT !.imap = imap]
           t == Logged(s, e, TRUE)
           r == Recover(s)
<1>1. r = IF magic = JournalMagic
          THEN [s EXCEPT !.m.seq = seq, !.m.head = hd, !.m.tail = tl]
          ELSE [t EXCEPT !.m.seq = 1, !.m.head = 0, !.m.tail = 0]
  BY DEF Recover
<1>2. seq \in Nat /\ hd \in Nat /\ tl \in Nat
  BY WordTyped
<1>3. imap \subseteq BitNumbers
  <2>1. \A n : Bits(n, 0) \subseteq BitNumbers /\ Bits(n, 32) \subseteq BitNumbers
    BY BitsFit
  <2> QED
    BY <2>1
<1> HIDE DEF imap, seq, hd, tl, magic, r
<1>4. Typed(s.d) /\ IsDisk(s.d) /\ DiskTypeOK(s.d) /\ DOMAIN s = {"d", "m", "log"} /\ s.m \in MemoryType
  BY DEF TypedSession, Typed
<1>5. /\ DOMAIN e = DOMAIN s.d /\ e.imap = imap /\ e.bmap = s.d.bmap /\ e.inode = s.d.inode
      /\ e.content = s.d.content /\ e.freeB = s.d.freeB /\ e.freeI = s.d.freeI
  BY <1>4 DEF IsDisk
<1> HIDE DEF e
<1>6. Typed(e)
  BY <1>3, <1>4, <1>5, MapsTyped DEF DiskTypeOK
<1>7. \A journal \in BOOLEAN : TypedSession(Logged(s, e, journal)) /\ Logged(s, e, journal).m = s.m
  BY <1>6, LoggedTyped
<1>8. TypedSession(t) /\ t.m = s.m
  BY <1>7
<1> HIDE DEF t
<1>9. DOMAIN t = {"d", "m", "log"}
  BY <1>8 DEF TypedSession
<1>10. CASE magic = JournalMagic
  <2>1. r = [s EXCEPT !.m.seq = seq, !.m.head = hd, !.m.tail = tl]
    BY <1>1, <1>10
  <2>2. SameDisk(s, r) /\ r.m = [s.m EXCEPT !.seq = seq, !.head = hd, !.tail = tl]
    BY <1>4, <2>1 DEF SameDisk
  <2>3. r.m \in MemoryType
    BY <1>2, <1>4, <2>2 DEF MemoryType
  <2>4. TypedSession(r)
    BY <2>2, <2>3, MemoryTyped
  <2> QED
    BY <2>4 DEF r
<1>11. CASE magic # JournalMagic
  <2>1. r = [t EXCEPT !.m.seq = 1, !.m.head = 0, !.m.tail = 0]
    BY <1>1, <1>11
  <2> DEFINE one == 1
             zero == 0
  <2>2. SameDisk(t, r) /\ r.m = [s.m EXCEPT !.seq = one, !.head = zero, !.tail = zero]
    BY <1>8, <1>9, <2>1 DEF SameDisk
  <2>3. r.m \in MemoryType
    <3>1. one \in Nat /\ zero \in Nat
      OBVIOUS
    <3> HIDE DEF one, zero
    <3> QED
      BY <1>4, <2>2, <3>1 DEF MemoryType
  <2>4. TypedSession(r)
    BY <1>8, <2>2, <2>3, MemoryTyped
  <2> QED
    BY <2>4 DEF r
<1> QED
  BY <1>10, <1>11

LEMMA EmptyLogTyped == TypedLog(<<>>)
<1>1. 1 .. Len(<<>>) = {}
  BY NoLog
<1> QED
  BY <1>1, NoLog DEF TypedLog, SafeLog

LEMMA UnmountedTyped == Unmounted \in MemoryType
  BY DEF Unmounted, MemoryType

LEMMA SessionTyped ==
    ASSUME NEW d, Typed(d), NEW m \in MemoryType
    PROVE  TypedSession(Session(d, m))
  BY EmptyLogTyped DEF TypedSession, Session

LEMMA MountTyped ==
    ASSUME NEW d, Typed(d)
    PROVE  TypedSession(MountSession(d))
<1> DEFINE m == [Unmounted EXCEPT !.mounted = TRUE, !.freeB = d.freeB, !.freeI = d.freeI]
<1>1. m \in MemoryType
  BY UnmountedTyped DEF Typed, DiskTypeOK, MemoryType
<1>2. MountSession(d) = Recover(Session(d, m))
  BY DEF MountSession
<1> HIDE DEF m
<1> QED
  BY <1>1, <1>2, SessionTyped, RecoverTyped

LEMMA UnmountTyped ==
    ASSUME NEW s, TypedSession(s)
    PROVE  TypedSession(UnmountSession(s))
<1> DEFINE words == WithWord(s.d.imap, 96, s.m.head)
           e == [s.d EXCEPT !.imap = words]
           t == Logged(s, e, TRUE)
           c == Checkpoint(s)
           f == [c.d EXCEPT !.freeB = s.m.freeB, !.freeI = s.m.freeI]
           u == Logged(c, f, FALSE)
           r == UnmountSession(s)
<1>1. c = [t EXCEPT !.m.tail = s.m.head] /\ r = [u EXCEPT !.m = Unmounted]
  BY DEF Checkpoint, UnmountSession
<1>2. Typed(s.d) /\ IsDisk(s.d) /\ DiskTypeOK(s.d) /\ s.m \in MemoryType
  BY DEF TypedSession, Typed
<1>3. words \subseteq BitNumbers
  BY <1>2, WordFits DEF DiskTypeOK
<1> HIDE DEF words
<1>4. /\ DOMAIN e = DOMAIN s.d /\ e.imap = words /\ e.bmap = s.d.bmap /\ e.inode = s.d.inode
      /\ e.content = s.d.content /\ e.freeB = s.d.freeB /\ e.freeI = s.d.freeI
  BY <1>2 DEF IsDisk
<1> HIDE DEF e
<1>5. Typed(e)
  BY <1>2, <1>3, <1>4, MapsTyped DEF DiskTypeOK
<1>6. \A journal \in BOOLEAN : TypedSession(Logged(s, e, journal)) /\ Logged(s, e, journal).m = s.m
  BY <1>5, LoggedTyped
<1>7. TypedSession(t) /\ t.m = s.m
  BY <1>6
<1> HIDE DEF t, c, r
<1>8. SameDisk(t, c) /\ c.m = [s.m EXCEPT !.tail = s.m.head]
  BY <1>1, <1>7 DEF SameDisk, TypedSession
<1>9. s.m.freeB \in Nat /\ s.m.freeI \in Nat /\ [s.m EXCEPT !.tail = s.m.head] \in MemoryType
  BY <1>2 DEF MemoryType
<1>10. TypedSession(c)
  BY <1>7, <1>8, <1>9, MemoryTyped
<1>11. Typed(c.d) /\ IsDisk(c.d) /\ DiskTypeOK(c.d)
  BY <1>10 DEF TypedSession, Typed
<1>12. /\ DOMAIN f = DOMAIN c.d /\ f.imap = c.d.imap /\ f.bmap = c.d.bmap /\ f.inode = c.d.inode
       /\ f.content = c.d.content /\ f.freeB = s.m.freeB /\ f.freeI = s.m.freeI
  BY <1>11 DEF IsDisk
<1> HIDE DEF f
<1>13. Typed(f)
  BY <1>9, <1>11, <1>12, MapsTyped DEF DiskTypeOK
<1>14. \A journal \in BOOLEAN : TypedSession(Logged(c, f, journal))
  BY <1>10, <1>13, LoggedTyped
<1>15. TypedSession(u)
  BY <1>14
<1> HIDE DEF u
<1>16. SameDisk(u, r) /\ r.m = Unmounted
  BY <1>1, <1>15 DEF SameDisk, TypedSession
<1>17. TypedSession(r)
  BY <1>15, <1>16, UnmountedTyped, MemoryTyped
<1> QED
  BY <1>17 DEF r

-----------------------------------------------------------------------------
(* The types in every behaviour.                                            *)

LEMMA FormattedTyped == Typed(Formatted)
<1> DEFINE d == Formatted
           data == NewDirData(Root, Root)
           node == Node("dir", 2, FirstData)
           count == Cardinality(Inodes) - 1
<1>1. IsDisk(d)
  BY FormattedSound DEF SoundFor
<1>2. /\ d.imap = {0, Root} /\ d.bmap = 0 .. FirstData
      /\ DOMAIN d.inode = {Root} /\ d.inode[Root] = node
      /\ DOMAIN d.content = DataBlocks
      /\ \A b \in DataBlocks : d.content[b] = IF b = FirstData THEN data ELSE NoData
      /\ d.freeB = Blocks - FirstData - 1 /\ d.freeI = count
  BY DEF Formatted
<1>3. node \in NodeType
  BY Layout, NodeTyped DEF Kinds
<1>4. IsTypedData(data)
  <2>1. FirstContents("dir", Root, Root) = data /\ "dir" \in {"dir", "lnk"}
    BY DEF FirstContents
  <2> HIDE DEF data
  <2> QED
    BY <2>1, Layout, FirstContentsTyped
<1>5. IsTypedData(NoData)
  BY DEF IsTypedData, IsData, NoData
<1>6. d.freeB \in Nat
  BY <1>2, LayoutFits, SizeAssumption
<1>7. d.freeI \in Nat
  <2>1. count + 1 = Cardinality(Inodes) /\ Cardinality(Inodes) \in Nat /\ Cardinality(Inodes) # 0
    BY Layout, FS_CardinalityType, FS_EmptySet
  <2> QED
    BY <1>2, <2>1
<1>8. {0, Root} \subseteq BitNumbers /\ 0 .. FirstData \subseteq BitNumbers
  BY LayoutFits
<1> HIDE DEF d, data, node, count
<1>9. \A b \in DataBlocks : IsTypedData(d.content[b])
  BY <1>2, <1>4, <1>5
<1>10. DiskTypeOK(d)
  BY <1>2, <1>3, <1>6, <1>7, <1>8, <1>9, Layout DEF DiskTypeOK, IsTypedData, IsData, EntriesOf
<1> QED
  BY <1>1, <1>10 DEF Typed, d

LEMMA WithFileTyped ==
    ASSUME NEW s, TypedSession(s), NEW dir \in Inodes, NEW n \in Names
    PROVE  TypedSession(WithFile(s, dir, n))
<1> DEFINE t == Symlink(s, dir, n)
           i == Lookup(t.d, dir, n)
<1>1. WithFile(s, dir, n) = IF Writable(t.d, i) THEN WriteFile(t, i, 1, 3) ELSE t
  BY DEF WithFile
<1>2. TypedSession(t)
  BY MkdirTyped
<1> HIDE DEF t, i
<1>3. Writable(t.d, i) => i \in Inodes
  BY <1>2, DirectoriesTyped DEF Writable, TypedSession
<1>4. Writable(t.d, i) => TypedSession(WriteFile(t, i, 1, 3))
  BY <1>2, <1>3, WriteFileTyped
<1> QED
  BY <1>1, <1>2, <1>4

LEMMA NearlyFullTyped ==
    ASSUME InitNearlyFull
    PROVE  Typed(disk) /\ mem \in MemoryType
<1>1. PICK a \in Names, b \in Names, c \in Names :
          \E dir \in Directories(WithDirectory(a).d) \ {Root} :
              LET full == WithFile(WithFile(WithDirectory(a), dir, b), dir, c)
              IN  disk = full.d /\ mem = full.m
  BY CallsAssumption DEF InitNearlyFull
<1>2. PICK dir \in Directories(WithDirectory(a).d) :
          /\ disk = WithFile(WithFile(WithDirectory(a), dir, b), dir, c).d
          /\ mem = WithFile(WithFile(WithDirectory(a), dir, b), dir, c).m
  BY <1>1
<1> DEFINE s == MountSession(Formatted)
           t == WithDirectory(a)
<1>3. TypedSession(s)
  BY FormattedTyped, MountTyped
<1>4. t = Mkdir(s, Root, a)
  BY DEF WithDirectory
<1> HIDE DEF s
<1>5. TypedSession(t)
  BY <1>3, <1>4, Layout, MkdirTyped
<1>6. dir \in Inodes
  <2>1. dir \in Directories(t.d)
    BY <1>2
  <2> HIDE DEF t
  <2> QED
    BY <1>5, <2>1, DirectoriesTyped DEF TypedSession
<1> DEFINE u == WithFile(t, dir, b)
           v == WithFile(u, dir, c)
<1>7. disk = v.d /\ mem = v.m
  BY <1>2
<1> HIDE DEF t
<1>8. TypedSession(u)
  BY <1>5, <1>6, WithFileTyped
<1> HIDE DEF u
<1>9. TypedSession(v)
  BY <1>6, <1>8, WithFileTyped
<1> HIDE DEF v
<1> QED
  BY <1>7, <1>9 DEF TypedSession

\* The invariant: FsTypeOK, with the fields of the disks and of the log.
WellTyped ==
    /\ Typed(disk) /\ mem \in MemoryType /\ TypedLog(todo)
    /\ calls \in 0 .. MaxCalls /\ intact \in BOOLEAN /\ crashed \in BOOLEAN

LEMMA InitWellTyped == Init => WellTyped
<1> SUFFICES ASSUME Init PROVE WellTyped
  OBVIOUS
<1>1. Typed(disk) /\ mem \in MemoryType
  <2>1. CASE disk = Formatted /\ mem = Unmounted
    BY <2>1, FormattedTyped, UnmountedTyped
  <2>2. CASE InitNearlyFull
    BY <2>2, NearlyFullTyped
  <2> QED
    BY <2>1, <2>2 DEF Init
<1>2. todo = <<>> /\ calls \in {0, 1} /\ intact = TRUE /\ crashed = FALSE
  BY DEF Init, InitNearlyFull
<1>3. TypedLog(todo)
  BY <1>2, EmptyLogTyped
<1>4. calls \in 0 .. MaxCalls
  BY <1>2, CallsAssumption
<1> QED
  BY <1>1, <1>2, <1>3, <1>4 DEF WellTyped

\* What is left of a log.
LEMMA RestTyped ==
    ASSUME NEW l, TypedLog(l), l # <<>>
    PROVE  Typed(Head(l).disk) /\ Head(l).journal \in BOOLEAN /\ TypedLog(Tail(l))
<1> DEFINE x == Head(l)
           r == Tail(l)
<1>1. PICK S : l \in Seq(S)
  BY DEF TypedLog, IsLog
<1>2. /\ r \in Seq(S) /\ Len(l) \in Nat /\ Len(r) = Len(l) - 1 /\ Len(l) > 0
      /\ l[1] = x /\ \A k \in 1 .. Len(r) : r[k] = l[k + 1]
  BY <1>1
<1> HIDE DEF x, r
<1>3. \A k \in 1 .. Len(l) : Typed(l[k].disk) /\ l[k].journal \in BOOLEAN
  BY DEF TypedLog
<1>4. 1 \in 1 .. Len(l) /\ \A k \in 1 .. Len(r) : k + 1 \in 1 .. Len(l)
  BY <1>2
<1>5. TypedLog(r)
  BY <1>2, <1>3, <1>4 DEF TypedLog, IsLog
<1> QED
  BY <1>2, <1>3, <1>4, <1>5 DEF x, r

LEMMA CallWellTyped ==
    ASSUME WellTyped, NEW s, Do(s), TypedSession(s)
    PROVE  WellTyped'
<1>1. /\ todo' = s.log /\ mem' = s.m /\ calls' = calls + 1 /\ calls < MaxCalls
      /\ UNCHANGED <<disk, intact, crashed>>
  BY DEF Do
<1>2. calls' \in 0 .. MaxCalls
  BY <1>1, CallsAssumption DEF WellTyped
<1> QED
  BY <1>1, <1>2 DEF WellTyped, TypedSession

LEMMA NextWellTyped == WellTyped /\ [Next]_vars => WellTyped'
<1> SUFFICES ASSUME WellTyped, [Next]_vars PROVE WellTyped'
  OBVIOUS
<1>1. TypedSession(Now)
  BY SessionTyped DEF Now, WellTyped
<1>2. Directories(disk) \subseteq Inodes /\ Named(disk) \subseteq Inodes
  BY DirectoriesTyped DEF WellTyped
<1>3. ASSUME NEW p \in Directories(disk), NEW n \in Names
      PROVE  /\ TypedSession(Create(Now, p, n)) /\ TypedSession(Mkdir(Now, p, n))
             /\ TypedSession(Symlink(Now, p, n)) /\ TypedSession(Unlink(Now, p, n))
             /\ \A i \in Named(disk) : TypedSession(Link(Now, p, n, i))
  <2>1. p \in Inodes
    BY <1>2, <1>3
  <2>2. TypedSession(Create(Now, p, n)) /\ TypedSession(Unlink(Now, p, n))
    BY <1>1, <2>1, CreateTyped, UnlinkTyped
  <2>3. TypedSession(Mkdir(Now, p, n)) /\ TypedSession(Symlink(Now, p, n))
    BY <1>1, <2>1, MkdirTyped
  <2>4. \A i \in Named(disk) : TypedSession(Link(Now, p, n, i))
    BY <1>1, <1>2, <2>1, LinkTyped
  <2> QED
    BY <2>2, <2>3, <2>4
<1>4. CASE Creates
  BY <1>3, <1>4, CallWellTyped DEF Creates
<1>5. CASE Mkdirs
  BY <1>3, <1>5, CallWellTyped DEF Mkdirs
<1>6. CASE Symlinks
  BY <1>3, <1>6, CallWellTyped DEF Symlinks
<1>7. CASE Links
  BY <1>3, <1>7, CallWellTyped DEF Links
<1>8. CASE Unlinks
  BY <1>3, <1>8, CallWellTyped DEF Unlinks
<1>9. CASE Writes
  <2>1. PICK i \in Named(disk), e \in Extents : Do(WriteFile(Now, i, e[1], e[2]))
    BY <1>9 DEF Writes
  <2>2. TypedSession(WriteFile(Now, i, e[1], e[2]))
    BY <1>1, <1>2, WriteFileTyped
  <2> QED
    BY <2>1, <2>2, CallWellTyped
<1>10. CASE Mount
  <2>1. TypedSession(MountSession(disk))
    BY MountTyped DEF WellTyped
  <2>2. /\ todo' = MountSession(disk).log /\ mem' = MountSession(disk).m
        /\ UNCHANGED <<disk, calls, intact, crashed>>
    BY <1>10 DEF Mount
  <2> QED
    BY <2>1, <2>2 DEF WellTyped, TypedSession
<1>11. CASE Unmount
  BY <1>1, <1>11, UnmountTyped, CallWellTyped DEF Unmount
<1>12. CASE WriteBlock
  <2>1. /\ todo # <<>> /\ disk' = Head(todo).disk /\ todo' = Tail(todo)
        /\ intact' = (intact /\ ~(Head(todo).journal /\ Overwrites(disk, Head(todo).disk)))
        /\ UNCHANGED <<mem, calls, crashed>>
    BY <1>12 DEF WriteBlock
  <2>2. Typed(disk') /\ TypedLog(todo')
    BY <2>1, RestTyped DEF WellTyped
  <2>3. intact' \in BOOLEAN
    BY <2>1
  <2> QED
    BY <2>1, <2>2, <2>3 DEF WellTyped
<1>13. CASE Crash
  BY <1>13, EmptyLogTyped, UnmountedTyped DEF Crash, WellTyped
<1>14. CASE UNCHANGED vars
  BY <1>14 DEF vars, WellTyped
<1> QED
  BY <1>4, <1>5, <1>6, <1>7, <1>8, <1>9, <1>10, <1>11, <1>12, <1>13, <1>14 DEF Next

\* Whatever the journal writes over and wherever a call is interrupted, the
\* bitmaps, the inode table and the directories have entries of the right kind
\* in the right places: no call writes outside its block, takes a number from
\* an empty count, or lets a link count fall below zero, and no name leads
\* outside the inode table.
THEOREM BrainFSTypesAreKept == Spec => []FsTypeOK
<1>1. WellTyped => FsTypeOK
  BY DEF WellTyped, FsTypeOK, Typed, TypedLog
<1> QED
  BY <1>1, InitWellTyped, NextWellTyped, PTL DEF Spec
=============================================================================
