----------------------------- MODULE Vfs_proofs -----------------------------
(***************************************************************************)
(* Proofs about Vfs: every operation on the file system leaves a tree, and  *)
(* gives no number out that was given before, whatever the paths, the       *)
(* targets of links and the directories it starts from.                     *)
(*                                                                          *)
(* What a walk finds is proved by induction over its steps.  The library's  *)
(* induction theorems take the property as an operator; here it is a set of *)
(* numbers, and the least number outside it refutes itself.                 *)
(***************************************************************************)
EXTENDS Vfs, Integers, FiniteSets, WellFoundedInduction, FiniteSetTheorems, TLAPS

-----------------------------------------------------------------------------
(* Induction over sets of numbers.                                         *)

LEMMA LeastNumber ==
    ASSUME NEW T \in SUBSET Nat, NEW n \in T
    PROVE  \E m \in T : \A k \in T : m <= k
<1> DEFINE F == {0 .. m : m \in {k \in T : k <= n}}
<1>1. \A m \in Int : IsFiniteSet(0 .. m)
  BY FS_Interval
<1>2. IsWellFoundedOn(StrictSubsetOrdering(0 .. n), FiniteSubsetsOf(0 .. n))
  BY FS_StrictSubsetOrderingWellFounded
<1>3. F \subseteq FiniteSubsetsOf(0 .. n) /\ F # {}
  BY <1>1 DEF FiniteSubsetsOf
<1> HIDE DEF F
<1>4. PICK s \in F : \A r \in F : ~(<<r, s>> \in StrictSubsetOrdering(0 .. n))
  BY <1>2, <1>3, WFMin
<1>5. PICK m \in T : m <= n /\ s = 0 .. m
  BY DEF F
<1>6. ASSUME NEW k \in T, k < m PROVE FALSE
  <2>1. 0 .. k \in F /\ 0 .. k \in SUBSET (0 .. n) /\ s \in SUBSET (0 .. n)
    BY <1>5, <1>6 DEF F
  <2>2. 0 .. k \subseteq s /\ 0 .. k # s
    BY <1>5, <1>6
  <2> QED
    BY <1>4, <2>1, <2>2 DEF StrictSubsetOrdering
<1> QED
  BY <1>6

LEMMA SetInduction ==
    ASSUME NEW max \in Nat, NEW S, 0 \in S,
           \A n \in 1 .. max : n - 1 \in S => n \in S
    PROVE  0 .. max \subseteq S
<1> SUFFICES ASSUME NEW n \in (0 .. max) \ S PROVE FALSE
  OBVIOUS
<1>1. PICK m \in (0 .. max) \ S : \A k \in (0 .. max) \ S : m <= k
  <2>1. (0 .. max) \ S \in SUBSET Nat
    OBVIOUS
  <2> QED
    BY <2>1, LeastNumber
<1>2. m # 0 /\ m - 1 \in S
  BY <1>1
<1> QED
  BY <1>2

-----------------------------------------------------------------------------
(* Adding a name.                                                          *)

Good(f) == IsVfs(f) /\ IsTree(f)

\* No number that was ever given out is given out again.
Grows(f, g) ==
    /\ f.next <= g.next
    /\ \A i \in DOMAIN g.inodes : i \in DOMAIN f.inodes \/ i >= f.next

LEMMA GrowsTransitive ==
    ASSUME NEW f, NEW g, NEW h, IsVfs(f), IsVfs(g), IsVfs(h), Grows(f, g), Grows(g, h)
    PROVE  Grows(f, h)
  BY DEF IsVfs, Grows

\* A new inode: one name, and a directory has nothing but its two entries.
NewNode(node, ino, parent) ==
    /\ DOMAIN node = NodeFields
    /\ node.nlink = 1
    /\ node.type = "dir" => /\ DOMAIN node.entries = {".", ".."}
                            /\ node.entries["."] = ino
                            /\ node.entries[".."] = parent

LEMMA LinkedTree ==
    ASSUME NEW f, Good(f), NEW parent, NEW name, CanAdd(f, parent, name),
           NEW node, NewNode(node, f.next, parent)
    PROVE  /\ Good(Linked(f, parent, name, f.next, node))
           /\ Grows(f, Linked(f, parent, name, f.next, node))
<1> DEFINE new == f.next
           g == Linked(f, parent, name, new, node)
<1>1. /\ new \in Nat /\ new \notin DOMAIN f.inodes
      /\ \A i \in DOMAIN f.inodes : i \in Nat /\ i < new /\ DOMAIN f.inodes[i] = NodeFields
      /\ parent \in Directories(f) /\ name \notin DOMAIN f.inodes[parent].entries
  BY DEF Good, IsVfs, IsTree, CanAdd, IsDir, Exists, Directories
<1>2. \A d \in Directories(f) : DirectoryOK(f, d) /\ d \in DOMAIN f.inodes
  BY DEF Good, IsTree, Directories
<1>3. name \notin {".", ".."}
  BY <1>1, <1>2 DEF DirectoryOK
<1>4. DOMAIN g = {"inodes", "next"} /\ DOMAIN g.inodes = DOMAIN f.inodes \cup {new}
      /\ g.next = new + 1 /\ g.inodes[new] = node
  BY <1>1 DEF Linked
<1>5. \A i \in DOMAIN f.inodes \ {parent} : g.inodes[i] = f.inodes[i]
  BY <1>1 DEF Linked
<1>6. g.inodes[parent] = [f.inodes[parent] EXCEPT !.entries = Named(@, name, new)]
  BY <1>1, <1>2 DEF Linked
<1> HIDE DEF g
<1>7. /\ DOMAIN g.inodes[parent] = NodeFields
      /\ g.inodes[parent].type = f.inodes[parent].type
      /\ g.inodes[parent].nlink = f.inodes[parent].nlink
      /\ DOMAIN g.inodes[parent].entries = DOMAIN f.inodes[parent].entries \cup {name}
      /\ g.inodes[parent].entries[name] = new
      /\ \A n \in DOMAIN f.inodes[parent].entries :
            g.inodes[parent].entries[n] = f.inodes[parent].entries[n]
  BY <1>1, <1>2, <1>6 DEF Named, NodeFields
<1>8. \A i \in DOMAIN f.inodes :
          /\ DOMAIN g.inodes[i] = NodeFields
          /\ g.inodes[i].type = f.inodes[i].type
          /\ g.inodes[i].nlink = f.inodes[i].nlink
  BY <1>1, <1>5, <1>7
<1>9. IsVfs(g)
  BY <1>1, <1>4, <1>8 DEF IsVfs, NewNode
<1>10. \A d \in Directories(f) :
          /\ d \in Directories(g)
          /\ Names(g, d) = IF d = parent THEN Names(f, d) \cup {name} ELSE Names(f, d)
          /\ \A n \in DOMAIN f.inodes[d].entries : g.inodes[d].entries[n] = f.inodes[d].entries[n]
  BY <1>2, <1>3, <1>4, <1>5, <1>7, <1>8 DEF Names, Directories
<1>11. /\ \A d \in Directories(g) : d \in Directories(f) \/ d = new
       /\ new \in Directories(g) => Names(g, new) = {} /\ node.type = "dir"
  BY <1>4, <1>8 DEF Directories, Names, NewNode
<1>12. ASSUME NEW d \in Directories(f), NEW n \in Names(f, d)
       PROVE  /\ f.inodes[d].entries[n] \in DOMAIN f.inodes
              /\ n \in DOMAIN f.inodes[d].entries /\ n \in Names(g, d)
              /\ g.inodes[d].entries[n] = f.inodes[d].entries[n]
              /\ d = parent => n # name
  <2>1. f.inodes[d].entries[n] \in DOMAIN f.inodes /\ n \in DOMAIN f.inodes[d].entries
    BY <1>2 DEF DirectoryOK, Names
  <2> QED
    BY <2>1, <1>1, <1>10
<1>13. ASSUME NEW i \in DOMAIN f.inodes PROVE Holders(g, i) = Holders(f, i)
  <2>1. ASSUME NEW d \in Holders(f, i) PROVE d \in Holders(g, i)
    BY <1>10, <1>12 DEF Holders
  <2>2. ASSUME NEW d \in Holders(g, i) PROVE d \in Holders(f, i)
    <3>1. PICK n \in Names(g, d) : g.inodes[d].entries[n] = i
      BY DEF Holders
    <3>2. d \in Directories(f)
      BY <1>11, <3>1 DEF Holders
    <3>3. n \in Names(f, d)
      BY <1>1, <1>7, <1>10, <3>1, <3>2
    <3> QED
      BY <1>12, <3>1, <3>2, <3>3 DEF Holders
  <2> QED
    BY <2>1, <2>2
<1>14. Holders(g, new) = {parent}
  <2>1. parent \in Holders(g, new)
    BY <1>1, <1>7, <1>10 DEF Holders
  <2>2. ASSUME NEW d \in Holders(g, new) PROVE d = parent
    <3>1. PICK n \in Names(g, d) : g.inodes[d].entries[n] = new
      BY DEF Holders
    <3>2. d \in Directories(f)
      BY <1>11, <3>1 DEF Holders
    <3>3. n \notin Names(f, d)
      BY <1>1, <1>12, <3>1, <3>2
    <3> QED
      BY <1>10, <3>1, <3>2, <3>3
  <2> QED
    BY <2>1, <2>2
<1>15. RootIsRoot(g)
  BY <1>2, <1>10, <1>13 DEF Good, IsTree, RootIsRoot, DirectoryOK
<1>16. ASSUME NEW d \in Directories(g) PROVE DirectoryOK(g, d)
  <2>1. CASE d = new
    BY <1>4, <1>11, <2>1 DEF DirectoryOK, NewNode
  <2>2. CASE d \in Directories(f)
    <3>1. /\ {".", ".."} \subseteq DOMAIN g.inodes[d].entries
          /\ g.inodes[d].entries["."] = d
      BY <1>2, <1>5, <1>7, <1>10, <2>2 DEF DirectoryOK
    <3>2. ASSUME NEW n \in Names(f, d), NEW i, i = f.inodes[d].entries[n]
          PROVE  /\ i \in DOMAIN g.inodes /\ d < i
                 /\ g.inodes[i].type = "dir" => g.inodes[i].entries[".."] = d
                 /\ \A m \in Names(g, d) : g.inodes[d].entries[m] = i => m = n
      <4>1. /\ i \in DOMAIN f.inodes /\ d < i
            /\ f.inodes[i].type = "dir" => f.inodes[i].entries[".."] = d
            /\ \A m \in Names(f, d) : f.inodes[d].entries[m] = i => m = n
        BY <1>2, <2>2, <3>2 DEF DirectoryOK
      <4>2. g.inodes[i].type = "dir" => g.inodes[i].entries[".."] = d
        <5>1. i \in Directories(f) => ".." \in DOMAIN f.inodes[i].entries
          BY <1>2 DEF DirectoryOK
        <5> QED
          BY <1>8, <1>10, <4>1, <5>1 DEF Directories
      <4>3. ASSUME NEW m \in Names(g, d), g.inodes[d].entries[m] = i PROVE m = n
        <5>1. m \in Names(f, d)
          BY <1>1, <1>7, <1>10, <2>2, <4>1, <4>3
        <5> QED
          BY <1>12, <2>2, <4>1, <4>3, <5>1
      <4> QED
        BY <1>4, <4>1, <4>2, <4>3
    <3>3. ASSUME d = parent
          PROVE  /\ new \in DOMAIN g.inodes /\ d < new
                 /\ g.inodes[new].type = "dir" => g.inodes[new].entries[".."] = d
                 /\ \A m \in Names(g, d) : g.inodes[d].entries[m] = new => m = name
      <4>1. ASSUME NEW m \in Names(f, d) PROVE g.inodes[d].entries[m] # new
        BY <1>1, <1>12, <2>2
      <4> QED
        BY <1>1, <1>2, <1>4, <1>10, <2>2, <3>3, <4>1 DEF NewNode
    <3>4. ASSUME NEW n \in Names(g, d)
          PROVE  LET i == g.inodes[d].entries[n]
                 IN /\ i \in DOMAIN g.inodes /\ d < i
                    /\ g.inodes[i].type = "dir" => g.inodes[i].entries[".."] = d
                    /\ \A m \in Names(g, d) : g.inodes[d].entries[m] = i => m = n
      <4>1. CASE n \in Names(f, d)
        BY <1>12, <2>2, <3>2, <4>1
      <4>2. CASE d = parent /\ n = name
        BY <1>7, <3>3, <4>2
      <4> QED
        BY <1>10, <2>2, <4>1, <4>2
    <3> QED
      BY <3>1, <3>4 DEF DirectoryOK
  <2> QED
    BY <1>11, <2>1, <2>2
<1>17. ASSUME NEW i \in DOMAIN g.inodes
       PROVE  /\ i < g.next /\ g.inodes[i].nlink = 1
              /\ i # Root => \E d \in Directories(g) : Holders(g, i) = {d}
  <2>1. CASE i = new
    BY <1>1, <1>4, <1>10, <1>14, <2>1 DEF NewNode
  <2>2. CASE i \in DOMAIN f.inodes
    <3>1. /\ f.inodes[i].nlink = 1
          /\ i # Root => \E d \in Directories(f) : Holders(f, i) = {d}
      BY <2>2 DEF Good, IsTree
    <3> QED
      BY <1>1, <1>4, <1>8, <1>10, <1>13, <2>2, <3>1
  <2> QED
    BY <1>4, <2>1, <2>2
<1>18. IsTree(g)
  BY <1>15, <1>16, <1>17 DEF IsTree
<1>19. Grows(f, g)
  BY <1>1, <1>4 DEF Grows
<1> QED
  BY <1>9, <1>18, <1>19 DEF Good, g

LEMMA AddedTree ==
    ASSUME NEW f, Good(f), NEW parent, NEW name,
           NEW node, NewNode(node, f.next, parent)
    PROVE  Good(Added(f, parent, name, node)) /\ Grows(f, Added(f, parent, name, node))
<1>1. CASE CanAdd(f, parent, name)
  BY <1>1, LinkedTree DEF Added, AllocateInode
<1>2. CASE ~CanAdd(f, parent, name)
  BY <1>2 DEF Added, Grows, Good, IsVfs
<1> QED
  BY <1>1, <1>2

-----------------------------------------------------------------------------
(* Changing what an inode holds, and removing a name.                      *)

\* The data, the mode and the owners of inodes are none of the tree's business.
LEMMA SameTree ==
    ASSUME NEW f, Good(f), NEW g,
           DOMAIN g = {"inodes", "next"}, g.next = f.next,
           DOMAIN g.inodes = DOMAIN f.inodes,
           \A i \in DOMAIN f.inodes :
              /\ DOMAIN g.inodes[i] = NodeFields
              /\ g.inodes[i].type = f.inodes[i].type
              /\ g.inodes[i].nlink = f.inodes[i].nlink
              /\ g.inodes[i].entries = f.inodes[i].entries
    PROVE  Good(g) /\ Grows(f, g)
<1>1. IsVfs(g) /\ Grows(f, g)
  BY DEF Good, IsVfs, Grows
<1>2. Directories(g) = Directories(f)
  BY DEF Directories
<1>3. \A d \in Directories(f) : Names(g, d) = Names(f, d)
  BY DEF Directories, Names
<1>4. \A i : Holders(g, i) = Holders(f, i)
  BY <1>2, <1>3 DEF Holders, Directories
<1>5. RootIsRoot(g)
  BY <1>2, <1>4 DEF Good, IsTree, RootIsRoot, Directories
<1>6. ASSUME NEW d \in Directories(f) PROVE DirectoryOK(g, d)
  <2>1. DirectoryOK(f, d) /\ d \in DOMAIN f.inodes
    BY DEF Good, IsTree, Directories
  <2> QED
    BY <2>1, <1>3 DEF DirectoryOK
<1>7. IsTree(g)
  BY <1>2, <1>4, <1>5, <1>6 DEF Good, IsTree
<1> QED
  BY <1>1, <1>7 DEF Good

LEMMA StoredTree ==
    ASSUME NEW f, Good(f), NEW ino \in DOMAIN f.inodes, NEW data
    PROVE  Good(Stored(f, ino, data)) /\ Grows(f, Stored(f, ino, data))
  BY SameTree DEF Stored, Good, IsVfs, NodeFields

LEMMA DroppedTree ==
    ASSUME NEW f, Good(f), NEW parent, NEW name, Removable(f, parent, name)
    PROVE  LET g == Dropped(f, parent, name, f.inodes[parent].entries[name])
           IN Good(g) /\ Grows(f, g)
<1> DEFINE target == f.inodes[parent].entries[name]
           g == Dropped(f, parent, name, target)
<1>1. /\ parent \in Directories(f) /\ name \in Names(f, parent)
      /\ target \in DOMAIN f.inodes
      /\ target \in Directories(f) => Names(f, target) = {}
  BY DEF Removable, IsDir, Exists, Directories, Names
<1>2. \A d \in Directories(f) : DirectoryOK(f, d) /\ d \in DOMAIN f.inodes
  BY DEF Good, IsTree, Directories
<1>3. /\ DOMAIN f = {"inodes", "next"}
      /\ \A i \in DOMAIN f.inodes : i \in Nat /\ DOMAIN f.inodes[i] = NodeFields
      /\ f.inodes[target].nlink = 1
  BY <1>1 DEF Good, IsVfs, IsTree
<1>4. target # parent /\ parent \in DOMAIN f.inodes /\ parent \in Holders(f, target)
  BY <1>1, <1>2, <1>3 DEF DirectoryOK, Holders
<1>5. target # Root /\ Holders(f, target) = {parent}
  BY <1>1, <1>4 DEF Good, IsTree, RootIsRoot
<1>6. /\ DOMAIN g = {"inodes", "next"} /\ g.next = f.next
      /\ DOMAIN g.inodes = DOMAIN f.inodes \ {target}
      /\ \A i \in DOMAIN f.inodes \ {target, parent} : g.inodes[i] = f.inodes[i]
      /\ g.inodes[parent] = [f.inodes[parent] EXCEPT !.entries = Unnamed(@, name)]
  BY <1>1, <1>3, <1>4 DEF Dropped
<1> HIDE DEF g
<1>7. /\ DOMAIN g.inodes[parent] = NodeFields
      /\ g.inodes[parent].type = f.inodes[parent].type
      /\ g.inodes[parent].nlink = f.inodes[parent].nlink
      /\ DOMAIN g.inodes[parent].entries = DOMAIN f.inodes[parent].entries \ {name}
      /\ \A n \in DOMAIN f.inodes[parent].entries \ {name} :
            g.inodes[parent].entries[n] = f.inodes[parent].entries[n]
  BY <1>3, <1>4, <1>6 DEF Unnamed, NodeFields
<1>8. \A i \in DOMAIN g.inodes :
          /\ DOMAIN g.inodes[i] = NodeFields
          /\ g.inodes[i].type = f.inodes[i].type
          /\ g.inodes[i].nlink = f.inodes[i].nlink
  BY <1>3, <1>6, <1>7
<1>9. IsVfs(g)
  BY <1>3, <1>6, <1>8 DEF Good, IsVfs
<1>10. Directories(g) = Directories(f) \ {target}
  BY <1>6, <1>8 DEF Directories
<1>11. ASSUME NEW d \in Directories(g)
       PROVE  /\ Names(g, d) = IF d = parent THEN Names(f, d) \ {name} ELSE Names(f, d)
              /\ \A n \in DOMAIN f.inodes[d].entries :
                    (d = parent /\ n = name) \/ g.inodes[d].entries[n] = f.inodes[d].entries[n]
  BY <1>1, <1>6, <1>7, <1>10 DEF Names, Directories
<1>12. ASSUME NEW d \in Directories(g), NEW n \in Names(g, d)
       PROVE  /\ d \in Directories(f) /\ n \in Names(f, d)
              /\ n \in DOMAIN f.inodes[d].entries
              /\ g.inodes[d].entries[n] = f.inodes[d].entries[n]
              /\ f.inodes[d].entries[n] \in DOMAIN g.inodes
  <2>1. /\ d \in Directories(f) /\ n \in Names(f, d) /\ n \in DOMAIN f.inodes[d].entries
        /\ d = parent => n # name
    BY <1>10, <1>11 DEF Names
  <2>2. g.inodes[d].entries[n] = f.inodes[d].entries[n]
    BY <1>11, <2>1
  <2>3. f.inodes[d].entries[n] # target
    <3>1. CASE d = parent
      BY <1>1, <1>2, <2>1, <3>1 DEF DirectoryOK
    <3>2. CASE d # parent
      BY <1>5, <2>1, <3>2 DEF Holders
    <3> QED
      BY <3>1, <3>2
  <2> QED
    BY <1>2, <1>6, <2>1, <2>2, <2>3 DEF DirectoryOK
<1>13. ASSUME NEW i \in DOMAIN g.inodes PROVE Holders(g, i) = Holders(f, i)
  <2>1. ASSUME NEW d \in Holders(g, i) PROVE d \in Holders(f, i)
    BY <1>12 DEF Holders
  <2>2. ASSUME NEW d \in Holders(f, i) PROVE d \in Holders(g, i)
    <3>1. PICK n \in Names(f, d) : f.inodes[d].entries[n] = i
      BY DEF Holders
    <3>2. d \in Directories(g)
      BY <1>1, <1>10, <3>1 DEF Holders
    <3>3. n \in Names(g, d)
      BY <1>6, <1>11, <3>1, <3>2
    <3> QED
      BY <1>12, <3>1, <3>2, <3>3 DEF Holders
  <2> QED
    BY <2>1, <2>2
<1>14. RootIsRoot(g)
  <2>1. /\ Root \in Directories(f) /\ f.inodes[Root].entries[".."] = Root
        /\ Holders(f, Root) = {}
    BY DEF Good, IsTree, RootIsRoot
  <2>2. Root \in Directories(g) /\ Root \in DOMAIN g.inodes
    BY <1>5, <1>10, <2>1 DEF Directories
  <2>3. g.inodes[Root].entries[".."] = Root
    BY <1>1, <1>2, <1>11, <2>1, <2>2 DEF DirectoryOK, Names
  <2> QED
    BY <1>13, <2>1, <2>2, <2>3 DEF RootIsRoot
<1>15. ASSUME NEW d \in Directories(g) PROVE DirectoryOK(g, d)
  <2>1. d \in Directories(f) /\ DirectoryOK(f, d)
    BY <1>2, <1>10
  <2>2. /\ {".", ".."} \subseteq DOMAIN g.inodes[d].entries
        /\ g.inodes[d].entries["."] = d
    <3>1. {".", ".."} \subseteq DOMAIN f.inodes[d].entries /\ f.inodes[d].entries["."] = d
      BY <2>1 DEF DirectoryOK
    <3>2. name \notin {".", ".."} /\ d \in DOMAIN f.inodes /\ d # target
      BY <1>1, <1>10, <2>1 DEF Names, Directories
    <3>3. CASE d = parent
      BY <1>7, <3>1, <3>2, <3>3
    <3>4. CASE d # parent
      BY <1>6, <3>1, <3>2, <3>4
    <3> QED
      BY <3>3, <3>4
  <2>3. ASSUME NEW n \in Names(g, d), NEW i, i = g.inodes[d].entries[n]
        PROVE  /\ i \in DOMAIN g.inodes /\ d < i
               /\ g.inodes[i].type = "dir" => g.inodes[i].entries[".."] = d
               /\ \A m \in Names(g, d) : g.inodes[d].entries[m] = i => m = n
    <3>1. i \in DOMAIN g.inodes /\ i = f.inodes[d].entries[n] /\ n \in Names(f, d)
      BY <1>12, <2>3
    <3>2. /\ d < i
          /\ f.inodes[i].type = "dir" => f.inodes[i].entries[".."] = d
          /\ \A m \in Names(f, d) : f.inodes[d].entries[m] = i => m = n
      BY <2>1, <3>1 DEF DirectoryOK
    <3>3. ASSUME i \in Directories(g) PROVE g.inodes[i].entries[".."] = f.inodes[i].entries[".."]
      BY <1>1, <1>2, <1>10, <1>11, <3>3 DEF DirectoryOK, Names
    <3> QED
      BY <1>8, <1>12, <3>1, <3>2, <3>3 DEF Directories
  <2> QED
    BY <2>2, <2>3 DEF DirectoryOK
<1>16. ASSUME NEW i \in DOMAIN g.inodes
       PROVE  /\ i < g.next /\ g.inodes[i].nlink = 1
              /\ i # Root => \E d \in Directories(g) : Holders(g, i) = {d}
  <2>1. /\ i \in DOMAIN f.inodes /\ i < f.next /\ f.inodes[i].nlink = 1
        /\ i # Root => \E d \in Directories(f) : Holders(f, i) = {d}
    BY <1>6 DEF Good, IsTree
  <2>2. target \notin Holders(f, i)
    BY <1>1 DEF Holders
  <2> QED
    BY <1>6, <1>8, <1>10, <1>13, <2>1, <2>2
<1>17. IsTree(g)
  BY <1>14, <1>15, <1>16 DEF IsTree
<1>18. Grows(f, g)
  BY <1>6, <1>9 DEF Grows, IsVfs
<1> QED
  BY <1>9, <1>17, <1>18 DEF Good, g

-----------------------------------------------------------------------------
(* The operations.                                                         *)

LEMMA MkdirTree ==
    ASSUME NEW f, Good(f), NEW path, NEW mode, NEW uid, NEW gid, NEW cwd
    PROVE  LET g == Mkdir(f, path, mode, uid, gid, cwd) IN Good(g) /\ Grows(f, g)
<1> DEFINE parent == ParentOf(f, path, cwd)
           node == DirNode(f.next, parent, mode, uid, gid)
<1>1. NewNode(node, f.next, parent)
  BY DEF NewNode, DirNode, Blank, NodeFields
<1> QED
  BY <1>1, AddedTree DEF Mkdir, AllocateInode

LEMMA FileNodeIsNew ==
    ASSUME NEW mode, NEW uid, NEW gid, NEW data, NEW ino, NEW parent
    PROVE  NewNode(FileNode(mode, uid, gid, data), ino, parent)
  BY DEF NewNode, FileNode, Blank, NodeFields

LEMMA CreateFileTree ==
    ASSUME NEW f, Good(f), NEW path, NEW mode, NEW uid, NEW gid, NEW data, NEW cwd
    PROVE  LET g == CreateFile(f, path, mode, uid, gid, data, cwd) IN Good(g) /\ Grows(f, g)
<1> DEFINE parent == ParentOf(f, path, cwd)
           name == BaseName(path)
           node == FileNode(mode, uid, gid, data)
<1>1. CASE Truncates(f, parent, name)
  BY <1>1, StoredTree DEF CreateFile, FileAt, Truncates, IsFile, Exists
<1>2. CASE ~Truncates(f, parent, name)
  BY <1>2, FileNodeIsNew, AddedTree DEF CreateFile, FileAt
<1> QED
  BY <1>1, <1>2

LEMMA WriteFileTree ==
    ASSUME NEW f, Good(f), NEW path, NEW data, NEW cwd
    PROVE  LET g == WriteFile(f, path, data, cwd) IN Good(g) /\ Grows(f, g)
<1> DEFINE ino == Resolve(f, path, cwd, TRUE)
<1>1. CASE IsFile(f, ino)
  BY <1>1, StoredTree DEF WriteFile, IsFile, Exists
<1>2. CASE ~IsFile(f, ino)
  BY <1>2 DEF WriteFile, Grows, Good, IsVfs
<1> QED
  BY <1>1, <1>2

LEMMA UnlinkTree ==
    ASSUME NEW f, Good(f), NEW path, NEW cwd
    PROVE  LET g == Unlink(f, path, cwd) IN Good(g) /\ Grows(f, g)
<1> DEFINE parent == ParentOf(f, path, cwd)
           name == BaseName(path)
<1>1. CASE Removable(f, parent, name)
  BY <1>1, DroppedTree DEF Unlink, UnlinkAt
<1>2. CASE ~Removable(f, parent, name)
  BY <1>2 DEF Unlink, UnlinkAt, Grows, Good, IsVfs
<1> QED
  BY <1>1, <1>2

\* The rest of Vfs: links and devices, which nobody makes after the boot.
LEMMA SpecialNodesTree ==
    ASSUME NEW f, Good(f), NEW path, NEW target, NEW uid, NEW gid, NEW cwd
    PROVE  /\ Good(Symlink(f, target, path, uid, gid, cwd))
           /\ Good(CreateDevice(f, path, uid, gid, cwd))
<1>1. /\ NewNode(LinkNode(uid, gid, target), f.next, ParentOf(f, path, cwd))
      /\ NewNode(Blank("device", Mode(RW, RW, RW), uid, gid), f.next, ParentOf(f, path, cwd))
  BY DEF NewNode, LinkNode, Blank, NodeFields
<1> QED
  BY <1>1, AddedTree DEF Symlink, CreateDevice

-----------------------------------------------------------------------------
(* What a walk finds.                                                      *)

\* The function of Resolve, up to step max.
Walks(f, path, cwd, follow, walk, max) ==
    walk = [n \in 0 .. max |->
              IF n = 0 THEN [at |-> StartAt(path, cwd), todo |-> Significant(path.parts)]
              ELSE WalkStep(f, cwd, follow, walk[n - 1])]

LEMMA WalkExists ==
    ASSUME NEW f, NEW path, NEW cwd, NEW follow, NEW max \in Nat
    PROVE  \E walk : Walks(f, path, cwd, follow, walk, max)
<1> DEFINE K == {n \in Nat : \E walk : Walks(f, path, cwd, follow, walk, n)}
           start == [at |-> StartAt(path, cwd), todo |-> Significant(path.parts)]
<1>1. 0 \in K
  <2>1. Walks(f, path, cwd, follow, [n \in 0 .. 0 |-> start], 0)
    BY DEF Walks
  <2> QED
    BY <2>1
<1>2. ASSUME NEW n \in 1 .. max, n - 1 \in K PROVE n \in K
  <2>1. PICK walk : Walks(f, path, cwd, follow, walk, n - 1)
    BY <1>2
  <2> DEFINE longer == [i \in 0 .. n |-> IF i = n THEN WalkStep(f, cwd, follow, walk[n - 1])
                                         ELSE walk[i]]
  <2>2. \A i \in 0 .. (n - 1) :
            walk[i] = IF i = 0 THEN start ELSE WalkStep(f, cwd, follow, walk[i - 1])
    BY <2>1 DEF Walks
  <2>3. ASSUME NEW i \in 0 .. n
        PROVE  longer[i] = IF i = 0 THEN start ELSE WalkStep(f, cwd, follow, longer[i - 1])
    <3>1. CASE i = n
      BY <3>1
    <3>2. CASE i # n /\ i = 0
      BY <2>2, <3>2
    <3>3. CASE i # n /\ i # 0
      <4>1. i \in 0 .. (n - 1) /\ i - 1 \in 0 .. n /\ i - 1 # n
        BY <3>3
      <4>2. longer[i] = walk[i] /\ longer[i - 1] = walk[i - 1]
        BY <3>3, <4>1
      <4> QED
        BY <2>2, <3>3, <4>1, <4>2
    <3> QED
      BY <3>1, <3>2, <3>3
  <2> HIDE DEF longer
  <2>4. longer = [i \in 0 .. n |-> longer[i]]
    BY DEF longer
  <2>5. Walks(f, path, cwd, follow, longer, n)
    BY <2>3, <2>4 DEF Walks
  <2> QED
    BY <2>5
<1> HIDE DEF K
<1>3. max \in K
  BY <1>1, <1>2, SetInduction
<1> QED
  BY <1>3 DEF K

\* The numbers that were given out by now, and the one for nothing.
Given(f, i) == i \in Nat /\ i < f.next

\* Every entry of a directory is such a number, `..' included.
LEMMA EntryGiven ==
    ASSUME NEW f, Good(f), NEW d \in Directories(f), NEW n \in DOMAIN f.inodes[d].entries
    PROVE  Given(f, f.inodes[d].entries[n])
<1>1. \A i \in DOMAIN f.inodes : Given(f, i)
  BY DEF Good, IsVfs, IsTree, Given
<1>2. \A e \in Directories(f) : DirectoryOK(f, e) /\ e \in DOMAIN f.inodes
  BY DEF Good, IsTree, Directories
<1>3. CASE n = "."
  BY <1>1, <1>2, <1>3 DEF DirectoryOK
<1>4. CASE n = ".."
  <2>1. CASE d = Root
    BY <1>1, <1>2, <1>4, <2>1 DEF Good, IsTree, RootIsRoot
  <2>2. CASE d # Root
    <3>1. PICK e \in Directories(f) : d \in DOMAIN f.inodes /\ Holders(f, d) = {e}
      BY <1>2, <2>2 DEF Good, IsTree
    <3>2. PICK m \in Names(f, e) : f.inodes[e].entries[m] = d
      BY <3>1 DEF Holders
    <3>3. f.inodes[d].entries[".."] = e
      BY <1>2, <3>2 DEF DirectoryOK, Directories
    <3> QED
      BY <1>1, <1>2, <1>4, <3>3
  <2> QED
    BY <2>1, <2>2
<1>5. CASE n \in Names(f, d)
  BY <1>1, <1>2, <1>5 DEF DirectoryOK
<1> QED
  BY <1>3, <1>4, <1>5 DEF Names

LEMMA StartGiven ==
    ASSUME NEW f, Good(f), NEW path, NEW cwd, Given(f, cwd)
    PROVE  Given(f, StartAt(path, cwd)) /\ Given(f, NoInode)
  BY DEF StartAt, Given, Good, IsVfs, IsTree, RootIsRoot, Directories, Root, NoInode

LEMMA StepGiven ==
    ASSUME NEW f, Good(f), NEW cwd, Given(f, cwd), NEW follow, NEW walk, Given(f, walk.at)
    PROVE  Given(f, WalkStep(f, cwd, follow, walk).at)
<1>1. CASE follow /\ IsSymlink(f, walk.at)
  BY <1>1, StartGiven DEF WalkStep
<1>2. CASE ~(follow /\ IsSymlink(f, walk.at)) /\ walk.todo = <<>>
  BY <1>2 DEF WalkStep
<1>3. CASE /\ ~(follow /\ IsSymlink(f, walk.at)) /\ walk.todo # <<>>
           /\ IsDir(f, walk.at) /\ Head(walk.todo) \in DOMAIN f.inodes[walk.at].entries
  <2>1. WalkStep(f, cwd, follow, walk).at = f.inodes[walk.at].entries[Head(walk.todo)]
    BY <1>3 DEF WalkStep
  <2>2. walk.at \in Directories(f)
    BY <1>3 DEF IsDir, Exists, Directories
  <2> QED
    BY <1>3, <2>1, <2>2, EntryGiven
<1>4. CASE /\ ~(follow /\ IsSymlink(f, walk.at)) /\ walk.todo # <<>>
           /\ ~(IsDir(f, walk.at) /\ Head(walk.todo) \in DOMAIN f.inodes[walk.at].entries)
  BY <1>4, StartGiven DEF WalkStep, Lost
<1> QED
  BY <1>1, <1>2, <1>3, <1>4

LEMMA ResolveGiven ==
    ASSUME NEW f, Good(f), NEW path, NEW cwd, Given(f, cwd), NEW follow
    PROVE  Given(f, Resolve(f, path, cwd, follow))
<1> DEFINE walk == CHOOSE w : Walks(f, path, cwd, follow, w, MaxWalk)
           S == {n \in Nat : Given(f, walk[n].at)}
<1>1. Walks(f, path, cwd, follow, walk, MaxWalk)
  BY WalkExists, WalkAssumption
<1>2. Resolve(f, path, cwd, follow) \in {walk[MaxWalk].at, NoInode}
  BY DEF Resolve, Walks
<1> HIDE DEF walk
<1>3. 0 \in S
  <2>1. walk[0] = [at |-> StartAt(path, cwd), todo |-> Significant(path.parts)]
    BY <1>1, WalkAssumption DEF Walks
  <2> QED
    BY <2>1, StartGiven
<1>4. ASSUME NEW n \in 1 .. MaxWalk, n - 1 \in S PROVE n \in S
  <2>1. walk[n] = WalkStep(f, cwd, follow, walk[n - 1])
    BY <1>1, WalkAssumption DEF Walks
  <2> QED
    BY <1>4, <2>1, StepGiven
<1>5. MaxWalk \in S
  <2> HIDE DEF S
  <2>1. 0 .. MaxWalk \subseteq S
    BY <1>3, <1>4, WalkAssumption, SetInduction
  <2> QED
    BY <2>1, WalkAssumption
<1> QED
  BY <1>2, <1>5, StartGiven
=============================================================================
