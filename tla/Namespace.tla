----------------------------- MODULE Namespace -----------------------------
(***************************************************************************)
(* What a user of a file system relies on: a tree of names that changes by  *)
(* one name at a time.  A name is added for a new object, or for a file     *)
(* that already has one (a hard link), or it is taken away from something   *)
(* that is not a directory.  A name is given once in a directory, unless it *)
(* is one that longer names are shortened to: those may be there twice.     *)
(***************************************************************************)
CONSTANTS Names, Root, Shortened

VARIABLES
    tree,   \* the names: a set of [dir, name, ino, at]; at tells apart two
            \* entries of the same name
    dirs    \* the directories among the objects

Objects == {t.ino : t \in tree} \cup {Root}
MayBeGiven(p, n) == n \in Shortened \/ \A t \in tree : t.dir # p \/ t.name # n

Init == tree = {} /\ dirs = {Root}

New(t) ==
    /\ t.dir \in dirs /\ t.name \in Names
    /\ MayBeGiven(t.dir, t.name)
    /\ t.ino \notin Objects
    /\ tree' = tree \cup {t}
    /\ dirs' \in {dirs, dirs \cup {t.ino}}

Link(t) ==
    /\ t.dir \in dirs /\ t.name \in Names
    /\ MayBeGiven(t.dir, t.name)
    /\ t.ino \in Objects \ dirs
    /\ tree' = tree \cup {t}
    /\ UNCHANGED dirs

Remove(t) ==
    /\ t.ino \notin dirs
    /\ tree' = tree \ {t}
    /\ UNCHANGED dirs

Next ==
    \/ \E t \in tree' \ tree : New(t) \/ Link(t)
    \/ \E t \in tree : Remove(t)

Spec == Init /\ [][Next]_<<tree, dirs>>
=============================================================================
