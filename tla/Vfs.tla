--------------------------------- MODULE Vfs ---------------------------------
(***************************************************************************)
(* The virtual file system of the simulated Unix system                    *)
(* (src/game/core/vfs.py).  A file system is a record of the table of      *)
(* inodes and the next number; an operation takes one and returns one, the *)
(* same when the operation is refused.  A path is what splitting the text  *)
(* at its slashes leaves: whether it starts at the root, and its parts.    *)
(* The union `content' has one field for each of its types.  Times are     *)
(* left out; nothing reads them back.                                      *)
(***************************************************************************)
EXTENDS Permissions, Sequences

Root == 1
NoInode == 0

Absolute(parts) == [absolute |-> TRUE, parts |-> parts]
Relative(parts) == [absolute |-> FALSE, parts |-> parts]
RootPath == Absolute(<<>>)

\* The name is the last part.  What is left of a single relative name is the
\* empty text, which the code replaces by the root, whatever the current
\* directory is.
BaseName(path) == IF path.parts = <<>> THEN "" ELSE path.parts[Len(path.parts)]
ParentPath(path) ==
    IF Len(path.parts) <= 1
    THEN RootPath
    ELSE [path EXCEPT !.parts = SubSeq(@, 1, Len(@) - 1)]

Blank(type, mode, uid, gid) ==
    [type |-> type, mode |-> mode, uid |-> uid, gid |-> gid, nlink |-> 1,
     entries |-> [n \in {} |-> n], data |-> <<>>, target |-> RootPath]
DirNode(ino, parent, mode, uid, gid) ==
    [Blank("dir", mode, uid, gid) EXCEPT
        !.entries = [n \in {".", ".."} |-> IF n = "." THEN ino ELSE parent]]
FileNode(mode, uid, gid, data) == [Blank("file", mode, uid, gid) EXCEPT !.data = data]
LinkNode(uid, gid, target) == [Blank("symlink", Mode(RWX, RWX, RWX), uid, gid) EXCEPT !.target = target]

NewVfs == [inodes |-> [i \in {Root} |-> DirNode(Root, Root, Mode(RWX, RX, RX), 0, 0)], next |-> 2]

Exists(fs, ino) == ino \in DOMAIN fs.inodes
IsDir(fs, ino) == Exists(fs, ino) /\ fs.inodes[ino].type = "dir"
IsFile(fs, ino) == Exists(fs, ino) /\ fs.inodes[ino].type = "file"
IsSymlink(fs, ino) == Exists(fs, ino) /\ fs.inodes[ino].type = "symlink"

(***************************************************************************)
(* _resolve_path.  The walk keeps the inode it has reached and the parts   *)
(* that remain; a symbolic link puts the parts of its target before them.  *)
(* A target that is not absolute starts at the caller's current directory. *)
(* A ring of links never ends: Python then gives up with an exception      *)
(* before anything has changed, which here is a walk that finds nothing.   *)
(***************************************************************************)
StartAt(path, cwd) == IF path.absolute THEN Root ELSE cwd
Significant(parts) == SelectSeq(parts, LAMBDA part : part # ".")
Lost == [at |-> NoInode, todo |-> <<>>]

WalkStep(fs, cwd, follow, walk) ==
    IF follow /\ IsSymlink(fs, walk.at)
    THEN LET target == fs.inodes[walk.at].target
         IN [at |-> StartAt(target, cwd), todo |-> Significant(target.parts) \o walk.todo]
    ELSE IF walk.todo = <<>> THEN walk
    ELSE IF IsDir(fs, walk.at) /\ Head(walk.todo) \in DOMAIN fs.inodes[walk.at].entries
    THEN [at |-> fs.inodes[walk.at].entries[Head(walk.todo)], todo |-> Tail(walk.todo)]
    ELSE Lost

CONSTANT MaxWalk      \* steps after which a walk counts as endless
ASSUME WalkAssumption == MaxWalk \in Nat

Resolve(fs, path, cwd, follow) ==
    LET walk[n \in 0..MaxWalk] ==
            IF n = 0
            THEN [at |-> StartAt(path, cwd), todo |-> Significant(path.parts)]
            ELSE WalkStep(fs, cwd, follow, walk[n - 1])
        last == walk[MaxWalk]
    IN IF last.todo = <<>> /\ ~(follow /\ IsSymlink(fs, last.at)) THEN last.at ELSE NoInode

ParentOf(fs, path, cwd) == Resolve(fs, ParentPath(path), cwd, TRUE)

(***************************************************************************)
(* What adds a name: mkdir, create_file, symlink and create_device.        *)
(***************************************************************************)
\* Mutant: the lowest number that is free.
AllocateLowest(fs) ==
    CHOOSE i \in 1..fs.next : i \notin DOMAIN fs.inodes /\ \A j \in 1..(i - 1) : j \in DOMAIN fs.inodes

AllocateInode(fs) == fs.next

Named(entries, name, ino) ==
    [n \in DOMAIN entries \cup {name} |-> IF n = name THEN ino ELSE entries[n]]

Linked(fs, parent, name, ino, node) ==
    [inodes |-> [i \in DOMAIN fs.inodes \cup {ino} |->
                    IF i = ino THEN node
                    ELSE IF i = parent THEN [fs.inodes[i] EXCEPT !.entries = Named(@, name, ino)]
                    ELSE fs.inodes[i]],
     next |-> fs.next + 1]

CanAdd(fs, parent, name) == IsDir(fs, parent) /\ name \notin DOMAIN fs.inodes[parent].entries

Added(fs, parent, name, node) ==
    IF CanAdd(fs, parent, name) THEN Linked(fs, parent, name, AllocateInode(fs), node) ELSE fs

\* Mutant: the caller's directory for the parent of the new one.
MkdirUnderCwd(fs, path, mode, uid, gid, cwd) ==
    Added(fs, ParentOf(fs, path, cwd), BaseName(path), DirNode(AllocateInode(fs), cwd, mode, uid, gid))

Mkdir(fs, path, mode, uid, gid, cwd) ==
    LET parent == ParentOf(fs, path, cwd)
    IN Added(fs, parent, BaseName(path), DirNode(AllocateInode(fs), parent, mode, uid, gid))

Symlink(fs, target, path, uid, gid, cwd) ==
    Added(fs, ParentOf(fs, path, cwd), BaseName(path), LinkNode(uid, gid, target))

CreateDevice(fs, path, uid, gid, cwd) ==
    Added(fs, ParentOf(fs, path, cwd), BaseName(path), Blank("device", Mode(RW, RW, RW), uid, gid))

\* A file of that name is truncated, for whoever asks; anything else of that
\* name is refused.
Truncates(fs, parent, name) ==
    /\ IsDir(fs, parent) /\ name \in DOMAIN fs.inodes[parent].entries
    /\ IsFile(fs, fs.inodes[parent].entries[name])

Stored(fs, ino, data) == [fs EXCEPT !.inodes[ino].data = data]

FileAt(fs, parent, name, node) ==
    IF Truncates(fs, parent, name)
    THEN Stored(fs, fs.inodes[parent].entries[name], node.data)
    ELSE Added(fs, parent, name, node)

CreateFile(fs, path, mode, uid, gid, data, cwd) ==
    FileAt(fs, ParentOf(fs, path, cwd), BaseName(path), FileNode(mode, uid, gid, data))

\* The number create_file returns.
CreatedIno(fs, path, cwd) ==
    LET parent == ParentOf(fs, path, cwd)
        name == BaseName(path)
    IN IF Truncates(fs, parent, name) THEN fs.inodes[parent].entries[name]
       ELSE IF CanAdd(fs, parent, name) THEN AllocateInode(fs) ELSE NoInode

(***************************************************************************)
(* What changes an inode that exists, and what removes a name.             *)
(***************************************************************************)
ReadFile(fs, path, cwd) ==
    LET ino == Resolve(fs, path, cwd, TRUE) IN IF IsFile(fs, ino) THEN fs.inodes[ino].data ELSE <<>>

WriteFile(fs, path, data, cwd) ==
    LET ino == Resolve(fs, path, cwd, TRUE) IN IF IsFile(fs, ino) THEN Stored(fs, ino, data) ELSE fs

Removable(fs, parent, name) ==
    /\ name \notin {".", ".."}
    /\ IsDir(fs, parent) /\ name \in DOMAIN fs.inodes[parent].entries
    /\ LET target == fs.inodes[parent].entries[name]
       IN /\ Exists(fs, target)
          /\ IsDir(fs, target) => DOMAIN fs.inodes[target].entries = {".", ".."}

Unnamed(entries, name) == [n \in DOMAIN entries \ {name} |-> entries[n]]

Dropped(fs, parent, name, target) ==
    LET left == fs.inodes[target].nlink - 1
        kept == IF left = 0 THEN DOMAIN fs.inodes \ {target} ELSE DOMAIN fs.inodes
    IN [fs EXCEPT !.inodes = [i \in kept |->
            IF i = target THEN [fs.inodes[i] EXCEPT !.nlink = left]
            ELSE IF i = parent THEN [fs.inodes[i] EXCEPT !.entries = Unnamed(@, name)]
            ELSE fs.inodes[i]]]

UnlinkAt(fs, parent, name) ==
    IF Removable(fs, parent, name)
    THEN Dropped(fs, parent, name, fs.inodes[parent].entries[name])
    ELSE fs

Unlink(fs, path, cwd) == UnlinkAt(fs, ParentOf(fs, path, cwd), BaseName(path))

-----------------------------------------------------------------------------
(***************************************************************************)
(* A file system that is a tree.  Each inode but the root has exactly one  *)
(* name, in a directory that exists, and that directory is its `..'; a     *)
(* directory is older than what is in it, so there is no ring; nothing has *)
(* a number to come.                                                       *)
(***************************************************************************)
Names(fs, d) == DOMAIN fs.inodes[d].entries \ {".", ".."}
Directories(fs) == {d \in DOMAIN fs.inodes : fs.inodes[d].type = "dir"}
Holders(fs, i) == {d \in Directories(fs) : \E n \in Names(fs, d) : fs.inodes[d].entries[n] = i}

RootIsRoot(fs) ==
    /\ Root \in Directories(fs)
    /\ fs.inodes[Root].entries[".."] = Root
    /\ Holders(fs, Root) = {}

DirectoryOK(fs, d) ==
    /\ {".", ".."} \subseteq DOMAIN fs.inodes[d].entries
    /\ fs.inodes[d].entries["."] = d
    /\ \A n \in Names(fs, d) :
          LET i == fs.inodes[d].entries[n]
          IN /\ i \in DOMAIN fs.inodes /\ d < i
             /\ fs.inodes[i].type = "dir" => fs.inodes[i].entries[".."] = d
             /\ \A m \in Names(fs, d) : fs.inodes[d].entries[m] = i => m = n

IsTree(fs) ==
    /\ RootIsRoot(fs)
    /\ \A d \in Directories(fs) : DirectoryOK(fs, d)
    /\ \A i \in DOMAIN fs.inodes :
          /\ i < fs.next
          /\ fs.inodes[i].nlink = 1
          /\ i # Root => \E d \in Directories(fs) : Holders(fs, i) = {d}

\* The fields of a file system and of its inodes.
NodeFields == {"type", "mode", "uid", "gid", "nlink", "entries", "data", "target"}
IsVfs(fs) ==
    /\ DOMAIN fs = {"inodes", "next"}
    /\ fs.next \in Nat
    /\ \A i \in DOMAIN fs.inodes : i \in Nat /\ DOMAIN fs.inodes[i] = NodeFields
=============================================================================
