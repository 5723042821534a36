----------------------------- MODULE Permissions -----------------------------
(***************************************************************************)
(* Users, groups and the permission bits of the simulated Unix system      *)
(* (src/game/core/permissions.py).  The permission system is a record of   *)
(* two tables; user names and group names are the keys of the name maps of *)
(* the code, which hold nothing more.                                      *)
(***************************************************************************)
EXTENDS Naturals

Superuser == 0
NoPassword == "None"

\* The members of Group.members are read by nobody and left out.
Fresh == [users |-> [u \in {} |-> u], groups |-> [g \in {} |-> g]]

With(table, key, value) ==
    [k \in DOMAIN table \cup {key} |-> IF k = key THEN value ELSE table[k]]

AddUser(perms, uid, username, gid, home, password) ==
    IF uid \in DOMAIN perms.users \/ \E u \in DOMAIN perms.users : perms.users[u].username = username
    THEN perms
    ELSE [perms EXCEPT !.users = With(@, uid,
            [username |-> username, gid |-> gid, groups |-> {}, home |-> home, password |-> password])]

AddGroup(perms, gid, name) ==
    IF gid \in DOMAIN perms.groups \/ \E g \in DOMAIN perms.groups : perms.groups[g] = name
    THEN perms
    ELSE [perms EXCEPT !.groups = With(@, gid, name)]

AddUserToGroup(perms, uid, gid) ==
    IF uid \in DOMAIN perms.users /\ gid \in DOMAIN perms.groups
    THEN [perms EXCEPT !.users[uid].groups = @ \cup {gid}]
    ELSE perms

\* The constructor: root, its group and the standard groups.
StandardPermissions(rootHome) ==
    LET root == AddGroup(AddUser(Fresh, 0, "root", 0, rootHome, "root"), 0, "root")
        service == AddGroup(AddGroup(AddGroup(AddGroup(root, 1, "daemon"), 2, "bin"), 3, "sys"), 4, "adm")
    IN AddGroup(AddGroup(service, 10, "wheel"), 100, "users")

CheckPassword(perms, uid, password) ==
    /\ uid \in DOMAIN perms.users
    /\ perms.users[uid].password # NoPassword
    /\ perms.users[uid].password = password

(***************************************************************************)
(* A mode is the three sets of permission bits and the two set-id bits.    *)
(***************************************************************************)
RWX == {"r", "w", "x"}
RX == {"r", "x"}
RW == {"r", "w"}
R == {"r"}
Mode(owner, group, other) ==
    [owner |-> owner, group |-> group, other |-> other, suid |-> FALSE, sgid |-> FALSE]
Suid(mode) == [mode EXCEPT !.suid = TRUE]

\* The class is the first that fits, so an owner may have less than the group.
BitsFor(perms, uid, node) ==
    LET user == perms.users[uid]
    IN IF uid = node.uid THEN node.mode.owner
       ELSE IF node.gid = user.gid \/ node.gid \in user.groups THEN node.mode.group
       ELSE node.mode.other

HasPermission(perms, uid, node, bit) ==
    \/ uid = Superuser
    \/ uid \in DOMAIN perms.users /\ bit \in BitsFor(perms, uid, node)

CanExecute(perms, uid, node) == HasPermission(perms, uid, node, "x")
CanRead(perms, uid, node) == HasPermission(perms, uid, node, "r")
CanWrite(perms, uid, node) == HasPermission(perms, uid, node, "w")
=============================================================================
