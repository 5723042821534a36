----------------------------- MODULE MCGameShell -----------------------------
(* A small system: root and one user, a program of root with the set-uid bit,
   a home directory, a link to it and a device. The pipelines go home and run
   the program into a file, or run that file. *)
EXTENDS GameShell, TLC

Terminals == Permutations(Sessions)
Alice == 7
MCPerms ==
    AddUserToGroup(AddUser(StandardPermissions(RootPath), Alice, "alice", 100,
                           Absolute(<<"home">>), "secret"), Alice, 10)

Script == <<Shebang>>
MCBootFs ==
    LET bin == Mkdir(NewVfs, Absolute(<<"bin">>), Mode(RWX, RX, RX), 0, 0, Root)
        su == CreateFile(bin, Absolute(<<"bin", "su">>), Suid(Mode(RWX, RX, RX)), 0, 0, Script, Root)
        home == Mkdir(su, Absolute(<<"home">>), Mode(RWX, RX, RX), Alice, 100, Root)
        null == CreateDevice(home, Absolute(<<"null">>), 0, 0, Root)
    IN Symlink(null, Absolute(<<"home">>), Absolute(<<"h">>), 0, 0, Root)

Text(name) == Word(Relative(<<name>>))
Home == Word(Absolute(<<"h">>))
MCLines ==
    {<<Text("cd"), Home, Sign("|"), Text("su"), Sign(">"), Text("a")>>,
     <<Word(Absolute(<<"h", "a">>)), Sign("2>"), Text("a"), Sign("|"), Text("su"), Sign("<"), Text("a")>>,
     <<Text("su"), Sign(">")>>}

MCPaths == {Relative(<<"a">>), Absolute(<<"h", "a">>)}
MCTexts == {Script}
MCModes == {Suid(Mode(RWX, {"x"}, {"x"}))}
=============================================================================
