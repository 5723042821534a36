# BrainhairOS in TLA+

This directory is a verification project for the BrainhairOS repository. It
covers four parts of it: the 32-bit kernel (`kernel/*.asm`, `kernel/kernel_main.bh`),
the Brainhair compiler (`compiler/`: lexer, parser and the x86 code generator),
and the simulated Unix system and packet network of the game (`game/core/`). It
holds TLA+ modules, the TLC configurations that check them, and proofs for
TLAPS.

    tlc -workers 2 -config ProcessTable.cfg MCProcessTable.tla
    tlapm ProcessTable_proofs.tla

## 1. Inventory

| Component | State it keeps | Operations | Interacts with | What makes it correct |
|---|---|---|---|---|
| Process table and scheduler (`kernel/process.asm`, `kill` of `signal.asm`) | 16 PCBs: state, parent, `PCB_WAIT_PID`, saved context; `current_pid`, `ready_count` | spawn, fork, yield, exit, wait/waitpid, kill | everything that blocks | one process RUNNING and it has the CPU; no lost wakeup; exit is final and collected once; round robin |
| Message passing (`kernel/ipc.asm`) | `PCB_WAITING`, one message slot per process | send, recv, call, reply | process table (blocks and wakes) | a message sent is received, by its receiver, once; a call is answered by its partner |
| Kernel threads (`kernel/process.asm` 1074-1575) | thread fields of the PCB, `next_pid` | create, exit, yield, join, detach | the same slots and scheduler | a context stays with its thread; join waits for the named thread |
| Signals (`kernel/signal.asm`) | pending and blocked words, handlers | kill, signal, sigprocmask, check_signals | process table; terminal | a signal is delivered once, not while blocked |
| Pipes and descriptors (`kernel/pipe.asm`) | 16 descriptors per process, 8 pipes of 1024 bytes | pipe, read, write, dup, dup2, close | fork, exit | bytes come out in order, once; descriptors belong to one process |
| Terminal, keyboard (`tty.asm`, `keyboard.asm`) | ring buffers filled by interrupts | read, line editing, ^C | signals | no byte lost or seen twice below the limit |
| Block devices, partitions (`kernel_main.bh` 872-1515) | device and partition tables | register, read, write, scan | file systems | a partition never reaches outside itself |
| BrainFS (`kernel_main.bh` 1532-2870) | bitmaps, inodes, directories, journal | mkfs, mount, create, mkdir, link, unlink, read, write, recover | block device | bitmaps and inodes agree, also after a crash |
| tmpfs, FAT32, in-memory fs (3288-3980, 5170-5820) | inode and block tables | create, lookup, read, write, unlink | shell | the same, without crashes |
| Unix sockets (4839-5097) | 8 sockets with one buffer | listen, connect, accept, send, recv, close | kernel threads | bytes of one peer reach the other |
| TCP (13530-14088) | connection table, sequence numbers | connect, listen, send, receive, close | network driver | the receiver gets a prefix of what was sent |
| ARP, DHCP, drivers (9923-11868) | descriptor rings, cache, lease | poll, send, handlers | TCP | ring indices never overrun |
| Library `lib/sync.bh`, `pthread.bh`, `threadpool.bh` | locks, queues in memory | lock, wait, signal, submit | threads | mutual exclusion, no lost wakeup |
| Library containers (`vec`, `arena`, `gc`, `dict`) | buffers | push, alloc, collect | programs | agree with a reference definition |
| Compiler, front end (`compiler/lexer.py`, `parser.py`, `ast_nodes.py`) | position, line, column, tokens; the parser's index | tokenize, parse | code generator | tokens tile the text where they say; operators group by level; blocks nest as indented; it ends |
| Compiler, code generator (`compiler/codegen_x86.py`) | output, frame offsets, tables of types, loop labels | generate, gen_expression, gen_statement, the run-time routines it emits | front end, `lib/memory.bh`, `lib/list.bh` | the program does what the text means; frames and stack are balanced |
| Compiler checks (`type_checker.py`, `ownership.py`, `lifetimes.py`), `codegen_x86_64.py` | tables of names | passes over a finished tree | front end | report errors; they leave the code as it is |
| Game: packet network (`game/core/packet_queue.py`, `network.py`, `network_adapter.py`, `scenarios.py`) | links, hosts, firewall rules, inbound queues, capture buffers | send, receive, capture, boot and shutdown, append a rule | game kernel (`/dev/net/packet`) | routes exist and cross live routers; a packet arrives as it was sent; a ping is answered |
| Game: file system (`vfs.py`, `permissions.py`) | inodes, next inode number | resolve, create, write, mkdir, link, unlink, chmod, chown | game kernel, shell | the inodes form a tree; a number is used once |
| Game: processes and calls (`process.py`, `kernel.py`) | processes, descriptors | spawn, kill, cleanup; open, read, write, close, mkdir, unlink, chdir, fork, exit | file system, shell | numbers held of files and parents stay true; nobody acts with ids not his |
| Game: shell and scripts (`shell.py`, `pooscript.py`, `system.py`) | per terminal a process and a stack of pipelines | login, execute, redirect, run a script | all of the above | privileges end with the script that has them |
| Game: commands, worlds, web server, daemon | text, world data | - | shell | presentation, not modelled |
| Crypto/TLS/HTTP libraries, userland programs, VTNext | - | - | - | not modelled (see `PROJECT.json`) |

The hard behaviour of the kernel is in its hand-offs: a call marks its own process
BLOCKED or ZOMBIE, asks `schedule` for a successor and calls `context_switch`,
and other processes run between the two halves of the call. All of this is
cooperative. `isr_syscall` starts with `cli` (`isr.asm` 381) and `timer_tick`
only counts (`process.asm` 976-985), so nothing else runs between two context
switches; within that limit every order of calls is possible. Kill, message
passing and threads use the same PCB states from other files.

The compiler is sequential; what is hard in it is state carried by hand over
long distances: the lexer goes back after looking ahead and must restore three
counters, the parser finds blocks by comparing columns, the generator keeps a
loop's labels, a frame's offsets and the depth of the stack in attributes while
it descends, and a register holds a left operand while the right one runs.

The game is one Python process in which several terminals work on one system.
`web_server.py` 55-109 gives each terminal a shell process of its own on a
shared `UnixSystem`, and `daemon.py` runs a thread beside them; a call of the
simulated kernel runs to its end, so sessions interleave between calls. The
permissions live in the shell's own process: a set-uid script raises the ids
of that process and must put them back on every way out. Two ways out do not
(section 4).

## 2. Modules

| Module | Models | Extends |
|---|---|---|
| `Scheduler` | the slot search, `schedule`, `context_switch` as operators on a table | - |
| `ProcessTable` | spawn, fork, yield, exit, waitpid, kill's wakeup | `Scheduler` |
| `Lifecycle` | the abstract contract of a process table | - |
| `Lineage` | `ProcessTable` with a history variable for reused slots | `ProcessTable` |
| `Ipc` | send, recv, call, reply on top of `ProcessTable` | `ProcessTable` |
| `Threads` | the kernel threads | `Scheduler` |
| `ProcessTable_proofs` | theorems about `ProcessTable`, and that it implements `Lifecycle` | |
| `BrfsDisk` | the disk layout of BrainFS, allocation, directories and journal as operators | - |
| `BrainFS` | the calls of BrainFS, writing block by block, with crashes and remounts | `BrfsDisk` |
| `Namespace` | the abstract contract of the names in a file system | - |
| `Ipc_proofs`, `Threads_proofs` | theorems about `Ipc` and `Threads` | |
| `Packets`, `VirtualNetwork` | wire formats; hosts, links and the route search, as operators | - |
| `PacketQueue` | send_packet with firewalls, queues, captures and pings; hosts that go down | both |
| `PacketQueue_proofs` | theorems about `PacketQueue` and the route search | |
| `Scenarios` | the networks the game is played on | - |
| `Ast`, `Lexer`, `Parser` | tree nodes, the lexer as a step function, the parser as operators | in this order |
| `Lexing` | a text going through the lexer, and what positions mean | `Lexer` |
| `Lexing_proofs` | theorems about `Lexing` | |
| `Frontend` | a text going through lexer and parser | `Parser`, `Lexing` |
| `X86Layout`, `X86Runtime`, `X86Gen`, `X86Program` | what the generator knows of types, the routines it carries, the code of expressions and statements, of a whole program | in this order |
| `Meaning` | what a program means, on its tree, from `docs/LANGUAGE.md` | `X86Layout` |
| `X86Machine` | compile a text and execute it instruction by instruction | `Parser`, `X86Program`, `Meaning` |
| `Permissions`, `Vfs` | users and mode bits; inodes, path resolution and the operations on them | in this order |
| `GameKernel` | processes, descriptors and calls of the simulated system | `Vfs` |
| `ShellLine` | what the shell makes of a command line | - |
| `GameShell` | terminals, pipelines, scripts and their interfaces | `GameKernel`, `ShellLine` |
| `Vfs_proofs`, `GameShell_proofs` | theorems about `Vfs` and `GameShell` | |
| `BrainFS_proofs` | theorems about `BrainFS` | |
| `MC...` | values of constants for TLC | the module named |

### ProcessTable

Variables are the PCB fields of the same name: `state`, `parent`, `waitPid`
(`PCB_WAIT_PID`), and the globals `current`, `readyCount`. A slot number is the
pid: `create_process` and `fork` store the slot index in `PCB_PID`.

`resume` is what the model keeps of the saved registers. A process that is
switched out inside `waitpid(t)` comes back at `.check_children` with `t` still
in EBX, so `resume` is then `t`; in every other place that calls
`context_switch` the call is over when the process comes back, so `resume` is
`InUser`; `exit_process` comes back, if it does, in front of `cli; hlt`, so
`resume` is `InHalt`, from which no action is enabled. That a process may be
handed the CPU by itself is part of `schedule`: with nobody READY it returns
`current_pid`, and `context_switch` from a process to itself makes a BLOCKED or
ZOMBIE caller RUNNING again. `Selects` and `Switched` say exactly that.

One action is one stretch between two context switches. `Waitpid` is both the
call and its continuation: the code is the same loop.

`ready_count` is an int32 that nothing reads. It can decrease without end (see
the findings), so the model holds it at `ReadyMin` and `ReadyMax`, and
`ReadyCountFollows` speaks only of steps that stay strictly between them.

Some definitions are preceded by a "faulty variant". They are not part of the
model: each is the definition as a plausible slip would have written it, and
checking the module with it in place shows that the property named in
`PROJECT.json` notices.

### Lifecycle

A process is created by a living one in a free slot, has the CPU only while it
lives, exits once, and is collected once by the process recorded as its maker.
`ProcessTable` maps `alive` to the slots READY, RUNNING or BLOCKED whose context
is not the halt loop, and `exited` to the other slots in use. The case in
which `exit_process` halts the machine is the reason for the second clause:
the slot is marked RUNNING then, but the process is gone.

### Ipc

Adds `waiting` (`PCB_WAITING`) and `msgSlot` (`msg_buffers`: receiver and
sender). `unread` is a history variable: whose messages have been sent and not
yet been copied. The message bytes and the pid that recv returns are not
modelled. `reply` is `send` (a jump). `IpcNext` contains every action of
`ProcessTable`; `fork` copies `waiting` with the PCB, `spawn` leaves the old
value in the slot. A send that fails changes nothing and is no step.

### Threads

Here the pid of a thread and its slot differ (`next_pid` against the slot
search), and what the CPU executes may differ from what `current_pid` says
(`thread_join` moves `current_pid` and switches no context). The model therefore
keeps `running`, the program being executed, and `saved`, the program whose
registers a PCB holds. `joinedLive` is a history variable that becomes true
when a thread is joined that has not exited. The threads are those of the kernel process; user
processes do not appear.

### BrfsDisk, BrainFS

`disk` is the device: the two bitmaps (sets of bit numbers), the inode table, the
contents of the data blocks (for a file: whose data it is), and the counts in
the superblock. `mem` is the entry of the mount table with the journal's
sequence number, head and tail. A call computes from both the sequence of
disks its `brfs_bwrite`s leave behind, `todo`, and `WriteBlock` makes them real
one at a time; nothing else runs meanwhile, because the kernel has one caller
of the file system at a time. `Crash` drops what is still to be written,
together with `mem`. So the invariants are checked of every disk that a crash
can leave. A block (two sectors) is taken to be written whole.

The layout is the one `brfs_mkfs` writes, with 64 inodes, so that what the
journal writes over the bitmaps has the bits it has on a real device. Scaled
down is only the number of entries in a directory block. `intact` is a history
variable that becomes false when a journal write changes anything in use.

### Namespace

A tree of names that changes by one name at a time. `BrainFS` maps it to the
names reachable from the root, and every block write is a step of it or
none. A name is given once in a directory, except those that longer ones are
cut to (`Shortened`): `brfs_add_direntry` stores 24 bytes of a name, and
`brfs_lookup` and `brfs_unlink` compare all of it.

### PacketQueue

A packet is a sequence of bytes, built and parsed as `packet_queue.py` does it,
so that an offset or a swapped field shows. One `send_packet` is one action: the
route search, the hops with their TTL, the firewall of the destination, the
queue, and the answer to a ping, which the destination sends before the call
returns. Between two calls hosts go down and boot, and rules are appended. The
iteration order of Python's sets is a constant order of the addresses, chosen at
the start. Capture buffers are shortened to 2.

The search is a recursive function over its turns (`Search`), a turn one over
the addresses in that order (`Visit`). An address that is reached queues at most
the interfaces of its host, which bounds the turns (`QueuedFrom`). `IsTopology` is what `register_system` and `add_route` make
of a scenario.

### Lexing and Frontend

`LexStep` is one turn of `tokenize`'s loop and an action (`ReadToken` of `Lexing`);
the parser is one action (`BuildTree` of `Frontend`), which leaves the lexer as it is.
The loops inside a turn are functions of the number of calls of `advance` or of
iterations; the one over turns, `Tokenize`, is with the parser, which calls the
lexer as a whole.
Texts are strings of real characters, since every property is about where
characters are. The parser is translated production by production; loops that
do not end in the code end in the model with the error "hang". What comes out is
compared with definitions made independently: the line and column of an offset,
a precedence table, the nesting of lines by indentation.

### X86Machine

The generator is translated with its attributes as a record; the emitted
instructions are tuples. A processor with byte-addressed memory executes them,
one instruction per step. External are the processor, the two system calls
(exit and write), and the allocator and list routines of `lib/`, each one step.
`Meaning` evaluates the tree without a machine; `ComputesMeaning` compares the
text printed and the number returned. A program whose numbers leave
32 bits, or that reads outside its memory, gets stuck, and deadlock is checked.

### Vfs, GameKernel, GameShell

`fs` is the inode table and the next inode number; a path is a flag and a
sequence of names, and `Resolve` is the walk of `_resolve_path` with its
symbolic links, cut off after `MaxWalk` steps (a loop of links raises in Python
and finds nothing here). `procs` keeps of a process its ids, parent, state,
directory and exit code; `fds` its descriptors. One action is one call.

A session's `stack` has a level for each pipeline being executed: the commands
to come and the script that runs, with the ids it took over and the ids it must
give back. A script's computation is free: while one runs, any call of its three
interfaces may come, or its end. A pipeline that is typed, a builtin `cd`, a
binary that is no script, and a refused command are actions of their own.

A script ends in three ways. `EndScript` is every end that `execute_pooscript`
catches: the ids come back and the output is redirected. `EscapeScript` is the
exception raised when the output is encoded (`pooscript.py` 952, outside the
`try` of 925): it passes the lines that restore the ids (`shell.py` 412) and
comes to the script around, or through `Shell.execute` (470) to the prompt.
`Interrupt` is the player's Ctrl-C, which no `except Exception` stops; the loops
of `interactive_test.py` (215) and `play.py` (197) do. The history variable
`escaped` has the depths such exceptions have come to and whose scripts have
not ended since; depth 0 is the prompt, and stays until the next login.

## 3. Runs

All runs use 2 workers and end in less than three minutes. Nine pass.

| Run | Bounds | Shows |
|---|---|---|
| `process_table` | 4 slots, all waitpid arguments, kill of 1 | `RunningIsCurrent`, `NoLostWakeup`, `WaitPidIsCurrent`, `HaltOnlyWhenIdle`, `ExitIsFinal`, `BoundedBypass`, `ReadyCountFollows` (1.4 million states) |
| `process_table_live` | 3 slots, all waitpid arguments, kill of 1 and 2 | every READY process runs, every answered waitpid returns; `ProcessTable` implements `Lifecycle` |
| `ipc` | 3 slots, waitpid for 2, kill of 1, recv from any sender or 1 | only `current_pid` is RUNNING; a delivered message is not overwritten by just anybody; only the awaited partner wakes a receiver (2.7 million states) |
| `threads` | 4 slots, 4 threads, joined in any state | only `current_pid` is RUNNING; until a live thread is joined: contexts stay with their threads, exited threads never run, READY threads run |
| `brainfs` | 16 blocks (the smallest device `brfs_mkfs` takes), 3 names (one of them longer than 24 bytes and cut to another), 2 entries per directory block, 3 calls from a fresh disk or 2 from one with one free block | names lead to allocated, written inodes with their own contents; link counts; every failing call gives back what it took; names change one at a time, all of it for every crash (147 041 states) |
| `packet_net` | 4 topologies (three scenarios, one with its router not forwarding), two iteration orders, 5 sending hosts (one of them the multi-homed firewall, which writes from each of its addresses), 6 kinds of packet, one an odd request of ICMP, 3 rules besides the scenarios' own, any host down, 2 events | routes exist and cross live routers; a packet arrives once, with its TTL and past every rule but DENY rules, or nothing arrives; a ping is answered before the call returns, with a checksum that verifies (108 942 states) |
| `frontend` | all short texts over awkward characters, all expressions of three operands with signs or parentheses, texts that leave something open, all layouts of up to five lines in three columns | positions are true, tokens tile the text, operators group as the table says, blocks nest as indented, both phases end (46 837 states) |
| `codegen` | some 800 programs: every pair of operators, ways out of nested loops, calls, texts, lists, objects, enums, arrays, defer | the exit code and the output are what the program means; return addresses and frames survive; the stack is equally deep whichever way a label is reached (70 516 states) |
| `game_os` | 2 terminals, a set-uid script, 8 inodes, 3 pids, 1 descriptor each, files of 2 units, pipelines nested twice, 4 commands and calls | the inodes are a tree; no number of a removed file comes back; the effective user is the innermost script's, but for what an exception has left (178 961 states) |

The bounds. Four slots hold the kernel, a parent, and two children, which is the
smallest table with every relation that waitpid and exit look at: a sibling, a
grandchild, a stranger, and a slot that is reused while its old children live.
The scan order of `schedule` wraps in it with two processes on either side.
Three slots are enough for the relations between a sender, a receiver and a
third party; with every argument of waitpid, kill and recv at once the state
space is beyond 12 million states, so `ipc` names one target for waitpid and for
kill (`process_table` already takes every waitpid argument) and two for recv. Four threads in four
slots, three of them free, force `next_pid` to run ahead of the slot numbers. In `brainfs`, two entries per directory block make
directories grow with the second name; from the nearly full disk each of
create, mkdir, symlink, link and write meets a full disk at the point where it
has already taken something. The nearly full disk counts as the first call; its
directory has the long name and its files the short name and the third.
`SearchesEndInside` is a bound that no small device meets: a bitmap is one block
of 8192 bits, and `brfs_balloc` searches up to the last block of the device. On a device of more
blocks (the 10 MB images of the Makefile, 276, have 10 240) the model
allocates only while the bitmaps have bits left.
In `packet_net` the scenarios contain routers with two and with three
interfaces, a network with two routers, and hosts that only some can reach; two
events are a change and a
send, so every send meets every single failure and every rule. In `frontend`
and `codegen` a behaviour is one text: the bounds are the sets of texts, chosen
so that every pair of operators, every way to leave a loop from a nested
condition, and each kind of value (integers, characters, texts, arrays, lists,
objects, variants) occurs. In `game_os` two pipelines deep is the
first nesting in which an outer script's ids must come back, three pids are
init, two shells or a shell and its child. The theorems of section 5 remove the
bounds for the process table, messages, threads, the packet network, the game, the lexer
and, as far as what a crash leaves is concerned, BrainFS.

CHECK_DEADLOCK is on only for `codegen` and `for_range`, where a program that
gets stuck is an error. Elsewhere the system may stop: `exit_process` halts the
CPU, process 0 in `waitpid` with no children loops without a change of state, a
text has been parsed, the bounded calls are used up.

Fairness. `FairSpec` of `ProcessTable` and `Threads` asks only for WF of the whole next-state relation:
something goes on happening as long as something can. Nothing is assumed about
any single process, because the CPU is only given up voluntarily; that READY
processes run follows from the round-robin scan alone. It does assume that the
program that has the CPU goes on making calls, as the cooperative design
requires ("Use cooperative scheduling via yield() instead", `process.asm` 982).

## 4. Disagreements between the code and its comments

Three are runs that check what a comment or a document says and find it violated.

| Run | The code |
|---|---|
| `orphan_adopted` | a reused slot inherits the children of its former owner, and waitpid collects them (`process.asm` 855-858) |
| `for_range` | a `for` over a range keeps its variable on the other side of the frame from where the body reads it, and runs once more than `docs/LANGUAGE.md` 176 says (`codegen_x86.py` 2991-3010) |
| `root_overwritten` | the journal's first record goes over the block bitmap; the root directory's block is allocated again (`kernel_main.bh` 1557, 1914) |

The last needs no rare order: the first boot makes `/etc`, creates
`/etc/inittab` (a transaction, which clears the first 128 bits of the block
bitmap but for those that the record happens to set) and writes to it, and the
block it gets is the root directory's. Apart from that a mount finds no journal
magic in block 1 as soon as one inode was allocated, and initialises the block,
that is, the inode bitmap.

Others were met on the way; the models contain them and no run is spent on them.

Kernel. A recv that blocked never copies the message (`ipc.asm` 220-236); a
process killed out of a recv and then exited is made READY by a later send
(`ipc.asm` 123, `process.asm` 808); `thread_join` frees the slot of a live
thread and runs on under another slot (`process.asm` 1423, 1485); `waitpid` decrements `ready_count` on each turn of its loop, so the counter
drifts when the CPU comes straight back (`ReadyCountFollows` names that step);
process 0 is its own parent, so its `wait()` without children blocks instead of
failing; a child's exit wakes a parent that is blocked in recv, by the
`PCB_WAIT_PID` of an earlier wait; a recv that finds a message returns the
sender in the slot of process 0, ECX being 0 after `rep movsd`; recv from
process 0 stores `WAIT_NONE`, so that nobody can ever answer it; `thread_join`
and `thread_detach` take a pid for a slot number; `brfs_unlink` leaves the
block of an inode's extended attributes allocated; a name of more than 24 bytes
is cut when it is stored (`kernel_main.bh` 2357) and compared whole when it is
looked up (2284) or unlinked (2712), so that it can be created and linked any
number of times, is never found under the name it was given, and a directory
then has the same 24 bytes twice (`Namespace` allows exactly that); on a device of more than
8192 blocks `brfs_balloc` goes on past the bitmap's block (2215) into what lies
behind `brfs_block_buf` (1797), and likewise `brfs_ialloc` for inode 8192,
although a comment says what a block can track (1834-1835); `dwrite` on the name of a
directory writes over its entries (in the model, writes go to files).

Compiler, front end. A text that ends inside a string raises IndexError, not
"Unterminated string" (`lexer.py` 777; the raise at 915 is never reached), `0x`
alone ValueError; the look-ahead for character literals does not restore `line`;
the parser loops for ever on a `lambda` without its colon (`parser.py` 672) and
on an unclosed call with a generator argument; no separator is needed between
two statements; `-a ** b` groups as `(-a) ** b`; a chained comparison and a
compound assignment duplicate their operand; the step of a range and the names
of keyword arguments are dropped; the parser's own example (2515-2517) is
rejected; `for ... else` is not parsed, floats are not lexed.

Compiler, generator. Default arguments are filled in for methods and not for
plain procedures (`codegen_x86.py` 1212-1223, 1633-1649); a user's procedure
with the name of a builtin is never called (1188-1209); a `for` over a text
generates nothing; a field of a local object is written into the frame and read
through the heap pointer (2815-2824, 2230-2250); division clears EDX before
`idiv`, so negative dividends give other quotients; `>>` is logical; `//`,
`**`, `~`, `in` emit nothing; `a, b = b, a` is no swap; negative initial values
of globals are lost; a `break` after the last loop jumps to `None`; `continue`
in a for-each skips the increment; a match without a default falls through;
f-strings interpolate names only; `isspace` compares with the wrong byte; `with`
closes nothing and `except` never runs; a backslash in a text is stored twice
(3591-3592); the binding of a match arm, named again after it where no variable
has its name, stops the compiler (`Gone`). `codegen` runs programs that use none
of these.

Game. A path of one relative name has `/` as its parent (`vfs.py` 510);
`create_file` truncates without asking for a permission (566); mkdir, unlink,
chmod, chown and kill ask for none; O_RDWR opens for reading; devices hold
their handlers in a tuple, so reads find none (`kernel.py` 196, 243); the exit
code is replaced by 0 (416); `sys_wait` never waits; a zombie can be stopped and
continued (`process.py` 135); `cleanup_dead` ("Remove dead processes (reaping
zombies)", 182) removes nobody, because by then each dead parent is a zombie or gone; descriptors of
dead processes stay open; a script's `vfs` keeps the directory it started in
after `process.chdir`; `>>` to a missing file writes nothing; a file that open
creates stays when its mode then refuses the caller. "Restore original effective
UID/GID after execution" (`shell.py` 411) is not reached when a script has
printed a character that UTF-8 cannot encode (`pooscript.py` 952) or is
interrupted: the ids of its owner stay in the shell's process, until the script
around ends, or at the prompt until the next login. `EffectiveIsInnermost` names
this case (`escaped[s] = {}`); without it `game_os` finds a user at the prompt
with the effective user of a program. The route search leaves
router interfaces out although the comment says it adds them (`network.py` 146);
a /24 is compared as text (`packet_queue.py` 306), and the rule of a connect
keeps all four octets (`network.py` 170). The scenarios file DENY rules ("Block
SSH from outside", `scenarios.py` 296; 611, 612), which only a connect obeys
(`network.py` 176): the firewall of the packets knows DROP, REJECT and ACCEPT
(320-323) and lets a packet to such a port through. `Refused` reads the rules as
they are meant, and `DeliveredAsSent` excepts DENY by name: without the exception
`packet_net` finds a `syn` that reaches port 22 of the web server of the
beginner's scenario. `_calculate_checksum` pads the buffer it is given (533), which is
`build_icmp_packet`'s own, so that a message with odd data is sent with one zero
more than its data ("Data from request", 574); `PingAnswered` allows that zero.
The checksum adds its carries once (541), so one that carries again is off by
one; `CarryForgotten` names that case.

These are the reason why some properties are restricted. `OnlyPartnerWakes`
excepts processes that may be killed or have used waitpid, `ExitIsFinal` is
checked without message passing, `OwnContext` and `ExitedNeverRuns` speak of
behaviours in which threads are joined after they have exited.

## 5. What is proved

For every value of the constants that the named ASSUMEs of the modules allow:
any number of slots, sets of waitpid arguments and kill targets for the
kernel's modules; any boot file system that is a tree, any users, terminals,
command lines, paths, texts and modes for the game; any source texts for the
lexer (`TextsAssumption` says that they are strings and have a length, of which
the provers know nothing); for the packet network any
set of topologies in which no two hosts share an address, routes lead to
addresses that exist and addresses are four bytes (`TopologiesAssumption`), any
senders, any rules with the actions ACCEPT, DROP, REJECT and DENY
(`RulesAssumption`), and any limit of captures and number of calls
(`LimitsAssumption`); for BrainFS any device of 16 blocks
or more (`brfs_mkfs` refuses smaller ones), where a call allocates only while the one
block of each bitmap has bits left (`SearchesEndInside`, section 3), 2 to 32
entries in a directory block (`SizeAssumption`), any file names that are neither
empty nor `.` or `..`, each with what is left of it when it is stored (`NamesAssumption`; no argument of a shell command is
empty, and a journal record over a directory reads as an entry whose name has
length 0), and any number of calls, crashes and remounts.

| Theorem | Property |
|---|---|
| `TypeCorrect` | `TypeOK` |
| `CpuOwnership` | `RunningIsCurrent` |
| `WakeupsAreKept` | `NoLostWakeup` |
| `WaitPidNeverStale` | `WaitPidIsCurrent` |
| `HaltIsIdle` | `HaltOnlyWhenIdle` |
| `ExitFinality` | `ExitIsFinal` |
| `RoundRobin` | `BoundedBypass` |
| `ReadyCountIsKept` | `ReadyCountFollows` |
| `KeepsContract` | `ImplementsLifecycle` |
| `MessagesTyped`, `SendKeepsCpu`, `MessagesAreKept`, `PartnerWakes` (`Ipc_proofs`) | `IpcTypeOK`, `OneRunning`, `UnreadKept`, `OnlyPartnerWakes` |
| `ThreadsTyped`, `ThreadsOneRunning`, `ThreadsOwnContext`, `ThreadsExitedNeverRun` (`Threads_proofs`) | `TypeOK`, `OneRunning`, `OwnContext`, `ExitedNeverRuns` |
| `BrainFSNamesAreBacked`, `BrainFSContentIsOwn` (`BrainFS_proofs`) | `NamesAreBacked`, `ContentIsOwn` |
| `BrainFSLinksCoverNames`, `BrainFSAllocationExact` (`BrainFS_proofs`) | `LinksCoverNames`, `AllocationExact` |
| `BrainFSImplementsNamespace` (`BrainFS_proofs`) | `ImplementsNamespace` |
| `BrainFSTypesAreKept` (`BrainFS_proofs`) | `FsTypeOK` |
| `NetTypesAreKept`, `RoutesAreAlwaysReal`, `DeliveryIsAsSent`, `PingIsAnswered` (`PacketQueue_proofs`) | `NetTypeOK`, `RoutesAreReal`, `DeliveredAsSent`, `PingAnswered` |
| `PositionsHold` (`Lexing_proofs`) | `PositionsAreTrue` |
| `TokensInOrderHold` (`Lexing_proofs`) | the first conjunct of `TokensTile` |
| `GetsFurtherHolds` (`Lexing_proofs`) | the lexer's half of `FrontEndEnds` |
| `GameTreeIsSound`, `GameGoneStaysGone`, `GameEffectiveIsInnermost` (`GameShell_proofs`) | `TreeIsSound`, `GoneStaysGone`, `EffectiveIsInnermost` |

The process table. `Inv` is the conjunction of the four state invariants, `TypeOK`,
and two more facts. `NoLostWakeup` needs `WaitPidIsCurrent`, because
`exit_process` decides by `PCB_WAIT_PID` whether to wake the parent, while what
the parent waits for is in its registers. It also needs `KernelStays`: the value
0 of `PCB_WAIT_PID` means "not waiting", so a wait for pid 0 would be missed;
there is none to miss because the kernel's slot is never freed and its parent
is the kernel itself. `HaltOnlyWhenIdle` needs `ExitedIsOut`: a context
that is the halt loop belongs to a zombie or a free slot, so `schedule` never
selects it. `SwitchKeepsOneRunning` says once what `schedule` followed by
`context_switch` does to a table, and the lemma of each action uses it.
`RoundRobin` rests on `SelectsCloser`, arithmetic on the scan distance, and
`ReadyCountIsKept` on counting, for each action, the slots that become or cease
to be runnable.

Messages. The three invariants together are inductive (`IpcInv`): whether a send
may be accepted is decided by the state and `PCB_WAITING` of the destination,
and `UnreadKept` ties both to what is unread. `PartnerWakes` goes through the
ways out of BLOCKED one by one; the two that are not the partner's are the
exceptions in its statement.

Threads. Once a live thread was joined, only `TypeOK` and `OneRunning` remain. Before that, `Cooperative` says that every live slot but 0 holds
a thread of its own, slot 0 stays live, pids are unique, and contexts match.

The game. `KernelInv` says that the file system is a tree whose numbers were all
given out, that every inode number a process or descriptor holds was given out,
and that a parent has a lower pid than its child. That an operation keeps the
tree is a lemma of `Vfs_proofs` each; two of them (a new child, an entry taken
away) carry the others. `Resolve` and `cleanup_dead` are recursive functions:
that they are defined, and what they return, is shown by taking the least number
at which a claim fails (`LeastNumber`), since the library's induction rules take
an operator. The pids go down from child to parent, so going up the pids
`cleanup_dead` finds the parent of a dead process already made a zombie, and
removes nobody (`NobodyRemoved`). `SessionInv` says of a session's stack that
all levels but the last run a script and that each script remembers the ids of
the level below, if it began before an exception came to a lower level
(`Before`); ending the last one gives those ids back (`LastLevel`,
`ReplaceLevel`), an exception leaves the levels below as they are
(`LeaveLevels`). That two terminals never share a process is part of it.

The packet network. `Inv` says that the queues of every host hold whole packets
addressed to it, that captures keep within their limit, and that the hosts that
are up are hosts of the topology; it is all that has to be remembered between two
calls, so the work is in one call. `RouteIsReal` is an induction over the
turns of the search, again with `LeastNumber`: every entry of its queue carries a
`Trail`, a path of links that repeats no address and crosses only live hosts
that forward, and one neighbour more keeps that. `IpRoundTrip` and
`IcmpRoundTrip` say that the parser reads out of the bytes what the builder put
in, for fields and data of any value that fits (`IpData`, `IcmpData`), and
`TravelledSays` that a hop's change of TTL and checksum leaves the rest as it
was. `SumsDiffer` compares the running sums of two messages that differ in their
checksum, and `ChecksumVerifies` concludes what the sum with the checksum is.
`FirewallDecides` turns the search for the first rule that applies into a
quantifier, and `RefusedIsDenied` that into `Refused`. `TransmitDoes` and `LoopbackDoes` put these together for a packet,
`SendDoes` for the call with its answer; the step of `DeliveredAsSent` and of
`PingAnswered` (`SendDelivers`, `SendAnswers`) read it off. The bound of 65 on the
way back in `PingAnswered` comes from the TTL of 64 that `build_ip_packet` gives
an answer. The packets are the six kinds that `Crafted` names, between any
addresses.

BrainFS. The invariant, `Consistent`, speaks of the disk and of `todo`: as long
as the journal has overwritten nothing, the disk is sound, and so is every disk
the call in progress has still to write, up to the first write of the journal
that overwrites something in use (`SafeLog`). A crash leaves one of these, so the
crash is the easy step, and the work is in the calls: each is shown to append
only sound disks to its log, block by block, on every path (`CreateOk`,
`MkdirOk`, `LinkOk`, `UnlinkOk`, `WriteFileOk`, `MountOk`, `UnmountOk`). `Sound`
says that what can be reached from the root is allocated, written, owns its
blocks and counts its names; it needs all four, because what makes a free block
harmless to take is that everything reached is marked, what makes a block
harmless to free is that it has one owner, and what makes an inode harmless to
free is that its count covers its names. What can be reached is a recursive
function (`Directories`), for which there is no induction rule here. The proofs use
instead that `Directories` is the least set that holds the root and is closed
under the names in it (`DirectoriesLeast`), and that it is enough to keep any
closed set sound (`SoundShrinks`): a write that adds no name leaves the set
as it is, a new directory is added to it, and a removed name leaves it closed, if
too large. `brfs_create` can lose its disk in the middle, when its first record
falls on something in use; from then on nothing is claimed (`Lost`).

That BrainFS implements `Namespace` comes from the same invariant. `SafeLog` says of
every block in the log also what it does to the names of the disk it is written
over (`Step`): it adds one, takes one away, or leaves them. Most blocks leave them
(`Kept`: the bitmaps, an inode that keeps its blocks, a block that is not of a
directory); the two that do not are the slot that `brfs_add_direntry` fills
(`AddNameStep`) and the one that `brfs_unlink` empties (`DropNameStep`). The first
needs that the name is not there yet, from the `brfs_lookup` before
(`LookupVacant`), through all the blocks written in between, or that it is what
is left of a longer one (`Vacant`, `CutNames`). A directory may have a name
twice then, so a name in the tree is known by the block and the slot it is in
(`NameIn`), and link counts count slots.

That the books are right between calls (`AllocationExact`, `LinksCoverNames`) needs a
second invariant, `Settled`, of the disk the call in progress will leave behind:
the block bitmap marks the blocks of named inodes, no inode has a block twice
(`Apart`, or `brfs_unlink` would count it as freed twice), link counts are the
numbers of names, and the count of free blocks is the one in the mount table or, of
a device that is not mounted, in the superblock. In the middle of a call the books
are out by what it has taken: `Booked` names the blocks that are marked and not
yet anybody's, and the file that has one link more than names. Each write moves
these two (`BalancedTakeBlock`, `BalancedPutNode`, `BalancedAddEntry`,
`BookedDropped`), and on every path of every call, a full disk or a full directory
included, both are empty at the end (`CallsKeep`). `brfs_create` and the journal's
own writes keep the books when they overwrite nothing (`Balancing`); the
initial disk that is nearly full was made by calls, so the same lemmas say that
its books are right (`BalancedNearlyFull`).

The types of BrainFS do not stop there: `FsTypeOK` is proved of every disk, also
of one whose bitmaps, inodes or directories the journal has written over. Its
invariant, `WellTyped`, adds the fields of disks and log; each call takes a typed
session to a typed one (`TypedSession`), disk by disk. What is to be shown is that
no search finds a number outside its table (`FreeTyped`, `LookupTyped`), that a
count is above zero when a number is taken (`TakeTyped`) and a link count when a
name is removed (`UnlinkTyped`), and that the directories lie in the inode
table (`DirectoriesTyped`). `RecordTyped` and `RecoverTyped` say what the bits of
a record mean where it lands and what the mount reads there as a sequence number
(`WordTyped`).

The lexer. The theorems are about `LexSpec`; the parser's step in `Frontend`
changes `tree` only. The invariant, `Knows`, says that the lexer is at a position of
its text and that its line and column are those of the position, unless the text
has a raw newline between single quotes or escaped after one (`NewlineQuoted`),
which the code looks over and counts twice. A quote that opens a string at the end
of its line makes it count twice as well, but then it fails at once
(`BrokenStringFails`), with the wrong line. `Advance` keeps it because a
position's line and column are one more than, or start again after, those of
the one before (`LineAfter`, `ColumnAfter`); a loop keeps it by induction over
its iterations (`AdvanceByMoves`, `StringRestOn`), with a set where the library's rules
take a predicate (`SetInduction`). `StringRestOn` also says that the loop of
`read_string`, which the model cuts off after one iteration more than there are
characters, has ended by then. Each reader then `Steps`: it gets further, ends
the text or fails, and it skips blanks or appends one token whose start lies
behind blanks and whose end is where the lexer stops. `Lexed` puts the steps together: the
tokens so far are in order, and from the last one to the lexer it is blank.
`TokensInOrder` speaks of lines and columns, as tokens do; `OffsetIs` says that they
belong to one position only, since a newline between two positions would make
their lines differ.

Only model-checked: the liveness properties (TLAPS has no rules for fairness
here); that a token is as long as it can be and reads as itself again (the rest
of `TokensTile`), which is about the characters of concatenated strings, of
which the provers know nothing; the parser (`OperatorsGroup`,
`BlocksFollowIndentation`, its half of `FrontEndEnds`) and the generator
(`ComputesMeaning`, `FramesRestored`, `StackAgreesAtLabels`), which are mutually
recursive operators over trees of any depth.

## 6. Not modelled

Kernel: registers other than the point of resumption, page directories, exit
codes, user ids, `sys_exec`, signal handlers, interrupts (they touch none of this
state), thread-local storage. `PROC_STOPPED` does not occur because
`check_signals`, its only writer, has no caller. A forked child starts on an
empty kernel stack in the code; the model lets it go on as a program. Of
BrainFS, extended attributes, device errors and a second mount. Pipes, terminals,
Unix sockets, TCP and the other file systems were not reached.

Compiler: textual imports, type parameters of generics, kernel mode and inline
assembly, `codegen_x86_64.py`; the type, ownership and lifetime checks, which
report and change nothing. The routines of `lib/` are one step each and keep
every register but EAX, where the compiled ones also use EBX, ECX and EDX; a
list that grows does not give its old block back, and a program for which
`alloc` has no block left (`memory.bh` 73) gets stuck.

Game: the command, arguments and environment of a process (all `sys_exec`
changes), its health and terminal, device handlers other than null's, times of
inodes; shell variables and quoting, which act before a line is parsed; the
commands (scripts of the game's worlds), the web server, the physical layer and
daemons of the network. `cleanup_dead` has no caller in the code and is an
action that may always come. A script is taken to have one thread.

## 7. Plan

Done: the process table with its refinement, messages and threads, each with
proofs; BrainFS; the packet network, with proofs; the front end and the 32-bit
generator, with proofs of the lexer; the game's system, with proofs; proofs that every crash leaves BrainFS
sound, that its names change one at a time, that every call keeps its types and
gives back what it took. Left, in this order:

1. `brfs_setxattr`, `brfs_removexattr`, a failing device, a device mounted twice.
2. `Pipes`: descriptors and pipes with fork and exit of `ProcessTable`;
   2 processes, 3 descriptors, 1 pipe of 2 bytes.
3. `UnixSockets`: listener, connect, accept, send, recv, close between two
   kernel threads; an abstract channel as its specification.
4. `Tcp`: two endpoints, a network that loses, duplicates and reorders;
   sequence numbers modulo a small number.
5. The type checker as a reference for which programs `codegen` must handle.
6. `Signals`, `Tty`, `Dhcp`, the driver rings; `lib/sync.bh` and the thread pool.
