# MalapropOS in TLA+

MalapropOS is a small operating system for an ARM Cortex-A8 (`os/`), with its own
C library (`mlibc/`). This directory holds TLA+ models of its core, the TLC
configurations that check them on small instances, and machine-checked proofs
about eight of them. `PROJECT.json` lists the runs, says which lines of the source
each definition models, and lists the hazards the properties are aimed at.

## 1. Inventory

| Component | State | Operations | Hard parts |
|---|---|---|---|
| Scheduler, `kernel/scheduler.c` | pcbs, two run queues, event record, `current_pid`, `next_pid` | tick, yield, fork, exec, exit, kill, setpriority, waitpid | queues edited by every call; emit before or after the switch; results written to a frame that has been switched |
| Kernel handlers, `kernel/kernel.c` | the trap frame | one SVC case per call; TIMER0, UART0 | `ctx->gpr[0] = result` after a context switch |
| Heap, `mlibc/src/stdmem.c`, `_sbrk` in `user/syscall.c` | `current_break` | allocate (nothing is freed) | runs in user mode, shared with the kernel, preemptible |
| Message passing, `kernel/ipc.c` | one list of messages | send, receive from one, receive from anyone | removal from the middle of a shared list |
| Pipeline, `user/{producer,pipeline,consumer}.c` | a held character each | poll, forward, print | a stage killed while it holds a message; everything arrives |
| Shell, `user/sh.c` | command, stored pid, typed-ahead keys | read a line, launch, wait, Ctrl+C | fork/setpriority against the timer; Ctrl+C against the exit of the job; two input queues |
| File system, `kernel/file.c` | FAT, directories, data on the disk; open files | open, close, read, write, lseek, unlink, mkdir | chains, full directories, full disk, cached directory entries, shared descriptors |
| Disk driver, `device/disk.c` and `test/disk.py` | the line between them, the image | read and write a block, ask for the geometry; 3 tries | both sides must agree on every character, also after a refusal; silent failure; waits with interrupts masked |
| File programs, `user/{write,append,writemany,cat,rm,touch,mkdir,cd,ls,pwd}.c` | a descriptor each; open files and working directory are shared | sequences of calls | one offset for all who open a path; rm closes what others hold; nobody else closes |
| Line editor and parser, `user/sh.c` | a line and a cursor | keys, control sequences, Enter | an array shifted in place, full lines, ten arguments |
| Strings, `mlibc/src/stdstring.c` | - | compare, next token, number to text and back | limits of a long |
| Other drivers, start-up code, debug printing | - | UART, GIC, timer, vectors | outside the models |

How they interact: a user process traps into `kernel_handler_svc`, which runs the
whole call with interrupts masked; a timer or UART interrupt runs
`kernel_handler_irq` the same way. So **a handler is one atomic step, and user code
interleaves between any two of its own instructions** with the other processes and
the interrupts. The one piece of shared state that user code touches without
trapping is the heap's `current_break`.

What makes each correct, in a line: the scheduler loses no process, runs no dead one
and starves none; the heap gives no byte twice; messages arrive once and in order;
the shell waits for the job it launched and loses no key; a file call changes the
file it names and no other; a file command that runs alone does what the README of
MalapropOS says; driver and disk stay in step; the line holds what was typed.

## 2. Modules

| Module | Models | Builds on |
|---|---|---|
| `Scheduler` | `scheduler.c` and the calls of `kernel.c` that reach it | - |
| `Shell` | `sh.c` job control and the programs it launches | extends `Scheduler` |
| `Heap` | `stdmem_allocate`, `_sbrk` | - |
| `Ipc` | `ipc.c` | refines `Mailboxes` |
| `Mailboxes` | abstract: one ordered mailbox per process | - |
| `Pipeline` | producer, pipelines, consumer | extends `Ipc` |
| `FileSystem` | `file.c` | refines `Files` |
| `Files` | abstract: paths and their contents | - |
| `MCFileSystem` | the sets of paths TLC uses | extends `FileSystem` |
| `Programs` | the file programs, and the open files and working directory of `file.c` | reaches the disk by the actions of `Files` |
| `MCPrograms` | the commands TLC uses | extends `Programs` |
| `Disk` | `disk.c` and `test/disk.py` | refines `BlockDevice` |
| `BlockDevice` | abstract: blocks, and a driver that may give up | - |
| `Strings` | `stdstring.c` | - |
| `CommandLine` | `get_line`, `parse_shell_command` and the number arguments | extends `Strings`, refines `TextLine` |
| `TextLine` | abstract: a text and a position in it | - |
| `SchedulerProofs`, `HeapProofs`, `IpcProofs`, `ProgramsProofs`, `DiskProofs`, `FileSystemProofs` | theorems about the module of that name | the module, TLAPS |
| `ShellProofs` | theorems about `Shell` | `Shell`, `SchedulerProofs` |
| `PipelineProofs` | theorems about `Pipeline` | `Pipeline`, `IpcProofs` |

Names follow the source where there is one (`find_first_free_cluster`,
`write_to_file`, `current_pid`, `stored_pid`). Definitions that begin with `Bug` are
faulty variants of the definition they precede; no specification uses them. They are
the mutation checks listed in `PROJECT.json`: with one of them in place of the
original TLC finds the property violated that it is listed with.

### Scheduler
A pcb is `status[p]`, `until[p]` (`blocked_until`) and `saved[p]` (`ctx.gpr[0]`); the
trap frame's `gpr[0]` is `r0`. Other registers are copied as a whole by `copy_ctx` and
never written by the handlers after creation, so they carry no information the
properties use. `exec` overwrites them, which ends in the same state: a program that
computes. `saved` and `r0` tell apart 0, a pid, and `Live` (anything else).
`low` and `high` are the queues, `events` the set of recorded events (the code only
asks for membership). `remove_pid` and `add_pid` fall through their switch: priority 0
touches both queues, 1 only the low one, which is how `AfterSetPriorityHigh` and
`AfterSetPriorityLow` are written. `Requeued` is the effect of the wake-up loop on the
low queue.

If no process can be found, `run_process` copies the bytes at address 0 over the
trap frame. The model stops there (`Sane` is a guard of every action), and the
properties say when that state is and is not reachable.

Any process makes any call with any pid and priority 0, 1 or 2. `Calls` selects the
calls in play; a run without `"waitpid"` has only polling ones (`WAITPID_NOHANG`), as the shipped programs are. What the shell
does with these calls is in `Shell`.

### Shell
The shell's own program counter is `sh`; its calls are the actions of `Scheduler`.
A key is Ctrl+C or a complete command line: the line editor is abstracted to its
result. Three kinds of job: foreground, high priority (`!`) and background (`&`), and
the `kill` command, in the foreground or the background, on any pid: the shell's, one of a process that is gone, one
not given out yet. The timer ticks between any two steps. One action is one system call or one access to a stream;
the accesses to the kernel's `stdin_buffer` are system calls, those to
`sh_stdin_buffer` are the shell's alone.

What the shell does with the result of a call it does with what is then in `r0`, which a kill by the process before
it may have overwritten: `StoreChild` and `ExecInstead` are the two branches after `_fork`, `TestResult` the
branch after `_waitpid`. A terminated process that is queued again goes on where it was.

`typed` and `taken` are history variables for `InputInOrder`. Two more name what can go wrong in
`launch_process`: `revived` holds the pids that were terminated when the shell's `_setpriority` queued them (a tick after `_fork` let the job end
first), `unborn` the pids that `kill` named before they were given out (their exit is on record from the start). The properties say that
nothing else goes wrong; that these two do happen is in section 3.

### Heap
`stdmem_allocate` calls `_sbrk` twice; each reads, checks, loads and stores
`current_break`. In `Heap` these are separate steps of each user, and `KernelAllocate`
is a handler that allocates in one step, possibly in the middle of a user's.
`raced` is a history variable: somebody has moved the break while another user had read it and not yet returned. Allocations
may overlap in time without a race: one that is refused, one that has not read the break yet, or one that is still in `_sbrk(0)`, moves nothing.

### Ipc, Mailboxes, Pipeline
`messages` is the shared list; a message carries its number within its pair
(`sent`, `got` are history variables). `TypeOK` includes `Numbered`: for every pair the
list holds exactly the messages after the last one received, up to the last one sent, in order. `Undefined` is what a caller finds after
`ipc_send_message`, which has no return statement. The refinement maps the list to
one sequence per addressee. In `Pipeline` the producer stops after `MaxSent` messages
(the code's loop is endless) and the processes in `Mortal` may be killed. A kill also puts its result, 0, into the register of
the process scheduled next; if that one was preempted as `_rmessage` returned -1, it takes the old contents of its
buffer for a message (`Kill`).

### FileSystem, Files
The disk is a sequence of 32-byte blocks, the size of a directory entry, so a block
is a directory slot or a piece of file data; offsets and sizes count blocks. The root
directory comes first and the data region follows, as on the disk, so that what the
code does past the edge of a region has its real effect. The FAT has one cell per
cluster and one for 0xFFFF, whose "successor" the code also looks up and sets: its two
bytes lie in some data sector, zero on a fresh disk. `Init` is a freshly formatted
disk. Clusters are never freed, in the code as in the model. An entry keeps name,
directory flag, first cluster and size. Names are values of three kinds, for what the conversions
do to them. With all three letters of an extension (`FullNames`) a name is found by every look-up. Without (`PlainNames`) it is found by `find_file` but
not by `find_file_in_directory_cluster`, which compares the extension with what is not there. With an extension after eight letters or more (`LongNames`)
`split_filename` leaves no room for the end of the name, which runs on into the extension and equals nothing in a directory (`SplitsInTwo`).

Loops over a chain are walks: `Walk(k, c)[n]` is where n steps from cluster c lead, and `StepsUpTo` how many of
them stay among the clusters the loop accepts. A path is looked up by a walk through directories (`Descent`), a directory by the
list of addresses that `get_root_dir` and `get_dir` read (`Places`), or that the functions that add and update an entry
look at (`Slots`); the two differ, as they do in the code. `FreeClusters` is what `find_first_free_cluster` returns when it is
called again and again and each answer is used. All are recursive functions on the natural numbers, which the prover
can reason about.

The calls run with interrupts masked and take absolute paths, so which process makes
them does not matter. A call that fails without a state change is a stuttering
step and has no action. `Uses` names the edges that callers reach, empty in the run
that passes: `past_end` (writing at an offset outside the chain), `full_root`, `full_dir`,
`full_disk`, `plain_name` (creating files without an extension), `long_name`. What happens
there is in section 3. Removing is not fenced: directories have plain names, and `rm` may name one.

`files` is an auxiliary variable: the contents of every path, computed from the disk.
`Files` states over it what callers rely on (create, store, remove, one path at a
time).

### Programs
Each process runs one command; a step is one system call and the code up to the next,
and any process may go next, or be killed between two calls. `Program` gives the order
of the calls. The disk is the state of `Files`: `FileSystem` shows that the code below
implements it, so `Programs` uses its `Create`, `Store` and `Remove` instead of clusters. Contents are
counted in the pieces the programs pass to `_write` (a word, the blank after it, a string of
`writemany`), which is what interleaves. The offsets in `Ends` are where the clusters of a file may end: a write that begins
there, behind all that was stored, is stored as it is, or lost to zeroes and reported as made (the write of `FileExpand`), or cut short on a full disk,
after which `write` and `append` give up ("Ran out of space"). `whole` is auxiliary: nothing a process wrote met with that. `Plain` are the paths
whose unlink reports success and does nothing; no command writes to them. `open`, `next_fd` and `cwd` are shared by all
processes, as in the code. A read past the end of a file returns zeroes from the rest of
the cluster, and `cat` prints up to the first. `touch` and `mkdir` of a path whose directory
is not there fail.
`alone`, `before` and `base` are auxiliary: whether a command has had the machine to
itself, what it found when it started, and the file when `append` moved to its end.
A path is used as a file by every command or as a directory by every command: `cd`
of a file, `rm` of a directory and the like are not in play (section 6).

### Disk, BlockDevice
One token of the protocol is a byte (two hexadecimal digits on the line), a separator or an
end of line. `PL011_geth` takes two characters whatever they are; in front of a lone
separator it would wait for another character, and the model stops there, so that an
answer of the wrong length is a call that never returns or a line that is not empty after
it. The driver's four functions share the actions `Put`, `GetAck`, `GetSep`, `GetData`, `Return` and
`Refused`; `Request` and `AfterAck` are where they differ. The server's state is the partial line
and the image. `disk.py` refuses only addresses beyond `--block-num`; `MaxRefusals` lets it also refuse
a request it could serve, the fault `RETRY` is written for. `served` and `refused` are
auxiliary; the refinement maps `image`, padded with zero blocks (`Blocks`), to `blocks`. An
address or a count is four bytes; `Pack` and `Unpack` are written without powers, one byte after
the other, as the code shifts.

### CommandLine, Strings, TextLine
Characters are codes and strings sequences of them; the line is the array that
`line_insert` and `line_backspace` shift in place, with the NULs behind the text. An action is what
the shell does between two blocking reads of a key (`ControlSeq` reads three). When a line
is finished `parse_shell_command` is applied to it. `Strings` has `stdstring_compare`, `stdstring_next_token`,
`stdstring_strtol` in base 10 with its cutoff arithmetic, and `stdstring_int_to_str`; `long` is `Bits` wide.
`Meaning` and `Value` are the reference definitions the code is compared with: the words of a line by
their boundaries, and the value of a number without limits.

## 3. Runs

Passing runs:

| Run | Bounds | Shows |
|---|---|---|
| `Scheduler` | 3 processes, any call with any argument, a fair timer | queues without duplicates, no runnable process lost, terminations recorded, no missed wake-up, high priority first; every queued process runs (`LowRuns`, `RaisedRuns`), unless it is moved to the back for ever or the queues are empty |
| `Heap` | 2 users and the kernel, interleaved load by load, heap of 5, blocks of 1 and 3 | without a race no overlap (`DisjointUnlessRaced`) and nothing beyond the end (`WithinUnlessRaced`) |
| `Ipc` | 2 processes, 2 contents, 2 messages per pair, 3 queued | order per pair, refinement of `Mailboxes` |
| `Pipeline` | producer, 2 stages, consumer, 3 messages, stage 3 and the producer mortal | no message lost or doubled, but for one made up by a kill (`Conserved`); without a kill all delivered, shifted once per stage |
| `Shell` | 4 pids, 3 keys, every kind of command, kill of any pid | apart from `unborn` and `revived` pids the prompt returns when the job is over and no zombie is queued; something runs as long as the shell lives (`NeverWild`); keys in order; a child finds 0; Ctrl+C ends a low-priority job |
| `FileTree` | a file in the root, a subdirectory, a file of the same name in it; 4 clusters of 2 blocks; writes of 1 and 2 blocks | chains disjoint and ended, sizes within chains, cached entries equal to the disk, reads return contents, unlink removes or leaves all as it was (`UnlinkRemoves`), refinement of `Files` |
| `Programs` | any 3 of 14 commands on 3 files, one of them in a directory, that directory and the root; up to 2 words or strings each; any of them killed at any call; clusters that may end after 2 and 3 pieces | a command that ran alone, and whose writes were stored, did what `README.md` says (`AloneAsDocumented`), appended words and what was before them are kept while others write or append (`AppendsKept`), no word in a file it was not meant for (`OwnWordsOnly`) |
| `Disk` | 2 blocks of 2 bytes, an image of 1, bytes of 2 values, addresses 0 to 2, a FIFO of 2, up to 2 refusals before the third try | nothing is left on the line between calls (`InStep`), every call but a read past the image returns (`Returns`), refinement of `BlockDevice` |
| `CommandLine` | lines of 7 characters of blank, `!`, `&` and `^`, 2 arguments; numbers of 4 characters, `long` of 8 bits | refinement of `TextLine`, the parser finds the words (`ParsedAsWords`), numbers keep their value or are cut off (`NumbersKept`) |

The bounds: three processes are the least with a running process, a woken one and
a bystander; two priorities are all there are. A heap of 5 with blocks of 1 and 3 is
filled exactly and overfilled. Clusters of two blocks and files of up to four let a
write begin in the middle of a cluster, cross into an existing one and append a new
one. Three commands are two that share a file and one that removes or moves under them,
or comes after both; two words make the loop of `append` go round. Addresses 0 to 2 of a disk with 2
blocks have one that is refused three times; words of 4 bytes of two values hold the geometry; a FIFO of
2 makes driver and server wait for each other. Seven characters hold a name, two
arguments and a mark, or a full line with the cursor in it; with 8 bits the limits, 127 and
-128, differ in the last digit as those of 32 bits do. Four pids and three keys allow two jobs and a kill, of a pid that is still to come too, or a job and Ctrl+C twice. An image of one block on a disk of two has a block of each kind, with the one that is refused. `Programs` treats its processes as symmetric: they differ only in the command each is given. `Scheduler` uses
`ControlView`, which leaves out `saved`, `r0`, the `until` of processes that are not
blocked, the difference between ready and running, and the record of events but for the exits of terminated processes: no guard and no property of that run
depends on the rest.
Runs that bound a counter (pids, descriptors, blocks) switch deadlock checking off,
because the bound, not the system, ends the behaviour.

Runs that end in a violation, each with a sentence of the repository it contradicts
(quoted under `findings`):

| Run | What the code does |
|---|---|
| `HeapRace` | a preemption or an interrupt's allocation inside `stdmem_allocate` gives the same bytes out twice |
| `ShellMistaken` | the result 0 of a kill goes to the shell that was preempted as `_fork` returned (`kernel.c:207`): the shell execs the job in its own place |
| `FileExpand` | a write that begins exactly at the end of the last cluster is lost |

Where a passing run checks a property with an exception, or keeps clear of an edge, the plain statement fails. The modules
state these as properties of their own; put into the cfg of the run, with the constants changed where the table says so, TLC finds them violated:

| Run | Property | Statement it is taken from | Fails because |
|---|---|---|---|
| `Shell` | `TerminatedForGood` | `README.md:47`, `_exit`: "terminate the current process" | a job that ends between the shell's `_fork` and `_setpriority` is queued again by the latter (`sh.c:70`, `scheduler.c:300`) |
| `Shell` | `WaitsForChild` | `sh.c:69`: "Otherwise, wait for the child to complete" | a kill of a pid not yet in use records its exit (`scheduler.c:260`), and the shell does not wait for the job that gets this pid |
| `Disk` | `ReadReturns` | `disk.h:20`: "read  an n-byte block of data x from the disk at block address a" | reading a block past the end of the image is answered `00` without data and the driver waits for it for ever (`disk.py:52`, `disk.c:103`); `test/Makefile` makes an image of 2048 blocks (line 2) and starts the server with 8192 (line 13) |
| `FileTree` | `RmRemoves` | `README.md:112`, `rm`: "Remove the specified file." | a plain name, here that of a directory, is never found by the update (`file.c:152`): unlink reports success and changes nothing (`file.c:1145`); so it is, with `Uses = {"plain_name"}`, for files without an extension |
| `FileTree` with `FullNames = {}`, `PlainNames = {"NOTES"}`, `LongNames = {"LONGNAME.TXT"}`, `Paths <- OddPaths`, `DirPaths <- NoPaths` and `Uses = {"long_name"}` | `ListedOnce` | `README.md:102`, `touch`: "Creates a file if it does not already exist." | a name of eight letters with an extension is never found (`split_filename`, `file.c:790`): each `touch` makes another file of that name |
| `FileTree` with `FullNames = {"A.TXT", "B.TXT", "C.TXT"}`, `Paths <- FullDirPaths`, `MaxFd = 6`, `MaxWrite = 1` and `Uses = {"full_dir"}` | `ListedOnce` | the same | a second directory cluster is the cluster promised to the new file, and repeats the entries of the first (`file.c:274`) |
| `FileTree` with `LastCluster = 3`, `DirLimit = 3` and `Uses = {"full_disk"}` | `ChainsDisjoint` | - | files are created with first cluster 0 (`file.c:943`) |

More remarks from the translation, which no run is about: a blocking waitpid writes, as kill does,
its result into the register of the process scheduled instead of the caller (`kernel.c:145`), so a fresh child scheduled by a waitpid takes itself for its parent;
the last process to exit has left the queues before `scheduler_run`, so the branch that prints an error (`scheduler.c:238`) is not reached and pid -1 is
loaded (`NeverWild` has the shell's life as its condition); `set_priority(p, 1)` leaves p in the
high queue (`AfterSetPriorityHigh`); a blocking waitpid for a process that has
already exited is never woken, since `scheduler_block_process` does not look at the
record; `ipc_send_message` returns nothing (`Undefined` in `Ipc`); with
`"full_root"` the slot after the last one of the root directory is the first sector of cluster 2
(`Slots`, `file.c:225`).

And about the programs and the shell: beside a `write`, `writemany` or `cat` of the same file `append` goes on at
the offset they moved to, and after an `rm` its writes fail, which is why `AppendsKept` stops there; `cat` can print nothing or leave a gap
when another command moves the offset between its seek and its read; when its read fails it writes to `buf[-1]` (`cat.c:28`); `rm` reports that it
found no file when another process opens it between its close and its unlink; a mark `&` or `!`
after ten arguments is ignored; the third key of a control sequence that is not an arrow is
dropped; a NUL typed into a line ends the text for everything but `line_insert`, and is left out of `Chars`; `stdstring_int_to_str` has no answer for the least `int32_t`; `stdio_printint` has ten bytes for its result (`stdio.c:14`) and overruns them from ten characters on, which is where `PrintNumber` stops (`PrintRoom`); `kill` and `writemany` let strtol
store through an uninitialised pointer.

## 4. Fairness

* `WF(Tick)`: the timer is periodic and user mode runs with IRQs enabled (cpsr 0x50).
  Nothing is assumed of user processes.
* `Shell`: in addition `SF(ShellStep)`: a quantum (2^20 timer cycles) is far longer than
  a step of the shell, so a shell that is scheduled again and again gets somewhere.
  Jobs are not assumed to end.
* `Pipeline`: weak fairness of each process, which is what `LowRuns` establishes for low-priority
  processes that stay queued, given the same argument about the quantum.
* `Disk`: weak fairness of the driver, which polls the line with interrupts masked, and of the
  server, which loops for ever. Nothing is assumed about when the server refuses.
* `Heap`, `Ipc`, `FileSystem`, `Programs` and `CommandLine` state safety only.

## 5. Proofs

The theorems hold for every value of the constants that satisfies the named assumptions of
the module (`MaxPid` is positive, the sizes of the disk fit a word, and so
on; TLC evaluates them in every run). Where a theorem has a hypothesis beyond these it is
named below, and section 3 shows what happens without it.

**SchedulerProofs**, for any number of processes and any choice of calls.
`SchedulerInvariant` is `Spec => []IInv`, where `IInv` is the conjunction of `TypeOK`,
`QueuesWellFormed`, `RunnableIsQueued`, `CurrentIsQueued` and `TerminatedIsRecorded`. None is
inductive alone. That a runnable process is queued needs that the process giving
up the CPU was queued; that the current process is queued after a switch needs
high to be within low, since the high queue is searched first; that queues hold no pid
twice is what makes `RemoveFrom` remove a process altogether. From it follow `TypeCorrect`,
`QueuesStayWellFormed`, `NoProcessLost`, `CurrentStaysQueued`,
`TerminationsAreRecorded` and the action properties `HighPriorityFirst` and `WakeupsNotMissed`.

**HeapProofs**: `BlocksNeverOverlap` and `BlocksWithinHeap`, for any number of users, sizes and heap, and any interleaving. Without a race the
invariant says that what the locals of every user that has read the break remember (`p`, `prev`, `acc`) is true of it: `LocalsCurrent` is exactly what a
break moved under a user destroys, and `Exposed` says when there is something to destroy.

**IpcProofs**, for any number of processes and any bounds: `NothingLost` (`TypeOK`, inductive because of
`Numbered`), `ArriveInOrder`, and `ListImplementsMailboxes`, the refinement. The messages to one
process are a recursive function of the list (`Box`); that appending to the list appends to one box and that
unlinking from its middle unlinks one letter needs induction over the length of the
list. The library's induction rules take a predicate, which the provers cannot instantiate. `SetInduction` states
induction for a set of natural numbers instead, proved from the well-foundedness of `<`; each use of
it names the set of lengths for which the claim holds.

**PipelineProofs**, for any number of stages: `MessagesConserved`, from `TypeOK` of `Ipc` and the places of the
processes, and `PrintsRightCharacters`. The former allows for one message more for each process killed. The latter's invariant says what character a message to stage p has,
wherever it is, as long as nobody has been killed; after a kill an old buffer may be sent on.

**ShellProofs**, on top of the scheduler's invariant, for any number of pids and any keys.
`ForkedChildFindsZero`: every fresh child has 0 in its saved register, or in the trap frame while it runs; kill writes
0 too, which is why its misplaced result never spoils a child. `KeysKeepTheirOrder`: the keys taken, pushed back, held by the shell and still in the two
buffers are the keys typed, cut in pieces. `TerminatedStayOut` and `ShellWaitsForForeground`: their invariant says that an exit is on record only for a process that has terminated or a pid in `unborn`, and
that the shell leaves its wait loop only with the child's pid in `r0`: no other call and no misplaced result makes it anything but 0. `SomethingRuns`: a living shell is queued, so
a switch finds a process, and whatever is queued has a pcb. All five hold for any interleaving, keys and kills, without hypotheses.

**ProgramsProofs**, for any set of processes, any commands and paths.
`WordsStayInTheirFile`: descriptors are never given out twice, a path has at most one, and what a process holds is
the file its command names or closed, whoever closed it (`Descriptors`); so a piece is always written to the file its
writer names (`WordsInPlace`). `AppendsAreKept`: while no other process has moved the shared
offset or removed the file, the offset is the length of the file (`Appending`), so every write, by whatever process, extends it, and
the pieces of p, if none was lost or cut short (`whole`), are counted by their places.

`CommandsAloneAsDocumented`: a command that has had the machine to itself has done what the README says when it exits, if its writes were stored whole. The invariant has two
parts. `World` holds between any two calls of any processes: what is open is on the disk, and so is the working directory, since an open file cannot be
unlinked and nothing removes a directory (`Present`); a path is a file to all commands or a directory to all (`Kinds`, `Proper`); a process that has not
begun has no descriptor, no output and no count (`Fresh`). `Before(p, w)` says, for the call a process makes next, what it has done since it found the files
and the working directory `w`: nothing (`Idle`) up to the last call of most programs; for those that write, the file as it was, overwritten from the start
or the end with the pieces passed so far, and the offset behind the last of them (`Writing`). It holds at the start and after each of the process's own calls, one
lemma for each call (`OpenBefore` to `StringBefore`); a step of another process ends `alone`. `OverwriteMore` says that one piece written behind others is the same as all of them
written at once, and `OverwriteEnd` that what is written at the end is appended. The invariant was checked with TLC on the instance of run `Programs` before it was proved.

**DiskProofs**, for every geometry, byte size, FIFO depth, number of tries and number of refusals:
`SidesInStep` and the refinement `DriverIsBlockDevice`. The invariant `DiskInv` says what is on the line: while a request is on
its way, what the server has read, what the FIFO holds and what the driver has still to put are the request, cut in
three; afterwards what the driver has read, at the place `pc` and `k` tell, and what is on the line are the answer, cut
in two. `RequestShape` says that a request has no end of line but its last token, so the server never answers half of
one; `PackUnpack`, that an address arrives as it was sent; `StoredShape`, that writing past the end of the
image changes one block. The proof also covers an image shorter than the disk: there the
driver may wait for ever, but it never returns with wrong data.

**FileSystemProofs**, for every geometry of the disk (clusters, sectors, size of the root directory, length of the FAT), every set of
paths of any depth, any data and any number of calls. All theorems have the hypothesis `Callers`: `Uses = {}`, the constants of run `FileTree`, and directories
have names without an extension. The first part fences off the edges of section 3 where the code goes wrong: sizes that exceed their chain and names listed twice are such edges, so no theorem is stated about them, although `SizeOK` and `DirOK` are needed within the fence. The second says that no directory is removed:
`update_file_details` never finds a plain name, but it would find a directory called `D.TXT`, and unlink would remove it with files in it, which may be open.
The disk may fill up during a write: that case is covered.

`DiskStaysSound` is `Spec => []IInv`. `IInv` has three parts.

* `DiskInv`, about the disk between two calls. `DiskOK`: the FAT links no cluster to a free one and no two to the same (`FatOK`); every entry begins a
  chain of its own and lies in a directory that can be reached from an entry or is the root, and a directory has one cluster (`EntryOK`); a directory has no
  entry behind an empty slot and no name twice (`DirOK`); free clusters are empty (`FreeOK`). `SizeOK`: a file fits in its chain, and what the chain has beyond
  its size is zero. `KnownOK`: what is on the disk is one of the callers' paths.
* `OpenInv`: an open file has the entry that is on the disk, descriptors are below `next_fd`, and no path has two.
* `files` is what the disk holds.

The properties of the run are not inductive. That chains are disjoint (`ChainsDisjoint`) depends on entries not beginning inside other chains; that unlink
removes (`UnlinkRemoves`) and that an open file stays found (`OpenMatchesDisk`) depend on `DirOK`, since the listing stops at the first empty slot and the
update does not; that a new directory is empty, and that a file lengthened past its size reads as zeroes, depends on `FreeOK` and on the second half of
`SizeOK`, because no cluster is cleared when it is given out. The invariant was checked with TLC on the instance of `FileTree`, with paths of bounded length in
`KnownOK`, before it was proved.

The argument: `create_new_file`, `update_file_details` and `write_to_file` are shown to be one of three changes of the disk, each a relation between two disks: `Created` (a new entry in the
first free slot and the first free cluster ended), `Changed` (one entry replaced) and `Grown` (clusters linked to the end of one chain and blocks of that chain
written). Each change keeps `DiskOK`. Then comes what it does to a path: every other path is found as before, with the same chain and the same blocks. That
chains end, that a longer chain has the old one as its beginning, and that paths through unchanged directories lead to the same place are inductions over the
length of a walk, done with `SetInduction` as in `IpcProofs`; that different paths have different entries is an induction over their length. From the invariant follow
`FileTypesCorrect`, `ChainsStayDisjoint`, `OpenFilesMatch`, `UnlinkRemovesOrLeaves` and `ReadsReturnContents`, and with the effects on
the paths the refinement `FilesImplemented`: whatever clusters and slots the code uses, a call changes what the path it names holds, as `Files` says, and
no other path. `Programs` is built on `Files`, so its theorems rest on this one.

Only model-checked: all liveness (`LowRuns`, `RaisedRuns`, `Delivered`, `CtrlCTerminates`, `Returns`), which is beyond the
prover, as is `ENABLED`; `SizeFits`, in run `FileTree`; and `CommandLine`, whose parser is made of recursive operators.

## 6. Not modelled

* Memory contents beyond what is named above. In particular each fork takes 2000
  bytes of stack below the last and nothing checks that stacks and heap stay apart.
* Relative paths (`file.c` says of them that they do not work), names of one letter, extensions of one or two letters,
  directories with an extension (`find_dir` ignores it),
  `cd` and `rm` used on the wrong kind of path; `sys_stat`, `getpid`, `list_procs`, which
  change nothing. `cd` of a file reaches the lookup of relative paths, which starts from a null
  entry when the working directory is the root.
* Wrong numbers of arguments, which end a program before it has called anything.
* The messenger demonstration: one message between a parent and its child.
* Printing (`line_print`, `proc`, the debug printers), device registers, start-up code, attribute packing.
* The length of messages (`ipc.c` copies as many bytes as the receiver asks for).
* `strtol` in bases other than 10, and `line_delete`: nothing uses them.

## 7. Plan

Done: 1. `Scheduler` and its proofs. 2. `Heap`. 3. `Ipc`, `Mailboxes`, `Pipeline`. 4. `Shell`.
5. `FileSystem`, `Files`. 6. `Disk`, `BlockDevice`. 7. `Programs`, with the working directory.
8. `Strings`, `CommandLine`, `TextLine`.
9. Proofs of `Scheduler`, `Heap`, `Ipc`, `Pipeline`, `Shell`, `Programs`, `Disk` and `FileSystem`.
