------------------------------ MODULE Programs ------------------------------
(***************************************************************************)
(* The file programs of MalapropOS (os/src/user: write, append, writemany, *)
(* cat, rm, touch, mkdir, cd, ls, pwd) as processes that run side by side, *)
(* and the part of os/src/kernel/file.c that they share: the open files,   *)
(* with one descriptor and one offset for a path whoever opens it, and the *)
(* working directory.                                                      *)
(*                                                                         *)
(* What is on the disk is the state of Files, which FileSystem implements; *)
(* here calls reach the disk by the actions of Files only.  A file holds   *)
(* pieces: one per word and one per blank after it, which is how write and *)
(* append pass their arguments to _write, or one per string of writemany.  *)
(* Sizes and offsets count pieces.  A step is a system call, which runs    *)
(* with interrupts masked, and the code up to the next one.                *)
(***************************************************************************)
EXTENDS Integers, FiniteSets, SequencesExt, FiniteSetsExt, TLC

CONSTANTS
    Procs,      \* the processes, each running one command
    Commands,   \* [prog, path, n]: n words, or the count of writemany; the
                \* arguments are as many as the program asks for
    Paths,      \* the paths in play, with those they lie in, without the root
    Initial,    \* those that are files, with one piece, at first
    Plain,      \* those of names without a three-letter extension
    Ends        \* the offsets, but 0, at which the clusters of a file may end

VARIABLES
    files,      \* what each path holds
    open,       \* open_files, by descriptor
    next_fd,
    cwd,        \* current_working_dir
    cmd,        \* per process: its command; ls keeps its local cwd in the path
    pc,         \* per process: its next system call
    fd,         \* per process: the descriptor it got from _open
    n,          \* per process: words written; in cat, file_size_bytes
    ok,         \* per process: no _write of this word fell short
    status,     \* per process: exit status
    out,        \* per process: what it printed
    whole,      \* auxiliary: all that it passed to _write was stored
    alone,      \* auxiliary: no other process has run since it started
    before,     \* auxiliary: files and cwd when it started
    base        \* auxiliary: the file when append moved to its end

kernel == <<open, next_fd, cwd>>
local  == <<cmd, fd, n, ok, status, out>>
vars   == <<files, kernel, pc, local, whole, alone, before, base>>

Root  == <<>>
RootSize == 1                       \* what sys_open makes up for it
NoFd  == -1
FirstFd == 3
Zero  == <<"zero", -1>>             \* bytes never written
Old   == <<"old", 0>>               \* the first contents of a file
Word(p, i) == <<p, i>>              \* word i of p's command
Blank(p)   == <<p, 0>>
Part(piece) == <<piece[1], -piece[2]>>      \* its first characters; all of a blank
Silent == [text |-> <<>>, names |-> {}]
Nothing == [st |-> "none"]

Disk == INSTANCE Files WITH Buffers <- {}, MaxOffset <- 0

DirPrograms  == {"mkdir", "cd", "ls", "ls_path", "pwd"}
FilePrograms == {"write", "append", "writemany", "cat", "rm", "touch"}
DirPaths     == {c.path : c \in {d \in Commands : d.prog \in DirPrograms}}

\* Every command uses a path as a file or every command uses it as a directory,
\* and no command writes to a file whose size update_file_details cannot record.
ASSUME CommandsAssumption ==
    /\ Root \notin Paths /\ \A q \in Paths : Len(q) > 1 => Front(q) \in Paths
    /\ Initial \subseteq Paths \ DirPaths
    /\ \A c \in Commands :
          /\ c \in [prog : DirPrograms \cup FilePrograms, path : Paths \cup {Root}, n : Nat]
          /\ c.prog \in FilePrograms => c.path \in Paths \ DirPaths
          /\ c.prog \in {"write", "append", "writemany"} => c.n > 0 /\ c.path \notin Plain

ASSUME EndsAssumption == Ends \subseteq Nat \ {0}

\* Zero and Old are nobody's pieces.
ASSUME ProcsAssumption == {Zero[1], Old[1]} \cap Procs = {}

Exists(path) == path # Root => files[path] # Disk!Absent
IsDir(path)  == path # Root => files[path] = Disk!Directory
CanCreate(path) == ~Exists(path) /\ Disk!HasParent(path)
Size(path)   == IF path = Root THEN RootSize ELSE Len(files[path].data)

Active(p) == pc[p] \notin {"ready", "done"}

(***************************************************************************)
(* System calls of file.c.  A call on a descriptor that is not open fails. *)
(***************************************************************************)

\* Definitions whose names begin with Bug are faulty variants of the definition
\* they precede; nothing uses them but the project's mutation checks.

\* Every caller gets an open file of its own.
BugFindNone(path) == {}

find_open_file(path) == {f \in DOMAIN open : open[f].path = path}

\* The lowest free descriptor is used again.
BugLowestFree == Min({f \in FirstFd .. next_fd : f \notin DOMAIN open})

get_next_filedesc == next_fd

NewFile(path) ==
    /\ open' = [f \in DOMAIN open \cup {get_next_filedesc} |->
                   IF f = get_next_filedesc THEN [path |-> path, offset |-> 0] ELSE open[f]]
    /\ next_fd' = next_fd + 1

sys_open(p, path, creat) ==
    \/ /\ find_open_file(path) # {}
       /\ fd' = [fd EXCEPT ![p] = Min(find_open_file(path))]
       /\ UNCHANGED <<files, open, next_fd>>
    \/ /\ find_open_file(path) = {}
       /\ \/ Exists(path) /\ UNCHANGED files
          \/ creat /\ CanCreate(path) /\ Disk!Create(path, Disk!File(<<>>))
       /\ NewFile(path)
       /\ fd' = [fd EXCEPT ![p] = get_next_filedesc]
    \/ /\ find_open_file(path) = {}
       /\ ~Exists(path) /\ (creat => ~CanCreate(path))
       /\ fd' = [fd EXCEPT ![p] = NoFd]
       /\ UNCHANGED <<files, open, next_fd>>

sys_close(f) == open' = [g \in DOMAIN open \ {f} |-> open[g]]

\* To offset 0 from the start, from the current position or from the end.
sys_lseek(f, whence) ==
    open' = IF f \notin DOMAIN open THEN open
            ELSE [open EXCEPT ![f].offset = CASE whence = "SEEK_SET" -> 0
                                              [] whence = "SEEK_CUR" -> @
                                              [] whence = "SEEK_END" -> Size(open[f].path)]

CanWrite(f) == f \in DOMAIN open /\ ~IsDir(open[f].path)

\* The offset may be the end of the last cluster of the file: nothing has been
\* stored there, and it is one of Ends or follows a piece that did not fit.
AtEnd(f) ==
    LET data == files[open[f].path].data
        o    == open[f].offset
        broken(j) == data[j][2] < 0
    IN  /\ o \in Ends \/ (o \in DOMAIN data /\ broken(o))
        /\ o + 1 \in DOMAIN data => broken(o + 1)

\* What a write of one piece may store.  At the end of the last cluster all of it
\* goes to no cluster, and reads as zeroes; across that end, with no cluster left,
\* only its first part is stored.
Storable(f, piece) == {piece} \cup (IF AtEnd(f) THEN {Zero, Part(piece)} ELSE {})

sys_write(f, piece, stored) ==
    IF ~CanWrite(f) THEN UNCHANGED <<files, open>>
    ELSE /\ stored \in Storable(f, piece)
         /\ Disk!Store(open[f].path, open[f].offset, <<stored>>)
         /\ open' = [open EXCEPT ![f].offset = @ + 1]

\* As many pieces as are asked for: the cluster goes on after the end of the
\* file, with zeroes.
sys_read(f, len) ==
    [j \in 1 .. len |->
        LET at == open[f].offset + j
        IN  IF at <= Size(open[f].path) THEN files[open[f].path].data[at] ELSE Zero]

CanUnlink(path) == find_open_file(path) = {} /\ Exists(path)

\* update_file_details does not find a plain name, and its result is ignored.
sys_unlink(path) ==
    IF CanUnlink(path) /\ path \notin Plain THEN Disk!Remove(path) ELSE UNCHANGED files

Listing(dir) == {Last(q) : q \in {r \in Paths : Front(r) = dir /\ Exists(r)}}

(***************************************************************************)
(* The programs: the calls each makes, in order.  The three that write     *)
(* and cat move to the start or the end before they look at whether the    *)
(* file was opened.  Nobody closes a file but rm.                          *)
(***************************************************************************)
Program ==
    [write     |-> <<"open", "lseek", "word", "blank">>,
     append    |-> <<"open", "lseek", "word", "blank">>,
     writemany |-> <<"open", "lseek", "string">>,
     cat       |-> <<"open", "lseek", "fstat", "read">>,
     rm        |-> <<"open", "close", "unlink">>,
     touch     |-> <<"creat">>,
     mkdir     |-> <<"mkdir">>,
     cd        |-> <<"open", "chdir">>,
     ls        |-> <<"getcwd", "open", "getdents">>,
     ls_path   |-> <<"open", "getdents">>,      \* ls with an argument
     pwd       |-> <<"getcwd">>]        \* which it prints

Prog(p) == cmd[p].prog
At(p) == IF pc[p] = "ready" THEN Head(Program[Prog(p)]) ELSE pc[p]

\* The call after this one in the program's order, or _exit.
Following(p) ==
    LET calls == Program[Prog(p)]
        j     == SelectInSeq(calls, LAMBDA c : c = At(p))
    IN  IF j < Len(calls) THEN calls[j + 1] ELSE "exit"

GoTo(p, call) == pc' = [pc EXCEPT ![p] = call]
Continue(p) == GoTo(p, Following(p)) /\ UNCHANGED status
Fail(p) == GoTo(p, "exit") /\ status' = [status EXCEPT ![p] = -1]
ContinueIf(p, cond) == IF cond THEN Continue(p) ELSE Fail(p)

PathOf(p) == cmd[p].path

Open(p) ==
    /\ At(p) \in {"open", "creat"}
    /\ sys_open(p, PathOf(p), At(p) = "creat")
    /\ ContinueIf(p, fd'[p] # NoFd \/ Prog(p) \notin {"touch", "cd", "ls", "ls_path"})
    /\ UNCHANGED <<cmd, cwd, n, ok, out>>

\* write leaves the offset where the last user of the file left it.
BugNoRewind(p) == IF Prog(p) = "append" THEN "SEEK_END" ELSE "SEEK_CUR"

Whence(p) == IF Prog(p) = "append" THEN "SEEK_END" ELSE "SEEK_SET"

Lseek(p) ==
    /\ At(p) = "lseek"
    /\ sys_lseek(fd[p], Whence(p))
    /\ ContinueIf(p, fd[p] # NoFd \/ Prog(p) = "cat")
    /\ UNCHANGED <<cmd, files, next_fd, cwd, fd, n, ok, out>>

\* What p passes to _write.
PieceOf(p) ==
    IF At(p) = "word" THEN Word(p, n[p] + 1)
    ELSE IF At(p) = "blank" THEN Blank(p) ELSE Word(p, 1)

Outcomes(p) == {PieceOf(p), Zero, Part(PieceOf(p))}

\* A write that was lost is reported as made, one cut short is not.
WriteWord(p) ==
    /\ At(p) = "word"
    /\ \E stored \in Outcomes(p) :
          /\ sys_write(fd[p], PieceOf(p), stored)
          /\ ok' = [ok EXCEPT ![p] = CanWrite(fd[p]) /\ stored # Part(PieceOf(p))]
    /\ Continue(p)
    /\ UNCHANGED <<cmd, next_fd, cwd, fd, n, out>>

\* Only now are the results of both calls looked at ("Ran out of space in file.").
WriteBlank(p) ==
    /\ At(p) = "blank"
    /\ \E stored \in Outcomes(p) : sys_write(fd[p], PieceOf(p), stored)
    /\ n' = [n EXCEPT ![p] = @ + 1]
    /\ IF ~ok[p] \/ ~CanWrite(fd[p]) THEN Fail(p)
       ELSE IF n[p] + 1 < cmd[p].n THEN GoTo(p, "word") /\ UNCHANGED status
       ELSE Continue(p)
    /\ UNCHANGED <<cmd, next_fd, cwd, fd, ok, out>>

\* writemany does not look at the results.
WriteString(p) ==
    /\ At(p) = "string"
    /\ \E stored \in Outcomes(p) : sys_write(fd[p], PieceOf(p), stored)
    /\ n' = [n EXCEPT ![p] = @ + 1]
    /\ IF n[p] + 1 < cmd[p].n THEN GoTo(p, "string") /\ UNCHANGED status ELSE Continue(p)
    /\ UNCHANGED <<cmd, next_fd, cwd, fd, ok, out>>

Fstat(p) ==
    LET there == fd[p] \in DOMAIN open /\ ~IsDir(open[fd[p]].path)
    IN  /\ At(p) = "fstat"
        /\ n' = [n EXCEPT ![p] = IF there THEN Size(open[fd[p]].path) ELSE 0]
        /\ ContinueIf(p, there)
        /\ UNCHANGED <<cmd, files, kernel, fd, ok, out>>

\* What stands before the first zero is printed.
UpToZero(s) == LET z == SelectInSeq(s, LAMBDA b : b = Zero)
               IN  IF z = 0 THEN s ELSE SubSeq(s, 1, z - 1)

Read(p) ==
    LET s == IF fd[p] \in DOMAIN open /\ open[fd[p]].path # Root
             THEN sys_read(fd[p], n[p]) ELSE <<>>
    IN  /\ At(p) = "read"
        /\ open' = IF s = <<>> THEN open ELSE [open EXCEPT ![fd[p]].offset = @ + n[p]]
        /\ out' = [out EXCEPT ![p].text = UpToZero(s)]
        /\ Continue(p)
        /\ UNCHANGED <<cmd, files, next_fd, cwd, fd, n, ok>>

Close(p) ==
    /\ At(p) = "close"
    /\ sys_close(fd[p])
    /\ Continue(p)
    /\ UNCHANGED <<cmd, files, next_fd, cwd, fd, n, ok, out>>

Unlink(p) ==
    /\ At(p) = "unlink"
    /\ sys_unlink(PathOf(p))
    /\ ContinueIf(p, CanUnlink(PathOf(p)))
    /\ UNCHANGED <<cmd, kernel, fd, n, ok, out>>

Mkdir(p) ==
    /\ At(p) = "mkdir"
    /\ IF CanCreate(PathOf(p)) THEN Disk!Create(PathOf(p), Disk!Directory) ELSE UNCHANGED files
    /\ ContinueIf(p, CanCreate(PathOf(p)))
    /\ UNCHANGED <<cmd, kernel, fd, n, ok, out>>

\* The path has been opened, so it is there, and cd of a file is not in play:
\* sys_chdir would look for it in the working directory, which does not work
\* (see the TODO there).  cd ignores the result.
Chdir(p) ==
    /\ At(p) = "chdir"
    /\ cwd' = PathOf(p)
    /\ Continue(p)
    /\ UNCHANGED <<cmd, files, open, next_fd, fd, n, ok, out>>

Getcwd(p) ==
    /\ At(p) = "getcwd"
    /\ cmd' = [cmd EXCEPT ![p].path = cwd]
    /\ Continue(p)
    /\ UNCHANGED <<files, kernel, fd, n, ok, out>>

Getdents(p) ==
    /\ At(p) = "getdents"
    /\ out' = [out EXCEPT ![p].names = Listing(open[fd[p]].path)]
    /\ Continue(p)
    /\ UNCHANGED <<cmd, files, kernel, fd, n, ok>>

\* A process that has ended keeps nothing but its command.
Ended(p) ==
    /\ GoTo(p, "done")
    /\ fd' = [fd EXCEPT ![p] = NoFd]
    /\ n' = [n EXCEPT ![p] = 0]
    /\ ok' = [ok EXCEPT ![p] = TRUE]
    /\ status' = [status EXCEPT ![p] = 0]
    /\ out' = [out EXCEPT ![p] = Silent]
    /\ UNCHANGED <<files, kernel, cmd>>

Exit(p) == pc[p] = "exit" /\ Ended(p)

\* Ctrl+C or the kill command ends it between two of its calls.
Killed(p) == Active(p) /\ pc[p] # "exit" /\ Ended(p)

(***************************************************************************)
(* The auxiliary variables.                                                *)
(***************************************************************************)
AloneAfter(p, q) ==
    IF q # p THEN FALSE
    ELSE /\ pc'[p] # "done"
         /\ IF pc[p] = "ready" THEN \A r \in Procs \ {p} : ~Active(r) ELSE alone[p]

\* Steps of p that move the offset of a file other than by writing to it.
Moves(p) == At(p) \in {"read", "close"} \/ (At(p) = "lseek" /\ Prog(p) # "append")

BaseAfter(p, q) ==
    IF q = p /\ pc'[p] = "done" THEN Nothing
    ELSE IF q = p /\ At(p) = "lseek" /\ Prog(p) = "append" /\ CanWrite(fd[p]) THEN files[PathOf(p)]
    ELSE IF q # p /\ Moves(p) /\ PathOf(p) = PathOf(q) THEN Nothing
    ELSE base[q]

\* The piece p passes to _write in this step is in its place.
StoredWhole(p) ==
    At(p) \in {"word", "blank", "string"} /\ CanWrite(fd[p]) =>
        files'[open[fd[p]].path].data[open[fd[p]].offset + 1] = PieceOf(p)

WholeAfter(p, q) ==
    IF q # p THEN whole[q]
    ELSE pc'[p] # "done" => whole[p] /\ StoredWhole(p)

Record(p) ==
    /\ whole' = [q \in Procs |-> WholeAfter(p, q)]
    /\ alone' = [q \in Procs |-> AloneAfter(p, q)]
    /\ before' = [q \in Procs |->
                    IF ~alone'[q] THEN Nothing
                    ELSE IF pc[q] = "ready" THEN [files |-> files, cwd |-> cwd] ELSE before[q]]
    /\ base' = [q \in Procs |-> BaseAfter(p, q)]

Init ==
    /\ files = [q \in Paths |-> IF q \in Initial THEN Disk!File(<<Old>>) ELSE Disk!Absent]
    /\ open = <<>> /\ next_fd = FirstFd /\ cwd = Root
    /\ cmd \in [Procs -> Commands]
    /\ pc = [p \in Procs |-> "ready"]
    /\ fd = [p \in Procs |-> NoFd]
    /\ n = [p \in Procs |-> 0]
    /\ ok = [p \in Procs |-> TRUE]
    /\ status = [p \in Procs |-> 0]
    /\ out = [p \in Procs |-> Silent]
    /\ whole = [p \in Procs |-> TRUE]
    /\ alone = [p \in Procs |-> FALSE]
    /\ before = [p \in Procs |-> Nothing]
    /\ base = [p \in Procs |-> Nothing]

Step(p) ==
    /\ \/ Open(p) \/ Lseek(p) \/ WriteWord(p) \/ WriteBlank(p) \/ WriteString(p)
       \/ Fstat(p) \/ Read(p) \/ Close(p) \/ Unlink(p) \/ Mkdir(p)
       \/ Chdir(p) \/ Getcwd(p) \/ Getdents(p) \/ Exit(p) \/ Killed(p)
    /\ Record(p)

Next == \E p \in Procs : Step(p)

Spec == Init /\ [][Next]_vars

(***************************************************************************)
(* Properties.                                                             *)
(***************************************************************************)

\* The pieces p passes to _write, when it has got as far as k of them.
Pieces(p, k) ==
    [j \in 1 .. k |-> IF Prog(p) = "writemany" THEN Word(p, 1)
                      ELSE IF j % 2 = 1 THEN Word(p, (j + 1) \div 2) ELSE Blank(p)]
Text(p) == Pieces(p, IF Prog(p) = "writemany" THEN cmd[p].n ELSE 2 * cmd[p].n)

\* What the README says each command does, from the files and the working
\* directory as they were.
Effect(p, was) ==
    LET path == PathOf(p)
        old  == IF path = Root THEN Disk!Directory ELSE was.files[path]
        new  == old.st = "absent" /\ (Len(path) > 1 => was.files[Front(path)] = Disk!Directory)
        none == [files |-> was.files, cwd |-> was.cwd, status |-> 0, text |-> <<>>]
        fails == [none EXCEPT !.status = -1]
        put(what) == [none EXCEPT !.files[path] = what]
        onFile(r) == IF old.st = "file" THEN r ELSE fails
    IN  CASE Prog(p) \in {"write", "writemany"} ->
                 onFile(put(Disk!File(Disk!Overwrite(old.data, 0, Text(p)))))
          [] Prog(p) = "append" -> onFile(put(Disk!File(old.data \o Text(p))))
          [] Prog(p) = "cat"    -> onFile([none EXCEPT !.text = UpToZero(old.data)])
          [] Prog(p) = "rm"     -> onFile(IF path \in Plain THEN none ELSE put(Disk!Absent))
          [] Prog(p) = "touch"  -> IF new THEN put(Disk!File(<<>>))
                                   ELSE IF old.st = "absent" THEN fails ELSE none
          [] Prog(p) = "mkdir"  -> IF new THEN put(Disk!Directory) ELSE fails
          [] Prog(p) = "cd"     -> IF old.st = "absent" THEN fails ELSE [none EXCEPT !.cwd = path]
          [] Prog(p) = "ls_path" -> IF old.st = "absent" THEN fails ELSE none
          [] Prog(p) \in {"ls", "pwd"} -> none

\* A command that has run with no other beside it has done what the README says
\* of it, and nothing else, whatever files earlier commands left open, at
\* whatever offset, or were stopped short of writing; unless a write of its own
\* came to the end of the clusters of the file and was lost or cut short.  (rm of
\* a plain name leaves the file: see UnlinkRemoves in FileSystem.)
AloneAsDocumented ==
    \A p \in Procs : pc[p] = "exit" /\ alone[p] /\ whole[p] =>
        /\ Effect(p, before[p]) =
              [files |-> files, cwd |-> cwd, status |-> status[p], text |-> out[p].text]
        /\ Prog(p) = "ls" => out[p].names = Listing(before[p].cwd)
        /\ Prog(p) = "ls_path" /\ status[p] = 0 => out[p].names = Listing(PathOf(p))

\* The places up to j of data that hold pieces of p.
Own(p, data, j) == {i \in 1 .. j : data[i][1] = p}

\* append keeps what the file held when it moved to the end, and, as long as no
\* write of its own was lost or cut short, every piece it has written, in order,
\* while other processes write to the file or append to it: they share the
\* offset.  Not so beside cat, rm, write and writemany that move the offset after
\* that.
AppendsKept ==
    \A p \in Procs : base[p] # Nothing =>
        LET data == files[PathOf(p)].data
            own  == Own(p, data, Len(data))
            k    == IF pc[p] = "blank" THEN 2 * n[p] + 1 ELSE 2 * n[p]
        IN  /\ IsPrefix(base[p].data, data)
            /\ whole[p] => Cardinality(own) = k
            /\ whole[p] => \A j \in own : data[j] = Pieces(p, k)[Cardinality(Own(p, data, j))]

\* A file holds only what commands on it wrote: a descriptor that rm has closed
\* under a process never comes to mean another file.
OwnWordsOnly ==
    \A q \in Paths : \A b \in ToSet(files[q].data) :
        b \notin {Zero, Old} => PathOf(b[1]) = q
=============================================================================
