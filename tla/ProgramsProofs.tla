--------------------------- MODULE ProgramsProofs ---------------------------
(***************************************************************************)
(* Proofs about module Programs, for any number of processes, commands and *)
(* paths: a file holds only what commands on it wrote, what append has     *)
(* written stays, whatever runs beside it, and a command that runs alone   *)
(* does what the README says of it.                                        *)
(***************************************************************************)
EXTENDS Programs, FiniteSetTheorems, TLAPS

-----------------------------------------------------------------------------
(* The order of the calls.                                                 *)

AllPrograms == DirPrograms \cup FilePrograms

\* The calls of a program after its first one.
Later ==
    [write     |-> {"lseek", "word", "blank"},
     append    |-> {"lseek", "word", "blank"},
     writemany |-> {"lseek", "string"},
     cat       |-> {"lseek", "fstat", "read"},
     rm        |-> {"close", "unlink"},
     touch     |-> {},
     mkdir     |-> {},
     cd        |-> {"chdir"},
     ls        |-> {"open", "getdents"},
     ls_path   |-> {"getdents"},
     pwd       |-> {}]

Labels == {"ready", "exit", "done", "lseek", "word", "blank", "string", "fstat", "read",
           "close", "unlink", "chdir", "open", "getdents"}

\* A program never comes back to its first call.
FollowsProgram ==
    /\ pc \in [Procs -> Labels]
    /\ \A p \in Procs : pc[p] \in {"ready", "exit", "done"} \cup Later[Prog(p)]

Command == [prog : AllPrograms, path : Paths \cup {Root}, n : Nat]

\* The call that follows is a later one, or _exit.
LEMMA FollowingIsLater ==
    ASSUME NEW p, Prog(p) \in AllPrograms, pc[p] \in {"ready"} \cup Later[Prog(p)]
    PROVE  Following(p) \in {"exit"} \cup Later[Prog(p)]
<1>. USE DEF Following, At, Program, Later, SelectInSeq, Min
<1>1. CASE Prog(p) = "write"
  BY <1>1
<1>2. CASE Prog(p) = "append"
  BY <1>2
<1>3. CASE Prog(p) = "writemany"
  BY <1>3
<1>4. CASE Prog(p) = "cat"
  BY <1>4
<1>5. CASE Prog(p) = "rm"
  BY <1>5
<1>6. CASE Prog(p) = "touch"
  BY <1>6
<1>7. CASE Prog(p) = "mkdir"
  BY <1>7
<1>8. CASE Prog(p) = "cd"
  BY <1>8
<1>9. CASE Prog(p) = "ls"
  BY <1>9
<1>10. CASE Prog(p) = "ls_path"
  BY <1>10
<1>11. CASE Prog(p) = "pwd"
  BY <1>11
<1>. QED
  BY <1>1, <1>2, <1>3, <1>4, <1>5, <1>6, <1>7, <1>8, <1>9, <1>10, <1>11
  DEF AllPrograms, DirPrograms, FilePrograms

\* The programs that write: open, lseek, and then their words.
LEMMA FollowingOfWriters ==
    ASSUME NEW p
    PROVE  /\ Prog(p) \in {"write", "append"} =>
                /\ At(p) = "open" => Following(p) = "lseek"
                /\ At(p) = "lseek" => Following(p) = "word"
                /\ At(p) = "word" => Following(p) = "blank"
                /\ At(p) = "blank" => Following(p) = "exit"
           /\ Prog(p) = "writemany" =>
                /\ At(p) = "open" => Following(p) = "lseek"
                /\ At(p) = "lseek" => Following(p) = "string"
                /\ At(p) = "string" => Following(p) = "exit"
<1>1. ASSUME Prog(p) = "write"
      PROVE  /\ At(p) = "open" => Following(p) = "lseek"
             /\ At(p) = "lseek" => Following(p) = "word"
             /\ At(p) = "word" => Following(p) = "blank"
             /\ At(p) = "blank" => Following(p) = "exit"
  BY <1>1 DEF Following, Program, SelectInSeq, Min
<1>2. ASSUME Prog(p) = "append"
      PROVE  /\ At(p) = "open" => Following(p) = "lseek"
             /\ At(p) = "lseek" => Following(p) = "word"
             /\ At(p) = "word" => Following(p) = "blank"
             /\ At(p) = "blank" => Following(p) = "exit"
  BY <1>2 DEF Following, Program, SelectInSeq, Min
<1>3. ASSUME Prog(p) = "writemany"
      PROVE  /\ At(p) = "open" => Following(p) = "lseek"
             /\ At(p) = "lseek" => Following(p) = "string"
             /\ At(p) = "string" => Following(p) = "exit"
  BY <1>3 DEF Following, Program, SelectInSeq, Min
<1>. QED BY <1>1, <1>2, <1>3

-----------------------------------------------------------------------------
(* The types, and what each kind of state keeps from step to step.         *)

Writers == {"write", "append", "writemany"}
Piece == {Zero, Old} \cup (Procs \X Int)
Content == [st : {"absent", "dir", "file"}, data : Seq(Piece)]
OpenFile == [path : Paths \cup {Root}, offset : Nat]

Types ==
    /\ files \in [Paths -> Content]
    /\ open \in [DOMAIN open -> OpenFile]
    /\ next_fd \in Nat /\ next_fd >= FirstFd
    /\ DOMAIN open \subseteq FirstFd .. next_fd - 1
    /\ cwd \in Paths \cup {Root}
    /\ cmd \in [Procs -> Command]
    /\ \A p \in Procs : Prog(p) \in FilePrograms => PathOf(p) \in Paths
    /\ FollowsProgram
    /\ fd \in [Procs -> Int]
    /\ n \in [Procs -> Nat]

\* A process goes on to a later call, or ends; one that writes does not come
\* back to lseek.
LEMMA PcStep ==
    ASSUME Types, NEW p \in Procs, Step(p)
    PROVE  \E c \in Labels :
             /\ pc' = [pc EXCEPT ![p] = c]
             /\ c \in {"exit", "done"} \cup Later[Prog(p)]
             /\ Prog(p) \in Writers /\ pc[p] \notin {"ready", "lseek"} => c # "lseek"
<1>1. /\ Prog(p) \in AllPrograms
      /\ pc[p] \in {"ready", "exit", "done"} \cup Later[Prog(p)]
      /\ Later[Prog(p)] \subseteq Labels
  <2>1. Prog(p) \in AllPrograms
    BY DEF Types, Command, Prog
  <2>2. Later[Prog(p)] \subseteq Labels
    BY <2>1 DEF AllPrograms, DirPrograms, FilePrograms, Later, Labels
  <2>. QED BY <2>1, <2>2 DEF Types, FollowsProgram
<1>2. CASE Ended(p)
  BY <1>2 DEF Ended, GoTo, Labels
<1>3. ASSUME At(p) \notin {"exit", "done"}, Fail(p) \/ Continue(p)
      PROVE  \E c \in Labels :
             /\ pc' = [pc EXCEPT ![p] = c]
             /\ c \in {"exit", "done"} \cup Later[Prog(p)]
             /\ Prog(p) \in Writers /\ pc[p] \notin {"ready", "lseek"} => c # "lseek"
  <2>1. CASE Fail(p)
    BY <2>1 DEF Fail, GoTo, Labels
  <2>2. CASE Continue(p)
    <3>1. pc[p] \in {"ready"} \cup Later[Prog(p)]
      BY <1>1, <1>3 DEF At
    <3>2. Following(p) \in {"exit"} \cup Later[Prog(p)]
      BY <1>1, <3>1, FollowingIsLater
    <3>3. ASSUME Prog(p) \in Writers, pc[p] \notin {"ready", "lseek"}
          PROVE  Following(p) # "lseek"
      <4>1. At(p) = pc[p] /\ pc[p] \in {"word", "blank", "string"}
        BY <3>1, <3>3 DEF At, Later, Writers
      <4>2. Prog(p) \in {"write", "append"} => pc[p] \in {"word", "blank"}
        BY <3>1, <3>3 DEF Later
      <4>3. Prog(p) = "writemany" => pc[p] = "string"
        BY <3>1, <3>3 DEF Later
      <4>. QED BY <3>3, <4>1, <4>2, <4>3, FollowingOfWriters DEF Writers
    <3>4. Following(p) \in Labels
      BY <1>1, <3>2 DEF Labels
    <3>5. pc' = [pc EXCEPT ![p] = Following(p)]
      BY <2>2 DEF Continue, GoTo
    <3>. QED BY <3>2, <3>3, <3>4, <3>5
  <2>. QED BY <1>3, <2>1, <2>2
<1>4. CASE Open(p) \/ Lseek(p) \/ Fstat(p) \/ Unlink(p) \/ Mkdir(p)
  BY <1>3, <1>4 DEF Open, Lseek, Fstat, Unlink, Mkdir, ContinueIf
<1>5. CASE WriteWord(p) \/ Read(p) \/ Close(p) \/ Chdir(p) \/ Getcwd(p) \/ Getdents(p)
  BY <1>3, <1>5 DEF WriteWord, Read, Close, Chdir, Getcwd, Getdents
<1>6. CASE WriteBlank(p)
  <2>1. At(p) = "blank" /\ (Fail(p) \/ Continue(p) \/ GoTo(p, "word"))
    BY <1>6 DEF WriteBlank
  <2>2. pc[p] = "blank" /\ Prog(p) \in {"write", "append"}
    BY <1>1, <2>1 DEF At, Later, Program, AllPrograms, DirPrograms, FilePrograms
  <2>3. "word" \in Later[Prog(p)]
    BY <2>2 DEF Later
  <2>4. ASSUME GoTo(p, "word")
        PROVE  /\ pc' = [pc EXCEPT ![p] = "word"] /\ "word" \in Labels
    BY <2>4 DEF GoTo, Labels
  <2>. QED BY <1>3, <2>1, <2>3, <2>4
<1>7. CASE WriteString(p)
  <2>1. At(p) = "string" /\ (Continue(p) \/ GoTo(p, "string"))
    BY <1>7 DEF WriteString
  <2>2. pc[p] = "string" /\ Prog(p) = "writemany"
    BY <1>1, <2>1 DEF At, Later, Program, AllPrograms, DirPrograms, FilePrograms
  <2>3. "string" \in Later[Prog(p)]
    BY <2>2 DEF Later
  <2>4. ASSUME GoTo(p, "string")
        PROVE  /\ pc' = [pc EXCEPT ![p] = "string"] /\ "string" \in Labels
    BY <2>4 DEF GoTo, Labels
  <2>. QED BY <1>3, <2>1, <2>3, <2>4
<1>. QED BY <1>2, <1>4, <1>5, <1>6, <1>7 DEF Step, Exit, Killed

\* Only getcwd, the first call of ls and pwd, changes the path of a command.
LEMMA CmdStep ==
    ASSUME Types, NEW p \in Procs, Step(p)
    PROVE  /\ cmd' \in [Procs -> Command]
           /\ \A q \in Procs : cmd'[q].prog = cmd[q].prog
           /\ \A q \in Procs : \/ cmd'[q] = cmd[q]
                               \/ /\ q = p /\ Prog(q) \in {"ls", "pwd"} /\ pc[q] = "ready"
                                  /\ UNCHANGED <<open, fd>>
<1>1. CASE Getcwd(p)
  <2>1. cmd' = [cmd EXCEPT ![p].path = cwd] /\ At(p) = "getcwd" /\ UNCHANGED <<open, fd>>
    BY <1>1 DEF Getcwd, kernel
  <2>2. cmd[p] \in Command /\ cwd \in Paths \cup {Root}
    BY DEF Types
  <2>3. pc[p] = "ready" /\ Prog(p) \in {"ls", "pwd"}
    <3>1. pc[p] \in Labels /\ Prog(p) \in AllPrograms
      BY <2>2 DEF Types, FollowsProgram, Prog, Command
    <3>2. pc[p] = "ready" /\ At(p) = Head(Program[Prog(p)])
      BY <2>1, <3>1 DEF At, Labels
    <3>. QED BY <2>1, <3>1, <3>2 DEF Program, AllPrograms, DirPrograms, FilePrograms
  <2>4. [cmd[p] EXCEPT !.path = cwd] \in Command /\ [cmd[p] EXCEPT !.path = cwd].prog = cmd[p].prog
    BY <2>2 DEF Command
  <2>5. \A q \in Procs : cmd'[q] = IF q = p THEN [cmd[p] EXCEPT !.path = cwd] ELSE cmd[q]
    BY <2>1 DEF Types
  <2>6. cmd' \in [Procs -> Command]
    BY <2>1, <2>4 DEF Types
  <2>. QED BY <2>1, <2>3, <2>4, <2>5, <2>6
<1>2. CASE cmd' = cmd
  BY <1>2 DEF Types
<1>. QED
  BY <1>1, <1>2
  DEF Step, Open, Lseek, WriteWord, WriteBlank, WriteString, Fstat, Read, Close, Unlink, Mkdir,
      Chdir, Getdents, Exit, Killed, Ended

\* The pieces after a write of one piece at offset o.
LEMMA OverwriteProperties ==
    ASSUME NEW old \in Seq(Piece), NEW o \in Nat, NEW b \in Piece
    PROVE  LET r == Disk!Overwrite(old, o, <<b>>)
           IN  /\ r \in Seq(Piece)
               /\ \A i \in DOMAIN r : \/ r[i] = b \/ r[i] = Zero
                                      \/ i \in DOMAIN old /\ r[i] = old[i]
               /\ r[o + 1] = b
               /\ o = Len(old) => /\ Len(r) = Len(old) + 1 /\ r[Len(old) + 1] = b
                                  /\ \A i \in 1 .. Len(old) : r[i] = old[i]
<1>. DEFINE len == IF Len(old) > o + 1 THEN Len(old) ELSE o + 1
            r == [i \in 1 .. len |-> IF i \in o + 1 .. o + 1 THEN <<b>>[i - o]
                                     ELSE IF i \in 1 .. Len(old) THEN old[i] ELSE Zero]
<1>1. Disk!Overwrite(old, o, <<b>>) = r
  BY DEF Disk!Overwrite
<1>2. len \in Nat /\ (o = Len(old) => len = Len(old) + 1) /\ Len(old) \in Nat
  OBVIOUS
<1>3. Zero \in Piece
  BY DEF Piece
<1>4. \A i \in 1 .. len : /\ i = o + 1 => r[i] = b
                          /\ i # o + 1 /\ i \in 1 .. Len(old) => r[i] = old[i]
                          /\ i # o + 1 /\ i \notin 1 .. Len(old) => r[i] = Zero
  BY <1>2
<1>. HIDE DEF len
<1>5. DOMAIN r = 1 .. len
  OBVIOUS
<1>6. r \in [1 .. len -> Piece]
  <2>. HIDE DEF r
  <2>1. \A i \in 1 .. len : r[i] \in Piece
    BY <1>3, <1>4
  <2>. QED BY <2>1, <1>5 DEF r
<1>. HIDE DEF r
<1>7. r \in Seq(Piece) /\ Len(r) = len
  BY <1>2, <1>6
<1>8. \A i \in DOMAIN r : r[i] = b \/ r[i] = Zero \/ (i \in DOMAIN old /\ r[i] = old[i])
  BY <1>4, <1>5
<1>9. o = Len(old) => /\ Len(r) = Len(old) + 1 /\ r[Len(old) + 1] = b
                      /\ \A i \in 1 .. Len(old) : r[i] = old[i]
  BY <1>2, <1>4, <1>7
<1>10. r[o + 1] = b
  BY <1>2, <1>4 DEF len
<1>. QED BY <1>1, <1>7, <1>8, <1>9, <1>10

-----------------------------------------------------------------------------
(* The files and the open files.                                           *)

\* One descriptor for a path, never given out twice; what a process holds is
\* the file its command names, or closed.
Descriptors ==
    /\ \A f, g \in DOMAIN open : open[f].path = open[g].path => f = g
    /\ \A p \in Procs :
          /\ fd[p] = NoFd \/ fd[p] \in FirstFd .. next_fd - 1
          /\ fd[p] \in DOMAIN open => open[fd[p]].path = PathOf(p)
          /\ pc[p] = "ready" => fd[p] = NoFd

\* What stands after this step where p's file was to be written.
Stored(p) == files'[open[fd[p]].path].data[open[fd[p]].offset + 1]

\* p has written a piece, whole, cut short or lost, to its file.
Wrote(p) ==
    LET path == open[fd[p]].path IN
    /\ At(p) \in {"word", "blank", "string"}
    /\ CanWrite(fd[p])
    /\ path \in Paths
    /\ files[path].st = "file"
    /\ Stored(p) \in Outcomes(p)
    /\ files' = [files EXCEPT ![path] =
                    Disk!File(Disk!Overwrite(files[path].data, open[fd[p]].offset, <<Stored(p)>>))]
    /\ open' = [open EXCEPT ![fd[p]].offset = @ + 1]
    /\ next_fd' = next_fd /\ fd' = fd

\* A path that was absent, or that nobody has open, is created or removed.
Replaced(q) ==
    /\ files[q] = Disk!Absent \/ find_open_file(q) = {}
    /\ \E what \in {Disk!Absent, Disk!Directory, Disk!File(<<>>)} :
          files' = [files EXCEPT ![q] = what]

\* What a write may leave: the piece, whole or cut short, or zeroes.
LEMMA OutcomesAre ==
    ASSUME Types, NEW p \in Procs
    PROVE  /\ PieceOf(p) \in Procs \X Nat /\ PieceOf(p)[1] = p
           /\ \A b \in Outcomes(p) : b = Zero \/ (b \in Procs \X Int /\ b[1] = p)
<1>1. PieceOf(p) \in Procs \X Nat /\ PieceOf(p)[1] = p
  BY DEF Types, PieceOf, Word, Blank
<1>2. Part(PieceOf(p)) \in Procs \X Int /\ Part(PieceOf(p))[1] = p
  BY <1>1 DEF Part
<1>. QED BY <1>1, <1>2 DEF Outcomes

\* What a write to an open file leaves where the offset stood.
LEMMA WriteIs ==
    ASSUME Types, NEW p \in Procs, CanWrite(fd[p]), NEW b \in Outcomes(p),
           sys_write(fd[p], PieceOf(p), b)
    PROVE  Stored(p) = b
<1>. DEFINE path == open[fd[p]].path
            o == open[fd[p]].offset
            r == Disk!Overwrite(files[path].data, o, <<b>>)
<1>1. files' = [files EXCEPT ![path] = Disk!File(r)]
  BY DEF sys_write, Disk!Store
<1>2. path \in Paths /\ o \in Nat /\ files[path].data \in Seq(Piece)
  BY DEF CanWrite, IsDir, Types, OpenFile, Content
<1>3. b \in Piece
  BY OutcomesAre DEF Piece
<1>4. r[o + 1] = b
  BY <1>2, <1>3, OverwriteProperties
<1>5. files'[path].data = r
  <2>. HIDE DEF path, r
  <2>. QED BY <1>1, <1>2 DEF Types, Disk!File
<1>. QED BY <1>4, <1>5 DEF Stored

\* The calls of _write: on a descriptor that is not open, nothing happens.
LEMMA WriteStep ==
    ASSUME Types, NEW p \in Procs, WriteWord(p) \/ WriteBlank(p) \/ WriteString(p)
    PROVE  \/ ~CanWrite(fd[p]) /\ UNCHANGED <<files, open, next_fd, fd>>
           \/ CanWrite(fd[p]) /\ Wrote(p)
<1>1. /\ At(p) \in {"word", "blank", "string"} /\ UNCHANGED <<next_fd, fd>>
      /\ \E stored \in Outcomes(p) : sys_write(fd[p], PieceOf(p), stored)
  BY DEF WriteWord, WriteBlank, WriteString
<1>2. PICK b \in Outcomes(p) : sys_write(fd[p], PieceOf(p), b)
  BY <1>1
<1>3. CASE ~CanWrite(fd[p])
  BY <1>1, <1>2, <1>3 DEF sys_write
<1>4. CASE CanWrite(fd[p])
  <2>. DEFINE path == open[fd[p]].path
  <2>1. /\ files[path].st = "file"
        /\ files' = [files EXCEPT ![path] =
              Disk!File(Disk!Overwrite(files[path].data, open[fd[p]].offset, <<b>>))]
        /\ open' = [open EXCEPT ![fd[p]].offset = @ + 1]
    BY <1>2, <1>4 DEF sys_write, Disk!Store
  <2>2. path \in Paths
    BY <1>4 DEF CanWrite, IsDir, Types, OpenFile
  <2>3. Stored(p) = b
    BY <1>2, <1>4, WriteIs
  <2>. QED BY <1>1, <1>4, <2>1, <2>2, <2>3 DEF Wrote
<1>. QED BY <1>3, <1>4

\* A system call writes a piece, replaces a path, or leaves the files alone.
LEMMA FilesStep ==
    ASSUME Types, NEW p \in Procs, Step(p)
    PROVE  files' = files \/ Wrote(p) \/ \E q \in Paths : Replaced(q)
<1>0. PathOf(p) \in Paths \cup {Root}
  BY DEF Types, Command, PathOf
<1>1. CASE WriteWord(p) \/ WriteBlank(p) \/ WriteString(p)
  BY <1>1, WriteStep
<1>2. CASE Open(p)
  <2>1. \/ files' = files
        \/ ~Exists(PathOf(p)) /\ Disk!Create(PathOf(p), Disk!File(<<>>))
    BY <1>2 DEF Open, sys_open, CanCreate
  <2>2. ASSUME ~Exists(PathOf(p)), Disk!Create(PathOf(p), Disk!File(<<>>))
        PROVE  \E q \in Paths : Replaced(q)
    BY <1>0, <2>2 DEF Exists, Disk!Create, Replaced
  <2>. QED BY <2>1, <2>2
<1>3. CASE Mkdir(p)
  <2>1. \/ files' = files
        \/ ~Exists(PathOf(p)) /\ Disk!Create(PathOf(p), Disk!Directory)
    BY <1>3 DEF Mkdir, CanCreate
  <2>2. ASSUME ~Exists(PathOf(p)), Disk!Create(PathOf(p), Disk!Directory)
        PROVE  \E q \in Paths : Replaced(q)
    BY <1>0, <2>2 DEF Exists, Disk!Create, Replaced
  <2>. QED BY <2>1, <2>2
<1>4. CASE Unlink(p)
  <2>1. \/ files' = files
        \/ find_open_file(PathOf(p)) = {} /\ Disk!Remove(PathOf(p))
    BY <1>4 DEF Unlink, sys_unlink, CanUnlink
  <2>2. PathOf(p) \in Paths
    <3>1. Prog(p) = "rm"
      <4>1. At(p) = "unlink" /\ pc[p] \in {"ready", "exit", "done"} \cup Later[Prog(p)]
        BY <1>4 DEF Unlink, Types, FollowsProgram
      <4>2. Prog(p) \in AllPrograms
        BY DEF Types, Command, Prog
      <4>. QED BY <4>1, <4>2 DEF At, Later, Program, AllPrograms, DirPrograms, FilePrograms
    <3>. QED BY <3>1 DEF Types, FilePrograms
  <2>. QED BY <2>1, <2>2 DEF Disk!Remove, Replaced
<1>5. CASE files' = files
  BY <1>5
<1>. QED
  BY <1>1, <1>2, <1>3, <1>4, <1>5
  DEF Step, Lseek, Fstat, Read, Close, Chdir, Getcwd, Getdents, Exit, Killed, Ended

\* p gets a descriptor of its own for a path that nobody has open.
Opened(p) ==
    /\ find_open_file(PathOf(p)) = {}
    /\ PathOf(p) # Root => files'[PathOf(p)] # Disk!Absent
    /\ open' = [f \in DOMAIN open \cup {next_fd} |->
                   IF f = next_fd THEN [path |-> PathOf(p), offset |-> 0] ELSE open[f]]
    /\ next_fd' = next_fd + 1
    /\ fd' = [fd EXCEPT ![p] = next_fd]

\* p moves the offset of its file without writing.
Moved(p) ==
    /\ At(p) \in {"lseek", "read"}
    /\ \/ Moves(p) /\ \E o \in Nat : open' = [open EXCEPT ![fd[p]].offset = o]
       \/ Prog(p) = "append" /\ open' = [open EXCEPT ![fd[p]].offset = Size(open[fd[p]].path)]
    /\ fd[p] \in DOMAIN open
    /\ next_fd' = next_fd /\ fd' = fd

\* p closes its file.
Closed(p) ==
    /\ At(p) = "close"
    /\ open' = [g \in DOMAIN open \ {fd[p]} |-> open[g]]
    /\ next_fd' = next_fd /\ fd' = fd

\* p keeps or loses its descriptor, or gets the one there is for its path.
Settled(p) ==
    /\ UNCHANGED <<open, next_fd>>
    /\ \E f \in {fd[p], NoFd} \cup find_open_file(PathOf(p)) : fd' = [fd EXCEPT ![p] = f]

\* A system call on the open files is one of these, or a write.
LEMMA OpenStep ==
    ASSUME Types, Descriptors, NEW p \in Procs, Step(p)
    PROVE  Opened(p) \/ Moved(p) \/ Closed(p) \/ Settled(p) \/ Wrote(p)
<1>1. ASSUME UNCHANGED <<open, next_fd, fd>> PROVE Settled(p)
  <2>1. fd' = [fd EXCEPT ![p] = fd[p]]
    BY <1>1 DEF Types
  <2>. QED BY <1>1, <2>1 DEF Settled
<1>2. CASE Open(p)
  <2>. DEFINE path == PathOf(p)
  <2>1. sys_open(p, path, At(p) = "creat")
    BY <1>2 DEF Open
  <2>2. CASE find_open_file(path) # {} /\ fd' = [fd EXCEPT ![p] = Min(find_open_file(path))]
             /\ UNCHANGED <<open, next_fd>>
    <3>1. PICK f : f \in find_open_file(path)
      BY <2>2
    <3>2. find_open_file(path) = {f} /\ f \in Int
      BY <3>1 DEF find_open_file, Descriptors, Types
    <3>3. Min({f}) = f
      BY <3>2 DEF Min
    <3>. QED BY <2>2, <3>2, <3>3 DEF Settled
  <2>3. CASE /\ find_open_file(path) = {} /\ NewFile(path) /\ fd' = [fd EXCEPT ![p] = get_next_filedesc]
             /\ (Exists(path) /\ UNCHANGED files) \/ Disk!Create(path, Disk!File(<<>>))
    <3>1. path # Root => path \in Paths
      BY DEF Types, Command, PathOf
    <3>2. path # Root => files'[path] # Disk!Absent
      BY <2>3, <3>1 DEF Exists, Disk!Create, Disk!File, Disk!Absent, Types
    <3>. QED BY <2>3, <3>2 DEF Opened, NewFile, get_next_filedesc
  <2>4. CASE fd' = [fd EXCEPT ![p] = NoFd] /\ UNCHANGED <<open, next_fd>>
    BY <2>4 DEF Settled
  <2>. QED BY <2>1, <2>2, <2>3, <2>4 DEF sys_open
<1>3. CASE Lseek(p)
  <2>1. At(p) = "lseek" /\ sys_lseek(fd[p], Whence(p)) /\ next_fd' = next_fd /\ fd' = fd
    BY <1>3 DEF Lseek
  <2>2. CASE fd[p] \notin DOMAIN open
    BY <1>1, <2>1, <2>2 DEF sys_lseek
  <2>3. CASE fd[p] \in DOMAIN open /\ Prog(p) = "append"
    <3>1. open' = [open EXCEPT ![fd[p]].offset = Size(open[fd[p]].path)]
      BY <2>1, <2>3 DEF sys_lseek, Whence
    <3>. QED BY <2>1, <2>3, <3>1 DEF Moved
  <2>4. CASE fd[p] \in DOMAIN open /\ Prog(p) # "append"
    <3>1. open' = [open EXCEPT ![fd[p]].offset = 0]
      BY <2>1, <2>4 DEF sys_lseek, Whence
    <3>2. Moves(p)
      BY <2>1, <2>4 DEF Moves
    <3>. QED BY <2>1, <2>4, <3>1, <3>2 DEF Moved
  <2>. QED BY <2>2, <2>3, <2>4
<1>4. CASE Read(p)
  <2>. DEFINE s == IF fd[p] \in DOMAIN open /\ open[fd[p]].path # Root
                   THEN sys_read(fd[p], n[p]) ELSE <<>>
  <2>1. /\ At(p) = "read" /\ next_fd' = next_fd /\ fd' = fd
        /\ open' = IF s = <<>> THEN open ELSE [open EXCEPT ![fd[p]].offset = @ + n[p]]
    BY <1>4 DEF Read
  <2>2. CASE s = <<>>
    BY <1>1, <2>1, <2>2
  <2>3. CASE s # <<>>
    <3>1. fd[p] \in DOMAIN open
      BY <2>3
    <3>2. open[fd[p]].offset + n[p] \in Nat
      BY <3>1 DEF Types, OpenFile
    <3>3. open' = [open EXCEPT ![fd[p]].offset = open[fd[p]].offset + n[p]]
      BY <2>1, <2>3
    <3>4. Moves(p)
      BY <2>1 DEF Moves
    <3>. QED BY <2>1, <3>1, <3>2, <3>3, <3>4 DEF Moved
  <2>. QED BY <2>2, <2>3
<1>5. CASE Close(p)
  BY <1>5 DEF Close, sys_close, Closed
<1>6. CASE WriteWord(p) \/ WriteBlank(p) \/ WriteString(p)
  BY <1>1, <1>6, WriteStep
<1>7. CASE UNCHANGED <<open, next_fd, fd>>
  BY <1>1, <1>7
<1>8. CASE Exit(p) \/ Killed(p)
  <2>1. fd' = [fd EXCEPT ![p] = NoFd] /\ UNCHANGED <<open, next_fd>>
    BY <1>8 DEF Exit, Killed, Ended, kernel
  <2>. QED BY <2>1 DEF Settled
<1>. QED
  BY <1>2, <1>3, <1>4, <1>5, <1>6, <1>7, <1>8
  DEF Step, Fstat, Unlink, Mkdir, Chdir, Getcwd, Getdents, kernel

-----------------------------------------------------------------------------
(* The invariant of the kernel's tables.                                   *)

\* What a write leaves in a file.
LEMMA WroteFiles ==
    ASSUME Types, NEW p \in Procs, Wrote(p)
    PROVE  /\ Stored(p) \in Piece /\ (Stored(p) = Zero \/ Stored(p)[1] = p)
           /\ files' \in [Paths -> Content]
           /\ LET path == open[fd[p]].path
                  old  == files[path].data
                  new  == files'[path].data
              IN  /\ old \in Seq(Piece) /\ new \in Seq(Piece)
                  /\ files'[path].st = "file"
                  /\ \A q \in Paths : q # path => files'[q] = files[q]
                  /\ \A i \in DOMAIN new : \/ new[i] = Stored(p) \/ new[i] = Zero
                                           \/ i \in DOMAIN old /\ new[i] = old[i]
                  /\ open[fd[p]].offset = Len(old) =>
                        /\ Len(new) = Len(old) + 1 /\ new[Len(old) + 1] = Stored(p)
                        /\ \A i \in 1 .. Len(old) : new[i] = old[i]
<1>. DEFINE path == open[fd[p]].path
            old == files[path].data
            o == open[fd[p]].offset
            r == Disk!Overwrite(old, o, <<Stored(p)>>)
<1>1. Stored(p) \in Piece /\ (Stored(p) = Zero \/ Stored(p)[1] = p)
  BY OutcomesAre DEF Wrote, Piece
<1>2. path \in Paths /\ o \in Nat /\ old \in Seq(Piece)
  BY DEF Wrote, CanWrite, Types, OpenFile, Content
<1>3. /\ r \in Seq(Piece)
      /\ \A i \in DOMAIN r : \/ r[i] = Stored(p) \/ r[i] = Zero
                             \/ i \in DOMAIN old /\ r[i] = old[i]
      /\ o = Len(old) => /\ Len(r) = Len(old) + 1 /\ r[Len(old) + 1] = Stored(p)
                         /\ \A i \in 1 .. Len(old) : r[i] = old[i]
  BY <1>1, <1>2, OverwriteProperties
<1>4. files' = [files EXCEPT ![path] = Disk!File(r)]
  BY DEF Wrote
<1>. HIDE DEF r
<1>5. Disk!File(r) \in Content /\ Disk!File(r).data = r /\ Disk!File(r).st = "file"
  BY <1>3 DEF Disk!File, Content
<1>. HIDE DEF path, old, o
<1>6. files' \in [Paths -> Content] /\ files'[path] = Disk!File(r)
      /\ \A q \in Paths : q # path => files'[q] = files[q]
  BY <1>2, <1>4, <1>5 DEF Types
<1>. QED BY <1>1, <1>2, <1>3, <1>5, <1>6 DEF path, old, o

\* What is left of the type of the open files.
LEMMA OpenTypes ==
    ASSUME Types, Descriptors, NEW p \in Procs, Step(p)
    PROVE  /\ open' \in [DOMAIN open' -> OpenFile]
           /\ next_fd' \in Nat /\ next_fd' >= FirstFd
           /\ DOMAIN open' \subseteq FirstFd .. next_fd' - 1
           /\ fd' \in [Procs -> Int]
           /\ \A q \in Procs : q # p => fd'[q] = fd[q]
<1>. USE DEF Types
<1>0. FirstFd \in Nat /\ NoFd \in Int /\ \A f \in DOMAIN open : f \in Int
  BY DEF FirstFd, NoFd
<1>1. CASE Opened(p)
  <2>1. PathOf(p) \in Paths \cup {Root}
    BY DEF Command, PathOf
  <2>2. /\ DOMAIN open' = DOMAIN open \cup {next_fd}
        /\ open' \in [DOMAIN open' -> OpenFile]
    BY <1>1, <2>1 DEF Opened, OpenFile
  <2>3. next_fd' = next_fd + 1 /\ fd' = [fd EXCEPT ![p] = next_fd]
    BY <1>1 DEF Opened
  <2>4. DOMAIN open' \subseteq FirstFd .. next_fd' - 1
    BY <1>0, <2>2, <2>3
  <2>. QED BY <1>0, <2>2, <2>3, <2>4
<1>2. ASSUME NEW f \in DOMAIN open, NEW o \in Nat, open' = [open EXCEPT ![f].offset = o]
      PROVE  DOMAIN open' = DOMAIN open /\ open' \in [DOMAIN open' -> OpenFile]
  BY <1>2 DEF OpenFile
<1>3. CASE Moved(p)
  <2>1. fd[p] \in DOMAIN open /\ next_fd' = next_fd /\ fd' = fd
    BY <1>3 DEF Moved
  <2>2. Prog(p) = "append" => Size(open[fd[p]].path) \in Nat
    <3>1. Prog(p) = "append" => open[fd[p]].path \in Paths
      BY <2>1 DEF Descriptors, FilePrograms
    <3>. QED BY <3>1 DEF Size, RootSize, Content
  <2>3. \E o \in Nat : open' = [open EXCEPT ![fd[p]].offset = o]
    BY <1>3, <2>2 DEF Moved
  <2>. QED BY <1>2, <2>1, <2>3
<1>4. CASE Closed(p)
  <2>1. /\ DOMAIN open' \subseteq DOMAIN open /\ open' \in [DOMAIN open' -> OpenFile]
        /\ next_fd' = next_fd /\ fd' = fd
    BY <1>4 DEF Closed
  <2>. QED BY <2>1
<1>5. CASE Settled(p)
  <2>1. PICK f \in {fd[p], NoFd} \cup find_open_file(PathOf(p)) : fd' = [fd EXCEPT ![p] = f]
    BY <1>5 DEF Settled
  <2>2. f \in Int
    BY <1>0, <2>1 DEF find_open_file
  <2>. QED BY <1>5, <2>1, <2>2 DEF Settled
<1>6. CASE Wrote(p)
  <2>1. /\ fd[p] \in DOMAIN open /\ open[fd[p]].offset + 1 \in Nat
        /\ open' = [open EXCEPT ![fd[p]].offset = open[fd[p]].offset + 1]
    BY <1>6 DEF Wrote, CanWrite, OpenFile
  <2>. QED BY <1>2, <1>6, <2>1 DEF Wrote
<1>. QED BY <1>1, <1>3, <1>4, <1>5, <1>6, OpenStep

\* Every system call keeps the types.
LEMMA TypesStep ==
    ASSUME Types, Descriptors, NEW p \in Procs, Step(p)
    PROVE  Types'
<1>1. files' \in [Paths -> Content]
  <2>1. CASE files' = files
    BY <2>1 DEF Types
  <2>2. CASE Wrote(p)
    BY <2>2, WroteFiles
  <2>3. ASSUME NEW q \in Paths, Replaced(q) PROVE files' \in [Paths -> Content]
    <3>1. {Disk!Absent, Disk!Directory, Disk!File(<<>>)} \subseteq Content
      BY DEF Disk!Absent, Disk!Directory, Disk!File, Content
    <3>2. PICK what \in Content : files' = [files EXCEPT ![q] = what]
      BY <2>3, <3>1 DEF Replaced
    <3>. QED BY <3>2 DEF Types
  <2>. QED BY <2>1, <2>2, <2>3, FilesStep
<1>2. /\ open' \in [DOMAIN open' -> OpenFile]
      /\ next_fd' \in Nat /\ next_fd' >= FirstFd
      /\ DOMAIN open' \subseteq FirstFd .. next_fd' - 1
      /\ fd' \in [Procs -> Int]
  BY OpenTypes
<1>3. cwd' \in Paths \cup {Root}
  <2>1. cwd' = cwd \/ cwd' = PathOf(p)
    BY DEF Step, Open, Lseek, WriteWord, WriteBlank, WriteString, Fstat, Read, Close, Unlink, Mkdir,
           Chdir, Getcwd, Getdents, Exit, Killed, Ended, kernel
  <2>2. PathOf(p) \in Paths \cup {Root}
    BY DEF Types, Command, PathOf
  <2>. QED BY <2>1, <2>2 DEF Types
<1>4. /\ cmd' \in [Procs -> Command]
      /\ \A q \in Procs : Prog(q)' = Prog(q)
      /\ \A q \in Procs : Prog(q) \in FilePrograms => PathOf(q)' = PathOf(q)
  BY CmdStep DEF Prog, PathOf, FilePrograms
<1>5. FollowsProgram'
  <2>1. PICK c \in Labels : /\ pc' = [pc EXCEPT ![p] = c]
                            /\ c \in {"exit", "done"} \cup Later[Prog(p)]
    BY PcStep
  <2>. QED BY <1>4, <2>1 DEF FollowsProgram, Types
<1>6. n' \in [Procs -> Nat]
  <2>1. CASE Fstat(p)
    <3>. DEFINE there == fd[p] \in DOMAIN open /\ ~IsDir(open[fd[p]].path)
    <3>1. n' = [n EXCEPT ![p] = IF there THEN Size(open[fd[p]].path) ELSE 0]
      BY <2>1 DEF Fstat
    <3>2. there => Size(open[fd[p]].path) \in Nat
      BY DEF IsDir, Types, OpenFile, Content, Size
    <3>. QED BY <3>1, <3>2 DEF Types
  <2>2. CASE WriteBlank(p) \/ WriteString(p)
    BY <2>2 DEF WriteBlank, WriteString, Types
  <2>3. CASE Exit(p) \/ Killed(p)
    BY <2>3 DEF Exit, Killed, Ended, Types
  <2>4. CASE n' = n
    BY <2>4 DEF Types
  <2>. QED
    BY <2>1, <2>2, <2>3, <2>4
    DEF Step, Open, Lseek, WriteWord, Read, Close, Unlink, Mkdir, Chdir, Getcwd, Getdents
<1>. QED BY <1>1, <1>2, <1>3, <1>4, <1>5, <1>6 DEF Types

\* No descriptor comes to mean another file.
LEMMA DescriptorsStep ==
    ASSUME Types, Descriptors, NEW p \in Procs, Step(p)
    PROVE  Descriptors'
<1>0. FirstFd \in Nat /\ NoFd \notin FirstFd .. next_fd /\ DOMAIN open \subseteq FirstFd .. next_fd - 1
      /\ next_fd \in Nat /\ next_fd >= FirstFd
  BY DEF FirstFd, NoFd, Types
<1>1. PICK c \in Labels : pc' = [pc EXCEPT ![p] = c] /\ c \in {"exit", "done"} \cup Later[Prog(p)]
  BY PcStep
<1>2. \A q \in Procs : pc'[q] = "ready" => q # p /\ pc[q] = "ready"
  <2>1. Prog(p) \in AllPrograms
    BY DEF Types, Command, Prog
  <2>2. c # "ready"
    BY <1>1, <2>1 DEF Later, AllPrograms, DirPrograms, FilePrograms
  <2>. QED BY <1>1, <2>2 DEF Types, FollowsProgram
<1>3. \A q \in Procs : q # p => fd'[q] = fd[q]
  BY OpenTypes
<1>4. \A q \in Procs : \/ PathOf(q)' = PathOf(q)
                       \/ q = p /\ fd[q] = NoFd /\ UNCHANGED <<open, fd>>
  BY CmdStep DEF PathOf, Descriptors
<1>5. ASSUME DOMAIN open' \subseteq DOMAIN open, next_fd' = next_fd, fd' = fd,
             \A f \in DOMAIN open' : open'[f].path = open[f].path
      PROVE  Descriptors'
  <2>1. \A f, g \in DOMAIN open' : open'[f].path = open'[g].path => f = g
    BY <1>5 DEF Descriptors
  <2>2. \A q \in Procs : fd'[q] \in DOMAIN open' => open'[fd'[q]].path = PathOf(q)'
    BY <1>0, <1>4, <1>5 DEF Descriptors
  <2>3. \A q \in Procs : fd'[q] = NoFd \/ fd'[q] \in FirstFd .. next_fd' - 1
    BY <1>5 DEF Descriptors
  <2>4. \A q \in Procs : pc'[q] = "ready" => fd'[q] = NoFd
    BY <1>2, <1>5 DEF Descriptors
  <2>. QED BY <2>1, <2>2, <2>3, <2>4 DEF Descriptors
<1>6. ASSUME NEW f \in DOMAIN open, NEW o, open' = [open EXCEPT ![f].offset = o]
      PROVE  DOMAIN open' = DOMAIN open /\ \A g \in DOMAIN open' : open'[g].path = open[g].path
  BY <1>6 DEF Types, OpenFile
<1>7. CASE Moved(p)
  BY <1>5, <1>6, <1>7 DEF Moved
<1>8. CASE Wrote(p)
  BY <1>5, <1>6, <1>8 DEF Wrote, CanWrite
<1>9. CASE Closed(p)
  BY <1>5, <1>9 DEF Closed
<1>10. CASE Settled(p)
  <2>1. PICK f \in {fd[p], NoFd} \cup find_open_file(PathOf(p)) : fd' = [fd EXCEPT ![p] = f]
    BY <1>10 DEF Settled
  <2>2. UNCHANGED <<open, next_fd>> /\ fd'[p] = f
    BY <1>10, <2>1 DEF Settled, Types
  <2>3. f = NoFd \/ f \in FirstFd .. next_fd - 1
    BY <1>0, <2>1 DEF find_open_file, Descriptors
  <2>4. f \in DOMAIN open => open[f].path = PathOf(p)
    BY <1>0, <2>1 DEF find_open_file, Descriptors
  <2>5. \A q \in Procs : fd'[q] \in DOMAIN open => open[fd'[q]].path = PathOf(q)'
    BY <1>0, <1>3, <1>4, <2>2, <2>4 DEF Descriptors
  <2>6. \A q \in Procs : fd'[q] = NoFd \/ fd'[q] \in FirstFd .. next_fd - 1
    BY <1>3, <2>2, <2>3 DEF Descriptors
  <2>7. \A q \in Procs : pc'[q] = "ready" => fd'[q] = NoFd
    BY <1>2, <1>3 DEF Descriptors
  <2>. QED BY <2>2, <2>5, <2>6, <2>7 DEF Descriptors
<1>11. CASE Opened(p)
  <2>1. /\ DOMAIN open' = DOMAIN open \cup {next_fd} /\ next_fd \notin DOMAIN open
        /\ open'[next_fd].path = PathOf(p)
        /\ \A f \in DOMAIN open : open'[f] = open[f]
        /\ \A f \in DOMAIN open : open[f].path # PathOf(p)
        /\ next_fd' = next_fd + 1 /\ fd'[p] = next_fd
    BY <1>0, <1>11 DEF Opened, find_open_file, Types
  <2>2. \A f, g \in DOMAIN open' : open'[f].path = open'[g].path => f = g
    BY <2>1 DEF Descriptors
  <2>3. \A q \in Procs : q # p => fd[q] # next_fd
    BY <1>0 DEF Descriptors
  <2>4. PathOf(p)' = PathOf(p)
    BY <1>0, <1>4, <2>1
  <2>5. \A q \in Procs : fd'[q] \in DOMAIN open' => open'[fd'[q]].path = PathOf(q)'
    BY <1>3, <1>4, <2>1, <2>3, <2>4 DEF Descriptors
  <2>6. \A q \in Procs : fd'[q] = NoFd \/ fd'[q] \in FirstFd .. next_fd' - 1
    BY <1>0, <1>3, <2>1 DEF Descriptors
  <2>7. \A q \in Procs : pc'[q] = "ready" => fd'[q] = NoFd
    BY <1>2, <1>3 DEF Descriptors
  <2>. QED BY <2>2, <2>5, <2>6, <2>7 DEF Descriptors
<1>. QED BY <1>7, <1>8, <1>9, <1>10, <1>11, OpenStep

-----------------------------------------------------------------------------
(* Whose words a file holds.                                               *)

\* r is past its lseek, and its command names q.
WritesTo(r, q) == Prog(r) \in Writers /\ PathOf(r) = q /\ pc[r] \notin {"ready", "lseek"}

\* A piece in a file is of a process that writes to that file.
WordsInPlace ==
    \A q \in Paths, r \in Procs : \A i \in DOMAIN files[q].data :
        files[q].data[i][1] = r => WritesTo(r, q)

\* Once it writes to a file, a process never turns to another.
LEMMA WritesToStays ==
    ASSUME Types, NEW p \in Procs, Step(p), NEW r \in Procs, NEW q, WritesTo(r, q)
    PROVE  WritesTo(r, q)'
<1>1. Prog(r)' = Prog(r) /\ PathOf(r)' = PathOf(r)
  BY CmdStep DEF Prog, PathOf, WritesTo, Writers
<1>2. PICK c \in Labels :
             /\ pc' = [pc EXCEPT ![p] = c]
             /\ c \in {"exit", "done"} \cup Later[Prog(p)]
             /\ Prog(p) \in Writers /\ pc[p] \notin {"ready", "lseek"} => c # "lseek"
  BY PcStep
<1>3. Prog(p) \in Writers => c # "ready"
  BY <1>2 DEF Writers, Later
<1>4. pc'[r] = IF r = p THEN c ELSE pc[r]
  BY <1>2 DEF Types, FollowsProgram
<1>. QED BY <1>1, <1>2, <1>3, <1>4 DEF WritesTo

\* Every system call keeps the words in place.
LEMMA WordsStep ==
    ASSUME Types, Descriptors, WordsInPlace, NEW p \in Procs, Step(p)
    PROVE  WordsInPlace'
<1>1. ASSUME \A q \in Paths, r \in Procs : \A i \in DOMAIN files'[q].data :
                 files'[q].data[i][1] = r => WritesTo(r, q)
      PROVE  WordsInPlace'
  <2>1. SUFFICES ASSUME NEW q \in Paths, NEW r \in Procs, NEW i \in DOMAIN files'[q].data,
                        files'[q].data[i][1] = r
                 PROVE  WritesTo(r, q)'
    BY DEF WordsInPlace
  <2>2. WritesTo(r, q)
    BY <1>1, <2>1
  <2>. QED BY <2>2, WritesToStays
<1>2. CASE files' = files
  BY <1>1, <1>2 DEF WordsInPlace
<1>3. ASSUME NEW x \in Paths, Replaced(x) PROVE WordsInPlace'
  <2>1. PICK what \in {Disk!Absent, Disk!Directory, Disk!File(<<>>)} : files' = [files EXCEPT ![x] = what]
    BY <1>3 DEF Replaced
  <2>2. \A q \in Paths : files'[q] = IF q = x THEN what ELSE files[q]
    BY <2>1 DEF Types
  <2>3. DOMAIN what.data = {}
    BY DEF Disk!Absent, Disk!Directory, Disk!File
  <2>. QED BY <1>1, <2>2, <2>3 DEF WordsInPlace
<1>4. CASE Wrote(p)
  <2>. DEFINE path == open[fd[p]].path
              old  == files[path].data
              new  == files'[path].data
  <2>1. /\ Stored(p) = Zero \/ Stored(p)[1] = p
        /\ \A q \in Paths : q # path => files'[q] = files[q]
        /\ \A i \in DOMAIN new : \/ new[i] = Stored(p) \/ new[i] = Zero
                                 \/ i \in DOMAIN old /\ new[i] = old[i]
    BY <1>4, WroteFiles
  <2>2. path = PathOf(p) /\ path \in Paths /\ At(p) \in {"word", "blank", "string"}
    BY <1>4 DEF Wrote, CanWrite, Descriptors
  <2>3. WritesTo(p, path)
    <3>1. pc[p] \in {"ready", "exit", "done"} \cup Later[Prog(p)] /\ Prog(p) \in AllPrograms
      BY DEF Types, FollowsProgram, Command, Prog
    <3>2. Prog(p) \in Writers /\ pc[p] \notin {"ready", "lseek"}
      BY <2>2, <3>1 DEF At, Later, Program, AllPrograms, DirPrograms, FilePrograms, Writers
    <3>. QED BY <2>2, <3>2 DEF WritesTo
  <2>4. Zero[1] \notin Procs
    BY ProcsAssumption
  <2>5. \A r \in Procs : \A i \in DOMAIN new : new[i][1] = r => WritesTo(r, path)
    BY <2>1, <2>2, <2>3, <2>4 DEF WordsInPlace
  <2>6. \A q \in Paths, r \in Procs : \A i \in DOMAIN files'[q].data :
            files'[q].data[i][1] = r => WritesTo(r, q)
    BY <2>1, <2>5 DEF WordsInPlace
  <2>. QED BY <1>1, <2>6
<1>. QED BY <1>2, <1>3, <1>4, FilesStep

\* The tables are in order at the start.
LEMMA InitTables == Init => Types /\ Descriptors /\ WordsInPlace
<1>. SUFFICES ASSUME Init PROVE Types /\ Descriptors /\ WordsInPlace
  OBVIOUS
<1>1. cmd \in [Procs -> Command]
      /\ \A p \in Procs : Prog(p) \in FilePrograms => PathOf(p) \in Paths
  BY CommandsAssumption DEF Init, Command, AllPrograms, Prog, PathOf
<1>2. files \in [Paths -> Content]
  <2>1. Disk!File(<<Old>>) \in Content /\ Disk!Absent \in Content
    BY DEF Disk!File, Disk!Absent, Content, Piece
  <2>. QED BY <2>1 DEF Init
<1>3. DOMAIN open = {} /\ open \in [DOMAIN open -> OpenFile]
  BY DEF Init
<1>4. FollowsProgram
  BY DEF Init, FollowsProgram, Labels
<1>5. Types
  BY <1>1, <1>2, <1>3, <1>4 DEF Init, Types, Root, FirstFd, NoFd
<1>6. Descriptors
  BY <1>3 DEF Init, Descriptors
<1>7. WordsInPlace
  <2>1. \A q \in Paths : \A i \in DOMAIN files[q].data : files[q].data[i] = Old
    BY DEF Init, Disk!File, Disk!Absent
  <2>. QED BY <2>1, ProcsAssumption DEF WordsInPlace
<1>. QED BY <1>5, <1>6, <1>7

\* The tables and the words, together, are inductive.
LEMMA ProgramsInvariant == Spec => [](Types /\ Descriptors /\ WordsInPlace)
<1>. DEFINE Inv == Types /\ Descriptors /\ WordsInPlace
<1>1. Init => Inv
  BY InitTables
<1>2. Inv /\ [Next]_vars => Inv'
  <2>. SUFFICES ASSUME Inv, [Next]_vars PROVE Inv'
    OBVIOUS
  <2>1. ASSUME NEW p \in Procs, Step(p) PROVE Inv'
    BY <2>1, TypesStep, DescriptorsStep, WordsStep
  <2>2. CASE UNCHANGED vars
    BY <2>2
    DEF vars, kernel, local, Types, Descriptors, WordsInPlace, WritesTo, FollowsProgram, Prog, PathOf
  <2>. QED BY <2>1, <2>2 DEF Next
<1>. QED BY <1>1, <1>2, PTL DEF Spec

\* A file holds only what commands on it wrote, for any number of processes:
\* although rm closes files under other processes, a descriptor never comes to
\* mean another file.
THEOREM WordsStayInTheirFile == Spec => []OwnWordsOnly
<1>1. Types /\ WordsInPlace => OwnWordsOnly
  <2>. SUFFICES ASSUME Types, WordsInPlace,
                       NEW q \in Paths, NEW b \in ToSet(files[q].data), b \notin {Zero, Old}
                PROVE  PathOf(b[1]) = q
    BY DEF OwnWordsOnly
  <2>1. PICK i \in DOMAIN files[q].data : b = files[q].data[i]
    BY DEF ToSet
  <2>2. b \in Piece
    BY <2>1 DEF Types, Content
  <2>3. b[1] \in Procs
    BY <2>2 DEF Piece
  <2>. QED BY <2>1, <2>3 DEF WordsInPlace, WritesTo
<1>. QED BY <1>1, ProgramsInvariant, PTL

-----------------------------------------------------------------------------
(* What append has written stays.                                          *)

\* A file that is open is there.
OpenExist == \A f \in DOMAIN open : open[f].path # Root => files[open[f].path] # Disk!Absent

\* append counts its words from 0.
NotBegun == \A p \in Procs : Prog(p) = "append" /\ pc[p] \in {"ready", "lseek"} => n[p] = 0

\* The first k pieces that append writes.
AppendPieces(p, k) ==
    [j \in 1 .. k |-> IF j % 2 = 1 THEN Word(p, (j + 1) \div 2) ELSE Blank(p)]

\* data holds these, in order, and no other piece of p.
HoldsPieces(p, data, k) ==
    /\ Cardinality(Own(p, data, Len(data))) = k
    /\ \A j \in Own(p, data, Len(data)) : data[j] = AppendPieces(p, k)[Cardinality(Own(p, data, j))]

\* How many pieces p has written.
Progress(p) == IF pc[p] = "blank" THEN 2 * n[p] + 1 ELSE 2 * n[p]

\* The shared offset stands at the end of the file as long as nobody has moved
\* it, so every piece, of whatever process, goes to the end.
Appending(p) ==
    /\ Prog(p) = "append" /\ pc[p] \in {"word", "blank", "exit"}
    /\ CanWrite(fd[p])
    /\ open[fd[p]].offset = Len(files[PathOf(p)].data)
    /\ base[p].data \in Seq(Piece)
    /\ IsPrefix(base[p].data, files[PathOf(p)].data)
    /\ whole[p] => HoldsPieces(p, files[PathOf(p)].data, Progress(p))

AppendInv == \A p \in Procs : base[p] # Nothing => Appending(p)

\* The places of p's pieces, when a file grows by one piece.
LEMMA OwnGrows ==
    ASSUME NEW p, NEW data \in Seq(Piece), NEW new \in Seq(Piece), Len(new) = Len(data) + 1,
           \A i \in 1 .. Len(data) : new[i] = data[i]
    PROVE  /\ \A j \in 1 .. Len(data) : Own(p, new, j) = Own(p, data, j)
           /\ \A j \in 0 .. Len(data) : IsFiniteSet(Own(p, data, j)) /\ Cardinality(Own(p, data, j)) \in Nat
           /\ Own(p, new, Len(new)) = Own(p, data, Len(data)) \cup
                 (IF new[Len(new)][1] = p THEN {Len(new)} ELSE {})
           /\ Len(new) \notin Own(p, data, Len(data))
<1>1. \A j \in 1 .. Len(data) : Own(p, new, j) = Own(p, data, j)
  BY DEF Own
<1>2. ASSUME NEW j \in 0 .. Len(data)
      PROVE  IsFiniteSet(Own(p, data, j)) /\ Cardinality(Own(p, data, j)) \in Nat
  <2>1. IsFiniteSet(1 .. j)
    BY FS_Interval
  <2>2. Own(p, data, j) \in SUBSET (1 .. j)
    BY DEF Own
  <2>. QED BY <2>1, <2>2, FS_Subset, FS_CardinalityType
<1>3. Own(p, new, Len(new)) = Own(p, data, Len(data)) \cup
                 (IF new[Len(new)][1] = p THEN {Len(new)} ELSE {})
  <2>1. 1 .. Len(new) = 1 .. Len(data) \cup {Len(new)} /\ Len(data) \in Nat
    OBVIOUS
  <2>. QED BY <2>1 DEF Own
<1>4. Len(new) \notin Own(p, data, Len(data))
  BY DEF Own
<1>. QED BY <1>1, <1>2, <1>3, <1>4

\* A prefix of a file is a prefix of it when the file grows.
LEMMA PrefixGrows ==
    ASSUME NEW b \in Seq(Piece), NEW data \in Seq(Piece), NEW new \in Seq(Piece),
           Len(new) = Len(data) + 1, \A i \in 1 .. Len(data) : new[i] = data[i], IsPrefix(b, data)
    PROVE  IsPrefix(b, new)
<1>1. Len(b) \in Nat /\ Len(b) <= Len(data) /\ Len(data) \in Nat
  BY DEF IsPrefix
<1>2. SubSeq(new, 1, Len(b)) = SubSeq(data, 1, Len(b))
  BY <1>1
<1>. QED BY <1>1, <1>2 DEF IsPrefix

\* Another process adds a piece.
LEMMA HoldsAfterOther ==
    ASSUME NEW p, NEW k \in Nat, NEW data \in Seq(Piece), NEW new \in Seq(Piece),
           Len(new) = Len(data) + 1, \A i \in 1 .. Len(data) : new[i] = data[i],
           new[Len(new)][1] # p, HoldsPieces(p, data, k)
    PROVE  HoldsPieces(p, new, k)
<1>1. Own(p, data, Len(data)) \subseteq 1 .. Len(data)
  BY DEF Own
<1>2. \A j \in 1 .. Len(data) : Own(p, new, j) = Own(p, data, j)
  BY DEF Own
<1>3. Own(p, new, Len(new)) = Own(p, data, Len(data))
  <2>1. 1 .. Len(new) = 1 .. Len(data) \cup {Len(new)} /\ Len(data) \in Nat
    OBVIOUS
  <2>. QED BY <2>1 DEF Own
<1>. QED BY <1>1, <1>2, <1>3 DEF HoldsPieces

\* p adds its next piece.
LEMMA HoldsAfterOwn ==
    ASSUME NEW p, NEW k \in Nat, NEW data \in Seq(Piece), NEW new \in Seq(Piece),
           Len(new) = Len(data) + 1, \A i \in 1 .. Len(data) : new[i] = data[i],
           new[Len(new)][1] = p, new[Len(new)] = AppendPieces(p, k + 1)[k + 1],
           HoldsPieces(p, data, k)
    PROVE  HoldsPieces(p, new, k + 1)
<1>. DEFINE own == Own(p, data, Len(data))
<1>0. Len(data) \in Nat /\ own \subseteq 1 .. Len(data) /\ Cardinality(own) = k
  BY DEF Own, HoldsPieces
<1>1. Own(p, new, Len(new)) = own \cup {Len(new)} /\ Len(new) \notin own
  BY OwnGrows
<1>2. IsFiniteSet(own)
  BY <1>0, OwnGrows
<1>3. Cardinality(own \cup {Len(new)}) = k + 1
  BY <1>0, <1>1, <1>2, FS_AddElement
<1>4. ASSUME NEW j \in own
      PROVE  new[j] = AppendPieces(p, k + 1)[Cardinality(Own(p, new, j))]
  <2>1. j \in 1 .. Len(data) /\ Own(p, new, j) = Own(p, data, j)
    BY <1>0, OwnGrows
  <2>. DEFINE c == Cardinality(Own(p, data, j))
  <2>2. Own(p, data, j) \in SUBSET own /\ j \in Own(p, data, j)
    BY <1>0, <2>1 DEF Own
  <2>3. IsFiniteSet(Own(p, data, j)) /\ c \in Nat
    BY <2>1, OwnGrows
  <2>4. c <= k /\ c # 0
    <3>1. c <= k
      BY <1>0, <1>2, <2>2, FS_Subset
    <3>2. c # 0
      BY <2>2, <2>3, FS_EmptySet
    <3>. QED BY <3>1, <3>2
  <2>5. AppendPieces(p, k + 1)[c] = AppendPieces(p, k)[c]
    <3>1. c \in 1 .. k /\ c \in 1 .. k + 1
      BY <2>3, <2>4
    <3>. HIDE DEF c
    <3>. QED BY <3>1 DEF AppendPieces
  <2>6. data[j] = AppendPieces(p, k)[c]
    BY DEF HoldsPieces
  <2>. QED BY <2>1, <2>5, <2>6
<1>5. new[Len(new)] = AppendPieces(p, k + 1)[Cardinality(Own(p, new, Len(new)))]
  BY <1>1, <1>3
<1>. QED BY <1>1, <1>3, <1>4, <1>5 DEF HoldsPieces

\* The piece that append writes next.
LEMMA NextPiece ==
    ASSUME NEW p \in Procs, Types, Prog(p) = "append", pc[p] \in {"word", "blank"}
    PROVE  /\ PieceOf(p) = AppendPieces(p, Progress(p) + 1)[Progress(p) + 1]
           /\ Progress(p) \in Nat
<1>1. n[p] \in Nat /\ At(p) = pc[p]
  BY DEF Types, At
<1>2. CASE pc[p] = "word"
  <2>1. Progress(p) = 2 * n[p] /\ PieceOf(p) = Word(p, n[p] + 1)
    BY <1>1, <1>2 DEF Progress, PieceOf
  <2>2. (2 * n[p] + 1) % 2 = 1 /\ ((2 * n[p] + 1) + 1) \div 2 = n[p] + 1
    BY <1>1
  <2>. DEFINE j == 2 * n[p] + 1
  <2>3. j \in 1 .. j /\ j % 2 = 1 /\ (j + 1) \div 2 = n[p] + 1
    BY <1>1, <2>2
  <2>. HIDE DEF j
  <2>4. AppendPieces(p, j)[j] = Word(p, n[p] + 1)
    BY <2>3 DEF AppendPieces
  <2>. QED BY <1>1, <2>1, <2>4 DEF j
<1>3. CASE pc[p] = "blank"
  <2>1. Progress(p) = 2 * n[p] + 1 /\ PieceOf(p) = Blank(p)
    BY <1>1, <1>3 DEF Progress, PieceOf
  <2>2. ((2 * n[p] + 1) + 1) % 2 = 0
    BY <1>1
  <2>. DEFINE j == (2 * n[p] + 1) + 1
  <2>3. j \in 1 .. j /\ j % 2 # 1
    BY <1>1, <2>2
  <2>. HIDE DEF j
  <2>4. AppendPieces(p, j)[j] = Blank(p)
    BY <2>3 DEF AppendPieces
  <2>. QED BY <1>1, <2>1, <2>4 DEF j
<1>. QED BY <1>2, <1>3

\* An open file is not removed, and a new one is there.
LEMMA OpenExistStep ==
    ASSUME Types, Descriptors, OpenExist, NEW p \in Procs, Step(p)
    PROVE  OpenExist'
<1>1. \A f \in DOMAIN open' : \/ f \in DOMAIN open /\ open'[f].path = open[f].path
                              \/ open'[f].path # Root => files'[open'[f].path] # Disk!Absent
  <2>1. CASE Opened(p)
    BY <2>1 DEF Opened
  <2>2. CASE Moved(p)
    BY <2>2 DEF Moved, Types, OpenFile
  <2>3. CASE Closed(p)
    BY <2>3 DEF Closed
  <2>4. CASE Settled(p)
    BY <2>4 DEF Settled
  <2>5. CASE Wrote(p)
    BY <2>5 DEF Wrote, Types, OpenFile
  <2>. QED BY <2>1, <2>2, <2>3, <2>4, <2>5, OpenStep
<1>2. \A f \in DOMAIN open : open[f].path # Root => files'[open[f].path] # Disk!Absent
  <2>1. CASE files' = files
    BY <2>1 DEF OpenExist
  <2>2. CASE Wrote(p)
    <3>1. /\ files'[open[fd[p]].path].st = "file"
          /\ \A q \in Paths : q # open[fd[p]].path => files'[q] = files[q]
      BY <2>2, WroteFiles
    <3>2. Disk!Absent.st # "file" /\ \A f \in DOMAIN open : open[f].path # Root => open[f].path \in Paths
      BY DEF Disk!Absent, Types, OpenFile
    <3>. QED BY <3>1, <3>2 DEF OpenExist
  <2>3. ASSUME NEW x \in Paths, Replaced(x)
        PROVE  \A f \in DOMAIN open : open[f].path # Root => files'[open[f].path] # Disk!Absent
    <3>1. \A f \in DOMAIN open : open[f].path # Root => open[f].path # x /\ open[f].path \in Paths
      BY <2>3 DEF Replaced, find_open_file, OpenExist, Types, OpenFile
    <3>2. \A q \in Paths : q # x => files'[q] = files[q]
      BY <2>3 DEF Replaced, Types
    <3>. QED BY <3>1, <3>2 DEF OpenExist
  <2>. QED BY <2>1, <2>2, <2>3, FilesStep
<1>. QED BY <1>1, <1>2 DEF OpenExist

\* What a step does to the count and to the place of a process in its program.
LEMMA ProgressStep ==
    ASSUME Types, NEW p \in Procs, Step(p), NEW q \in Procs
    PROVE  /\ q # p => pc'[q] = pc[q] /\ n'[q] = n[q]
           /\ Prog(q) = "append" /\ pc[q] \in {"ready", "lseek"} => n'[q] = n[q] \/ pc'[q] = "done"
<1>1. q # p => pc'[q] = pc[q]
  BY PcStep DEF Types, FollowsProgram
<1>2. q # p => n'[q] = n[q]
  BY DEF Step, Open, Lseek, WriteWord, WriteBlank, WriteString, Fstat, Read, Close, Unlink, Mkdir,
         Chdir, Getcwd, Getdents, Exit, Killed, Ended, Types
<1>3. ASSUME q = p, Prog(q) = "append", pc[q] \in {"ready", "lseek"} PROVE n'[q] = n[q] \/ pc'[q] = "done"
  <2>1. At(p) \in {"open", "lseek"}
    BY <1>3 DEF At, Program
  <2>2. Open(p) \/ Lseek(p) \/ Ended(p)
    BY <2>1
    DEF Step, WriteWord, WriteBlank, WriteString, Fstat, Read, Close, Unlink, Mkdir,
        Chdir, Getcwd, Getdents, Exit, Killed
  <2>3. Ended(p) => pc'[p] = "done"
    BY DEF Ended, GoTo, Types, FollowsProgram
  <2>. QED BY <1>3, <2>2, <2>3 DEF Open, Lseek
<1>. QED BY <1>1, <1>2, <1>3

\* append has written nothing before it has moved to the end.
LEMMA NotBegunStep ==
    ASSUME Types, NotBegun, NEW p \in Procs, Step(p)
    PROVE  NotBegun'
<1>1. SUFFICES ASSUME NEW q \in Procs, Prog(q)' = "append", pc'[q] \in {"ready", "lseek"}
               PROVE  n'[q] = 0
  BY DEF NotBegun
<1>2. Prog(q) = "append"
  BY <1>1, CmdStep DEF Prog
<1>3. pc[q] \in {"ready", "lseek"}
  <2>1. PICK c \in Labels :
             /\ pc' = [pc EXCEPT ![p] = c]
             /\ Prog(p) \in Writers /\ pc[p] \notin {"ready", "lseek"} => c # "lseek"
             /\ c \in {"exit", "done"} \cup Later[Prog(p)]
    BY PcStep
  <2>2. q = p => c # "ready"
    BY <1>2, <2>1 DEF Later
  <2>3. pc'[q] = IF q = p THEN c ELSE pc[q]
    BY <2>1 DEF Types, FollowsProgram
  <2>. QED BY <1>1, <1>2, <2>1, <2>2, <2>3 DEF Writers
<1>. QED BY <1>1, <1>2, <1>3, ProgressStep DEF NotBegun

\* append moves to the end of its file.
LEMMA BaseSet ==
    ASSUME Types, Descriptors, WordsInPlace, NotBegun, NEW p \in Procs, Step(p),
           At(p) = "lseek", Prog(p) = "append", CanWrite(fd[p]), pc'[p] # "done",
           base'[p] = files[PathOf(p)]
    PROVE  Appending(p)'
<1>. DEFINE data == files[PathOf(p)].data
<1>1. Lseek(p)
  <2>1. Ended(p) => pc'[p] = "done"
    BY DEF Ended, GoTo, Types, FollowsProgram
  <2>. QED
    BY <2>1
    DEF Step, Open, WriteWord, WriteBlank, WriteString, Fstat, Read, Close, Unlink, Mkdir,
        Chdir, Getcwd, Getdents, Exit, Killed
<1>2. /\ files' = files /\ cmd' = cmd /\ fd' = fd /\ n' = n
      /\ sys_lseek(fd[p], Whence(p)) /\ ContinueIf(p, fd[p] # NoFd \/ Prog(p) = "cat")
  BY <1>1 DEF Lseek
<1>3. /\ fd[p] \in DOMAIN open /\ open[fd[p]].path = PathOf(p) /\ ~IsDir(PathOf(p))
      /\ fd[p] # NoFd /\ PathOf(p) \in Paths /\ data \in Seq(Piece)
  <2>1. fd[p] \in DOMAIN open /\ open[fd[p]].path = PathOf(p) /\ ~IsDir(PathOf(p))
    BY DEF CanWrite, Descriptors
  <2>2. fd[p] # NoFd
    BY <2>1 DEF Types, NoFd, FirstFd
  <2>3. PathOf(p) \in Paths
    BY DEF Types, FilePrograms
  <2>4. data \in Seq(Piece)
    BY <2>3 DEF Types, Content
  <2>. QED BY <2>1, <2>2, <2>3, <2>4
<1>4. pc'[p] = "word"
  <2>1. Following(p) = "word"
    BY FollowingOfWriters
  <2>. QED BY <1>2, <1>3, <2>1 DEF ContinueIf, Continue, GoTo, Types, FollowsProgram
<1>5. open' = [open EXCEPT ![fd[p]].offset = Len(data)]
  BY <1>2, <1>3 DEF sys_lseek, Whence, Size, IsDir
<1>6. fd[p] \in DOMAIN open' /\ open'[fd[p]].path = PathOf(p) /\ open'[fd[p]].offset = Len(data)
  BY <1>3, <1>5 DEF Types, OpenFile
<1>7. pc[p] = "lseek" /\ n[p] = 0
  BY DEF At, Program, NotBegun
<1>8. HoldsPieces(p, data, 0)
  <2>1. \A i \in DOMAIN data : data[i][1] # p
    BY <1>3, <1>7 DEF WordsInPlace, WritesTo
  <2>2. Own(p, data, Len(data)) = {}
    BY <1>3, <2>1 DEF Own
  <2>. QED BY <2>2, FS_EmptySet DEF HoldsPieces
<1>9. IsPrefix(data, data)
  BY <1>3 DEF IsPrefix
<1>10. PathOf(p)' = PathOf(p) /\ Prog(p)' = Prog(p) /\ fd'[p] = fd[p]
  BY <1>2 DEF PathOf, Prog
<1>11. CanWrite(fd[p])'
  <2>1. IsDir(PathOf(p))' <=> IsDir(PathOf(p))
    BY <1>2, <1>10 DEF IsDir
  <2>. QED BY <1>2, <1>3, <1>6, <1>10, <2>1 DEF CanWrite, IsDir
<1>12. Progress(p)' = 0
  BY <1>2, <1>4, <1>7 DEF Progress
<1>. QED
  BY <1>2, <1>3, <1>4, <1>6, <1>8, <1>9, <1>10, <1>11, <1>12 DEF Appending

\* A write at the end of a file adds its piece there.
LEMMA WroteAtEnd ==
    ASSUME Types, NEW p \in Procs, Wrote(p), NEW path, path = open[fd[p]].path,
           open[fd[p]].offset = Len(files[path].data)
    PROVE  /\ files[path].data \in Seq(Piece) /\ files'[path].data \in Seq(Piece)
           /\ files'[path].st = "file"
           /\ Len(files'[path].data) = Len(files[path].data) + 1
           /\ files'[path].data[Len(files'[path].data)] = Stored(p)
           /\ \A i \in 1 .. Len(files[path].data) : files'[path].data[i] = files[path].data[i]
           /\ Stored(p) = Zero \/ Stored(p)[1] = p
<1>1. LET old == files[open[fd[p]].path].data
          new == files'[open[fd[p]].path].data
      IN  /\ old \in Seq(Piece) /\ new \in Seq(Piece)
          /\ files'[open[fd[p]].path].st = "file"
          /\ open[fd[p]].offset = Len(old) =>
                /\ Len(new) = Len(old) + 1 /\ new[Len(old) + 1] = Stored(p)
                /\ \A i \in 1 .. Len(old) : new[i] = old[i]
  BY WroteFiles, Zenon
<1>2. Stored(p) = Zero \/ Stored(p)[1] = p
  BY WroteFiles
<1>. QED BY <1>1, <1>2, Zenon

\* A process to which all has been stored wrote nothing in this step, or all of
\* a piece.
LEMMA WholeStays ==
    ASSUME NEW p \in Procs, Step(p), NEW q \in Procs, whole'[q]
    PROVE  /\ q # p => whole[q]
           /\ q = p /\ pc'[p] # "done" => whole[p] /\ StoredWhole(p)
<1>1. WholeAfter(p, q)
  <2>1. whole'[q] = WholeAfter(p, q)
    BY DEF Step, Record
  <2>. QED BY <2>1
<1>. QED BY <1>1 DEF WholeAfter

\* append writes a piece.
LEMMA BaseOwn ==
    ASSUME Types, Descriptors, NEW p \in Procs, Step(p), Appending(p), pc'[p] # "done",
           base'[p] = base[p]
    PROVE  Appending(p)'
<1>. DEFINE path == PathOf(p)
            data == files[path].data
            new  == files'[path].data
<1>1. Prog(p) = "append" /\ pc[p] \in {"word", "blank", "exit"} /\ At(p) = pc[p] /\ CanWrite(fd[p])
  BY DEF Appending, At
<1>2. WriteWord(p) \/ WriteBlank(p)
  <2>1. Ended(p) => pc'[p] = "done"
    BY DEF Ended, GoTo, Types, FollowsProgram
  <2>. QED
    BY <1>1, <2>1
    DEF Step, Open, Lseek, WriteString, Fstat, Read, Close, Unlink, Mkdir,
        Chdir, Getcwd, Getdents, Exit, Killed
<1>3. /\ pc[p] \in {"word", "blank"} /\ pc'[p] \in {"word", "blank", "exit"}
      /\ Progress(p)' = Progress(p) + 1 /\ cmd' = cmd
  <2>1. CASE WriteWord(p)
    <3>1. At(p) = "word" /\ n' = n /\ cmd' = cmd /\ pc' = [pc EXCEPT ![p] = Following(p)]
      BY <2>1 DEF WriteWord, Continue, GoTo
    <3>2. pc'[p] = "blank"
      BY <1>1, <3>1, FollowingOfWriters DEF Types, FollowsProgram
    <3>. QED BY <1>1, <3>1, <3>2 DEF Progress, Types
  <2>2. CASE WriteBlank(p)
    <3>1. /\ At(p) = "blank" /\ n' = [n EXCEPT ![p] = @ + 1] /\ cmd' = cmd
          /\ Fail(p) \/ GoTo(p, "word") \/ Continue(p)
      BY <2>2 DEF WriteBlank
    <3>2. pc'[p] \in {"exit", "word"}
      BY <1>1, <3>1, FollowingOfWriters DEF Types, FollowsProgram, Fail, GoTo, Continue
    <3>3. n'[p] = n[p] + 1 /\ n[p] \in Nat
      BY <3>1 DEF Types
    <3>. QED BY <1>1, <3>1, <3>2, <3>3 DEF Progress
  <2>. QED BY <1>2, <2>1, <2>2
<1>4. Wrote(p)
  BY <1>1, <1>2, WriteStep
<1>5. fd[p] \in DOMAIN open /\ open[fd[p]].path = path /\ path \in Paths /\ path # Root
      /\ open[fd[p]].offset = Len(data)
  BY <1>1, <1>4 DEF Wrote, CanWrite, Descriptors, IsDir, Appending
<1>6. /\ data \in Seq(Piece) /\ new \in Seq(Piece) /\ files'[path].st = "file"
      /\ Len(new) = Len(data) + 1 /\ new[Len(new)] = Stored(p)
      /\ \A i \in 1 .. Len(data) : new[i] = data[i]
  <2>1. open[fd[p]].path = PathOf(p) /\ open[fd[p]].offset = Len(files[PathOf(p)].data)
    BY <1>5
  <2>. QED BY <1>4, <2>1, WroteAtEnd
<1>7. PathOf(p)' = path /\ Prog(p)' = Prog(p) /\ fd' = fd
  BY <1>3, <1>4 DEF PathOf, Prog, Wrote
<1>8. fd[p] \in DOMAIN open' /\ open'[fd[p]].path = path /\ open'[fd[p]].offset = Len(new)
  <2>1. open' = [open EXCEPT ![fd[p]].offset = @ + 1]
    BY <1>4 DEF Wrote
  <2>. QED BY <1>5, <1>6, <2>1 DEF Types, OpenFile
<1>9. ASSUME whole'[p] PROVE HoldsPieces(p, new, Progress(p) + 1)
  <2>0. whole[p] /\ Stored(p) = PieceOf(p) /\ PieceOf(p)[1] = p
    BY <1>1, <1>3, <1>9, WholeStays, OutcomesAre DEF StoredWhole, Stored
  <2>1. /\ PieceOf(p) = AppendPieces(p, Progress(p) + 1)[Progress(p) + 1]
        /\ Progress(p) \in Nat
    BY <1>1, <1>3, NextPiece
  <2>2. HoldsPieces(p, data, Progress(p))
    BY <2>0 DEF Appending
  <2>3. new[Len(new)] = PieceOf(p)
    BY <1>6, <2>0
  <2>. HIDE DEF data, new
  <2>. QED BY <1>6, <2>0, <2>1, <2>2, <2>3, HoldsAfterOwn
<1>10. IsPrefix(base[p].data, new) /\ base[p].data \in Seq(Piece)
  <2>1. base[p].data \in Seq(Piece) /\ IsPrefix(base[p].data, data)
    BY DEF Appending
  <2>. HIDE DEF data, new
  <2>. QED BY <1>6, <2>1, PrefixGrows
<1>11. CanWrite(fd[p])'
  <2>1. files'[path] # Disk!Directory
    BY <1>6 DEF Disk!Directory
  <2>. QED BY <1>5, <1>7, <1>8, <2>1 DEF CanWrite, IsDir
<1>. QED
  BY <1>1, <1>3, <1>7, <1>8, <1>9, <1>10, <1>11 DEF Appending

\* Another process makes a call, which does not move the offset of the file.
LEMMA BaseOther ==
    ASSUME Types, Descriptors, OpenExist, NEW p \in Procs, Step(p), NEW q \in Procs, q # p,
           Appending(q), base'[q] = base[q], ~(Moves(p) /\ PathOf(p) = PathOf(q))
    PROVE  Appending(q)'
<1>. DEFINE path == PathOf(q)
            data == files[path].data
            new  == files'[path].data
<1>1. /\ Prog(q) = "append" /\ pc[q] \in {"word", "blank", "exit"}
      /\ fd[q] \in DOMAIN open /\ open[fd[q]].path = path /\ path \in Paths /\ path # Root
      /\ open[fd[q]].offset = Len(data) /\ files[path] # Disk!Directory
      /\ data \in Seq(Piece)
  <2>1. /\ Prog(q) = "append" /\ pc[q] \in {"word", "blank", "exit"}
        /\ fd[q] \in DOMAIN open /\ open[fd[q]].path = path /\ path # Root
        /\ open[fd[q]].offset = Len(data) /\ files[path] # Disk!Directory
    BY DEF Appending, CanWrite, IsDir, Descriptors
  <2>2. path \in Paths
    BY <2>1 DEF Types, FilePrograms
  <2>. QED BY <2>1, <2>2 DEF Types, Content
<1>2. PathOf(q)' = path /\ Prog(q)' = Prog(q)
  BY CmdStep DEF PathOf, Prog
<1>3. fd'[q] = fd[q] /\ pc'[q] = pc[q] /\ Progress(q)' = Progress(q)
  <2>1. fd'[q] = fd[q]
    BY OpenTypes
  <2>2. pc'[q] = pc[q] /\ n'[q] = n[q]
    BY ProgressStep
  <2>. QED BY <2>1, <2>2 DEF Progress
<1>4. ASSUME /\ fd[q] \in DOMAIN open' /\ open'[fd[q]].path = path
             /\ open'[fd[q]].offset = Len(new) /\ files'[path] # Disk!Directory
             /\ IsPrefix(base[q].data, new) /\ (whole[q] => HoldsPieces(q, new, Progress(q)))
      PROVE  Appending(q)'
  <2>1. CanWrite(fd[q])'
    BY <1>1, <1>2, <1>3, <1>4 DEF CanWrite, IsDir
  <2>2. base'[q].data \in Seq(Piece)
    BY DEF Appending
  <2>3. whole'[q] => whole[q]
    BY WholeStays
  <2>. QED BY <1>1, <1>2, <1>3, <1>4, <2>1, <2>2, <2>3 DEF Appending
<1>5. /\ IsPrefix(base[q].data, data) /\ (whole[q] => HoldsPieces(q, data, Progress(q)))
      /\ base[q].data \in Seq(Piece)
  BY DEF Appending
<1>6. CASE Wrote(p) /\ fd[p] = fd[q]
  <2>1. /\ open[fd[p]].path = path /\ open[fd[p]].offset = Len(data)
        /\ open' = [open EXCEPT ![fd[q]].offset = @ + 1]
    BY <1>1, <1>6 DEF Wrote
  <2>2. /\ new \in Seq(Piece) /\ files'[path].st = "file"
        /\ Len(new) = Len(data) + 1 /\ new[Len(new)] = Stored(p)
        /\ \A i \in 1 .. Len(data) : new[i] = data[i]
        /\ Stored(p) = Zero \/ Stored(p)[1] = p
    <3>1. Stored(p) = Zero \/ Stored(p)[1] = p
      BY <1>6, WroteFiles
    <3>2. LET was == files[open[fd[p]].path].data
              is  == files'[open[fd[p]].path].data
          IN  /\ was \in Seq(Piece) /\ is \in Seq(Piece)
              /\ files'[open[fd[p]].path].st = "file"
              /\ open[fd[p]].offset = Len(was) =>
                    /\ Len(is) = Len(was) + 1 /\ is[Len(was) + 1] = Stored(p)
                    /\ \A i \in 1 .. Len(was) : is[i] = was[i]
      BY <1>6, WroteFiles, Zenon
    <3>3. /\ new \in Seq(Piece) /\ files'[path].st = "file"
          /\ Len(new) = Len(data) + 1 /\ new[Len(data) + 1] = Stored(p)
          /\ \A i \in 1 .. Len(data) : new[i] = data[i]
      BY <2>1, <3>2, Zenon
    <3>. QED BY <3>1, <3>3
  <2>3. Progress(q) \in Nat
    BY DEF Types, Progress
  <2>4. fd[q] \in DOMAIN open' /\ open'[fd[q]].path = path /\ open'[fd[q]].offset = Len(new)
    BY <1>1, <2>1, <2>2 DEF Types, OpenFile
  <2>5. files'[path] # Disk!Directory
    BY <2>2 DEF Disk!Directory
  <2>6. IsPrefix(base[q].data, new) /\ (whole[q] => HoldsPieces(q, new, Progress(q)))
    <3>0. new[Len(new)][1] # q
      BY <2>2, ProcsAssumption
    <3>. HIDE DEF data, new
    <3>1. IsPrefix(base[q].data, new)
      BY <1>1, <1>5, <2>2, PrefixGrows
    <3>2. ASSUME whole[q] PROVE HoldsPieces(q, new, Progress(q))
      <4>1. HoldsPieces(q, data, Progress(q))
        BY <1>5, <3>2
      <4>. QED BY <1>1, <2>2, <2>3, <3>0, <4>1, HoldsAfterOther
    <3>. QED BY <3>1, <3>2
  <2>. QED BY <1>4, <2>4, <2>5, <2>6
<1>7. CASE Wrote(p) /\ fd[p] # fd[q]
  <2>1. fd[p] \in DOMAIN open /\ open' = [open EXCEPT ![fd[p]].offset = @ + 1]
    BY <1>7 DEF Wrote, CanWrite
  <2>2. open'[fd[q]] = open[fd[q]] /\ DOMAIN open' = DOMAIN open
    BY <1>1, <1>7, <2>1 DEF Types
  <2>3. open[fd[p]].path # path
    BY <1>1, <1>7, <2>1 DEF Descriptors
  <2>4. files'[path] = files[path]
    BY <1>1, <1>7, <2>3, WroteFiles
  <2>. QED BY <1>1, <1>4, <1>5, <2>2, <2>4
<1>8. CASE ~Wrote(p)
  <2>1. files'[path] = files[path]
    <3>1. ASSUME NEW x \in Paths, Replaced(x) PROVE files'[path] = files[path]
      <4>1. x # path
        BY <1>1, <3>1 DEF Replaced, find_open_file, OpenExist
      <4>. QED BY <1>1, <3>1, <4>1 DEF Replaced, Types
    <3>. QED BY <1>8, <3>1, FilesStep
  <2>2. fd[q] \in DOMAIN open' /\ open'[fd[q]].path = path /\ open'[fd[q]].offset = Len(data)
    <3>1. CASE Opened(p)
      <4>1. fd[q] # next_fd
        BY <1>1 DEF Types
      <4>. QED BY <1>1, <3>1, <4>1 DEF Opened
    <3>2. CASE Settled(p)
      BY <1>1, <3>2 DEF Settled
    <3>3. CASE Closed(p)
      <4>1. fd[p] # fd[q]
        BY <1>1, <3>3 DEF Closed, Moves, Descriptors
      <4>. QED BY <1>1, <3>3, <4>1 DEF Closed
    <3>4. CASE Moved(p) /\ fd[p] # fd[q]
      BY <1>1, <3>4 DEF Moved, Types
    <3>5. CASE Moved(p) /\ fd[p] = fd[q]
      <4>1. PathOf(p) = path
        BY <1>1, <3>5 DEF Descriptors
      <4>2. open' = [open EXCEPT ![fd[q]].offset = Len(data)]
        BY <1>1, <3>5, <4>1 DEF Moved, Size
      <4>. QED BY <1>1, <4>2 DEF Types, OpenFile
    <3>. QED BY <1>8, <3>1, <3>2, <3>3, <3>4, <3>5, OpenStep
  <2>. QED BY <1>1, <1>4, <1>5, <2>1, <2>2
<1>. QED BY <1>6, <1>7, <1>8

\* Every system call keeps what the appends running have written.
LEMMA AppendStep ==
    ASSUME Types, Descriptors, WordsInPlace, OpenExist, NotBegun, AppendInv,
           NEW p \in Procs, Step(p)
    PROVE  AppendInv'
<1>1. SUFFICES ASSUME NEW q \in Procs, base'[q] # Nothing PROVE Appending(q)'
  BY DEF AppendInv
<1>2. base'[q] = BaseAfter(p, q)
  BY DEF Step, Record
<1>3. CASE /\ q = p /\ At(p) = "lseek" /\ Prog(p) = "append" /\ CanWrite(fd[p])
           /\ pc'[p] # "done" /\ base'[p] = files[PathOf(p)]
  BY <1>3, BaseSet
<1>4. CASE q = p /\ pc'[p] # "done" /\ base'[q] = base[q]
  BY <1>1, <1>4, BaseOwn DEF AppendInv
<1>5. CASE q # p /\ ~(Moves(p) /\ PathOf(p) = PathOf(q)) /\ base'[q] = base[q]
  BY <1>1, <1>5, BaseOther DEF AppendInv
<1>. QED BY <1>1, <1>2, <1>3, <1>4, <1>5 DEF BaseAfter

\* append keeps what the file held when it moved to the end, whatever becomes of
\* its own writes; and, as long as none of them was lost or cut short at the end
\* of the clusters, every piece it has written, in order, for any number of
\* processes that write and append to the file beside it, with losses of their
\* own: nothing but a move of the shared offset, or rm, by another process ends
\* that.
THEOREM AppendsAreKept == Spec => []AppendsKept
<1>. DEFINE Inv == Types /\ Descriptors /\ WordsInPlace /\ OpenExist /\ NotBegun /\ AppendInv
<1>1. Init => OpenExist /\ NotBegun /\ AppendInv
  BY DEF Init, OpenExist, NotBegun, AppendInv
<1>2. Inv /\ [Next]_vars => OpenExist' /\ NotBegun' /\ AppendInv'
  <2>. SUFFICES ASSUME Inv, [Next]_vars PROVE OpenExist' /\ NotBegun' /\ AppendInv'
    OBVIOUS
  <2>1. ASSUME NEW p \in Procs, Step(p) PROVE OpenExist' /\ NotBegun' /\ AppendInv'
    BY <2>1, OpenExistStep, NotBegunStep, AppendStep
  <2>2. CASE UNCHANGED vars
    BY <2>2
    DEF vars, kernel, local, OpenExist, NotBegun, AppendInv, Appending, Progress, CanWrite, IsDir,
        Prog, PathOf
  <2>. QED BY <2>1, <2>2 DEF Next
<1>3. Inv => AppendsKept
  <2>. SUFFICES ASSUME Inv, NEW p \in Procs, base[p] # Nothing
                PROVE  LET data == files[PathOf(p)].data
                           own  == Own(p, data, Len(data))
                           k    == IF pc[p] = "blank" THEN 2 * n[p] + 1 ELSE 2 * n[p]
                       IN  /\ IsPrefix(base[p].data, data)
                           /\ whole[p] => Cardinality(own) = k
                           /\ whole[p] => \A j \in own : data[j] = Pieces(p, k)[Cardinality(Own(p, data, j))]
    BY DEF AppendsKept
  <2>1. Appending(p)
    BY DEF AppendInv
  <2>2. Pieces(p, Progress(p)) = AppendPieces(p, Progress(p))
    BY <2>1 DEF Appending, Pieces, AppendPieces
  <2>. QED BY <2>1, <2>2 DEF Appending, HoldsPieces, Progress
<1>. QED BY <1>1, <1>2, <1>3, ProgramsInvariant, PTL DEF Spec

-----------------------------------------------------------------------------
(* What holds between two calls, whoever makes them.                       *)

\* The paths that are used as directories.
Dirs == DirPaths \cup {Root}

\* A path is absent, a directory or a file, and a file is not a directory to others.
Kinds(fs) ==
    \A q \in Paths :
        /\ fs[q].st = "absent" => fs[q] = Disk!Absent
        /\ fs[q].st = "dir" => fs[q] = Disk!Directory
        /\ q \in DirPaths => fs[q].st # "file"
        /\ q \notin DirPaths => fs[q].st # "dir"

\* A command has the path and the words that it may have.
Proper ==
    \A p \in Procs :
        /\ Prog(p) \in DirPrograms => PathOf(p) \in Dirs
        /\ Prog(p) \in FilePrograms => PathOf(p) \in Paths \ DirPaths
        /\ Prog(p) \in Writers => cmd[p].n > 0

\* What is open is on the disk, and so is the working directory.
Present ==
    /\ \A f \in DOMAIN open : Exists(open[f].path)
    /\ cwd \in Dirs /\ Exists(cwd)
    /\ \A p \in Procs : pc[p] = "chdir" => Exists(PathOf(p))

\* A value for each process.
PerProcess(x) == x = [q \in Procs |-> x[q]]

\* A process that has not begun has done nothing.
Fresh ==
    /\ PerProcess(ok) /\ PerProcess(status) /\ PerProcess(out)
    /\ \A p \in Procs : pc[p] = "ready" => n[p] = 0 /\ status[p] = 0 /\ out[p] = Silent

World == Types /\ Descriptors /\ Kinds(files) /\ Proper /\ Present /\ Fresh

\* The next call of each program.
LEMMA FollowingOfOthers ==
    ASSUME NEW p
    PROVE  /\ Prog(p) = "cat" => /\ At(p) = "open" => Following(p) = "lseek"
                                 /\ At(p) = "lseek" => Following(p) = "fstat"
                                 /\ At(p) = "fstat" => Following(p) = "read"
                                 /\ At(p) = "read" => Following(p) = "exit"
           /\ Prog(p) = "rm" => /\ At(p) = "open" => Following(p) = "close"
                                /\ At(p) = "close" => Following(p) = "unlink"
                                /\ At(p) = "unlink" => Following(p) = "exit"
           /\ Prog(p) = "cd" => /\ At(p) = "open" => Following(p) = "chdir"
                                /\ At(p) = "chdir" => Following(p) = "exit"
           /\ Prog(p) = "ls" => /\ At(p) = "getcwd" => Following(p) = "open"
                                /\ At(p) = "open" => Following(p) = "getdents"
                                /\ At(p) = "getdents" => Following(p) = "exit"
           /\ Prog(p) = "ls_path" => /\ At(p) = "open" => Following(p) = "getdents"
                                     /\ At(p) = "getdents" => Following(p) = "exit"
           /\ Prog(p) = "touch" /\ At(p) = "creat" => Following(p) = "exit"
           /\ Prog(p) = "mkdir" /\ At(p) = "mkdir" => Following(p) = "exit"
           /\ Prog(p) = "pwd" /\ At(p) = "getcwd" => Following(p) = "exit"
<1>. USE DEF Following, Program, SelectInSeq, Min
<1>1. ASSUME Prog(p) = "cat"
      PROVE  /\ At(p) = "open" => Following(p) = "lseek"
             /\ At(p) = "lseek" => Following(p) = "fstat"
             /\ At(p) = "fstat" => Following(p) = "read"
             /\ At(p) = "read" => Following(p) = "exit"
  BY <1>1
<1>2. ASSUME Prog(p) = "rm"
      PROVE  /\ At(p) = "open" => Following(p) = "close"
             /\ At(p) = "close" => Following(p) = "unlink"
             /\ At(p) = "unlink" => Following(p) = "exit"
  BY <1>2
<1>3. ASSUME Prog(p) = "cd"
      PROVE  /\ At(p) = "open" => Following(p) = "chdir"
             /\ At(p) = "chdir" => Following(p) = "exit"
  BY <1>3
<1>4. ASSUME Prog(p) = "ls"
      PROVE  /\ At(p) = "getcwd" => Following(p) = "open"
             /\ At(p) = "open" => Following(p) = "getdents"
             /\ At(p) = "getdents" => Following(p) = "exit"
  BY <1>4
<1>5. ASSUME Prog(p) = "ls_path"
      PROVE  /\ At(p) = "open" => Following(p) = "getdents"
             /\ At(p) = "getdents" => Following(p) = "exit"
  BY <1>5
<1>6. ASSUME Prog(p) = "touch", At(p) = "creat" PROVE Following(p) = "exit"
  BY <1>6
<1>7. ASSUME Prog(p) = "mkdir", At(p) = "mkdir" PROVE Following(p) = "exit"
  BY <1>7
<1>8. ASSUME Prog(p) = "pwd", At(p) = "getcwd" PROVE Following(p) = "exit"
  BY <1>8
<1>. HIDE DEF Following, Program, SelectInSeq, Min
<1>. QED BY <1>1, <1>2, <1>3, <1>4, <1>5, <1>6, <1>7, <1>8

\* Which programs make a call.
LEMMA CallOf ==
    ASSUME Types, NEW p \in Procs
    PROVE  /\ At(p) = "open" => Prog(p) \in Writers \cup {"cat", "rm", "cd", "ls", "ls_path"}
           /\ At(p) = "creat" => Prog(p) = "touch"
           /\ At(p) = "lseek" => Prog(p) \in Writers \cup {"cat"}
           /\ At(p) \in {"word", "blank"} => Prog(p) \in {"write", "append"}
           /\ At(p) = "string" => Prog(p) = "writemany"
           /\ At(p) \in {"fstat", "read"} => Prog(p) = "cat"
           /\ At(p) \in {"close", "unlink"} => Prog(p) = "rm"
           /\ At(p) = "mkdir" => Prog(p) = "mkdir"
           /\ At(p) = "chdir" => Prog(p) = "cd"
           /\ At(p) = "getcwd" => Prog(p) \in {"ls", "pwd"}
           /\ At(p) = "getdents" => Prog(p) \in {"ls", "ls_path"}
           /\ pc[p] = "ready" => At(p) \in {"open", "creat", "mkdir", "getcwd"}
           /\ pc[p] = "ready" /\ Prog(p) = "ls" => At(p) = "getcwd"
           /\ pc[p] # "ready" => At(p) = pc[p]
<1>1. pc[p] \in {"ready", "exit", "done"} \cup Later[Prog(p)] /\ Prog(p) \in AllPrograms
  BY DEF Types, FollowsProgram, Command, Prog
<1>2. CASE pc[p] = "ready"
  <2>1. At(p) = Head(Program[Prog(p)])
    BY <1>2 DEF At
  <2>. QED BY <1>1, <1>2, <2>1 DEF Program, AllPrograms, DirPrograms, FilePrograms, Writers
<1>3. CASE pc[p] # "ready"
  <2>1. At(p) = pc[p] /\ At(p) \in {"exit", "done"} \cup Later[Prog(p)]
    BY <1>1, <1>3 DEF At
  <2>. QED BY <1>1, <1>3, <2>1 DEF Later, AllPrograms, DirPrograms, FilePrograms, Writers
<1>. QED BY <1>2, <1>3

\* How the files may change: a piece is written, a file or a directory is created, or
\* a file that nobody has open is removed.
LEMMA FilesChange ==
    ASSUME World, NEW p \in Procs, Step(p)
    PROVE  \/ files' = files
           \/ Wrote(p)
           \/ \E q \in Paths \ DirPaths :
                 files[q] = Disk!Absent /\ files' = [files EXCEPT ![q] = Disk!File(<<>>)]
           \/ \E q \in Paths \cap DirPaths :
                 files[q] = Disk!Absent /\ files' = [files EXCEPT ![q] = Disk!Directory]
           \/ \E q \in Paths \ DirPaths :
                 /\ find_open_file(q) = {} /\ open' = open
                 /\ files' = [files EXCEPT ![q] = Disk!Absent]
<1>0. Types /\ Proper
  BY DEF World
<1>1. CASE WriteWord(p) \/ WriteBlank(p) \/ WriteString(p)
  BY <1>0, <1>1, WriteStep
<1>2. CASE Open(p)
  <2>1. \/ files' = files
        \/ At(p) = "creat" /\ ~Exists(PathOf(p)) /\ Disk!Create(PathOf(p), Disk!File(<<>>))
    BY <1>2 DEF Open, sys_open, CanCreate
  <2>2. At(p) = "creat" => PathOf(p) \in Paths \ DirPaths
    BY <1>0, CallOf DEF Proper, FilePrograms
  <2>. QED BY <2>1, <2>2 DEF Disk!Create
<1>3. CASE Mkdir(p)
  <2>1. \/ files' = files
        \/ ~Exists(PathOf(p)) /\ Disk!Create(PathOf(p), Disk!Directory)
    BY <1>3 DEF Mkdir, CanCreate
  <2>2. PathOf(p) \in Dirs
    BY <1>0, <1>3, CallOf DEF Proper, DirPrograms, Mkdir
  <2>3. PathOf(p) \in Paths \cup {Root}
    BY <1>0 DEF Types, Command, PathOf
  <2>4. ~Exists(PathOf(p)) => PathOf(p) \in Paths \cap DirPaths
    BY <2>2, <2>3 DEF Exists, Dirs
  <2>. QED BY <2>1, <2>4 DEF Disk!Create
<1>4. CASE Unlink(p)
  <2>1. \/ files' = files
        \/ find_open_file(PathOf(p)) = {} /\ Disk!Remove(PathOf(p))
    BY <1>4 DEF Unlink, sys_unlink, CanUnlink
  <2>2. PathOf(p) \in Paths \ DirPaths /\ open' = open
    BY <1>0, <1>4, CallOf DEF Proper, FilePrograms, Unlink, kernel
  <2>. QED BY <2>1, <2>2 DEF Disk!Remove
<1>5. CASE files' = files
  BY <1>5
<1>. QED
  BY <1>1, <1>2, <1>3, <1>4, <1>5
  DEF Step, Lseek, Fstat, Read, Close, Chdir, Getcwd, Getdents, Exit, Killed, Ended

\* The file a process writes to is a file before and after.
LEMMA WroteFile ==
    ASSUME Types, NEW p \in Procs, Wrote(p)
    PROVE  \E q \in Paths : /\ files[q].st = "file" /\ files'[q].st = "file"
                            /\ \A r \in Paths : r # q => files'[r] = files[r]
<1>1. open[fd[p]].path \in Paths /\ files[open[fd[p]].path].st = "file"
  BY DEF Wrote
<1>. QED BY <1>1, WroteFiles

\* A path that exists is there after any call that does not remove it.
LEMMA ExistsStays ==
    ASSUME World, NEW p \in Procs, Step(p), NEW x \in Paths \cup {Root}, Exists(x)
    PROVE  \/ Exists(x)'
           \/ x \notin Dirs /\ find_open_file(x) = {} /\ open' = open
<1>0. Types /\ files \in [Paths -> Content]
  BY DEF World, Types
<1>1. CASE x = Root
  BY <1>1 DEF Exists
<1>2. CASE x # Root
  <2>1. x \in Paths /\ files[x] # Disk!Absent /\ (Exists(x)' <=> files'[x] # Disk!Absent)
    BY <1>2 DEF Exists
  <2>2. CASE files' = files
    BY <2>1, <2>2
  <2>3. CASE Wrote(p)
    <3>1. PICK q \in Paths : /\ files'[q].st = "file"
                             /\ \A r \in Paths : r # q => files'[r] = files[r]
      BY <1>0, <2>3, WroteFile
    <3>2. Disk!Absent.st # "file"
      BY DEF Disk!Absent
    <3>. QED BY <2>1, <3>1, <3>2
  <2>4. ASSUME NEW q \in Paths, NEW what, what # Disk!Absent, files' = [files EXCEPT ![q] = what]
        PROVE  Exists(x)'
    BY <1>0, <2>1, <2>4
  <2>5. Disk!File(<<>>) # Disk!Absent /\ Disk!Directory # Disk!Absent
    BY DEF Disk!File, Disk!Directory, Disk!Absent
  <2>6. ASSUME NEW q \in Paths \ DirPaths, find_open_file(q) = {}, open' = open,
               files' = [files EXCEPT ![q] = Disk!Absent]
        PROVE  Exists(x)' \/ (x \notin Dirs /\ find_open_file(x) = {} /\ open' = open)
    <3>1. CASE x = q
      BY <1>2, <2>6, <3>1 DEF Dirs
    <3>2. CASE x # q
      BY <1>0, <2>1, <2>6, <3>2
    <3>. QED BY <3>1, <3>2
  <2>. QED BY <2>2, <2>3, <2>4, <2>5, <2>6, FilesChange
<1>. QED BY <1>1, <1>2

\* Paths keep to their kind.
LEMMA KindsStep ==
    ASSUME World, NEW p \in Procs, Step(p)
    PROVE  Kinds(files')
<1>0. Types /\ files \in [Paths -> Content] /\ Kinds(files)
  BY DEF World, Types
<1>1. CASE files' = files
  BY <1>0, <1>1
<1>2. CASE Wrote(p)
  <2>1. PICK q \in Paths : /\ files[q].st = "file" /\ files'[q].st = "file"
                           /\ \A r \in Paths : r # q => files'[r] = files[r]
    BY <1>0, <1>2, WroteFile
  <2>. QED BY <1>0, <2>1 DEF Kinds
<1>3. ASSUME NEW q \in Paths \ DirPaths, files' = [files EXCEPT ![q] = Disk!File(<<>>)]
      PROVE  Kinds(files')
  <2>1. \A r \in Paths : files'[r] = IF r = q THEN Disk!File(<<>>) ELSE files[r]
    BY <1>0, <1>3
  <2>2. Disk!File(<<>>).st = "file"
    BY DEF Disk!File
  <2>. QED BY <1>0, <1>3, <2>1, <2>2 DEF Kinds
<1>4. ASSUME NEW q \in Paths \cap DirPaths, files' = [files EXCEPT ![q] = Disk!Directory]
      PROVE  Kinds(files')
  <2>1. \A r \in Paths : files'[r] = IF r = q THEN Disk!Directory ELSE files[r]
    BY <1>0, <1>4
  <2>2. Disk!Directory.st = "dir"
    BY DEF Disk!Directory
  <2>. QED BY <1>0, <1>4, <2>1, <2>2 DEF Kinds
<1>5. ASSUME NEW q \in Paths \ DirPaths, files' = [files EXCEPT ![q] = Disk!Absent]
      PROVE  Kinds(files')
  <2>1. \A r \in Paths : files'[r] = IF r = q THEN Disk!Absent ELSE files[r]
    BY <1>0, <1>5
  <2>2. Disk!Absent.st = "absent"
    BY DEF Disk!Absent
  <2>. QED BY <1>0, <1>5, <2>1, <2>2 DEF Kinds
<1>. QED BY <1>1, <1>2, <1>3, <1>4, <1>5, FilesChange

\* What sys_open does: the path was there, or is created, or the call fails.
LEMMA OpenResult ==
    ASSUME World, NEW p \in Procs, Open(p)
    PROVE  \/ Exists(PathOf(p)) /\ files' = files /\ fd'[p] \in DOMAIN open' /\ fd'[p] # NoFd
           \/ /\ At(p) = "creat" /\ CanCreate(PathOf(p)) /\ fd'[p] # NoFd
              /\ files' = [files EXCEPT ![PathOf(p)] = Disk!File(<<>>)]
           \/ /\ ~Exists(PathOf(p)) /\ (At(p) = "creat" => ~CanCreate(PathOf(p)))
              /\ files' = files /\ fd'[p] = NoFd
<1>. DEFINE path == PathOf(p)
<1>0. /\ Types /\ Descriptors /\ fd \in [Procs -> Int] /\ next_fd \in Nat /\ next_fd >= FirstFd
      /\ DOMAIN open \subseteq FirstFd .. next_fd - 1
      /\ \A f \in DOMAIN open : Exists(open[f].path)
  BY DEF World, Types, Present
<1>1. FirstFd \in Nat /\ NoFd < FirstFd /\ NoFd \in Int
  BY DEF FirstFd, NoFd
<1>2. sys_open(p, path, At(p) = "creat")
  BY DEF Open
<1>3. CASE /\ find_open_file(path) # {} /\ fd' = [fd EXCEPT ![p] = Min(find_open_file(path))]
           /\ UNCHANGED <<files, open, next_fd>>
  <2>1. PICK f : f \in find_open_file(path)
    BY <1>3
  <2>2. f \in DOMAIN open /\ open[f].path = path
    BY <2>1 DEF find_open_file
  <2>3. find_open_file(path) = {f}
    BY <1>0, <2>1, <2>2 DEF find_open_file, Descriptors
  <2>4. f \in Int /\ f # NoFd
    BY <1>0, <1>1, <2>2
  <2>5. Min({f}) = f
    BY <2>4 DEF Min
  <2>6. fd'[p] = f
    BY <1>0, <1>3, <2>3, <2>5
  <2>. QED BY <1>0, <1>3, <2>2, <2>4, <2>6
<1>4. CASE /\ (Exists(path) /\ UNCHANGED files) \/
                 (At(p) = "creat" /\ CanCreate(path) /\ Disk!Create(path, Disk!File(<<>>)))
           /\ NewFile(path) /\ fd' = [fd EXCEPT ![p] = get_next_filedesc]
  <2>1. fd'[p] = next_fd /\ next_fd # NoFd /\ next_fd \in DOMAIN open'
    BY <1>0, <1>1, <1>4 DEF NewFile, get_next_filedesc
  <2>. QED BY <1>4, <2>1 DEF Disk!Create
<1>5. CASE /\ ~Exists(path) /\ (At(p) = "creat" => ~CanCreate(path))
           /\ fd' = [fd EXCEPT ![p] = NoFd] /\ UNCHANGED <<files, open, next_fd>>
  BY <1>0, <1>5
<1>. QED BY <1>2, <1>3, <1>4, <1>5 DEF sys_open

\* Commands stay proper: getcwd gives a command the working directory as its path.
LEMMA ProperStep ==
    ASSUME World, NEW p \in Procs, Step(p)
    PROVE  Proper'
<1>0. Types /\ Proper /\ cwd \in Dirs /\ cmd \in [Procs -> Command]
  BY DEF World, Types, Present
<1>1. CASE cmd' = cmd
  BY <1>0, <1>1 DEF Proper, Prog, PathOf
<1>2. CASE Getcwd(p)
  <2>1. cmd' = [cmd EXCEPT ![p].path = cwd] /\ Prog(p) \in {"ls", "pwd"}
    BY <1>0, <1>2, CallOf DEF Getcwd
  <2>2. cmd[p] \in Command
    BY <1>0
  <2>3. /\ cmd'[p].prog = cmd[p].prog /\ cmd'[p].path = cwd
        /\ \A q \in Procs : q # p => cmd'[q] = cmd[q]
    BY <1>0, <2>1, <2>2 DEF Command
  <2>4. Prog(p) \notin FilePrograms /\ Prog(p) \notin Writers
    BY <2>1 DEF FilePrograms, Writers
  <2>. QED BY <1>0, <2>3, <2>4 DEF Proper, Prog, PathOf
<1>. QED
  BY <1>1, <1>2
  DEF Step, Open, Lseek, WriteWord, WriteBlank, WriteString, Fstat, Read, Close, Unlink, Mkdir,
      Chdir, Getdents, Exit, Killed, Ended

\* cd goes on to chdir only if its path has been opened.
LEMMA ChdirComes ==
    ASSUME World, NEW p \in Procs, Step(p), pc'[p] = "chdir"
    PROVE  Open(p) /\ Exists(PathOf(p)) /\ cmd' = cmd /\ Prog(p) = "cd"
<1>0. Types /\ pc \in [Procs -> Labels] /\ Types'
  BY TypesStep DEF World, Types, FollowsProgram
<1>1. Prog(p)' = "cd" /\ Prog(p)' = Prog(p)
  <2>1. At(p)' = "chdir"
    BY DEF At
  <2>2. Prog(p)' \in AllPrograms /\ pc'[p] \in {"ready", "exit", "done"} \cup Later[Prog(p)']
    BY <1>0 DEF Types, FollowsProgram, Command, Prog
  <2>3. Prog(p)' = "cd"
    BY <2>2 DEF Later, AllPrograms, DirPrograms, FilePrograms
  <2>. QED BY <1>0, <2>3, CmdStep DEF Prog
<1>2. ~Exit(p) /\ ~Killed(p)
  BY <1>0 DEF Exit, Killed, Ended, GoTo
<1>3. At(p) \in {"open", "chdir"}
  <2>1. pc[p] \in {"ready", "exit", "done"} \cup Later["cd"]
    BY <1>0, <1>1 DEF Types, FollowsProgram
  <2>2. pc[p] \in {"ready", "exit", "done", "chdir"}
    BY <2>1 DEF Later
  <2>3. pc[p] = "ready" => At(p) = "open"
    BY <1>1 DEF At, Program
  <2>4. pc[p] # "ready" => At(p) = pc[p]
    BY DEF At
  <2>5. pc[p] \notin {"exit", "done"}
    <3>. SUFFICES ASSUME pc[p] \in {"exit", "done"} PROVE FALSE
      OBVIOUS
    <3>1. At(p) \in {"exit", "done"}
      BY DEF At
    <3>. QED
      BY <1>2, <3>1
      DEF Step, Open, Lseek, WriteWord, WriteBlank, WriteString, Fstat, Read, Close, Unlink, Mkdir,
          Chdir, Getcwd, Getdents
  <2>. QED BY <2>2, <2>3, <2>4, <2>5
<1>4. CASE At(p) = "chdir"
  <2>1. Chdir(p)
    BY <1>2, <1>4
    DEF Step, Open, Lseek, WriteWord, WriteBlank, WriteString, Fstat, Read, Close, Unlink, Mkdir,
        Getcwd, Getdents
  <2>2. pc'[p] = Following(p) /\ Following(p) = "exit"
    BY <1>0, <1>1, <1>4, <2>1, FollowingOfOthers DEF Chdir, Continue, GoTo
  <2>. QED BY <2>2
<1>5. CASE At(p) = "open"
  <2>1. Open(p)
    BY <1>2, <1>5
    DEF Step, Lseek, WriteWord, WriteBlank, WriteString, Fstat, Read, Close, Unlink, Mkdir,
        Chdir, Getcwd, Getdents
  <2>2. fd'[p] # NoFd
    <3>1. fd'[p] = NoFd => Fail(p)
      BY <1>1, <2>1 DEF Open, ContinueIf
    <3>2. Fail(p) => pc'[p] = "exit"
      BY <1>0 DEF Fail, GoTo
    <3>. QED BY <3>1, <3>2
  <2>3. Exists(PathOf(p))
    BY <1>5, <2>1, <2>2, OpenResult
  <2>. QED BY <1>1, <2>1, <2>3 DEF Open
<1>. QED BY <1>3, <1>4, <1>5

\* What is open, and the working directory, stay on the disk.
LEMMA PresentStep ==
    ASSUME World, NEW p \in Procs, Step(p)
    PROVE  Present'
<1>0. /\ Types /\ Descriptors /\ Present /\ Proper /\ pc \in [Procs -> Labels]
      /\ open \in [DOMAIN open -> OpenFile] /\ cwd \in Paths \cup {Root}
      /\ DOMAIN open \subseteq FirstFd .. next_fd - 1 /\ next_fd \in Nat /\ FirstFd \in Nat
  BY DEF World, Types, FollowsProgram, FirstFd
<1>1. ASSUME NEW x \in Paths \cup {Root}, Exists(x), x \in Dirs \/ find_open_file(x) # {}
      PROVE  x # Root => files'[x] # Disk!Absent
  BY <1>1, ExistsStays DEF Exists
<1>2. \A f \in DOMAIN open : open[f].path # Root => files'[open[f].path] # Disk!Absent
  <2>1. \A f \in DOMAIN open : /\ open[f].path \in Paths \cup {Root} /\ Exists(open[f].path)
                               /\ find_open_file(open[f].path) # {}
    BY <1>0 DEF Present, OpenFile, find_open_file
  <2>. QED BY <1>1, <2>1
<1>3. ASSUME \A f \in DOMAIN open' : \/ f \in DOMAIN open /\ open'[f].path = open[f].path
                                     \/ open'[f].path # Root => files'[open'[f].path] # Disk!Absent
      PROVE  \A f \in DOMAIN open' : Exists(open[f].path)'
  BY <1>2, <1>3 DEF Exists
<1>4. ASSUME NEW f \in DOMAIN open, NEW o, open' = [open EXCEPT ![f].offset = o]
      PROVE  \A g \in DOMAIN open' : g \in DOMAIN open /\ open'[g].path = open[g].path
  BY <1>0, <1>4 DEF OpenFile
<1>5. \A f \in DOMAIN open' : Exists(open[f].path)'
  <2>1. CASE Opened(p)
    <3>1. \A f \in DOMAIN open' : \/ f \in DOMAIN open /\ open'[f] = open[f]
                                  \/ open'[f].path = PathOf(p)
      BY <1>0, <2>1 DEF Opened
    <3>2. PathOf(p) # Root => files'[PathOf(p)] # Disk!Absent
      BY <2>1 DEF Opened
    <3>. QED BY <1>3, <3>1, <3>2
  <2>2. CASE Moved(p)
    BY <1>3, <1>4, <2>2 DEF Moved
  <2>3. CASE Wrote(p)
    BY <1>3, <1>4, <2>3 DEF Wrote, CanWrite
  <2>4. CASE Closed(p)
    BY <1>3, <2>4 DEF Closed
  <2>5. CASE Settled(p)
    BY <1>3, <2>5 DEF Settled
  <2>. QED BY <1>0, <2>1, <2>2, <2>3, <2>4, <2>5, OpenStep
<1>6. cwd' \in Dirs /\ Exists(cwd)'
  <2>1. CASE cwd' = cwd
    BY <1>0, <1>1, <2>1 DEF Present, Exists
  <2>2. CASE Chdir(p)
    <3>1. At(p) = "chdir" /\ cwd' = PathOf(p)
      BY <2>2 DEF Chdir
    <3>2. pc[p] = "chdir" /\ Prog(p) = "cd"
      BY <1>0, <3>1, CallOf
    <3>3. PathOf(p) \in Dirs /\ PathOf(p) \in Paths \cup {Root} /\ Exists(PathOf(p))
      BY <1>0, <3>2 DEF Proper, DirPrograms, Types, Command, PathOf, Present
    <3>. QED BY <1>1, <3>1, <3>3 DEF Exists
  <2>. QED
    BY <2>1, <2>2
    DEF Step, Open, Lseek, WriteWord, WriteBlank, WriteString, Fstat, Read, Close, Unlink, Mkdir,
        Getcwd, Getdents, Exit, Killed, Ended, kernel
<1>7. ASSUME NEW q \in Procs, pc'[q] = "chdir" PROVE Exists(PathOf(q))'
  <2>1. Prog(q) = "cd" /\ Exists(PathOf(q)) /\ cmd'[q] = cmd[q]
    <3>1. CASE q = p
      BY <1>7, <3>1, ChdirComes
    <3>2. CASE q # p
      <4>1. pc[q] = "chdir"
        BY <1>0, <1>7, <3>2, PcStep
      <4>2. Prog(q) = "cd"
        BY <1>0, <4>1, CallOf DEF At
      <4>. QED BY <1>0, <4>1, <4>2, <3>2, CmdStep DEF Present
    <3>. QED BY <3>1, <3>2
  <2>2. PathOf(q) \in Dirs /\ PathOf(q) \in Paths \cup {Root}
    BY <1>0, <2>1 DEF Proper, DirPrograms, Types, Command, PathOf
  <2>. QED BY <1>1, <2>1, <2>2 DEF Exists, PathOf
<1>. QED BY <1>5, <1>6, <1>7 DEF Present

\* A value that changes for one process changes for no other.
LEMMA OthersKeep ==
    ASSUME NEW x, PerProcess(x), NEW p \in Procs, NEW y, y = x \/ \E v : y = [x EXCEPT ![p] = v]
    PROVE  PerProcess(y) /\ \A q \in Procs : q # p => y[q] = x[q]
<1>1. x \in [Procs -> {x[q] : q \in Procs}]
  BY DEF PerProcess
<1>2. ASSUME NEW v, y = [x EXCEPT ![p] = v]
      PROVE  PerProcess(y) /\ \A q \in Procs : q # p => y[q] = x[q]
  <2>1. y \in [Procs -> {x[q] : q \in Procs} \cup {v}]
    BY <1>1, <1>2
  <2>. QED BY <1>1, <1>2, <2>1 DEF PerProcess
<1>. QED BY <1>2

\* Those that have not begun stay as they are.
LEMMA FreshStep ==
    ASSUME World, NEW p \in Procs, Step(p)
    PROVE  Fresh'
<1>0. Types /\ Fresh /\ pc \in [Procs -> Labels] /\ n \in [Procs -> Nat]
  BY DEF World, Types, FollowsProgram
<1>2. /\ ok' = ok \/ \E v : ok' = [ok EXCEPT ![p] = v]
      /\ status' = status \/ \E v : status' = [status EXCEPT ![p] = v]
      /\ out' = out \/ \E v : out' = [out EXCEPT ![p] = v]
  <2>1. CASE Exit(p) \/ Killed(p)
    BY <2>1 DEF Exit, Killed, Ended
  <2>2. CASE WriteWord(p)
    BY <2>2 DEF WriteWord, Continue
  <2>3. CASE Read(p) \/ Getdents(p)
    BY <2>3 DEF Read, Getdents, Continue
  <2>4. CASE Open(p) \/ Lseek(p) \/ WriteBlank(p) \/ WriteString(p) \/ Fstat(p) \/ Close(p)
             \/ Unlink(p) \/ Mkdir(p) \/ Chdir(p) \/ Getcwd(p)
    <3>1. ok' = ok /\ out' = out /\ (status' = status \/ status' = [status EXCEPT ![p] = -1])
      BY <2>4
      DEF Open, Lseek, WriteBlank, WriteString, Fstat, Close, Unlink, Mkdir, Chdir, Getcwd,
          ContinueIf, Continue, Fail
    <3>. QED BY <3>1
  <2>. QED BY <2>1, <2>2, <2>3, <2>4 DEF Step
<1>3. PerProcess(ok') /\ PerProcess(status') /\ PerProcess(out')
  BY <1>0, <1>2, OthersKeep DEF Fresh
<1>4. ASSUME NEW q \in Procs, pc'[q] = "ready"
      PROVE  n'[q] = 0 /\ status'[q] = 0 /\ out'[q] = Silent
  <2>1. q # p /\ pc[q] = "ready"
    <3>1. PICK c \in Labels : pc' = [pc EXCEPT ![p] = c] /\ c \in {"exit", "done"} \cup Later[Prog(p)]
      BY <1>0, PcStep
    <3>2. Prog(p) \in AllPrograms
      BY <1>0 DEF Types, Command, Prog
    <3>3. c # "ready"
      BY <3>1, <3>2 DEF Later, AllPrograms, DirPrograms, FilePrograms
    <3>. QED BY <1>0, <1>4, <3>1, <3>3
  <2>2. n'[q] = n[q]
    <3>1. n' = n \/ \E v : n' = [n EXCEPT ![p] = v]
      <4>1. CASE Fstat(p)
        BY <4>1 DEF Fstat
      <4>2. CASE WriteBlank(p) \/ WriteString(p) \/ Exit(p) \/ Killed(p)
        BY <4>2 DEF WriteBlank, WriteString, Exit, Killed, Ended
      <4>. QED
        BY <4>1, <4>2
        DEF Step, Open, Lseek, WriteWord, Read, Close, Unlink, Mkdir, Chdir, Getcwd, Getdents
    <3>2. PerProcess(n)
      BY <1>0 DEF PerProcess
    <3>. QED BY <2>1, <3>1, <3>2, OthersKeep
  <2>3. status'[q] = status[q] /\ out'[q] = out[q]
    BY <1>0, <1>2, <2>1, OthersKeep DEF Fresh
  <2>. QED BY <1>0, <2>1, <2>2, <2>3 DEF Fresh
<1>. QED BY <1>3, <1>4 DEF Fresh, PerProcess

\* What holds between two calls.
LEMMA WorldInvariant == Spec => []World
<1>1. Init => World
  <2>. SUFFICES ASSUME Init PROVE World
    OBVIOUS
  <2>1. cmd \in [Procs -> Commands]
    BY DEF Init
  <2>2. Proper
    <3>. SUFFICES ASSUME NEW p \in Procs
                  PROVE  /\ Prog(p) \in DirPrograms => PathOf(p) \in Dirs
                         /\ Prog(p) \in FilePrograms => PathOf(p) \in Paths \ DirPaths
                         /\ Prog(p) \in Writers => cmd[p].n > 0
      BY DEF Proper
    <3>1. cmd[p] \in Commands
      BY <2>1
    <3>. QED BY <3>1, CommandsAssumption DEF Prog, PathOf, Dirs, DirPaths, Writers
  <2>3. \A q \in Paths : files[q] = IF q \in Initial THEN Disk!File(<<Old>>) ELSE Disk!Absent
    BY DEF Init
  <2>4. Kinds(files)
    <3>1. Disk!File(<<Old>>).st = "file" /\ Disk!Absent.st = "absent"
      BY DEF Disk!File, Disk!Absent
    <3>. QED BY <2>3, <3>1, CommandsAssumption DEF Kinds
  <2>5. Present
    BY DEF Init, Present, Dirs, Exists
  <2>6. Fresh
    BY DEF Init, Fresh, PerProcess
  <2>. QED BY <2>2, <2>4, <2>5, <2>6, InitTables DEF World
<1>2. World /\ [Next]_vars => World'
  <2>. SUFFICES ASSUME World, [Next]_vars PROVE World'
    OBVIOUS
  <2>1. ASSUME NEW p \in Procs, Step(p) PROVE World'
    <3>1. Types' /\ Descriptors'
      BY <2>1, TypesStep, DescriptorsStep DEF World
    <3>2. Kinds(files)'
      BY <2>1, KindsStep DEF Kinds
    <3>. QED BY <2>1, <3>1, <3>2, ProperStep, PresentStep, FreshStep DEF World
  <2>2. CASE UNCHANGED vars
    BY <2>2
    DEF vars, kernel, local, World, Types, Descriptors, FollowsProgram, Kinds, Proper, Present, Fresh,
        PerProcess, Exists, Prog, PathOf
  <2>. QED BY <2>1, <2>2 DEF Next
<1>. QED BY <1>1, <1>2, PTL DEF Spec

-----------------------------------------------------------------------------
(* What a process that has run alone has done so far.                      *)

\* Nothing.
Idle(p, w) == files = w.files /\ cwd = w.cwd /\ status[p] = 0 /\ out[p] = Silent

\* It has tried to open its path.
Tried(p) == IF Exists(PathOf(p)) THEN fd[p] \in DOMAIN open ELSE fd[p] = NoFd

\* The pieces a writer has passed to _write, and where the first of them went.
Count(p) == IF At(p) = "blank" THEN 2 * n[p] + 1 ELSE IF At(p) = "word" THEN 2 * n[p] ELSE n[p]
Start(p, w) == IF Prog(p) = "append" THEN Len(w.files[PathOf(p)].data) ELSE 0

\* The files with k of them.
Put(p, w, k) ==
    [w.files EXCEPT ![PathOf(p)] =
        Disk!File(Disk!Overwrite(w.files[PathOf(p)].data, Start(p, w), Pieces(p, k)))]

\* It has written these, and is where it left off.
Writing(p, w) ==
    /\ cwd = w.cwd /\ status[p] = 0 /\ out[p] = Silent
    /\ w.files[PathOf(p)].st = "file"
    /\ fd[p] \in DOMAIN open /\ open[fd[p]].offset = Start(p, w) + Count(p)
    /\ n[p] < cmd[p].n
    /\ files = Put(p, w, Count(p))
    /\ At(p) = "blank" => ok[p]

\* How things are when a command is over, and when it has failed.
Result(fs, dir, st, txt) == [files |-> fs, cwd |-> dir, status |-> st, text |-> txt]
Failed(w) == Result(w.files, w.cwd, -1, <<>>)

\* It has done what the README says of it.
Documented(p, w) ==
    /\ Effect(p, w) = Result(files, cwd, status[p], out[p].text)
    /\ Prog(p) = "ls" => out[p].names = Listing(w.cwd)
    /\ Prog(p) = "ls_path" /\ status[p] = 0 => out[p].names = Listing(PathOf(p))

\* What it has done before each call; w is what it found when it started.
Before(p, w) ==
    /\ At(p) \in {"open", "creat", "mkdir", "getcwd", "lseek", "close"} => Idle(p, w) /\ n[p] = 0
    /\ At(p) \in {"fstat", "read", "unlink", "chdir", "getdents"} => Idle(p, w)
    /\ At(p) \in {"lseek", "close", "fstat"} => Tried(p)
    /\ At(p) \in {"read", "getdents"} => fd[p] \in DOMAIN open
    /\ At(p) \in {"fstat", "read"} /\ fd[p] \in DOMAIN open => open[fd[p]].offset = 0
    /\ At(p) = "read" => n[p] = Size(PathOf(p))
    /\ At(p) = "unlink" => find_open_file(PathOf(p)) = {}
    /\ At(p) \in {"word", "blank", "string"} => Writing(p, w)
    /\ At(p) = "exit" => Documented(p, w)
    /\ Prog(p) = "ls" /\ At(p) # "getcwd" => PathOf(p) = w.cwd

\* What it found was in order.
Found(w) == w.files \in [Paths -> Content] /\ Kinds(w.files)

-----------------------------------------------------------------------------
(* Overwriting.                                                            *)

\* What Overwrite makes, piece by piece.
Overwritten(r, old, o, s) ==
    /\ r \in Seq(Piece)
    /\ Len(r) = IF Len(old) > o + Len(s) THEN Len(old) ELSE o + Len(s)
    /\ \A i \in 1 .. Len(r) : r[i] = IF i \in o + 1 .. o + Len(s) THEN s[i - o]
                                     ELSE IF i \in 1 .. Len(old) THEN old[i] ELSE Zero

LEMMA OverwriteAt ==
    ASSUME NEW old \in Seq(Piece), NEW o \in Nat, NEW s \in Seq(Piece)
    PROVE  Overwritten(Disk!Overwrite(old, o, s), old, o, s)
<1>. DEFINE len == IF Len(old) > o + Len(s) THEN Len(old) ELSE o + Len(s)
            e(i) == IF i \in o + 1 .. o + Len(s) THEN s[i - o]
                    ELSE IF i \in 1 .. Len(old) THEN old[i] ELSE Zero
            r == [i \in 1 .. len |-> e(i)]
<1>1. Disk!Overwrite(old, o, s) = r
  BY DEF Disk!Overwrite
<1>2. len \in Nat /\ Len(old) \in Nat /\ Len(s) \in Nat
  OBVIOUS
<1>3. \A i \in 1 .. len : e(i) \in Piece
  <2>1. Zero \in Piece
    BY DEF Piece
  <2>. QED BY <1>2, <2>1
<1>. HIDE DEF e, len
<1>4. r \in Seq(Piece) /\ Len(r) = len /\ \A i \in 1 .. Len(r) : r[i] = e(i)
  BY <1>2, <1>3
<1>. HIDE DEF r
<1>. QED BY <1>1, <1>4 DEF e, len, Overwritten

\* Sequences with the same pieces are the same.
LEMMA SamePieces ==
    ASSUME NEW r \in Seq(Piece), NEW s \in Seq(Piece), Len(r) = Len(s),
           \A i \in 1 .. Len(r) : r[i] = s[i]
    PROVE  r = s
OBVIOUS

\* One piece more, where the last one ended.
LEMMA OverwriteMore ==
    ASSUME NEW old \in Seq(Piece), NEW o \in Nat, NEW s \in Seq(Piece), NEW t \in Seq(Piece),
           Len(t) = Len(s) + 1, \A i \in 1 .. Len(s) : t[i] = s[i]
    PROVE  Disk!Overwrite(Disk!Overwrite(old, o, s), o + Len(s), <<t[Len(t)]>>)
               = Disk!Overwrite(old, o, t)
<1>. DEFINE a == Disk!Overwrite(old, o, s)
            b == <<t[Len(t)]>>
            c == Disk!Overwrite(a, o + Len(s), b)
            d == Disk!Overwrite(old, o, t)
<1>0. b \in Seq(Piece) /\ Len(b) = 1 /\ b[1] = t[Len(t)] /\ o + Len(s) \in Nat /\ Len(s) \in Nat
      /\ Len(t) \in Nat /\ Len(old) \in Nat
  OBVIOUS
<1>1. Overwritten(a, old, o, s)
  BY OverwriteAt
<1>2. Overwritten(d, old, o, t)
  BY OverwriteAt
<1>a. a \in Seq(Piece)
  BY <1>1 DEF Overwritten
<1>. HIDE DEF a, b, d
<1>3. Overwritten(c, a, o + Len(s), b)
  BY ONLY <1>0, <1>a, OverwriteAt
<1>. HIDE DEF c
<1>. USE DEF Overwritten
<1>4. Len(c) = Len(d)
  BY <1>0, <1>1, <1>2, <1>3
<1>5. ASSUME NEW i \in 1 .. Len(c) PROVE c[i] = d[i]
  <2>0. i \in Int /\ Len(c) \in Nat
    BY <1>3
  <2>1. CASE i = o + Len(s) + 1
    BY <1>0, <1>2, <1>3, <1>4, <2>0, <2>1
  <2>2. CASE i \in o + 1 .. o + Len(s)
    <3>0. i \in 1 .. Len(a) /\ i \notin o + Len(s) + 1 .. o + Len(s) + Len(b)
      <4>1. Len(a) = IF Len(old) > o + Len(s) THEN Len(old) ELSE o + Len(s)
        BY <1>1
      <4>. QED BY <1>0, <2>0, <2>2, <4>1
    <3>1. c[i] = a[i] /\ i \in 1 .. Len(a)
      BY <1>3, <3>0
    <3>2. a[i] = s[i - o] /\ i - o \in 1 .. Len(s)
      <4>1. a[i] = s[i - o]
        BY <1>1, <2>2, <3>1
      <4>. QED BY <1>0, <2>0, <2>2, <4>1
    <3>3. d[i] = t[i - o]
      BY <1>0, <1>2, <1>4, <2>0, <2>2
    <3>. QED BY <3>1, <3>2, <3>3
  <2>3. CASE i \notin o + 1 .. o + Len(s) + 1
    <3>1. d[i] = IF i \in 1 .. Len(old) THEN old[i] ELSE Zero
      BY <1>0, <1>2, <1>4, <2>0, <2>3
    <3>2. c[i] = IF i \in 1 .. Len(a) THEN a[i] ELSE Zero
      BY <1>0, <1>3, <2>0, <2>3
    <3>3. i \in 1 .. Len(a) => a[i] = IF i \in 1 .. Len(old) THEN old[i] ELSE Zero
      BY <1>0, <1>1, <2>0, <2>3
    <3>4. i \in 1 .. Len(old) => i \in 1 .. Len(a)
      BY <1>0, <1>1, <2>0
    <3>. QED BY <3>1, <3>2, <3>3, <3>4
  <2>. QED BY <1>0, <2>0, <2>1, <2>2, <2>3
<1>6. c = d
  BY <1>2, <1>3, <1>4, <1>5, SamePieces
<1>. QED BY <1>6 DEF a, b, c, d

\* No piece at all.
LEMMA OverwriteNothing ==
    ASSUME NEW old \in Seq(Piece), NEW o \in 0 .. Len(old), NEW s \in Seq(Piece), Len(s) = 0
    PROVE  Disk!Overwrite(old, o, s) = old
<1>. DEFINE r == Disk!Overwrite(old, o, s)
<1>0. o \in Nat /\ Len(old) \in Nat
  OBVIOUS
<1>1. Overwritten(r, old, o, s)
  BY <1>0, OverwriteAt
<1>. HIDE DEF r
<1>. USE DEF Overwritten
<1>2. Len(r) = Len(old) /\ \A i \in 1 .. Len(r) : r[i] = old[i]
  BY <1>0, <1>1
<1>3. r = old
  BY <1>1, <1>2, SamePieces
<1>. QED BY <1>3 DEF r

\* At the end.
LEMMA OverwriteEnd ==
    ASSUME NEW old \in Seq(Piece), NEW s \in Seq(Piece)
    PROVE  Disk!Overwrite(old, Len(old), s) = old \o s
<1>. DEFINE r == Disk!Overwrite(old, Len(old), s)
            c == old \o s
<1>0. Len(old) \in Nat /\ Len(s) \in Nat
  OBVIOUS
<1>1. Overwritten(r, old, Len(old), s)
  BY <1>0, OverwriteAt
<1>2. /\ c \in Seq(Piece) /\ Len(c) = Len(old) + Len(s)
      /\ \A i \in 1 .. Len(c) : c[i] = IF i <= Len(old) THEN old[i] ELSE s[i - Len(old)]
  OBVIOUS
<1>. HIDE DEF r, c
<1>. USE DEF Overwritten
<1>3. Len(r) = Len(c)
  BY <1>0, <1>1, <1>2
<1>4. ASSUME NEW i \in 1 .. Len(r) PROVE r[i] = c[i]
  <2>0. i \in Int /\ 1 <= i /\ i <= Len(old) + Len(s)
    BY <1>0, <1>2, <1>3
  <2>1. CASE i <= Len(old)
    <3>1. i \notin Len(old) + 1 .. Len(old) + Len(s) /\ i \in 1 .. Len(old)
      BY <1>0, <2>0, <2>1
    <3>2. r[i] = old[i]
      BY <1>1, <3>1
    <3>3. c[i] = old[i]
      BY <1>2, <1>3, <2>1
    <3>. QED BY <3>2, <3>3
  <2>2. CASE ~(i <= Len(old))
    <3>1. i \in Len(old) + 1 .. Len(old) + Len(s)
      BY <1>0, <2>0, <2>2
    <3>2. r[i] = s[i - Len(old)]
      BY <1>1, <3>1
    <3>3. c[i] = s[i - Len(old)]
      BY <1>2, <1>3, <2>2
    <3>. QED BY <3>2, <3>3
  <2>. QED BY <2>1, <2>2
<1>5. r = c
  BY <1>1, <1>2, <1>3, <1>4, SamePieces
<1>. QED BY <1>5 DEF r, c

\* The pieces of a process.
LEMMA PiecesAre ==
    ASSUME NEW p \in Procs, NEW k \in Nat
    PROVE  /\ Pieces(p, k) \in Seq(Piece) /\ Len(Pieces(p, k)) = k
           /\ \A j \in 1 .. k : Pieces(p, k)[j] = IF Prog(p) = "writemany" THEN Word(p, 1)
                                  ELSE IF j % 2 = 1 THEN Word(p, (j + 1) \div 2) ELSE Blank(p)
<1>. DEFINE e(j) == IF Prog(p) = "writemany" THEN Word(p, 1)
                    ELSE IF j % 2 = 1 THEN Word(p, (j + 1) \div 2) ELSE Blank(p)
<1>1. \A j \in 1 .. k : e(j) \in Piece
  <2>1. \A j \in 1 .. k : (j + 1) \div 2 \in Nat
    OBVIOUS
  <2>2. \A i \in Nat : Word(p, i) \in Piece
    BY DEF Word, Piece
  <2>3. Blank(p) \in Piece
    BY DEF Blank, Piece
  <2>. QED BY <2>1, <2>2, <2>3
<1>2. Pieces(p, k) = [j \in 1 .. k |-> e(j)]
  BY DEF Pieces
<1>. HIDE DEF e
<1>3. /\ Pieces(p, k) \in Seq(Piece) /\ Len(Pieces(p, k)) = k
      /\ \A j \in 1 .. k : Pieces(p, k)[j] = e(j)
  BY <1>1, <1>2
<1>. QED BY <1>3 DEF e

-----------------------------------------------------------------------------
(* What each call does for a process that has run alone.                   *)

\* What is asked of a process does not change while its command does not.
LEMMA SameAsked ==
    ASSUME NEW p, cmd' = cmd
    PROVE  /\ \A k : Pieces(p, k)' = Pieces(p, k)
           /\ Text(p)' = Text(p)
           /\ \A w : Effect(p, w)' = Effect(p, w)
           /\ \A w : Start(p, w)' = Start(p, w)
           /\ \A w, k : Put(p, w, k)' = Put(p, w, k)
<1>1. Prog(p)' = Prog(p) /\ PathOf(p)' = PathOf(p)
  BY DEF Prog, PathOf
<1>2. \A k : Pieces(p, k)' = Pieces(p, k)
  BY <1>1 DEF Pieces
<1>3. Text(p)' = Text(p)
  BY <1>1, <1>2 DEF Text
<1>4. \A w : Start(p, w)' = Start(p, w)
  BY <1>1 DEF Start
<1>5. \A w, k : Put(p, w, k)' = Put(p, w, k)
  BY <1>1, <1>2, <1>4 DEF Put
<1>6. \A w : Effect(p, w)' = Effect(p, w)
  BY <1>1, <1>3 DEF Effect
<1>. QED BY <1>2, <1>3, <1>4, <1>5, <1>6

\* What the README says of the commands on files that have to be there.
LEMMA EffectIs ==
    ASSUME NEW p, NEW w, PathOf(p) # Root
    PROVE  LET old  == w.files[PathOf(p)]
               put(what) == Result([w.files EXCEPT ![PathOf(p)] = what], w.cwd, 0, <<>>)
           IN  /\ Prog(p) \in {"write", "writemany"} =>
                     Effect(p, w) = IF old.st # "file" THEN Failed(w)
                                    ELSE put(Disk!File(Disk!Overwrite(old.data, 0, Text(p))))
               /\ Prog(p) = "append" =>
                     Effect(p, w) = IF old.st # "file" THEN Failed(w)
                                    ELSE put(Disk!File(old.data \o Text(p)))
               /\ Prog(p) = "cat" =>
                     Effect(p, w) = IF old.st # "file" THEN Failed(w)
                                    ELSE Result(w.files, w.cwd, 0, UpToZero(old.data))
               /\ Prog(p) = "rm" =>
                     Effect(p, w) = IF old.st # "file" THEN Failed(w)
                                    ELSE IF PathOf(p) \in Plain THEN Result(w.files, w.cwd, 0, <<>>)
                                    ELSE put(Disk!Absent)
BY DEF Effect, Result, Failed

\* The next call is the one it goes to.
LEMMA Goes ==
    ASSUME World, NEW p \in Procs, NEW c, GoTo(p, c), c # "ready"
    PROVE  At(p)' = c
BY DEF GoTo, At, World, Types, FollowsProgram

\* A call that fails makes the status -1.
LEMMA Fails ==
    ASSUME World, NEW p \in Procs, Fail(p)
    PROVE  At(p)' = "exit" /\ status'[p] = -1
<1>1. At(p)' = "exit"
  BY Goes DEF Fail
<1>2. status'[p] = -1
  BY DEF Fail, World, Fresh, PerProcess
<1>. QED BY <1>1, <1>2

\* The command itself stays, but for getcwd, so what it has to do does.
LEMMA ExitDone ==
    ASSUME NEW p \in Procs, NEW w, cmd' = cmd, At(p)' = "exit",
           Effect(p, w) = Result(files', cwd', status'[p], out'[p].text),
           Prog(p) = "ls" => PathOf(p) = w.cwd /\ out'[p].names = Listing(w.cwd)',
           Prog(p) = "ls_path" /\ status'[p] = 0 => out'[p].names = Listing(PathOf(p))'
    PROVE  Before(p, w)'
<1>1. Prog(p)' = Prog(p) /\ PathOf(p)' = PathOf(p)
  BY DEF Prog, PathOf
<1>2. Effect(p, w)' = Effect(p, w)
  BY SameAsked
<1>3. Documented(p, w)'
  BY <1>1, <1>2 DEF Documented, Result
<1>. QED BY <1>1, <1>3 DEF Before

\* A command that could do nothing, and says so.
LEMMA FailDone ==
    ASSUME World, NEW p \in Procs, NEW w, Idle(p, w), Fail(p), UNCHANGED <<cmd, files, cwd, out>>,
           Prog(p) # "ls",
           Effect(p, w) = Failed(w)
    PROVE  Before(p, w)'
<1>1. At(p)' = "exit" /\ status'[p] = -1
  BY Fails
<1>2. out'[p].text = <<>>
  BY DEF Idle, Silent
<1>3. Effect(p, w) = Result(files', cwd', status'[p], out'[p].text)
  BY <1>1, <1>2 DEF Idle, Failed
<1>. QED BY <1>1, <1>3, ExitDone

\* A path of a file command is a file, or absent.
LEMMA FileOrAbsent ==
    ASSUME World, NEW p \in Procs, NEW w, Idle(p, w), Prog(p) \in FilePrograms
    PROVE  /\ PathOf(p) \in Paths \ DirPaths /\ PathOf(p) # Root
           /\ Exists(PathOf(p)) => w.files[PathOf(p)].st = "file"
           /\ ~Exists(PathOf(p)) => w.files[PathOf(p)].st = "absent"
           /\ files[PathOf(p)] = w.files[PathOf(p)] /\ files[PathOf(p)] \in Content
<1>1. PathOf(p) \in Paths \ DirPaths /\ PathOf(p) # Root
  BY CommandsAssumption DEF World, Proper
<1>2. files[PathOf(p)] = w.files[PathOf(p)] /\ files[PathOf(p)] \in Content
  BY <1>1 DEF Idle, World, Types
<1>3. files[PathOf(p)].st \in {"absent", "dir", "file"}
  BY <1>2 DEF Content
<1>4. Disk!Absent.st = "absent"
  BY DEF Disk!Absent
<1>. QED BY <1>1, <1>2, <1>3, <1>4 DEF World, Kinds, Exists

\* An open file is where its command says, and is there.
LEMMA OpenIsThere ==
    ASSUME World, NEW p \in Procs, fd[p] \in DOMAIN open
    PROVE  open[fd[p]].path = PathOf(p) /\ Exists(PathOf(p)) /\ open[fd[p]] \in OpenFile
BY DEF World, Descriptors, Present, Types

\* A command on a path that is not there, when there has to be a file.
LEMMA NoFile ==
    ASSUME World, NEW p \in Procs, NEW w, Idle(p, w), Prog(p) \in FilePrograms \ {"touch"},
           ~Exists(PathOf(p))
    PROVE  Effect(p, w) = Failed(w)
<1>1. w.files[PathOf(p)].st # "file" /\ PathOf(p) # Root
  BY FileOrAbsent DEF FilePrograms
<1>. QED BY <1>1, EffectIs DEF FilePrograms

\* What the README says of the others.
LEMMA EffectOfOthers ==
    ASSUME World, NEW p \in Procs, NEW w, Idle(p, w)
    PROVE  LET path == PathOf(p)
               none == Result(w.files, w.cwd, 0, <<>>)
               put(what) == Result([w.files EXCEPT ![path] = what], w.cwd, 0, <<>>)
           IN  /\ Prog(p) = "touch" =>
                     Effect(p, w) = IF CanCreate(path) THEN put(Disk!File(<<>>))
                                    ELSE IF ~Exists(path) THEN Failed(w) ELSE none
               /\ Prog(p) = "mkdir" =>
                     Effect(p, w) = IF CanCreate(path) THEN put(Disk!Directory) ELSE Failed(w)
               /\ Prog(p) = "cd" =>
                     Effect(p, w) = IF ~Exists(path) THEN Failed(w)
                                    ELSE Result(w.files, path, 0, <<>>)
               /\ Prog(p) = "ls_path" => Effect(p, w) = IF ~Exists(path) THEN Failed(w) ELSE none
               /\ Prog(p) \in {"ls", "pwd"} => Effect(p, w) = none
<1>. DEFINE path == PathOf(p)
            old == IF path = Root THEN Disk!Directory ELSE w.files[path]
            new == old.st = "absent" /\ (Len(path) > 1 => w.files[Front(path)] = Disk!Directory)
            none == Result(w.files, w.cwd, 0, <<>>)
            put(what) == Result([w.files EXCEPT ![path] = what], w.cwd, 0, <<>>)
<1>1. path \in Paths \cup {Root} /\ Disk!Absent.st = "absent" /\ Disk!Directory.st = "dir"
  BY DEF World, Types, Command, PathOf, Disk!Absent, Disk!Directory
<1>2. old.st = "absent" <=> ~Exists(path)
  BY <1>1 DEF Idle, World, Kinds, Exists
<1>3. new <=> CanCreate(path)
  BY <1>2 DEF CanCreate, Disk!HasParent, Front, Idle
<1>. HIDE DEF path
<1>4. /\ Prog(p) = "touch" =>
            Effect(p, w) = IF new THEN put(Disk!File(<<>>))
                           ELSE IF old.st = "absent" THEN Failed(w) ELSE none
      /\ Prog(p) = "mkdir" => Effect(p, w) = IF new THEN put(Disk!Directory) ELSE Failed(w)
  BY DEF Effect, path, Result, Failed
<1>5. /\ Prog(p) = "cd" => Effect(p, w) = IF old.st = "absent" THEN Failed(w)
                                          ELSE Result(w.files, path, 0, <<>>)
      /\ Prog(p) = "ls_path" => Effect(p, w) = IF old.st = "absent" THEN Failed(w) ELSE none
      /\ Prog(p) \in {"ls", "pwd"} => Effect(p, w) = none
  BY DEF Effect, path, Result, Failed
<1>. HIDE DEF old, new
<1>. QED BY <1>2, <1>3, <1>4, <1>5 DEF path

\* _open: touch is over; the others have the file, or know that it is not there.
LEMMA OpenBefore ==
    ASSUME World, NEW p \in Procs, NEW w, Before(p, w), Open(p)
    PROVE  Before(p, w)'
<1>. DEFINE path == PathOf(p)
<1>0. /\ Types /\ Idle(p, w) /\ n[p] = 0 /\ UNCHANGED <<cmd, cwd, n, ok, out>>
      /\ At(p) \in {"open", "creat"} /\ (Prog(p) = "ls" /\ At(p) = "open" => path = w.cwd)
  BY DEF World, Before, Open
<1>1. Prog(p)' = Prog(p) /\ PathOf(p)' = path
  BY <1>0 DEF Prog, PathOf
<1>2. out'[p].text = <<>>
  BY <1>0 DEF Idle, Silent
<1>3. CASE At(p) = "creat"
  <2>1. Prog(p) = "touch" /\ Following(p) = "exit"
    BY <1>0, <1>3, CallOf, FollowingOfOthers
  <2>2. CASE fd'[p] # NoFd
    <3>1. Continue(p)
      BY <2>2 DEF Open, ContinueIf
    <3>2. At(p)' = "exit" /\ status'[p] = 0
      BY <1>0, <2>1, <3>1, Goes DEF Continue, Idle
    <3>3. CASE Exists(path) /\ files' = files
      <4>1. Effect(p, w) = Result(w.files, w.cwd, 0, <<>>)
        BY <1>0, <2>1, <3>3, EffectOfOthers DEF CanCreate
      <4>. QED BY <1>0, <1>2, <2>1, <3>2, <3>3, <4>1, ExitDone DEF Idle
    <3>4. CASE CanCreate(path) /\ files' = [files EXCEPT ![path] = Disk!File(<<>>)]
      <4>1. Effect(p, w) = Result([w.files EXCEPT ![path] = Disk!File(<<>>)], w.cwd, 0, <<>>)
        BY <1>0, <2>1, <3>4, EffectOfOthers
      <4>. QED BY <1>0, <1>2, <2>1, <3>2, <3>4, <4>1, ExitDone DEF Idle
    <3>. QED BY <2>2, <3>3, <3>4, OpenResult
  <2>3. CASE fd'[p] = NoFd
    <3>1. ~Exists(path) /\ ~CanCreate(path) /\ files' = files
      BY <1>3, <2>3, OpenResult
    <3>2. Fail(p)
      BY <2>1, <2>3 DEF Open, ContinueIf
    <3>3. Effect(p, w) = Failed(w)
      BY <1>0, <2>1, <3>1, EffectOfOthers
    <3>. QED BY <1>0, <2>1, <3>1, <3>2, <3>3, FailDone
  <2>. QED BY <2>2, <2>3
<1>4. CASE At(p) = "open"
  <2>1. /\ files' = files
        /\ \/ Exists(path) /\ fd'[p] \in DOMAIN open' /\ fd'[p] # NoFd
           \/ ~Exists(path) /\ fd'[p] = NoFd
    BY <1>4, OpenResult
  <2>2. Tried(p)'
    BY <1>1, <2>1 DEF Tried, Exists
  <2>3. Prog(p) \in Writers \cup {"cat", "rm", "cd", "ls", "ls_path"}
    BY <1>0, <1>4, CallOf
  <2>4. ASSUME status'[p] = 0 PROVE Idle(p, w)' /\ n'[p] = 0
    BY <1>0, <2>1, <2>4 DEF Idle
  <2>5. CASE Prog(p) \in Writers \cup {"cat", "rm"}
    <3>1. Continue(p)
      BY <2>5 DEF Open, ContinueIf, Writers
    <3>2. Following(p) \in {"lseek", "close"}
      BY <1>4, <2>5, FollowingOfWriters, FollowingOfOthers DEF Writers
    <3>3. At(p)' \in {"lseek", "close"} /\ status'[p] = 0
      BY <1>0, <3>1, <3>2, Goes DEF Continue, Idle
    <3>. QED BY <1>1, <2>2, <2>4, <2>5, <3>3 DEF Before, Writers
  <2>6. CASE Prog(p) \in {"cd", "ls", "ls_path"} /\ fd'[p] # NoFd
    <3>1. Continue(p)
      BY <2>6 DEF Open, ContinueIf
    <3>2. Following(p) \in {"chdir", "getdents"}
      BY <1>4, <2>6, FollowingOfOthers
    <3>3. At(p)' \in {"chdir", "getdents"} /\ status'[p] = 0
      BY <1>0, <3>1, <3>2, Goes DEF Continue, Idle
    <3>. QED BY <1>0, <1>1, <1>4, <2>1, <2>4, <2>6, <3>3 DEF Before
  <2>7. CASE Prog(p) \in {"cd", "ls", "ls_path"} /\ fd'[p] = NoFd
    <3>1. ~Exists(path)
      BY <2>1, <2>7
    <3>2. Prog(p) # "ls"
      BY <1>0, <1>4, <3>1 DEF World, Present, Idle
    <3>3. Fail(p)
      BY <2>7 DEF Open, ContinueIf
    <3>4. Effect(p, w) = Failed(w)
      BY <1>0, <2>7, <3>1, <3>2, EffectOfOthers
    <3>. QED BY <1>0, <2>1, <3>2, <3>3, <3>4, FailDone
  <2>. QED BY <2>3, <2>5, <2>6, <2>7
<1>. QED BY <1>0, <1>3, <1>4

\* _fstat, of cat.
LEMMA FstatBefore ==
    ASSUME World, NEW p \in Procs, NEW w, Before(p, w), Fstat(p)
    PROVE  Before(p, w)'
<1>0. /\ Types /\ Idle(p, w) /\ Tried(p) /\ UNCHANGED <<cmd, files, cwd, open, fd, ok, out>>
      /\ At(p) = "fstat" /\ (fd[p] \in DOMAIN open => open[fd[p]].offset = 0)
  BY DEF World, Before, Fstat, kernel
<1>1. Prog(p) = "cat" /\ Following(p) = "read"
  BY <1>0, CallOf, FollowingOfOthers
<1>2. /\ PathOf(p) \in Paths \ DirPaths /\ PathOf(p) # Root
      /\ Exists(PathOf(p)) => w.files[PathOf(p)].st = "file"
      /\ files[PathOf(p)] = w.files[PathOf(p)]
  BY <1>0, <1>1, FileOrAbsent DEF FilePrograms
<1>3. Prog(p)' = Prog(p) /\ PathOf(p)' = PathOf(p)
  BY <1>0 DEF Prog, PathOf
<1>4. CASE fd[p] \in DOMAIN open
  <2>1. open[fd[p]].path = PathOf(p) /\ Exists(PathOf(p))
    BY <1>4, OpenIsThere
  <2>2. ~IsDir(open[fd[p]].path)
    BY <1>2, <2>1 DEF IsDir, Disk!Directory
  <2>3. Continue(p) /\ n'[p] = Size(PathOf(p))
    BY <1>0, <1>4, <2>1, <2>2 DEF Fstat, ContinueIf, Types
  <2>4. At(p)' = "read" /\ status'[p] = 0
    BY <1>0, <1>1, <2>3, Goes DEF Continue, Idle
  <2>5. Idle(p, w)' /\ n'[p] = Size(PathOf(p))'
    BY <1>0, <1>3, <2>3, <2>4 DEF Idle, Size
  <2>. QED BY <1>0, <1>1, <1>3, <1>4, <2>4, <2>5 DEF Before
<1>5. CASE fd[p] \notin DOMAIN open
  <2>1. ~Exists(PathOf(p))
    BY <1>0, <1>5 DEF Tried
  <2>2. Fail(p)
    BY <1>5 DEF Fstat, ContinueIf
  <2>3. Effect(p, w) = Failed(w)
    BY <1>0, <1>1, <2>1, NoFile DEF FilePrograms
  <2>. QED BY <1>0, <1>1, <2>2, <2>3, FailDone
<1>. QED BY <1>4, <1>5

\* _read, of cat: the file from its start to its end.
LEMMA ReadBefore ==
    ASSUME World, NEW p \in Procs, NEW w, Before(p, w), Read(p)
    PROVE  Before(p, w)'
<1>. DEFINE data == files[PathOf(p)].data
            s == sys_read(fd[p], n[p])
<1>0. /\ Types /\ Idle(p, w) /\ UNCHANGED <<cmd, files, cwd>> /\ At(p) = "read"
      /\ fd[p] \in DOMAIN open /\ open[fd[p]].offset = 0 /\ n[p] = Size(PathOf(p))
      /\ Continue(p)
  BY DEF World, Before, Read
<1>1. Prog(p) = "cat" /\ Following(p) = "exit"
  BY <1>0, CallOf, FollowingOfOthers
<1>2. open[fd[p]].path = PathOf(p) /\ Exists(PathOf(p))
  BY <1>0, OpenIsThere
<1>3. /\ w.files[PathOf(p)].st = "file" /\ data = w.files[PathOf(p)].data /\ data \in Seq(Piece)
      /\ PathOf(p) # Root
  BY <1>0, <1>1, <1>2, FileOrAbsent DEF FilePrograms, Content
<1>4. s = data
  <2>1. s = [j \in 1 .. Len(data) |-> IF 0 + j <= Len(data) THEN data[0 + j] ELSE Zero]
    BY <1>0, <1>2, <1>3 DEF sys_read, Size
  <2>2. \A j \in 1 .. Len(data) : 0 + j <= Len(data) /\ 0 + j = j
    BY <1>3
  <2>3. s = [j \in 1 .. Len(data) |-> data[j]]
    BY <2>1, <2>2
  <2>. QED BY <1>3, <2>3
<1>5. At(p)' = "exit" /\ status'[p] = 0
  BY <1>0, <1>1, Goes DEF Continue, Idle
<1>6. out'[p].text = UpToZero(data)
  <2>1. out[p] = Silent /\ PerProcess(out)
    BY <1>0 DEF Idle, World, Fresh
  <2>2. out' = [out EXCEPT ![p].text = UpToZero(s)]
    BY <1>0, <1>2, <1>3 DEF Read
  <2>3. out'[p] = [out[p] EXCEPT !.text = UpToZero(s)]
    BY <2>1, <2>2 DEF PerProcess
  <2>. QED BY <1>4, <2>1, <2>3 DEF Silent
<1>7. Effect(p, w) = Result(w.files, w.cwd, 0, UpToZero(data))
  BY <1>1, <1>3, EffectIs
<1>. QED BY <1>0, <1>1, <1>5, <1>6, <1>7, ExitDone DEF Idle

\* _close, of rm: now nobody has the path open.
LEMMA CloseBefore ==
    ASSUME World, NEW p \in Procs, NEW w, Before(p, w), Close(p)
    PROVE  Before(p, w)'
<1>0. /\ Types /\ Idle(p, w) /\ Tried(p) /\ UNCHANGED <<cmd, files, cwd, fd, n, ok, out>>
      /\ At(p) = "close" /\ open' = [g \in DOMAIN open \ {fd[p]} |-> open[g]] /\ Continue(p)
  BY DEF World, Before, Close, sys_close
<1>1. Prog(p) = "rm" /\ Following(p) = "unlink"
  BY <1>0, CallOf, FollowingOfOthers
<1>2. At(p)' = "unlink" /\ status'[p] = 0
  BY <1>0, <1>1, Goes DEF Continue, Idle
<1>3. Prog(p)' = Prog(p) /\ PathOf(p)' = PathOf(p)
  BY <1>0 DEF Prog, PathOf
<1>4. \A f \in DOMAIN open : open[f].path = PathOf(p) => f = fd[p]
  <2>1. CASE Exists(PathOf(p))
    BY <1>0, <2>1, OpenIsThere DEF Tried, World, Descriptors
  <2>2. CASE ~Exists(PathOf(p))
    BY <2>2 DEF World, Present
  <2>. QED BY <2>1, <2>2
<1>5. find_open_file(PathOf(p))' = {}
  BY <1>0, <1>3, <1>4 DEF find_open_file
<1>6. Idle(p, w)'
  BY <1>0, <1>2 DEF Idle
<1>. QED BY <1>1, <1>2, <1>3, <1>5, <1>6 DEF Before

\* _unlink, of rm.
LEMMA UnlinkBefore ==
    ASSUME World, NEW p \in Procs, NEW w, Before(p, w), Unlink(p)
    PROVE  Before(p, w)'
<1>0. /\ Types /\ Idle(p, w) /\ UNCHANGED <<cmd, cwd, out>> /\ At(p) = "unlink"
      /\ find_open_file(PathOf(p)) = {}
  BY DEF World, Before, Unlink, kernel
<1>1. Prog(p) = "rm" /\ Following(p) = "exit"
  BY <1>0, CallOf, FollowingOfOthers
<1>2. CASE Exists(PathOf(p)) /\ PathOf(p) \notin Plain
  <2>1. w.files[PathOf(p)].st = "file" /\ PathOf(p) # Root
    BY <1>0, <1>1, <1>2, FileOrAbsent DEF FilePrograms
  <2>2. files' = [files EXCEPT ![PathOf(p)] = Disk!Absent] /\ Continue(p)
    BY <1>0, <1>2 DEF Unlink, sys_unlink, CanUnlink, ContinueIf, Disk!Remove
  <2>3. At(p)' = "exit" /\ status'[p] = 0 /\ out'[p].text = <<>>
    BY <1>0, <1>1, <2>2, Goes DEF Continue, Idle, Silent
  <2>4. Effect(p, w) = Result([w.files EXCEPT ![PathOf(p)] = Disk!Absent], w.cwd, 0, <<>>)
    BY <1>1, <1>2, <2>1, EffectIs
  <2>. QED BY <1>0, <1>1, <2>2, <2>3, <2>4, ExitDone DEF Idle
<1>4. CASE Exists(PathOf(p)) /\ PathOf(p) \in Plain
  <2>1. w.files[PathOf(p)].st = "file" /\ PathOf(p) # Root
    BY <1>0, <1>1, <1>4, FileOrAbsent DEF FilePrograms
  <2>2. files' = files /\ Continue(p)
    BY <1>0, <1>4 DEF Unlink, sys_unlink, CanUnlink, ContinueIf
  <2>3. At(p)' = "exit" /\ status'[p] = 0 /\ out'[p].text = <<>>
    BY <1>0, <1>1, <2>2, Goes DEF Continue, Idle, Silent
  <2>4. Effect(p, w) = Result(w.files, w.cwd, 0, <<>>)
    BY <1>1, <1>4, <2>1, EffectIs
  <2>. QED BY <1>0, <1>1, <2>2, <2>3, <2>4, ExitDone DEF Idle
<1>3. CASE ~Exists(PathOf(p))
  <2>1. files' = files /\ Fail(p)
    BY <1>3 DEF Unlink, sys_unlink, CanUnlink, ContinueIf
  <2>2. Effect(p, w) = Failed(w)
    BY <1>0, <1>1, <1>3, NoFile DEF FilePrograms
  <2>. QED BY <1>0, <1>1, <2>1, <2>2, FailDone
<1>. QED BY <1>2, <1>3, <1>4

\* _mkdir.
LEMMA MkdirBefore ==
    ASSUME World, NEW p \in Procs, NEW w, Before(p, w), Mkdir(p)
    PROVE  Before(p, w)'
<1>0. Types /\ Idle(p, w) /\ UNCHANGED <<cmd, cwd, out>> /\ At(p) = "mkdir"
  BY DEF World, Before, Mkdir, kernel
<1>1. Prog(p) = "mkdir" /\ Following(p) = "exit"
  BY <1>0, CallOf, FollowingOfOthers
<1>2. CASE CanCreate(PathOf(p))
  <2>1. files' = [files EXCEPT ![PathOf(p)] = Disk!Directory] /\ Continue(p)
    BY <1>2 DEF Mkdir, ContinueIf, Disk!Create
  <2>2. At(p)' = "exit" /\ status'[p] = 0 /\ out'[p].text = <<>>
    BY <1>0, <1>1, <2>1, Goes DEF Continue, Idle, Silent
  <2>3. Effect(p, w) = Result([w.files EXCEPT ![PathOf(p)] = Disk!Directory], w.cwd, 0, <<>>)
    BY <1>0, <1>1, <1>2, EffectOfOthers
  <2>. QED BY <1>0, <1>1, <2>1, <2>2, <2>3, ExitDone DEF Idle
<1>3. CASE ~CanCreate(PathOf(p))
  <2>1. files' = files /\ Fail(p)
    BY <1>3 DEF Mkdir, ContinueIf
  <2>2. Effect(p, w) = Failed(w)
    BY <1>0, <1>1, <1>3, EffectOfOthers
  <2>. QED BY <1>0, <1>1, <2>1, <2>2, FailDone
<1>. QED BY <1>2, <1>3

\* _chdir, of cd.
LEMMA ChdirBefore ==
    ASSUME World, NEW p \in Procs, NEW w, Before(p, w), Chdir(p)
    PROVE  Before(p, w)'
<1>0. /\ Types /\ Idle(p, w) /\ UNCHANGED <<cmd, files, out>> /\ At(p) = "chdir"
      /\ cwd' = PathOf(p) /\ Continue(p)
  BY DEF World, Before, Chdir
<1>1. Prog(p) = "cd" /\ Following(p) = "exit" /\ pc[p] = "chdir"
  BY <1>0, CallOf, FollowingOfOthers
<1>2. Exists(PathOf(p))
  BY <1>1 DEF World, Present
<1>3. At(p)' = "exit" /\ status'[p] = 0 /\ out'[p].text = <<>>
  BY <1>0, <1>1, Goes DEF Continue, Idle, Silent
<1>4. Effect(p, w) = Result(w.files, PathOf(p), 0, <<>>)
  BY <1>0, <1>1, <1>2, EffectOfOthers
<1>. QED BY <1>0, <1>1, <1>3, <1>4, ExitDone DEF Idle

\* _getcwd: pwd is over, and ls goes on with the working directory.
LEMMA GetcwdBefore ==
    ASSUME World, NEW p \in Procs, NEW w, Before(p, w), Getcwd(p)
    PROVE  Before(p, w)'
<1>0. /\ Types /\ Idle(p, w) /\ n[p] = 0 /\ UNCHANGED <<files, cwd, open, fd, n, out>>
      /\ At(p) = "getcwd" /\ cmd' = [cmd EXCEPT ![p].path = cwd] /\ Continue(p)
  BY DEF World, Before, Getcwd, kernel
<1>1. Prog(p) \in {"ls", "pwd"}
  BY <1>0, CallOf
<1>2. Prog(p)' = Prog(p) /\ PathOf(p)' = w.cwd
  <2>1. cmd[p] \in Command /\ cmd \in [Procs -> Command]
    BY <1>0 DEF Types
  <2>2. cmd'[p] = [cmd[p] EXCEPT !.path = cwd]
    BY <1>0, <2>1
  <2>3. cmd'[p].prog = cmd[p].prog /\ cmd'[p].path = cwd
    BY <2>1, <2>2 DEF Command
  <2>. QED BY <1>0, <2>3 DEF Prog, PathOf, Idle
<1>3. CASE Prog(p) = "ls"
  <2>1. Following(p) = "open"
    BY <1>0, <1>3, FollowingOfOthers
  <2>2. At(p)' = "open" /\ status'[p] = 0
    BY <1>0, <2>1, Goes DEF Continue, Idle
  <2>3. Idle(p, w)' /\ n'[p] = 0
    BY <1>0, <2>2 DEF Idle
  <2>. QED BY <1>2, <1>3, <2>2, <2>3 DEF Before
<1>4. CASE Prog(p) = "pwd"
  <2>1. Following(p) = "exit"
    BY <1>0, <1>4, FollowingOfOthers
  <2>2. At(p)' = "exit" /\ status'[p] = 0 /\ out'[p].text = <<>>
    BY <1>0, <2>1, Goes DEF Continue, Idle, Silent
  <2>3. Prog(p)' = "pwd"
    BY <1>2, <1>4
  <2>4. Effect(p, w)' = Result(w.files, w.cwd, 0, <<>>)
    BY <2>3 DEF Effect, Result
  <2>5. Documented(p, w)'
    BY <1>0, <2>2, <2>3, <2>4 DEF Documented, Idle, Result
  <2>. QED BY <2>2, <2>3, <2>5 DEF Before
<1>. QED BY <1>1, <1>3, <1>4

\* _getdents, of ls.
LEMMA GetdentsBefore ==
    ASSUME World, NEW p \in Procs, NEW w, Before(p, w), Getdents(p)
    PROVE  Before(p, w)'
<1>0. /\ Types /\ Idle(p, w) /\ UNCHANGED <<cmd, files, cwd>> /\ At(p) = "getdents"
      /\ fd[p] \in DOMAIN open /\ (Prog(p) = "ls" => PathOf(p) = w.cwd)
      /\ out' = [out EXCEPT ![p].names = Listing(open[fd[p]].path)] /\ Continue(p)
  BY DEF World, Before, Getdents, kernel
<1>1. Prog(p) \in {"ls", "ls_path"} /\ Following(p) = "exit"
  BY <1>0, CallOf, FollowingOfOthers
<1>2. open[fd[p]].path = PathOf(p) /\ Exists(PathOf(p))
  BY <1>0, OpenIsThere
<1>3. out'[p].names = Listing(PathOf(p)) /\ out'[p].text = <<>>
  <2>1. out[p] = Silent /\ PerProcess(out)
    BY <1>0 DEF Idle, World, Fresh
  <2>2. out'[p] = [out[p] EXCEPT !.names = Listing(PathOf(p))]
    BY <1>0, <1>2, <2>1 DEF PerProcess
  <2>. QED BY <2>1, <2>2 DEF Silent
<1>4. Listing(PathOf(p))' = Listing(PathOf(p)) /\ Listing(w.cwd)' = Listing(w.cwd)
  BY <1>0 DEF Listing, Exists, PathOf
<1>5. At(p)' = "exit" /\ status'[p] = 0
  BY <1>0, <1>1, Goes DEF Continue, Idle
<1>6. Effect(p, w) = Result(w.files, w.cwd, 0, <<>>)
  BY <1>0, <1>1, <1>2, EffectOfOthers
<1>. QED BY <1>0, <1>1, <1>3, <1>4, <1>5, <1>6, ExitDone DEF Idle

\* The path of a writer that was a file when it started.
LEMMA PutAt ==
    ASSUME NEW p \in Procs, NEW w, Found(w), PathOf(p) \in Paths, NEW k \in Nat
    PROVE  LET path == PathOf(p)
               new == Disk!Overwrite(w.files[path].data, Start(p, w), Pieces(p, k))
           IN  /\ w.files[path].data \in Seq(Piece) /\ Start(p, w) \in Nat
               /\ Start(p, w) \in 0 .. Len(w.files[path].data)
               /\ Put(p, w, k) = [w.files EXCEPT ![path] = Disk!File(new)]
               /\ Put(p, w, k)[path].data = new /\ Put(p, w, k)[path].st = "file"
<1>1. w.files \in [Paths -> Content] /\ w.files[PathOf(p)] \in Content
  BY DEF Found
<1>2. w.files[PathOf(p)].data \in Seq(Piece)
  BY <1>1 DEF Content
<1>3. Start(p, w) \in Nat /\ Start(p, w) \in 0 .. Len(w.files[PathOf(p)].data)
  BY <1>2 DEF Start
<1>. DEFINE new == Disk!Overwrite(w.files[PathOf(p)].data, Start(p, w), Pieces(p, k))
<1>4. Put(p, w, k) = [w.files EXCEPT ![PathOf(p)] = Disk!File(new)]
  BY DEF Put
<1>. HIDE DEF new
<1>5. Put(p, w, k)[PathOf(p)] = Disk!File(new)
  BY <1>1, <1>4
<1>6. Disk!File(new).data = new /\ Disk!File(new).st = "file"
  BY DEF Disk!File
<1>. QED BY <1>2, <1>3, <1>4, <1>5, <1>6 DEF new

\* A writer that is about to write, with nothing written yet.
LEMMA PutNothing ==
    ASSUME NEW p \in Procs, NEW w, Found(w), PathOf(p) \in Paths, w.files[PathOf(p)].st = "file"
    PROVE  Put(p, w, 0) = w.files
<1>. DEFINE path == PathOf(p)
            data == w.files[path].data
<1>1. /\ data \in Seq(Piece) /\ Start(p, w) \in 0 .. Len(data)
      /\ Put(p, w, 0) = [w.files EXCEPT ![path] = Disk!File(Disk!Overwrite(data, Start(p, w), Pieces(p, 0)))]
  BY PutAt
<1>2. Pieces(p, 0) \in Seq(Piece) /\ Len(Pieces(p, 0)) = 0
  BY PiecesAre
<1>3. Disk!Overwrite(data, Start(p, w), Pieces(p, 0)) = data
  BY <1>1, <1>2, OverwriteNothing
<1>4. w.files \in [Paths -> Content] /\ w.files[path] \in Content
  BY DEF Found
<1>5. Disk!File(data) = w.files[path]
  BY <1>4 DEF Disk!File, Content
<1>. QED BY <1>1, <1>3, <1>4, <1>5

\* _lseek: to the end or the start of the file, if it is there.
LEMMA LseekBefore ==
    ASSUME World, NEW p \in Procs, NEW w, Found(w), Before(p, w), Lseek(p)
    PROVE  Before(p, w)'
<1>. DEFINE path == PathOf(p)
<1>0. /\ Types /\ Idle(p, w) /\ n[p] = 0 /\ Tried(p) /\ At(p) = "lseek"
      /\ UNCHANGED <<cmd, files, cwd, fd, n, ok, out>> /\ sys_lseek(fd[p], Whence(p))
      /\ ContinueIf(p, fd[p] # NoFd \/ Prog(p) = "cat")
  BY DEF World, Before, Lseek
<1>1. Prog(p) \in Writers \cup {"cat"} /\ Prog(p) \in FilePrograms \ {"touch"} /\ Prog(p) # "ls"
  BY <1>0, CallOf DEF Writers, FilePrograms
<1>2. Prog(p)' = Prog(p) /\ PathOf(p)' = PathOf(p)
  BY <1>0 DEF Prog, PathOf
<1>3. /\ path \in Paths \ DirPaths /\ path # Root
      /\ Exists(path) => w.files[path].st = "file"
      /\ files[path] = w.files[path]
  BY <1>0, <1>1, FileOrAbsent
<1>4. Tried(p)' /\ DOMAIN open' = DOMAIN open
  <2>1. DOMAIN open' = DOMAIN open
    BY <1>0 DEF sys_lseek
  <2>. QED BY <1>0, <1>2, <2>1 DEF Tried, Exists
<1>5. ASSUME fd[p] \in DOMAIN open
      PROVE  open'[fd[p]].offset = Start(p, w)
  <2>1. open[fd[p]].path = path /\ open[fd[p]] \in OpenFile
    BY <1>5, OpenIsThere
  <2>2. open' = [open EXCEPT ![fd[p]].offset = CASE Whence(p) = "SEEK_SET" -> 0
                                                 [] Whence(p) = "SEEK_CUR" -> @
                                                 [] Whence(p) = "SEEK_END" -> Size(path)]
    BY <1>0, <1>5, <2>1 DEF sys_lseek
  <2>3. CASE Prog(p) = "append"
    <3>1. Whence(p) = "SEEK_END"
      BY <2>3 DEF Whence
    <3>2. open' = [open EXCEPT ![fd[p]].offset = Size(path)]
      BY <2>2, <3>1
    <3>3. open'[fd[p]].offset = Size(path)
      BY <1>5, <2>1, <3>2 DEF OpenFile
    <3>. QED BY <1>3, <2>3, <3>3 DEF Size, Start
  <2>4. CASE Prog(p) # "append"
    <3>1. Whence(p) = "SEEK_SET"
      BY <2>4 DEF Whence
    <3>2. open' = [open EXCEPT ![fd[p]].offset = 0]
      BY <2>2, <3>1
    <3>3. open'[fd[p]].offset = 0
      BY <1>5, <2>1, <3>2 DEF OpenFile
    <3>. QED BY <2>4, <3>3 DEF Start
  <2>. QED BY <2>3, <2>4
<1>6. CASE Prog(p) = "cat"
  <2>1. Following(p) = "fstat" /\ Continue(p) /\ Start(p, w) = 0
    BY <1>0, <1>6, FollowingOfOthers DEF ContinueIf, Start
  <2>2. At(p)' = "fstat" /\ status'[p] = 0
    BY <1>0, <2>1, Goes DEF Continue, Idle
  <2>3. Idle(p, w)'
    BY <1>0, <2>2 DEF Idle
  <2>. QED BY <1>0, <1>1, <1>2, <1>4, <1>5, <2>1, <2>2, <2>3 DEF Before
<1>7. CASE Prog(p) \in Writers /\ fd[p] # NoFd
  <2>1. Exists(path) /\ fd[p] \in DOMAIN open
    BY <1>0, <1>7 DEF Tried
  <2>2. Continue(p) /\ Following(p) \in {"word", "string"}
    BY <1>0, <1>7, FollowingOfWriters DEF ContinueIf, Writers
  <2>3. At(p)' \in {"word", "string"} /\ status'[p] = 0
    BY <1>0, <2>2, Goes DEF Continue, Idle
  <2>4. Count(p)' = 0
    BY <1>0, <2>3 DEF Count
  <2>5. files' = Put(p, w, 0)
    BY <1>0, <1>3, <2>1, PutNothing DEF Idle
  <2>6. cmd[p].n > 0 /\ cmd[p].n \in Nat
    BY <1>0, <1>7 DEF World, Proper, Types, Command
  <2>7. Start(p, w)' = Start(p, w) /\ Put(p, w, 0)' = Put(p, w, 0)
    BY <1>0, SameAsked
  <2>8. Start(p, w) \in Nat
    BY <1>3, PutAt
  <2>9. Writing(p, w)'
    <3>1. cwd' = w.cwd /\ status'[p] = 0 /\ out'[p] = Silent /\ w.files[PathOf(p)'].st = "file"
      BY <1>0, <1>2, <1>3, <2>1, <2>3 DEF Idle
    <3>2. fd'[p] \in DOMAIN open' /\ open'[fd'[p]].offset = Start(p, w)' + Count(p)'
      BY <1>0, <1>4, <1>5, <2>1, <2>4, <2>7, <2>8
    <3>3. n'[p] < cmd'[p].n
      BY <1>0, <2>6
    <3>4. files' = Put(p, w, Count(p))'
      BY <2>4, <2>5, <2>7
    <3>. QED BY <2>3, <3>1, <3>2, <3>3, <3>4 DEF Writing
  <2>. QED BY <1>1, <1>2, <2>3, <2>9 DEF Before
<1>8. CASE Prog(p) \in Writers /\ fd[p] = NoFd
  <2>1. fd[p] \notin DOMAIN open
    BY <1>8 DEF World, Types, FirstFd, NoFd
  <2>2. ~Exists(path)
    BY <1>0, <2>1 DEF Tried
  <2>3. Fail(p)
    BY <1>0, <1>8 DEF ContinueIf, Writers
  <2>4. Effect(p, w) = Failed(w)
    BY <1>0, <1>1, <2>2, NoFile
  <2>. QED BY <1>0, <1>1, <2>3, <2>4, FailDone
<1>. QED BY <1>1, <1>6, <1>7, <1>8

\* What a writer passes to _write next.
LEMMA PieceComes ==
    ASSUME World, NEW p \in Procs, At(p) \in {"word", "blank", "string"}
    PROVE  /\ Count(p) \in Nat /\ Prog(p) \in Writers
           /\ Pieces(p, Count(p) + 1)[Count(p) + 1] = PieceOf(p)
           /\ \A j \in 1 .. Count(p) : Pieces(p, Count(p) + 1)[j] = Pieces(p, Count(p))[j]
<1>. DEFINE k == Count(p)
            e(j) == IF Prog(p) = "writemany" THEN Word(p, 1)
                    ELSE IF j % 2 = 1 THEN Word(p, (j + 1) \div 2) ELSE Blank(p)
<1>0. Types /\ n[p] \in Nat
  BY DEF World, Types
<1>1. k \in Nat
  BY <1>0 DEF Count
<1>2. Prog(p) \in Writers
  BY <1>0, CallOf DEF Writers
<1>3. \A j \in 1 .. k + 1 : Pieces(p, k + 1)[j] = e(j)
  BY <1>1, PiecesAre
<1>4. \A j \in 1 .. k : Pieces(p, k)[j] = e(j)
  BY <1>1, PiecesAre
<1>5. e(k + 1) = PieceOf(p)
  <2>1. CASE At(p) = "word"
    <3>1. Prog(p) # "writemany" /\ k = 2 * n[p]
      BY <1>0, <2>1, CallOf DEF Count
    <3>2. (k + 1) % 2 = 1 /\ (k + 1 + 1) \div 2 = n[p] + 1
      BY <1>0, <3>1
    <3>. QED BY <2>1, <3>1, <3>2 DEF PieceOf
  <2>2. CASE At(p) = "blank"
    <3>1. Prog(p) # "writemany" /\ k = 2 * n[p] + 1
      BY <1>0, <2>2, CallOf DEF Count
    <3>2. (k + 1) % 2 # 1
      BY <1>0, <3>1
    <3>. QED BY <2>2, <3>1, <3>2 DEF PieceOf
  <2>3. CASE At(p) = "string"
    BY <1>0, <2>3, CallOf DEF PieceOf
  <2>. QED BY <2>1, <2>2, <2>3
<1>. HIDE DEF e, k
<1>6. Pieces(p, k + 1)[k + 1] = PieceOf(p)
  BY <1>1, <1>3, <1>5
<1>7. \A j \in 1 .. k : Pieces(p, k + 1)[j] = Pieces(p, k)[j]
  BY <1>1, <1>3, <1>4
<1>. QED BY <1>1, <1>2, <1>6, <1>7 DEF k

\* _write puts it after those that are there.
LEMMA PutPiece ==
    ASSUME World, NEW p \in Procs, NEW w, Found(w), Writing(p, w),
           At(p) \in {"word", "blank", "string"}, Wrote(p), Stored(p) = PieceOf(p)
    PROVE  /\ files' = Put(p, w, Count(p) + 1) /\ DOMAIN open' = DOMAIN open
           /\ open'[fd[p]].offset = Start(p, w) + (Count(p) + 1)
<1>. DEFINE path == PathOf(p)
            k == Count(p)
            old == w.files[path].data
            o == Start(p, w)
            s == Pieces(p, k)
            t == Pieces(p, k + 1)
<1>0. /\ fd[p] \in DOMAIN open /\ open[fd[p]].offset = o + k /\ files = Put(p, w, k)
      /\ open[fd[p]].path = path /\ open[fd[p]] \in OpenFile
  BY OpenIsThere DEF Writing
<1>1. k \in Nat /\ Prog(p) \in Writers /\ t[k + 1] = PieceOf(p) /\ \A j \in 1 .. k : t[j] = s[j]
  BY PieceComes
<1>2. path \in Paths /\ path # Root
  BY <1>1, CommandsAssumption DEF World, Proper, Writers, FilePrograms
<1>3. /\ old \in Seq(Piece) /\ o \in Nat
      /\ Put(p, w, k) = [w.files EXCEPT ![path] = Disk!File(Disk!Overwrite(old, o, s))]
      /\ Put(p, w, k)[path].data = Disk!Overwrite(old, o, s) /\ Put(p, w, k)[path].st = "file"
  BY <1>1, <1>2, PutAt
<1>4. Put(p, w, k + 1) = [w.files EXCEPT ![path] = Disk!File(Disk!Overwrite(old, o, t))]
  BY <1>1, <1>2, PutAt
<1>5. s \in Seq(Piece) /\ t \in Seq(Piece) /\ Len(s) = k /\ Len(t) = k + 1
  BY <1>1, PiecesAre
<1>. HIDE DEF s, t, old, o, k, path
<1>6. Disk!Overwrite(Disk!Overwrite(old, o, s), o + k, <<PieceOf(p)>>) = Disk!Overwrite(old, o, t)
  <2>1. Disk!Overwrite(Disk!Overwrite(old, o, s), o + Len(s), <<t[Len(t)]>>) = Disk!Overwrite(old, o, t)
    <3>1. Len(t) = Len(s) + 1 /\ \A j \in 1 .. Len(s) : t[j] = s[j]
      BY <1>1, <1>5
    <3>2. old \in Seq(Piece) /\ o \in Nat
      BY <1>3
    <3>3. s \in Seq(Piece) /\ t \in Seq(Piece)
      BY <1>5
    <3>. QED BY ONLY <3>1, <3>2, <3>3, OverwriteMore
  <2>. QED BY <1>1, <1>5, <2>1
<1>8. /\ files' = [files EXCEPT ![path] = Disk!File(Disk!Overwrite(files[path].data, o + k, <<PieceOf(p)>>))]
      /\ open' = [open EXCEPT ![fd[p]].offset = o + k + 1]
  BY <1>0 DEF Wrote
<1>9. files' = [files EXCEPT ![path] = Disk!File(Disk!Overwrite(old, o, t))]
  BY <1>0, <1>3, <1>6, <1>8
<1>10. files' = Put(p, w, k + 1)
  <2>1. w.files \in [Paths -> Content]
    BY DEF Found
  <2>. HIDE DEF Found
  <2>2. \A x, y : [[w.files EXCEPT ![path] = x] EXCEPT ![path] = y] = [w.files EXCEPT ![path] = y]
    BY <1>2, <2>1
  <2>. QED BY <1>0, <1>3, <1>4, <1>9, <2>2
<1>11. DOMAIN open' = DOMAIN open /\ open'[fd[p]].offset = o + (k + 1)
  <2>1. o + k + 1 = o + (k + 1)
    BY <1>1, <1>3
  <2>. QED BY <1>0, <1>8, <2>1 DEF OpenFile
<1>. QED BY <1>10, <1>11 DEF k, o

\* The file of a writer is there to be written to.
LEMMA WriterCan ==
    ASSUME World, NEW p \in Procs, NEW w, Found(w), Writing(p, w), StoredWhole(p),
           WriteWord(p) \/ WriteBlank(p) \/ WriteString(p)
    PROVE  CanWrite(fd[p]) /\ Wrote(p) /\ Stored(p) = PieceOf(p)
<1>0. /\ fd[p] \in DOMAIN open /\ files = Put(p, w, Count(p)) /\ open[fd[p]].path = PathOf(p)
      /\ At(p) \in {"word", "blank", "string"} /\ Types
  BY OpenIsThere DEF Writing, WriteWord, WriteBlank, WriteString, World
<1>1. Count(p) \in Nat /\ Prog(p) \in Writers
  BY <1>0, PieceComes
<1>2. PathOf(p) \in Paths /\ PathOf(p) # Root
  BY <1>1, CommandsAssumption DEF World, Proper, Writers, FilePrograms
<1>3. files[PathOf(p)].st = "file"
  BY <1>0, <1>1, <1>2, PutAt
<1>4. CanWrite(fd[p])
  BY <1>0, <1>2, <1>3 DEF CanWrite, IsDir, Disk!Directory
<1>. QED BY <1>0, <1>4, WriteStep DEF StoredWhole, Stored

\* A writer that goes on.
LEMMA WritingOn ==
    ASSUME World, NEW p \in Procs, NEW w, Found(w), Writing(p, w), Wrote(p), Stored(p) = PieceOf(p),
           At(p) \in {"word", "blank", "string"}, At(p)' \in {"word", "blank", "string"},
           UNCHANGED <<cmd, cwd, fd, out>>, status'[p] = 0, n'[p] < cmd[p].n,
           Count(p)' = Count(p) + 1, At(p)' = "blank" => ok'[p]
    PROVE  Before(p, w)'
<1>1. /\ files' = Put(p, w, Count(p) + 1) /\ DOMAIN open' = DOMAIN open
      /\ open'[fd[p]].offset = Start(p, w) + (Count(p) + 1)
  BY PutPiece
<1>2. Prog(p)' = Prog(p) /\ PathOf(p)' = PathOf(p)
  BY DEF Prog, PathOf
<1>3. Start(p, w)' = Start(p, w)
  BY SameAsked
<1>4. Put(p, w, Count(p))' = Put(p, w, Count(p) + 1)
  BY SameAsked
<1>5. Writing(p, w)'
  BY <1>1, <1>2, <1>3, <1>4 DEF Writing
<1>6. Prog(p) # "ls"
  BY PieceComes DEF Writers
<1>. QED BY <1>2, <1>5, <1>6 DEF Before

\* A writer whose last piece this was.
LEMMA WritingEnds ==
    ASSUME World, NEW p \in Procs, NEW w, Found(w), Writing(p, w), Wrote(p), Stored(p) = PieceOf(p),
           At(p) \in {"word", "blank", "string"}, At(p)' = "exit",
           UNCHANGED <<cmd, cwd, fd, out>>, status'[p] = 0, Text(p) = Pieces(p, Count(p) + 1)
    PROVE  Before(p, w)'
<1>. DEFINE path == PathOf(p)
            old == w.files[path].data
<1>1. files' = Put(p, w, Count(p) + 1)
  BY PutPiece
<1>2. Prog(p) \in Writers /\ Count(p) + 1 \in Nat /\ Prog(p) \notin {"ls", "ls_path"}
  BY PieceComes DEF Writers
<1>3. path \in Paths /\ path # Root
  BY <1>2, CommandsAssumption DEF World, Proper, Writers, FilePrograms
<1>4. /\ old \in Seq(Piece)
      /\ files' = [w.files EXCEPT ![path] = Disk!File(Disk!Overwrite(old, Start(p, w), Text(p)))]
  BY <1>1, <1>2, <1>3, PutAt
<1>5. Text(p) \in Seq(Piece)
  BY <1>2, PiecesAre
<1>6. Effect(p, w) = Result(files', w.cwd, 0, <<>>)
  <2>1. w.files[path].st = "file"
    BY DEF Writing
  <2>2. CASE Prog(p) = "append"
    <3>1. Disk!Overwrite(old, Start(p, w), Text(p)) = old \o Text(p)
      BY <1>4, <1>5, <2>2, OverwriteEnd DEF Start
    <3>. QED BY <1>3, <1>4, <2>1, <2>2, <3>1, EffectIs
  <2>3. CASE Prog(p) \in {"write", "writemany"}
    BY <1>3, <1>4, <2>1, <2>3, EffectIs DEF Start
  <2>. QED BY <1>2, <2>2, <2>3 DEF Writers
<1>7. out'[p].text = <<>> /\ cwd' = w.cwd
  BY DEF Writing, Silent
<1>. QED BY <1>2, <1>6, <1>7, ExitDone

\* _write, of the writers.
LEMMA WordBefore ==
    ASSUME World, NEW p \in Procs, NEW w, Found(w), Before(p, w), WriteWord(p), StoredWhole(p)
    PROVE  Before(p, w)'
<1>0. /\ Types /\ n[p] \in Nat /\ Writing(p, w) /\ At(p) = "word" /\ Continue(p)
      /\ UNCHANGED <<cmd, cwd, fd, n, out>>
  BY DEF World, Types, Before, WriteWord
<1>6. CanWrite(fd[p]) /\ Wrote(p) /\ Stored(p) = PieceOf(p)
  BY <1>0, WriterCan
<1>1. Following(p) = "blank"
  BY <1>0, CallOf, FollowingOfWriters
<1>2. At(p)' = "blank" /\ status'[p] = 0
  BY <1>0, <1>1, Goes DEF Continue, Writing
<1>3. ok'[p]
  <2>1. PICK b \in Outcomes(p) : /\ sys_write(fd[p], PieceOf(p), b)
                                 /\ ok' = [ok EXCEPT ![p] = CanWrite(fd[p]) /\ b # Part(PieceOf(p))]
    BY DEF WriteWord
  <2>2. b = PieceOf(p)
    BY <1>0, <1>6, <2>1, WriteIs
  <2>3. PieceOf(p) # Part(PieceOf(p))
    BY <1>0 DEF PieceOf, Part, Word
  <2>4. CanWrite(fd[p]) /\ b # Part(PieceOf(p))
    BY <1>6, <2>2, <2>3
  <2>. QED BY <2>1, <2>4 DEF World, Fresh, PerProcess
<1>4. Count(p)' = Count(p) + 1
  BY <1>0, <1>2 DEF Count
<1>5. n'[p] < cmd[p].n
  BY <1>0 DEF Writing
<1>. QED BY <1>0, <1>6, <1>2, <1>3, <1>4, <1>5, WritingOn

LEMMA BlankBefore ==
    ASSUME World, NEW p \in Procs, NEW w, Found(w), Before(p, w), WriteBlank(p), StoredWhole(p)
    PROVE  Before(p, w)'
<1>0. /\ Types /\ n[p] \in Nat /\ Writing(p, w) /\ At(p) = "blank" /\ ok[p]
      /\ UNCHANGED <<cmd, cwd, fd, out>>
      /\ n[p] < cmd[p].n /\ cmd[p].n \in Nat
  BY DEF World, Types, Before, WriteBlank, Writing, Command
<1>1. CanWrite(fd[p]) /\ Wrote(p) /\ Stored(p) = PieceOf(p)
  BY <1>0, WriterCan
<1>2. n'[p] = n[p] + 1
  BY <1>0 DEF WriteBlank, Types
<1>3. Prog(p) \in {"write", "append"} /\ Count(p) = 2 * n[p] + 1
  BY <1>0, CallOf DEF Count
<1>4. CASE n[p] + 1 < cmd[p].n
  <2>1. GoTo(p, "word") /\ UNCHANGED status
    BY <1>0, <1>1, <1>4 DEF WriteBlank
  <2>2. At(p)' = "word" /\ status'[p] = 0
    BY <1>0, <2>1, Goes DEF Writing
  <2>3. Count(p)' = Count(p) + 1
    BY <1>0, <1>2, <1>3, <2>2 DEF Count
  <2>. QED BY <1>0, <1>1, <1>2, <1>4, <2>2, <2>3, WritingOn
<1>5. CASE ~(n[p] + 1 < cmd[p].n)
  <2>1. Continue(p) /\ Following(p) = "exit"
    BY <1>0, <1>1, <1>3, <1>5, FollowingOfWriters DEF WriteBlank
  <2>2. At(p)' = "exit" /\ status'[p] = 0
    BY <1>0, <2>1, Goes DEF Continue, Writing
  <2>3. 2 * cmd[p].n = Count(p) + 1
    BY <1>0, <1>3, <1>5
  <2>4. Text(p) = Pieces(p, Count(p) + 1)
    BY <1>3, <2>3 DEF Text
  <2>. QED BY <1>0, <1>1, <2>2, <2>4, WritingEnds
<1>. QED BY <1>4, <1>5

LEMMA StringBefore ==
    ASSUME World, NEW p \in Procs, NEW w, Found(w), Before(p, w), WriteString(p), StoredWhole(p)
    PROVE  Before(p, w)'
<1>0. /\ Types /\ n[p] \in Nat /\ Writing(p, w) /\ At(p) = "string"
      /\ UNCHANGED <<cmd, cwd, fd, out>>
      /\ n[p] < cmd[p].n /\ cmd[p].n \in Nat
  BY DEF World, Types, Before, WriteString, Writing, Command
<1>1. CanWrite(fd[p]) /\ Wrote(p) /\ Stored(p) = PieceOf(p)
  BY <1>0, WriterCan
<1>2. n'[p] = n[p] + 1
  BY <1>0 DEF WriteString, Types
<1>3. Prog(p) = "writemany" /\ Count(p) = n[p]
  BY <1>0, CallOf DEF Count
<1>4. CASE n[p] + 1 < cmd[p].n
  <2>1. GoTo(p, "string") /\ UNCHANGED status
    BY <1>0, <1>4 DEF WriteString
  <2>2. At(p)' = "string" /\ status'[p] = 0
    BY <1>0, <2>1, Goes DEF Writing
  <2>3. Count(p)' = Count(p) + 1
    BY <1>0, <1>2, <1>3, <2>2 DEF Count
  <2>. QED BY <1>0, <1>1, <1>2, <1>4, <2>2, <2>3, WritingOn
<1>5. CASE ~(n[p] + 1 < cmd[p].n)
  <2>1. Continue(p) /\ Following(p) = "exit"
    BY <1>0, <1>3, <1>5, FollowingOfWriters DEF WriteString
  <2>2. At(p)' = "exit" /\ status'[p] = 0
    BY <1>0, <2>1, Goes DEF Continue, Writing
  <2>3. cmd[p].n = Count(p) + 1
    BY <1>0, <1>3, <1>5
  <2>4. Text(p) = Pieces(p, Count(p) + 1)
    BY <1>3, <2>3 DEF Text
  <2>. QED BY <1>0, <1>1, <2>2, <2>4, WritingEnds
<1>. QED BY <1>4, <1>5

-----------------------------------------------------------------------------
(* A command alone.                                                        *)

\* A process that has run alone has so far done its part, from what it found.
HasRunAlone(p) == pc[p] # "ready" /\ \E w : w = before[p] /\ Found(w) /\ Before(p, w)

AloneInv == \A p \in Procs : alone[p] /\ whole[p] => HasRunAlone(p)

\* Every call of a process that has run alone is right.
LEMMA CallBefore ==
    ASSUME World, NEW p \in Procs, NEW w, Found(w), Before(p, w), Step(p), pc'[p] # "done",
           StoredWhole(p)
    PROVE  Before(p, w)'
<1>1. ~Exit(p) /\ ~Killed(p)
  BY DEF Exit, Killed, Ended, GoTo, World, Types, FollowsProgram
<1>2. CASE Open(p)
  BY <1>2, OpenBefore
<1>3. CASE Lseek(p)
  BY <1>3, LseekBefore
<1>4. CASE WriteWord(p)
  BY <1>4, WordBefore
<1>5. CASE WriteBlank(p)
  BY <1>5, BlankBefore
<1>6. CASE WriteString(p)
  BY <1>6, StringBefore
<1>7. CASE Fstat(p)
  BY <1>7, FstatBefore
<1>8. CASE Read(p)
  BY <1>8, ReadBefore
<1>9. CASE Close(p)
  BY <1>9, CloseBefore
<1>10. CASE Unlink(p)
  BY <1>10, UnlinkBefore
<1>11. CASE Mkdir(p)
  BY <1>11, MkdirBefore
<1>12. CASE Chdir(p)
  BY <1>12, ChdirBefore
<1>13. CASE Getcwd(p)
  BY <1>13, GetcwdBefore
<1>14. CASE Getdents(p)
  BY <1>14, GetdentsBefore
<1>. QED
  BY <1>1, <1>2, <1>3, <1>4, <1>5, <1>6, <1>7, <1>8, <1>9, <1>10, <1>11, <1>12, <1>13, <1>14 DEF Step

\* A process that starts has done nothing yet.
LEMMA StartBefore ==
    ASSUME World, NEW p \in Procs, pc[p] = "ready", NEW w, w = [files |-> files, cwd |-> cwd]
    PROVE  Found(w) /\ Before(p, w)
<1>1. w.files = files /\ w.cwd = cwd /\ Types
  BY DEF World
<1>2. Found(w)
  BY <1>1 DEF Found, World, Types
<1>3. Idle(p, w) /\ n[p] = 0
  BY <1>1 DEF Idle, World, Fresh
<1>4. At(p) \in {"open", "creat", "mkdir", "getcwd"} /\ (Prog(p) = "ls" => At(p) = "getcwd")
  BY <1>1, CallOf
<1>. QED BY <1>2, <1>3, <1>4 DEF Before

\* Only its own steps leave a process alone.
LEMMA AloneStep ==
    ASSUME World, AloneInv, NEW p \in Procs, Step(p)
    PROVE  AloneInv'
<1>. SUFFICES ASSUME NEW q \in Procs, alone'[q], whole'[q] PROVE HasRunAlone(q)'
  BY DEF AloneInv
<1>1. /\ alone'[q] = AloneAfter(p, q)
      /\ before'[q] = IF pc[q] = "ready" THEN [files |-> files, cwd |-> cwd] ELSE before[q]
  BY DEF Step, Record
<1>2. q = p /\ pc'[p] # "done" /\ (pc[p] # "ready" => alone[p])
  BY <1>1 DEF AloneAfter
<1>0. whole[p] /\ StoredWhole(p)
  BY <1>2, WholeStays
<1>3. PICK w : w = before'[p]
  OBVIOUS
<1>4. Found(w) /\ Before(p, w)
  <2>1. CASE pc[p] = "ready"
    BY <1>1, <1>2, <1>3, <2>1, StartBefore
  <2>2. CASE pc[p] # "ready"
    BY <1>0, <1>1, <1>2, <1>3, <2>2 DEF AloneInv, HasRunAlone
  <2>. QED BY <2>1, <2>2
<1>5. Before(p, w)'
  BY <1>0, <1>2, <1>4, CallBefore
<1>6. pc'[p] # "ready"
  <2>1. PICK c \in Labels : pc' = [pc EXCEPT ![p] = c] /\ c \in {"exit", "done"} \cup Later[Prog(p)]
    BY PcStep DEF World
  <2>2. Prog(p) \in AllPrograms /\ pc \in [Procs -> Labels]
    BY DEF World, Types, Command, Prog, FollowsProgram
  <2>3. c # "ready"
    BY <2>1, <2>2 DEF Later, AllPrograms, DirPrograms, FilePrograms
  <2>. QED BY <2>1, <2>2, <2>3
<1>7. Found(w)'
  BY <1>4 DEF Found, Kinds
<1>. QED BY <1>2, <1>3, <1>5, <1>6, <1>7 DEF HasRunAlone

\* Nothing changes while nobody makes a call.
LEMMA StillBefore ==
    ASSUME UNCHANGED vars, NEW p \in Procs, NEW w, Before(p, w)
    PROVE  Before(p, w)'
<1>0. UNCHANGED <<files, open, next_fd, cwd, cmd, pc, fd, n, ok, status, out>>
  BY DEF vars, kernel, local
<1>1. At(p)' = At(p) /\ Prog(p)' = Prog(p) /\ PathOf(p)' = PathOf(p)
  BY <1>0 DEF At, Prog, PathOf
<1>2. /\ Idle(p, w)' = Idle(p, w) /\ Size(PathOf(p))' = Size(PathOf(p)) /\ Count(p)' = Count(p)
      /\ find_open_file(PathOf(p))' = find_open_file(PathOf(p)) /\ Tried(p)' = Tried(p)
  BY <1>0, <1>1 DEF Idle, Size, find_open_file, Count, Tried, Exists
<1>3. Writing(p, w) => Writing(p, w)'
  <2>1. Start(p, w)' = Start(p, w) /\ Put(p, w, Count(p))' = Put(p, w, Count(p))
    BY <1>0, <1>2, SameAsked
  <2>. QED BY <1>0, <1>1, <1>2, <2>1 DEF Writing
<1>4. Documented(p, w) => Documented(p, w)'
  <2>1. Effect(p, w)' = Effect(p, w)
    BY <1>0, SameAsked
  <2>2. Listing(w.cwd)' = Listing(w.cwd) /\ Listing(PathOf(p))' = Listing(PathOf(p))
    BY <1>0, <1>1 DEF Listing, Exists
  <2>. QED BY <1>0, <1>1, <2>1, <2>2 DEF Documented
<1>. QED BY <1>0, <1>1, <1>2, <1>3, <1>4 DEF Before

\* What a command that has run alone has done when it exits is what the README says
\* of it, for any number of processes, commands and paths, unless a write of its own
\* was lost or cut short; rm of a plain name leaves the file, as sys_unlink does.
THEOREM CommandsAloneAsDocumented == Spec => []AloneAsDocumented
<1>1. Init => AloneInv
  BY DEF Init, AloneInv
<1>2. World /\ AloneInv /\ [Next]_vars => AloneInv'
  <2>. SUFFICES ASSUME World, AloneInv, [Next]_vars PROVE AloneInv'
    OBVIOUS
  <2>1. CASE Next
    BY <2>1, AloneStep DEF Next
  <2>2. CASE UNCHANGED vars
    BY <2>2, StillBefore DEF vars, AloneInv, HasRunAlone, Found, Kinds
  <2>. QED BY <2>1, <2>2
<1>3. AloneInv => AloneAsDocumented
  <2>. SUFFICES ASSUME AloneInv, NEW p \in Procs, pc[p] = "exit", alone[p], whole[p]
                PROVE  /\ Effect(p, before[p]) =
                            [files |-> files, cwd |-> cwd, status |-> status[p], text |-> out[p].text]
                       /\ Prog(p) = "ls" => out[p].names = Listing(before[p].cwd)
                       /\ Prog(p) = "ls_path" /\ status[p] = 0 => out[p].names = Listing(PathOf(p))
    BY DEF AloneAsDocumented
  <2>1. PICK w : w = before[p] /\ Before(p, w)
    BY DEF AloneInv, HasRunAlone
  <2>2. Documented(p, w)
    BY <2>1 DEF Before, At
  <2>. QED BY <2>1, <2>2 DEF Documented, Result
<1>. QED BY <1>1, <1>2, <1>3, WorldInvariant, PTL DEF Spec
=============================================================================
