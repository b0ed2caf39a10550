---------------------------- MODULE FileSystem ----------------------------
(***************************************************************************)
(* The FAT16 file system of os/src/kernel/file.c.                          *)
(*                                                                         *)
(* The disk is modelled in blocks of 32 bytes, the size of a directory     *)
(* entry, so that a block is at once a directory slot and a piece of file  *)
(* data: the root directory occupies blocks 1..RootSlots and the data      *)
(* region follows it, exactly as on the disk.  What the code does at the   *)
(* edges of a region (the sector after the root directory, the "clusters"  *)
(* 0 and 1 before the data region, the cluster 0xFFFF after it) therefore  *)
(* has in the model the effect it has on the disk.  Offsets and sizes      *)
(* count blocks.  A system call runs to its end with interrupts masked,    *)
(* so each one is a single action, whichever process makes it.             *)
(***************************************************************************)
EXTENDS Integers, FiniteSets, SequencesExt, FiniteSetsExt

CONSTANTS
    FullNames,          \* names with a three-letter extension (MYFILE1.TXT)
    PlainNames,         \* names without one (SUBDIR)
    LongNames,          \* names with one after eight letters or more (LONGNAME.TXT)
    Paths,              \* absolute paths: sequences of names; <<>> is "/"
    DirPaths,           \* those the callers make directories of
    RootSlots,          \* num_root_directory_entries
    SlotsPerSector,     \* bytes_per_sector / 32
    SectorsPerCluster,
    LastCluster,        \* the last cluster the FAT describes
    DirLimit,           \* 0x0fef: the last cluster add_directory_entry follows
    Data,               \* what distinguishes one buffer of a caller from another
    MaxWrite,           \* bound: blocks per _write
    MaxFd,              \* bound: descriptors ever handed out
    MaxOffset,          \* bound: offsets reached by seeking and reading
    Uses                \* which edges the callers reach; see Permitted

VARIABLES
    disk,               \* fat: the FAT; store: the blocks
    open,               \* open_files, by descriptor
    next_fd,
    files               \* auxiliary: what each path holds, computed from disk

vars == <<disk, open, next_fd, files>>

SlotsPerCluster == SlotsPerSector * SectorsPerCluster
Names == FullNames \cup PlainNames \cup LongNames
FirstFd == 3

ASSUME GeometryAssumption ==
    /\ SlotsPerSector \in Nat \ {0} /\ SectorsPerCluster \in Nat \ {0}
    /\ RootSlots \in Nat /\ RootSlots >= 2 * SlotsPerCluster
    /\ LastCluster \in Nat /\ 1 < LastCluster /\ LastCluster < 65520
    /\ DirLimit \in 2 .. LastCluster
    /\ MaxWrite \in Nat \ {0} /\ MaxFd \in Nat /\ MaxFd >= FirstFd /\ MaxOffset \in Nat
ASSUME NamesAssumption ==
    /\ FullNames \cap PlainNames = {} /\ LongNames \cap (FullNames \cup PlainNames) = {}
    /\ Paths \subseteq Seq(Names)

(***************************************************************************)
(* Blocks.                                                                 *)
(***************************************************************************)
Zero      == [kind |-> "zero"]      \* first byte 0x00
Deleted   == [kind |-> "deleted"]   \* first byte 0xe5
Block(d, i) == [kind |-> "data", of |-> d, nth |-> i]
Entry(n, dir, first, size) ==
    [kind |-> "entry", name |-> n, dir |-> dir, first |-> first, size |-> size]

Blocks  == RootSlots + (LastCluster - 1) * SlotsPerCluster
Buffers == {[i \in 1 .. n |-> Block(d, i)] : n \in 1 .. MaxWrite, d \in Data}

(***************************************************************************)
(* The FAT.  EOC, 0xFFFF, ends a chain.  The code also looks up and sets   *)
(* the "successor" of 0xFFFF itself, two bytes of a sector far into the    *)
(* data region: a cell of their own here, zero on a fresh disk.            *)
(***************************************************************************)
Free == 0
EOC  == 65535
FatCells == (0 .. LastCluster) \cup {EOC}

Between(c, last) == 1 < c /\ c <= last
InChain(c) == Between(c, 65519)

\* The first free cluster after c.
FreeAfter(k, c) ==
    LET F == {b \in 0 .. LastCluster : c < b /\ k.fat[b] = Free}
    IN  IF F = {} THEN 0 ELSE Min(F)

find_first_free_cluster(k) == FreeAfter(k, -1)

SetSuccessor(k, c, s) == [k EXCEPT !.fat[c] = s]

get_successor_cluster(k, c) == k.fat[c]

\* The walk along the chain that starts at c: after n steps, it is at Walk(k, c)[n],
\* or where the chain ended.
Onward(k, c) == IF InChain(c) THEN get_successor_cluster(k, c) ELSE c
Walk(k, c) ==
    LET w[i \in Nat] == IF i = 0 THEN c ELSE Onward(k, w[i - 1])
    IN  w

\* How many steps of a walk stay within the clusters up to last.
StepsUpTo(w, last) == Min({i \in 0 .. LastCluster : ~Between(w[i], last)} \cup {LastCluster})
Steps(w) == StepsUpTo(w, 65519)

Chain(k, c) == LET w == Walk(k, c) IN [i \in 1 .. Steps(w) |-> w[i - 1]]

\* Cluster c and the first n of a walk.
Followed(c, w, n) == [i \in 1 .. n + 1 |-> IF i = 1 THEN c ELSE w[i - 2]]

\* The disk address of block i of a cluster, and of a list of clusters.
BlockOf(c, i) == RootSlots + (c - 2) * SlotsPerCluster + i
AddressAt(cs, i) ==
    BlockOf(cs[1 + ((i - 1) \div SlotsPerCluster)], 1 + ((i - 1) % SlotsPerCluster))

Addresses(cs) == [i \in 1 .. Len(cs) * SlotsPerCluster |-> AddressAt(cs, i)]

\* A sector that the disk does not have is not read: the fresh buffer is kept.
LoadBlock(k, a) == IF a \in 1 .. Blocks THEN k.store[a] ELSE Zero

LoadChain(k, cs) ==
    [i \in 1 .. Len(cs) * SlotsPerCluster |-> LoadBlock(k, AddressAt(cs, i))]

(***************************************************************************)
(* Directories, named by their first cluster.                              *)
(***************************************************************************)
Root    == -1
NoDir   == -2
NoEntry == [kind |-> "none"]

\* Definitions whose names begin with Bug are faulty variants of the definition
\* they precede; nothing uses them but the project's mutation checks.

\* add_sector_dir_entries_to_list: those up to the first empty slot, without the
\* deleted ones.  Blocks of text are entries with names nobody asks for.
Listed(k, places) ==
    {i \in DOMAIN places :
        /\ LoadBlock(k, places[i]).kind = "entry"
        /\ \A j \in 1 .. i : LoadBlock(k, places[j]) # Zero}

\* The addresses get_root_dir and get_dir read, in order.
Places(k, d) ==
    IF d = Root THEN [i \in 1 .. RootSlots |-> i]
    ELSE Addresses(Chain(k, d))

\* split_filename gives the name eight bytes, and the extension those that follow:
\* with eight letters nothing ends the name, which runs on into the extension and
\* equals no name of a directory.
SplitsInTwo(n) == n \notin LongNames

\* Where name n is listed, as far as a look-up can tell.
ListedAs(k, places, n) ==
    {i \in Listed(k, places) : SplitsInTwo(n) /\ LoadBlock(k, places[i]).name = n}

\* One step down a path: find_file goes into the last such subdirectory,
\* find_dir into the first; a root directory never lists a name twice.
Descend(k, d, n) ==
    LET at == Places(k, d)
        m  == IF d = NoDir THEN {} ELSE {i \in ListedAs(k, at, n) : LoadBlock(k, at[i]).dir}
    IN  IF m = {} THEN NoDir ELSE LoadBlock(k, at[Max(m)]).first

\* The directories on the way down path p: after n names, it is Descent(k, p)[n].
Descent(k, p) ==
    LET d[i \in Nat] == IF i = 0 THEN Root ELSE Descend(k, d[i - 1], p[i])
    IN  d

ParentOf(k, p) == Descent(k, p)[Len(p) - 1]

find_file(k, p) ==
    LET d  == ParentOf(k, p)
        at == Places(k, d)
        m  == IF d = NoDir THEN {} ELSE ListedAs(k, at, Last(p))
    IN  IF m = {} THEN NoEntry ELSE LoadBlock(k, at[Min(m)])

\* The clusters add_directory_entry and update_directory_entry look through.
DirClusters(k, d) ==
    LET next == Walk(k, get_successor_cluster(k, d))
    IN  Followed(d, next, StepsUpTo(next, DirLimit))

\* The addresses they look at, in order.  In the root directory the test for
\* the end of the region is off by one: the sector after it is looked at too.
Slots(k, d) ==
    IF d = Root THEN [i \in 1 .. RootSlots + SlotsPerSector |-> i]
    ELSE Addresses(DirClusters(k, d))

\* The positions of those that are free, and the address of the first.
FreeSlots(k, d) ==
    LET at == Slots(k, d) IN {i \in DOMAIN at : LoadBlock(k, at[i]) \in {Zero, Deleted}}
FirstFree(k, d) == Slots(k, d)[Min(FreeSlots(k, d))]

\* add_root_directory_entry, add_directory_entry.  A full subdirectory gets
\* the first free cluster, which receives the buffer as the last cluster left it.
AddEntry(k, d, e) ==
    LET last == Last(DirClusters(k, d))
        c    == find_first_free_cluster(k)
    IN  IF FreeSlots(k, d) # {}
        THEN [ok |-> TRUE, disk |-> [k EXCEPT !.store[FirstFree(k, d)] = e]]
        ELSE IF d = Root \/ c < 2 THEN [ok |-> FALSE, disk |-> k]
        ELSE [ok   |-> TRUE,
              disk |-> [SetSuccessor(k, last, c) EXCEPT !.store =
                           [a \in DOMAIN @ |->
                               IF a = BlockOf(c, 1) THEN e
                               ELSE IF a \in BlockOf(c, 2) .. BlockOf(c, SlotsPerCluster)
                               THEN LoadBlock(k, a - BlockOf(c, 1) + BlockOf(last, 1))
                               ELSE @[a]]]]

\* create_new_file forgets set_successor_cluster.
BugNewFileNotEnded(k, c) == k

\* The first cluster of the new file ends its chain.
EndChain(k, c) == SetSuccessor(k, c, EOC)

create_new_file(k, p, dir) ==
    LET c == find_first_free_cluster(k)
        d == ParentOf(k, p)
        a == AddEntry(k, d, Entry(Last(p), dir, c, 0))
    IN  IF d = NoDir \/ ~a.ok THEN [ok |-> FALSE, disk |-> k]
        ELSE [ok |-> TRUE, disk |-> EndChain(a.disk, c)]

\* find_file_in_directory_cluster: a name padded with spaces matches, an
\* extension padded with spaces does not.
Matches(b, n) == b.kind = "entry" /\ b.name = n /\ n \in FullNames

\* update_root_directory_entry, update_directory_entry: the first entry of
\* directory d that matches name n is replaced.
Updated(k, d, n, e) ==
    LET at == Slots(k, d)
        m  == {i \in DOMAIN at : Matches(LoadBlock(k, at[i]), n)}
    IN  IF m = {} THEN k ELSE [k EXCEPT !.store[at[Min(m)]] = e]

\* The updated sector is not written back.
BugUpdateNothing(k, p, e) == k

\* The result, -1 when the path names nothing or no entry matched, is ignored
\* by the callers.
update_file_details(k, p, e) ==
    IF find_file(k, p) = NoEntry THEN k ELSE Updated(k, ParentOf(k, p), Last(p), e)

(***************************************************************************)
(* Reading and writing the chain of a file.                                *)
(***************************************************************************)
ClusterAt(k, first, o) == Walk(k, first)[o \div SlotsPerCluster]

InCluster(o) == o % SlotsPerCluster

\* How many clusters n blocks from offset o on take up.
Needed(o, n) == (InCluster(o) + n + SlotsPerCluster - 1) \div SlotsPerCluster

\* The clusters of the chain that n blocks from offset o on fall into: the
\* one the walk ends at, whatever it is, and those linked after it.
Covered(k, first, o, n) ==
    LET c    == ClusterAt(k, first, o)
        next == Walk(k, get_successor_cluster(k, c))
    IN  Followed(c, next, Min({Steps(next), Needed(o, n) - 1}))

\* The room there is for n blocks from offset o on in a list of clusters.
Fitting(cs, o, n) == Min({n, Len(cs) * SlotsPerCluster - InCluster(o)})

\* The offset within the first cluster is forgotten.
BugReadFromClusterStart(k, first, o, n) ==
    LET cs == Covered(k, first, o, n)
    IN  SubSeq(LoadChain(k, cs), 1, Fitting(cs, o, n))

read_from_file(k, first, o, n) ==
    LET cs == Covered(k, first, o, n)
    IN  SubSeq(LoadChain(k, cs), InCluster(o) + 1, InCluster(o) + Fitting(cs, o, n))

\* The clusters find_first_free_cluster returns one after the other, each in use
\* when the next is asked for; 0 once there are none.
FreeClusters(k) ==
    LET f[i \in Nat] ==
            FreeAfter(k, IF i = 0 THEN 1 ELSE IF f[i - 1] = 0 THEN LastCluster ELSE f[i - 1])
    IN  f

\* A list of clusters with n free ones added, or as many as there are.
Extended(k, cs, n) ==
    [j \in 1 .. Len(cs) + Min({n, Steps(FreeClusters(k))}) |->
        IF j <= Len(cs) THEN cs[j] ELSE FreeClusters(k)[j - Len(cs) - 1]]

\* New clusters are marked as ends of chains and linked to nothing.
BugNotLinked(k, cs, i) ==
    [k EXCEPT !.fat = [c \in FatCells |->
        IF \E j \in i + 1 .. Len(cs) : cs[j] = c THEN EOC ELSE @[c]]]

\* Links every cluster of cs from position i on to the next, and ends the chain.
Linked(k, cs, i) ==
    [k EXCEPT !.fat = [c \in FatCells |->
        IF \E j \in i .. Len(cs) - 1 : cs[j] = c
        THEN cs[1 + CHOOSE j \in i .. Len(cs) - 1 : cs[j] = c]
        ELSE IF i < Len(cs) /\ c = Last(cs) THEN EOC ELSE @[c]]]

write_to_file(k, first, o, buf) ==
    LET old  == Covered(k, first, o, Len(buf))
        cs   == Extended(k, old, Needed(o, Len(buf)) - Len(old))
        n    == Fitting(cs, o, Len(buf))
        at(i) == AddressAt(cs, InCluster(o) + i)
    IN  [n    |-> n,
         disk |-> [Linked(k, cs, Len(old)) EXCEPT !.store =
                      [a \in DOMAIN @ |->
                          IF \E i \in 1 .. n : at(i) = a
                          THEN buf[CHOOSE i \in 1 .. n : at(i) = a] ELSE @[a]]]]

(***************************************************************************)
(* The system calls.                                                       *)
(***************************************************************************)
OpenFile(p, e, append) == [path |-> p, entry |-> e, offset |-> 0, append |-> append]

RootEntry == Entry("/", TRUE, 0, RootSlots)

\* The open file of a path: callers of the same path share it, offset and all.
find_open_file(p) == {fd \in DOMAIN open : open[fd].path = p}

\* What the callers keep clear of: creating with no cluster left, with no slot
\* left in the root directory or in a subdirectory, creating files without a
\* full extension, and creating files or directories with a long name.
Permitted(p) ==
    LET d == ParentOf(disk, p)
    IN  /\ "full_disk" \notin Uses => find_first_free_cluster(disk) # 0
        /\ "full_root" \notin Uses /\ d = Root =>
              FreeSlots(disk, d) \cap 1 .. RootSlots # {}
        /\ "full_dir" \notin Uses /\ d \notin {Root, NoDir} => FreeSlots(disk, d) # {}

PermittedName(p, dir) ==
    /\ "plain_name" \notin Uses /\ ~dir => Last(p) \notin PlainNames
    /\ "long_name" \notin Uses => Last(p) \notin LongNames

\* sys_open when the path is open already.
OpenShared(p, append) ==
    \E fd \in find_open_file(p) :
        /\ open' = [open EXCEPT ![fd].append = append]
        /\ UNCHANGED <<disk, next_fd>>

\* The list of open files with one more.
WithFile(fd, f) == [g \in DOMAIN open \cup {fd} |-> IF g = fd THEN f ELSE open[g]]

\* get_next_filedesc without the ++.
BugNextFdKept(k, p, append) ==
    LET e == IF p = <<>> THEN RootEntry ELSE find_file(k, p)
    IN  /\ disk' = k
        /\ UNCHANGED next_fd
        /\ open' = IF e = NoEntry THEN open ELSE WithFile(next_fd, OpenFile(p, e, append))

\* open_file: the path is looked up on the disk k and gets the next descriptor.
Opened(k, p, append) ==
    LET e == IF p = <<>> THEN RootEntry ELSE find_file(k, p)
    IN  /\ disk' = k
        /\ IF e = NoEntry THEN UNCHANGED <<open, next_fd>>
           ELSE /\ open' = WithFile(next_fd, OpenFile(p, e, append))
                /\ next_fd' = next_fd + 1

\* sys_open when it is on the disk.
OpenExisting(p, append) ==
    /\ find_open_file(p) = {} /\ next_fd <= MaxFd
    /\ p # <<>> => find_file(disk, p) # NoEntry
    /\ Opened(disk, p, append)

\* sys_open with O_CREAT when it is not.  If creating it fails, or the new
\* file is not found, the call fails with whatever was done to the disk.
OpenCreating(p, append) ==
    /\ p # <<>> /\ find_open_file(p) = {} /\ next_fd <= MaxFd
    /\ find_file(disk, p) = NoEntry
    /\ Permitted(p) /\ PermittedName(p, FALSE)
    /\ create_new_file(disk, p, FALSE).ok
    /\ Opened(create_new_file(disk, p, FALSE).disk, p, append)

Close(fd) ==
    /\ open' = [f \in DOMAIN open \ {fd} |-> open[f]]
    /\ UNCHANGED <<disk, next_fd>>

\* The append flag moves the offset to the end of the file.
WriteOffset(f) == IF f.append THEN f.entry.size ELSE f.offset

Write(fd, buf) ==
    LET f  == open[fd]
        o  == WriteOffset(f)
        w  == write_to_file(disk, f.entry.first, o, buf)
        e  == [f.entry EXCEPT !.size = Max({@, o + w.n})]
    IN  /\ ~f.entry.dir
        /\ o <= MaxOffset
        /\ "past_end" \notin Uses => InChain(ClusterAt(disk, f.entry.first, o))
        /\ disk' = IF e # f.entry THEN update_file_details(w.disk, f.path, e) ELSE w.disk
        /\ open' = [open EXCEPT ![fd].entry = e, ![fd].offset = o + w.n]
        /\ UNCHANGED next_fd

Read(fd, n) ==
    LET f == open[fd]
    IN  /\ f.entry.first >= 2
        /\ f.offset + n <= MaxOffset
        /\ open' = [open EXCEPT ![fd].offset =
                       @ + Len(read_from_file(disk, f.entry.first, f.offset, n))]
        /\ UNCHANGED <<disk, next_fd>>

Lseek(fd, offset, whence) ==
    LET base == CASE whence = "SEEK_SET" -> 0
                  [] whence = "SEEK_CUR" -> open[fd].offset
                  [] whence = "SEEK_END" -> open[fd].entry.size
    IN  /\ base + offset <= MaxOffset
        /\ open' = [open EXCEPT ![fd].offset = base + offset]
        /\ UNCHANGED <<disk, next_fd>>

\* The guard of sys_unlink; past it the call returns 0.
MayUnlink(p) == p # <<>> /\ find_open_file(p) = {} /\ find_file(disk, p) # NoEntry

Unlinked(p) == update_file_details(disk, p, Deleted)

Unlink(p) ==
    /\ MayUnlink(p)
    /\ disk' = Unlinked(p)
    /\ UNCHANGED <<open, next_fd>>

Mkdir(p) ==
    /\ p # <<>> /\ find_file(disk, p) = NoEntry
    /\ Permitted(p) /\ PermittedName(p, TRUE)
    /\ disk' = create_new_file(disk, p, TRUE).disk
    /\ UNCHANGED <<open, next_fd>>

\* What a path holds, read as load_file does and cut to its size.
Contents(k, p) ==
    LET e == find_file(k, p)
    IN  IF e = NoEntry THEN [st |-> "absent", data |-> <<>>]
        ELSE IF e.dir THEN [st |-> "dir", data |-> <<>>]
        ELSE LET all == LoadChain(k, Chain(k, e.first))
             IN  [st |-> "file", data |-> SubSeq(all, 1, Min({e.size, Len(all)}))]

AllContents(k) == [p \in Paths \ {<<>>} |-> Contents(k, p)]

\* file_initialise on a freshly formatted disk.
Init ==
    /\ disk = [fat   |-> [c \in FatCells |-> IF c < 2 THEN EOC ELSE Free],
               store |-> [a \in 1 .. Blocks |-> Zero]]
    /\ open = <<>>
    /\ next_fd = FirstFd
    /\ files = AllContents(disk)

FileCall ==
    \E fd \in DOMAIN open :
        \/ Close(fd)
        \/ \E b \in Buffers : Write(fd, b)
        \/ \E n \in 1 .. MaxWrite : Read(fd, n)
        \/ \E o \in 0 .. 1, w \in {"SEEK_SET", "SEEK_CUR", "SEEK_END"} : Lseek(fd, o, w)

PathCall ==
    \E p \in Paths :
        \/ \E a \in BOOLEAN : OpenShared(p, a) \/ OpenExisting(p, a) \/ OpenCreating(p, a)
        \/ Unlink(p)
        \/ p \in DirPaths /\ Mkdir(p)

Next == (FileCall \/ PathCall) /\ files' = AllContents(disk')

Spec == Init /\ [][Next]_vars

(***************************************************************************)
(* Properties.                                                             *)
(***************************************************************************)

\* The state has the shape file.c gives it: links lead to clusters the FAT
\* describes, directory entries name such clusters, and descriptors are
\* those get_next_filedesc has handed out.
TypeOK ==
    /\ disk.fat \in [FatCells -> FatCells]
    /\ DOMAIN disk.store = 1 .. Blocks
    /\ \A a \in 1 .. Blocks :
          disk.store[a].kind = "entry" =>
              disk.store[a].first \in 0 .. LastCluster /\ disk.store[a].name \in Names
    /\ next_fd \in FirstFd .. MaxFd + 1
    /\ DOMAIN open \subseteq FirstFd .. next_fd - 1
    /\ \A fd \in DOMAIN open : open[fd].path \in Paths /\ open[fd].entry.kind = "entry"

\* The paths that name something, and what they name.
Present == {p \in Paths \ {<<>>} : find_file(disk, p) # NoEntry}
ClustersOf(p) == Chain(disk, find_file(disk, p).first)

\* No cluster belongs to two chains or twice to one, and every chain is ended
\* by an end-of-chain mark: allocation (find_first_free_cluster, then two calls
\* of set_successor_cluster) never hands out a cluster that is in use.
ChainsDisjoint ==
    /\ \A p \in Present : LET cs == ClustersOf(p)
                          IN  cs # <<>> /\ IsInjective(cs) /\ disk.fat[Last(cs)] = EOC
    /\ \A p, q \in Present :
          p # q => ToSet(ClustersOf(p)) \cap ToSet(ClustersOf(q)) = {}

\* Every block that the size of a file counts has a place in its chain:
\* sys_write adds what write_to_file reports to the size, and the README says
\* of a file that is too small that it will be expanded to fit the text.
SizeFits ==
    \A p \in Present :
        find_file(disk, p).size <= Len(ClustersOf(p)) * SlotsPerCluster

\* The directory entry kept with an open file is the one on the disk, however
\* many writes, seeks and other calls came between: sys_write keeps both.
OpenMatchesDisk ==
    \A fd \in DOMAIN open :
        open[fd].path # <<>> => open[fd].entry = find_file(disk, open[fd].path)

\* No directory lists a name twice: the README says of touch that it creates a
\* file if it does not already exist (sys_open, create_new_file, split_filename).
ListedOnce ==
    \A d \in {Root} \cup {find_file(disk, p).first : p \in {q \in Present : find_file(disk, q).dir}} :
        LET at == Places(disk, d)
        IN  \A i, j \in Listed(disk, at) :
                LoadBlock(disk, at[i]).name = LoadBlock(disk, at[j]).name => i = j

F == INSTANCE Files WITH Paths <- Paths \ {<<>>}

\* A read inside a file returns the blocks of its contents, whether or not it
\* crosses clusters (read_from_file).
ReadsContents ==
    \A fd \in DOMAIN open : LET f == open[fd] IN
        ~f.entry.dir =>
            \A o \in 0 .. f.entry.size : \A n \in 1 .. f.entry.size - o :
                read_from_file(disk, f.entry.first, o, n) =
                    SubSeq(files[f.path].data, o + 1, o + n)

\* Each call changes the contents of the path it is about, in the way Files
\* says, and of no other: this file system implements that one.
ImplementsFiles == F!Spec

\* An unlink that reports success has removed the file, if its name has a full
\* extension, and nothing at all otherwise: sys_unlink ignores the result of
\* update_file_details, which looks the entry up in another way than find_file.
UnlinkRemoves ==
    \A p \in Paths : MayUnlink(p) =>
        IF Last(p) \in FullNames THEN find_file(Unlinked(p), p) = NoEntry ELSE Unlinked(p) = disk

\* An unlink that reports success has removed the file, whatever its name: the
\* README says of rm that it removes the specified file.
RmRemoves == \A p \in Paths : MayUnlink(p) => find_file(Unlinked(p), p) = NoEntry
=============================================================================
