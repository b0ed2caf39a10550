------------------------------- MODULE Files -------------------------------
(***************************************************************************)
(* What the file system promises its callers, with no disk in sight: a     *)
(* path is absent, a directory or a file with contents; creating, writing  *)
(* or removing one path changes that path and no other.  FileSystem.tla    *)
(* (os/src/kernel/file.c) implements this.                                 *)
(***************************************************************************)
EXTENDS Integers, Sequences

CONSTANTS
    Paths,    \* the paths in play: non-empty sequences of names
    Buffers,  \* what callers pass to _write, and the prefixes of that
    MaxOffset,\* bound on file offsets
    Zero      \* what a block that was never written reads as

VARIABLE files

Absent    == [st |-> "absent", data |-> <<>>]
Directory == [st |-> "dir", data |-> <<>>]
File(s)   == [st |-> "file", data |-> s]

Init == files = [p \in Paths |-> Absent]

\* A path can be created in the root, or in a directory that exists.
HasParent(p) == Len(p) > 1 => files[SubSeq(p, 1, Len(p) - 1)] = Directory

Create(p, what) ==
    /\ files[p] = Absent
    /\ HasParent(p)
    /\ files' = [files EXCEPT ![p] = what]

\* old with the blocks of new from offset o on; a gap reads as zeroes.
Overwrite(old, o, new) ==
    [i \in 1 .. (IF Len(old) > o + Len(new) THEN Len(old) ELSE o + Len(new)) |->
        IF i \in o + 1 .. o + Len(new) THEN new[i - o]
        ELSE IF i \in 1 .. Len(old) THEN old[i] ELSE Zero]

\* A write may be cut short (a prefix is stored), never misplaced.
Store(p, o, new) ==
    /\ files[p].st = "file"
    /\ files' = [files EXCEPT ![p] = File(Overwrite(@.data, o, new))]

Remove(p) ==
    /\ files[p].st = "file"
    /\ files' = [files EXCEPT ![p] = Absent]

Next ==
    \E p \in Paths :
        \/ Create(p, Directory) \/ Create(p, File(<<>>)) \/ Remove(p)
        \/ \E o \in 0 .. MaxOffset, b \in Buffers : Store(p, o, b)

Spec == Init /\ [][Next]_files
=============================================================================
