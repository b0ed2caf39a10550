---------------------------- MODULE MCPrograms ----------------------------
(***************************************************************************)
(* The instance of Programs that TLC checks: the commands in play.         *)
(***************************************************************************)
EXTENDS Programs

A == <<"A.TXT">>
B == <<"B.TXT">>
C == <<"D", "C.TXT">>
D == <<"D">>
E == <<"E">>

MCPaths   == {A, B, C, D, E}
MCInitial == {A}
MCPlain   == {E}
MCCommands ==
    {[prog |-> "write", path |-> A, n |-> 1], [prog |-> "append", path |-> B, n |-> 2],
     [prog |-> "append", path |-> A, n |-> 1], [prog |-> "writemany", path |-> A, n |-> 2]}
        \cup {[prog |-> x, path |-> A, n |-> 0] : x \in {"cat", "rm"}}
        \cup {[prog |-> "rm", path |-> E, n |-> 0]}
        \cup {[prog |-> "touch", path |-> q, n |-> 0] : q \in {A, B, C, E}}
        \cup {[prog |-> x, path |-> D, n |-> 0] : x \in {"mkdir", "cd", "ls_path"}}
        \cup {[prog |-> x, path |-> Root, n |-> 0] : x \in {"ls", "pwd"}}

Symmetry == Permutations(Procs)
=============================================================================
