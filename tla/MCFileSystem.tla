--------------------------- MODULE MCFileSystem ---------------------------
(***************************************************************************)
(* The instances of FileSystem that TLC checks: which paths are in play.   *)
(***************************************************************************)
EXTENDS FileSystem

\* The root, a file in it, and a subdirectory with a file of the same name.
TreePaths == {<<>>, <<"A.TXT">>, <<"D">>, <<"D", "A.TXT">>}

\* Files in the root.
FlatPaths == {<<"A.TXT">>, <<"B.TXT">>, <<"C.TXT">>}

\* A file of each kind of name that is hard to look up.
OddPaths == {<<"NOTES">>, <<"LONGNAME.TXT">>}

\* More files in a subdirectory than one cluster of it holds.
FullDirPaths == {<<"D">>, <<"D", "A.TXT">>, <<"D", "B.TXT">>, <<"D", "C.TXT">>}

SubPaths == {<<"D">>}
NoPaths  == {}
=============================================================================
