------------------------------ MODULE TextLine ------------------------------
(***************************************************************************)
(* What a user expects of editing one line: a text and a position in it.   *)
(* The line takes at most Cap characters; a character typed in the middle  *)
(* of a full line pushes the last one out.  CommandLine.tla (the editor of *)
(* os/src/user/sh.c) implements this.                                      *)
(***************************************************************************)
EXTENDS Integers, Sequences

CONSTANTS Cap, Chars, Caret

VARIABLES text, pos

vars == <<text, pos>>

Cut(s) == SubSeq(s, 1, IF Len(s) < Cap THEN Len(s) ELSE Cap)

\* The characters of s one after another, as far as the position allows.
Typed(s) ==
    LET t == SubSeq(s, 1, IF Len(s) < Cap - pos THEN Len(s) ELSE Cap - pos)
    IN  /\ text' = Cut(SubSeq(text, 1, pos) \o t \o SubSeq(text, pos + 1, Len(text)))
        /\ pos' = pos + Len(t)

Erase ==
    /\ pos > 0
    /\ text' = SubSeq(text, 1, pos - 1) \o SubSeq(text, pos + 1, Len(text))
    /\ pos' = pos - 1

Move ==
    /\ pos' \in {pos - 1, pos + 1} \cap 0 .. Len(text)
    /\ UNCHANGED text

Leave == text' = <<>> /\ pos' = 0

Init == text = <<>> /\ pos = 0

Next ==
    \/ \E c \in Chars : Typed(<<c>>) \/ Typed(<<Caret, c>>)
    \/ Erase \/ Move \/ Leave

Spec == Init /\ [][Next]_vars
=============================================================================
