---------------------------- MODULE CommandLine ----------------------------
(***************************************************************************)
(* The line editor and the command parser of the shell: get_line and       *)
(* parse_shell_command of os/src/user/sh.c.                                *)
(*                                                                         *)
(* The line is the array the code edits in place, contents_bytes = Cap     *)
(* characters and a NUL.  It comes fresh from a heap that is never freed,  *)
(* so it is zero at first.  An action is what the shell does between one   *)
(* blocking read of a key and the next; a control sequence is three keys.  *)
(* NUL is not among the keys.                                              *)
(***************************************************************************)
EXTENDS Strings

CONSTANTS
    Cap,        \* contents_bytes, 100 in get_line
    MaxArgs,    \* 10
    Chars,      \* the characters that are typed
    PrintRoom,  \* char str[10] of stdio_printint
    MaxText     \* bound: the length of an argument that is read as a number

ASSUME CommandLineAssumption ==
    /\ Cap \in Nat \ {0} /\ MaxArgs \in Nat \ {0} /\ MaxText \in Nat
    /\ PrintRoom \in Nat \ {0}
    /\ Chars \subseteq 1 .. 255

VARIABLES
    line,       \* contents and cursor_position
    buf,        \* what get_line returned
    command,    \* what parse_shell_command made of it
    number      \* the number that a program has just read or printed

vars == <<line, buf, command, number>>

Ampersand == 38
Bang      == 33
Caret     == 94
Bracket   == 91
ArrowC    == 67
ArrowD    == 68

NoCommand == [name |-> <<>>, argv |-> <<>>, background |-> FALSE, priority |-> -1]

NoNumber == [text |-> <<>>, value |-> 0]

make_line == [contents |-> [j \in 0 .. Cap |-> NUL], cursor |-> 0]

(***************************************************************************)
(* Editing.                                                                *)
(***************************************************************************)
line_insert(l, c) ==
    IF l.cursor >= Cap THEN l
    ELSE [contents |-> [j \in 0 .. Cap |->
                          IF j = l.cursor THEN c
                          ELSE IF j < l.cursor \/ j = Cap THEN l.contents[j]
                          ELSE l.contents[j - 1]],
          cursor   |-> l.cursor + 1]

line_backspace(l) ==
    IF l.cursor = 0 THEN l
    ELSE [contents |-> [j \in 0 .. Cap |->
                          IF j = Cap THEN NUL
                          ELSE IF j < l.cursor - 1 THEN l.contents[j]
                          ELSE l.contents[j + 1]],
          cursor   |-> l.cursor - 1]

left_arrow(l) == IF l.cursor > 0 THEN [l EXCEPT !.cursor = @ - 1] ELSE l

\* Definitions whose names begin with Bug are faulty variants of the definition
\* they precede; nothing uses them but the project's mutation checks.

\* The cursor is kept within the array, not within the text.
BugRightOfText(l) == IF l.cursor < Cap THEN [l EXCEPT !.cursor = @ + 1] ELSE l

right_arrow(l) ==
    IF l.cursor < Len(CString(l.contents)) THEN [l EXCEPT !.cursor = @ + 1] ELSE l

\* A sequence that is not one of the arrows leaves its trace in the line, or
\* nothing if it began like one; its third key is dropped either way.
line_control_seq(l, next, after_next) ==
    CASE next # Bracket       -> line_insert(line_insert(l, Caret), next)
      [] next = Bracket /\ after_next = ArrowD -> left_arrow(l)
      [] next = Bracket /\ after_next = ArrowC -> right_arrow(l)
      [] OTHER                -> l

(***************************************************************************)
(* Parsing.                                                                *)
(***************************************************************************)

\* The argument limit is tested after the argument is stored.
BugOneArgMore(argc) == argc <= MaxArgs

RoomForArg(argc) == argc < MaxArgs

\* One round of the loop of parse_shell_command.
ParseStep(r) ==
    LET t == stdstring_next_token(r.after)
        rest == [r EXCEPT !.more = t.more, !.after = t.after]
    IN  IF ~r.more \/ ~RoomForArg(Len(r.argv)) THEN r
        ELSE IF stdstring_compare(t.token, <<Ampersand>>) = 0
        THEN [rest EXCEPT !.background = TRUE, !.more = FALSE]
        ELSE IF stdstring_compare(t.token, <<Bang>>) = 0
        THEN [rest EXCEPT !.priority = 0, !.more = FALSE]
        ELSE IF Len(t.token) > 0 THEN [rest EXCEPT !.argv = Append(@, t.token)]
        ELSE rest

parse_shell_command(s) ==
    LET t == stdstring_next_token(s)
        loop[n \in 0 .. Len(s)] ==
            IF n = 0 THEN [argv |-> <<>>, background |-> FALSE, priority |-> 1,
                           more |-> t.more, after |-> t.after]
            ELSE ParseStep(loop[n - 1])
        r == loop[Len(s)]
    IN  [name |-> t.token, argv |-> r.argv,
         background |-> r.background, priority |-> r.priority]

(***************************************************************************)
(* The shell.                                                              *)
(***************************************************************************)
Editing == command = NoCommand

Edit(l) == Editing /\ line' = l /\ number' = NoNumber /\ UNCHANGED <<buf, command>>

\* get_line returns s, and mush parses it.
GotLine(s) ==
    /\ Editing
    /\ buf' = s
    /\ command' = parse_shell_command(s)
    /\ line' = make_line
    /\ number' = NoNumber

TypeChar(c)     == Edit(line_insert(line, c))
Backspace       == Edit(line_backspace(line))
ControlSeq(n, a) == Edit(line_control_seq(line, n, a))
Enter           == GotLine(CString(line.contents))
CtrlC           == GotLine(<<>>)

\* The command is launched, or not recognised, and a new line begins.
Launch ==
    /\ ~Editing
    /\ buf' = <<>>
    /\ command' = NoCommand
    /\ UNCHANGED <<line, number>>

(***************************************************************************)
(* Programs that read a number from their argument (kill, writemany) or    *)
(* print one (proc), while the shell is at an empty line.                  *)
(***************************************************************************)
Texts == UNION {[1 .. n -> {Space, Minus, Digit0, Digit0 + 1, Digit0 + 2, Digit0 + 7,
                             Digit0 + 8, ArrowC}] : n \in 0 .. MaxText}

AtPrompt == Editing /\ line = make_line /\ number = NoNumber

Number(text, value) ==
    /\ number' = [text |-> text, value |-> value]
    /\ UNCHANGED <<line, buf, command>>

ReadNumber(s)  == Number(s, stdstring_strtol(s))

\* stdio_printint, with the NUL in the array.  A longer number would overrun it:
\* the callers print pids (proc, pipeline, consumer) and the counters of P0 and P1.
PrintNumber(n) ==
    /\ Len(stdstring_int_to_str(n)) < PrintRoom
    /\ Number(stdstring_int_to_str(n), n)

Init == line = make_line /\ buf = <<>> /\ command = NoCommand /\ number = NoNumber

Next ==
    \/ \E c \in Chars : TypeChar(c)
    \/ Backspace
    \/ \E n \in Chars : ControlSeq(n, Space)
    \/ \E a \in {ArrowC, ArrowD, Space} : ControlSeq(Bracket, a)
    \/ Enter \/ CtrlC \/ Launch
    \/ AtPrompt /\ \/ \E s \in Texts : ReadNumber(s)
                    \/ \E n \in -LONG_MAX .. LONG_MAX : PrintNumber(n)

Spec == Init /\ [][Next]_vars

(***************************************************************************)
(* Properties.                                                             *)
(***************************************************************************)
T == INSTANCE TextLine WITH text <- CString(line.contents), pos <- line.cursor

\* The array that line_insert and line_backspace shift in place always holds
\* the text a user has typed, with the cursor in it, also when it is full and
\* when the cursor has been moved: the editor implements TextLine.
ImplementsTextLine == T!Spec

\* The words of a line: its longest runs without blanks, in order.
Words(s) ==
    LET solid(j, k) == \A m \in j .. k : s[m] # Space
        runs == {w \in (1 .. Len(s)) \X (1 .. Len(s)) :
                    /\ w[1] <= w[2] /\ solid(w[1], w[2])
                    /\ w[1] > 1 => s[w[1] - 1] = Space
                    /\ w[2] < Len(s) => s[w[2] + 1] = Space}
        sorted == SetToSortSeq(runs, LAMBDA v, w : v[1] < w[1])
    IN  [j \in 1 .. Len(sorted) |-> SubSeq(s, sorted[j][1], sorted[j][2])]

\* The command a line stands for: its first word is the name; the words up to
\* the first "&" or "!" are arguments, MaxArgs at most, and a mark that comes
\* after that many is not looked at.
Meaning(s) ==
    LET words == Words(s)
        rest  == IF words = <<>> THEN <<>> ELSE Tail(words)
        mark  == SelectInSeq(rest, LAMBDA w : w \in {<<Ampersand>>, <<Bang>>})
        seen  == mark # 0 /\ mark <= MaxArgs
        last  == IF mark = 0 THEN Len(rest) ELSE mark - 1
    IN  [name       |-> IF words = <<>> THEN <<>> ELSE Head(words),
         argv       |-> SubSeq(rest, 1, Min({last, MaxArgs})),
         background |-> seen /\ rest[mark] = <<Ampersand>>,
         priority   |-> IF seen /\ rest[mark] = <<Bang>> THEN 0 ELSE 1]

\* Every line is taken apart as its words say, wherever the blanks are and
\* whether or not the arguments fit (parse_shell_command).
ParsedAsWords == ~Editing => command = Meaning(buf)

\* The value of a number that may be too big for a long.
Value(str) ==
    LET s  == Drop(str, SpanLen(str, Blanks))
        u  == Unsigned(s)
        ds == SubSeq(u, 1, SpanLen(u, Digits))
        v  == MapThenSumSet(LAMBDA j : (ds[j] - Digit0) * 10 ^ (Len(ds) - j), DOMAIN ds)
    IN  IF Negative(s) THEN -v ELSE v

\* stdstring_strtol, which kill and writemany apply to their argument, returns
\* the number or, beyond the range of a long, its nearest end; and what
\* stdstring_int_to_str prints stands for the number it was given.
NumbersKept == number.value = Max({LONG_MIN, Min({Value(number.text), LONG_MAX})})
=============================================================================
