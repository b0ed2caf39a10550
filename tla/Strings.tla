------------------------------ MODULE Strings ------------------------------
(***************************************************************************)
(* The string functions of mlibc/src/stdstring.c that the shell and its    *)
(* programs use.  A string is the sequence of its characters, as codes,    *)
(* without the terminating NUL; an array of characters is a function from  *)
(* 0 .. n, and CString is the string it holds.  long is Bits wide.         *)
(***************************************************************************)
EXTENDS Integers, SequencesExt, FiniteSetsExt

CONSTANT Bits

ASSUME BitsAssumption == Bits \in Nat \ {0}

LONG_MAX == 2 ^ (Bits - 1) - 1
LONG_MIN == -(2 ^ (Bits - 1))

NUL   == 0
Space == 32
Plus  == 43
Minus == 45
Digit0 == 48

CString(a) ==
    LET end == Min({j \in DOMAIN a : a[j] = NUL})
    IN  [j \in 1 .. end |-> a[j - 1]]

\* The longest prefix of s whose characters are all in S, and what is left.
SpanLen(s, S) == LET out == SelectInSeq(s, LAMBDA c : c \notin S)
                 IN  IF out = 0 THEN Len(s) ELSE out - 1
Drop(s, n) == SubSeq(s, n + 1, Len(s))

\* NUL is less than every other character.
stdstring_compare(s, t) ==
    LET at(u, j) == IF j <= Len(u) THEN u[j] ELSE NUL
        differ   == {j \in 1 .. Len(s) \cup 1 .. Len(t) : at(s, j) # at(t, j)}
    IN  IF differ = {} THEN 0
        ELSE IF at(s, Min(differ)) < at(t, Min(differ)) THEN -1 ELSE 1

\* stdstring_next_token: blanks are skipped, then everything up to the next
\* blank is the token; the string after that blank is left, if there was one.
stdstring_next_token(s) ==
    LET skipped == Drop(s, SpanLen(s, {Space}))
        blank   == SelectInSeq(skipped, LAMBDA c : c = Space)
    IN  IF blank = 0 THEN [token |-> skipped, more |-> FALSE, after |-> <<>>]
        ELSE [token |-> SubSeq(skipped, 1, blank - 1),
              more  |-> TRUE,
              after |-> Drop(skipped, blank)]

(***************************************************************************)
(* Numbers, in base 10, the only base in use.                              *)
(***************************************************************************)
Blanks == {Space, 9, 10}
Digits == Digit0 .. Digit0 + 9

HasSign(s) == s # <<>> /\ Head(s) \in {Plus, Minus}
Unsigned(s) == IF HasSign(s) THEN Tail(s) ELSE s
Negative(s) == HasSign(s) /\ Head(s) = Minus

\* Definitions whose names begin with Bug are faulty variants of the definition
\* they precede; nothing uses them but the project's mutation checks.

\* The last digit is not compared with the limit.
BugNoLastDigit(acc, c, cutoff, cutlim) == acc > cutoff

\* One more digit c would take acc past the limit.
TooBig(acc, c, cutoff, cutlim) == acc > cutoff \/ (acc = cutoff /\ c > cutlim)

\* The loop over the digits, with the limit split into cutoff and cutlim.
stdstring_strtol(str) ==
    LET s     == Drop(str, SpanLen(str, Blanks))
        u     == Unsigned(s)
        limit == IF Negative(s) THEN -LONG_MIN ELSE LONG_MAX
        step(r, ch) ==
            LET c == ch - Digit0
            IN  IF r.over \/ TooBig(r.acc, c, limit \div 10, limit % 10)
                THEN [r EXCEPT !.over = TRUE]
                ELSE [r EXCEPT !.acc = @ * 10 + c]
        r == FoldLeft(step, [acc |-> 0, over |-> FALSE], SubSeq(u, 1, SpanLen(u, Digits)))
        n == IF r.over THEN limit ELSE r.acc
    IN  IF Negative(s) THEN -n ELSE n

\* For n > LONG_MIN, whose negation has no room in a long.
stdstring_int_to_str(n) ==
    LET digits[m \in 0 .. LONG_MAX] ==
            <<Digit0 + (m % 10)>> \o (IF m \div 10 > 0 THEN digits[m \div 10] ELSE <<>>)
    IN  Reverse(IF n < 0 THEN Append(digits[-n], Minus) ELSE digits[n])
=============================================================================
