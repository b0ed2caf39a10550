----------------------------- MODULE DiskProofs -----------------------------
(***************************************************************************)
(* Proofs about the disk driver, for every geometry of the disk, every     *)
(* byte size, FIFO depth and number of tries.                              *)
(*                                                                         *)
(* The inductive invariant DiskInv says what is on the serial line.  While *)
(* a request is on its way (Requesting), what the disk has read, what the  *)
(* FIFO holds and what the driver has still to put are the request, cut in *)
(* three.  Once the disk has answered (Answered), nothing of the request   *)
(* is left, and what the driver has read and what is on the line are the   *)
(* answer, cut in two where pc and k say.  So the driver never reads a     *)
(* token it does not expect, and returns with the line empty.              *)
(***************************************************************************)
EXTENDS Disk, SequenceTheorems, TLAPS

\* A number is its last digit and the rest.
LEMMA Division ==
    ASSUME NEW n \in Nat
    PROVE  /\ n \div Radix \in Nat /\ n % Radix \in Bytes
           /\ n = (n % Radix) + Radix * (n \div Radix)
BY DiskAssumption, Z3T(30) DEF Bytes

\* Shifting by a byte keeps the order.
LEMMA Scaled ==
    ASSUME NEW a \in Nat, NEW b \in Nat, a <= b
    PROVE  Radix * a <= Radix * b /\ Radix * a \in Nat
BY DiskAssumption, Z3T(30)

\* The bytes of a word give the word back.
LEMMA PackUnpack ==
    ASSUME NEW n \in 0 .. MaxWord
    PROVE  Pack(n) \in [1 .. Word -> Bytes] /\ Unpack(Pack(n)) = n
<1>. DEFINE n1 == n \div Radix
            n2 == n1 \div Radix
            n3 == n2 \div Radix
<1>1. Radix \in Nat /\ n \in Nat /\ n < Radix * (Radix * (Radix * Radix))
  BY DiskAssumption, Z3T(30) DEF MaxWord
<1>2. n1 \in Nat /\ n = (n % Radix) + Radix * n1 /\ n % Radix \in Bytes
  BY <1>1, Division
<1>3. n2 \in Nat /\ n1 = (n1 % Radix) + Radix * n2 /\ n1 % Radix \in Bytes
  BY <1>2, Division
<1>4. n3 \in Nat /\ n2 = (n2 % Radix) + Radix * n3 /\ n2 % Radix \in Bytes
  BY <1>3, Division
<1>. HIDE DEF n1, n2, n3
<1>5. n3 < Radix
  <2>. SUFFICES ASSUME Radix <= n3 PROVE FALSE
    BY <1>1, <1>4
  <2>1. Radix * Radix <= Radix * n3 /\ Radix * n3 <= n2
    BY <1>1, <1>4, Scaled DEF Bytes
  <2>2. Radix * (Radix * Radix) <= Radix * n2 /\ Radix * n2 <= n1
    BY <1>1, <1>3, <1>4, <2>1, Scaled DEF Bytes
  <2>3. Radix * (Radix * (Radix * Radix)) <= Radix * n1 /\ Radix * n1 <= n
    BY <1>1, <1>2, <1>3, <2>2, Scaled DEF Bytes
  <2>. QED BY <1>1, <1>2, <2>3, Scaled
<1>6. n3 % Radix = n3 /\ n3 \in Bytes
  <2>1. n3 \in Bytes
    BY <1>1, <1>4, <1>5 DEF Bytes
  <2>2. n3 % Radix = n3
    BY <1>1, <1>4, <1>5, Z3T(30)
  <2>. QED BY <2>1, <2>2
<1>7. Pack(n) = <<n % Radix, n1 % Radix, n2 % Radix, n3>>
  BY <1>6 DEF Pack, n1, n2, n3
<1>8. Unpack(Pack(n)) = (n % Radix) + Radix * ((n1 % Radix) + Radix * ((n2 % Radix) + Radix * n3))
  BY <1>7 DEF Unpack
<1>9. Pack(n) \in [1 .. Word -> Bytes]
  BY <1>2, <1>3, <1>4, <1>6, <1>7 DEF Word
<1>. QED BY <1>2, <1>3, <1>4, <1>8, <1>9, Zenon

-----------------------------------------------------------------------------
(* The inductive invariant: a request on its way, or its answer.           *)

Token == ({"hex"} \X Nat) \cup {Sep, EOL}

DiskTypes ==
    /\ call \in Calls \cup {NoCall}
    /\ i \in Nat /\ k \in Nat /\ refused \in Nat /\ served \in BOOLEAN
    /\ out \in Seq(Token) /\ tx \in Seq(Token) /\ rx \in Seq(Token) /\ line \in Seq(Token)
    /\ buf \in Data
    /\ image \in Seq(Data) /\ Len(image) <= BlockNum

\* The array that a call reads into.
ArrayLen == IF call.op \in {"num", "len"} THEN 2 * Word ELSE BlockLen

\* What the disk has read, what is in the FIFO and what is still to be put are
\* the request, in this order.
Requesting ==
    LET r == Request(call)
        l == Len(line)
        t == Len(tx)
    IN  /\ l + t + Len(out) = Len(r)
        /\ \A j \in 1 .. l : line[j] = r[j]
        /\ \A j \in 1 .. t : tx[j] = r[l + j]
        /\ \A j \in 1 .. Len(out) : out[j] = r[l + t + j]
        /\ pc = IF Len(out) = 0 THEN "ack" ELSE "put"
        /\ rx = <<>> /\ k = 1 /\ ~served /\ refused = i

\* What the disk sends back with a positive answer.
Body ==
    CASE call.op \in {"num", "len"} -> Pack(BlockNum) \o Pack(BlockLen)
      [] call.op = "rd" -> Fetched(call.a)
      [] call.op = "wr" -> <<>>

Reply ==
    IF ~served THEN <<Hex(1), EOL>>
    ELSE IF call.op = "wr" THEN <<Hex(0), EOL>>
    ELSE [j \in 1 .. Len(Body) + 3 |->
             IF j = 1 THEN Hex(0) ELSE IF j = 2 THEN Sep
             ELSE IF j = Len(Body) + 3 THEN EOL ELSE Hex(Body[j - 2])]

\* How much of the answer the driver has read.
Taken ==
    CASE pc = "ack" -> 0
      [] pc \in {"sep", "failed"} -> 1
      [] pc = "data" -> k + 1
      [] pc = "done" -> Len(Reply) - 1

\* The driver stands where the answer says: at the separator, at byte k of the
\* data, or at the end of line with all bytes in the array.
Reading ==
    /\ call.op \in {"rd", "wr"} => call.a < BlockNum
    /\ pc \in {"ack", "sep", "data", "done"}
    /\ call.op = "wr" => pc \in {"ack", "done"}
    /\ call.op # "wr" => Len(Body) \in {0, ArrayLen}
    /\ pc \in {"ack", "sep"} => k = 1
    /\ pc = "data" => k \in 1 .. ArrayLen /\ (k > 1 => Len(Body) = ArrayLen)
    /\ pc = "data" => \A j \in 1 .. k - 1 : x[j] = Body[j]
    /\ pc = "done" /\ call.op # "wr" => Len(Body) = ArrayLen /\ x = Body

\* Nothing of the request is left, and what is left of the answer is on the line.
Answered ==
    /\ line = <<>> /\ tx = <<>> /\ out = <<>>
    /\ Len(rx) = Len(Reply) - Taken
    /\ \A j \in 1 .. Len(rx) : rx[j] = Reply[Taken + j]
    /\ IF served THEN refused = i /\ Reading ELSE pc \in {"ack", "failed"} /\ refused = i + 1 /\ k = 1

Quiet == call = NoCall /\ pc = "idle" /\ tx = <<>> /\ rx = <<>> /\ line = <<>>

Busy ==
    /\ call \in Calls
    /\ x \in Seq(Nat) /\ Len(x) = ArrayLen
    /\ i < RETRY
    /\ Requesting \/ Answered

DiskInv == DiskTypes /\ (Quiet \/ Busy)

-----------------------------------------------------------------------------
(* Requests.                                                               *)

\* A block is a sequence of bytes.
LEMMA DataIsSeq ==
    /\ BlockLen \in Nat \ {0} /\ BlockNum \in Nat \ {0} /\ Bytes \subseteq Nat
    /\ ZeroBlock \in Data
    /\ \A d \in Data : d \in Seq(Bytes) /\ d \in Seq(Nat) /\ Len(d) = BlockLen
<1>1. BlockLen \in Nat \ {0} /\ BlockNum \in Nat \ {0} /\ Bytes \subseteq Nat /\ Radix \in Nat /\ Radix >= 2
  BY DiskAssumption DEF Bytes
<1>2. ZeroBlock \in Data
  BY <1>1 DEF Data, ZeroBlock, Bytes
<1>3. ASSUME NEW d \in Data PROVE d \in Seq(Bytes) /\ d \in Seq(Nat) /\ Len(d) = BlockLen
  <2>1. d \in [1 .. BlockLen -> Bytes] /\ d \in [1 .. BlockLen -> Nat]
    BY <1>1 DEF Data
  <2>. QED BY <1>1, <2>1
<1>. QED BY <1>1, <1>2, <1>3

\* The tokens that stand for bytes.
LEMMA PuthShape ==
    ASSUME NEW s \in Seq(Bytes)
    PROVE  /\ Puth(s) \in Seq(Token) /\ Len(Puth(s)) = Len(s)
           /\ \A j \in 1 .. Len(s) : Puth(s)[j] = Hex(s[j]) /\ Puth(s)[j] # EOL
<1>1. ASSUME NEW j \in 1 .. Len(s) PROVE Hex(s[j]) \in Token /\ Hex(s[j]) # EOL
  <2>1. s[j] \in Bytes
    OBVIOUS
  <2>2. s[j] \in Nat
    BY <2>1 DEF Bytes
  <2>. QED BY <2>2 DEF Hex, Token, EOL
<1>2. Len(s) \in Nat
  OBVIOUS
<1>3. Puth(s) \in [1 .. Len(s) -> Token]
  BY <1>1 DEF Puth
<1>4. Puth(s) \in Seq(Token) /\ Len(Puth(s)) = Len(s)
  BY <1>2, <1>3
<1>5. \A j \in 1 .. Len(s) : Puth(s)[j] = Hex(s[j])
  BY DEF Puth
<1>. QED BY <1>1, <1>4, <1>5

\* An address and a count are four bytes.
LEMMA PackShape ==
    ASSUME NEW n \in 0 .. MaxWord
    PROVE  Pack(n) \in Seq(Bytes) /\ Len(Pack(n)) = 4
<1>1. Pack(n) \in [1 .. Word -> Bytes] /\ Word \in Nat
  BY PackUnpack DEF Word
<1>2. Pack(n) \in Seq(Bytes) /\ Len(Pack(n)) = Word
  BY <1>1
<1>. QED BY <1>2 DEF Word

\* Where the elements of a concatenation come from.
LEMMA ConcatShape ==
    ASSUME NEW S, NEW s \in Seq(S), NEW t \in Seq(S), NEW r, r = s \o t
    PROVE  /\ r \in Seq(S) /\ Len(r) = Len(s) + Len(t)
           /\ \A j \in 1 .. Len(s) : r[j] = s[j]
           /\ \A j \in 1 .. Len(t) : r[Len(s) + j] = t[j]
OBVIOUS

\* The lone characters, and the first two tokens.
LEMMA TokenSeqs ==
    /\ <<Sep>> \in Seq(Token) /\ Len(<<Sep>>) = 1 /\ <<Sep>>[1] = Sep
    /\ <<EOL>> \in Seq(Token) /\ Len(<<EOL>>) = 1 /\ <<EOL>>[1] = EOL
    /\ Sep \in Token /\ EOL \in Token /\ Sep # EOL /\ ~IsHex(Sep) /\ ~IsHex(EOL)
    /\ \A b \in Nat : /\ Hex(b) \in Token /\ Hex(b) # EOL /\ IsHex(Hex(b)) /\ Hex(b)[2] = b
                      /\ <<Hex(b), Sep>> \in Seq(Token) /\ Len(<<Hex(b), Sep>>) = 2
                      /\ <<Hex(b), Sep>>[1] = Hex(b) /\ <<Hex(b), Sep>>[2] = Sep
                      /\ <<Hex(b), EOL>> \in Seq(Token) /\ Len(<<Hex(b), EOL>>) = 2
                      /\ <<Hex(b), EOL>>[1] = Hex(b) /\ <<Hex(b), EOL>>[2] = EOL
<1>1. /\ Sep \in Token /\ EOL \in Token /\ Sep # EOL /\ ~IsHex(Sep) /\ ~IsHex(EOL)
      /\ \A b \in Nat : Hex(b) \in Token /\ Hex(b) # EOL /\ IsHex(Hex(b)) /\ Hex(b)[2] = b
  BY DEF Sep, EOL, Token, Hex, IsHex
<1>2. \A b \in Nat : <<Hex(b), Sep>> \in Seq(Token) /\ <<Hex(b), EOL>> \in Seq(Token)
  BY <1>1
<1>3. <<Sep>> \in Seq(Token) /\ <<EOL>> \in Seq(Token)
  BY <1>1
<1>. QED BY <1>1, <1>2, <1>3

\* The first six tokens of a request with an address.
Heading(c, b) == <<Hex(b), Sep>> \o Puth(Pack(c.a))

\* They hold the address, and no end of line.
LEMMA HeadingShape ==
    ASSUME NEW c \in Calls, c.op \in {"rd", "wr"}, NEW b \in Nat, NEW s, s = Heading(c, b)
    PROVE  /\ c.a \in 0 .. MaxWord
           /\ s \in Seq(Token) /\ Len(s) = 6 /\ s[1] = Hex(b)
           /\ \A j \in 1 .. 6 : s[j] # EOL
           /\ \A j \in 1 .. 4 : s[2 + j] = Hex(Pack(c.a)[j])
<1>1. c.a \in 0 .. MaxWord
  BY DiskAssumption DEF Calls
<1>. DEFINE p == Puth(Pack(c.a))
            f == <<Hex(b), Sep>>
<1>2. /\ p \in Seq(Token) /\ Len(p) = 4
      /\ \A j \in 1 .. 4 : p[j] = Hex(Pack(c.a)[j]) /\ p[j] # EOL
  BY <1>1, PackShape, PuthShape
<1>3. f \in Seq(Token) /\ Len(f) = 2 /\ f[1] = Hex(b) /\ f[2] = Sep /\ Hex(b) # EOL /\ Sep # EOL
  BY TokenSeqs
<1>4. s = f \o p
  BY DEF Heading
<1>. HIDE DEF p, f
<1>5. /\ s \in Seq(Token) /\ Len(s) = Len(f) + Len(p)
      /\ \A j \in 1 .. Len(f) : s[j] = f[j]
      /\ \A j \in 1 .. Len(p) : s[Len(f) + j] = p[j]
  <2>1. f \in Seq(Token) /\ p \in Seq(Token)
    BY <1>2, <1>3
  <2>. QED BY <1>4, <2>1, ConcatShape
<1>6. s[1] = Hex(b) /\ s[2] = Sep /\ \A j \in 1 .. 4 : s[2 + j] = p[j]
  BY <1>2, <1>3, <1>5
<1>7. s[3] = p[1] /\ s[4] = p[2] /\ s[5] = p[3] /\ s[6] = p[4]
  BY <1>6
<1>8. \A j \in 1 .. 6 : j = 1 \/ j = 2 \/ j = 3 \/ j = 4 \/ j = 5 \/ j = 6
  OBVIOUS
<1>9. \A j \in 1 .. 6 : s[j] # EOL
  BY <1>2, <1>3, <1>6, <1>7, <1>8
<1>. QED BY <1>1, <1>2, <1>3, <1>5, <1>6, <1>9

\* Only the last token of a request is an end of line; the others say what the
\* call asks for.
LEMMA RequestShape ==
    ASSUME NEW c \in Calls, NEW r, r = Request(c)
    PROVE  /\ r \in Seq(Token) /\ Len(r) >= 2 /\ r[Len(r)] = EOL
           /\ \A j \in 1 .. Len(r) - 1 : r[j] # EOL
           /\ c.op \in {"num", "len", "rd", "wr"}
           /\ c.op \in {"num", "len"} => r[1] = Hex(0)
           /\ c.op \in {"rd", "wr"} =>
                 /\ c.a \in 0 .. MaxWord
                 /\ \A j \in 1 .. 4 : r[2 + j] = Hex(Pack(c.a)[j])
           /\ c.op = "rd" => r[1] = Hex(2) /\ Len(r) = 7
           /\ c.op = "wr" => /\ r[1] = Hex(1) /\ Len(r) = 8 + BlockLen /\ c.data \in Data
                             /\ \A j \in 1 .. BlockLen : r[7 + j] = Hex(c.data[j])
<1>1. CASE c.op \in {"num", "len"}
  <2>1. r = <<Hex(0), EOL>>
    BY <1>1 DEF Request
  <2>2. r \in Seq(Token) /\ Len(r) = 2 /\ r[1] = Hex(0) /\ r[2] = EOL /\ Hex(0) # EOL
    BY <2>1, TokenSeqs
  <2>. QED BY <1>1, <2>2
<1>2. CASE c.op = "rd"
  <2>. DEFINE s == Heading(c, 2)
              e == <<EOL>>
  <2>1. /\ c.a \in 0 .. MaxWord
        /\ s \in Seq(Token) /\ Len(s) = 6 /\ s[1] = Hex(2)
        /\ \A j \in 1 .. 6 : s[j] # EOL
        /\ \A j \in 1 .. 4 : s[2 + j] = Hex(Pack(c.a)[j])
    BY <1>2, HeadingShape
  <2>2. e \in Seq(Token) /\ Len(e) = 1 /\ e[1] = EOL
    BY TokenSeqs
  <2>3. r = s \o e
    BY <1>2 DEF Request, Heading
  <2>. HIDE DEF s, e
  <2>4. /\ r \in Seq(Token) /\ Len(r) = Len(s) + Len(e)
        /\ \A j \in 1 .. Len(s) : r[j] = s[j]
        /\ \A j \in 1 .. Len(e) : r[Len(s) + j] = e[j]
    <3>1. s \in Seq(Token) /\ e \in Seq(Token)
      BY <2>1, <2>2
    <3>. QED BY <2>3, <3>1, ConcatShape
  <2>. QED BY <1>2, <2>1, <2>2, <2>4
<1>3. CASE c.op = "wr"
  <2>. DEFINE s == Heading(c, 1)
              b == <<Sep>>
              t == s \o b
              d == Puth(c.data)
              u == t \o d
              e == <<EOL>>
  <2>1. /\ c.a \in 0 .. MaxWord
        /\ s \in Seq(Token) /\ Len(s) = 6 /\ s[1] = Hex(1)
        /\ \A j \in 1 .. 6 : s[j] # EOL
        /\ \A j \in 1 .. 4 : s[2 + j] = Hex(Pack(c.a)[j])
    BY <1>3, HeadingShape
  <2>2. e \in Seq(Token) /\ Len(e) = 1 /\ e[1] = EOL
    BY TokenSeqs
  <2>3. b \in Seq(Token) /\ Len(b) = 1 /\ b[1] = Sep /\ Sep # EOL
    BY TokenSeqs
  <2>4. /\ c.data \in Data /\ d \in Seq(Token) /\ Len(d) = BlockLen /\ BlockLen \in Nat
        /\ \A j \in 1 .. BlockLen : d[j] = Hex(c.data[j]) /\ d[j] # EOL
    <3>1. c.data \in Data
      BY <1>3 DEF Calls
    <3>2. c.data \in Seq(Bytes) /\ Len(c.data) = BlockLen /\ BlockLen \in Nat
      BY <3>1, DataIsSeq
    <3>. QED BY <3>1, <3>2, PuthShape
  <2>5. r = u \o e
    BY <1>3 DEF Request, Heading
  <2>. HIDE DEF s, b, d, e
  <2>6. /\ t \in Seq(Token) /\ Len(t) = Len(s) + Len(b)
        /\ \A j \in 1 .. Len(s) : t[j] = s[j]
        /\ \A j \in 1 .. Len(b) : t[Len(s) + j] = b[j]
    <3>1. s \in Seq(Token) /\ b \in Seq(Token)
      BY <2>1, <2>3
    <3>. QED BY <3>1, ConcatShape
  <2>. HIDE DEF t
  <2>7. Len(t) = 7 /\ t[7] = Sep /\ \A j \in 1 .. 6 : t[j] = s[j]
    BY <2>1, <2>3, <2>6
  <2>8. /\ u \in Seq(Token) /\ Len(u) = Len(t) + Len(d)
        /\ \A j \in 1 .. Len(t) : u[j] = t[j]
        /\ \A j \in 1 .. Len(d) : u[Len(t) + j] = d[j]
    <3>1. t \in Seq(Token) /\ d \in Seq(Token)
      BY <2>4, <2>6
    <3>. QED BY <3>1, ConcatShape
  <2>. HIDE DEF u
  <2>9. /\ Len(u) = 7 + BlockLen /\ \A j \in 1 .. 7 : u[j] = t[j]
        /\ \A j \in 1 .. BlockLen : u[7 + j] = d[j]
    BY <2>4, <2>7, <2>8
  <2>10. /\ r \in Seq(Token) /\ Len(r) = Len(u) + Len(e)
         /\ \A j \in 1 .. Len(u) : r[j] = u[j]
         /\ \A j \in 1 .. Len(e) : r[Len(u) + j] = e[j]
    <3>1. u \in Seq(Token) /\ e \in Seq(Token)
      BY <2>2, <2>8
    <3>. QED BY <2>5, <3>1, ConcatShape
  <2>11. /\ Len(r) = 8 + BlockLen /\ r[8 + BlockLen] = EOL
         /\ \A j \in 1 .. 7 + BlockLen : r[j] = u[j]
    <3>1. Len(u) = 7 + BlockLen /\ BlockLen \in Nat /\ Len(e) = 1 /\ e[1] = EOL
      BY <2>2, <2>4, <2>9
    <3>2. Len(r) = 8 + BlockLen /\ Len(u) + 1 = 8 + BlockLen
      BY <2>10, <3>1
    <3>3. r[Len(u) + 1] = EOL
      BY <2>10, <3>1
    <3>4. \A j \in 1 .. 7 + BlockLen : r[j] = u[j]
      BY <2>10, <3>1
    <3>. QED BY <3>2, <3>3, <3>4
  <2>12. \A j \in 1 .. 7 + BlockLen : u[j] # EOL
    <3>1. \A j \in 1 .. 7 : u[j] # EOL
      BY <2>1, <2>3, <2>7, <2>9
    <3>2. ASSUME NEW j \in 8 .. 7 + BlockLen PROVE u[j] # EOL
      <4>1. j - 7 \in 1 .. BlockLen /\ 7 + (j - 7) = j
        BY <2>4
      <4>2. u[7 + (j - 7)] = d[j - 7] /\ d[j - 7] # EOL
        BY <2>4, <2>9, <4>1
      <4>. QED BY <4>1, <4>2
    <3>. QED BY <2>4, <3>1, <3>2
  <2>13. r[1] = Hex(1) /\ \A j \in 1 .. 4 : r[2 + j] = Hex(Pack(c.a)[j])
    BY <2>1, <2>4, <2>7, <2>9, <2>11
  <2>14. \A j \in 1 .. BlockLen : r[7 + j] = Hex(c.data[j])
    BY <2>4, <2>9, <2>11
  <2>15. BlockLen \in Nat /\ Len(r) - 1 = 7 + BlockLen /\ Len(r) >= 2
    BY <2>4, <2>11
  <2>16. \A j \in 1 .. Len(r) - 1 : r[j] # EOL
    BY <2>11, <2>12, <2>15
  <2>17. r[Len(r)] = EOL /\ r \in Seq(Token)
    BY <2>10, <2>11
  <2>. QED BY <1>3, <2>1, <2>4, <2>11, <2>13, <2>14, <2>15, <2>16, <2>17, Zenon
<1>. QED BY <1>1, <1>2, <1>3 DEF Calls

\* A call under way is not NoCall.
LEMMA CallKinds ==
    /\ NoCall \notin Calls
    /\ \A c \in Calls : c.op \in {"num", "len", "rd", "wr"}
    /\ \A c \in Calls : c.op \in {"rd", "wr"} => c.a \in Nat
    /\ \A c \in Calls : c.op = "wr" => c.data \in Data
<1>1. \A c \in Calls : c.op \in {"num", "len", "rd", "wr"}
  BY DEF Calls
<1>2. NoCall.op = "none"
  BY DEF NoCall
<1>3. \A c \in Calls : c.op \in {"rd", "wr"} => c.a \in Nat
  BY DiskAssumption DEF Calls
<1>4. \A c \in Calls : c.op = "wr" => c.data \in Data
  BY DEF Calls
<1>. QED BY <1>1, <1>2, <1>3, <1>4

\* When the disk has read an end of line, it has read the whole request, and
\* understands it.
LEMMA WholeLine ==
    ASSUME DiskInv, HasLine
    PROVE  /\ call \in Calls /\ Busy /\ Requesting /\ tx = <<>> /\ out = <<>> /\ pc = "ack"
           /\ call.op \in {"num", "len"} => Command = 0
           /\ call.op = "wr" => Command = 1 /\ Payload = call.data
           /\ call.op = "rd" => Command = 2
           /\ call.op \in {"rd", "wr"} => Address = call.a
<1>1. Busy /\ Requesting /\ call \in Calls
  BY DEF DiskInv, HasLine, Quiet, Busy, Answered
<1>2. /\ line \in Seq(Token) /\ tx \in Seq(Token) /\ out \in Seq(Token)
      /\ line # <<>> /\ line[Len(line)] = EOL
  BY DEF DiskInv, DiskTypes, HasLine, Last
<1>. DEFINE r == Request(call)
<1>3. /\ r \in Seq(Token) /\ Len(r) >= 2 /\ r[Len(r)] = EOL
      /\ \A j \in 1 .. Len(r) - 1 : r[j] # EOL
      /\ call.op \in {"num", "len", "rd", "wr"}
      /\ call.op \in {"num", "len"} => r[1] = Hex(0)
      /\ call.op \in {"rd", "wr"} =>
            /\ call.a \in 0 .. MaxWord
            /\ \A j \in 1 .. 4 : r[2 + j] = Hex(Pack(call.a)[j])
      /\ call.op = "rd" => r[1] = Hex(2) /\ Len(r) = 7
      /\ call.op = "wr" => /\ r[1] = Hex(1) /\ Len(r) = 8 + BlockLen /\ call.data \in Data
                           /\ \A j \in 1 .. BlockLen : r[7 + j] = Hex(call.data[j])
  BY <1>1, RequestShape
<1>4. /\ Len(line) + Len(tx) + Len(out) = Len(r)
      /\ \A j \in 1 .. Len(line) : line[j] = r[j]
      /\ pc = IF Len(out) = 0 THEN "ack" ELSE "put"
  BY <1>1 DEF Requesting
<1>. HIDE DEF r
<1>5. Len(line) \in Nat \ {0} /\ Len(tx) \in Nat /\ Len(out) \in Nat /\ Len(r) \in Nat
  BY <1>2, <1>3
<1>6. Len(line) = Len(r)
  <2>1. Len(line) <= Len(r) /\ Len(line) \in 1 .. Len(line)
    BY <1>4, <1>5
  <2>2. r[Len(line)] = EOL
    BY <1>2, <1>4, <2>1
  <2>. QED BY <1>3, <1>5, <2>1, <2>2
<1>7. Len(tx) = 0 /\ Len(out) = 0 /\ pc = "ack"
  BY <1>4, <1>5, <1>6
<1>8. tx = <<>> /\ out = <<>>
  BY <1>2, <1>7
<1>9. line[1] = r[1]
  BY <1>3, <1>4, <1>6
<1>10. /\ call.op \in {"num", "len"} => Command = 0
       /\ call.op = "wr" => Command = 1
       /\ call.op = "rd" => Command = 2
  BY <1>3, <1>9 DEF Command, Hex
<1>11. ASSUME call.op \in {"rd", "wr"} PROVE Address = call.a
  <2>. DEFINE a == SubSeq(line, 3, 6)
              p == Pack(call.a)
  <2>1. Len(line) >= 7
    BY <1>3, <1>6, <1>11, DataIsSeq
  <2>2. Len(a) = 4 /\ \A j \in 1 .. 4 : a[j] = line[2 + j]
    BY <1>2, <2>1
  <2>. HIDE DEF a
  <2>3. \A j \in 1 .. 4 : a[j] = Hex(p[j])
    <3>1. \A j \in 1 .. 4 : 2 + j \in 1 .. Len(line)
      BY <1>5, <2>1
    <3>. QED BY <1>3, <1>4, <1>11, <2>2, <3>1
  <2>4. \A j \in 1 .. 4 : Geth(a)[j] = p[j]
    BY <2>2, <2>3 DEF Geth, Hex
  <2>. HIDE DEF p
  <2>5. Unpack(Geth(a)) = Unpack(p)
    BY <2>4 DEF Unpack
  <2>6. Unpack(p) = call.a
    BY <1>3, <1>11, PackUnpack DEF p
  <2>. QED BY <2>5, <2>6 DEF Address, a, Word
<1>12. ASSUME call.op = "wr" PROVE Payload = call.data
  <2>. DEFINE s == SubSeq(line, 8, 7 + BlockLen)
  <2>1. Len(line) = 8 + BlockLen /\ BlockLen \in Nat /\ call.data \in Data
    BY <1>3, <1>6, <1>12, DataIsSeq
  <2>2. Len(s) = BlockLen /\ \A j \in 1 .. BlockLen : s[j] = line[7 + j]
    BY <1>2, <2>1
  <2>3. Payload = Geth(s)
    <3>1. Len(line) - 1 = 7 + BlockLen
      BY <2>1
    <3>. QED BY <3>1 DEF Payload, Word
  <2>. HIDE DEF s
  <2>4. \A j \in 1 .. BlockLen : s[j] = Hex(call.data[j])
    <3>1. \A j \in 1 .. BlockLen : 7 + j \in 1 .. Len(line)
      BY <2>1
    <3>. QED BY <1>3, <1>4, <1>12, <2>2, <3>1
  <2>5. Geth(s) = [j \in 1 .. BlockLen |-> s[j][2]]
    BY <2>2 DEF Geth
  <2>6. \A j \in 1 .. BlockLen : s[j][2] = call.data[j]
    BY <2>4 DEF Hex
  <2>7. call.data = [j \in 1 .. BlockLen |-> call.data[j]]
    BY <2>1 DEF Data
  <2>. QED BY <2>3, <2>5, <2>6, <2>7
<1>. QED BY <1>1, <1>7, <1>8, <1>10, <1>11, <1>12

\* The answer, token by token.
LEMMA ReplyShape ==
    ASSUME DiskTypes, call \in Calls
    PROVE  /\ Body \in Seq(Bytes) /\ Body \in Seq(Nat)
           /\ call.op # "wr" => Len(Body) \in {0, ArrayLen}
           /\ call.op \in {"num", "len"} => Len(Body) = ArrayLen
           /\ call.op = "rd" => /\ Len(Body) = ArrayLen => call.a < Len(image) /\ Body = image[call.a + 1]
                                /\ ArrayLen = BlockLen
           /\ ArrayLen \in Nat \ {0}
           /\ ~served => Reply = <<Hex(1), EOL>>
           /\ served /\ call.op = "wr" => Reply = <<Hex(0), EOL>>
           /\ served /\ call.op # "wr" =>
                 /\ Reply \in Seq(Token)
                 /\ Len(Reply) = Len(Body) + 3
                 /\ Reply[1] = Hex(0) /\ Reply[2] = Sep /\ Reply[Len(Body) + 3] = EOL
                 /\ \A j \in 1 .. Len(Body) : Reply[2 + j] = Hex(Body[j])
<1>1. ArrayLen \in Nat \ {0}
  BY DataIsSeq DEF ArrayLen, Word
<1>2. /\ Body \in Seq(Bytes)
      /\ call.op # "wr" => Len(Body) \in {0, ArrayLen}
      /\ call.op \in {"num", "len"} => Len(Body) = ArrayLen
      /\ call.op = "rd" => /\ Len(Body) = ArrayLen => call.a < Len(image) /\ Body = image[call.a + 1]
                           /\ ArrayLen = BlockLen
  <2>1. CASE call.op \in {"num", "len"}
    <3>1. BlockNum \in 0 .. MaxWord /\ BlockLen \in 0 .. MaxWord
      BY DiskAssumption
    <3>2. /\ Pack(BlockNum) \in Seq(Bytes) /\ Len(Pack(BlockNum)) = 4
          /\ Pack(BlockLen) \in Seq(Bytes) /\ Len(Pack(BlockLen)) = 4
      BY <3>1, PackShape
    <3>3. Body = Pack(BlockNum) \o Pack(BlockLen)
      BY <2>1 DEF Body
    <3>4. Body \in Seq(Bytes) /\ Len(Body) = Len(Pack(BlockNum)) + Len(Pack(BlockLen))
      <4>1. Pack(BlockNum) \in Seq(Bytes) /\ Pack(BlockLen) \in Seq(Bytes)
        BY <3>2
      <4>. QED BY <3>3, <4>1, ConcatShape
    <3>5. ArrayLen = 8
      BY <2>1 DEF ArrayLen, Word
    <3>. QED BY <2>1, <3>2, <3>4, <3>5
  <2>2. CASE call.op = "rd"
    <3>1. Body = Fetched(call.a) /\ ArrayLen = BlockLen /\ call.a \in Nat
      BY <2>2, CallKinds DEF Body, ArrayLen
    <3>2. CASE call.a < Len(image)
      <4>1. Body = image[call.a + 1] /\ image \in Seq(Data)
        BY <3>1, <3>2 DEF Fetched, DiskTypes
      <4>2. call.a + 1 \in 1 .. Len(image)
        BY <3>1, <3>2, <4>1
      <4>3. Body \in Data
        BY <4>1, <4>2
      <4>4. Body \in Seq(Bytes) /\ Len(Body) = BlockLen
        BY <4>3, DataIsSeq
      <4>. QED BY <2>2, <3>1, <3>2, <4>1, <4>4
    <3>3. CASE ~(call.a < Len(image))
      <4>1. Body = <<>>
        BY <3>1, <3>3 DEF Fetched
      <4>2. Body \in Seq(Bytes) /\ Len(Body) = 0 /\ ArrayLen # 0
        BY <1>1, <4>1
      <4>. QED BY <2>2, <3>1, <4>2
    <3>. QED BY <3>2, <3>3
  <2>3. CASE call.op = "wr"
    <3>1. Body = <<>>
      BY <2>3 DEF Body
    <3>. QED BY <2>3, <3>1
  <2>. QED BY <2>1, <2>2, <2>3, CallKinds
<1>3. Body \in Seq(Nat)
  <2>1. Body \in [1 .. Len(Body) -> Bytes] /\ Bytes \subseteq Nat /\ Len(Body) \in Nat
    BY <1>2, DataIsSeq
  <2>2. Body \in [1 .. Len(Body) -> Nat]
    BY <2>1
  <2>. QED BY <2>1, <2>2
<1>4. ASSUME served, call.op # "wr"
      PROVE  /\ Reply \in Seq(Token)
             /\ Len(Reply) = Len(Body) + 3
             /\ Reply[1] = Hex(0) /\ Reply[2] = Sep /\ Reply[Len(Body) + 3] = EOL
             /\ \A j \in 1 .. Len(Body) : Reply[2 + j] = Hex(Body[j])
  <2>. DEFINE n == Len(Body)
  <2>1. n \in Nat
    BY <1>2
  <2>2. Reply = [j \in 1 .. n + 3 |-> IF j = 1 THEN Hex(0) ELSE IF j = 2 THEN Sep
                                      ELSE IF j = n + 3 THEN EOL ELSE Hex(Body[j - 2])]
    BY <1>4 DEF Reply
  <2>3. \A j \in 1 .. n + 3 : j \notin {1, 2, n + 3} => Hex(Body[j - 2]) \in Token
    <3>1. \A j \in 1 .. n + 3 : j \notin {1, 2, n + 3} => j - 2 \in 1 .. n
      BY <2>1
    <3>2. \A j \in 1 .. n : Body[j] \in Nat
      BY <1>3
    <3>. QED BY <3>1, <3>2, TokenSeqs
  <2>. HIDE DEF n
  <2>4. Reply \in [1 .. n + 3 -> Token]
    BY <2>2, <2>3, TokenSeqs
  <2>5. Reply \in Seq(Token) /\ Len(Reply) = n + 3
    BY <2>1, <2>4
  <2>6. Reply[1] = Hex(0) /\ Reply[2] = Sep /\ Reply[n + 3] = EOL
    BY <2>1, <2>2
  <2>7. ASSUME NEW j \in 1 .. n PROVE Reply[2 + j] = Hex(Body[j])
    <3>1. 2 + j \in 1 .. n + 3 /\ 2 + j \notin {1, 2, n + 3} /\ (2 + j) - 2 = j
      BY <2>1
    <3>. QED BY <2>2, <3>1
  <2>. QED BY <2>5, <2>6, <2>7 DEF n
<1>5. /\ ~served => Reply = <<Hex(1), EOL>>
      /\ served /\ call.op = "wr" => Reply = <<Hex(0), EOL>>
  BY DEF Reply
<1>. QED BY <1>1, <1>2, <1>3, <1>4, <1>5

-----------------------------------------------------------------------------
(* Every step keeps the invariant.                                         *)

\* A call begins.
LEMMA CallStep ==
    ASSUME DiskInv, NEW c \in Calls, Call(c)
    PROVE  DiskInv'
<1>1. Quiet /\ DiskTypes
  BY CallKinds DEF DiskInv, Busy, Call
<1>2. /\ call' = c /\ pc' = "put" /\ i' = 0 /\ out' = Request(c) /\ k' = 1
      /\ served' = FALSE /\ refused' = 0 /\ UNCHANGED <<buf, tx, rx, line, image>>
      /\ x' = IF c.op \in {"num", "len"} THEN [j \in 1 .. 2 * Word |-> 0] ELSE buf
  BY DEF Call
<1>3. Request(c) \in Seq(Token) /\ Len(Request(c)) >= 2
  BY RequestShape
<1>4. DiskTypes'
  BY <1>1, <1>2, <1>3 DEF DiskTypes
<1>5. x' \in Seq(Nat) /\ Len(x') = ArrayLen'
  <2>1. CASE c.op \in {"num", "len"}
    <3>1. 2 * Word \in Nat
      BY DEF Word
    <3>2. x' \in [1 .. 2 * Word -> Nat]
      BY <1>2, <2>1
    <3>3. x' \in Seq(Nat) /\ Len(x') = 2 * Word
      BY <3>1, <3>2
    <3>. QED BY <1>2, <2>1, <3>3 DEF ArrayLen
  <2>2. CASE c.op \notin {"num", "len"}
    <3>1. x' = buf /\ buf \in Data
      BY <1>1, <1>2, <2>2 DEF DiskTypes
    <3>2. x' \in Seq(Nat) /\ Len(x') = BlockLen
      BY <3>1, DataIsSeq
    <3>. QED BY <1>2, <2>2, <3>2 DEF ArrayLen
  <2>. QED BY <2>1, <2>2
<1>6. Requesting'
  <2>1. line' = <<>> /\ tx' = <<>> /\ rx' = <<>> /\ Len(line') = 0 /\ Len(tx') = 0
    BY <1>1, <1>2 DEF Quiet
  <2>. QED BY <1>2, <1>3, <2>1 DEF Requesting
<1>7. i' < RETRY
  BY <1>2, DiskAssumption
<1>. QED BY <1>2, <1>4, <1>5, <1>6, <1>7 DEF DiskInv, Busy

\* Where in the invariant each step of the two sides begins.
LEMMA Whereabouts ==
    ASSUME DiskInv
    PROVE  /\ pc = "put" => Busy /\ Requesting
           /\ tx # <<>> => Busy /\ Requesting
           /\ rx # <<>> => Busy /\ Answered
BY DEF DiskInv, Quiet, Busy, Requesting, Answered, Reading

\* The request goes from the driver to the FIFO, and from there to the disk.
LEMMA RequestMoves ==
    ASSUME DiskInv, Put \/ ReadLine
    PROVE  DiskInv'
<1>. DEFINE r == Request(call)
            l == Len(line)
            t == Len(tx)
            o == Len(out)
<1>1. Busy /\ Requesting /\ DiskTypes
  BY Whereabouts DEF Put, ReadLine, DiskInv
<1>2. line \in Seq(Token) /\ tx \in Seq(Token) /\ out \in Seq(Token)
  BY <1>1 DEF DiskTypes
<1>3. /\ l + t + o = Len(r)
      /\ \A j \in 1 .. l : line[j] = r[j]
      /\ \A j \in 1 .. t : tx[j] = r[l + j]
      /\ \A j \in 1 .. o : out[j] = r[l + t + j]
      /\ pc = IF o = 0 THEN "ack" ELSE "put"
      /\ rx = <<>> /\ k = 1 /\ ~served /\ refused = i
  BY <1>1 DEF Requesting
<1>4. l \in Nat /\ t \in Nat /\ o \in Nat
  BY <1>2
<1>5. CASE Put
  <2>1. /\ pc = "put" /\ tx' = Append(tx, Head(out)) /\ out' = Tail(out)
        /\ pc' = IF o = 1 THEN "ack" ELSE "put"
        /\ UNCHANGED <<call, i, x, k, buf, ret, rx, line, image, served, refused>>
    BY <1>5 DEF Put
  <2>2. o > 0
    BY <1>3, <1>4, <2>1
  <2>3. /\ Head(out) \in Token /\ Head(out) = out[1]
        /\ out' \in Seq(Token) /\ Len(out') = o - 1 /\ \A j \in 1 .. o - 1 : out'[j] = out[j + 1]
    BY <1>2, <2>1, <2>2
  <2>4. /\ tx' \in Seq(Token) /\ Len(tx') = t + 1 /\ tx'[t + 1] = out[1]
        /\ \A j \in 1 .. t : tx'[j] = tx[j]
    BY <1>2, <2>1, <2>3
  <2>. HIDE DEF l, t, o, r
  <2>5. \A j \in 1 .. t + 1 : tx'[j] = r[l + j]
    BY <1>3, <1>4, <2>2, <2>4
  <2>6. \A j \in 1 .. o - 1 : out'[j] = r[l + (t + 1) + j]
    <3>1. \A j \in 1 .. o - 1 : j + 1 \in 1 .. o /\ l + t + (j + 1) = l + (t + 1) + j
      BY <1>4, <2>2
    <3>. QED BY <1>3, <2>3, <3>1
  <2>7. l + (t + 1) + (o - 1) = Len(r) /\ (o - 1 = 0 <=> o = 1)
    BY <1>3, <1>4
  <2>8. r = Request(call) /\ l = Len(line) /\ Request(call)' = Request(call)
    BY <2>1 DEF r, l, Request
  <2>9. Requesting'
    BY <1>3, <2>1, <2>3, <2>4, <2>5, <2>6, <2>7, <2>8 DEF Requesting
  <2>10. DiskTypes'
    BY <1>1, <2>1, <2>3, <2>4 DEF DiskTypes
  <2>11. ArrayLen' = ArrayLen
    BY <2>1 DEF ArrayLen
  <2>. QED BY <1>1, <2>1, <2>9, <2>10, <2>11 DEF DiskInv, Busy
<1>6. CASE ReadLine
  <2>1. /\ tx # <<>> /\ line' = Append(line, Head(tx)) /\ tx' = Tail(tx)
        /\ UNCHANGED <<driver, rx, image, served, refused>>
    BY <1>6 DEF ReadLine
  <2>2. t > 0
    BY <1>2, <2>1
  <2>3. /\ Head(tx) \in Token /\ Head(tx) = tx[1]
        /\ tx' \in Seq(Token) /\ Len(tx') = t - 1 /\ \A j \in 1 .. t - 1 : tx'[j] = tx[j + 1]
    BY <1>2, <2>1, <2>2
  <2>4. /\ line' \in Seq(Token) /\ Len(line') = l + 1 /\ line'[l + 1] = tx[1]
        /\ \A j \in 1 .. l : line'[j] = line[j]
    BY <1>2, <2>1, <2>3
  <2>. HIDE DEF l, t, o, r
  <2>5. \A j \in 1 .. l + 1 : line'[j] = r[j]
    BY <1>3, <1>4, <2>2, <2>4
  <2>6. \A j \in 1 .. t - 1 : tx'[j] = r[(l + 1) + j]
    <3>1. \A j \in 1 .. t - 1 : j + 1 \in 1 .. t /\ l + (j + 1) = (l + 1) + j
      BY <1>4, <2>2
    <3>. QED BY <1>3, <2>3, <3>1
  <2>7. /\ (l + 1) + (t - 1) + o = Len(r)
        /\ \A j \in 1 .. o : out[j] = r[(l + 1) + (t - 1) + j]
    <3>1. (l + 1) + (t - 1) = l + t
      BY <1>4
    <3>. QED BY <1>3, <3>1
  <2>8. /\ r = Request(call) /\ o = Len(out) /\ Request(call)' = Request(call)
        /\ UNCHANGED <<call, pc, i, out, x, k, buf>>
    BY <2>1 DEF r, o, Request, driver
  <2>9. Requesting'
    <3>1. pc = (IF o = 0 THEN "ack" ELSE "put") /\ rx = <<>> /\ k = 1 /\ ~served /\ refused = i
      BY <1>3
    <3>. QED BY <2>1, <2>3, <2>4, <2>5, <2>6, <2>7, <2>8, <3>1 DEF Requesting
  <2>10. DiskTypes'
    BY <1>1, <2>1, <2>3, <2>4, <2>8 DEF DiskTypes
  <2>11. ArrayLen' = ArrayLen
    BY <2>8 DEF ArrayLen
  <2>. QED BY <1>1, <2>8, <2>9, <2>10, <2>11 DEF DiskInv, Busy
<1>. QED BY <1>5, <1>6

\* The driver takes the next token of the answer.
LEMMA TakeNext ==
    ASSUME DiskInv, rx # <<>>
    PROVE  /\ Taken \in Nat /\ Len(Reply) \in Nat /\ Taken < Len(Reply)
           /\ Head(rx) = Reply[Taken + 1] /\ Tail(rx) \in Seq(Token)
           /\ Len(Tail(rx)) = Len(Reply) - (Taken + 1)
           /\ \A j \in 1 .. Len(Tail(rx)) : Tail(rx)[j] = Reply[(Taken + 1) + j]
<1>1. DiskTypes /\ call \in Calls /\ Answered
  BY Whereabouts DEF DiskInv, Busy
<1>2. Len(Reply) \in Nat \ {0}
  <2>1. CASE ~served \/ call.op = "wr"
    <3>1. Reply = <<Hex(1), EOL>> \/ Reply = <<Hex(0), EOL>>
      BY <2>1 DEF Reply
    <3>. QED BY <3>1
  <2>2. CASE served /\ call.op # "wr"
    <3>1. Len(Reply) = Len(Body) + 3 /\ Len(Body) \in Nat
      BY <1>1, <2>2, ReplyShape
    <3>. QED BY <3>1
  <2>. QED BY <2>1, <2>2
<1>3. Taken \in Nat
  <2>1. k \in Nat /\ pc \in {"ack", "sep", "data", "done", "failed"}
    BY <1>1 DEF DiskTypes, Answered, Reading
  <2>. QED BY <1>2, <2>1 DEF Taken
<1>4. rx \in Seq(Token) /\ Len(rx) \in Nat \ {0} /\ Len(rx) = Len(Reply) - Taken
      /\ \A j \in 1 .. Len(rx) : rx[j] = Reply[Taken + j]
  BY <1>1 DEF DiskTypes, Answered
<1>5. /\ Head(rx) = rx[1] /\ Tail(rx) \in Seq(Token) /\ Len(Tail(rx)) = Len(rx) - 1
      /\ \A j \in 1 .. Len(rx) - 1 : Tail(rx)[j] = rx[j + 1]
  <2>1. rx \in Seq(Token) /\ rx # <<>>
    BY <1>4
  <2>. QED BY <2>1
<1>. DEFINE tl == Tail(rx)
            rep == Reply
            tk == Taken
            n == Len(rx)
<1>. HIDE DEF tl, rep, tk, n
<1>6. rx[1] = rep[tk + 1]
  BY <1>4 DEF n, rep, tk
<1>7. \A j \in 1 .. n - 1 : tl[j] = rep[(tk + 1) + j]
  <2>1. n \in Nat /\ tk \in Nat /\ \A j \in 1 .. n : rx[j] = rep[tk + j]
    BY <1>3, <1>4 DEF n, rep, tk
  <2>2. \A j \in 1 .. n - 1 : tl[j] = rx[j + 1]
    BY <1>5 DEF n, tl
  <2>3. \A j \in 1 .. n - 1 : j + 1 \in 1 .. n /\ tk + (j + 1) = (tk + 1) + j
    BY <2>1
  <2>. QED BY <2>1, <2>2, <2>3
<1>8. Len(rx) - 1 = Len(Reply) - (Taken + 1) /\ Taken < Len(Reply)
  BY <1>2, <1>3, <1>4
<1>. QED BY <1>2, <1>3, <1>5, <1>6, <1>7, <1>8 DEF tl, rep, tk, n

\* The first token of an answer tells whether the disk has served the call.
LEMMA AckStep ==
    ASSUME DiskInv, GetAck
    PROVE  DiskInv'
<1>1. Busy /\ Answered /\ DiskTypes /\ call \in Calls
  BY Whereabouts DEF GetAck, DiskInv, Busy
<1>2. /\ pc = "ack" /\ pc' = AfterAck(Head(rx)[2]) /\ rx' = Tail(rx)
      /\ UNCHANGED <<call, i, out, x, k, buf, ret, tx, line, image, served, refused>>
  BY DEF GetAck
<1>3. Taken = 0
  BY <1>2 DEF Taken
<1>4. Head(rx) = Reply[1] /\ rx' \in Seq(Token) /\ Len(rx') = Len(Reply) - 1
      /\ \A j \in 1 .. Len(rx') : rx'[j] = Reply[1 + j]
  BY <1>2, <1>3, TakeNext DEF GetAck
<1>5. Reply[1] = IF served THEN Hex(0) ELSE Hex(1)
  BY <1>1, ReplyShape, TokenSeqs DEF DiskTypes
<1>6. pc' = IF ~served THEN "failed" ELSE IF call.op = "wr" THEN "done" ELSE "sep"
  BY <1>1, <1>2, <1>4, <1>5 DEF AfterAck, Hex, DiskTypes
<1>7. Reply' = Reply /\ ArrayLen' = ArrayLen /\ Body' = Body
  <2>1. Body' = Body /\ ArrayLen' = ArrayLen
    BY <1>2 DEF Body, Fetched, ArrayLen
  <2>. QED BY <1>2, <2>1 DEF Reply
<1>8. Taken' = 1
  <2>1. served /\ call.op = "wr" => Len(Reply) = 2
    BY <1>1, ReplyShape
  <2>. QED BY <1>1, <1>6, <1>7, <2>1 DEF Taken, DiskTypes
<1>9. DiskTypes'
  BY <1>1, <1>2, <1>4 DEF DiskTypes
<1>10. served => Reading'
  BY <1>1, <1>2, <1>6, <1>7 DEF Answered, Reading, DiskTypes
<1>11. Answered'
  BY <1>1, <1>2, <1>4, <1>6, <1>7, <1>8, <1>10 DEF Answered, DiskTypes
<1>. QED BY <1>1, <1>2, <1>7, <1>9, <1>11 DEF DiskInv, Busy

\* After the separator comes the first byte.
LEMMA SepStep ==
    ASSUME DiskInv, GetSep
    PROVE  DiskInv'
<1>1. Busy /\ Answered /\ DiskTypes /\ call \in Calls
  BY Whereabouts DEF GetSep, DiskInv, Busy
<1>2. /\ pc = "sep" /\ pc' = "data" /\ rx' = Tail(rx)
      /\ UNCHANGED <<call, i, out, x, k, buf, ret, tx, line, image, served, refused>>
  BY DEF GetSep
<1>3. Taken = 1 /\ served /\ Reading /\ k = 1 /\ call.op # "wr"
  BY <1>1, <1>2 DEF Taken, Answered, Reading
<1>4. rx' \in Seq(Token) /\ Len(rx') = Len(Reply) - 2 /\ \A j \in 1 .. Len(rx') : rx'[j] = Reply[2 + j]
  <2>1. /\ rx' \in Seq(Token) /\ Len(rx') = Len(Reply) - (Taken + 1)
        /\ \A j \in 1 .. Len(rx') : rx'[j] = Reply[(Taken + 1) + j]
    BY <1>2, TakeNext DEF GetSep
  <2>2. Taken + 1 = 2
    BY <1>3
  <2>. QED BY <2>1, <2>2
<1>7. Reply' = Reply /\ ArrayLen' = ArrayLen /\ Body' = Body
  <2>1. Body' = Body /\ ArrayLen' = ArrayLen
    BY <1>2 DEF Body, Fetched, ArrayLen
  <2>. QED BY <1>2, <2>1 DEF Reply
<1>8. Taken' = 2
  BY <1>2, <1>3 DEF Taken
<1>9. DiskTypes'
  BY <1>1, <1>2, <1>4 DEF DiskTypes
<1>10. Reading'
  <2>1. ArrayLen \in Nat \ {0}
    BY <1>1, ReplyShape
  <2>2. k' = 1 /\ 1 \in 1 .. ArrayLen /\ ~(k' > 1) /\ 1 .. k' - 1 = {}
    BY <1>2, <1>3, <2>1
  <2>. QED BY <1>2, <1>3, <1>7, <2>2 DEF Reading
<1>11. Answered'
  BY <1>1, <1>2, <1>3, <1>4, <1>7, <1>8, <1>10 DEF Answered
<1>. QED BY <1>1, <1>2, <1>7, <1>9, <1>11 DEF DiskInv, Busy

\* A byte of the answer goes to its place in the array.
LEMMA DataStep ==
    ASSUME DiskInv, GetData
    PROVE  DiskInv'
<1>1. Busy /\ Answered /\ DiskTypes /\ call \in Calls
  BY Whereabouts DEF GetData, DiskInv, Busy
<1>2. /\ pc = "data" /\ IsHex(Head(rx)) /\ x' = [x EXCEPT ![k] = Head(rx)[2]] /\ k' = k + 1
      /\ pc' = (IF k = Len(x) THEN "done" ELSE "data") /\ rx' = Tail(rx)
      /\ UNCHANGED <<call, i, out, buf, ret, tx, line, image, served, refused>>
  BY DEF GetData
<1>3. /\ Taken = k + 1 /\ served /\ Reading /\ call.op # "wr"
      /\ x \in Seq(Nat) /\ Len(x) = ArrayLen
      /\ k \in 1 .. ArrayLen /\ Len(Body) \in {0, ArrayLen} /\ (k > 1 => Len(Body) = ArrayLen)
      /\ \A j \in 1 .. k - 1 : x[j] = Body[j]
  BY <1>1, <1>2 DEF Taken, Answered, Reading, Busy
<1>4. /\ ArrayLen \in Nat \ {0} /\ Body \in Seq(Nat)
      /\ Len(Reply) = Len(Body) + 3 /\ Reply[Len(Body) + 3] = EOL
      /\ \A j \in 1 .. Len(Body) : Reply[2 + j] = Hex(Body[j])
  BY <1>1, <1>3, ReplyShape
<1>5. /\ Head(rx) = Reply[2 + k] /\ rx' \in Seq(Token) /\ Len(rx') = Len(Reply) - (k + 2)
      /\ \A j \in 1 .. Len(rx') : rx'[j] = Reply[(k + 2) + j]
  <2>1. /\ Head(rx) = Reply[Taken + 1] /\ rx' \in Seq(Token) /\ Len(rx') = Len(Reply) - (Taken + 1)
        /\ \A j \in 1 .. Len(rx') : rx'[j] = Reply[(Taken + 1) + j]
    BY <1>2, TakeNext DEF GetData
  <2>2. Taken + 1 = k + 2 /\ k + 2 = 2 + k
    BY <1>3, <1>4
  <2>. QED BY <2>1, <2>2
<1>6. Len(Body) = ArrayLen
  <2>. SUFFICES ASSUME Len(Body) = 0 PROVE FALSE
    BY <1>3
  <2>1. k = 1
    BY <1>3, <1>4
  <2>2. Head(rx) = EOL
    BY <1>4, <1>5, <2>1
  <2>. QED BY <1>2, <2>2, TokenSeqs
<1>7. Head(rx)[2] = Body[k] /\ Body[k] \in Nat
  <2>1. k \in 1 .. Len(Body)
    BY <1>3, <1>6
  <2>2. Head(rx) = Hex(Body[k])
    BY <1>4, <1>5, <2>1
  <2>. QED BY <1>4, <2>1, <2>2 DEF Hex
<1>8. /\ x' \in Seq(Nat) /\ Len(x') = ArrayLen
      /\ \A j \in 1 .. k : x'[j] = Body[j]
  <2>1. x' = [x EXCEPT ![k] = Body[k]] /\ x \in Seq(Nat) /\ k \in 1 .. Len(x) /\ Body[k] \in Nat
    BY <1>2, <1>3, <1>7
  <2>2. x' \in Seq(Nat) /\ Len(x') = Len(x) /\ \A j \in 1 .. Len(x) : x'[j] = IF j = k THEN Body[k] ELSE x[j]
    BY <2>1
  <2>3. ASSUME NEW j \in 1 .. k PROVE x'[j] = Body[j]
    <3>1. j \in 1 .. Len(x) /\ (j = k \/ j \in 1 .. k - 1)
      BY <1>3, <1>4
    <3>. QED BY <1>3, <2>2, <3>1
  <2>. QED BY <1>3, <2>2, <2>3
<1>9. Reply' = Reply /\ ArrayLen' = ArrayLen /\ Body' = Body
  <2>1. Body' = Body /\ ArrayLen' = ArrayLen
    BY <1>2 DEF Body, Fetched, ArrayLen
  <2>. QED BY <1>2, <2>1 DEF Reply
<1>10. Taken' = k + 2
  <2>1. CASE k = Len(x)
    <3>1. pc' = "done" /\ Len(Reply') - 1 = k + 2
      BY <1>2, <1>3, <1>4, <1>6, <1>9, <2>1
    <3>. QED BY <3>1 DEF Taken
  <2>2. CASE k # Len(x)
    <3>1. pc' = "data" /\ k' + 1 = k + 2
      BY <1>2, <1>3, <1>4, <2>2
    <3>. QED BY <3>1 DEF Taken
  <2>. QED BY <2>1, <2>2
<1>11. DiskTypes'
  <2>1. k' \in Nat
    BY <1>2, <1>3, <1>4
  <2>. QED BY <1>1, <1>2, <1>5, <2>1 DEF DiskTypes
<1>12. Reading'
  <2>1. CASE k = Len(x)
    <3>1. x' = Body
      BY <1>3, <1>4, <1>6, <1>8, <2>1, SeqEqual
    <3>2. pc' = "done"
      BY <1>2, <2>1
    <3>. QED BY <1>2, <1>3, <1>6, <1>9, <3>1, <3>2 DEF Reading
  <2>2. CASE k # Len(x)
    <3>1. pc' = "data" /\ k' \in 1 .. ArrayLen /\ k' - 1 = k
      BY <1>2, <1>3, <1>4, <2>2
    <3>. QED BY <1>2, <1>3, <1>6, <1>8, <1>9, <3>1 DEF Reading
  <2>. QED BY <2>1, <2>2
<1>13. Answered'
  BY <1>1, <1>2, <1>3, <1>5, <1>9, <1>10, <1>12 DEF Answered
<1>. QED BY <1>1, <1>2, <1>8, <1>9, <1>11, <1>13 DEF DiskInv, Busy

\* The call returns, with everything read that the disk has sent, and with what
\* the disk has answered.
LEMMA ReturnStep ==
    ASSUME DiskInv, Return
    PROVE  /\ DiskInv' /\ call \in Calls /\ served
           /\ call.op = "rd" => buf' = Blocks[call.a]
           /\ call.op = "num" => ret' = BlockNum
           /\ call.op = "len" => ret' = BlockLen
<1>1. Busy /\ Answered /\ DiskTypes /\ call \in Calls
  BY Whereabouts DEF Return, DiskInv, Busy
<1>2. /\ pc = "done" /\ rx' = Tail(rx) /\ pc' = "idle" /\ call' = NoCall
      /\ buf' = (IF call.op = "rd" THEN x ELSE buf)
      /\ UNCHANGED <<i, out, x, k, tx, line, image, served, refused>>
  BY DEF Return, ReadEol
<1>3. served /\ Reading /\ Taken = Len(Reply) - 1 /\ line = <<>> /\ tx = <<>>
  BY <1>1, <1>2 DEF Taken, Answered
<1>4. rx' \in Seq(Token) /\ rx' = <<>>
  <2>1. Len(Reply) \in Nat /\ rx' \in Seq(Token) /\ Len(rx') = Len(Reply) - (Taken + 1)
    BY <1>2, TakeNext DEF Return
  <2>2. Len(rx') = 0
    BY <1>3, <2>1
  <2>. QED BY <2>1, <2>2
<1>5. call.op # "wr" => Len(Body) = ArrayLen /\ x = Body
  BY <1>2, <1>3 DEF Reading
<1>6. call.op = "rd" => /\ x = image[call.a + 1] /\ x \in Data /\ x = Blocks[call.a]
  <2>. SUFFICES ASSUME call.op = "rd" PROVE x = image[call.a + 1] /\ x \in Data /\ x = Blocks[call.a]
    OBVIOUS
  <2>1. call.a < Len(image) /\ x = image[call.a + 1] /\ image \in Seq(Data) /\ call.a \in Nat
    BY <1>1, <1>5, ReplyShape, CallKinds DEF DiskTypes
  <2>2. call.a + 1 \in 1 .. Len(image)
    BY <2>1
  <2>3. x \in Data
    BY <2>1, <2>2
  <2>4. call.a \in 0 .. BlockNum - 1
    BY <1>3, <2>1, DataIsSeq DEF Reading
  <2>. QED BY <2>1, <2>3, <2>4 DEF Blocks
<1>7. DiskTypes'
  BY <1>1, <1>2, <1>4, <1>6 DEF DiskTypes
<1>8. ASSUME call.op \in {"num", "len"} PROVE ret' = IF call.op = "num" THEN BlockNum ELSE BlockLen
  <2>. DEFINE p == Pack(BlockNum)
              q == Pack(BlockLen)
  <2>1. BlockNum \in 0 .. MaxWord /\ BlockLen \in 0 .. MaxWord
    BY DiskAssumption
  <2>2. /\ p \in Seq(Bytes) /\ Len(p) = 4 /\ Unpack(p) = BlockNum
        /\ q \in Seq(Bytes) /\ Len(q) = 4 /\ Unpack(q) = BlockLen
    BY <2>1, PackShape, PackUnpack
  <2>3. x = p \o q /\ x \in Seq(Nat)
    BY <1>1, <1>5, <1>8 DEF Body, Busy
  <2>4. ret' = IF call.op = "num" THEN Unpack(SubSeq(x, 1, 4)) ELSE Unpack(SubSeq(x, 5, 8))
    BY <1>8 DEF Return, Word
  <2>. HIDE DEF p, q
  <2>5. /\ Len(x) = Len(p) + Len(q)
        /\ \A j \in 1 .. Len(p) : x[j] = p[j]
        /\ \A j \in 1 .. Len(q) : x[Len(p) + j] = q[j]
    <3>1. p \in Seq(Bytes) /\ q \in Seq(Bytes)
      BY <2>2
    <3>. QED BY <2>3, <3>1, ConcatShape
  <2>6. Len(x) = 8 /\ \A j \in 1 .. 4 : x[j] = p[j] /\ x[4 + j] = q[j]
    BY <2>2, <2>5
  <2>7. \A j \in 1 .. 4 : SubSeq(x, 1, 4)[j] = p[j] /\ SubSeq(x, 5, 8)[j] = q[j]
    <3>1. x \in Seq(Nat) /\ Len(x) = 8
      BY <2>3, <2>6
    <3>2. \A j \in 1 .. 4 : SubSeq(x, 1, 4)[j] = x[j] /\ SubSeq(x, 5, 8)[j] = x[4 + j]
      BY <3>1
    <3>. QED BY <2>6, <3>2
  <2>8. Unpack(SubSeq(x, 1, 4)) = Unpack(p)
    BY <2>7 DEF Unpack
  <2>9. Unpack(SubSeq(x, 5, 8)) = Unpack(q)
    BY <2>7 DEF Unpack
  <2>. QED BY <2>2, <2>4, <2>8, <2>9
<1>9. DiskInv'
  BY <1>2, <1>3, <1>4, <1>7 DEF DiskInv, Quiet
<1>. QED BY <1>1, <1>2, <1>3, <1>6, <1>8, <1>9

\* A refusal has been read: the request is put again, or the driver gives up
\* when the disk has refused it RETRY times.
LEMMA RefusedStep ==
    ASSUME DiskInv, Refused
    PROVE  /\ DiskInv' /\ call \in Calls /\ ~served
           /\ \/ UNCHANGED <<call, ret>>
              \/ /\ refused = RETRY /\ call' = NoCall
                 /\ ret' = IF call.op \in {"num", "len"} THEN -1 ELSE ret
<1>1. Busy /\ Answered /\ DiskTypes /\ call \in Calls
  BY Whereabouts DEF Refused, DiskInv, Busy
<1>2. /\ pc = "failed" /\ rx' = Tail(rx) /\ i' = i + 1
      /\ UNCHANGED <<x, k, buf, tx, line, image, served, refused>>
      /\ IF i + 1 < RETRY
         THEN pc' = "put" /\ out' = Request(call) /\ UNCHANGED <<call, ret>>
         ELSE /\ pc' = "idle" /\ call' = NoCall
              /\ ret' = IF call.op \in {"num", "len"} THEN -1 ELSE ret
              /\ UNCHANGED out
  BY DEF Refused, TriesLeft
<1>3. /\ ~served /\ Taken = 1 /\ line = <<>> /\ tx = <<>> /\ refused = i + 1 /\ k = 1
      /\ Reply = <<Hex(1), EOL>>
  BY <1>1, <1>2 DEF Taken, Answered, Reading, Reply
<1>4. rx' \in Seq(Token) /\ rx' = <<>>
  <2>1. rx' \in Seq(Token) /\ Len(rx') = Len(Reply) - (Taken + 1)
    BY <1>2, TakeNext DEF Refused
  <2>2. Len(Reply) = 2
    BY <1>3
  <2>3. Len(rx') = 0
    BY <1>3, <2>1, <2>2
  <2>. QED BY <2>1, <2>3
<1>5. i \in Nat /\ i < RETRY /\ RETRY \in Nat
  BY <1>1, DiskAssumption DEF Busy, DiskTypes
<1>6. Request(call) \in Seq(Token) /\ Len(Request(call)) >= 2
  BY <1>1, RequestShape
<1>7. DiskTypes'
  <2>1. i' \in Nat
    BY <1>2, <1>5
  <2>2. out' \in Seq(Token) /\ call' \in Calls \cup {NoCall}
    BY <1>1, <1>2, <1>6 DEF DiskTypes
  <2>. QED BY <1>1, <1>2, <1>4, <2>1, <2>2 DEF DiskTypes
<1>8. CASE i + 1 < RETRY
  <2>1. pc' = "put" /\ out' = Request(call) /\ UNCHANGED <<call, ret>>
    BY <1>2, <1>8
  <2>2. Request(call)' = Request(call) /\ ArrayLen' = ArrayLen
    BY <2>1 DEF Request, ArrayLen
  <2>3. Requesting'
    <3>1. line' = <<>> /\ tx' = <<>> /\ Len(line') = 0 /\ Len(tx') = 0
      BY <1>2, <1>3
    <3>. QED BY <1>2, <1>3, <1>4, <1>6, <2>1, <2>2, <3>1 DEF Requesting
  <2>. QED BY <1>1, <1>2, <1>3, <1>7, <1>8, <2>1, <2>2, <2>3 DEF DiskInv, Busy
<1>9. CASE ~(i + 1 < RETRY)
  <2>1. refused = RETRY
    BY <1>3, <1>5, <1>9
  <2>. QED BY <1>1, <1>2, <1>3, <1>4, <1>7, <1>9, <2>1 DEF DiskInv, Quiet
<1>. QED BY <1>8, <1>9

\* The disk refuses a request.
LEMMA FailStep ==
    ASSUME DiskInv, AckFail
    PROVE  /\ DiskInv' /\ call \in Calls /\ ~served /\ refused < RETRY
           /\ refused >= MaxRefusals => call.op \in {"rd", "wr"} /\ ~(call.a < BlockNum)
<1>1. /\ call \in Calls /\ Busy /\ Requesting /\ tx = <<>> /\ out = <<>> /\ pc = "ack"
      /\ call.op \in {"num", "len"} => Command = 0
      /\ call.op \in {"rd", "wr"} => Address = call.a
  BY WholeLine DEF AckFail
<1>2. /\ (Command # 0 /\ Address >= BlockNum) \/ refused < MaxRefusals
      /\ rx' = rx \o <<Hex(1), EOL>> /\ line' = <<>> /\ refused' = refused + 1
      /\ UNCHANGED <<driver, tx, image, served>>
  BY DEF AckFail
<1>3. UNCHANGED <<call, pc, i, out, x, k, buf, ret>>
  BY <1>2 DEF driver
<1>4. rx = <<>> /\ k = 1 /\ ~served /\ refused = i /\ i < RETRY /\ i \in Nat /\ DiskTypes
  BY <1>1 DEF Requesting, Busy, DiskInv, DiskTypes
<1>5. <<Hex(1), EOL>> \in Seq(Token)
  BY TokenSeqs
<1>6. rx' = <<Hex(1), EOL>>
  BY <1>2, <1>4, <1>5
<1>7. Reply' = <<Hex(1), EOL>> /\ Taken' = 0 /\ ArrayLen' = ArrayLen
  BY <1>1, <1>2, <1>3, <1>4 DEF Reply, Taken, ArrayLen
<1>8. DiskTypes'
  <2>1. rx' \in Seq(Token) /\ line' \in Seq(Token) /\ refused' \in Nat
    BY <1>2, <1>4, <1>5, <1>6
  <2>. QED BY <1>2, <1>3, <1>4, <2>1 DEF DiskTypes
<1>9. Answered'
  <2>1. Len(rx') = Len(Reply') - Taken' /\ \A j \in 1 .. Len(rx') : rx'[j] = (Reply')[Taken' + j]
    BY <1>6, <1>7
  <2>. QED BY <1>1, <1>2, <1>3, <1>4, <2>1 DEF Answered
<1>10. DiskInv'
  BY <1>1, <1>3, <1>7, <1>8, <1>9 DEF DiskInv, Busy
<1>11. refused >= MaxRefusals => call.op \in {"rd", "wr"} /\ ~(call.a < BlockNum)
  <2>. SUFFICES ASSUME refused >= MaxRefusals PROVE call.op \in {"rd", "wr"} /\ ~(call.a < BlockNum)
    OBVIOUS
  <2>1. Command # 0 /\ Address >= BlockNum
    BY <1>2, <1>4, DiskAssumption
  <2>2. call.op \in {"rd", "wr"}
    BY <1>1, <2>1, CallKinds
  <2>. QED BY <1>1, <2>1, <2>2, CallKinds, DataIsSeq
<1>. QED BY <1>1, <1>4, <1>10, <1>11

\* A positive answer that carries data, token by token.
LEMMA AnswerShape ==
    ASSUME NEW b \in Seq(Bytes), rx = <<>>, Answer(<<Sep>> \o Puth(b))
    PROVE  /\ rx' \in Seq(Token) /\ Len(rx') = Len(b) + 3
           /\ rx'[1] = Hex(0) /\ rx'[2] = Sep /\ rx'[Len(b) + 3] = EOL
           /\ \A j \in 1 .. Len(b) : rx'[2 + j] = Hex(b[j])
<1>. DEFINE h == <<Hex(0)>>
            p == Puth(b)
            c == <<Sep>>
            s == c \o p
            u == h \o s
            e == <<EOL>>
            n == Len(b)
<1>1. /\ p \in Seq(Token) /\ Len(p) = n /\ \A j \in 1 .. n : p[j] = Hex(b[j])
      /\ n \in Nat
  BY PuthShape
<1>2. h \in Seq(Token) /\ Len(h) = 1 /\ h[1] = Hex(0)
  <2>1. Hex(0) \in Token
    BY TokenSeqs
  <2>. QED BY <2>1
<1>3. /\ c \in Seq(Token) /\ Len(c) = 1 /\ c[1] = Sep
      /\ e \in Seq(Token) /\ Len(e) = 1 /\ e[1] = EOL
  BY TokenSeqs
<1>4. rx' = <<>> \o h \o s \o e
  BY DEF Answer
<1>. HIDE DEF h, p, c, e
<1>5. /\ s \in Seq(Token) /\ Len(s) = Len(c) + Len(p)
      /\ \A j \in 1 .. Len(c) : s[j] = c[j]
      /\ \A j \in 1 .. Len(p) : s[Len(c) + j] = p[j]
  <2>1. c \in Seq(Token) /\ p \in Seq(Token)
    BY <1>1, <1>3
  <2>. QED BY <2>1, ConcatShape
<1>. HIDE DEF s
<1>6. /\ u \in Seq(Token) /\ Len(u) = Len(h) + Len(s)
      /\ \A j \in 1 .. Len(h) : u[j] = h[j]
      /\ \A j \in 1 .. Len(s) : u[Len(h) + j] = s[j]
  <2>1. h \in Seq(Token) /\ s \in Seq(Token)
    BY <1>2, <1>5
  <2>. QED BY <2>1, ConcatShape
<1>7. rx' = u \o e
  <2>1. h \in Seq(Token)
    BY <1>2
  <2>2. <<>> \o h = h
    BY <2>1
  <2>. QED BY <1>4, <2>2
<1>. HIDE DEF u
<1>8. /\ rx' \in Seq(Token) /\ Len(rx') = Len(u) + Len(e)
      /\ \A j \in 1 .. Len(u) : rx'[j] = u[j]
      /\ \A j \in 1 .. Len(e) : rx'[Len(u) + j] = e[j]
  <2>1. u \in Seq(Token) /\ e \in Seq(Token)
    BY <1>3, <1>6
  <2>. QED BY <1>7, <2>1, ConcatShape
<1>. HIDE DEF n
<1>9. Len(s) = n + 1 /\ s[1] = Sep /\ \A j \in 1 .. n : s[1 + j] = p[j]
  BY <1>1, <1>3, <1>5
<1>10. Len(u) = n + 2 /\ u[1] = Hex(0) /\ \A j \in 1 .. n + 1 : u[1 + j] = s[j]
  BY <1>1, <1>2, <1>6, <1>9
<1>11. u[2] = Sep
  BY <1>1, <1>9, <1>10
<1>12. ASSUME NEW j \in 1 .. n PROVE u[2 + j] = Hex(b[j])
  <2>1. 1 + j \in 1 .. n + 1 /\ 1 + (1 + j) = 2 + j
    BY <1>1
  <2>2. u[1 + (1 + j)] = s[1 + j] /\ s[1 + j] = Hex(b[j])
    BY <1>1, <1>9, <1>10, <2>1
  <2>. QED BY <2>1, <2>2
<1>13. Len(rx') = n + 3 /\ rx'[n + 3] = EOL /\ \A j \in 1 .. n + 2 : rx'[j] = u[j]
  <2>1. Len(u) + 1 = n + 3 /\ Len(u) = n + 2 /\ Len(e) = 1
    BY <1>1, <1>3, <1>10
  <2>2. rx'[Len(u) + 1] = EOL
    BY <1>3, <1>8, <2>1
  <2>. QED BY <1>8, <2>1, <2>2
<1>14. \A j \in 1 .. n : 2 + j \in 1 .. n + 2
  BY <1>1
<1>15. 1 \in 1 .. n + 2 /\ 2 \in 1 .. n + 2
  BY <1>1
<1>. QED BY <1>8, <1>10, <1>11, <1>12, <1>13, <1>14, <1>15 DEF n

\* Writing a block changes that block and no other, also past the end of the image.
LEMMA StoredShape ==
    ASSUME DiskTypes, NEW a \in 0 .. BlockNum - 1, NEW d \in Data, image' = Stored(a, d)
    PROVE  /\ image' \in Seq(Data) /\ Len(image') <= BlockNum
           /\ Blocks' = [Blocks EXCEPT ![a] = d]
<1>. DEFINE n == IF a < Len(image) THEN Len(image) ELSE a + 1
<1>1. /\ image \in Seq(Data) /\ Len(image) \in Nat /\ Len(image) <= BlockNum
      /\ BlockNum \in Nat /\ a \in Nat /\ a < BlockNum
  BY DataIsSeq DEF DiskTypes
<1>2. n \in Nat /\ n <= BlockNum /\ a + 1 <= n /\ Len(image) <= n
  BY <1>1
<1>3. image' = [j \in 1 .. n |-> IF j = a + 1 THEN d
                                 ELSE IF j <= Len(image) THEN image[j] ELSE ZeroBlock]
  BY DEF Stored
<1>4. \A j \in 1 .. n : j <= Len(image) => image[j] \in Data
  BY <1>1, <1>2
<1>. HIDE DEF n
<1>5. image' \in [1 .. n -> Data]
  BY <1>3, <1>4, DataIsSeq
<1>6. image' \in Seq(Data) /\ Len(image') = n
  BY <1>2, <1>5
<1>7. ASSUME NEW b \in 0 .. BlockNum - 1
      PROVE  (IF b < Len(image') THEN image'[b + 1] ELSE ZeroBlock)
                = IF b = a THEN d ELSE IF b < Len(image) THEN image[b + 1] ELSE ZeroBlock
  <2>1. CASE b < n
    <3>1. b + 1 \in 1 .. n /\ (b + 1 = a + 1 <=> b = a) /\ (b + 1 <= Len(image) <=> b < Len(image))
      BY <1>1, <1>2, <2>1
    <3>. QED BY <1>3, <1>6, <2>1, <3>1
  <2>2. CASE ~(b < n)
    <3>1. b # a /\ ~(b < Len(image))
      BY <1>1, <1>2, <2>2
    <3>. QED BY <1>6, <2>2, <3>1
  <2>. QED BY <2>1, <2>2
<1>8. Blocks' = [b \in 0 .. BlockNum - 1 |->
                    IF b = a THEN d ELSE IF b < Len(image) THEN image[b + 1] ELSE ZeroBlock]
  BY <1>7 DEF Blocks, ZeroBlock
<1>9. [Blocks EXCEPT ![a] = d] = [b \in 0 .. BlockNum - 1 |->
                    IF b = a THEN d ELSE IF b < Len(image) THEN image[b + 1] ELSE ZeroBlock]
  BY DEF Blocks
<1>. QED BY <1>2, <1>6, <1>8, <1>9

\* The disk serves a request.
LEMMA OkayStep ==
    ASSUME DiskInv, AckOkay
    PROVE  /\ DiskInv' /\ call \in Calls /\ ~served
           /\ call.op \in {"rd", "wr"} => call.a < BlockNum
           /\ Blocks' = IF call.op = "wr" THEN [Blocks EXCEPT ![call.a] = call.data] ELSE Blocks
<1>1. /\ call \in Calls /\ Busy /\ Requesting /\ tx = <<>> /\ out = <<>> /\ pc = "ack"
      /\ call.op \in {"num", "len"} => Command = 0
      /\ call.op = "wr" => Command = 1 /\ Payload = call.data
      /\ call.op = "rd" => Command = 2
      /\ call.op \in {"rd", "wr"} => Address = call.a
  BY WholeLine DEF AckOkay
<1>2. line' = <<>> /\ served' = TRUE /\ UNCHANGED <<call, pc, i, out, x, k, buf, ret, tx, refused>>
  BY DEF AckOkay, driver
<1>3. rx = <<>> /\ k = 1 /\ ~served /\ refused = i /\ i < RETRY /\ DiskTypes
  BY <1>1 DEF Requesting, Busy, DiskInv
<1>4. call.op \in {"rd", "wr"} => call.a < BlockNum /\ call.a \in 0 .. BlockNum - 1
  <2>. SUFFICES ASSUME call.op \in {"rd", "wr"} PROVE call.a < BlockNum /\ call.a \in 0 .. BlockNum - 1
    OBVIOUS
  <2>1. Command # 0 /\ Address = call.a /\ call.a \in Nat
    BY <1>1, CallKinds
  <2>2. call.a < BlockNum
    BY <2>1 DEF AckOkay
  <2>. QED BY <2>1, <2>2, DataIsSeq
<1>5. /\ image' \in Seq(Data) /\ Len(image') <= BlockNum
      /\ call.op # "wr" => UNCHANGED image
      /\ Blocks' = IF call.op = "wr" THEN [Blocks EXCEPT ![call.a] = call.data] ELSE Blocks
  <2>1. CASE call.op = "wr"
    <3>1. call.a \in 0 .. BlockNum - 1 /\ call.data \in Data
      BY <1>1, <1>4, <2>1, CallKinds
    <3>2. image' = Stored(call.a, call.data)
      BY <1>1, <2>1 DEF AckOkay
    <3>3. image' \in Seq(Data) /\ Len(image') <= BlockNum /\ Blocks' = [Blocks EXCEPT ![call.a] = call.data]
      BY <1>3, <3>1, <3>2, StoredShape
    <3>. QED BY <2>1, <3>3
  <2>2. CASE call.op # "wr"
    <3>1. UNCHANGED image
      <4>1. CASE Command = 0
        BY <4>1 DEF AckOkay
      <4>2. CASE Command = 2
        BY <4>2 DEF AckOkay
      <4>. QED BY <1>1, <2>2, <4>1, <4>2, CallKinds
    <3>2. Blocks' = Blocks
      BY <3>1 DEF Blocks, ZeroBlock
    <3>. QED BY <1>3, <2>2, <3>1, <3>2 DEF DiskTypes
  <2>. QED BY <2>1, <2>2
<1>6. call.op # "wr" => Answer(<<Sep>> \o Puth(Body)) /\ Body' = Body
  <2>1. CASE call.op \in {"num", "len"}
    <3>1. Body = Pack(BlockNum) \o Pack(BlockLen) /\ Command = 0
      BY <1>1, <2>1 DEF Body
    <3>2. Answer(<<Sep>> \o Puth(Body))
      BY <3>1 DEF AckOkay
    <3>3. Body' = Body
      BY <1>2, <2>1 DEF Body
    <3>. QED BY <3>2, <3>3
  <2>2. CASE call.op = "rd"
    <3>1. Body = Fetched(call.a) /\ Command = 2 /\ Address = call.a
      BY <1>1, <2>2 DEF Body
    <3>2. Answer(<<Sep>> \o Puth(Body))
      BY <3>1 DEF AckOkay
    <3>3. Body' = Body
      BY <1>2, <1>5, <2>2 DEF Body, Fetched
    <3>. QED BY <3>2, <3>3
  <2>. QED BY <1>1, <2>1, <2>2, CallKinds
<1>7. ArrayLen' = ArrayLen /\ Body \in Seq(Bytes) /\ (call.op # "wr" => Len(Body) \in {0, ArrayLen})
  BY <1>1, <1>2, <1>3, ReplyShape DEF ArrayLen
<1>8. rx' \in Seq(Token) /\ Len(rx') = Len(Reply') /\ \A j \in 1 .. Len(rx') : rx'[j] = (Reply')[j]
  <2>1. CASE call.op = "wr"
    <3>1. rx' = <<>> \o <<Hex(0)>> \o <<>> \o <<EOL>>
      BY <1>1, <1>3, <2>1 DEF AckOkay, Answer
    <3>2. Hex(0) \in Token /\ EOL \in Token
      BY TokenSeqs
    <3>3. rx' = <<Hex(0), EOL>>
      <4>1. <<Hex(0)>> \in Seq(Token) /\ <<EOL>> \in Seq(Token)
        BY <3>2
      <4>2. <<>> \o <<Hex(0)>> \o <<>> = <<Hex(0)>>
        BY <4>1
      <4>3. rx' = <<Hex(0)>> \o <<EOL>>
        BY <3>1, <4>2
      <4>4. /\ rx' \in Seq(Token) /\ Len(rx') = Len(<<Hex(0)>>) + Len(<<EOL>>)
            /\ \A j \in 1 .. Len(<<Hex(0)>>) : rx'[j] = <<Hex(0)>>[j]
            /\ \A j \in 1 .. Len(<<EOL>>) : rx'[Len(<<Hex(0)>>) + j] = <<EOL>>[j]
        BY <4>1, <4>3, ConcatShape
      <4>5. Len(rx') = 2 /\ rx'[1] = Hex(0) /\ rx'[2] = EOL
        BY <4>4
      <4>. QED BY <4>4, <4>5
    <3>4. Reply' = <<Hex(0), EOL>>
      BY <1>2, <2>1 DEF Reply
    <3>. QED BY <3>3, <3>4, TokenSeqs
  <2>2. CASE call.op # "wr"
    <3>. DEFINE n == Len(Body)
    <3>1. /\ rx' \in Seq(Token) /\ Len(rx') = n + 3
          /\ rx'[1] = Hex(0) /\ rx'[2] = Sep /\ rx'[n + 3] = EOL
          /\ \A j \in 1 .. n : rx'[2 + j] = Hex(Body[j])
      BY <1>3, <1>6, <1>7, <2>2, AnswerShape
    <3>2. Reply' = [j \in 1 .. n + 3 |-> IF j = 1 THEN Hex(0) ELSE IF j = 2 THEN Sep
                                         ELSE IF j = n + 3 THEN EOL ELSE Hex(Body[j - 2])]
      BY <1>2, <1>6, <2>2 DEF Reply
    <3>3. n \in Nat
      BY <1>7
    <3>. HIDE DEF n
    <3>4. ASSUME NEW j \in 1 .. n + 3 PROVE rx'[j] = (Reply')[j]
      <4>1. CASE j \in {1, 2, n + 3}
        BY <3>1, <3>2, <3>3, <4>1
      <4>2. CASE j \notin {1, 2, n + 3}
        <5>1. j - 2 \in 1 .. n /\ 2 + (j - 2) = j
          BY <3>3, <4>2
        <5>2. rx'[j] = Hex(Body[j - 2])
          BY <3>1, <5>1
        <5>. QED BY <3>2, <4>2, <5>2
      <4>. QED BY <4>1, <4>2
    <3>5. Len(Reply') = n + 3
      BY <3>2, <3>3
    <3>. QED BY <3>1, <3>4, <3>5
  <2>. QED BY <2>1, <2>2
<1>9. Taken' = 0
  BY <1>1, <1>2 DEF Taken
<1>10. DiskTypes'
  BY <1>2, <1>3, <1>5, <1>8 DEF DiskTypes
<1>11. Reading'
  BY <1>1, <1>2, <1>3, <1>4, <1>6, <1>7 DEF Reading
<1>12. Answered'
  <2>1. Len(rx') = Len(Reply') - Taken' /\ \A j \in 1 .. Len(rx') : rx'[j] = (Reply')[Taken' + j]
    <3>1. Len(rx') \in Nat
      BY <1>8
    <3>. QED BY <1>8, <1>9, <3>1
  <2>. QED BY <1>1, <1>2, <1>3, <1>11, <2>1 DEF Answered
<1>13. DiskInv'
  BY <1>1, <1>2, <1>3, <1>7, <1>10, <1>12 DEF DiskInv, Busy
<1>. QED BY <1>1, <1>3, <1>4, <1>5, <1>13

-----------------------------------------------------------------------------
(* The theorems.                                                           *)

\* At first nothing is under way.
LEMMA DiskInit == Init => DiskInv
<1>. SUFFICES ASSUME Init PROVE DiskInv
  OBVIOUS
<1>1. ImageLen \in Nat /\ ImageLen <= BlockNum /\ ZeroBlock \in Data
  BY DiskAssumption, DataIsSeq
<1>2. image \in [1 .. ImageLen -> Data]
  BY <1>1 DEF Init
<1>3. image \in Seq(Data) /\ Len(image) = ImageLen
  BY <1>1, <1>2
<1>4. image \in Seq(Data) /\ Len(image) <= BlockNum
  BY <1>1, <1>3
<1>5. buf \in Data /\ out = <<>> /\ tx = <<>> /\ rx = <<>> /\ line = <<>>
  BY <1>1 DEF Init
<1>6. /\ call \in Calls \cup {NoCall}
      /\ i \in Nat /\ k \in Nat /\ refused \in Nat /\ served \in BOOLEAN
  BY DEF Init
<1>7. DiskTypes
  BY <1>4, <1>5, <1>6 DEF DiskTypes
<1>. QED BY <1>7 DEF Init, DiskInv, Quiet

\* Every step keeps the invariant.
LEMMA DiskStep == DiskInv /\ [Next]_vars => DiskInv'
<1>. SUFFICES ASSUME DiskInv, [Next]_vars PROVE DiskInv'
  OBVIOUS
<1>1. CASE Put \/ ReadLine
  BY <1>1, RequestMoves
<1>2. CASE GetAck
  BY <1>2, AckStep
<1>3. CASE GetSep
  BY <1>3, SepStep
<1>4. CASE GetData
  BY <1>4, DataStep
<1>5. CASE Return
  BY <1>5, ReturnStep
<1>6. CASE Refused
  BY <1>6, RefusedStep
<1>7. CASE AckFail
  BY <1>7, FailStep
<1>8. CASE AckOkay
  BY <1>8, OkayStep
<1>9. CASE \E c \in Calls : Call(c)
  BY <1>9, CallStep
<1>10. CASE UNCHANGED vars
  <2>1. UNCHANGED <<call, pc, i, out, x, k, buf, ret, tx, rx, line, image, served, refused>>
    BY <1>10 DEF vars, driver
  <2>2. DiskTypes' = DiskTypes
    BY <2>1 DEF DiskTypes
  <2>3. Quiet' = Quiet
    BY <2>1 DEF Quiet
  <2>4. ArrayLen' = ArrayLen /\ Body' = Body /\ Request(call)' = Request(call)
    BY <2>1 DEF ArrayLen, Body, Fetched, Request
  <2>5. Reply' = Reply
    BY <2>1, <2>4 DEF Reply
  <2>6. Taken' = Taken
    BY <2>1, <2>5 DEF Taken
  <2>7. Reading' = Reading
    BY <2>1, <2>4 DEF Reading
  <2>8. Answered' = Answered
    BY <2>1, <2>5, <2>6, <2>7 DEF Answered
  <2>9. Requesting' = Requesting
    BY <2>1, <2>4 DEF Requesting
  <2>. QED BY <2>1, <2>2, <2>3, <2>4, <2>8, <2>9 DEF DiskInv, Busy
<1>. QED BY <1>1, <1>2, <1>3, <1>4, <1>5, <1>6, <1>7, <1>8, <1>9, <1>10 DEF Next, Driver, Server

\* However often the disk refuses, and wherever the two sides stand when the
\* driver gives up, nothing of a finished call is left on the serial line
\* (disk.c reads the end of line of every answer).
THEOREM SidesInStep == Spec => []InStep
<1>1. DiskInv => InStep
  BY CallKinds DEF DiskInv, Quiet, Busy, InStep
<1>. QED BY <1>1, DiskInit, DiskStep, PTL DEF Spec

\* The steps that neither serve, refuse nor end a call are no steps of the
\* abstract device.
LEMMA DiskStutters ==
    ASSUME Put \/ GetAck \/ GetSep \/ GetData \/ ReadLine \/ UNCHANGED vars
    PROVE  UNCHANGED B!vars
<1>1. UNCHANGED <<call, buf, ret, image, served, refused>>
  BY DEF Put, GetAck, GetSep, GetData, ReadLine, vars, driver
<1>2. Blocks' = Blocks
  BY <1>1 DEF Blocks, ZeroBlock
<1>. QED BY <1>1, <1>2 DEF B!vars

\* Every step of the driver and the disk is a step of the abstract device.
LEMMA DeviceStep == DiskInv /\ [Next]_vars => [B!Next]_(B!vars)
<1>. SUFFICES ASSUME DiskInv, [Next]_vars PROVE B!Next \/ UNCHANGED B!vars
  OBVIOUS
<1>1. CASE Put \/ GetAck \/ GetSep \/ GetData \/ ReadLine \/ UNCHANGED vars
  BY <1>1, DiskStutters
<1>2. CASE Return
  <2>1. /\ call \in Calls /\ served
        /\ call.op = "rd" => buf' = Blocks[call.a]
        /\ call.op = "num" => ret' = BlockNum
        /\ call.op = "len" => ret' = BlockLen
    BY <1>2, ReturnStep
  <2>2. /\ call' = NoCall /\ UNCHANGED <<image, served, refused>>
        /\ call.op # "rd" => buf' = buf
        /\ call.op \notin {"num", "len"} => ret' = ret
    BY <1>2 DEF Return
  <2>3. Blocks' = Blocks
    BY <2>2 DEF Blocks, ZeroBlock
  <2>4. call # NoCall
    BY <2>1, CallKinds
  <2>5. ret' = CASE call.op = "num" -> BlockNum [] call.op = "len" -> BlockLen [] OTHER -> ret
    BY <2>1, <2>2
  <2>. QED BY <2>1, <2>2, <2>3, <2>4, <2>5 DEF B!Next, B!Return
<1>3. CASE Refused
  <2>1. /\ call \in Calls /\ ~served
        /\ \/ UNCHANGED <<call, ret>>
           \/ /\ refused = RETRY /\ call' = NoCall
              /\ ret' = IF call.op \in {"num", "len"} THEN -1 ELSE ret
    BY <1>3, RefusedStep
  <2>2. UNCHANGED <<buf, image, served, refused>>
    BY <1>3 DEF Refused
  <2>3. Blocks' = Blocks
    BY <2>2 DEF Blocks, ZeroBlock
  <2>4. call # NoCall
    BY <2>1, CallKinds
  <2>. QED BY <2>1, <2>2, <2>3, <2>4 DEF B!Next, B!GiveUp, B!vars
<1>4. CASE AckFail
  <2>1. /\ call \in Calls /\ ~served /\ refused < RETRY
        /\ refused >= MaxRefusals => call.op \in {"rd", "wr"} /\ ~(call.a < BlockNum)
    BY <1>4, FailStep
  <2>2. refused' = refused + 1 /\ UNCHANGED <<call, buf, ret, image, served>>
    BY <1>4 DEF AckFail, driver
  <2>3. Blocks' = Blocks
    BY <2>2 DEF Blocks, ZeroBlock
  <2>4. call # NoCall
    BY <2>1, CallKinds
  <2>5. ~(call.a < BlockNum) => ~B!Exists(call.a)
    BY DataIsSeq DEF B!Exists
  <2>. QED BY <2>1, <2>2, <2>3, <2>4, <2>5 DEF B!Next, B!Refuse
<1>5. CASE AckOkay
  <2>1. /\ call \in Calls /\ ~served
        /\ call.op \in {"rd", "wr"} => call.a < BlockNum
        /\ Blocks' = IF call.op = "wr" THEN [Blocks EXCEPT ![call.a] = call.data] ELSE Blocks
    BY <1>5, OkayStep
  <2>2. served' = TRUE /\ UNCHANGED <<call, buf, ret, refused>>
    BY <1>5 DEF AckOkay, driver
  <2>3. call # NoCall
    BY <2>1, CallKinds
  <2>4. call.op \in {"rd", "wr"} => B!Exists(call.a)
    BY <2>1, CallKinds, DataIsSeq DEF B!Exists
  <2>. QED BY <2>1, <2>2, <2>3, <2>4 DEF B!Next, B!Serve
<1>6. CASE \E c \in Calls : Call(c)
  <2>1. PICK c \in Calls : Call(c)
    BY <1>6
  <2>2. /\ call = NoCall /\ call' = c /\ served' = FALSE /\ refused' = 0
        /\ UNCHANGED <<buf, ret, image>>
    BY <2>1 DEF Call
  <2>3. Blocks' = Blocks
    BY <2>2 DEF Blocks, ZeroBlock
  <2>4. B!Call(c)
    BY <2>2, <2>3 DEF B!Call
  <2>. QED BY <2>4 DEF B!Next
<1>. QED BY <1>1, <1>2, <1>3, <1>4, <1>5, <1>6 DEF Next, Driver, Server

\* The driver, the serial line and the disk implement the abstract block
\* device: a call takes effect once, on the block it names and on no other; a
\* read returns that block; a call that ends without effect has been refused
\* RETRY times (disk_rd, disk_wr, disk_get_block_num, disk_get_block_len).
THEOREM DriverIsBlockDevice == Spec => ImplementsBlockDevice
<1>1. Init => B!Init
  BY DEF Init, B!Init
<1>. QED BY <1>1, DiskInit, DiskStep, DeviceStep, PTL DEF Spec, ImplementsBlockDevice, B!Spec

=============================================================================
