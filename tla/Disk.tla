-------------------------------- MODULE Disk --------------------------------
(***************************************************************************)
(* The disk driver, os/src/device/disk.c, against the disk it talks to     *)
(* over the serial line UART1, test/disk.py.                               *)
(*                                                                         *)
(* A request or an answer is a line of tokens: a byte, which travels as    *)
(* two hexadecimal digits, a separator and an end of line, which are one   *)
(* character each.  PL011_geth takes two characters, so it takes a byte;   *)
(* in front of a lone separator or end of line it waits for more.          *)
(* PL011_getc takes one character.  The transmit FIFO is bounded; what the *)
(* disk sends waits in the socket and the receive FIFO.  The kernel calls  *)
(* the driver with interrupts masked, so one call runs at a time.          *)
(*                                                                         *)
(* All callers transfer whole sectors: n is the block length of the disk.  *)
(* disk.py refuses a request only for its address; MaxRefusals is how      *)
(* often in one call the disk may refuse one that it could serve, the      *)
(* fault RETRY is there for.                                               *)
(***************************************************************************)
EXTENDS Integers, SequencesExt

CONSTANTS
    BlockNum, BlockLen,     \* --block-num, --block-len
    ImageLen,               \* blocks in the image file at first
    Addresses,              \* what callers ask for
    Radix,                  \* values of a byte
    FifoDepth,
    RETRY,
    MaxRefusals

Bytes == 0 .. Radix - 1
Word  == 4                  \* bytes of an address or a count
MaxWord == (Radix * Radix * Radix * Radix) \div 2 - 1     \* disk.py takes words as signed
Data == [1 .. BlockLen -> Bytes]
ZeroBlock == [j \in 1 .. BlockLen |-> 0]

ASSUME DiskAssumption ==
    /\ Radix \in Nat /\ Radix >= 2
    /\ BlockNum \in 1 .. MaxWord /\ BlockLen \in 1 .. MaxWord
    /\ ImageLen \in 0 .. BlockNum
    /\ Addresses \subseteq 0 .. MaxWord
    /\ FifoDepth \in Nat \ {0} /\ RETRY \in Nat \ {0} /\ MaxRefusals \in 0 .. RETRY

VARIABLES
    call,       \* the call of the driver under way
    pc,         \* where it is in one try
    i,          \* tries made
    out,        \* what is left to put of the request
    x, k,       \* the array being read into, and the next index
    buf,        \* the caller's buffer
    ret,        \* the last result of disk_get_block_num, disk_get_block_len
    tx, rx,     \* the serial line, both ways
    line,       \* disk.py: what readline has of a line
    image,      \* disk.py: the image file, in blocks
    served,     \* auxiliary: the disk has carried out the call
    refused     \* auxiliary: how often it has refused it

driver == <<call, pc, i, out, x, k, buf, ret>>
vars == <<driver, tx, rx, line, image, served, refused>>

NoCall == [op |-> "none"]
Calls ==
    {[op |-> o] : o \in {"num", "len"}}
        \cup {[op |-> "rd", a |-> a] : a \in Addresses}
        \cup {[op |-> "wr", a |-> a, data |-> d] : a \in Addresses, d \in Data}

(***************************************************************************)
(* Tokens and their conversions.                                           *)
(***************************************************************************)
Hex(b) == <<"hex", b>>
Sep    == <<"char", " ">>
EOL    == <<"char", "\n">>
IsHex(t) == t[1] = "hex"

Puth(s) == [j \in 1 .. Len(s) |-> Hex(s[j])]
Geth(s) == [j \in 1 .. Len(s) |-> s[j][2]]

\* addr_puth and struct.pack('<l'): the least significant byte goes first; and
\* back, the shifts of disk_get_block_num and struct.unpack.
Pack(n) ==
    LET n1 == n \div Radix
        n2 == n1 \div Radix
        n3 == n2 \div Radix
    IN  <<n % Radix, n1 % Radix, n2 % Radix, n3 % Radix>>
Unpack(s) == s[1] + Radix * (s[2] + Radix * (s[3] + Radix * s[4]))

(***************************************************************************)
(* The driver.  The four functions differ in the request and in what       *)
(* follows an acknowledgement.                                             *)
(***************************************************************************)
Request(c) ==
    CASE c.op \in {"num", "len"} -> <<Hex(0), EOL>>
      [] c.op = "wr" -> <<Hex(1), Sep>> \o Puth(Pack(c.a)) \o <<Sep>>
                            \o Puth(c.data) \o <<EOL>>
      [] c.op = "rd" -> <<Hex(2), Sep>> \o Puth(Pack(c.a)) \o <<EOL>>

Call(c) ==
    /\ call = NoCall
    /\ call' = c
    /\ pc' = "put"
    /\ i' = 0
    /\ out' = Request(c)
    /\ x' = IF c.op \in {"num", "len"} THEN [j \in 1 .. 2 * Word |-> 0] ELSE buf
    /\ k' = 1
    /\ served' = FALSE
    /\ refused' = 0
    /\ UNCHANGED <<buf, ret, tx, rx, line, image>>

\* PL011_putc waits while the FIFO is full.
Put ==
    /\ pc = "put" /\ Len(tx) < FifoDepth
    /\ tx' = Append(tx, Head(out))
    /\ out' = Tail(out)
    /\ pc' = IF Len(out) = 1 THEN "ack" ELSE "put"
    /\ UNCHANGED <<call, i, x, k, buf, ret, rx, line, image, served, refused>>

\* Definitions whose names begin with Bug are faulty variants of the definition
\* they precede; nothing uses them but the project's mutation checks.

\* A separator is expected after every acknowledgement, data or not.
BugAlwaysSeparator(b) == IF b # 0 THEN "failed" ELSE "sep"

\* What is read after the acknowledgement b.
AfterAck(b) == IF b # 0 THEN "failed" ELSE IF call.op = "wr" THEN "done" ELSE "sep"

GetAck ==
    /\ pc = "ack" /\ rx # <<>> /\ IsHex(Head(rx))
    /\ pc' = AfterAck(Head(rx)[2])
    /\ rx' = Tail(rx)
    /\ UNCHANGED <<call, i, out, x, k, buf, ret, tx, line, image, served, refused>>

GetSep ==
    /\ pc = "sep" /\ rx # <<>> /\ ~IsHex(Head(rx))
    /\ pc' = "data"
    /\ rx' = Tail(rx)
    /\ UNCHANGED <<call, i, out, x, k, buf, ret, tx, line, image, served, refused>>

\* data_geth, a byte at a time.
GetData ==
    /\ pc = "data" /\ rx # <<>> /\ IsHex(Head(rx))
    /\ x' = [x EXCEPT ![k] = Head(rx)[2]]
    /\ k' = k + 1
    /\ pc' = IF k = Len(x) THEN "done" ELSE "data"
    /\ rx' = Tail(rx)
    /\ UNCHANGED <<call, i, out, buf, ret, tx, line, image, served, refused>>

\* disk_wr returns as soon as it has the acknowledgement.
BugEolLeft == rx' = IF call.op = "wr" THEN rx ELSE Tail(rx)

ReadEol == rx' = Tail(rx)

\* The end of line of a positive answer is read and the function returns.
Return ==
    /\ pc = "done" /\ rx # <<>> /\ ~IsHex(Head(rx))
    /\ ReadEol
    /\ pc' = "idle"
    /\ call' = NoCall
    /\ buf' = IF call.op = "rd" THEN x ELSE buf
    /\ ret' = CASE call.op = "num" -> Unpack(SubSeq(x, 1, Word))
                [] call.op = "len" -> Unpack(SubSeq(x, Word + 1, 2 * Word))
                [] OTHER -> ret
    /\ UNCHANGED <<i, out, x, k, tx, line, image, served, refused>>

\* The last try is not made.
BugOneTryLess(n) == n < RETRY - 1

TriesLeft(n) == n < RETRY

\* The end of line of a refusal is read; the request is repeated, up to RETRY
\* times in all.
Refused ==
    /\ pc = "failed" /\ rx # <<>> /\ ~IsHex(Head(rx))
    /\ rx' = Tail(rx)
    /\ i' = i + 1
    /\ IF TriesLeft(i + 1)
       THEN pc' = "put" /\ out' = Request(call) /\ UNCHANGED <<call, ret>>
       ELSE /\ pc' = "idle"
            /\ call' = NoCall
            /\ ret' = IF call.op \in {"num", "len"} THEN -1 ELSE ret
            /\ UNCHANGED out
    /\ UNCHANGED <<x, k, buf, tx, line, image, served, refused>>

(***************************************************************************)
(* disk.py.                                                                *)
(***************************************************************************)
HasLine == line # <<>> /\ Last(line) = EOL

\* readline takes what the transmit FIFO holds, up to an end of line.
ReadLine ==
    /\ ~HasLine /\ tx # <<>>
    /\ line' = Append(line, Head(tx))
    /\ tx' = Tail(tx)
    /\ UNCHANGED <<driver, rx, image, served, refused>>

Command == line[1][2]
Address == Unpack(Geth(SubSeq(line, 3, 2 + Word)))
Payload == Geth(SubSeq(line, 4 + Word, Len(line) - 1))

\* Reading past the end of the image returns no bytes, writing there fills
\* the gap with zeroes.
Stored(a, d) ==
    [j \in 1 .. (IF a < Len(image) THEN Len(image) ELSE a + 1) |->
        IF j = a + 1 THEN d ELSE IF j <= Len(image) THEN image[j] ELSE ZeroBlock]
Fetched(a) == IF a < Len(image) THEN image[a + 1] ELSE <<>>

Answer(s) == rx' = rx \o <<Hex(0)>> \o s \o <<EOL>>

AckFail ==
    /\ HasLine
    /\ \/ Command # 0 /\ Address >= BlockNum
       \/ refused < MaxRefusals
    /\ rx' = rx \o <<Hex(1), EOL>>
    /\ line' = <<>>
    /\ refused' = refused + 1
    /\ UNCHANGED <<driver, tx, image, served>>

AckOkay ==
    /\ HasLine
    /\ Command # 0 => Address < BlockNum
    /\ CASE Command = 0 ->
              Answer(<<Sep>> \o Puth(Pack(BlockNum) \o Pack(BlockLen))) /\ UNCHANGED image
         [] Command = 1 -> Answer(<<>>) /\ image' = Stored(Address, Payload)
         [] Command = 2 -> Answer(<<Sep>> \o Puth(Fetched(Address))) /\ UNCHANGED image
    /\ line' = <<>>
    /\ served' = TRUE
    /\ UNCHANGED <<driver, tx, refused>>

Init ==
    /\ call = NoCall /\ pc = "idle" /\ i = 0 /\ out = <<>>
    /\ x = ZeroBlock /\ k = 1 /\ buf = ZeroBlock /\ ret = 0
    /\ tx = <<>> /\ rx = <<>> /\ line = <<>>
    /\ image = [j \in 1 .. ImageLen |-> ZeroBlock]
    /\ served = FALSE /\ refused = 0

Driver == Put \/ GetAck \/ GetSep \/ GetData \/ Return \/ Refused
Server == ReadLine \/ AckFail \/ AckOkay

Next == Driver \/ Server \/ \E c \in Calls : Call(c)

\* The kernel polls the line with interrupts masked, and disk.py serves in
\* an endless loop.
Spec == Init /\ [][Next]_vars /\ WF_vars(Driver) /\ WF_vars(Server)

(***************************************************************************)
(* Properties.                                                             *)
(***************************************************************************)

\* Between calls the two sides are in step: whatever was refused and however
\* often, no character of an old answer is left to be taken for the next one.
InStep == call = NoCall => tx = <<>> /\ rx = <<>> /\ line = <<>>

\* The blocks of the disk: those past the end of the image are zeroes.
Blocks == [a \in 0 .. BlockNum - 1 |-> IF a < Len(image) THEN image[a + 1] ELSE ZeroBlock]

B == INSTANCE BlockDevice WITH Retry <- RETRY, blocks <- Blocks

\* A call has its effect on the block it names and on no other, once; a call
\* that returns without it has been refused RETRY times and has changed
\* nothing (disk_rd, disk_wr).
ImplementsBlockDevice == B!Spec

\* A block that --block-num counts but the image file does not reach.
Missing(a) == a \in Len(image) .. BlockNum - 1

\* Every call of the driver returns, for which the kernel waits with interrupts
\* masked, whatever was refused before; all but a read of a missing block, whose
\* answer is positive and has no data in it.
Returns == call # NoCall /\ ~(call.op = "rd" /\ Missing(call.a)) ~> call = NoCall

\* disk.h: "read  an n-byte block of data x from the disk at block address a",
\* for every address of the disk: such a read ends.  (test/Makefile makes an image
\* of 2048 blocks and starts disk.py with 8192.)
ReadReturns == call.op = "rd" /\ call.a < BlockNum ~> call = NoCall
=============================================================================
