---------------------------- MODULE BlockDevice ----------------------------
(***************************************************************************)
(* What the disk driver promises the file system, with no serial line in   *)
(* sight: a call takes effect once, on the block it names, unless the disk *)
(* refuses it Retry times; then nothing has changed, and the caller of     *)
(* disk_rd and disk_wr is not told.  Disk.tla (os/src/device/disk.c)       *)
(* implements this.                                                        *)
(***************************************************************************)
EXTENDS Integers, FiniteSets

CONSTANTS
    BlockNum, BlockLen,     \* the geometry of the disk
    Calls,                  \* what callers ask for
    NoCall,
    Retry,                  \* refusals after which the driver gives up
    MaxRefusals             \* how often a call that could be served is refused

VARIABLES
    call,       \* the call under way
    blocks,     \* the contents of the disk
    buf,        \* the caller's buffer
    ret,        \* the result of the last query
    served,     \* the disk has carried out the call
    refused     \* how often it has refused it

vars == <<call, blocks, buf, ret, served, refused>>

Exists(a) == a \in 0 .. BlockNum - 1

Call(c) ==
    /\ call = NoCall
    /\ call' = c
    /\ served' = FALSE
    /\ refused' = 0
    /\ UNCHANGED <<blocks, buf, ret>>

Serve ==
    /\ call # NoCall /\ ~served
    /\ call.op \in {"rd", "wr"} => Exists(call.a)
    /\ served' = TRUE
    /\ blocks' = IF call.op = "wr" THEN [blocks EXCEPT ![call.a] = call.data] ELSE blocks
    /\ UNCHANGED <<call, buf, ret, refused>>

Refuse ==
    /\ call # NoCall /\ ~served /\ refused < Retry
    /\ refused >= MaxRefusals => call.op \in {"rd", "wr"} /\ ~Exists(call.a)
    /\ refused' = refused + 1
    /\ UNCHANGED <<call, blocks, buf, ret, served>>

Return ==
    /\ call # NoCall /\ served
    /\ call' = NoCall
    /\ buf' = IF call.op = "rd" THEN blocks[call.a] ELSE buf
    /\ ret' = CASE call.op = "num" -> BlockNum
                [] call.op = "len" -> BlockLen
                [] OTHER -> ret
    /\ UNCHANGED <<blocks, served, refused>>

GiveUp ==
    /\ call # NoCall /\ ~served /\ refused = Retry
    /\ call' = NoCall
    /\ ret' = IF call.op \in {"num", "len"} THEN -1 ELSE ret
    /\ UNCHANGED <<blocks, buf, served, refused>>

Next == Serve \/ Refuse \/ Return \/ GiveUp \/ \E c \in Calls : Call(c)

Init == call = NoCall /\ ~served /\ refused = 0

Spec == Init /\ [][Next]_vars
=============================================================================
