------------------------------ MODULE Mailboxes ------------------------------
(***************************************************************************)
(* What message passing promises its users (README, "IPC"; ipc.h): every   *)
(* process has a mailbox of its own.  Sending puts a message at the end of *)
(* the receiver's mailbox and never waits; receiving takes the oldest      *)
(* message, or the oldest one from a given sender, and reports -1 when     *)
(* there is none.  What happens in one mailbox does not show in another.   *)
(***************************************************************************)
EXTENDS Integers, Sequences, SequencesExt

CONSTANTS Procs, Content

VARIABLES
    mailbox,    \* per process: the messages waiting for it, oldest first
    buf         \* per process: the message received last

Message == [from : Procs, to : Procs, content : Content]

\* Where the oldest message of `box' sent by one of `senders' is, 0 if nowhere.
Oldest(box, senders) == SelectInSeq(box, LAMBDA m : m.from \in senders)

Init ==
    /\ mailbox = [p \in Procs |-> <<>>]
    /\ buf \in [Procs -> Content]

Send(from, to, c) ==
    /\ mailbox' = [mailbox EXCEPT ![to] =
                      Append(@, [from |-> from, to |-> to, content |-> c])]
    /\ UNCHANGED buf

Receive(senders, to) ==
    LET i == Oldest(mailbox[to], senders) IN
    /\ i # 0
    /\ buf' = [buf EXCEPT ![to] = mailbox[to][i].content]
    /\ mailbox' = [mailbox EXCEPT ![to] = RemoveAt(@, i)]

Next ==
    \/ \E from, to \in Procs, c \in Content : Send(from, to, c)
    \/ \E from, to \in Procs : Receive({from}, to)
    \/ \E to \in Procs : Receive(Procs, to)

Spec == Init /\ [][Next]_<<mailbox, buf>>
=============================================================================
