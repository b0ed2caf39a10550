--------------------------------- MODULE Ipc ---------------------------------
(***************************************************************************)
(* Message passing: os/src/kernel/ipc.c.  All messages of the system are   *)
(* in one list.  The three system calls run with interrupts disabled; the  *)
(* processes that make them interleave in any way.  `from' and `to' are    *)
(* what the caller passes, the kernel does not check them.                 *)
(*                                                                         *)
(* sent and got are history: how many messages a sender has addressed to a *)
(* receiver, and the ordinal of the last of them the receiver was given.   *)
(***************************************************************************)
EXTENDS Integers, Sequences, SequencesExt

CONSTANTS
    Procs,      \* the processes that exchange messages
    Content,    \* what a message can say
    NoContent,  \* what an untouched receive buffer holds
    MaxSent,    \* bound: messages from one process to another
    MaxQueued   \* bound: messages in the list

ASSUME NoContentAssumption == NoContent \in Content
ASSUME BoundsAssumption == MaxSent \in Nat /\ MaxQueued \in Nat

Undefined == 1  \* any value but 0 and -1: a function that ends without return

VARIABLES
    messages,   \* the list, oldest first
    buf,        \* per process: what its receive buffer holds
    result,     \* what the last call returned
    sent, got

vars == <<messages, buf, result, sent, got>>

Message == [from : Procs, to : Procs, content : Content, n : 1..MaxSent]

Init ==
    /\ messages = <<>>
    /\ buf = [p \in Procs |-> NoContent]
    /\ result = 0
    /\ sent = [f \in Procs |-> [t \in Procs |-> 0]]
    /\ got = [f \in Procs |-> [t \in Procs |-> 0]]

\* Definitions whose names begin with Bug are faulty variants of the definition
\* they precede; nothing uses them but the project's mutation checks.

\* TAILQ_INSERT_HEAD.
BugInsertHead(m) == <<m>> \o messages

InsertTail(m) == Append(messages, m)

\* ipc_send_message, which ends without a return statement.
Send(from, to, c) ==
    /\ sent[from][to] < MaxSent /\ Len(messages) < MaxQueued
    /\ sent' = [sent EXCEPT ![from][to] = @ + 1]
    /\ messages' = InsertTail([from |-> from, to |-> to, content |-> c,
                               n |-> sent[from][to] + 1])
    /\ result' = Undefined
    /\ UNCHANGED <<buf, got>>

\* The walk looks at the sender only.
BugFirstFrom(from, to) == SelectInSeq(messages, LAMBDA m : m.from = from)

\* The walk ends at the last match instead of the first.
BugLastFor(to) == SelectLastInSeq(messages, LAMBDA m : m.to = to)

\* The TAILQ_FOREACH walks: the position of the first match, 0 if none.
FirstFrom(from, to) == SelectInSeq(messages, LAMBDA m : m.from = from /\ m.to = to)
FirstFor(to) == SelectInSeq(messages, LAMBDA m : m.to = to)

\* Message i is copied to the caller and unlinked.
Take(i, to) ==
    LET m == messages[i] IN
    /\ buf' = [buf EXCEPT ![to] = m.content]
    /\ messages' = RemoveAt(messages, i)
    /\ result' = 0
    /\ got' = [got EXCEPT ![m.from][to] = m.n]
    /\ UNCHANGED sent

NothingToTake == result' = -1 /\ UNCHANGED <<messages, buf, sent, got>>

\* ipc_receive_message_from
ReceiveFrom(from, to) ==
    IF FirstFrom(from, to) # 0 THEN Take(FirstFrom(from, to), to) ELSE NothingToTake

\* ipc_receive_any_message
ReceiveAny(to) ==
    IF FirstFor(to) # 0 THEN Take(FirstFor(to), to) ELSE NothingToTake

Next ==
    \/ \E from, to \in Procs, c \in Content : Send(from, to, c)
    \/ \E from, to \in Procs : ReceiveFrom(from, to)
    \/ \E to \in Procs : ReceiveAny(to)

Spec == Init /\ [][Next]_vars

-----------------------------------------------------------------------------
(* Properties.                                                             *)

\* Where in the list the messages from one process to another are.
Pending(from, to) ==
    {i \in DOMAIN messages : messages[i].from = from /\ messages[i].to = to}

\* Of one sender and receiver: the list holds messages got + 1 to sent, each
\* once and in this order.
Numbered(f, t) ==
    /\ got[f][t] <= sent[f][t]
    /\ {messages[i].n : i \in Pending(f, t)} = (got[f][t] + 1)..sent[f][t]
    /\ \A i, j \in Pending(f, t) : i < j => messages[i].n < messages[j].n

\* Variables have their kinds, and the one list holds, for every sender and
\* receiver, exactly the messages sent and not yet received, in order: whatever
\* mix of receive_from and receive_any by several receivers has unlinked from
\* its middle, none is lost or duplicated.
TypeOK ==
    /\ messages \in Seq(Message)
    /\ buf \in [Procs -> Content]
    /\ result \in {0, -1, Undefined}
    /\ sent \in [Procs -> [Procs -> 0..MaxSent]]
    /\ got \in [Procs -> [Procs -> 0..MaxSent]]
    /\ \A f, t \in Procs : Numbered(f, t)

\* Messages between two processes arrive exactly once and in the order sent,
\* whichever of the two receive calls takes them.
InOrder ==
    [][\A f, t \in Procs : got'[f][t] # got[f][t] => got'[f][t] = got[f][t] + 1]_vars

\* What Mailboxes knows of a message.
Letter(m) == [from |-> m.from, to |-> m.to, content |-> m.content]

\* The messages to one process among the first i of a list, oldest first.
BoxUpTo(list, to) ==
    LET box[i \in 0..Len(list)] ==
          IF i = 0 THEN <<>>
          ELSE IF list[i].to = to THEN Append(box[i - 1], Letter(list[i]))
          ELSE box[i - 1]
    IN  box

Box(list, to) == BoxUpTo(list, to)[Len(list)]

Abstract == INSTANCE Mailboxes WITH mailbox <- [p \in Procs |-> Box(messages, p)]

\* A message taken for one process leaves what waits for the others alone, and
\* each receiver is served oldest first: the shared list implements one
\* mailbox per process.
ImplementsMailboxes == Abstract!Spec
=============================================================================
