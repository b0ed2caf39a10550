------------------------------ MODULE Pipeline ------------------------------
(***************************************************************************)
(* The pipeline demonstration of the README: a producer, a row of pipeline *)
(* processes and a consumer, each started in the background, exchange      *)
(* single-character messages through module Ipc while the scheduler        *)
(* interleaves them (os/src/user/producer.c, pipeline.c, consumer.c).      *)
(*                                                                         *)
(* As in the README the consumer is pid 2, process p sends to process      *)
(* p - 1 and the producer comes last.  Any of them may be killed at any    *)
(* point; its messages then stay where they are.                           *)
(***************************************************************************)
EXTENDS Ipc, FiniteSets

CONSTANTS
    Stages,     \* how many pipeline processes
    First,      \* the character the producer repeats
    Mortal      \* the processes that may be killed

Consumer == 2
Producer == Stages + 3
Relays == 3..(Stages + 2)

ASSUME StagesAssumption == Stages \in Nat /\ Procs = 2..(Stages + 3)
ASSUME CharAssumption ==
    /\ IsFiniteSet(Content)
    /\ First \in Content /\ Content = 0..(Cardinality(Content) - 1)
ASSUME MortalAssumption == Mortal \subseteq Procs

\* char + 1: the characters are 0..255 on this target, here a smaller ring.  The
\* test of the result against -1 that would end a pipeline is never true: an
\* unsigned char is not negative.
NextChar(c) == (c + 1) % Cardinality(Content)

VARIABLES
    pc,         \* per process: waiting for a message, or holding one
    printed,    \* what the consumer has written, in order
    dead        \* the processes killed so far

allvars == <<vars, pc, printed, dead>>

PipelineInit ==
    /\ Init
    /\ pc = [p \in Procs |-> "receive"]
    /\ printed = <<>>
    /\ dead = {}

\* One round of the producer's loop; it never looks at the result.
Produce ==
    /\ Producer \notin dead
    /\ Send(Producer, Producer - 1, First)
    /\ UNCHANGED <<pc, printed, dead>>

\* A poll that does not look at the result of _rmessage.
BugPollIgnoresResult(p) ==
    /\ p \notin dead /\ pc[p] = "receive"
    /\ ReceiveAny(p)
    /\ pc' = [pc EXCEPT ![p] = "holding"]
    /\ UNCHANGED <<printed, dead>>

\* One round of "do { _yield(); result = _rmessage(...) } while (result < 0)".
Poll(p) ==
    /\ p \notin dead /\ pc[p] = "receive"
    /\ ReceiveAny(p)
    /\ pc' = IF result' < 0 THEN pc ELSE [pc EXCEPT ![p] = "holding"]
    /\ UNCHANGED <<printed, dead>>

\* A pipeline that leaves its loop after one message.
BugForwardOnce(p) ==
    /\ p \notin dead /\ pc[p] = "holding"
    /\ Send(p, p - 1, NextChar(buf[p]))
    /\ pc' = [pc EXCEPT ![p] = "done"]
    /\ UNCHANGED <<printed, dead>>

Forward(p) ==
    /\ p \notin dead /\ pc[p] = "holding"
    /\ Send(p, p - 1, NextChar(buf[p]))
    /\ pc' = [pc EXCEPT ![p] = "receive"]
    /\ UNCHANGED <<printed, dead>>

\* The consumer prints; like a pipeline it never finds the -1 it would stop at.
PrintIt ==
    /\ Consumer \notin dead /\ pc[Consumer] = "holding"
    /\ printed' = Append(printed, buf[Consumer])
    /\ pc' = [pc EXCEPT ![Consumer] = "receive"]
    /\ UNCHANGED <<vars, dead>>

\* The kill command, or Ctrl+C.  The call's result, 0, goes to whichever process
\* is scheduled next (kernel.c writes it through ctx after scheduler_kill): one
\* that was preempted as _rmessage returned -1 then takes the old contents of its
\* buffer for a message.
Kill(p) ==
    /\ p \notin dead
    /\ dead' = dead \cup {p}
    /\ \/ pc' = pc
       \/ \E q \in (Relays \cup {Consumer}) \ dead' :
             pc[q] = "receive" /\ pc' = [pc EXCEPT ![q] = "holding"]
    /\ UNCHANGED <<vars, printed>>

PipelineNext ==
    \/ Produce
    \/ \E p \in Relays \cup {Consumer} : Poll(p)
    \/ \E p \in Relays : Forward(p)
    \/ PrintIt
    \/ \E p \in Mortal : Kill(p)

\* All are low-priority processes that never leave the run queue, and a poll
\* yields: the scheduler gives each of them the CPU again and again (LowRuns in
\* module Scheduler).
PipelineSpec ==
    /\ PipelineInit /\ [][PipelineNext]_allvars
    /\ WF_allvars(Produce)
    /\ \A p \in Relays \cup {Consumer} : WF_allvars(Poll(p))
    /\ \A p \in Relays : WF_allvars(Forward(p))
    /\ WF_allvars(PrintIt)

-----------------------------------------------------------------------------
Holding == {p \in Procs : pc[p] = "holding"}

\* A message produced is in the list, held by one process, or printed: never in
\* two of these places and never in none, even when its holder is killed.  Only a
\* kill adds to them, one message that nobody sent, by its misplaced result.
Conserved ==
    Len(messages) + Cardinality(Holding) + Len(printed)
            - sent[Producer][Producer - 1]
        \in 0..Cardinality(dead)

\* Everything produced is printed in the end, and README: 'A' "arrives at the
\* consumer as 'C'": it has been through every pipeline once.  Unless somebody
\* is killed.
Delivered ==
    \A k \in 1..MaxSent :
        sent[Producer][Producer - 1] >= k
            ~> \/ k \in DOMAIN printed /\ printed[k] = (First + Stages) % Cardinality(Content)
               \/ dead # {}
=============================================================================
