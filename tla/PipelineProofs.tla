--------------------------- MODULE PipelineProofs ---------------------------
(***************************************************************************)
(* Proofs about module Pipeline, for any number of stages: no message is   *)
(* lost on its way from the producer to the consumer, and none appears     *)
(* but by a kill.                                                          *)
(***************************************************************************)
EXTENDS Pipeline, IpcProofs, FiniteSetTheorems

PipelineInv ==
    /\ TypeOK
    /\ pc \in [Procs -> {"receive", "holding"}]
    /\ printed \in Seq(Content)
    /\ dead \subseteq Procs
    /\ Conserved

\* The constants: pids are numbers, characters a ring.
LEMMA PipelineConstants ==
    /\ Stages \in Nat /\ Procs = 2..(Stages + 3) /\ IsFiniteSet(Procs)
    /\ Producer \in Procs /\ Producer - 1 \in Procs /\ Producer \notin Relays
    /\ \A p \in Relays : p \in Procs /\ p - 1 \in Procs
    /\ Consumer \in Procs
    /\ First \in Content
    /\ \A c \in Content : NextChar(c) \in Content
<1>1. Stages \in Nat /\ Procs = 2..(Stages + 3)
  BY StagesAssumption
<1>2. IsFiniteSet(Procs)
  BY <1>1, FS_Interval
<1>3. Cardinality(Content) \in Nat
  BY CharAssumption, FS_CardinalityType
<1>4. \A c \in Content : NextChar(c) \in Content
  BY <1>3, CharAssumption DEF NextChar
<1>. QED BY <1>1, <1>2, <1>4, CharAssumption DEF Producer, Relays, Consumer

\* Nobody holds anything at first.
LEMMA PipelineInitInv == PipelineInit => PipelineInv
<1>. SUFFICES ASSUME PipelineInit PROVE PipelineInv
  OBVIOUS
<1>1. TypeOK /\ sent[Producer][Producer - 1] = 0 /\ Len(messages) = 0
  BY InitTypeOK, PipelineConstants DEF PipelineInit, Init
<1>2. Holding = {} /\ Len(printed) = 0 /\ printed \in Seq(Content)
  BY DEF PipelineInit, Holding
<1>3. Cardinality({}) = 0
  BY FS_EmptySet
<1>4. Conserved
  BY <1>1, <1>2, <1>3 DEF Conserved, PipelineInit
<1>. QED BY <1>1, <1>2, <1>4 DEF PipelineInv, PipelineInit

\* The count with one more of something in it.
LEMMA Balance ==
    ASSUME NEW m \in Nat, NEW h \in Nat, NEW n \in Nat, NEW s \in Nat, NEW d \in Nat,
           m + h + n - s \in 0..d
    PROVE  /\ (m + 1) + h + n - (s + 1) \in 0..d
           /\ (m + 1) + (h - 1) + n - s \in 0..d
           /\ (m - 1) + (h + 1) + n - s \in 0..d
           /\ m + (h - 1) + (n + 1) - s \in 0..d
           /\ m + (h + 1) + n - s \in 0..(d + 1)
           /\ m + h + n - s \in 0..(d + 1)
OBVIOUS

\* Each step moves a message from one place to the next.
LEMMA PipelineNextInv ==
    ASSUME PipelineInv, [PipelineNext]_allvars
    PROVE  PipelineInv'
<1>0. /\ TypeOK /\ Len(messages) \in Nat /\ Len(printed) \in Nat
      /\ messages \in Seq(Message) /\ printed \in Seq(Content)
      /\ buf \in [Procs -> Content] /\ pc \in [Procs -> {"receive", "holding"}]
      /\ sent \in [Procs -> [Procs -> 0..MaxSent]]
      /\ Conserved /\ sent[Producer][Producer - 1] \in Nat
      /\ IsFiniteSet(Holding) /\ Cardinality(Holding) \in Nat
      /\ dead \subseteq Procs /\ IsFiniteSet(dead) /\ Cardinality(dead) \in Nat
  <2>1. IsFiniteSet(Holding)
    BY PipelineConstants, FS_Subset DEF Holding
  <2>2. Cardinality(Holding) \in Nat
    BY <2>1, FS_CardinalityType
  <2>3. dead \subseteq Procs /\ IsFiniteSet(dead) /\ Cardinality(dead) \in Nat
    BY PipelineConstants, FS_Subset, FS_CardinalityType DEF PipelineInv
  <2>4. sent \in [Procs -> [Procs -> 0..MaxSent]]
    BY DEF PipelineInv, TypeOK
  <2>5. sent[Producer][Producer - 1] \in Nat
    <3>1. Producer \in Procs /\ Producer - 1 \in Procs
      BY PipelineConstants
    <3>2. sent[Producer][Producer - 1] \in 0..MaxSent
      BY <2>4, <3>1
    <3>. QED BY <3>2, BoundsAssumption
  <2>. QED BY <2>1, <2>2, <2>3, <2>4, <2>5, LenProperties DEF PipelineInv, TypeOK
<1>a. /\ Conserved <=> Len(messages) + Cardinality(Holding) + Len(printed)
                            - sent[Producer][Producer - 1] \in 0..Cardinality(dead)
      /\ Conserved' <=> Len(messages') + Cardinality(Holding') + Len(printed')
                            - sent'[Producer][Producer - 1] \in 0..Cardinality(dead')
  BY DEF Conserved, Producer
<1>b. LET m == Len(messages)
          h == Cardinality(Holding)
          n == Len(printed)
          s == sent[Producer][Producer - 1]
          d == Cardinality(dead)
      IN  /\ (m + 1) + h + n - (s + 1) \in 0..d
          /\ (m + 1) + (h - 1) + n - s \in 0..d
          /\ (m - 1) + (h + 1) + n - s \in 0..d
          /\ m + (h - 1) + (n + 1) - s \in 0..d
          /\ m + (h + 1) + n - s \in 0..(d + 1)
          /\ m + h + n - s \in 0..(d + 1)
  BY <1>0, <1>a, Balance
<1>1. ASSUME NEW f \in Procs, NEW t \in Procs, NEW c \in Content, Send(f, t, c)
      PROVE  /\ TypeOK' /\ Len(messages') = Len(messages) + 1
             /\ sent'[Producer][Producer - 1] =
                  IF f = Producer /\ t = Producer - 1 THEN sent[Producer][Producer - 1] + 1
                  ELSE sent[Producer][Producer - 1]
  <2>1. TypeOK'
    BY <1>0, <1>1, SendStep
  <2>2. Len(messages') = Len(messages) + 1
    BY <1>0, <1>1 DEF Send, InsertTail
  <2>3. sent' = [sent EXCEPT ![f][t] = @ + 1]
    BY <1>1 DEF Send
  <2>. QED BY <1>0, <2>1, <2>2, <2>3, PipelineConstants
<1>2. CASE Produce
  <2>1. Send(Producer, Producer - 1, First) /\ UNCHANGED <<pc, printed, dead>>
    BY <1>2 DEF Produce
  <2>2. /\ TypeOK' /\ Len(messages') = Len(messages) + 1
        /\ sent'[Producer][Producer - 1] = sent[Producer][Producer - 1] + 1
    BY <1>1, <2>1, PipelineConstants
  <2>3. Holding' = Holding
    BY <2>1 DEF Holding
  <2>4. Conserved'
    BY <1>a, <1>b, <2>1, <2>2, <2>3
  <2>. QED BY <1>0, <2>1, <2>2, <2>4 DEF PipelineInv
<1>3. ASSUME NEW p \in Relays \cup {Consumer}, Poll(p)
      PROVE  PipelineInv'
  <2>1. p \in Procs /\ ReceiveAny(p) /\ pc[p] = "receive" /\ printed' = printed /\ dead' = dead
    BY <1>3, PipelineConstants DEF Poll
  <2>2. TypeOK'
    BY <1>0, <2>1, NextTypeOK DEF Next
  <2>3. CASE FirstFor(p) = 0
    <3>1. UNCHANGED <<messages, sent, pc>>
      BY <1>3, <2>1, <2>3 DEF Poll, ReceiveAny, NothingToTake
    <3>2. Holding' = Holding
      BY <3>1 DEF Holding
    <3>. QED BY <1>0, <2>1, <2>2, <3>1, <3>2 DEF PipelineInv, Conserved, Producer
  <2>4. CASE FirstFor(p) # 0
    <3>1. Take(FirstFor(p), p) /\ FirstFor(p) \in 1..Len(messages)
      BY <1>0, <2>1, <2>4, FirstForProperties DEF ReceiveAny
    <3>2. sent' = sent /\ pc' = [pc EXCEPT ![p] = "holding"]
      BY <1>3, <3>1 DEF Take, Poll
    <3>5. messages' = RemoveAt(messages, FirstFor(p))
      BY <3>1 DEF Take
    <3>6. Len(messages') = Len(messages) - 1
      BY <1>0, <3>1, <3>5, RemoveAtProperties
    <3>3. Holding' = Holding \cup {p} /\ p \notin Holding
      BY <1>0, <2>1, <3>2 DEF Holding
    <3>4. Cardinality(Holding') = Cardinality(Holding) + 1
      BY <1>0, <3>3, FS_AddElement
    <3>7. pc' \in [Procs -> {"receive", "holding"}]
      BY <1>0, <3>2
    <3>8. Conserved'
      BY <1>a, <1>b, <2>1, <3>2, <3>4, <3>6
    <3>. QED BY <1>0, <2>1, <2>2, <3>7, <3>8 DEF PipelineInv
  <2>. QED BY <2>3, <2>4
<1>4. ASSUME NEW p \in Relays, Forward(p)
      PROVE  PipelineInv'
  <2>1. /\ p \in Procs /\ p - 1 \in Procs /\ p # Producer /\ pc[p] = "holding"
        /\ Send(p, p - 1, NextChar(buf[p])) /\ NextChar(buf[p]) \in Content
        /\ pc' = [pc EXCEPT ![p] = "receive"] /\ printed' = printed /\ dead' = dead
    BY <1>0, <1>4, PipelineConstants DEF Forward
  <2>2. /\ TypeOK' /\ Len(messages') = Len(messages) + 1
        /\ sent'[Producer][Producer - 1] = sent[Producer][Producer - 1]
    BY <1>1, <2>1, PipelineConstants
  <2>3. Holding' = Holding \ {p} /\ p \in Holding
    BY <1>0, <2>1, PipelineConstants DEF Holding
  <2>4. Cardinality(Holding') = Cardinality(Holding) - 1
    BY <1>0, <2>3, FS_RemoveElement
  <2>5. pc' \in [Procs -> {"receive", "holding"}]
    BY <1>0, <2>1
  <2>6. Conserved'
    BY <1>a, <1>b, <2>1, <2>2, <2>4
  <2>. QED BY <1>0, <2>1, <2>2, <2>5, <2>6 DEF PipelineInv
<1>5. CASE PrintIt
  <2>1. /\ pc[Consumer] = "holding" /\ pc' = [pc EXCEPT ![Consumer] = "receive"]
        /\ printed' = Append(printed, buf[Consumer]) /\ UNCHANGED <<vars, dead>>
    BY <1>5 DEF PrintIt
  <2>2. TypeOK' /\ UNCHANGED <<sent, messages>>
    BY <1>0, <2>1, NextTypeOK DEF vars
  <2>3. Holding' = Holding \ {Consumer} /\ Consumer \in Holding
    BY <1>0, <2>1, PipelineConstants DEF Holding
  <2>4. Cardinality(Holding') = Cardinality(Holding) - 1
    BY <1>0, <2>3, FS_RemoveElement
  <2>5. printed' \in Seq(Content) /\ Len(printed') = Len(printed) + 1
    BY <1>0, <2>1, AppendProperties, PipelineConstants
  <2>6. pc' \in [Procs -> {"receive", "holding"}]
    BY <1>0, <2>1
  <2>7. Conserved'
    BY <1>a, <1>b, <2>1, <2>2, <2>4, <2>5
  <2>. QED BY <1>0, <2>1, <2>2, <2>5, <2>6, <2>7 DEF PipelineInv
<1>6. ASSUME NEW p \in Mortal, Kill(p)
      PROVE  PipelineInv'
  <2>1. UNCHANGED <<vars, printed>> /\ p \notin dead /\ dead' = dead \cup {p} /\ p \in Procs
    BY <1>6, MortalAssumption DEF Kill
  <2>2. TypeOK' /\ UNCHANGED <<sent, messages>>
    BY <1>0, <2>1, NextTypeOK DEF vars
  <2>3. dead' \subseteq Procs /\ Cardinality(dead') = Cardinality(dead) + 1
    BY <1>0, <2>1, FS_AddElement
  <2>4. CASE pc' = pc
    <3>1. Holding' = Holding
      BY <2>4 DEF Holding
    <3>2. Conserved'
      BY <1>a, <1>b, <2>1, <2>2, <2>3, <3>1
    <3>. QED BY <1>0, <2>1, <2>2, <2>3, <2>4, <3>2 DEF PipelineInv
  <2>5. ASSUME NEW q \in Relays \cup {Consumer}, pc[q] = "receive",
               pc' = [pc EXCEPT ![q] = "holding"]
        PROVE  PipelineInv'
    <3>1. q \in Procs
      BY PipelineConstants
    <3>2. Holding' = Holding \cup {q} /\ q \notin Holding
      BY <1>0, <2>5, <3>1 DEF Holding
    <3>3. Cardinality(Holding') = Cardinality(Holding) + 1
      BY <1>0, <3>2, FS_AddElement
    <3>4. pc' \in [Procs -> {"receive", "holding"}]
      BY <1>0, <2>5
    <3>5. Conserved'
      BY <1>a, <1>b, <2>1, <2>2, <2>3, <3>3
    <3>. QED BY <1>0, <2>1, <2>2, <2>3, <3>4, <3>5 DEF PipelineInv
  <2>. QED BY <1>6, <2>4, <2>5 DEF Kill
<1>7. CASE UNCHANGED allvars
  <2>1. TypeOK' /\ UNCHANGED <<sent, messages, pc, printed, dead>>
    BY <1>0, <1>7, NextTypeOK DEF vars, allvars
  <2>2. Holding' = Holding
    BY <2>1 DEF Holding
  <2>. QED BY <1>0, <2>1, <2>2 DEF PipelineInv, Conserved, Producer
<1>. QED BY <1>2, <1>3, <1>4, <1>5, <1>6, <1>7 DEF PipelineNext

\* No message is lost between the producer and the output, and each kill adds at
\* most one that nobody sent, for any number of stages and whoever is killed.
THEOREM MessagesConserved == PipelineSpec => []Conserved
<1>1. PipelineInv /\ [PipelineNext]_allvars => PipelineInv'
  BY PipelineNextInv
<1>2. PipelineInv => Conserved
  BY DEF PipelineInv
<1>. QED BY <1>1, <1>2, PipelineInitInv, PTL DEF PipelineSpec

-----------------------------------------------------------------------------
(* What is printed.                                                        *)

\* The character a message carries when it is addressed to process t, the
\* producer's once for every pipeline it has been through.
CharFor(t) == (First + (Producer - 1 - t)) % Cardinality(Content)

CharsRight ==
    /\ \A i \in 1..Len(messages) :
         messages[i].to \in 2..(Producer - 1) /\ messages[i].content = CharFor(messages[i].to)
    /\ \A p \in Holding : p \in 2..(Producer - 1) /\ buf[p] = CharFor(p)
    /\ \A k \in 1..Len(printed) : printed[k] = CharFor(Consumer)

\* README: the 'A' that was sent "arrives at the consumer as 'C'", the character
\* advanced once per pipeline: nothing else is ever printed, as long
\* as nobody is killed.
PrintedRight ==
    dead = {} => \A k \in DOMAIN printed : printed[k] = (First + Stages) % Cardinality(Content)

\* The remainder of a sum.
LEMMA RemainderOfSum ==
    ASSUME NEW r \in Nat, NEW q \in Nat, NEW N \in Nat \ {0}, r < N
    PROVE  (N * q + r) % N = r
OBVIOUS

\* Adding one before or after taking the remainder.
LEMMA RemainderStep ==
    ASSUME NEW a \in Nat, NEW N \in Nat \ {0}
    PROVE  ((a % N) + 1) % N = (a + 1) % N
<1>. DEFINE q == a \div N
            r == a % N
<1>1. r \in 0..(N - 1) /\ q \in Nat
  OBVIOUS
<1>2. a = N * q + r
  OBVIOUS
<1>. HIDE DEF q, r
<1>3. CASE r + 1 < N
  <2>1. a + 1 = N * q + (r + 1)
    BY <1>1, <1>2
  <2>2. (N * q + (r + 1)) % N = r + 1
    BY <1>1, <1>3, RemainderOfSum
  <2>3. (r + 1) % N = r + 1
    BY <1>1, <1>3
  <2>. QED BY <2>1, <2>2, <2>3 DEF r
<1>4. CASE r + 1 = N
  <2>1. N * (q + 1) = N * q + N
    BY <1>1
  <2>2. a + 1 = N * (q + 1) + 0
    BY <1>1, <1>2, <1>4, <2>1
  <2>3. (N * (q + 1) + 0) % N = 0
    BY <1>1, RemainderOfSum
  <2>4. N % N = 0
    OBVIOUS
  <2>. QED BY <1>4, <2>2, <2>3, <2>4 DEF r
<1>. QED BY <1>1, <1>3, <1>4

\* The producer sends the first character; a pipeline sends the next one.
LEMMA CharProperties ==
    /\ CharFor(Producer - 1) = First
    /\ \A p \in Relays : p \in 3..(Producer - 1) /\ NextChar(CharFor(p)) = CharFor(p - 1)
    /\ CharFor(Consumer) = (First + Stages) % Cardinality(Content)
<1>. DEFINE N == Cardinality(Content)
<1>1. Stages \in Nat /\ Producer = Stages + 3
  BY PipelineConstants DEF Producer
<1>2. N \in Nat \ {0} /\ First \in 0..(N - 1)
  <2>1. N \in Nat
    BY CharAssumption, FS_CardinalityType
  <2>. QED BY <2>1, CharAssumption
<1>. HIDE DEF N
<1>3. CharFor(Producer - 1) = First
  <2>1. First + (Producer - 1 - (Producer - 1)) = First /\ First % N = First
    BY <1>1, <1>2
  <2>. QED BY <2>1 DEF CharFor, N
<1>4. ASSUME NEW p \in Relays
      PROVE  p \in 3..(Producer - 1) /\ NextChar(CharFor(p)) = CharFor(p - 1)
  <2>. DEFINE a == First + (Producer - 1 - p)
  <2>1. /\ p \in 3..(Producer - 1) /\ a \in Nat
        /\ First + (Producer - 1 - (p - 1)) = a + 1
    BY <1>1, <1>2 DEF Relays
  <2>2. ((a % N) + 1) % N = (a + 1) % N
    BY <1>2, <2>1, RemainderStep
  <2>3. CharFor(p) = a % N /\ CharFor(p - 1) = (a + 1) % N
    BY <2>1 DEF CharFor, N
  <2>. QED BY <2>1, <2>2, <2>3 DEF NextChar, N
<1>5. CharFor(Consumer) = (First + Stages) % N
  <2>1. First + (Producer - 1 - Consumer) = First + Stages
    BY <1>1, <1>2 DEF Consumer
  <2>. QED BY <2>1 DEF CharFor, N
<1>. QED BY <1>3, <1>4, <1>5 DEF N

\* Every step keeps the characters right.
LEMMA CharsRightNext ==
    ASSUME PipelineInv, CharsRight, [PipelineNext]_allvars, dead' = {}
    PROVE  CharsRight'
<1>0. /\ Len(messages) \in Nat /\ Len(printed) \in Nat
      /\ messages \in Seq(Message) /\ printed \in Seq(Content)
      /\ buf \in [Procs -> Content] /\ pc \in [Procs -> {"receive", "holding"}]
  BY LenProperties DEF PipelineInv, TypeOK
<1>1. ASSUME NEW f \in Procs, NEW t \in Procs, NEW c \in Content, Send(f, t, c),
             t \in 2..(Producer - 1), c = CharFor(t)
      PROVE  \A i \in 1..Len(messages') :
               messages'[i].to \in 2..(Producer - 1) /\ messages'[i].content = CharFor(messages'[i].to)
  <2>. DEFINE m == [from |-> f, to |-> t, content |-> c, n |-> sent[f][t] + 1]
  <2>1. messages' = Append(messages, m) /\ m.to = t /\ m.content = c
    BY <1>1 DEF Send, InsertTail
  <2>2. m \in Message
    BY <1>1, BoundsAssumption DEF Send, Message, PipelineInv, TypeOK
  <2>. HIDE DEF m
  <2>3. /\ Len(messages') = Len(messages) + 1 /\ messages'[Len(messages) + 1] = m
        /\ \A i \in 1..Len(messages) : messages'[i] = messages[i]
    BY <1>0, <2>1, <2>2, AppendProperties
  <2>. QED BY <1>0, <1>1, <2>1, <2>3 DEF CharsRight
<1>2. CASE Produce
  <2>1. Send(Producer, Producer - 1, First) /\ UNCHANGED <<buf, pc, printed>>
    BY <1>2 DEF Produce, Send
  <2>2. /\ Producer \in Procs /\ Producer - 1 \in Procs /\ Producer - 1 \in 2..(Producer - 1)
        /\ First \in Content /\ First = CharFor(Producer - 1)
    BY PipelineConstants, CharProperties DEF Producer
  <2>3. Holding' = Holding
    BY <2>1 DEF Holding
  <2>. QED BY <1>1, <2>1, <2>2, <2>3 DEF CharsRight, Producer, Consumer, CharFor
<1>3. ASSUME NEW p \in Relays \cup {Consumer}, Poll(p)
      PROVE  CharsRight'
  <2>1. p \in Procs /\ ReceiveAny(p) /\ printed' = printed
    BY <1>3, PipelineConstants DEF Poll
  <2>2. CASE FirstFor(p) = 0
    <3>1. UNCHANGED <<messages, buf, pc>>
      BY <1>3, <2>1, <2>2 DEF Poll, ReceiveAny, NothingToTake
    <3>2. Holding' = Holding
      BY <3>1 DEF Holding
    <3>. QED BY <2>1, <3>1, <3>2 DEF CharsRight, Producer, Consumer, CharFor
  <2>3. CASE FirstFor(p) # 0
    <3>. DEFINE i == FirstFor(p)
    <3>1. Take(i, p) /\ i \in 1..Len(messages) /\ messages[i].to = p
      BY <1>0, <2>1, <2>3, FirstForProperties DEF ReceiveAny
    <3>2. pc' = [pc EXCEPT ![p] = "holding"]
      BY <1>3, <3>1 DEF Take, Poll
    <3>3. messages' = RemoveAt(messages, i) /\ buf' = [buf EXCEPT ![p] = messages[i].content]
      BY <3>1 DEF Take
    <3>. HIDE DEF i
    <3>4. /\ Len(messages') = Len(messages) - 1
          /\ \A k \in 1..(Len(messages) - 1) :
                messages'[k] = IF k < i THEN messages[k] ELSE messages[k + 1]
      BY <1>0, <3>1, <3>3, RemoveAtProperties
    <3>5. Holding' = Holding \cup {p}
      BY <1>0, <2>1, <3>2 DEF Holding
    <3>6. ASSUME NEW k \in 1..Len(messages')
          PROVE  /\ messages'[k].to \in 2..(Producer - 1)
                 /\ messages'[k].content = CharFor(messages'[k].to)
      <4>1. \E l \in 1..Len(messages) : messages'[k] = messages[l]
        BY <1>0, <3>1, <3>4
      <4>. QED BY <4>1 DEF CharsRight
    <3>7. messages[i].content = CharFor(p) /\ p \in 2..(Producer - 1)
      BY <3>1 DEF CharsRight
    <3>8. \A q \in Holding' : q \in 2..(Producer - 1) /\ buf'[q] = CharFor(q)
      <4>1. Holding \subseteq Procs
        BY DEF Holding
      <4>. QED BY <1>0, <2>1, <3>3, <3>5, <3>7, <4>1 DEF CharsRight
    <3>. QED BY <2>1, <3>6, <3>8 DEF CharsRight, Producer, Consumer, CharFor
  <2>. QED BY <2>2, <2>3
<1>4. ASSUME NEW p \in Relays, Forward(p)
      PROVE  CharsRight'
  <2>1. /\ Send(p, p - 1, NextChar(buf[p])) /\ pc[p] = "holding"
        /\ pc' = [pc EXCEPT ![p] = "receive"] /\ UNCHANGED <<buf, printed>>
    BY <1>4 DEF Forward, Send
  <2>2. /\ p \in Procs /\ p - 1 \in Procs /\ p - 1 \in 2..(Producer - 1)
        /\ NextChar(buf[p]) \in Content /\ NextChar(CharFor(p)) = CharFor(p - 1)
    BY <1>0, PipelineConstants, CharProperties DEF Producer
  <2>3. buf[p] = CharFor(p)
    BY <2>1, <2>2 DEF CharsRight, Holding
  <2>4. Holding' \subseteq Holding
    BY <1>0, <2>1 DEF Holding
  <2>5. \A i \in 1..Len(messages') :
           messages'[i].to \in 2..(Producer - 1) /\ messages'[i].content = CharFor(messages'[i].to)
    BY <1>1, <2>1, <2>2, <2>3
  <2>. QED BY <2>1, <2>4, <2>5 DEF CharsRight, Producer, Consumer, CharFor
<1>5. CASE PrintIt
  <2>1. /\ pc[Consumer] = "holding" /\ pc' = [pc EXCEPT ![Consumer] = "receive"]
        /\ printed' = Append(printed, buf[Consumer]) /\ UNCHANGED <<messages, buf>>
    BY <1>5 DEF PrintIt, vars
  <2>2. buf[Consumer] = CharFor(Consumer) /\ buf[Consumer] \in Content
    BY <1>0, <2>1, PipelineConstants DEF CharsRight, Holding
  <2>3. Holding' \subseteq Holding
    BY <1>0, <2>1 DEF Holding
  <2>4. /\ Len(printed') = Len(printed) + 1 /\ printed'[Len(printed) + 1] = CharFor(Consumer)
        /\ \A k \in 1..Len(printed) : printed'[k] = printed[k]
    BY <1>0, <2>1, <2>2, AppendProperties
  <2>5. \A k \in 1..Len(printed') : printed'[k] = CharFor(Consumer)
    BY <1>0, <2>4 DEF CharsRight
  <2>. QED BY <2>1, <2>3, <2>5 DEF CharsRight, Producer, Consumer, CharFor
<1>6. ASSUME UNCHANGED <<vars, pc, printed>>
      PROVE  CharsRight'
  <2>1. Holding' = Holding /\ UNCHANGED <<messages, buf>>
    BY <1>6 DEF Holding, vars
  <2>. QED BY <1>6, <2>1 DEF CharsRight, Producer, Consumer, CharFor
<1>7. ~ \E p \in Mortal : Kill(p)
  BY DEF Kill
<1>. QED BY <1>2, <1>3, <1>4, <1>5, <1>6, <1>7 DEF PipelineNext, allvars

\* Until a process is killed the consumer prints nothing but the producer's
\* character advanced once per stage, for any number of stages and any size of the
\* character set.
THEOREM PrintsRightCharacters == PipelineSpec => []PrintedRight
<1>1. PipelineInit => CharsRight
  <2>. SUFFICES ASSUME PipelineInit PROVE CharsRight
    OBVIOUS
  <2>1. Len(messages) = 0 /\ Len(printed) = 0 /\ Holding = {}
    BY DEF PipelineInit, Init, Holding
  <2>. QED BY <2>1 DEF CharsRight
<1>2. PipelineInv /\ [PipelineNext]_allvars => PipelineInv'
  BY PipelineNextInv
<1>3. PipelineInv /\ (dead = {} => CharsRight) /\ [PipelineNext]_allvars
         => (dead = {} => CharsRight)'
  <2>. SUFFICES ASSUME PipelineInv, dead = {} => CharsRight, [PipelineNext]_allvars, dead' = {}
                PROVE  CharsRight'
    OBVIOUS
  <2>1. dead = {}
    BY DEF PipelineNext, allvars, Produce, Poll, Forward, PrintIt, Kill
  <2>. QED BY <2>1, CharsRightNext
<1>4. PipelineInv /\ (dead = {} => CharsRight) => PrintedRight
  BY CharProperties, LenProperties DEF PipelineInv, CharsRight, PrintedRight
<1>. QED BY <1>1, <1>2, <1>3, <1>4, PipelineInitInv, PTL DEF PipelineSpec
=============================================================================
