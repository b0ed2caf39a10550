------------------------------ MODULE IpcProofs ------------------------------
(***************************************************************************)
(* Proofs about module Ipc, for any number of processes, any contents and  *)
(* any length of the list: the list loses, duplicates and reorders         *)
(* nothing, and it implements one mailbox per process.                     *)
(***************************************************************************)
EXTENDS Ipc, SequenceTheorems, WellFoundedInduction, TLAPS

-----------------------------------------------------------------------------
(* Natural numbers.  The library states induction for a predicate; here it *)
(* is for a set, which a prover can instantiate.                           *)

\* A non-empty set of natural numbers has a least element.
LEMMA LeastNatural ==
    ASSUME NEW I, I \subseteq Nat, I # {}
    PROVE  \E x \in I : \A y \in I : x <= y
<1>1. \E x \in I : \A y \in I : <<y, x>> \notin OpToRel(<, Nat)
  BY WFMin, NatLessThanWellFounded
<1>2. PICK x \in I : \A y \in I : <<y, x>> \notin OpToRel(<, Nat)
  BY <1>1
<1>3. \A y \in I : ~(y < x)
  BY <1>2 DEF OpToRel
<1>. QED BY <1>3

\* Induction over a set of natural numbers.
LEMMA SetInduction ==
    ASSUME NEW I, 0 \in I, \A n \in Nat : n \in I => n + 1 \in I
    PROVE  Nat \subseteq I
<1>. SUFFICES ASSUME Nat \ I # {} PROVE FALSE
  OBVIOUS
<1>1. PICK x \in Nat \ I : \A y \in Nat \ I : x <= y
  BY LeastNatural
<1>2. x # 0 /\ x - 1 \in Nat
  BY <1>1
<1>. QED BY <1>1, <1>2

\* The Min of the community modules is the least element.
LEMMA MinProperties ==
    ASSUME NEW I, I \subseteq Nat, I # {}
    PROVE  Min(I) \in I /\ \A y \in I : Min(I) <= y
BY LeastNatural DEF Min

-----------------------------------------------------------------------------
(* The list.                                                               *)

\* Unlinking entry i of a list.
LEMMA RemoveAtProperties ==
    ASSUME NEW S, NEW s \in Seq(S), NEW i \in 1..Len(s)
    PROVE  /\ RemoveAt(s, i) \in Seq(S)
           /\ Len(RemoveAt(s, i)) = Len(s) - 1
           /\ \A j \in 1..(Len(s) - 1) : RemoveAt(s, i)[j] = IF j < i THEN s[j] ELSE s[j + 1]
<1>. DEFINE a == SubSeq(s, 1, i - 1)
            b == SubSeq(s, i + 1, Len(s))
<1>1. \A j \in 1..Len(s) : s[j] \in S
  BY ElementOfSeq
<1>2. /\ a \in Seq(S) /\ Len(a) = i - 1
      /\ \A j \in 1..(i - 1) : a[j] = s[j]
  BY <1>1, SubSeqProperties
<1>3. /\ b \in Seq(S) /\ Len(b) = Len(s) - i
      /\ \A j \in 1..(Len(s) - i) : b[j] = s[i + j]
  BY <1>1, SubSeqProperties
<1>4. /\ a \o b \in Seq(S)
      /\ Len(a \o b) = Len(a) + Len(b)
      /\ \A j \in 1..(Len(a) + Len(b)) :
            (a \o b)[j] = IF j <= Len(a) THEN a[j] ELSE b[j - Len(a)]
  BY <1>2, <1>3, ConcatProperties
<1>5. RemoveAt(s, i) = a \o b
  BY DEF RemoveAt
<1>. HIDE DEF a, b
<1>6. Len(s) \in Nat /\ i \in Nat /\ Len(a) + Len(b) = Len(s) - 1
  BY <1>2, <1>3, LenProperties
<1>7. ASSUME NEW j \in 1..(Len(s) - 1)
      PROVE  (a \o b)[j] = IF j < i THEN s[j] ELSE s[j + 1]
  <2>1. CASE j < i
    BY <1>2, <1>4, <1>6, <2>1
  <2>2. CASE ~(j < i)
    <3>1. /\ j - Len(a) \in 1..(Len(s) - i) /\ i + (j - Len(a)) = j + 1
          /\ ~(j <= Len(a)) /\ j \in 1..(Len(a) + Len(b))
      BY <1>2, <1>6, <2>2
    <3>. QED BY <1>3, <1>4, <2>2, <3>1
  <2>. QED BY <2>1, <2>2
<1>. QED BY <1>4, <1>5, <1>6, <1>7

\* The walk of ipc_receive_message_from stops at the first match.
LEMMA FirstFromProperties ==
    ASSUME messages \in Seq(Message), NEW f, NEW t, FirstFrom(f, t) # 0
    PROVE  LET i == FirstFrom(f, t) IN
           /\ i \in 1..Len(messages) /\ messages[i].from = f /\ messages[i].to = t
           /\ \A j \in 1..(i - 1) : ~(messages[j].from = f /\ messages[j].to = t)
<1>. DEFINE I == {j \in 1..Len(messages) : messages[j].from = f /\ messages[j].to = t}
<1>1. I # {} /\ FirstFrom(f, t) = Min(I)
  BY DEF FirstFrom, SelectInSeq
<1>2. /\ I \subseteq Nat /\ I \subseteq 1..Len(messages)
      /\ \A j \in 1..Len(messages) : j \in I <=> messages[j].from = f /\ messages[j].to = t
  OBVIOUS
<1>. HIDE DEF I
<1>3. Min(I) \in I /\ \A j \in I : Min(I) <= j
  BY <1>1, <1>2, MinProperties
<1>4. Min(I) \in 1..Len(messages) /\ Len(messages) \in Nat
  BY <1>2, <1>3, LenProperties
<1>5. ASSUME NEW j \in 1..(Min(I) - 1)
      PROVE  ~(messages[j].from = f /\ messages[j].to = t)
  <2>1. j \in 1..Len(messages) /\ ~(Min(I) <= j)
    BY <1>4
  <2>. QED BY <1>2, <1>3, <2>1
<1>. QED BY <1>1, <1>2, <1>3, <1>4, <1>5

\* The walk of ipc_receive_any_message stops at the first match.
LEMMA FirstForProperties ==
    ASSUME messages \in Seq(Message), NEW t, FirstFor(t) # 0
    PROVE  LET i == FirstFor(t) IN
           /\ i \in 1..Len(messages) /\ messages[i].to = t
           /\ \A j \in 1..(i - 1) : messages[j].to # t
<1>. DEFINE I == {j \in 1..Len(messages) : messages[j].to = t}
<1>1. I # {} /\ FirstFor(t) = Min(I)
  BY DEF FirstFor, SelectInSeq
<1>2. /\ I \subseteq Nat /\ I \subseteq 1..Len(messages)
      /\ \A j \in 1..Len(messages) : j \in I <=> messages[j].to = t
  OBVIOUS
<1>. HIDE DEF I
<1>3. Min(I) \in I /\ \A j \in I : Min(I) <= j
  BY <1>1, <1>2, MinProperties
<1>4. Min(I) \in 1..Len(messages) /\ Len(messages) \in Nat
  BY <1>2, <1>3, LenProperties
<1>5. ASSUME NEW j \in 1..(Min(I) - 1)
      PROVE  messages[j].to # t
  <2>1. j \in 1..Len(messages) /\ ~(Min(I) <= j)
    BY <1>4
  <2>. QED BY <1>2, <1>3, <2>1
<1>. QED BY <1>1, <1>2, <1>3, <1>4, <1>5

-----------------------------------------------------------------------------
(* Nothing is lost, duplicated or overtaken.                               *)

\* ipc_send_message appends the message with the next number.
LEMMA SendStep ==
    ASSUME TypeOK, NEW f \in Procs, NEW t \in Procs, NEW c \in Content, Send(f, t, c)
    PROVE  TypeOK' /\ got' = got
<1>. DEFINE m == [from |-> f, to |-> t, content |-> c, n |-> sent[f][t] + 1]
<1>1. /\ sent[f][t] \in 0..MaxSent /\ sent[f][t] < MaxSent /\ MaxSent \in Nat
      /\ sent' = [sent EXCEPT ![f][t] = @ + 1] /\ messages' = Append(messages, m)
      /\ result' = Undefined /\ buf' = buf /\ got' = got
  BY BoundsAssumption DEF Send, TypeOK, InsertTail
<1>2. m \in Message /\ m.from = f /\ m.to = t /\ m.n = sent[f][t] + 1
  BY <1>1 DEF Message
<1>. HIDE DEF m
<1>3. /\ messages' \in Seq(Message) /\ Len(messages') = Len(messages) + 1
      /\ Len(messages) \in Nat
      /\ \A i \in 1..Len(messages) : messages'[i] = messages[i]
      /\ messages'[Len(messages) + 1] = m
      /\ DOMAIN messages = 1..Len(messages) /\ DOMAIN messages' = 1..(Len(messages) + 1)
  BY <1>1, <1>2, AppendProperties, LenProperties DEF TypeOK
<1>4. ASSUME NEW a \in Procs, NEW b \in Procs
      PROVE  Numbered(a, b)'
  <2>1. Numbered(a, b) /\ got[a][b] \in Nat /\ sent[a][b] \in Nat
    BY BoundsAssumption DEF TypeOK
  <2>2. CASE a = f /\ b = t
    <3>1. Pending(a, b)' = Pending(a, b) \cup {Len(messages) + 1}
      BY <1>2, <1>3, <2>2 DEF Pending
    <3>2. sent'[a][b] = sent[a][b] + 1 /\ got'[a][b] = got[a][b]
      BY <1>1, <2>2 DEF TypeOK
    <3>3. /\ \A i \in Pending(a, b) : i \in 1..Len(messages) /\ messages'[i].n = messages[i].n
          /\ messages'[Len(messages) + 1].n = sent[a][b] + 1
      BY <1>2, <1>3, <2>2 DEF Pending
    <3>4. \A i \in Pending(a, b) : messages[i].n \in (got[a][b] + 1)..sent[a][b]
      BY <2>1 DEF Numbered
    <3>5. {messages'[i].n : i \in Pending(a, b)'} = ((got[a][b] + 1)..sent[a][b]) \cup {sent[a][b] + 1}
      BY <2>1, <3>1, <3>3 DEF Numbered
    <3>6. {messages'[i].n : i \in Pending(a, b)'} = (got'[a][b] + 1)..sent'[a][b]
      BY <2>1, <3>2, <3>5 DEF Numbered
    <3>7. ASSUME NEW i \in Pending(a, b)', NEW j \in Pending(a, b)', i < j
          PROVE  messages'[i].n < messages'[j].n
      BY <1>3, <2>1, <3>1, <3>3, <3>4, <3>7 DEF Numbered
    <3>. QED BY <2>1, <3>2, <3>6, <3>7 DEF Numbered
  <2>3. CASE ~(a = f /\ b = t)
    <3>1. Pending(a, b)' = Pending(a, b)
      BY <1>2, <1>3, <2>3 DEF Pending
    <3>2. sent'[a][b] = sent[a][b] /\ got'[a][b] = got[a][b]
      BY <1>1, <2>3 DEF TypeOK
    <3>3. \A i \in Pending(a, b) : messages'[i].n = messages[i].n
      BY <1>3 DEF Pending
    <3>. QED BY <2>1, <3>1, <3>2, <3>3 DEF Numbered
  <2>. QED BY <2>2, <2>3
<1>5. sent' \in [Procs -> [Procs -> 0..MaxSent]]
  BY <1>1 DEF TypeOK
<1>. QED BY <1>1, <1>3, <1>4, <1>5 DEF TypeOK, Undefined

\* Taking entry i, the first from its sender to its receiver, out of the list.
LEMMA TakeStep ==
    ASSUME TypeOK, NEW t \in Procs, NEW i \in 1..Len(messages), messages[i].to = t,
           \A j \in 1..(i - 1) : ~(messages[j].from = messages[i].from /\ messages[j].to = t),
           Take(i, t)
    PROVE  /\ TypeOK'
           /\ \A a, b \in Procs : got'[a][b] # got[a][b] => got'[a][b] = got[a][b] + 1
<1>. DEFINE m == messages[i]
            f == m.from
            Old(k) == IF k < i THEN k ELSE k + 1
<1>1. m \in Message /\ f \in Procs /\ m.n \in 1..MaxSent /\ m.content \in Content
  <2>1. m \in Message
    BY ElementOfSeq DEF TypeOK
  <2>. QED BY <2>1 DEF Message
<1>2. /\ messages' = RemoveAt(messages, i) /\ sent' = sent /\ result' = 0
      /\ got' = [got EXCEPT ![f][t] = m.n] /\ buf' = [buf EXCEPT ![t] = m.content]
  BY DEF Take
<1>3. /\ messages' \in Seq(Message) /\ Len(messages') = Len(messages) - 1
      /\ Len(messages) \in Nat
      /\ DOMAIN messages = 1..Len(messages) /\ DOMAIN messages' = 1..(Len(messages) - 1)
      /\ \A k \in 1..(Len(messages) - 1) : messages'[k] = messages[Old(k)]
  <2>1. messages \in Seq(Message) /\ Len(messages) \in Nat /\ DOMAIN messages = 1..Len(messages)
    BY LenProperties DEF TypeOK
  <2>2. /\ messages' \in Seq(Message) /\ Len(messages') = Len(messages) - 1
        /\ \A k \in 1..(Len(messages) - 1) :
              messages'[k] = IF k < i THEN messages[k] ELSE messages[k + 1]
    BY <1>2, <2>1, RemoveAtProperties
  <2>3. DOMAIN messages' = 1..Len(messages')
    BY <2>2, LenProperties
  <2>. QED BY <2>1, <2>2, <2>3
<1>4. /\ \A k \in DOMAIN messages' : Old(k) \in DOMAIN messages /\ Old(k) # i
      /\ \A k, l \in DOMAIN messages' : k < l => Old(k) < Old(l)
      /\ \A j \in DOMAIN messages : j # i => \E k \in DOMAIN messages' : Old(k) = j
  <2>1. ASSUME NEW j \in DOMAIN messages, j # i
        PROVE  \E k \in DOMAIN messages' : Old(k) = j
    <3>1. CASE j < i
      BY <1>3, <2>1, <3>1
    <3>2. CASE j > i
      <4>1. j - 1 \in DOMAIN messages' /\ Old(j - 1) = j
        BY <1>3, <3>2
      <4>. QED BY <4>1
    <3>. QED BY <1>3, <2>1, <3>1, <3>2
  <2>. QED BY <1>3, <2>1
<1>5. /\ Numbered(f, t) /\ got[f][t] \in Nat /\ sent[f][t] \in Nat
      /\ i \in Pending(f, t) /\ \A j \in Pending(f, t) : i <= j
  BY <1>1, <1>3, BoundsAssumption DEF TypeOK, Pending
<1>6. m.n = got[f][t] + 1
  <2>1. m.n \in (got[f][t] + 1)..sent[f][t]
    BY <1>5 DEF Numbered
  <2>2. got[f][t] + 1 \in (got[f][t] + 1)..sent[f][t]
    BY <1>5, <2>1
  <2>3. PICK j \in Pending(f, t) : messages[j].n = got[f][t] + 1
    BY <1>5, <2>2 DEF Numbered
  <2>4. i < j \/ i = j
    BY <1>3, <1>5 DEF Pending
  <2>5. i < j => m.n < messages[j].n
    BY <1>5 DEF Numbered
  <2>. QED BY <1>5, <2>1, <2>3, <2>4, <2>5
<1>. HIDE DEF Old
<1>7. ASSUME NEW a \in Procs, NEW b \in Procs
      PROVE  Numbered(a, b)'
  <2>1. Numbered(a, b) /\ got[a][b] \in Nat /\ sent[a][b] \in Nat
    BY BoundsAssumption DEF TypeOK
  <2>2. /\ \A k \in Pending(a, b)' : Old(k) \in Pending(a, b) \ {i}
                                     /\ messages'[k].n = messages[Old(k)].n
        /\ \A j \in Pending(a, b) \ {i} : \E k \in Pending(a, b)' : Old(k) = j
    BY <1>3, <1>4 DEF Pending
  <2>3. {messages'[k].n : k \in Pending(a, b)'} = {messages[j].n : j \in Pending(a, b) \ {i}}
    BY <2>2
  <2>4. ASSUME NEW k \in Pending(a, b)', NEW l \in Pending(a, b)', k < l
        PROVE  messages'[k].n < messages'[l].n
    <3>1. Old(k) < Old(l)
      BY <1>4, <2>4 DEF Pending
    <3>. QED BY <2>1, <2>2, <3>1 DEF Numbered
  <2>5. CASE a = f /\ b = t
    <3>1. got'[a][b] = got[a][b] + 1 /\ sent'[a][b] = sent[a][b]
      BY <1>1, <1>2, <1>6, <2>5 DEF TypeOK
    <3>2. \A j \in Pending(a, b) \ {i} : messages[j].n # m.n
      <4>. SUFFICES ASSUME NEW j \in Pending(a, b) \ {i} PROVE messages[j].n > m.n
        BY <1>1, <2>1 DEF Numbered
      <4>1. i < j
        BY <1>3, <1>5, <2>5 DEF Pending
      <4>2. i \in Pending(a, b)
        BY <1>5, <2>5
      <4>3. messages[j].n \in (got[a][b] + 1)..sent[a][b]
        BY <2>1 DEF Numbered
      <4>. QED BY <1>1, <2>1, <4>1, <4>2, <4>3 DEF Numbered
    <3>3. {messages[j].n : j \in Pending(a, b) \ {i}} = ((got[a][b] + 1)..sent[a][b]) \ {m.n}
      BY <2>1, <3>2 DEF Numbered
    <3>4. m.n \in (got[a][b] + 1)..sent[a][b] /\ m.n = got[a][b] + 1
      BY <1>5, <1>6, <2>1, <2>5 DEF Numbered
    <3>5. got'[a][b] <= sent'[a][b]
      BY <2>1, <3>1, <3>4
    <3>6. {messages'[k].n : k \in Pending(a, b)'} = (got'[a][b] + 1)..sent'[a][b]
      <4>1. ((got[a][b] + 1)..sent[a][b]) \ {got[a][b] + 1} = (got[a][b] + 2)..sent[a][b]
        BY <2>1
      <4>2. (got[a][b] + 1) + 1 = got[a][b] + 2
        BY <2>1
      <4>. QED BY <2>3, <3>1, <3>3, <3>4, <4>1, <4>2
    <3>. QED BY <2>4, <3>5, <3>6 DEF Numbered
  <2>6. CASE ~(a = f /\ b = t)
    <3>1. got'[a][b] = got[a][b] /\ sent'[a][b] = sent[a][b]
      BY <1>1, <1>2, <2>6 DEF TypeOK
    <3>2. i \notin Pending(a, b)
      BY <2>6 DEF Pending
    <3>3. Pending(a, b) \ {i} = Pending(a, b)
      BY <3>2
    <3>. QED BY <2>1, <2>3, <2>4, <3>1, <3>3 DEF Numbered
  <2>. QED BY <2>5, <2>6
<1>. HIDE DEF m, f
<1>8. /\ got' \in [Procs -> [Procs -> 0..MaxSent]] /\ buf' \in [Procs -> Content]
      /\ \A a, b \in Procs : got'[a][b] # got[a][b] => got'[a][b] = got[a][b] + 1
  BY <1>1, <1>2, <1>6, BoundsAssumption DEF TypeOK
<1>. QED BY <1>2, <1>3, <1>7, <1>8 DEF TypeOK

\* The list starts empty.
LEMMA InitTypeOK == Init => TypeOK
<1>. SUFFICES ASSUME Init PROVE TypeOK
  OBVIOUS
<1>1. messages \in Seq(Message) /\ DOMAIN messages = {}
  BY EmptySeq DEF Init
<1>2. ASSUME NEW f \in Procs, NEW t \in Procs PROVE Numbered(f, t)
  <2>1. Pending(f, t) = {} /\ got[f][t] = 0 /\ sent[f][t] = 0
    BY <1>1 DEF Pending, Init
  <2>. QED BY <2>1 DEF Numbered
<1>. QED BY <1>1, <1>2, NoContentAssumption, BoundsAssumption DEF Init, TypeOK

\* Each of the three system calls preserves the invariant and takes, if any,
\* the next message of its sender.
LEMMA NextTypeOK ==
    ASSUME TypeOK, [Next]_vars
    PROVE  /\ TypeOK'
           /\ \A f, t \in Procs : got'[f][t] # got[f][t] => got'[f][t] = got[f][t] + 1
<1>. DEFINE Goal == /\ TypeOK'
                    /\ \A f, t \in Procs : got'[f][t] # got[f][t] => got'[f][t] = got[f][t] + 1
<1>0. messages \in Seq(Message)
  BY DEF TypeOK
<1>1. ASSUME NEW f \in Procs, NEW t \in Procs, NEW c \in Content, Send(f, t, c)
      PROVE  Goal
  BY <1>1, SendStep
<1>2. ASSUME UNCHANGED <<messages, buf, sent, got>>, result' \in {0, -1, Undefined}
      PROVE  Goal
  BY <1>2 DEF TypeOK, Numbered, Pending
<1>3. ASSUME NEW f \in Procs, NEW t \in Procs, ReceiveFrom(f, t)
      PROVE  Goal
  <2>1. CASE FirstFrom(f, t) = 0
    BY <1>2, <1>3, <2>1 DEF ReceiveFrom, NothingToTake
  <2>2. CASE FirstFrom(f, t) # 0
    BY <1>0, <1>3, <2>2, FirstFromProperties, TakeStep DEF ReceiveFrom
  <2>. QED BY <2>1, <2>2
<1>4. ASSUME NEW t \in Procs, ReceiveAny(t)
      PROVE  Goal
  <2>1. CASE FirstFor(t) = 0
    BY <1>2, <1>4, <2>1 DEF ReceiveAny, NothingToTake
  <2>2. CASE FirstFor(t) # 0
    BY <1>0, <1>4, <2>2, FirstForProperties, TakeStep DEF ReceiveAny
  <2>. QED BY <2>1, <2>2
<1>5. CASE UNCHANGED vars
  BY <1>2, <1>5 DEF vars, TypeOK
<1>. QED BY <1>1, <1>3, <1>4, <1>5 DEF Next

\* Whatever the processes do, the list holds exactly the messages sent and not
\* yet received, each once and in the order sent.
THEOREM NothingLost == Spec => []TypeOK
<1>1. TypeOK /\ [Next]_vars => TypeOK'
  BY NextTypeOK
<1>. QED BY <1>1, InitTypeOK, PTL DEF Spec

\* Messages between two processes arrive exactly once and in the order sent,
\* for any number of processes and whichever receive call takes them.
THEOREM ArriveInOrder == Spec => InOrder
<1>1. TypeOK /\ [Next]_vars =>
        [\A f, t \in Procs : got'[f][t] # got[f][t] => got'[f][t] = got[f][t] + 1]_vars
  BY NextTypeOK
<1>. QED BY <1>1, NothingLost, PTL DEF Spec, InOrder

-----------------------------------------------------------------------------
(* The mailbox of a process, as a function of the list.                    *)

Step(s, t, q, i) == IF s[i].to = t THEN Append(q, Letter(s[i])) ELSE q

IsBox(g, s, t, n) == g = [i \in 0..n |-> IF i = 0 THEN <<>> ELSE Step(s, t, g[i - 1], i)]

\* The recursion of BoxUpTo has a solution on every prefix.
LEMMA BoxExists ==
    ASSUME NEW s, NEW t, NEW n \in Nat
    PROVE  \E g : IsBox(g, s, t, n)
<1>. DEFINE I == {k \in Nat : \E g : IsBox(g, s, t, k)}
<1>1. 0 \in I
  <2>1. IsBox([i \in 0..0 |-> <<>>], s, t, 0)
    BY DEF IsBox
  <2>. QED BY <2>1
<1>2. ASSUME NEW k \in Nat, k \in I
      PROVE  k + 1 \in I
  <2>1. PICK g : IsBox(g, s, t, k)
    BY <1>2
  <2>. DEFINE h == [i \in 0..(k + 1) |-> IF i <= k THEN g[i] ELSE Step(s, t, g[k], k + 1)]
  <2>2. IsBox(h, s, t, k + 1)
    <3>1. \A i \in 0..k : g[i] = IF i = 0 THEN <<>> ELSE Step(s, t, g[i - 1], i)
      BY <2>1 DEF IsBox
    <3>2. ASSUME NEW i \in 0..(k + 1)
          PROVE  h[i] = IF i = 0 THEN <<>> ELSE Step(s, t, h[i - 1], i)
      <4>1. CASE i = k + 1
        <5>1. h[i] = Step(s, t, g[k], k + 1) /\ h[i - 1] = g[k] /\ i # 0
          BY <4>1
        <5>. QED BY <4>1, <5>1
      <4>2. CASE i \in 0..k
        <5>1. h[i] = g[i] /\ (i # 0 => h[i - 1] = g[i - 1])
          BY <4>2
        <5>. QED BY <3>1, <4>2, <5>1
      <4>. QED BY <4>1, <4>2
    <3>. QED BY <3>2 DEF IsBox
  <2>. QED BY <2>2
<1>. HIDE DEF I
<1>3. Nat \subseteq I
  BY <1>1, <1>2, SetInduction
<1>. QED BY <1>3 DEF I

\* So BoxUpTo satisfies its recursion.
LEMMA BoxRecursion ==
    ASSUME NEW s \in Seq(Message), NEW t
    PROVE  IsBox(BoxUpTo(s, t), s, t, Len(s))
<1>1. \E g : IsBox(g, s, t, Len(s))
  BY BoxExists, LenProperties
<1>2. BoxUpTo(s, t) = CHOOSE g : IsBox(g, s, t, Len(s))
  BY DEF BoxUpTo, IsBox, Step
<1>. QED BY <1>1, <1>2

\* The recursion, position by position.
LEMMA BoxSteps ==
    ASSUME NEW s \in Seq(Message), NEW t
    PROVE  /\ BoxUpTo(s, t)[0] = <<>>
           /\ \A i \in 1..Len(s) : BoxUpTo(s, t)[i] = Step(s, t, BoxUpTo(s, t)[i - 1], i)
BY BoxRecursion, LenProperties DEF IsBox

LetterType == [from : Procs, to : Procs, content : Content]

\* A mailbox is a sequence of letters.
LEMMA BoxType ==
    ASSUME NEW s \in Seq(Message), NEW t, NEW i \in 0..Len(s)
    PROVE  BoxUpTo(s, t)[i] \in Seq(LetterType)
<1>. DEFINE B == BoxUpTo(s, t)
            I == {k \in Nat : k <= Len(s) => B[k] \in Seq(LetterType)}
<1>0. Len(s) \in Nat
  BY LenProperties
<1>1. 0 \in I
  BY BoxSteps, EmptySeq
<1>2. ASSUME NEW k \in Nat, k \in I
      PROVE  k + 1 \in I
  <2>. SUFFICES ASSUME k + 1 <= Len(s) PROVE B[k + 1] \in Seq(LetterType)
    OBVIOUS
  <2>1. B[k] \in Seq(LetterType) /\ k + 1 \in 1..Len(s) /\ (k + 1) - 1 = k
    BY <1>0, <1>2
  <2>2. s[k + 1] \in Message
    BY <2>1, ElementOfSeq
  <2>3. Letter(s[k + 1]) \in LetterType
    BY <2>2 DEF Letter, LetterType, Message
  <2>4. B[k + 1] = Step(s, t, B[k], k + 1)
    BY <2>1, BoxSteps
  <2>. QED BY <2>1, <2>3, <2>4, AppendProperties DEF Step
<1>. HIDE DEF I
<1>3. Nat \subseteq I
  BY <1>1, <1>2, SetInduction
<1>. QED BY <1>0, <1>3 DEF I

\* It depends on nothing behind position n.
LEMMA BoxPrefix ==
    ASSUME NEW s \in Seq(Message), NEW u \in Seq(Message), NEW t,
           NEW n \in 0..Len(s), n <= Len(u), \A i \in 1..n : s[i] = u[i]
    PROVE  BoxUpTo(s, t)[n] = BoxUpTo(u, t)[n]
<1>. DEFINE B == BoxUpTo(s, t)
            C == BoxUpTo(u, t)
            I == {k \in Nat : k <= n => B[k] = C[k]}
<1>0. Len(s) \in Nat /\ Len(u) \in Nat
  BY LenProperties
<1>1. 0 \in I
  BY BoxSteps
<1>2. ASSUME NEW k \in Nat, k \in I
      PROVE  k + 1 \in I
  <2>. SUFFICES ASSUME k + 1 <= n PROVE B[k + 1] = C[k + 1]
    OBVIOUS
  <2>1. /\ B[k] = C[k] /\ k + 1 \in 1..n /\ k + 1 \in 1..Len(s) /\ k + 1 \in 1..Len(u)
        /\ (k + 1) - 1 = k
    BY <1>0, <1>2
  <2>2. B[k + 1] = Step(s, t, B[k], k + 1) /\ C[k + 1] = Step(u, t, C[k], k + 1)
    BY <2>1, BoxSteps
  <2>. QED BY <2>1, <2>2 DEF Step
<1>. HIDE DEF I
<1>3. Nat \subseteq I
  BY <1>1, <1>2, SetInduction
<1>. QED BY <1>0, <1>3 DEF I

\* Later messages are put behind earlier ones.
LEMMA BoxGrows ==
    ASSUME NEW s \in Seq(Message), NEW t, NEW n \in 0..Len(s), NEW i \in 0..n
    PROVE  LET B == BoxUpTo(s, t) IN
           Len(B[i]) <= Len(B[n]) /\ \A l \in 1..Len(B[i]) : B[n][l] = B[i][l]
<1>. DEFINE B == BoxUpTo(s, t)
            P(k) == Len(B[i]) <= Len(B[k]) /\ \A l \in 1..Len(B[i]) : B[k][l] = B[i][l]
            I == {d \in Nat : i + d <= Len(s) => P(i + d)}
<1>0. Len(s) \in Nat /\ Len(B[i]) \in Nat
  BY BoxType, LenProperties
<1>1. 0 \in I
  BY <1>0
<1>2. ASSUME NEW d \in Nat, d \in I
      PROVE  d + 1 \in I
  <2>. SUFFICES ASSUME i + (d + 1) <= Len(s) PROVE P(i + (d + 1))
    OBVIOUS
  <2>1. /\ P(i + d) /\ i + d \in 0..Len(s) /\ i + (d + 1) \in 1..Len(s)
        /\ (i + (d + 1)) - 1 = i + d
    BY <1>0, <1>2
  <2>2. B[i + (d + 1)] = Step(s, t, B[i + d], i + (d + 1))
    BY <2>1, BoxSteps
  <2>3. B[i + d] \in Seq(LetterType) /\ Len(B[i + d]) \in Nat
    BY <2>1, BoxType, LenProperties
  <2>4. s[i + (d + 1)] \in Message
    BY <2>1, ElementOfSeq
  <2>5. Letter(s[i + (d + 1)]) \in LetterType
    BY <2>4 DEF Letter, LetterType, Message
  <2>. HIDE DEF B
  <2>. QED BY <1>0, <2>1, <2>2, <2>3, <2>5, AppendProperties DEF Step
<1>. HIDE DEF I
<1>3. Nat \subseteq I
  BY <1>1, <1>2, SetInduction
<1>4. n - i \in I /\ i + (n - i) = n
  BY <1>0, <1>3
<1>. QED BY <1>0, <1>4 DEF I

\* What is in the mailbox was in the list.
LEMMA BoxSenders ==
    ASSUME NEW s \in Seq(Message), NEW t, NEW senders, NEW n \in 0..Len(s),
           \A j \in 1..n : ~(s[j].to = t /\ s[j].from \in senders)
    PROVE  \A l \in 1..Len(BoxUpTo(s, t)[n]) : BoxUpTo(s, t)[n][l].from \notin senders
<1>. DEFINE B == BoxUpTo(s, t)
            P(k) == \A l \in 1..Len(B[k]) : B[k][l].from \notin senders
            I == {k \in Nat : k <= n => P(k)}
<1>0. Len(s) \in Nat
  BY LenProperties
<1>1. 0 \in I
  BY BoxSteps, EmptySeq
<1>2. ASSUME NEW k \in Nat, k \in I
      PROVE  k + 1 \in I
  <2>. SUFFICES ASSUME k + 1 <= n PROVE P(k + 1)
    OBVIOUS
  <2>1. P(k) /\ k \in 0..Len(s) /\ k + 1 \in 1..n /\ k + 1 \in 1..Len(s) /\ (k + 1) - 1 = k
    BY <1>0, <1>2
  <2>2. B[k + 1] = Step(s, t, B[k], k + 1)
    BY <2>1, BoxSteps
  <2>3. B[k] \in Seq(LetterType) /\ Len(B[k]) \in Nat
    BY <2>1, BoxType, LenProperties
  <2>4. s[k + 1] \in Message
    BY <2>1, ElementOfSeq
  <2>5. Letter(s[k + 1]) \in LetterType /\ Letter(s[k + 1]).from = s[k + 1].from
    BY <2>4 DEF Letter, LetterType, Message
  <2>6. CASE s[k + 1].to = t
    <3>1. B[k + 1] = Append(B[k], Letter(s[k + 1])) /\ s[k + 1].from \notin senders
      BY <2>1, <2>2, <2>6 DEF Step
    <3>2. /\ Len(B[k + 1]) = Len(B[k]) + 1
          /\ \A l \in 1..Len(B[k]) : B[k + 1][l] = B[k][l]
          /\ B[k + 1][Len(B[k]) + 1] = Letter(s[k + 1])
      BY <2>3, <2>5, <3>1, AppendProperties
    <3>. QED BY <2>1, <2>3, <2>5, <3>1, <3>2
  <2>7. CASE s[k + 1].to # t
    BY <2>1, <2>2, <2>7 DEF Step
  <2>. QED BY <2>6, <2>7
<1>. HIDE DEF I
<1>3. Nat \subseteq I
  BY <1>1, <1>2, SetInduction
<1>. QED BY <1>0, <1>3 DEF I

\* Unlinking and appending at the end do not interfere.
LEMMA RemoveAtAppend ==
    ASSUME NEW S, NEW q \in Seq(S), NEW x \in S
    PROVE  /\ RemoveAt(Append(q, x), Len(q) + 1) = q
           /\ \A j \in 1..Len(q) : RemoveAt(Append(q, x), j) = Append(RemoveAt(q, j), x)
<1>. DEFINE a == Append(q, x)
<1>1. /\ Len(q) \in Nat /\ a \in Seq(S) /\ Len(a) = Len(q) + 1
      /\ \A i \in 1..Len(q) : a[i] = q[i]
      /\ a[Len(q) + 1] = x
  BY AppendProperties, LenProperties
<1>. HIDE DEF a
<1>2. ASSUME NEW j \in 1..(Len(q) + 1)
      PROVE  /\ RemoveAt(a, j) \in Seq(S) /\ Len(RemoveAt(a, j)) = Len(q)
             /\ \A i \in 1..Len(q) : RemoveAt(a, j)[i] = IF i < j THEN a[i] ELSE a[i + 1]
  <2>1. j \in 1..Len(a) /\ Len(a) - 1 = Len(q)
    BY <1>1
  <2>2. /\ RemoveAt(a, j) \in Seq(S) /\ Len(RemoveAt(a, j)) = Len(a) - 1
        /\ \A i \in 1..(Len(a) - 1) : RemoveAt(a, j)[i] = IF i < j THEN a[i] ELSE a[i + 1]
    BY <1>1, <2>1, RemoveAtProperties
  <2>. QED BY <2>1, <2>2
<1>3. RemoveAt(a, Len(q) + 1) = q
  <2>1. /\ RemoveAt(a, Len(q) + 1) \in Seq(S) /\ Len(RemoveAt(a, Len(q) + 1)) = Len(q)
        /\ \A i \in 1..Len(q) : RemoveAt(a, Len(q) + 1)[i] = a[i]
    BY <1>1, <1>2
  <2>. QED BY <1>1, <2>1, SeqEqual
<1>4. ASSUME NEW j \in 1..Len(q)
      PROVE  RemoveAt(a, j) = Append(RemoveAt(q, j), x)
  <2>. DEFINE r == RemoveAt(a, j)
              o == RemoveAt(q, j)
              e == Append(o, x)
  <2>1. /\ r \in Seq(S) /\ Len(r) = Len(q)
        /\ \A i \in 1..Len(q) : r[i] = IF i < j THEN a[i] ELSE a[i + 1]
    BY <1>1, <1>2
  <2>2. /\ o \in Seq(S) /\ Len(o) = Len(q) - 1
        /\ \A i \in 1..(Len(q) - 1) : o[i] = IF i < j THEN q[i] ELSE q[i + 1]
    BY RemoveAtProperties
  <2>3. /\ e \in Seq(S) /\ Len(e) = Len(o) + 1 /\ e[Len(o) + 1] = x
        /\ \A i \in 1..Len(o) : e[i] = o[i]
    BY <2>2, AppendProperties
  <2>. HIDE DEF r, o, e
  <2>4. ASSUME NEW i \in 1..Len(q) PROVE r[i] = e[i]
    <3>1. CASE i = Len(q)
      BY <1>1, <2>1, <2>2, <2>3, <3>1
    <3>2. CASE i \in 1..(Len(q) - 1)
      <4>1. i + 1 \in 1..Len(q) /\ i \in 1..Len(q) /\ i \in 1..Len(o)
        BY <1>1, <2>2, <3>2
      <4>2. e[i] = IF i < j THEN q[i] ELSE q[i + 1]
        BY <2>2, <2>3, <3>2, <4>1
      <4>. QED BY <1>1, <2>1, <4>1, <4>2
    <3>. QED BY <1>1, <3>1, <3>2
  <2>5. r = e
    BY <1>1, <2>1, <2>2, <2>3, <2>4, SeqEqual
  <2>. QED BY <2>5 DEF r, o, e
<1>. QED BY <1>3, <1>4 DEF a

\* Sending to one process.
LEMMA BoxAppend ==
    ASSUME NEW s \in Seq(Message), NEW m \in Message, NEW t
    PROVE  Box(Append(s, m), t) = IF m.to = t THEN Append(Box(s, t), Letter(m)) ELSE Box(s, t)
<1>. DEFINE a == Append(s, m)
<1>1. /\ Len(s) \in Nat /\ a \in Seq(Message) /\ Len(a) = Len(s) + 1
      /\ \A i \in 1..Len(s) : a[i] = s[i]
      /\ a[Len(s) + 1] = m
  BY AppendProperties, LenProperties
<1>. HIDE DEF a
<1>2. BoxUpTo(a, t)[Len(s)] = BoxUpTo(s, t)[Len(s)]
  BY <1>1, BoxPrefix
<1>3. BoxUpTo(a, t)[Len(s) + 1] = Step(a, t, BoxUpTo(a, t)[Len(s)], Len(s) + 1)
  <2>1. Len(s) + 1 \in 1..Len(a) /\ (Len(s) + 1) - 1 = Len(s)
    BY <1>1
  <2>. QED BY <1>1, <2>1, BoxSteps
<1>4. Box(a, t) = BoxUpTo(a, t)[Len(s) + 1] /\ Box(s, t) = BoxUpTo(s, t)[Len(s)]
  BY <1>1 DEF Box
<1>5. Box(a, t) = IF m.to = t THEN Append(Box(s, t), Letter(m)) ELSE Box(s, t)
  BY <1>1, <1>2, <1>3, <1>4 DEF Step
<1>. QED BY <1>5 DEF a

\* Taking a message of one process out of the list does not show in the mailbox
\* of another.
LEMMA BoxRemoveOther ==
    ASSUME NEW s \in Seq(Message), NEW t, NEW i \in 1..Len(s), s[i].to # t
    PROVE  Box(RemoveAt(s, i), t) = Box(s, t)
<1>. DEFINE r == RemoveAt(s, i)
            B == BoxUpTo(s, t)
            C == BoxUpTo(r, t)
            I == {d \in Nat : i + d <= Len(s) => C[(i + d) - 1] = B[i + d]}
<1>1. /\ Len(s) \in Nat /\ r \in Seq(Message) /\ Len(r) = Len(s) - 1
      /\ \A j \in 1..(Len(s) - 1) : r[j] = IF j < i THEN s[j] ELSE s[j + 1]
  BY RemoveAtProperties, LenProperties
<1>. HIDE DEF r
<1>2. 0 \in I
  <2>1. C[i - 1] = B[i - 1]
    BY <1>1, BoxPrefix
  <2>2. B[i] = Step(s, t, B[i - 1], i)
    BY BoxSteps
  <2>3. B[i] = B[i - 1]
    BY <2>2 DEF Step
  <2>4. i + 0 = i
    OBVIOUS
  <2>. QED BY <2>1, <2>3, <2>4
<1>3. ASSUME NEW d \in Nat, d \in I
      PROVE  d + 1 \in I
  <2>. SUFFICES ASSUME i + (d + 1) <= Len(s) PROVE C[(i + (d + 1)) - 1] = B[i + (d + 1)]
    OBVIOUS
  <2>. DEFINE k == i + d
  <2>1. /\ k \in 1..Len(r) /\ k + 1 \in 1..Len(s) /\ i + (d + 1) = k + 1
        /\ (i + (d + 1)) - 1 = k /\ C[k - 1] = B[k] /\ (k + 1) - 1 = k /\ ~(k < i)
    BY <1>1, <1>3
  <2>. HIDE DEF k
  <2>2. C[k] = Step(r, t, C[k - 1], k)
    BY <1>1, <2>1, BoxSteps
  <2>3. B[k + 1] = Step(s, t, B[k], k + 1)
    BY <2>1, BoxSteps
  <2>4. r[k] = s[k + 1]
    BY <1>1, <2>1
  <2>. QED BY <2>1, <2>2, <2>3, <2>4 DEF Step
<1>. HIDE DEF I
<1>4. Nat \subseteq I
  BY <1>2, <1>3, SetInduction
<1>5. Len(s) - i \in I /\ i + (Len(s) - i) = Len(s)
  BY <1>1, <1>4
<1>6. C[Len(s) - 1] = B[Len(s)]
  BY <1>1, <1>5 DEF I
<1>. QED BY <1>1, <1>6 DEF Box, r

\* Taking a message of process t takes one letter, and only that, out of its
\* mailbox: the one behind those of the messages before it in the list.
LEMMA BoxRemove ==
    ASSUME NEW s \in Seq(Message), NEW t, NEW i \in 1..Len(s), s[i].to = t
    PROVE  LET j == Len(BoxUpTo(s, t)[i - 1]) + 1 IN
           /\ Box(s, t) \in Seq(LetterType)
           /\ j \in 1..Len(Box(s, t))
           /\ Box(s, t)[j] = Letter(s[i])
           /\ Box(RemoveAt(s, i), t) = RemoveAt(Box(s, t), j)
<1>. DEFINE r == RemoveAt(s, i)
            B == BoxUpTo(s, t)
            C == BoxUpTo(r, t)
            j == Len(B[i - 1]) + 1
            P(k) == j <= Len(B[k]) /\ B[k][j] = Letter(s[i]) /\ C[k - 1] = RemoveAt(B[k], j)
            I == {d \in Nat : i + d <= Len(s) => P(i + d)}
<1>1. /\ Len(s) \in Nat /\ r \in Seq(Message) /\ Len(r) = Len(s) - 1
      /\ \A l \in 1..(Len(s) - 1) : r[l] = IF l < i THEN s[l] ELSE s[l + 1]
  BY RemoveAtProperties, LenProperties
<1>. HIDE DEF r
<1>2. \A l \in 1..Len(s) : Letter(s[l]) \in LetterType
  <2>1. \A l \in 1..Len(s) : s[l] \in Message
    BY ElementOfSeq
  <2>. QED BY <2>1 DEF Letter, LetterType, Message
<1>3. \A l \in 0..Len(s) : B[l] \in Seq(LetterType) /\ Len(B[l]) \in Nat
  BY BoxType, LenProperties
<1>4. j \in Nat \ {0}
  BY <1>1, <1>3
<1>5. 0 \in I
  <2>1. C[i - 1] = B[i - 1]
    BY <1>1, BoxPrefix
  <2>2. B[i] = Step(s, t, B[i - 1], i)
    BY BoxSteps
  <2>3. B[i] = Append(B[i - 1], Letter(s[i])) /\ B[i - 1] \in Seq(LetterType)
    BY <1>1, <1>3, <2>2 DEF Step
  <2>4. Len(B[i]) = j /\ B[i][j] = Letter(s[i]) /\ RemoveAt(B[i], j) = B[i - 1]
    BY <1>2, <2>3, AppendProperties, RemoveAtAppend
  <2>5. i + 0 = i
    OBVIOUS
  <2>. QED BY <1>4, <2>1, <2>4, <2>5
<1>6. ASSUME NEW d \in Nat, d \in I
      PROVE  d + 1 \in I
  <2>. SUFFICES ASSUME i + (d + 1) <= Len(s) PROVE P(i + (d + 1))
    OBVIOUS
  <2>. DEFINE k == i + d
  <2>1. /\ k \in 1..Len(r) /\ k + 1 \in 1..Len(s) /\ i + (d + 1) = k + 1
        /\ k \in 0..Len(s) /\ P(k) /\ (k + 1) - 1 = k /\ ~(k < i)
    BY <1>1, <1>6
  <2>. HIDE DEF k, j
  <2>2. C[k] = Step(r, t, C[k - 1], k)
    BY <1>1, <2>1, BoxSteps
  <2>3. B[k + 1] = Step(s, t, B[k], k + 1)
    BY <2>1, BoxSteps
  <2>4. r[k] = s[k + 1]
    BY <1>1, <2>1
  <2>5. CASE s[k + 1].to = t
    <3>. DEFINE x == Letter(s[k + 1])
                q == B[k]
    <3>1. x \in LetterType /\ q \in Seq(LetterType) /\ Len(q) \in Nat /\ j \in 1..Len(q)
      BY <1>2, <1>3, <1>4, <2>1
    <3>2. B[k + 1] = Append(q, x) /\ C[k] = Append(RemoveAt(q, j), x)
      BY <2>1, <2>2, <2>3, <2>4, <2>5 DEF Step
    <3>3. RemoveAt(Append(q, x), j) = Append(RemoveAt(q, j), x)
      BY <3>1, RemoveAtAppend
    <3>4. Len(B[k + 1]) = Len(q) + 1 /\ B[k + 1][j] = q[j]
      BY <3>1, <3>2, AppendProperties
    <3>5. C[(k + 1) - 1] = RemoveAt(B[k + 1], j)
      BY <2>1, <3>2, <3>3
    <3>6. j <= Len(B[k + 1]) /\ B[k + 1][j] = Letter(s[i])
      BY <2>1, <3>1, <3>4
    <3>. QED BY <2>1, <3>5, <3>6
  <2>6. CASE s[k + 1].to # t
    BY <2>1, <2>2, <2>3, <2>4, <2>6 DEF Step
  <2>. QED BY <2>5, <2>6
<1>. HIDE DEF I
<1>7. Nat \subseteq I
  BY <1>5, <1>6, SetInduction
<1>8. Len(s) - i \in I /\ i + (Len(s) - i) = Len(s)
  BY <1>1, <1>7
<1>9. P(Len(s))
  BY <1>1, <1>8 DEF I
<1>10. Box(s, t) = B[Len(s)] /\ Box(r, t) = C[Len(s) - 1]
  BY <1>1 DEF Box
<1>11. B[Len(s)] \in Seq(LetterType) /\ Len(B[Len(s)]) \in Nat
  BY <1>1, <1>3
<1>. QED BY <1>4, <1>9, <1>10, <1>11 DEF r

-----------------------------------------------------------------------------
(* The shared list implements one mailbox per process.                     *)

\* The first message of the list that a receive call looks for is the oldest of
\* the mailbox.
LEMMA OldestInBox ==
    ASSUME NEW s \in Seq(Message), NEW t, NEW senders, NEW i \in 1..Len(s),
           s[i].to = t, s[i].from \in senders,
           \A k \in 1..(i - 1) : ~(s[k].to = t /\ s[k].from \in senders)
    PROVE  Abstract!Oldest(Box(s, t), senders) = Len(BoxUpTo(s, t)[i - 1]) + 1
<1>. DEFINE b == Box(s, t)
            a == BoxUpTo(s, t)[i - 1]
            I == {l \in 1..Len(b) : b[l].from \in senders}
<1>1. /\ b \in Seq(LetterType) /\ Len(a) + 1 \in 1..Len(b) /\ b[Len(a) + 1] = Letter(s[i])
  BY BoxRemove
<1>2. Len(s) \in Nat /\ a \in Seq(LetterType) /\ Len(a) \in Nat /\ Len(b) \in Nat
  BY <1>1, BoxType, LenProperties
<1>3. \A l \in 1..Len(a) : a[l].from \notin senders
  BY <1>2, BoxSenders
<1>4. \A l \in 1..Len(a) : b[l] = a[l]
  BY <1>2, BoxGrows DEF Box
<1>5. Len(a) + 1 \in I
  BY <1>1 DEF Letter
<1>6. \A l \in I : Len(a) + 1 <= l
  BY <1>2, <1>3, <1>4
<1>7. I \subseteq Nat
  BY <1>2
<1>8. Abstract!Oldest(b, senders) = IF I # {} THEN Min(I) ELSE 0
  BY DEF Abstract!Oldest, Abstract!SelectInSeq, Abstract!Min, Min
<1>. HIDE DEF I, a, b
<1>9. Min(I) \in I /\ \A l \in I : Min(I) <= l
  BY <1>5, <1>7, MinProperties
<1>10. Min(I) = Len(a) + 1
  <2>1. Min(I) \in Nat /\ Min(I) <= Len(a) + 1 /\ Len(a) + 1 <= Min(I)
    BY <1>5, <1>6, <1>7, <1>9
  <2>. QED BY <1>2, <2>1
<1>11. Abstract!Oldest(b, senders) = Len(a) + 1
  BY <1>5, <1>8, <1>10
<1>. QED BY <1>11 DEF a, b

\* The empty list is a row of empty mailboxes.
LEMMA InitRefines == Init => Abstract!Init
<1>. SUFFICES ASSUME Init PROVE Abstract!Init
  OBVIOUS
<1>1. messages = <<>> /\ messages \in Seq(Message) /\ Len(messages) = 0
  BY EmptySeq DEF Init
<1>2. \A p \in Procs : Box(messages, p) = <<>>
  BY <1>1, BoxSteps DEF Box
<1>3. buf \in [Procs -> Content]
  BY NoContentAssumption DEF Init
<1>. QED BY <1>2, <1>3 DEF Abstract!Init

\* Sending reaches one mailbox.
LEMMA SendRefines ==
    ASSUME TypeOK, NEW f \in Procs, NEW t \in Procs, NEW c \in Content, Send(f, t, c)
    PROVE  Abstract!Send(f, t, c)
<1>. DEFINE m == [from |-> f, to |-> t, content |-> c, n |-> sent[f][t] + 1]
<1>1. m \in Message
  BY BoundsAssumption DEF Message, TypeOK, Send
<1>2. m.to = t /\ Letter(m) = [from |-> f, to |-> t, content |-> c]
  BY DEF Letter
<1>3. messages' = Append(messages, m) /\ buf' = buf /\ messages \in Seq(Message)
  BY DEF Send, InsertTail, TypeOK
<1>. HIDE DEF m
<1>4. \A p \in Procs : Box(messages', p) =
         IF p = t THEN Append(Box(messages, p), Letter(m)) ELSE Box(messages, p)
  BY <1>1, <1>2, <1>3, BoxAppend
<1>. QED BY <1>2, <1>3, <1>4 DEF Abstract!Send

\* Receiving takes the oldest message of the senders asked for out of the
\* receiver's mailbox and leaves the others alone.
LEMMA TakeRefines ==
    ASSUME TypeOK, NEW t \in Procs, NEW senders, NEW i \in 1..Len(messages),
           messages[i].to = t, messages[i].from \in senders,
           \A k \in 1..(i - 1) : ~(messages[k].to = t /\ messages[k].from \in senders),
           Take(i, t)
    PROVE  Abstract!Receive(senders, t)
<1>. DEFINE j == Len(BoxUpTo(messages, t)[i - 1]) + 1
<1>1. messages \in Seq(Message)
  BY DEF TypeOK
<1>2. /\ messages' = RemoveAt(messages, i)
      /\ buf' = [buf EXCEPT ![t] = messages[i].content]
  BY DEF Take
<1>3. /\ Box(messages, t) \in Seq(LetterType) /\ j \in 1..Len(Box(messages, t))
      /\ Box(messages, t)[j] = Letter(messages[i])
      /\ Box(messages', t) = RemoveAt(Box(messages, t), j)
  BY <1>1, <1>2, BoxRemove
<1>4. Abstract!Oldest(Box(messages, t), senders) = j
  BY <1>1, OldestInBox
<1>5. \A p \in Procs : p # t => Box(messages', p) = Box(messages, p)
  BY <1>1, <1>2, BoxRemoveOther
<1>6. Letter(messages[i]).content = messages[i].content
  BY DEF Letter
<1>7. j # 0
  BY <1>3, LenProperties
<1>. HIDE DEF j
<1>8. Abstract!RemoveAt(Box(messages, t), j) = RemoveAt(Box(messages, t), j)
  BY DEF Abstract!RemoveAt, RemoveAt
<1>. QED BY <1>2, <1>3, <1>4, <1>5, <1>6, <1>7, <1>8 DEF Abstract!Receive

\* Each system call is a step of the mailboxes or leaves them as they were.
LEMMA NextRefines ==
    ASSUME TypeOK, [Next]_vars
    PROVE  [Abstract!Next]_<<[p \in Procs |-> Box(messages, p)], buf>>
<1>. DEFINE Goal == [Abstract!Next]_<<[p \in Procs |-> Box(messages, p)], buf>>
<1>0. messages \in Seq(Message)
  BY DEF TypeOK
<1>1. ASSUME NEW f \in Procs, NEW t \in Procs, NEW c \in Content, Send(f, t, c)
      PROVE  Goal
  BY <1>1, SendRefines DEF Abstract!Next
<1>2. ASSUME UNCHANGED <<messages, buf>>
      PROVE  Goal
  BY <1>2
<1>3. ASSUME NEW f \in Procs, NEW t \in Procs, ReceiveFrom(f, t)
      PROVE  Goal
  <2>1. CASE FirstFrom(f, t) = 0
    BY <1>2, <1>3, <2>1 DEF ReceiveFrom, NothingToTake
  <2>2. CASE FirstFrom(f, t) # 0
    <3>. DEFINE i == FirstFrom(f, t)
    <3>1. /\ i \in 1..Len(messages) /\ messages[i].from \in {f} /\ messages[i].to = t
          /\ \A k \in 1..(i - 1) : ~(messages[k].to = t /\ messages[k].from \in {f})
      BY <1>0, <2>2, FirstFromProperties
    <3>2. Take(i, t)
      BY <1>3, <2>2 DEF ReceiveFrom
    <3>. HIDE DEF i
    <3>3. Abstract!Receive({f}, t)
      BY <3>1, <3>2, TakeRefines
    <3>. QED BY <3>3 DEF Abstract!Next
  <2>. QED BY <2>1, <2>2
<1>4. ASSUME NEW t \in Procs, ReceiveAny(t)
      PROVE  Goal
  <2>1. CASE FirstFor(t) = 0
    BY <1>2, <1>4, <2>1 DEF ReceiveAny, NothingToTake
  <2>2. CASE FirstFor(t) # 0
    <3>. DEFINE i == FirstFor(t)
    <3>1. /\ i \in 1..Len(messages) /\ messages[i].to = t
          /\ \A k \in 1..(i - 1) : ~(messages[k].to = t /\ messages[k].from \in Procs)
      BY <1>0, <2>2, FirstForProperties
    <3>2. messages[i] \in Message
      BY <1>0, <3>1, ElementOfSeq
    <3>3. messages[i].from \in Procs
      BY <3>2 DEF Message
    <3>4. Take(i, t)
      BY <1>4, <2>2 DEF ReceiveAny
    <3>. HIDE DEF i
    <3>5. Abstract!Receive(Procs, t)
      BY <3>1, <3>3, <3>4, TakeRefines
    <3>. QED BY <3>5 DEF Abstract!Next
  <2>. QED BY <2>1, <2>2
<1>5. CASE UNCHANGED vars
  BY <1>2, <1>5 DEF vars
<1>. QED BY <1>1, <1>3, <1>4, <1>5 DEF Next

\* One list shared by all is as good as a mailbox for each: what a process sees
\* of the system calls is what module Mailboxes promises.
THEOREM ListImplementsMailboxes == Spec => ImplementsMailboxes
<1>1. TypeOK /\ [Next]_vars => [Abstract!Next]_<<[p \in Procs |-> Box(messages, p)], buf>>
  BY NextRefines
<1>. QED BY <1>1, InitRefines, NothingLost, PTL DEF Spec, ImplementsMailboxes, Abstract!Spec
=============================================================================
