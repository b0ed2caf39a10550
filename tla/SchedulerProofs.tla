--------------------------- MODULE SchedulerProofs ---------------------------
(***************************************************************************)
(* Proofs about module Scheduler, for every MaxPid, every set of calls and *)
(* every discipline of the users.                                          *)
(***************************************************************************)
EXTENDS Scheduler, FiniteSetTheorems, TLAPS

-----------------------------------------------------------------------------
(* The queue operations.                                                   *)

\* remove_pid on a list without duplicates: the pid is gone, everything else
\* is still there once.
LEMMA RemoveFromProperties ==
    ASSUME NEW S, NEW q \in Seq(S), IsInjective(q), NEW p
    PROVE  /\ RemoveFrom(q, p) \in Seq(S)
           /\ IsInjective(RemoveFrom(q, p))
           /\ Range(RemoveFrom(q, p)) = Range(q) \ {p}
<1>1. CASE p \notin Range(q)
  BY <1>1 DEF RemoveFrom
<1>2. CASE p \in Range(q)
  <2>. DEFINE i == CHOOSE j \in DOMAIN q : q[j] = p
              r == [j \in 1..(Len(q) - 1) |-> IF j < i THEN q[j] ELSE q[j + 1]]
  <2>1. i \in 1..Len(q) /\ q[i] = p
    BY <1>2 DEF Range
  <2>2. RemoveFrom(q, p) = r
    BY <1>2 DEF RemoveFrom
  <2>. HIDE DEF i
  <2>3. Len(q) - 1 \in Nat /\ r \in Seq(S) /\ DOMAIN r = 1..(Len(q) - 1)
    BY <2>1
  <2>4. IsInjective(r)
    BY <2>1, <2>3 DEF IsInjective
  <2>5. \A j \in DOMAIN r : r[j] \in Range(q) /\ r[j] # p
    BY <2>1, <2>3 DEF IsInjective, Range
  <2>6. ASSUME NEW x \in Range(q), x # p PROVE x \in Range(r)
    <3>1. PICK j \in 1..Len(q) : q[j] = x
      BY DEF Range
    <3>2. CASE j < i
      <4>1. j \in DOMAIN r /\ r[j] = x
        BY <2>1, <2>3, <3>1, <3>2
      <4>. QED BY <4>1 DEF Range
    <3>3. CASE j > i
      <4>1. j - 1 \in DOMAIN r /\ r[j - 1] = x
        BY <2>1, <2>3, <3>1, <3>3
      <4>. QED BY <4>1 DEF Range
    <3>. QED BY <2>1, <2>6, <3>1, <3>2, <3>3
  <2>7. Range(r) = Range(q) \ {p}
    BY <2>5, <2>6 DEF Range
  <2>. QED BY <2>2, <2>3, <2>4, <2>7
<1>. QED BY <1>1, <1>2

\* Appending a pid that is not in the list.
LEMMA AppendNewProperties ==
    ASSUME NEW S, NEW q \in Seq(S), NEW p \in S, IsInjective(q), p \notin Range(q)
    PROVE  /\ Append(q, p) \in Seq(S)
           /\ IsInjective(Append(q, p))
           /\ Range(Append(q, p)) = Range(q) \cup {p}
<1>. DEFINE r == Append(q, p)
<1>1. /\ r \in Seq(S) /\ DOMAIN r = 1..(Len(q) + 1) /\ Len(q) \in Nat
      /\ \A j \in 1..Len(q) : r[j] = q[j]
      /\ r[Len(q) + 1] = p
  OBVIOUS
<1>. HIDE DEF r
<1>2. IsInjective(r)
  BY <1>1 DEF IsInjective, Range
<1>3. Range(r) \subseteq Range(q) \cup {p}
  BY <1>1 DEF Range
<1>4. Range(q) \cup {p} \subseteq Range(r)
  BY <1>1 DEF Range
<1>. QED BY <1>1, <1>2, <1>3, <1>4 DEF r

\* set_priority on one list: the pid ends up in it, once.
LEMMA RequeueProperties ==
    ASSUME NEW S, NEW q \in Seq(S), NEW p \in S, IsInjective(q)
    PROVE  LET r == Append(RemoveFrom(q, p), p) IN
           r \in Seq(S) /\ IsInjective(r) /\ Range(r) = Range(q) \cup {p}
<1>1. /\ RemoveFrom(q, p) \in Seq(S)
      /\ IsInjective(RemoveFrom(q, p))
      /\ Range(RemoveFrom(q, p)) = Range(q) \ {p}
  BY RemoveFromProperties
<1>. QED BY <1>1, AppendNewProperties

\* get_next_process moves an entry and neither loses nor duplicates one.
LEMMA RotateProperties ==
    ASSUME NEW S, NEW q \in Seq(S), q # <<>>, IsInjective(q)
    PROVE  /\ Rotate(q) \in Seq(S)
           /\ IsInjective(Rotate(q))
           /\ Range(Rotate(q)) = Range(q)
           /\ Head(q) \in Range(q)
<1>. DEFINE r == Rotate(q)
<1>1. /\ r \in Seq(S) /\ Len(q) \in Nat \ {0} /\ DOMAIN q = 1..Len(q)
      /\ DOMAIN r = 1..Len(q)
      /\ \A j \in 1..(Len(q) - 1) : r[j] = q[j + 1]
      /\ r[Len(q)] = q[1]
      /\ Head(q) = q[1]
  BY DEF Rotate
<1>. HIDE DEF r
<1>2. IsInjective(r)
  <2>. SUFFICES ASSUME NEW a \in 1..Len(q), NEW b \in 1..Len(q), r[a] = r[b]
               PROVE  a = b
    BY <1>1 DEF IsInjective
  <2>. DEFINE n == Len(q)
  <2>1. n \in Nat /\ n >= 1
    BY <1>1
  <2>2. \A c, d \in 1..n : q[c] = q[d] => c = d
    BY <1>1 DEF IsInjective
  <2>3. \A j \in 1..n : j # n => r[j] = q[j + 1] /\ j + 1 \in 1..n /\ j + 1 # 1
    <3>. SUFFICES ASSUME NEW j \in 1..n, j # n
                 PROVE  r[j] = q[j + 1] /\ j + 1 \in 1..n /\ j + 1 # 1
      OBVIOUS
    <3>1. j \in 1..(n - 1) /\ j + 1 \in 1..n /\ j + 1 # 1
      BY <2>1
    <3>. QED BY <1>1, <3>1
  <2>4. r[n] = q[1] /\ 1 \in 1..n
    BY <1>1
  <2>. HIDE DEF n
  <2>5. CASE a = n
    BY <2>2, <2>3, <2>4, <2>5 DEF n
  <2>6. CASE b = n
    BY <2>2, <2>3, <2>4, <2>6 DEF n
  <2>7. CASE a # n /\ b # n
    <3>1. a + 1 = b + 1
      BY <2>2, <2>3, <2>7 DEF n
    <3>. QED BY <3>1
  <2>. QED BY <2>5, <2>6, <2>7
<1>3. \A j \in DOMAIN r : \E k \in DOMAIN q : r[j] = q[k]
  BY <1>1
<1>4. ASSUME NEW k \in DOMAIN q PROVE \E j \in DOMAIN r : r[j] = q[k]
  <2>1. CASE k = 1
    BY <1>1, <2>1
  <2>2. CASE k # 1
    <3>1. k - 1 \in 1..(Len(q) - 1) /\ (k - 1) + 1 = k
      BY <1>1, <2>2
    <3>. QED BY <1>1, <3>1
  <2>. QED BY <2>1, <2>2
<1>5. Range(r) = Range(q)
  BY <1>3, <1>4 DEF Range
<1>6. Head(q) \in Range(q)
  BY <1>1 DEF Range
<1>. QED BY <1>1, <1>2, <1>5, <1>6 DEF r

\* The wake-up loop of scheduler_emit_event adds the woken and drops nobody.
LEMMA RequeuedProperties ==
    ASSUME NEW q \in Seq(Pid), IsInjective(q), NEW woken \in SUBSET Pid,
           NEW r \in Requeued(q, woken)
    PROVE  /\ r \in Seq(Pid)
           /\ IsInjective(r)
           /\ Range(r) = Range(q) \cup woken
<1>1. CASE woken = {}
  BY <1>1 DEF Requeued
<1>2. CASE woken # {}
  <2>. DEFINE members == Range(q) \cup woken
  <2>1. /\ r \in [1..Cardinality(members) -> members]
        /\ IsInjective(r)
        /\ Range(r) = members
    BY <1>2 DEF Requeued
  <2>2. members \subseteq Pid
    BY DEF Range
  <2>3. IsFiniteSet(members)
    <3>1. IsFiniteSet(Pid)
      BY FS_Interval, MaxPidAssumption DEF Pid
    <3>. QED BY <2>2, <3>1, FS_Subset
  <2>4. Cardinality(members) \in Nat
    BY <2>3, FS_CardinalityType
  <2>5. r \in Seq(Pid)
    <3>. HIDE DEF members
    <3>1. r \in [1..Cardinality(members) -> Pid]
      BY <2>1, <2>2
    <3>. QED BY <2>4, <3>1
  <2>. QED BY <2>1, <2>5
<1>. QED BY <1>1, <1>2

\* What get_next_process(0) / get_next_process(1) pick and leave behind.
LEMMA GetNextProperties ==
    ASSUME NEW h \in Seq(Pid), NEW l \in Seq(Pid),
           IsInjective(h), IsInjective(l), Range(h) \subseteq Range(l)
    PROVE  LET next == GetNextProcess(h, l) IN
           /\ next.high \in Seq(Pid) /\ IsInjective(next.high) /\ Range(next.high) = Range(h)
           /\ next.low \in Seq(Pid) /\ IsInjective(next.low) /\ Range(next.low) = Range(l)
           /\ next.pid \in Pid \cup {NoPid}
           /\ next.pid # NoPid => next.pid \in Range(l)
           /\ next.high # <<>> => next.pid \in Range(next.high)
           /\ next.pid = NoPid => Range(l) = {}
<1>. DEFINE next == GetNextProcess(h, l)
<1>0. NoPid \notin Pid /\ Range(l) \subseteq Pid
  BY MaxPidAssumption DEF NoPid, Pid, Range
<1>1. CASE h # <<>>
  <2>1. /\ Rotate(h) \in Seq(Pid) /\ IsInjective(Rotate(h))
        /\ Range(Rotate(h)) = Range(h) /\ Head(h) \in Range(h)
    BY <1>1, RotateProperties
  <2>2. next.pid = Head(h) /\ next.high = Rotate(h) /\ next.low = l
    BY <1>1 DEF GetNextProcess
  <2>. HIDE DEF next
  <2>3. next.pid \in Range(h)
    BY <2>1, <2>2
  <2>4. next.pid \in Pid \cup {NoPid} /\ next.pid \in Range(l) /\ next.pid \in Range(next.high)
    BY <1>0, <2>1, <2>2, <2>3
  <2>5. next.high \in Seq(Pid) /\ IsInjective(next.high) /\ Range(next.high) = Range(h)
    BY <2>1, <2>2
  <2>6. next.pid # NoPid
    BY <1>0, <2>4
  <2>. QED BY <2>2, <2>4, <2>5, <2>6 DEF next
<1>2. CASE h = <<>> /\ l # <<>>
  <2>1. /\ Rotate(l) \in Seq(Pid) /\ IsInjective(Rotate(l))
        /\ Range(Rotate(l)) = Range(l) /\ Head(l) \in Range(l)
    BY <1>2, RotateProperties
  <2>2. next.pid = Head(l) /\ next.high = h /\ next.low = Rotate(l)
    BY <1>2 DEF GetNextProcess
  <2>. HIDE DEF next
  <2>3. next.pid \in Pid \cup {NoPid} /\ next.pid \in Range(l)
    BY <1>0, <2>1, <2>2
  <2>4. next.low \in Seq(Pid) /\ IsInjective(next.low) /\ Range(next.low) = Range(l)
    BY <2>1, <2>2
  <2>5. next.high # <<>> => next.pid \in Range(next.high)
    BY <1>2, <2>2
  <2>6. next.pid # NoPid
    BY <1>0, <2>3
  <2>. QED BY <2>2, <2>3, <2>4, <2>5, <2>6 DEF next
<1>3. CASE h = <<>> /\ l = <<>>
  <2>1. next.pid = NoPid /\ next.high = h /\ next.low = l
    BY <1>3 DEF GetNextProcess
  <2>. HIDE DEF next
  <2>2. next.high # <<>> => next.pid \in Range(next.high)
    BY <1>3, <2>1
  <2>3. Range(l) = {}
    BY <1>3 DEF Range
  <2>. QED BY <2>1, <2>2, <2>3 DEF next
<1>. QED BY <1>1, <1>2, <1>3

-----------------------------------------------------------------------------
(* The inductive invariant.  QueuesWellFormed is what makes remove_pid take *)
(* a process out for good; CurrentIsQueued is what keeps exec, which marks  *)
(* the current process running, from breaking RunnableIsQueued.            *)

IInv ==
    /\ TypeOK
    /\ QueuesWellFormed
    /\ RunnableIsQueued
    /\ CurrentIsQueued
    /\ TerminatedIsRecorded

\* scheduler_initialise establishes it.
LEMMA InitIInv == Init => IInv
<1>. SUFFICES ASSUME Init PROVE IInv
  OBVIOUS
<1>. USE DEF Init, Shell
<1>1. 1 \in Pid
  BY MaxPidAssumption DEF Pid
<1>2. Procs = {1}
  BY DEF Procs
<1>3. low = <<1>> /\ low \in Seq(Pid) /\ DOMAIN low = {1} /\ Range(low) = {1}
  BY <1>1 DEF Range
<1>4. high \in Seq(Pid) /\ Range(high) = {} /\ IsInjective(high)
  BY DEF Range, IsInjective
<1>5. TypeOK
  BY <1>1, <1>2, <1>3, <1>4, MaxPidAssumption
  DEF TypeOK, Status, Event, EventKinds, Word, Live
<1>6. QueuesWellFormed
  BY <1>3, <1>4 DEF QueuesWellFormed, IsInjective
<1>7. RunnableIsQueued /\ CurrentIsQueued /\ TerminatedIsRecorded
  BY <1>1, <1>2, <1>3 DEF RunnableIsQueued, CurrentIsQueued, TerminatedIsRecorded, Sane
<1>. QED BY <1>5, <1>6, <1>7 DEF IInv

\* The pids given out are within the bound, and -1 is none of them.
LEMMA ProcsArePids ==
    ASSUME TypeOK
    PROVE  Procs \subseteq Pid /\ NoPid \notin Procs /\ NoPid \notin Pid
BY MaxPidAssumption DEF TypeOK, Procs, Pid, NoPid

\* Steps that leave the queues and the process table alone.
LEMMA QuietSteps ==
    ASSUME IInv, r0' \in Word, UNCHANGED <<current_pid, next_pid, queues, pcbs, events>>
    PROVE  IInv'
BY DEF IInv, TypeOK, QueuesWellFormed, RunnableIsQueued, CurrentIsQueued,
       TerminatedIsRecorded, Sane, Procs, queues, pcbs

\* TIMER0 interrupt and yield.
LEMMA SchedulerRunStep ==
    ASSUME IInv, Sane, SchedulerRun
    PROVE  IInv'
<1>. DEFINE next == GetNextProcess(high, low)
<1>. USE DEF IInv
<1>1. /\ next.high \in Seq(Pid) /\ IsInjective(next.high) /\ Range(next.high) = Range(high)
      /\ next.low \in Seq(Pid) /\ IsInjective(next.low) /\ Range(next.low) = Range(low)
      /\ next.pid \in Pid \cup {NoPid}
      /\ next.pid # NoPid => next.pid \in Range(low)
  BY GetNextProperties DEF TypeOK, QueuesWellFormed
<1>2. /\ high' = next.high /\ low' = next.low /\ current_pid' = next.pid
      /\ saved' = SaveCurrent(r0) /\ r0' = Loaded(saved', next.pid)
      /\ UNCHANGED <<next_pid, status, until, events>>
  BY DEF SchedulerRun
<1>. HIDE DEF next
<1>3. Procs \subseteq Pid /\ NoPid \notin Procs /\ Procs' = Procs
  BY <1>2, ProcsArePids DEF Procs
<1>4. saved' \in [Pid -> Word] /\ r0' \in Word
  BY <1>2, <1>3 DEF TypeOK, SaveCurrent, Loaded, Word, Sane
<1>5. TypeOK'
  BY <1>1, <1>2, <1>3, <1>4 DEF TypeOK
<1>6. QueuesWellFormed' /\ RunnableIsQueued' /\ TerminatedIsRecorded'
  BY <1>1, <1>2, <1>3 DEF QueuesWellFormed, RunnableIsQueued, TerminatedIsRecorded
<1>7. CurrentIsQueued'
  BY <1>1, <1>2, <1>3 DEF CurrentIsQueued, Sane
<1>. QED BY <1>5, <1>6, <1>7

\* What exit and kill share: pid p leaves both queues, another process is
\* chosen, and whoever waited for p is queued again.
LEMMA TakeOut ==
    ASSUME IInv, NEW p \in Pid, NEW woken \in SUBSET Pid,
           LET next == GetNextProcess(RemoveFrom(high, p), RemoveFrom(low, p))
           IN  high' = next.high /\ low' \in Requeued(next.low, woken)
    PROVE  LET next == GetNextProcess(RemoveFrom(high, p), RemoveFrom(low, p))
           IN  /\ high' \in Seq(Pid) /\ low' \in Seq(Pid)
               /\ QueuesWellFormed'
               /\ Range(low') = (Range(low) \ {p}) \cup woken
               /\ next.pid \in Pid \cup {NoPid}
               /\ next.pid # p
               /\ next.pid # NoPid => next.pid \in Range(low')
               /\ high' # <<>> => next.pid \in Range(high')
               /\ next.pid = NoPid => Range(low) \subseteq {p}
<1>. DEFINE h == RemoveFrom(high, p)
            l == RemoveFrom(low, p)
            next == GetNextProcess(h, l)
<1>1. /\ h \in Seq(Pid) /\ IsInjective(h) /\ Range(h) = Range(high) \ {p}
      /\ l \in Seq(Pid) /\ IsInjective(l) /\ Range(l) = Range(low) \ {p}
  BY RemoveFromProperties DEF IInv, TypeOK, QueuesWellFormed
<1>2. Range(h) \subseteq Range(l)
  BY <1>1 DEF IInv, QueuesWellFormed
<1>. HIDE DEF h, l
<1>3. /\ next.high \in Seq(Pid) /\ IsInjective(next.high) /\ Range(next.high) = Range(h)
      /\ next.low \in Seq(Pid) /\ IsInjective(next.low) /\ Range(next.low) = Range(l)
      /\ next.pid \in Pid \cup {NoPid}
      /\ next.pid # NoPid => next.pid \in Range(l)
      /\ next.high # <<>> => next.pid \in Range(next.high)
      /\ next.pid = NoPid => Range(l) = {}
  BY <1>1, <1>2, GetNextProperties
<1>4. high' = next.high /\ low' \in Requeued(next.low, woken)
  BY DEF h, l
<1>. HIDE DEF next
<1>5. low' \in Seq(Pid) /\ IsInjective(low') /\ Range(low') = Range(next.low) \cup woken
  BY <1>3, <1>4, RequeuedProperties
<1>6. QueuesWellFormed'
  BY <1>1, <1>2, <1>3, <1>4, <1>5 DEF QueuesWellFormed
<1>7. next.pid # p
  BY <1>1, <1>3, MaxPidAssumption DEF Pid, NoPid
<1>. QED BY <1>1, <1>3, <1>4, <1>5, <1>6, <1>7 DEF next, h, l

\* The process table after a termination and the wake-ups that follow it.
LEMMA ExitStep ==
    ASSUME IInv, Exit
    PROVE  IInv'
<1>. DEFINE p == current_pid
            ev == <<"exited", p>>
            next == GetNextProcess(RemoveFrom(high, p), RemoveFrom(low, p))
            ran == SaveCurrent(Live)
            st == IF next.pid # p THEN [status EXCEPT ![p] = "terminated"] ELSE status
            woken == IF next.pid # p THEN Woken(ev, st, until) ELSE {}
<1>. USE DEF IInv
<1>1. p \in Procs /\ p \in Pid
  BY ProcsArePids DEF Exit, Sane
<1>2. woken \in SUBSET Pid
  BY DEF Woken
<1>3. /\ current_pid' = next.pid
      /\ high' = next.high
      /\ low' \in Requeued(next.low, woken)
      /\ status' = Wake(woken, st)
      /\ saved' = WakeResult(woken, ran, p)
      /\ r0' = Loaded(ran, next.pid)
      /\ events' = IF next.pid # p THEN events \cup {ev} ELSE events
      /\ UNCHANGED <<next_pid, until>>
  BY DEF Exit, Record
<1>4. /\ high' \in Seq(Pid) /\ low' \in Seq(Pid)
      /\ QueuesWellFormed'
      /\ Range(low') = (Range(low) \ {p}) \cup woken
      /\ next.pid \in Pid \cup {NoPid}
      /\ next.pid # p
      /\ next.pid # NoPid => next.pid \in Range(low')
  BY <1>1, <1>2, <1>3, TakeOut
<1>. HIDE DEF next
<1>5. /\ st = [status EXCEPT ![p] = "terminated"]
      /\ woken = {q \in Pid : st[q] = "blocked" /\ until[q] = ev}
      /\ events' = events \cup {ev}
  BY <1>3, <1>4 DEF Woken
<1>6. st \in [Pid -> Status] /\ status' \in [Pid -> Status]
  BY <1>1, <1>3, <1>5 DEF TypeOK, Status, Wake
<1>7. \A q \in Pid : status'[q] = IF q \in woken THEN "running"
                                  ELSE IF q = p THEN "terminated" ELSE status[q]
  BY <1>1, <1>3, <1>5 DEF TypeOK, Wake
<1>8. p \notin woken /\ \A q \in woken : status[q] = "blocked"
  BY <1>1, <1>5 DEF TypeOK
<1>9. ran \in [Pid -> Word] /\ saved' \in [Pid -> Word] /\ r0' \in Word
  BY <1>1, <1>3, ProcsArePids DEF TypeOK, SaveCurrent, Loaded, WakeResult, Word
<1>10. ev \in Event /\ events' \in SUBSET Event
  BY <1>1, <1>5 DEF TypeOK, Event, EventKinds
<1>. HIDE DEF st, woken, ran, ev
<1>11. Procs' = Procs /\ Procs \subseteq Pid /\ NoPid \notin Procs
  BY <1>3, ProcsArePids DEF Procs
<1>12. \A q \in Pid : status'[q] = "none" <=> q \notin Procs'
  BY <1>1, <1>7, <1>8, <1>11 DEF TypeOK
<1>13. TypeOK'
  BY <1>3, <1>4, <1>6, <1>9, <1>10, <1>12 DEF TypeOK
<1>14. RunnableIsQueued'
  BY <1>4, <1>7, <1>8, <1>11 DEF RunnableIsQueued
<1>15. CurrentIsQueued'
  BY <1>3, <1>4, <1>11 DEF CurrentIsQueued, Sane
<1>16. TerminatedIsRecorded'
  BY <1>5, <1>7, <1>11 DEF TerminatedIsRecorded, ev
<1>. QED BY <1>4, <1>13, <1>14, <1>15, <1>16

\* As for exit, for a process someone else names; it need not exist.
LEMMA KillStep ==
    ASSUME IInv, NEW p \in Pid, Kill(p)
    PROVE  IInv'
<1>. DEFINE ev == <<"exited", p>>
            next == GetNextProcess(RemoveFrom(high, p), RemoveFrom(low, p))
            st == IF p \in Procs THEN [status EXCEPT ![p] = "terminated"] ELSE status
            woken == Woken(ev, st, until)
<1>. USE DEF IInv
<1>1. current_pid \in Pid
  BY ProcsArePids DEF Kill, Sane
<1>2. woken \in SUBSET Pid
  BY DEF Woken
<1>3. /\ current_pid' = next.pid
      /\ high' = next.high
      /\ low' \in Requeued(next.low, woken)
      /\ status' = Wake(woken, st)
      /\ saved' = WakeResult(woken, SaveCurrent(p), p)
      /\ events' = events \cup {ev}
      /\ r0' = 0
      /\ UNCHANGED <<next_pid, until>>
  BY DEF Kill, Record
<1>4. /\ high' \in Seq(Pid) /\ low' \in Seq(Pid)
      /\ QueuesWellFormed'
      /\ Range(low') = (Range(low) \ {p}) \cup woken
      /\ next.pid \in Pid \cup {NoPid}
      /\ next.pid # NoPid => next.pid \in Range(low')
  BY <1>2, <1>3, TakeOut
<1>. HIDE DEF next
<1>5. Procs' = Procs /\ Procs \subseteq Pid /\ NoPid \notin Procs
  BY <1>3, ProcsArePids DEF Procs
<1>6. st \in [Pid -> Status] /\ status' \in [Pid -> Status]
  BY <1>3 DEF TypeOK, Status, Wake
<1>7. \A q \in Pid : st[q] = IF q = p /\ p \in Procs THEN "terminated" ELSE status[q]
  BY DEF TypeOK
<1>8. \A q \in Pid : status'[q] = IF q \in woken THEN "running" ELSE st[q]
  BY <1>3 DEF Wake
<1>9. \A q \in woken : st[q] = "blocked"
  BY DEF Woken
<1>10. saved' \in [Pid -> Word] /\ r0' \in Word
  BY <1>1, <1>3 DEF TypeOK, SaveCurrent, WakeResult, Word
<1>11. ev \in Event /\ events' \in SUBSET Event
  BY <1>3 DEF TypeOK, Event, EventKinds
<1>. HIDE DEF st, woken, ev
<1>12. \A q \in Pid : status'[q] = "none" <=> q \notin Procs'
  BY <1>2, <1>5, <1>7, <1>8, <1>9 DEF TypeOK
<1>13. TypeOK'
  BY <1>3, <1>4, <1>6, <1>10, <1>11, <1>12 DEF TypeOK
<1>14. RunnableIsQueued'
  BY <1>4, <1>5, <1>7, <1>8, <1>9 DEF RunnableIsQueued
<1>15. CurrentIsQueued'
  BY <1>3, <1>4, <1>5 DEF CurrentIsQueued, Sane
<1>16. TerminatedIsRecorded'
  BY <1>3, <1>5, <1>7, <1>8, <1>9 DEF TerminatedIsRecorded, ev
<1>. QED BY <1>4, <1>13, <1>14, <1>15, <1>16

\* set_priority with whatever pid and priority the caller passes.
LEMMA SetPriorityStep ==
    ASSUME IInv, NEW p \in Pid, NEW prio \in 0..2, SetPriority(p, prio)
    PROVE  IInv'
<1>. USE DEF IInv
<1>1. LET r == Append(RemoveFrom(low, p), p) IN
      r \in Seq(Pid) /\ IsInjective(r) /\ Range(r) = Range(low) \cup {p}
  BY RequeueProperties DEF TypeOK, QueuesWellFormed
<1>2. LET r == Append(RemoveFrom(high, p), p) IN
      r \in Seq(Pid) /\ IsInjective(r) /\ Range(r) = Range(high) \cup {p}
  BY RequeueProperties DEF TypeOK, QueuesWellFormed
<1>3. /\ low' \in Seq(Pid) /\ high' \in Seq(Pid)
      /\ QueuesWellFormed' /\ Range(low) \subseteq Range(low')
  <2>1. CASE prio = 0
    BY <1>1, <1>2, <2>1
    DEF SetPriority, AfterSetPriorityHigh, AfterSetPriorityLow, QueuesWellFormed
  <2>2. CASE prio = 1
    BY <1>1, <2>2
    DEF SetPriority, AfterSetPriorityHigh, AfterSetPriorityLow, QueuesWellFormed, TypeOK
  <2>3. CASE prio = 2
    BY <2>3
    DEF SetPriority, AfterSetPriorityHigh, AfterSetPriorityLow, QueuesWellFormed, TypeOK
  <2>. QED BY <2>1, <2>2, <2>3
<1>4. r0' \in Word /\ UNCHANGED <<current_pid, next_pid, pcbs, events>>
  BY DEF SetPriority, Word
<1>. QED BY <1>3, <1>4
         DEF TypeOK, RunnableIsQueued, CurrentIsQueued, TerminatedIsRecorded, Sane, Procs, pcbs

\* fork: the new pid gets a pcb and a place in the low queue in the same step.
LEMMA ForkStep ==
    ASSUME IInv, Fork
    PROVE  IInv'
<1>. DEFINE child == next_pid
            ev == <<"created", child>>
            st == [status EXCEPT ![child] = "ready"]
            un == [until EXCEPT ![child] = until[current_pid]]
            q == AfterSetPriorityLow(low, child, 1)
            woken == Woken(ev, st, un)
<1>. USE DEF IInv
<1>1. child \in Pid /\ child \in Nat /\ child \notin Procs /\ current_pid \in Pid
  BY ProcsArePids DEF Fork, TypeOK, Pid, Procs, Sane
<1>2. woken \in SUBSET Pid /\ \A w \in woken : st[w] = "blocked"
  BY DEF Woken
<1>3. /\ low' \in Requeued(q, woken)
      /\ status' = Wake(woken, st)
      /\ until' = un
      /\ saved' = WakeResult(woken, [saved EXCEPT ![child] = 0], child)
      /\ events' = events \cup {ev}
      /\ r0' = child
      /\ next_pid' = next_pid + 1 /\ next_pid <= MaxPid
      /\ UNCHANGED <<current_pid, high>>
  BY DEF Fork, Record
<1>4. q \in Seq(Pid) /\ IsInjective(q) /\ Range(q) = Range(low) \cup {child}
  BY <1>1, RequeueProperties DEF TypeOK, QueuesWellFormed, AfterSetPriorityLow
<1>5. st \in [Pid -> Status] /\ un \in [Pid -> Event] /\ status' \in [Pid -> Status]
  BY <1>1, <1>3 DEF TypeOK, Status, Wake
<1>6. \A p \in Pid : st[p] = IF p = child THEN "ready" ELSE status[p]
  BY <1>1 DEF TypeOK
<1>7. \A p \in Pid : status'[p] = IF p \in woken THEN "running" ELSE st[p]
  BY <1>3 DEF Wake
<1>8. saved' \in [Pid -> Word] /\ r0' \in Word
  BY <1>1, <1>3 DEF TypeOK, WakeResult, Word
<1>9. events' \in SUBSET Event
  BY <1>1, <1>3 DEF TypeOK, Event, EventKinds
<1>10. Procs' = Procs \cup {child}
  BY <1>1, <1>3 DEF Procs, TypeOK
<1>11. next_pid' \in 2..(MaxPid + 1)
  BY <1>3, MaxPidAssumption DEF TypeOK
<1>. HIDE DEF q, st, un, woken, ev
<1>12. low' \in Seq(Pid) /\ IsInjective(low') /\ Range(low') = Range(q) \cup woken
  BY <1>2, <1>3, <1>4, RequeuedProperties
<1>13. QueuesWellFormed'
  BY <1>3, <1>4, <1>12 DEF QueuesWellFormed
<1>14. \A p \in Pid : status'[p] = "none" <=> p \notin Procs'
  BY <1>1, <1>2, <1>6, <1>7, <1>10 DEF TypeOK
<1>15. TypeOK'
  BY <1>3, <1>5, <1>8, <1>9, <1>11, <1>12, <1>14 DEF TypeOK
<1>16. RunnableIsQueued'
  BY <1>1, <1>2, <1>4, <1>6, <1>7, <1>10, <1>12, ProcsArePids DEF RunnableIsQueued
<1>17. CurrentIsQueued'
  BY <1>3, <1>4, <1>12 DEF CurrentIsQueued, Sane, Fork
<1>18. TerminatedIsRecorded'
  BY <1>1, <1>2, <1>3, <1>6, <1>7, <1>10, ProcsArePids DEF TerminatedIsRecorded
<1>. QED BY <1>13, <1>15, <1>16, <1>17, <1>18

\* exec marks the caller running: it is queued, because it is running.
LEMMA ExecStep ==
    ASSUME IInv, Exec
    PROVE  IInv'
<1>. USE DEF IInv
<1>1. current_pid \in Procs /\ current_pid \in Pid
  BY ProcsArePids DEF Exec, Sane
<1>2. /\ status' = [status EXCEPT ![current_pid] = "running"]
      /\ saved' = SaveCurrent(Live) /\ r0' = Live
      /\ UNCHANGED <<current_pid, next_pid, queues, until, events>>
  BY DEF Exec
<1>3. TypeOK'
  BY <1>1, <1>2 DEF TypeOK, SaveCurrent, Word, Status, Procs, queues
<1>4. RunnableIsQueued' /\ TerminatedIsRecorded'
  BY <1>1, <1>2, ProcsArePids
  DEF RunnableIsQueued, TerminatedIsRecorded, CurrentIsQueued, Procs, queues, Sane, TypeOK
<1>5. QueuesWellFormed' /\ CurrentIsQueued'
  BY <1>2 DEF QueuesWellFormed, CurrentIsQueued, Sane, Procs, queues
<1>. QED BY <1>3, <1>4, <1>5

\* A blocking waitpid: the caller leaves the queues, unless its own BLOCKED
\* event is what it waits for.
LEMMA WaitpidStep ==
    ASSUME IInv, NEW ev \in Event, Waitpid(ev)
    PROVE  IInv'
<1>. DEFINE p == current_pid
            mine == <<"blocked", p>>
            st == [status EXCEPT ![p] = "blocked"]
            un == [until EXCEPT ![p] = ev]
            woken == Woken(mine, st, un)
            h == RemoveFrom(high, p)
            l == RemoveFrom(low, p)
<1>. USE DEF IInv
<1>1. p \in Procs /\ p \in Pid
  BY ProcsArePids DEF Waitpid, Sane
<1>2. woken \in SUBSET Pid /\ \A w \in woken : st[w] = "blocked"
  BY DEF Woken
<1>3. PICK q \in Requeued(l, woken) :
             LET next == GetNextProcess(h, q)
             IN  /\ current_pid' = next.pid
                 /\ high' = next.high
                 /\ low' = next.low
                 /\ status' = Wake(woken, st)
                 /\ until' = un
                 /\ saved' = [WakeResult(woken, saved, p) EXCEPT ![p] = Live]
                 /\ events' = events \cup {mine}
  BY DEF Waitpid, Record
<1>4. r0' = ev[2] /\ next_pid' = next_pid
  BY DEF Waitpid
<1>5. /\ h \in Seq(Pid) /\ IsInjective(h) /\ Range(h) = Range(high) \ {p}
      /\ l \in Seq(Pid) /\ IsInjective(l) /\ Range(l) = Range(low) \ {p}
  BY RemoveFromProperties DEF TypeOK, QueuesWellFormed
<1>6. st \in [Pid -> Status] /\ un \in [Pid -> Event] /\ status' \in [Pid -> Status]
  BY <1>1, <1>3 DEF TypeOK, Status, Wake
<1>7. \A w \in Pid : st[w] = IF w = p THEN "blocked" ELSE status[w]
  BY <1>1 DEF TypeOK
<1>8. \A w \in Pid : status'[w] = IF w \in woken THEN "running" ELSE st[w]
  BY <1>3 DEF Wake
<1>9. saved' \in [Pid -> Word] /\ r0' \in Word
  BY <1>1, <1>3, <1>4 DEF TypeOK, WakeResult, Word, Event
<1>10. events' \in SUBSET Event
  BY <1>1, <1>3 DEF TypeOK, Event, EventKinds
<1>11. Procs' = Procs /\ Procs \subseteq Pid /\ NoPid \notin Procs
  BY <1>4, ProcsArePids DEF Procs
<1>. HIDE DEF h, l, st, un, woken, mine
<1>12. q \in Seq(Pid) /\ IsInjective(q) /\ Range(q) = Range(l) \cup woken
  BY <1>2, <1>5, RequeuedProperties
<1>13. Range(h) \subseteq Range(q)
  BY <1>5, <1>12 DEF QueuesWellFormed
<1>. DEFINE next == GetNextProcess(h, q)
<1>14. /\ next.high \in Seq(Pid) /\ IsInjective(next.high) /\ Range(next.high) = Range(h)
       /\ next.low \in Seq(Pid) /\ IsInjective(next.low) /\ Range(next.low) = Range(q)
       /\ next.pid \in Pid \cup {NoPid}
       /\ next.pid # NoPid => next.pid \in Range(q)
  BY <1>5, <1>12, <1>13, GetNextProperties
<1>15. /\ current_pid' = next.pid /\ high' = next.high /\ low' = next.low
       /\ until' = un /\ events' = events \cup {mine}
  BY <1>3
<1>. HIDE DEF next
<1>16. QueuesWellFormed'
  BY <1>13, <1>14, <1>15 DEF QueuesWellFormed
<1>17. \A w \in Pid : status'[w] = "none" <=> w \notin Procs'
  BY <1>1, <1>2, <1>7, <1>8, <1>11 DEF TypeOK
<1>18. TypeOK'
  BY <1>4, <1>6, <1>9, <1>10, <1>14, <1>15, <1>17 DEF TypeOK
<1>19. RunnableIsQueued'
  BY <1>5, <1>7, <1>8, <1>11, <1>12, <1>14, <1>15 DEF RunnableIsQueued
<1>20. CurrentIsQueued'
  BY <1>11, <1>14, <1>15 DEF CurrentIsQueued, Sane
<1>21. TerminatedIsRecorded'
  BY <1>7, <1>8, <1>11, <1>15 DEF TerminatedIsRecorded
<1>. QED BY <1>16, <1>18, <1>19, <1>20, <1>21

\* Every handler and every user step preserves the invariant.
LEMMA NextIInv == IInv /\ [Next]_vars => IInv'
<1>. SUFFICES ASSUME IInv, [Next]_vars PROVE IInv'
  OBVIOUS
<1>1. CASE Tick
  BY <1>1, SchedulerRunStep DEF Tick
<1>2. CASE Compute
  BY <1>2, QuietSteps DEF Compute, Word
<1>3. CASE Yield
  BY <1>3, SchedulerRunStep DEF Yield
<1>4. CASE Exit
  BY <1>4, ExitStep
<1>5. CASE Fork
  BY <1>5, ForkStep
<1>6. CASE Exec
  BY <1>6, ExecStep
<1>7. CASE \E p \in Pid : Kill(p)
  BY <1>7, KillStep
<1>8. CASE KillOther
  BY <1>8, QuietSteps DEF KillOther, Word
<1>9. CASE \E p \in Pid, prio \in 0..2 : SetPriority(p, prio)
  BY <1>9, SetPriorityStep
<1>10. CASE \E ev \in WaitKinds \X Pid : WaitpidNohang(ev)
  <2>1. PICK ev \in WaitKinds \X Pid : WaitpidNohang(ev)
    BY <1>10
  <2>2. r0' \in Word
    BY <2>1 DEF WaitpidNohang, Word
  <2>. QED BY <2>1, <2>2, QuietSteps DEF WaitpidNohang
<1>11. CASE \E ev \in WaitKinds \X Pid : Waitpid(ev)
  <2>1. WaitKinds \X Pid \subseteq Event
    BY WaitKindsAssumption DEF Event
  <2>. QED BY <1>11, <2>1, WaitpidStep
<1>12. CASE UNCHANGED vars
  <2>1. UNCHANGED <<current_pid, next_pid, queues, pcbs, events>> /\ r0' = r0
    BY <1>12 DEF vars
  <2>2. r0' \in Word
    BY <2>1 DEF IInv, TypeOK
  <2>. QED BY <2>1, <2>2, QuietSteps
<1>. QED BY <1>1, <1>2, <1>3, <1>4, <1>5, <1>6, <1>7, <1>8, <1>9, <1>10, <1>11, <1>12 DEF Next

\* The invariant holds in every reachable state.
THEOREM SchedulerInvariant == Spec => []IInv
BY InitIInv, NextIInv, PTL DEF Spec

\* Every variable keeps its kind, and exactly the pids given out have a pcb.
THEOREM TypeCorrect == Spec => []TypeOK
<1>1. IInv => TypeOK
  BY DEF IInv
<1>. QED BY <1>1, SchedulerInvariant, PTL

\* The run queues never hold a pid twice and the high one is part of the low
\* one, for any number of processes and whatever arguments users pass.
THEOREM QueuesStayWellFormed == Spec => []QueuesWellFormed
<1>1. IInv => QueuesWellFormed
  BY DEF IInv
<1>. QED BY <1>1, SchedulerInvariant, PTL

\* No runnable process is ever lost from the queues.
THEOREM NoProcessLost == Spec => []RunnableIsQueued
<1>1. IInv => RunnableIsQueued
  BY DEF IInv
<1>. QED BY <1>1, SchedulerInvariant, PTL

\* The process on the CPU can always be scheduled again.
THEOREM CurrentStaysQueued == Spec => []CurrentIsQueued
<1>1. IInv => CurrentIsQueued
  BY DEF IInv
<1>. QED BY <1>1, SchedulerInvariant, PTL

\* Every termination is on record for a waitpid with WAITPID_NOHANG.
THEOREM TerminationsAreRecorded == Spec => []TerminatedIsRecorded
<1>1. IInv => TerminatedIsRecorded
  BY DEF IInv
<1>. QED BY <1>1, SchedulerInvariant, PTL

-----------------------------------------------------------------------------
(* Priorities.                                                             *)

\* Every switch is to the head of the high queue unless that queue is empty.
LEMMA HighFirstStep ==
    ASSUME IInv, [Next]_vars
    PROVE  current_pid' # current_pid /\ high' # <<>> => current_pid' \in Range(high')
<1>. USE DEF IInv
<1>1. ASSUME SchedulerRun PROVE high' # <<>> => current_pid' \in Range(high')
  BY <1>1, GetNextProperties DEF SchedulerRun, TypeOK, QueuesWellFormed
<1>2. CASE Exit
  <2>. DEFINE p == current_pid
              next == GetNextProcess(RemoveFrom(high, p), RemoveFrom(low, p))
  <2>1. p \in Pid
    BY <1>2, ProcsArePids DEF Exit, Sane
  <2>2. /\ current_pid' = next.pid /\ high' = next.high
        /\ \E woken \in SUBSET Pid : low' \in Requeued(next.low, woken)
    BY <1>2 DEF Exit, Woken
  <2>. QED BY <2>1, <2>2, TakeOut
<1>3. ASSUME NEW p \in Pid, Kill(p) PROVE high' # <<>> => current_pid' \in Range(high')
  <2>. DEFINE next == GetNextProcess(RemoveFrom(high, p), RemoveFrom(low, p))
  <2>2. /\ current_pid' = next.pid /\ high' = next.high
        /\ \E woken \in SUBSET Pid : low' \in Requeued(next.low, woken)
    BY <1>3 DEF Kill, Woken
  <2>. QED BY <2>2, TakeOut
<1>4. ASSUME NEW ev \in WaitKinds \X Pid, Waitpid(ev)
      PROVE  high' # <<>> => current_pid' \in Range(high')
  <2>. DEFINE h == RemoveFrom(high, current_pid)
              l == RemoveFrom(low, current_pid)
  <2>1. PICK q : \E woken \in SUBSET Pid :
              /\ q \in Requeued(l, woken)
              /\ current_pid' = GetNextProcess(h, q).pid
              /\ high' = GetNextProcess(h, q).high
    BY <1>4 DEF Waitpid, Woken
  <2>2. /\ h \in Seq(Pid) /\ IsInjective(h) /\ Range(h) = Range(high) \ {current_pid}
        /\ l \in Seq(Pid) /\ IsInjective(l) /\ Range(l) = Range(low) \ {current_pid}
    BY RemoveFromProperties DEF TypeOK, QueuesWellFormed
  <2>. HIDE DEF h, l
  <2>3. q \in Seq(Pid) /\ IsInjective(q) /\ Range(l) \subseteq Range(q)
    BY <2>1, <2>2, RequeuedProperties
  <2>4. Range(h) \subseteq Range(q)
    BY <2>2, <2>3 DEF QueuesWellFormed
  <2>. QED BY <2>1, <2>2, <2>3, <2>4, GetNextProperties
<1>5. ASSUME ~SchedulerRun, ~Exit, \A p \in Pid : ~Kill(p),
             \A ev \in WaitKinds \X Pid : ~Waitpid(ev)
      PROVE  current_pid' = current_pid
  BY <1>5 DEF Next, Tick, Yield, Compute, Fork, Exec, KillOther, SetPriority, WaitpidNohang, vars
<1>. QED BY <1>1, <1>2, <1>3, <1>4, <1>5

\* "All high-priority tasks will complete before any low-priority task resumes
\* execution": no handler switches to a low-priority process while the high
\* queue holds anyone.
THEOREM HighPriorityFirst == Spec => HighFirst
<1>1. IInv /\ [Next]_vars =>
        [current_pid' # current_pid /\ high' # <<>> => current_pid' \in Range(high')]_vars
  BY HighFirstStep
<1>. QED BY <1>1, SchedulerInvariant, PTL DEF Spec, HighFirst

-----------------------------------------------------------------------------
(* Wake-ups.                                                               *)

\* The wake-up loop leaves nobody blocked for the event it was called with.
LEMMA WakeProperties ==
    ASSUME NEW ev, NEW st, NEW un, NEW p \in Pid,
           Wake(Woken(ev, st, un), st)[p] = "blocked"
    PROVE  un[p] # ev
BY DEF Wake, Woken

\* One handler: whom it terminates is not awaited by anyone it leaves blocked.
LEMMA NoMissedWakeupStep ==
    ASSUME TypeOK, [Next]_vars, NEW p \in Pid, NEW q \in Pid,
           status[q] # "terminated", status'[q] = "terminated", status'[p] = "blocked"
    PROVE  until'[p] # <<"exited", q>>
<1>1. ASSUME NEW x, NEW st,
             status' = Wake(Woken(<<"exited", x>>, st, until), st), until' = until,
             st = [status EXCEPT ![x] = "terminated"]
      PROVE  until'[p] # <<"exited", q>>
  <2>1. st[q] = "terminated"
    BY <1>1 DEF Wake
  <2>2. q = x
    BY <1>1, <2>1 DEF TypeOK
  <2>. QED BY <1>1, <2>2, WakeProperties
<1>2. ASSUME NEW woken, NEW st, status' = Wake(woken, st), st[q] # "terminated"
      PROVE  FALSE
  BY <1>2 DEF Wake
<1>3. CASE Exit
  <2>. DEFINE goes == GetNextProcess(RemoveFrom(high, current_pid),
                                     RemoveFrom(low, current_pid)).pid # current_pid
              st == [status EXCEPT ![current_pid] = "terminated"]
  <2>1. until' = until
    BY <1>3 DEF Exit
  <2>2. goes => status' = Wake(Woken(<<"exited", current_pid>>, st, until), st)
    BY <1>3 DEF Exit
  <2>3. ~goes => status' = Wake({}, status)
    BY <1>3 DEF Exit
  <2>. HIDE DEF goes
  <2>. QED BY <2>1, <2>2, <2>3, <1>1, <1>2
<1>4. ASSUME NEW x \in Pid, Kill(x)
      PROVE  until'[p] # <<"exited", q>>
  <2>. DEFINE st == [status EXCEPT ![x] = "terminated"]
  <2>1. until' = until
    BY <1>4 DEF Kill
  <2>2. x \in Procs => status' = Wake(Woken(<<"exited", x>>, st, until), st)
    BY <1>4 DEF Kill
  <2>3. x \notin Procs => status' = Wake(Woken(<<"exited", x>>, status, until), status)
    BY <1>4 DEF Kill
  <2>. HIDE DEF st
  <2>. QED BY <2>1, <2>2, <2>3, <1>1, <1>2 DEF st
<1>5. CASE Fork
  <2>. DEFINE st == [status EXCEPT ![next_pid] = "ready"]
  <2>1. status' = Wake(Woken(<<"created", next_pid>>, st,
                             [until EXCEPT ![next_pid] = until[current_pid]]), st)
    BY <1>5 DEF Fork
  <2>2. st[q] # "terminated"
    BY DEF TypeOK
  <2>. HIDE DEF st
  <2>. QED BY <2>1, <2>2, <1>2
<1>6. ASSUME NEW e, Waitpid(e)
      PROVE  until'[p] # <<"exited", q>>
  <2>. DEFINE st == [status EXCEPT ![current_pid] = "blocked"]
  <2>1. status' = Wake(Woken(<<"blocked", current_pid>>, st,
                             [until EXCEPT ![current_pid] = e]), st)
    BY <1>6 DEF Waitpid
  <2>2. st[q] # "terminated"
    BY DEF TypeOK
  <2>. HIDE DEF st
  <2>. QED BY <2>1, <2>2, <1>2
<1>7. CASE Exec
  BY <1>7 DEF Exec, TypeOK
<1>8. CASE status' = status
  BY <1>8
<1>. QED
  BY <1>3, <1>4, <1>5, <1>6, <1>7, <1>8
  DEF Next, Tick, Yield, SchedulerRun, Compute, KillOther, SetPriority, WaitpidNohang, vars, pcbs

\* Nobody misses the end of a process, however it ends and for any number of
\* waiters.
THEOREM WakeupsNotMissed == Spec => NoMissedWakeup
<1>1. IInv /\ [Next]_vars =>
        [\A p, q \in Pid :
            status[q] # "terminated" /\ status'[q] = "terminated" /\ status'[p] = "blocked"
                => until'[p] # <<"exited", q>>]_vars
  BY NoMissedWakeupStep DEF IInv
<1>. QED BY <1>1, SchedulerInvariant, PTL DEF Spec, NoMissedWakeup
=============================================================================
