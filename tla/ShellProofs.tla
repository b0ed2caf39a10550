----------------------------- MODULE ShellProofs -----------------------------
(***************************************************************************)
(* Proofs about module Shell, for any number of processes, any keys typed, *)
(* any pid given to `kill' and a tick between any two steps: no key is     *)
(* lost or reordered, a forked child finds 0 in gpr[0], there is something *)
(* to run while the shell lives, a foreground job is waited for and what   *)
(* is terminated stays out, with the exceptions the properties name.       *)
(***************************************************************************)
EXTENDS Shell, SchedulerProofs, SequenceTheorems

-----------------------------------------------------------------------------
(* What the scheduler's handlers do when nobody is blocked.                *)

NobodyBlocked == \A p \in Pid : status[p] # "blocked"

\* TIMER0 and yield: the caller's gpr[0] is saved, that of whoever runs next is
\* loaded, and the queue keeps its members.
LEMMA RunEffect ==
    ASSUME IInv, Sane, SchedulerRun
    PROVE  /\ Range(low') = Range(low)
           /\ \A p \in Pid : saved'[p] = IF p = current_pid THEN r0 ELSE saved[p]
           /\ current_pid' \in Procs => r0' = saved'[current_pid']
           /\ current_pid' \in Range(low') \/ Range(low') = {}
           /\ UNCHANGED <<next_pid, status, events>>
<1>. DEFINE next == GetNextProcess(high, low)
<1>1. /\ Range(next.low) = Range(low)
      /\ next.pid \in Range(low) \/ Range(low) = {}
  BY GetNextProperties DEF IInv, TypeOK, QueuesWellFormed
<1>2. /\ low' = next.low /\ current_pid' = next.pid
      /\ saved' = SaveCurrent(r0) /\ r0' = Loaded(saved', next.pid)
      /\ UNCHANGED <<next_pid, status, events>>
  BY DEF SchedulerRun
<1>. HIDE DEF next
<1>. QED BY <1>1, <1>2 DEF SaveCurrent, Loaded, IInv, TypeOK

\* scheduler_kill: the victim, if it exists, is terminated and in no queue, and
\* only the caller's saved gpr[0] has changed.
LEMMA KillEffect ==
    ASSUME IInv, NobodyBlocked, NEW p \in Pid, Kill(p)
    PROVE  /\ Range(low') = Range(low) \ {p}
           /\ \A q \in Pid : status'[q] = IF q = p /\ p \in Procs THEN "terminated" ELSE status[q]
           /\ \A q \in Pid : q # current_pid => saved'[q] = saved[q]
           /\ current_pid' \in Range(low') \/ Range(low') = {}
           /\ r0' = 0
           /\ events' = events \cup {<<"exited", p>>}
           /\ next_pid' = next_pid
<1>. DEFINE next == GetNextProcess(RemoveFrom(high, p), RemoveFrom(low, p))
            st == IF p \in Procs THEN [status EXCEPT ![p] = "terminated"] ELSE status
            woken == Woken(<<"exited", p>>, st, until)
<1>1. \A q \in Pid : st[q] = IF q = p /\ p \in Procs THEN "terminated" ELSE status[q]
  BY DEF IInv, TypeOK
<1>2. woken = {} /\ woken \in SUBSET Pid
  BY <1>1 DEF Woken, NobodyBlocked
<1>3. /\ high' = next.high /\ current_pid' = next.pid
      /\ low' \in Requeued(next.low, woken)
      /\ status' = Wake(woken, st)
      /\ saved' = WakeResult(woken, SaveCurrent(p), p)
      /\ r0' = 0
      /\ events' = events \cup {<<"exited", p>>}
      /\ next_pid' = next_pid
  BY DEF Kill, Record
<1>4. /\ Range(low') = (Range(low) \ {p}) \cup woken
      /\ next.pid \in Range(low') \/ Range(low) \subseteq {p}
  BY <1>2, <1>3, TakeOut
<1>. HIDE DEF next, st, woken
<1>5. \A q \in Pid : status'[q] = st[q] /\ saved'[q] = SaveCurrent(p)[q]
  BY <1>2, <1>3 DEF Wake, WakeResult
<1>6. \A q \in Pid : q # current_pid => saved'[q] = saved[q]
  BY <1>5 DEF SaveCurrent, IInv, TypeOK
<1>. QED BY <1>1, <1>2, <1>3, <1>4, <1>5, <1>6

\* scheduler_exit: the caller is terminated and in no queue.
LEMMA ExitEffect ==
    ASSUME IInv, NobodyBlocked, Exit
    PROVE  /\ Range(low') = Range(low) \ {current_pid}
           /\ \A q \in Pid : status'[q] = IF q = current_pid THEN "terminated" ELSE status[q]
           /\ \A q \in Pid : q # current_pid => saved'[q] = saved[q]
           /\ current_pid' # current_pid
           /\ current_pid' \in Range(low') \/ Range(low') = {}
           /\ current_pid' \in Procs => r0' = saved[current_pid']
           /\ events' = events \cup {<<"exited", current_pid>>}
           /\ next_pid' = next_pid
<1>. DEFINE p == current_pid
            ev == <<"exited", p>>
            next == GetNextProcess(RemoveFrom(high, p), RemoveFrom(low, p))
            ran == SaveCurrent(Live)
            st == IF next.pid # p THEN [status EXCEPT ![p] = "terminated"] ELSE status
            woken == IF next.pid # p THEN Woken(ev, st, until) ELSE {}
<1>1. p \in Procs /\ p \in Pid
  BY ProcsArePids DEF Exit, Sane, IInv
<1>2. \A q \in Pid : st[q] = IF q = p /\ next.pid # p THEN "terminated" ELSE status[q]
  BY DEF IInv, TypeOK
<1>3. woken = {} /\ woken \in SUBSET Pid
  BY <1>2 DEF Woken, NobodyBlocked
<1>4. /\ current_pid' = next.pid
      /\ high' = next.high
      /\ low' \in Requeued(next.low, woken)
      /\ status' = Wake(woken, st)
      /\ saved' = WakeResult(woken, ran, p)
      /\ r0' = Loaded(ran, next.pid)
      /\ events' = IF next.pid # p THEN events \cup {ev} ELSE events
      /\ next_pid' = next_pid
  BY DEF Exit, Record
<1>5. /\ Range(low') = (Range(low) \ {p}) \cup woken /\ next.pid # p
      /\ next.pid \in Range(low') \/ Range(low) \subseteq {p}
  BY <1>1, <1>3, <1>4, TakeOut
<1>. HIDE DEF next, st, woken
<1>6. \A q \in Pid : status'[q] = st[q] /\ saved'[q] = ran[q]
  BY <1>3, <1>4 DEF Wake, WakeResult
<1>7. \A q \in Pid : q # p => ran[q] = saved[q]
  BY DEF SaveCurrent, IInv, TypeOK
<1>8. current_pid' \in Procs => r0' = saved[current_pid']
  BY <1>4, <1>5, <1>7, ProcsArePids DEF Loaded, IInv
<1>. QED BY <1>2, <1>3, <1>4, <1>5, <1>6, <1>7, <1>8

\* scheduler_fork: the child is new, ready, queued and finds 0.
LEMMA ForkEffect ==
    ASSUME IInv, NobodyBlocked, Fork
    PROVE  /\ next_pid \in Pid /\ next_pid \notin Procs /\ next_pid # Shell
           /\ Range(low') = Range(low) \cup {next_pid}
           /\ \A q \in Pid : status'[q] = IF q = next_pid THEN "ready" ELSE status[q]
           /\ \A q \in Pid : saved'[q] = IF q = next_pid THEN 0 ELSE saved[q]
           /\ events' = events \cup {<<"created", next_pid>>}
           /\ next_pid' = next_pid + 1 /\ current_pid' = current_pid
           /\ r0' = next_pid
           /\ Procs' = Procs \cup {next_pid}
<1>. DEFINE child == next_pid
            st == [status EXCEPT ![child] = "ready"]
            un == [until EXCEPT ![child] = until[current_pid]]
            woken == Woken(<<"created", child>>, st, un)
            q == AfterSetPriorityLow(low, child, 1)
            sv == [saved EXCEPT ![child] = 0]
<1>1. child \in Pid /\ child \notin Procs /\ child # Shell
  BY DEF Fork, IInv, TypeOK, Pid, Procs, Shell
<1>2. \A x \in Pid : st[x] = IF x = child THEN "ready" ELSE status[x]
  BY DEF IInv, TypeOK
<1>3. \A x \in Pid : sv[x] = IF x = child THEN 0 ELSE saved[x]
  BY DEF IInv, TypeOK
<1>4. /\ low' \in Requeued(q, woken)
      /\ status' = Wake(woken, st)
      /\ saved' = WakeResult(woken, sv, child)
      /\ events' = events \cup {<<"created", child>>}
      /\ next_pid' = next_pid + 1 /\ current_pid' = current_pid /\ r0' = child
  BY DEF Fork, Record
<1>5. q \in Seq(Pid) /\ IsInjective(q) /\ Range(q) = Range(low) \cup {child}
  BY <1>1, RequeueProperties DEF IInv, TypeOK, QueuesWellFormed, AfterSetPriorityLow
<1>. HIDE DEF q, st, un, sv
<1>6. woken = {} /\ woken \in SUBSET Pid
  BY <1>2 DEF Woken, NobodyBlocked
<1>. HIDE DEF woken
<1>7. Range(low') = Range(low) \cup {child}
  BY <1>4, <1>5, <1>6, RequeuedProperties
<1>8. \A x \in Pid : status'[x] = st[x] /\ saved'[x] = sv[x]
  BY <1>4, <1>6 DEF Wake, WakeResult
<1>9. Procs' = Procs \cup {next_pid}
  BY <1>4 DEF Procs, IInv, TypeOK
<1>. QED BY <1>1, <1>2, <1>3, <1>4, <1>7, <1>8, <1>9

\* scheduler_setpriority with priority 0 or 1: the process is queued.
LEMMA SetPriorityEffect ==
    ASSUME IInv, NEW p \in Pid, NEW prio \in {0, 1}, SetPriority(p, prio)
    PROVE  /\ Range(low') = Range(low) \cup {p}
           /\ UNCHANGED <<current_pid, next_pid, status, saved, events>>
<1>1. /\ low' = Append(RemoveFrom(low, p), p)
      /\ UNCHANGED <<current_pid, next_pid, status, saved, events>>
  BY DEF SetPriority, AfterSetPriorityLow, pcbs
<1>. QED BY <1>1, RequeueProperties DEF IInv, TypeOK, QueuesWellFormed

-----------------------------------------------------------------------------
(* Where the shell and the programs may be.                                *)

\* The places of launch_process, where a child is being waited for, and those
\* where none is.
Launching == {"setpriority", "poll", "polled", "handle_input", "kill", "push", "yield"}
Idle == {"prompt", "fork", "forked", "yield &"}
Places == Idle \cup Launching \cup {"execed"}
Fresh == {"fresh job", "fresh kill"}

\* gpr[0] of the shell, in the trap frame or in its saved context.
Result == IF current_pid = Shell THEN r0 ELSE saved[Shell]

\* The result of fork is a child of the shell, or 0 by mistake.
ShellTypes ==
    /\ sh \in Places
    /\ stored_pid = NoPid \/ (stored_pid \in Procs /\ stored_pid # Shell)
    /\ sh \in Launching => stored_pid # NoPid
    /\ program \in [Pid -> Fresh \cup {"none", "job", "kill"}]
    /\ program[Shell] \notin Fresh
    /\ sh # "execed" => program[Shell] = "none"
    /\ sh = "forked" => Result = 0 \/ (Result \in Procs /\ Result # Shell)
    /\ NobodyBlocked

\* A step of the shell or of a program is one the scheduler's proofs cover.
LEMMA ShellStepIInv ==
    ASSUME IInv, ShellTypes, [ShellNext]_allvars
    PROVE  IInv'
<1>. USE DEF Next
<1>0. stored_pid # NoPid => stored_pid \in Pid
  BY ProcsArePids DEF ShellTypes, IInv
<1>1. CASE UNCHANGED vars
  BY <1>1, NextIInv
<1>2. CASE TimerTick
  BY <1>2, NextIInv DEF TimerTick
<1>3. CASE Launch \/ ExecInstead \/ YieldBackground \/ YieldWaiting
  BY <1>3, NextIInv DEF Launch, ExecInstead, YieldBackground, YieldWaiting
<1>4. CASE SetChildPriority
  <2>. DEFINE prio == IF command = "job !" THEN 0 ELSE 1
  <2>1. stored_pid \in Pid
    BY <1>0, <1>4 DEF SetChildPriority, At, ShellTypes, Launching
  <2>2. prio \in 0..2
    OBVIOUS
  <2>3. SetPriority(stored_pid, prio)
    BY <1>4 DEF SetChildPriority
  <2>. QED BY <2>1, <2>2, <2>3, NextIInv
<1>5. CASE PollChild
  <2>1. /\ r0' = IF <<"exited", stored_pid>> \in events THEN stored_pid ELSE 0
        /\ UNCHANGED <<current_pid, next_pid, queues, pcbs, events>>
        /\ stored_pid \in Pid
    BY <1>0, <1>5 DEF PollChild, WaitpidNohang, At, ShellTypes, Launching
  <2>2. r0' \in Word
    BY <2>1 DEF Word
  <2>. QED BY <2>1, <2>2, QuietSteps
<1>6. CASE KillChild
  <2>1. stored_pid \in Pid /\ Kill(stored_pid)
    BY <1>0, <1>6 DEF KillChild, At, ShellTypes, Launching
  <2>. QED BY <2>1, NextIInv
<1>7. CASE \E p \in Pid : ChildExec(p) \/ JobYield(p) \/ ChildExit(p)
  BY <1>7, NextIInv DEF ChildExec, JobYield, ChildExit
<1>8. CASE \E p, q \in Pid : KillCommand(p, q)
  BY <1>8, NextIInv DEF KillCommand
<1>. QED
  BY <1>1, <1>2, <1>3, <1>4, <1>5, <1>6, <1>7, <1>8
  DEF ShellNext, ShellStep, GetLine, StoreChild, TestResult, ReadKey, PushKey, Type, allvars

\* A process other than the shell, or the timer, leaves the shell's gpr[0] as it
\* is or sets it to 0.
LEMMA ResultKept ==
    ASSUME IInv, ShellTypes, sh \in {"forked", "polled"}, sh' = sh, [ShellNext]_allvars
    PROVE  /\ Result' \in {0, Result}
           /\ UNCHANGED <<next_pid, stored_pid>> /\ events \subseteq events'
<1>0. Shell \in Pid /\ Shell \in Procs
  BY MaxPidAssumption DEF Shell, Pid, Procs, IInv, TypeOK
<1>1. ASSUME UNCHANGED <<current_pid, r0, saved>> PROVE Result' = Result
  BY <1>1 DEF Result
<1>2. CASE UNCHANGED allvars \/ \E k \in Keys : Type(k)
  BY <1>1, <1>2 DEF allvars, shellvars, Type, vars, pcbs
<1>3. CASE TimerTick \/ \E p \in Pid : JobYield(p)
  <2>1. Sane /\ SchedulerRun /\ stored_pid' = stored_pid
    BY <1>3 DEF TimerTick, Tick, JobYield, Yield, shellvars
  <2>2. /\ saved'[Shell] = IF Shell = current_pid THEN r0 ELSE saved[Shell]
        /\ current_pid' \in Procs => r0' = saved'[current_pid']
        /\ UNCHANGED <<next_pid, events>>
    BY <1>0, <2>1, RunEffect
  <2>. QED BY <1>0, <2>1, <2>2 DEF Result
<1>4. ASSUME NEW p \in Pid, NEW prog, prog # "none", Runs(p, prog) PROVE p = current_pid /\ p # Shell
  BY <1>4 DEF Runs, ShellTypes
<1>5. CASE \E p, q \in Pid : KillCommand(p, q)
  <2>1. PICK p \in Pid, q \in Pid : KillCommand(p, q)
    BY <1>5
  <2>2. Kill(q) /\ stored_pid' = stored_pid /\ current_pid # Shell
    BY <1>4, <2>1 DEF KillCommand
  <2>3. /\ \A x \in Pid : x # current_pid => saved'[x] = saved[x]
        /\ r0' = 0 /\ next_pid' = next_pid /\ events \subseteq events'
    BY <2>2, KillEffect DEF ShellTypes
  <2>. QED BY <1>0, <2>2, <2>3 DEF Result
<1>6. CASE \E p \in Pid : ChildExit(p)
  <2>1. PICK p \in Pid : ChildExit(p)
    BY <1>6
  <2>2. Exit /\ stored_pid' = stored_pid /\ current_pid # Shell
    BY <1>4, <2>1 DEF ChildExit, shellvars
  <2>3. /\ \A x \in Pid : x # current_pid => saved'[x] = saved[x]
        /\ current_pid' \in Procs => r0' = saved[current_pid']
        /\ next_pid' = next_pid /\ events \subseteq events'
    BY <2>2, ExitEffect DEF ShellTypes
  <2>. QED BY <1>0, <2>2, <2>3 DEF Result
<1>7. CASE \E p \in Pid : ChildExec(p)
  <2>1. PICK p \in Pid : ChildExec(p)
    BY <1>7
  <2>2. /\ UNCHANGED <<current_pid, next_pid, events, stored_pid>>
        /\ saved' = SaveCurrent(Live) /\ current_pid # Shell
    BY <1>4, <2>1 DEF ChildExec, Exec
  <2>3. saved'[Shell] = saved[Shell]
    BY <1>0, <2>2 DEF SaveCurrent, IInv, TypeOK
  <2>. QED BY <2>2, <2>3 DEF Result
<1>8. ~ShellStep
  BY DEF ShellStep, GetLine, Launch, StoreChild, ExecInstead, YieldBackground, SetChildPriority,
     PollChild, TestResult, ReadKey, KillChild, PushKey, YieldWaiting, At
<1>. QED BY <1>2, <1>3, <1>5, <1>6, <1>7, <1>8 DEF ShellNext

\* Only processes that exist, the shell aside, are stored and forked.
LEMMA ShellTypesStep ==
    ASSUME IInv, ShellTypes, [ShellNext]_allvars
    PROVE  ShellTypes'
<1>0. /\ Procs \subseteq Pid /\ NoPid \notin Pid /\ Shell \in Pid
      /\ stored_pid # NoPid => stored_pid \in Pid
  BY ProcsArePids, MaxPidAssumption DEF ShellTypes, IInv, Shell, Pid
<1>. DEFINE Forked == sh = "forked" => Result = 0 \/ (Result \in Procs /\ Result # Shell)
<1>f. ASSUME sh' = "forked" => sh = "forked" PROVE Forked'
  <2>. SUFFICES ASSUME sh' = "forked", sh = "forked"
               PROVE  Result' = 0 \/ (Result' \in Procs' /\ Result' # Shell)
    BY <1>f
  <2>1. Result' \in {0, Result} /\ next_pid' = next_pid
    BY ResultKept
  <2>. QED BY <2>1 DEF ShellTypes, Procs
<1>. HIDE DEF Forked
<1>. USE DEF Places, Idle, Launching, Fresh
<1>1. ASSUME UNCHANGED <<next_pid, status>>, UNCHANGED <<stored_pid, program>>, Forked',
             sh' \in Places, sh' \in Launching => sh \in Launching, sh' = "execed" <=> sh = "execed"
      PROVE  ShellTypes'
  BY <1>1 DEF ShellTypes, NobodyBlocked, Procs, Forked
<1>2. CASE UNCHANGED allvars \/ TimerTick \/ \E k \in Keys : Type(k)
  <2>1. UNCHANGED <<next_pid, status, stored_pid, program, sh>>
    BY <1>2 DEF allvars, vars, pcbs, shellvars, TimerTick, Tick, SchedulerRun, Type
  <2>. QED BY <1>1, <1>f, <2>1 DEF ShellTypes
<1>3. CASE GetLine \/ ReadKey \/ PushKey \/ TestResult
  <2>1. UNCHANGED <<next_pid, status, stored_pid, program>>
    BY <1>3 DEF GetLine, ReadKey, PushKey, TestResult, vars, pcbs
  <2>2. /\ sh' \in Places \ {"forked", "execed"} /\ sh # "execed"
        /\ sh' \in Launching => sh \in Launching
    BY <1>3 DEF GetLine, ReadKey, PushKey, TestResult, At
  <2>. QED BY <1>1, <1>f, <2>1, <2>2
<1>4. CASE YieldBackground \/ YieldWaiting \/ SetChildPriority \/ PollChild
  <2>1. UNCHANGED <<next_pid, status, stored_pid, program>>
    BY <1>4
    DEF YieldBackground, YieldWaiting, SetChildPriority, PollChild, Yield, SchedulerRun,
        SetPriority, WaitpidNohang, pcbs
  <2>2. /\ sh' \in Places \ {"forked", "execed"} /\ sh # "execed"
        /\ sh' \in Launching => sh \in Launching
    BY <1>4 DEF YieldBackground, YieldWaiting, SetChildPriority, PollChild, At
  <2>. QED BY <1>1, <1>f, <2>1, <2>2
<1>5. CASE Launch
  <2>1. /\ next_pid \in Pid /\ next_pid # Shell
        /\ \A q \in Pid : status'[q] = IF q = next_pid THEN "ready" ELSE status[q]
        /\ Procs' = Procs \cup {next_pid}
        /\ r0' = next_pid /\ current_pid' = current_pid
    BY <1>5, ForkEffect DEF Launch, ShellTypes
  <2>2. program' = [program EXCEPT ![next_pid] =
                      IF IsKill(command) THEN "fresh kill" ELSE "fresh job"]
    BY <1>5 DEF Launch
  <2>3. sh' = "forked" /\ stored_pid' = stored_pid /\ current_pid = Shell /\ sh = "fork"
    BY <1>5 DEF Launch, At
  <2>4. /\ program' \in [Pid -> Fresh \cup {"none", "job", "kill"}]
        /\ program'[Shell] = "none"
    BY <1>0, <2>1, <2>2, <2>3 DEF ShellTypes
  <2>5. NobodyBlocked'
    BY <2>1 DEF NobodyBlocked, ShellTypes
  <2>6. stored_pid' = NoPid \/ (stored_pid' \in Procs' /\ stored_pid' # Shell)
    BY <2>1, <2>3 DEF ShellTypes
  <2>7. Result' \in Procs' /\ Result' # Shell
    BY <2>1, <2>3 DEF Result
  <2>. QED BY <2>3, <2>4, <2>5, <2>6, <2>7 DEF ShellTypes
<1>6. CASE StoreChild
  <2>1. /\ sh = "forked" /\ current_pid = Shell /\ r0 # 0
        /\ UNCHANGED <<next_pid, status, program>>
        /\ \/ sh' = "yield &" /\ stored_pid' = stored_pid
           \/ sh' = "setpriority" /\ stored_pid' = r0
    BY <1>6 DEF StoreChild, At, vars, pcbs
  <2>2. r0 \in Procs /\ r0 # Shell
    BY <2>1 DEF ShellTypes, Result
  <2>. QED BY <1>0, <2>1, <2>2 DEF ShellTypes, NobodyBlocked, Procs
<1>7. CASE ExecInstead
  <2>1. /\ next_pid' = next_pid /\ stored_pid' = stored_pid /\ sh' = "execed"
        /\ status' = [status EXCEPT ![current_pid] = "running"]
        /\ \E prog \in {"job", "kill"} : program' = [program EXCEPT ![Shell] = prog]
    BY <1>7 DEF ExecInstead, Exec
  <2>2. NobodyBlocked'
    BY <2>1 DEF NobodyBlocked, ShellTypes, IInv, TypeOK
  <2>. QED BY <1>0, <2>1, <2>2 DEF ShellTypes, Procs
<1>8. CASE KillChild
  <2>1. stored_pid \in Pid /\ Kill(stored_pid)
    BY <1>0, <1>8 DEF KillChild, At, ShellTypes
  <2>2. (\A q \in Pid : status'[q] \in {"terminated", status[q]}) /\ next_pid' = next_pid
    BY <2>1, KillEffect DEF ShellTypes
  <2>3. sh' = "push" /\ sh = "kill" /\ UNCHANGED <<stored_pid, program>>
    BY <1>8 DEF KillChild, At
  <2>. QED BY <2>2, <2>3 DEF ShellTypes, NobodyBlocked, Procs
<1>9. ASSUME NEW p \in Pid, JobYield(p) PROVE ShellTypes'
  <2>1. UNCHANGED <<next_pid, status, stored_pid, program, sh>>
    BY <1>9 DEF JobYield, Yield, SchedulerRun, shellvars
  <2>. QED BY <1>1, <1>f, <2>1 DEF ShellTypes
<1>10. ASSUME NEW p \in Pid, NEW prog \in {"job", "kill"}, NEW old, old # "none", Runs(p, old),
              program' = [program EXCEPT ![p] = prog], UNCHANGED <<sh, stored_pid, next_pid>>,
              NobodyBlocked'
       PROVE  ShellTypes'
  <2>1. sh # "execed" => p # Shell
    BY <1>10 DEF Runs, ShellTypes
  <2>2. Forked'
    BY <1>10, <1>f
  <2>3. /\ program' \in [Pid -> Fresh \cup {"none", "job", "kill"}]
        /\ program'[Shell] \notin Fresh
        /\ sh' # "execed" => program'[Shell] = "none"
    BY <1>0, <1>10, <2>1 DEF ShellTypes
  <2>. QED BY <1>10, <2>2, <2>3 DEF ShellTypes, Procs, Forked
<1>11. ASSUME NEW p \in Pid, ChildExec(p) PROVE ShellTypes'
  <2>1. /\ next_pid' = next_pid /\ UNCHANGED <<sh, stored_pid>>
        /\ status' = [status EXCEPT ![current_pid] = "running"]
    BY <1>11 DEF ChildExec, Exec
  <2>2. NobodyBlocked'
    BY <2>1 DEF NobodyBlocked, ShellTypes, IInv, TypeOK
  <2>3. \E old \in Fresh, prog \in {"job", "kill"} :
          Runs(p, old) /\ program' = [program EXCEPT ![p] = prog]
    BY <1>11 DEF ChildExec
  <2>. QED BY <1>10, <2>1, <2>2, <2>3
<1>12. ASSUME NEW p \in Pid, NEW q \in Pid, KillCommand(p, q) PROVE ShellTypes'
  <2>1. (\A x \in Pid : status'[x] \in {"terminated", status[x]}) /\ next_pid' = next_pid
    BY <1>12, KillEffect DEF ShellTypes, KillCommand
  <2>2. /\ UNCHANGED <<sh, stored_pid>> /\ Runs(p, "kill")
        /\ program' = [program EXCEPT ![p] = "job"]
    BY <1>12 DEF KillCommand
  <2>3. NobodyBlocked'
    BY <2>1 DEF NobodyBlocked, ShellTypes
  <2>. QED BY <1>10, <2>1, <2>2, <2>3
<1>13. ASSUME NEW p \in Pid, ChildExit(p) PROVE ShellTypes'
  <2>1. (\A x \in Pid : status'[x] \in {"terminated", status[x]}) /\ next_pid' = next_pid
    BY <1>13, ExitEffect DEF ShellTypes, ChildExit
  <2>2. UNCHANGED <<sh, stored_pid, program>>
    BY <1>13 DEF ChildExit, shellvars
  <2>3. NobodyBlocked' /\ Forked'
    BY <1>f, <2>1, <2>2 DEF NobodyBlocked, ShellTypes
  <2>. QED BY <2>1, <2>2, <2>3 DEF ShellTypes, Procs, Forked
<1>. QED
  BY <1>2, <1>3, <1>4, <1>5, <1>6, <1>7, <1>8, <1>9, <1>11, <1>12, <1>13 DEF ShellNext, ShellStep

\* The scheduler's invariant and ShellTypes hold in every state.
LEMMA ShellTypesInvariant == ShellSpec => [](IInv /\ ShellTypes)
<1>1. ShellInit => IInv /\ ShellTypes
  <2>1. Shell \in Pid
    BY MaxPidAssumption DEF Shell, Pid
  <2>. QED BY <2>1, InitIInv DEF ShellInit, Init, ShellTypes, Places, Idle, Launching, Fresh, NobodyBlocked
<1>2. IInv /\ ShellTypes /\ [ShellNext]_allvars => (IInv /\ ShellTypes)'
  BY ShellStepIInv, ShellTypesStep
<1>. QED BY <1>1, <1>2, PTL DEF ShellSpec

-----------------------------------------------------------------------------
(* What a forked child finds in gpr[0].                                    *)

\* A child that has not returned from _fork yet has 0 in its gpr[0], be it in
\* the trap frame or in its saved context.
FreshZero ==
    \A p \in Pid : program[p] \in Fresh =>
        p \in Procs /\ IF p = current_pid THEN r0 = 0 ELSE saved[p] = 0

\* Every step preserves it: kill and waitpid write gpr[0] of whatever frame is
\* loaded, and exec, exit and kill save a context, but never that of a child
\* that is still fresh.
LEMMA FreshZeroStep ==
    ASSUME IInv, ShellTypes, FreshZero, [ShellNext]_allvars
    PROVE  FreshZero'
<1>0. Procs \subseteq Pid /\ program[Shell] \notin Fresh
  BY ProcsArePids DEF ShellTypes, IInv
<1>1. ASSUME Sane, SchedulerRun, program' = program PROVE FreshZero'
  <2>1. /\ \A p \in Pid : saved'[p] = IF p = current_pid THEN r0 ELSE saved[p]
        /\ current_pid' \in Procs => r0' = saved'[current_pid']
        /\ Procs' = Procs
    BY <1>1, RunEffect DEF Procs
  <2>. QED BY <1>1, <2>1 DEF FreshZero
<1>2. ASSUME UNCHANGED <<current_pid, next_pid, saved, program>>,
             r0' = r0 \/ current_pid = Shell
      PROVE  FreshZero'
  BY <1>0, <1>2 DEF FreshZero, Procs
<1>3. ASSUME NEW q \in Pid, Kill(q), program[current_pid] \notin Fresh,
             \A p \in Pid : program'[p] \in Fresh => program[p] \in Fresh
      PROVE  FreshZero'
  <2>1. /\ \A p \in Pid : p # current_pid => saved'[p] = saved[p]
        /\ r0' = 0 /\ Procs' = Procs
    BY <1>3, KillEffect DEF ShellTypes, Procs
  <2>. QED BY <1>3, <2>1 DEF FreshZero
<1>4. CASE \/ UNCHANGED allvars \/ \E k \in Keys : Type(k)
           \/ GetLine \/ StoreChild \/ TestResult \/ ReadKey \/ PushKey
  BY <1>2, <1>4
  DEF allvars, shellvars, GetLine, StoreChild, TestResult, ReadKey, PushKey, Type, vars, pcbs
<1>5. CASE SetChildPriority \/ PollChild
  BY <1>2, <1>5 DEF SetChildPriority, PollChild, At, SetPriority, WaitpidNohang, pcbs
<1>6. CASE TimerTick \/ YieldBackground \/ YieldWaiting \/ \E p \in Pid : JobYield(p)
  BY <1>1, <1>6 DEF TimerTick, YieldBackground, YieldWaiting, JobYield, Tick, Yield, shellvars
<1>7. CASE Launch
  <2>1. /\ next_pid \in Pid /\ next_pid \notin Procs
        /\ \A q \in Pid : saved'[q] = IF q = next_pid THEN 0 ELSE saved[q]
        /\ current_pid' = current_pid /\ Procs' = Procs \cup {next_pid}
    BY <1>7, ForkEffect DEF Launch, ShellTypes
  <2>2. /\ current_pid = Shell /\ current_pid \in Procs
        /\ \A q \in Pid : q # next_pid => program'[q] = program[q]
    BY <1>7 DEF Launch, At, Sane, ShellTypes
  <2>. QED BY <1>0, <2>1, <2>2 DEF FreshZero
<1>8. CASE KillChild
  <2>1. stored_pid \in Pid /\ Kill(stored_pid) /\ current_pid = Shell /\ program' = program
    BY <1>0, <1>8 DEF KillChild, At, ShellTypes, Launching
  <2>. QED BY <1>0, <1>3, <2>1
<1>9. ASSUME NEW p \in Pid, NEW q \in Pid, KillCommand(p, q) PROVE FreshZero'
  <2>1. Kill(q) /\ program[current_pid] = "kill" /\ program' = [program EXCEPT ![p] = "job"]
    BY <1>9 DEF KillCommand, Runs
  <2>2. program[current_pid] \notin Fresh
    BY <2>1 DEF Fresh
  <2>3. \A x \in Pid : program'[x] \in Fresh => program[x] \in Fresh
    BY <2>1 DEF ShellTypes, Fresh
  <2>. QED BY <1>3, <2>1, <2>2, <2>3
<1>10. ASSUME NEW p \in Pid, ChildExit(p) PROVE FreshZero'
  <2>1. /\ \A q \in Pid : q # current_pid => saved'[q] = saved[q]
        /\ current_pid' # current_pid
        /\ current_pid' \in Procs => r0' = saved[current_pid']
        /\ Procs' = Procs
    BY <1>10, ExitEffect DEF ChildExit, ShellTypes, Procs
  <2>2. program[current_pid] = "job" /\ program' = program
    BY <1>10 DEF ChildExit, Runs, shellvars
  <2>3. \A x \in Pid : program'[x] \in Fresh => x # current_pid /\ program[x] \in Fresh
    BY <2>2 DEF Fresh
  <2>. QED BY <2>1, <2>3 DEF FreshZero
<1>11. ASSUME NEW p \in Pid, ChildExec(p) \/ (ExecInstead /\ p = Shell) PROVE FreshZero'
  <2>1. /\ p = current_pid /\ UNCHANGED <<current_pid, next_pid>>
        /\ saved' = SaveCurrent(Live)
        /\ \E prog \in {"job", "kill"} : program' = [program EXCEPT ![p] = prog]
    BY <1>11 DEF ChildExec, ExecInstead, At, Runs, Exec
  <2>2. \A x \in Pid : x # p => saved'[x] = saved[x]
    BY <2>1 DEF SaveCurrent, IInv, TypeOK
  <2>3. \A x \in Pid : program'[x] \in Fresh => x # p /\ program[x] \in Fresh
    BY <2>1 DEF Fresh, ShellTypes
  <2>. QED BY <2>1, <2>2, <2>3 DEF FreshZero, Procs
<1>12. Shell \in Pid
  BY MaxPidAssumption DEF Shell, Pid
<1>. QED
  BY <1>4, <1>5, <1>6, <1>7, <1>8, <1>9, <1>10, <1>11, <1>12 DEF ShellNext, ShellStep

\* However the timer, the shell and the other programs interleave, a forked
\* child finds 0 when it returns from _fork and never takes itself for the shell.
THEOREM ForkedChildFindsZero == ShellSpec => []ChildFindsZero
<1>1. ShellInit => FreshZero
  BY DEF ShellInit, FreshZero, Fresh
<1>2. IInv /\ ShellTypes /\ FreshZero /\ [ShellNext]_allvars => FreshZero'
  BY FreshZeroStep
<1>3. FreshZero => ChildFindsZero
  BY DEF FreshZero, ChildFindsZero, Runs, Fresh
<1>. QED BY <1>1, <1>2, <1>3, ShellTypesInvariant, PTL DEF ShellSpec

-----------------------------------------------------------------------------
(* The keys.                                                               *)

\* handle_input holds a key only between reading and pushing it, and the four
\* places a key can be add up to what was typed.
KeysInv ==
    /\ stdin_buffer \in Seq(Keys)
    /\ sh_stdin_buffer \in Seq(Keys)
    /\ held \in Seq(Keys)
    /\ taken \in Seq(Keys)
    /\ held # <<>> => sh \in {"kill", "push"}
    /\ InputInOrder

\* Taking the first key of a queue and putting it at the end of the one before.
LEMMA MoveHead ==
    ASSUME NEW S, NEW a \in Seq(S), NEW b \in Seq(S), b # <<>>
    PROVE  /\ Head(b) \in S /\ Tail(b) \in Seq(S)
           /\ <<Head(b)>> \o Tail(b) = b
           /\ Append(a, Head(b)) \in Seq(S)
           /\ Append(a, Head(b)) \o Tail(b) = a \o b
           /\ (a \o <<Head(b)>>) \o Tail(b) = a \o b
<1>1. Head(b) \in S /\ Tail(b) \in Seq(S) /\ <<Head(b)>> \in Seq(S)
  BY HeadTailProperties
<1>2. <<Head(b)>> \o Tail(b) = b
  OBVIOUS
<1>3. Append(a, Head(b)) = a \o <<Head(b)>>
  BY <1>1, AppendIsConcat
<1>4. (a \o <<Head(b)>>) \o Tail(b) = a \o (<<Head(b)>> \o Tail(b))
  BY <1>1, ConcatAssociative
<1>. QED BY <1>1, <1>2, <1>3, <1>4

\* A key typed goes to the end of the last queue, and so to the end of all.
LEMMA AppendAfter ==
    ASSUME NEW S, NEW a \in Seq(S), NEW b \in Seq(S), NEW k \in S
    PROVE  a \o Append(b, k) = Append(a \o b, k)
<1>1. a \o b \in Seq(S) /\ <<k>> \in Seq(S)
  OBVIOUS
<1>2. Append(a \o b, k) = (a \o b) \o <<k>> /\ Append(b, k) = b \o <<k>>
  BY <1>1, AppendIsConcat
<1>3. (a \o b) \o <<k>> = a \o (b \o <<k>>)
  BY <1>1, ConcatAssociative
<1>. QED BY <1>2, <1>3

\* Every step preserves it: a key moves from the head of one queue to the tail
\* of the next, while the UART interrupt appends to the last.
LEMMA KeysStep ==
    ASSUME ShellTypes, KeysInv, [ShellNext]_allvars
    PROVE  KeysInv'
<1>. DEFINE moved == <<held, stdin_buffer, sh_stdin_buffer, typed, taken>>
<1>0. /\ stdin_buffer \in Seq(Keys) /\ sh_stdin_buffer \in Seq(Keys)
      /\ taken \in Seq(Keys) /\ held \in Seq(Keys)
  BY DEF KeysInv
<1>1. ASSUME UNCHANGED moved, held # <<>> => sh' \in {"kill", "push"} PROVE KeysInv'
  BY <1>1 DEF KeysInv, InputInOrder
<1>2. ASSUME NEW k \in Keys, Type(k) PROVE KeysInv'
  <2>. DEFINE before == (taken \o sh_stdin_buffer) \o held
  <2>1. /\ stdin_buffer' = Append(stdin_buffer, k) /\ typed' = Append(typed, k)
        /\ UNCHANGED <<sh, held, sh_stdin_buffer, taken>>
    BY <1>2 DEF Type
  <2>2. before \o stdin_buffer = typed
    BY DEF KeysInv, InputInOrder
  <2>3. before \in Seq(Keys)
    BY <1>0, ConcatProperties
  <2>. HIDE DEF before
  <2>4. before \o Append(stdin_buffer, k) = Append(before \o stdin_buffer, k)
    BY <1>0, <2>3, AppendAfter
  <2>5. stdin_buffer' \in Seq(Keys)
    BY <2>1 DEF KeysInv
  <2>. QED BY <2>1, <2>2, <2>4, <2>5 DEF KeysInv, InputInOrder, before
<1>3. CASE GetLine
  <2>0. held = <<>> /\ UNCHANGED <<held, typed>>
    BY <1>3 DEF GetLine, At, KeysInv
  <2>1. CASE sh_stdin_buffer # <<>>
    <3>1. /\ taken' = Append(taken, Head(sh_stdin_buffer))
          /\ sh_stdin_buffer' = Tail(sh_stdin_buffer)
          /\ stdin_buffer' = stdin_buffer
      BY <1>3, <2>1 DEF GetLine, NextChar
    <3>2. /\ taken' \in Seq(Keys) /\ sh_stdin_buffer' \in Seq(Keys)
          /\ taken' \o sh_stdin_buffer' = taken \o sh_stdin_buffer
      <4>0. sh_stdin_buffer # <<>>
        BY <2>1
      <4>1. /\ Append(taken, Head(sh_stdin_buffer)) \in Seq(Keys) /\ Tail(sh_stdin_buffer) \in Seq(Keys)
            /\ Append(taken, Head(sh_stdin_buffer)) \o Tail(sh_stdin_buffer) = taken \o sh_stdin_buffer
        BY <1>0, <4>0, MoveHead
      <4>. QED BY <3>1, <4>1
    <3>. QED BY <2>0, <3>1, <3>2 DEF KeysInv, InputInOrder
  <2>2. CASE sh_stdin_buffer = <<>>
    <3>1. /\ stdin_buffer # <<>>
          /\ taken' = Append(taken, Head(stdin_buffer))
          /\ sh_stdin_buffer' = <<>>
          /\ stdin_buffer' = Tail(stdin_buffer)
      BY <1>3, <2>2 DEF GetLine, NextChar
    <3>2. /\ taken' \in Seq(Keys) /\ stdin_buffer' \in Seq(Keys)
          /\ taken' \o stdin_buffer' = taken \o stdin_buffer
      <4>0. stdin_buffer # <<>>
        BY <3>1
      <4>1. /\ Append(taken, Head(stdin_buffer)) \in Seq(Keys) /\ Tail(stdin_buffer) \in Seq(Keys)
            /\ Append(taken, Head(stdin_buffer)) \o Tail(stdin_buffer) = taken \o stdin_buffer
        BY <1>0, <4>0, MoveHead
      <4>. QED BY <3>1, <4>1
    <3>3. /\ (taken \o <<>>) \o <<>> = taken
          /\ (taken' \o <<>>) \o <<>> = taken'
      BY <3>2, ConcatEmptySeq DEF KeysInv
    <3>. QED BY <2>0, <2>2, <3>1, <3>2, <3>3 DEF KeysInv, InputInOrder
  <2>. QED BY <2>1, <2>2
<1>4. CASE ReadKey
  <2>0. held = <<>> /\ UNCHANGED <<typed, taken, sh_stdin_buffer>>
    BY <1>4 DEF ReadKey, At, KeysInv, history
  <2>1. CASE stdin_buffer = <<>>
    BY <1>1, <1>4, <2>0, <2>1 DEF ReadKey
  <2>2. CASE stdin_buffer # <<>>
    <3>. DEFINE before == taken \o sh_stdin_buffer
                key == <<Head(stdin_buffer)>>
                rest == Tail(stdin_buffer)
    <3>1. held' = key /\ stdin_buffer' = rest /\ sh' \in {"kill", "push"}
      BY <1>4, <2>2 DEF ReadKey
    <3>2. (before \o <<>>) \o stdin_buffer = typed
      BY <2>0 DEF KeysInv, InputInOrder
    <3>3. before \in Seq(Keys)
      BY <1>0, ConcatProperties
    <3>4. /\ key \in Seq(Keys) /\ rest \in Seq(Keys)
          /\ key \o rest = stdin_buffer
      BY <2>2, HeadTailProperties, MoveHead DEF KeysInv
    <3>. HIDE DEF before
    <3>5. (before \o key) \o rest = before \o stdin_buffer
      <4>1. stdin_buffer \in Seq(Keys)
        BY <1>0
      <4>. QED BY ONLY <2>2, <3>3, <4>1, MoveHead
    <3>6. before \o <<>> = before
      BY <3>3, ConcatEmptySeq
    <3>. HIDE DEF key, rest
    <3>. QED BY <2>0, <3>1, <3>2, <3>4, <3>5, <3>6 DEF KeysInv, InputInOrder, before
  <2>. QED BY <2>1, <2>2
<1>5. CASE PushKey
  <2>1. /\ sh_stdin_buffer' = sh_stdin_buffer \o held /\ held' = <<>>
        /\ UNCHANGED <<typed, taken, stdin_buffer>>
    BY <1>5 DEF PushKey, history
  <2>2. /\ sh_stdin_buffer' \in Seq(Keys)
        /\ (taken \o sh_stdin_buffer) \o held = taken \o (sh_stdin_buffer \o held)
        /\ (taken \o sh_stdin_buffer') \o <<>> = taken \o sh_stdin_buffer'
    <3>1. sh_stdin_buffer' \in Seq(Keys)
      BY <1>0, <2>1, ConcatProperties
    <3>2. (taken \o sh_stdin_buffer) \o held = taken \o (sh_stdin_buffer \o held)
      BY ONLY <1>0, ConcatAssociative
    <3>3. taken \o sh_stdin_buffer' \in Seq(Keys)
      BY ONLY <1>0, <3>1, ConcatProperties
    <3>. QED BY <3>1, <3>2, <3>3, ConcatEmptySeq
  <2>. QED BY <2>1, <2>2 DEF KeysInv, InputInOrder
<1>6. CASE UNCHANGED allvars \/ TimerTick
  BY <1>1, <1>6 DEF allvars, TimerTick, shellvars, history, KeysInv
<1>7. CASE \/ Launch \/ StoreChild \/ ExecInstead \/ YieldBackground \/ SetChildPriority
           \/ PollChild \/ TestResult \/ KillChild \/ YieldWaiting
  <2>1. UNCHANGED moved /\ (held # <<>> => sh' \in {"kill", "push"})
    BY <1>7
    DEF Launch, StoreChild, ExecInstead, YieldBackground, SetChildPriority, PollChild, TestResult,
        KillChild, YieldWaiting, At, KeysInv, input
  <2>. QED BY <1>1, <2>1
<1>8. CASE \/ \E p \in Pid : ChildExec(p) \/ JobYield(p) \/ ChildExit(p)
           \/ \E p, q \in Pid : KillCommand(p, q)
  <2>1. UNCHANGED moved /\ sh' = sh
    BY <1>8 DEF ChildExec, JobYield, ChildExit, KillCommand, shellvars, history, input
  <2>. QED BY <1>1, <2>1 DEF KeysInv
<1>. QED BY <1>2, <1>3, <1>4, <1>5, <1>6, <1>7, <1>8 DEF ShellNext, ShellStep

\* Keys reach get_line in the order typed and none is lost, for any number of
\* keys and however the UART interrupt interleaves with the shell and its jobs.
THEOREM KeysKeepTheirOrder == ShellSpec => []InputInOrder
<1>1. ShellInit => KeysInv
  BY DEF ShellInit, KeysInv, InputInOrder
<1>2. ShellTypes /\ KeysInv /\ [ShellNext]_allvars => KeysInv'
  BY KeysStep
<1>3. KeysInv => InputInOrder
  BY DEF KeysInv
<1>. QED BY <1>1, <1>2, <1>3, ShellTypesInvariant, PTL DEF ShellSpec

-----------------------------------------------------------------------------
(* Job control.  A termination on record has taken place unless the pid was *)
(* named before it existed; what is terminated is queued by nothing but a   *)
(* setpriority that comes too late; and nothing is queued that has no pcb.  *)

Excepted == unborn \cup revived

JobsInv ==
    /\ \A p \in Pid : status[p] = "terminated" => p \notin Range(low) \/ p \in revived
    /\ \A p \in Pid : <<"exited", p>> \in events => status[p] = "terminated" \/ p \in Excepted
    /\ sh \in Idle /\ stored_pid \in Procs => <<"exited", stored_pid>> \in events
    /\ sh = "polled" => Result = 0 \/ <<"exited", stored_pid>> \in events
    /\ Range(low) \subseteq Procs
    /\ NeverWild

\* The third and the fourth part survive a step that leaves the shell where it
\* is or takes it to a place they say nothing of.
LEMMA WaitingKept ==
    ASSUME IInv, ShellTypes, JobsInv, [ShellNext]_allvars,
           stored_pid' = stored_pid, events \subseteq events', Procs' = Procs,
           sh' \in Idle => sh \in Idle, sh' = "polled" => sh = "polled"
    PROVE  /\ sh' \in Idle /\ stored_pid' \in Procs' => <<"exited", stored_pid'>> \in events'
           /\ sh' = "polled" => Result' = 0 \/ <<"exited", stored_pid'>> \in events'
<1>1. sh' \in Idle /\ stored_pid' \in Procs' => <<"exited", stored_pid'>> \in events'
  BY DEF JobsInv
<1>2. ASSUME sh' = "polled" PROVE Result' = 0 \/ <<"exited", stored_pid'>> \in events'
  <2>1. Result' \in {0, Result}
    BY <1>2, ResultKept
  <2>. QED BY <1>2, <2>1 DEF JobsInv
<1>. QED BY <1>1, <1>2

\* While the shell lives it is queued, so a handler that schedules finds a
\* process to run.
LEMMA SomethingToRun ==
    ASSUME IInv', ShellTypes', Range(low') \subseteq Procs',
           current_pid' \in Range(low') \/ Range(low') = {}
    PROVE  NeverWild'
<1>1. Shell \in Pid /\ Shell \in Procs'
  <2>1. next_pid' \in 2..(MaxPid + 1)
    BY DEF IInv, TypeOK
  <2>2. Procs' = 1..(next_pid' - 1) /\ Shell = 1 /\ Pid = 1..MaxPid
    BY DEF Procs, Shell, Pid
  <2>3. 1 \in 1..(next_pid' - 1) /\ 1 \in 1..MaxPid
    <3>1. MaxPid \in Nat /\ MaxPid # 0
      BY MaxPidAssumption
    <3>2. \A n \in 2..(MaxPid + 1) : 1 \in 1..(n - 1)
      BY ONLY <3>1
    <3>3. 1 \in 1..MaxPid
      BY ONLY <3>1
    <3>. QED BY ONLY <2>1, <3>2, <3>3
  <2>. QED BY <2>2, <2>3
<1>2. status'[Shell] \in {"running", "ready", "terminated"}
  BY <1>1 DEF IInv, TypeOK, Status, ShellTypes, NobodyBlocked
<1>3. status'[Shell] # "terminated" => Shell \in Range(low')
  BY <1>1, <1>2 DEF IInv, RunnableIsQueued
<1>. QED BY <1>3 DEF NeverWild, Sane

\* A process, existing or not, is terminated, by exit or by kill.
LEMMA TerminationKeepsJobs ==
    ASSUME IInv, ShellTypes, JobsInv, [ShellNext]_allvars, NEW p \in Pid,
           Range(low') = Range(low) \ {p},
           \A q \in Pid : status'[q] = IF q = p /\ p \in Procs THEN "terminated" ELSE status[q],
           events' = events \cup {<<"exited", p>>}, next_pid' = next_pid,
           current_pid' \in Range(low') \/ Range(low') = {},
           stored_pid' = stored_pid, sh' = sh \/ sh' = "push", revived' = revived,
           unborn' = IF p \in Procs THEN unborn ELSE unborn \cup {p}
    PROVE  JobsInv'
<1>0. Procs' = Procs
  BY DEF Procs
<1>1. \A q \in Pid : status'[q] = "terminated" => q \notin Range(low') \/ q \in revived'
  BY DEF JobsInv
<1>2. \A q \in Pid : <<"exited", q>> \in events' => status'[q] = "terminated" \/ q \in Excepted'
  BY DEF JobsInv, Excepted
<1>3. /\ sh' \in Idle /\ stored_pid' \in Procs' => <<"exited", stored_pid'>> \in events'
      /\ sh' = "polled" => Result' = 0 \/ <<"exited", stored_pid'>> \in events'
  BY <1>0, WaitingKept DEF Idle
<1>4. Range(low') \subseteq Procs'
  BY <1>0 DEF JobsInv
<1>5. NeverWild'
  <2>1. IInv' /\ ShellTypes'
    BY ShellStepIInv, ShellTypesStep
  <2>. QED BY <1>4, <2>1, SomethingToRun
<1>. QED BY <1>1, <1>2, <1>3, <1>4, <1>5 DEF JobsInv

\* A step that terminates nobody, records nothing and queues nobody new; it may
\* set a status only of a process that is not terminated, or revived.
LEMMA OthersKeepJobs ==
    ASSUME IInv, ShellTypes, JobsInv, [ShellNext]_allvars,
           \A q \in Pid : \/ status'[q] = status[q]
                          \/ /\ status'[q] # "terminated"
                             /\ status[q] = "terminated" => q \in revived,
           Range(low') = Range(low), events' = events,
           next_pid' = next_pid, stored_pid' = stored_pid, UNCHANGED <<unborn, revived>>,
           \/ Sane /\ current_pid' = current_pid
           \/ UNCHANGED <<current_pid, status>>
           \/ current_pid' \in Range(low') \/ Range(low') = {},
           sh' \in Idle => sh \in Idle, sh' = "polled" => sh = "polled"
    PROVE  JobsInv'
<1>0. Procs' = Procs
  BY DEF Procs
<1>1. \A q \in Pid : status'[q] = "terminated" => q \notin Range(low') \/ q \in revived'
  BY DEF JobsInv
<1>2. \A q \in Pid : <<"exited", q>> \in events' => status'[q] = "terminated" \/ q \in Excepted'
  BY DEF JobsInv, Excepted
<1>3. /\ sh' \in Idle /\ stored_pid' \in Procs' => <<"exited", stored_pid'>> \in events'
      /\ sh' = "polled" => Result' = 0 \/ <<"exited", stored_pid'>> \in events'
  BY <1>0, WaitingKept
<1>4. Range(low') \subseteq Procs'
  BY <1>0 DEF JobsInv
<1>5. NeverWild'
  <2>1. CASE Sane /\ current_pid' = current_pid
    BY <1>0, <2>1 DEF NeverWild, Sane
  <2>2. CASE UNCHANGED <<current_pid, status>>
    BY <1>0, <2>2 DEF NeverWild, Sane, JobsInv
  <2>3. CASE current_pid' \in Range(low') \/ Range(low') = {}
    <3>1. IInv' /\ ShellTypes'
      BY ShellStepIInv, ShellTypesStep
    <3>. QED BY <1>4, <2>3, <3>1, SomethingToRun
  <2>. QED BY <2>1, <2>2, <2>3
<1>. QED BY <1>1, <1>2, <1>3, <1>4, <1>5 DEF JobsInv

\* A terminated process is in no queue and not the one running, unless revived.
LEMMA JobsNoZombies ==
    ASSUME IInv, JobsInv
    PROVE  NoZombies
<1>. SUFFICES ASSUME NEW p \in Pid, status[p] = "terminated"
             PROVE  (p \notin Range(low) /\ current_pid # p) \/ p \in revived
  BY DEF NoZombies
<1>1. p \in Procs
  BY DEF IInv, TypeOK
<1>. QED BY <1>1 DEF JobsInv, IInv, CurrentIsQueued, Sane

\* Every step preserves JobsInv.
LEMMA JobsStep ==
    ASSUME IInv, ShellTypes, JobsInv, [ShellNext]_allvars
    PROVE  JobsInv'
<1>0. /\ Procs \subseteq Pid
      /\ sh \in Launching => stored_pid \in Pid /\ stored_pid \in Procs
  BY ProcsArePids DEF ShellTypes, IInv
<1>1. ASSUME UNCHANGED <<vars, stored_pid, unborn, revived>>,
             sh' \in Idle => sh \in Idle, sh' = "polled" => sh = "polled"
      PROVE  JobsInv'
  <2>1. UNCHANGED <<current_pid, next_pid, status, events, low>>
    BY <1>1 DEF vars, pcbs, queues
  <2>. QED BY <1>1, <2>1, OthersKeepJobs
<1>2. CASE \/ UNCHANGED allvars \/ \E k \in Keys : Type(k)
           \/ GetLine \/ ReadKey \/ PushKey
  <2>1. UNCHANGED <<vars, stored_pid, unborn, revived>>
    BY <1>2 DEF allvars, shellvars, history, GetLine, ReadKey, PushKey, Type
  <2>2. (sh' \in Idle => sh \in Idle) /\ (sh' = "polled" => sh = "polled")
    BY <1>2 DEF allvars, shellvars, GetLine, ReadKey, PushKey, Type, At, Idle
  <2>. QED BY <1>1, <2>1, <2>2
<1>3. ASSUME Sane, SchedulerRun, UNCHANGED <<stored_pid, unborn, revived>>,
             sh' \in Idle => sh \in Idle, sh' = "polled" => sh = "polled"
      PROVE  JobsInv'
  <2>1. /\ Range(low') = Range(low)
        /\ current_pid' \in Range(low') \/ Range(low') = {}
        /\ UNCHANGED <<next_pid, status, events>>
    BY <1>3, RunEffect
  <2>. QED BY <1>3, <2>1, OthersKeepJobs
<1>4. CASE TimerTick \/ \E p \in Pid : JobYield(p)
  <2>1. Sane /\ SchedulerRun /\ UNCHANGED <<sh, stored_pid, unborn, revived>>
    BY <1>4 DEF TimerTick, Tick, JobYield, Yield, shellvars, history
  <2>. QED BY <1>3, <2>1
<1>5. CASE YieldBackground \/ YieldWaiting
  <2>1. Sane /\ SchedulerRun /\ UNCHANGED <<stored_pid, unborn, revived>>
    BY <1>5 DEF YieldBackground, YieldWaiting, Yield
  <2>2. (sh' \in Idle => sh \in Idle) /\ sh' # "polled"
    BY <1>5 DEF YieldBackground, YieldWaiting, At, Idle
  <2>. QED BY <1>3, <2>1, <2>2
<1>6. CASE Launch
  <2>1. /\ next_pid \in Pid /\ next_pid \notin Procs
        /\ Range(low') = Range(low) \cup {next_pid}
        /\ \A q \in Pid : status'[q] = IF q = next_pid THEN "ready" ELSE status[q]
        /\ events' = events \cup {<<"created", next_pid>>}
        /\ current_pid' = current_pid
        /\ Procs' = Procs \cup {next_pid}
    BY <1>6, ForkEffect DEF Launch, ShellTypes
  <2>2. /\ sh = "fork" /\ sh' = "forked" /\ current_pid \in Procs
        /\ UNCHANGED <<stored_pid, unborn, revived>>
    BY <1>6 DEF Launch, At, Sane
  <2>3. \A q \in Pid : status'[q] = "terminated" => q \notin Range(low') \/ q \in revived'
    BY <2>1, <2>2 DEF JobsInv
  <2>4. \A q \in Pid : <<"exited", q>> \in events' => status'[q] = "terminated" \/ q \in Excepted'
    <3>1. status[next_pid] = "none"
      BY <2>1 DEF IInv, TypeOK
    <3>. QED BY <2>1, <2>2, <3>1 DEF JobsInv, Excepted
  <2>5. stored_pid' \in Procs' => <<"exited", stored_pid'>> \in events'
    <3>1. stored_pid \in Procs' => stored_pid \in Procs
      BY <1>0, <2>1, ProcsArePids DEF ShellTypes, IInv
    <3>. QED BY <2>1, <2>2, <3>1 DEF JobsInv, Idle
  <2>6. Range(low') \subseteq Procs' /\ NeverWild'
    BY <2>1, <2>2 DEF JobsInv, NeverWild, Sane
  <2>. QED BY <2>2, <2>3, <2>4, <2>5, <2>6 DEF JobsInv
<1>7. CASE StoreChild
  <2>1. /\ UNCHANGED <<vars, unborn, revived>> /\ sh = "forked"
        /\ \/ sh' = "yield &" /\ stored_pid' = stored_pid
           \/ sh' = "setpriority"
    BY <1>7 DEF StoreChild, At
  <2>2. CASE sh' = "yield &" /\ stored_pid' = stored_pid
    BY <1>1, <2>1, <2>2 DEF Idle
  <2>3. CASE sh' = "setpriority"
    <3>1. /\ UNCHANGED <<current_pid, next_pid, status, events, low>>
          /\ sh' \notin Idle /\ sh' # "polled"
      BY <2>1, <2>3 DEF vars, pcbs, queues, Idle
    <3>. QED BY <2>1, <3>1 DEF JobsInv, Excepted, NeverWild, Sane, Procs
  <2>. QED BY <2>1, <2>2, <2>3
<1>8. CASE SetChildPriority
  <2>. DEFINE prio == IF command = "job !" THEN 0 ELSE 1
  <2>1. /\ SetPriority(stored_pid, prio) /\ sh = "setpriority" /\ sh' = "poll" /\ Sane
        /\ UNCHANGED <<stored_pid, unborn>>
        /\ revived' = IF status[stored_pid] = "terminated"
                      THEN revived \cup {stored_pid} ELSE revived
    BY <1>8 DEF SetChildPriority, At
  <2>2. stored_pid \in Pid /\ stored_pid \in Procs /\ prio \in {0, 1}
    BY <1>0, <2>1 DEF Launching
  <2>3. /\ Range(low') = Range(low) \cup {stored_pid}
        /\ UNCHANGED <<current_pid, next_pid, status, events>>
    BY <2>1, <2>2, SetPriorityEffect
  <2>4. \A q \in Pid : status'[q] = "terminated" => q \notin Range(low') \/ q \in revived'
    BY <2>1, <2>3 DEF JobsInv
  <2>5. \A q \in Pid : <<"exited", q>> \in events' => status'[q] = "terminated" \/ q \in Excepted'
    BY <2>1, <2>3 DEF JobsInv, Excepted
  <2>6. Range(low') \subseteq Procs' /\ NeverWild'
    BY <2>1, <2>2, <2>3 DEF JobsInv, NeverWild, Sane, Procs
  <2>. QED BY <2>1, <2>4, <2>5, <2>6 DEF JobsInv, Idle
<1>9. CASE PollChild
  <2>1. /\ r0' = IF <<"exited", stored_pid>> \in events THEN stored_pid ELSE 0
        /\ UNCHANGED <<current_pid, next_pid, status, low, events, stored_pid, unborn, revived>>
        /\ sh' = "polled" /\ current_pid = Shell
    BY <1>9 DEF PollChild, WaitpidNohang, At, queues, pcbs
  <2>2. Result' = 0 \/ <<"exited", stored_pid'>> \in events'
    BY <2>1 DEF Result
  <2>. QED BY <2>1, <2>2 DEF JobsInv, Excepted, NeverWild, Sane, Procs, Idle
<1>10. CASE TestResult
  <2>1. /\ UNCHANGED <<current_pid, next_pid, status, low, events, stored_pid, unborn, revived>>
        /\ sh = "polled" /\ current_pid = Shell
        /\ sh' = IF r0 = 0 THEN "handle_input" ELSE "prompt"
    BY <1>10 DEF TestResult, At, vars, queues, pcbs
  <2>2. sh' \in Idle => <<"exited", stored_pid'>> \in events'
    BY <2>1 DEF JobsInv, Result, Idle
  <2>. QED BY <2>1, <2>2 DEF JobsInv, Excepted, NeverWild, Sane, Procs
<1>11. CASE KillChild
  <2>1. /\ Kill(stored_pid) /\ sh = "kill" /\ sh' = "push"
        /\ UNCHANGED <<stored_pid, unborn, revived>>
    BY <1>11 DEF KillChild, At
  <2>2. stored_pid \in Pid /\ stored_pid \in Procs
    BY <1>0, <2>1 DEF Launching
  <2>3. /\ Range(low') = Range(low) \ {stored_pid}
        /\ \A q \in Pid : status'[q] = IF q = stored_pid /\ stored_pid \in Procs
                                       THEN "terminated" ELSE status[q]
        /\ current_pid' \in Range(low') \/ Range(low') = {}
        /\ events' = events \cup {<<"exited", stored_pid>>} /\ next_pid' = next_pid
    BY <2>1, <2>2, KillEffect DEF ShellTypes
  <2>. QED BY <2>1, <2>2, <2>3, TerminationKeepsJobs
<1>12. ASSUME NEW p \in Pid, NEW q \in Pid, KillCommand(p, q) PROVE JobsInv'
  <2>1. /\ Kill(q) /\ UNCHANGED <<sh, stored_pid, revived>>
        /\ unborn' = IF q \in Procs THEN unborn ELSE unborn \cup {q}
    BY <1>12 DEF KillCommand
  <2>2. /\ Range(low') = Range(low) \ {q}
        /\ \A x \in Pid : status'[x] = IF x = q /\ q \in Procs THEN "terminated" ELSE status[x]
        /\ current_pid' \in Range(low') \/ Range(low') = {}
        /\ events' = events \cup {<<"exited", q>>} /\ next_pid' = next_pid
    BY <2>1, KillEffect DEF ShellTypes
  <2>. QED BY <2>1, <2>2, TerminationKeepsJobs
<1>13. ASSUME NEW p \in Pid, ChildExit(p) PROVE JobsInv'
  <2>1. /\ p = current_pid /\ p \in Procs /\ Exit
        /\ UNCHANGED <<sh, stored_pid, unborn, revived>>
    BY <1>13 DEF ChildExit, Runs, Sane, shellvars, history
  <2>2. /\ Range(low') = Range(low) \ {p}
        /\ \A x \in Pid : status'[x] = IF x = p THEN "terminated" ELSE status[x]
        /\ current_pid' \in Range(low') \/ Range(low') = {}
        /\ events' = events \cup {<<"exited", p>>} /\ next_pid' = next_pid
    BY <2>1, ExitEffect DEF ShellTypes
  <2>3. /\ \A x \in Pid : status'[x] = IF x = p /\ p \in Procs THEN "terminated" ELSE status[x]
        /\ unborn' = IF p \in Procs THEN unborn ELSE unborn \cup {p}
    BY <2>1, <2>2
  <2>. QED BY <2>1, <2>2, <2>3, TerminationKeepsJobs
<1>14. ASSUME Exec, UNCHANGED <<stored_pid, unborn, revived>>,
              sh' \in Idle => sh \in Idle, sh' = "polled" => sh = "polled"
       PROVE  JobsInv'
  <2>1. /\ status' = [status EXCEPT ![current_pid] = "running"] /\ Sane
        /\ UNCHANGED <<current_pid, next_pid, low, events>>
    BY <1>14 DEF Exec, queues
  <2>2. current_pid \in Pid
    BY <1>0, <2>1 DEF Sane
  <2>3. status[current_pid] = "terminated" => current_pid \in revived
    BY <2>2, JobsNoZombies DEF NoZombies
  <2>4. \A q \in Pid : \/ status'[q] = status[q]
                       \/ /\ status'[q] # "terminated"
                          /\ status[q] = "terminated" => q \in revived
    BY <2>1, <2>3 DEF IInv, TypeOK
  <2>. QED BY <1>14, <2>1, <2>4, OthersKeepJobs
<1>15. CASE ExecInstead \/ \E p \in Pid : ChildExec(p)
  <2>1. Exec /\ UNCHANGED <<stored_pid, unborn, revived>>
    BY <1>15 DEF ExecInstead, ChildExec
  <2>2. (sh' \in Idle => sh \in Idle) /\ (sh' = "polled" => sh = "polled")
    BY <1>15 DEF ExecInstead, ChildExec, Idle
  <2>. QED BY <1>14, <2>1, <2>2
<1>. QED
  BY <1>2, <1>4, <1>5, <1>6, <1>7, <1>8, <1>9, <1>10, <1>11, <1>12, <1>13, <1>15
  DEF ShellNext, ShellStep

\* JobsInv holds in every state.
LEMMA JobsInvariant == ShellSpec => []JobsInv
<1>1. ShellInit => JobsInv
  <2>. SUFFICES ASSUME ShellInit PROVE JobsInv
    OBVIOUS
  <2>1. Procs = {Shell} /\ Range(low) = {Shell}
    BY DEF ShellInit, Init, Procs, Range, Shell
  <2>2. stored_pid \notin Procs
    BY <2>1 DEF ShellInit, NoPid, Shell
  <2>. QED BY <2>1, <2>2 DEF ShellInit, Init, JobsInv, NeverWild, Sane
<1>2. IInv /\ ShellTypes /\ JobsInv /\ [ShellNext]_allvars => JobsInv'
  BY JobsStep
<1>. QED BY <1>1, <1>2, ShellTypesInvariant, PTL DEF ShellSpec

\* A process that has exited or been killed is in no queue and does not run, for
\* any number of jobs and Ctrl+C, any pid given to `kill' and a tick anywhere;
\* the shell's own setpriority on a terminated child is the one exception.
THEOREM TerminatedStayOut == ShellSpec => []NoZombies
<1>1. IInv /\ JobsInv => NoZombies
  BY JobsNoZombies
<1>. QED BY <1>1, JobsInvariant, ShellTypesInvariant, PTL

\* The prompt comes back only when the foreground child has terminated, however
\* it ended; a child `kill' named before it existed, and one setpriority found
\* terminated already, are the exceptions, and there is no other.
THEOREM ShellWaitsForForeground == ShellSpec => []ForegroundWaits
<1>1. ShellTypes /\ JobsInv /\ IInv => ForegroundWaits
  BY ProcsArePids DEF JobsInv, ForegroundWaits, Excepted, Idle, IInv
<1>. QED BY <1>1, JobsInvariant, ShellTypesInvariant, PTL

\* While the shell has not been terminated, run_process always finds the process
\* it is asked to run, whatever is killed, exits or is given a priority.
THEOREM SomethingRuns == ShellSpec => []NeverWild
<1>1. JobsInv => NeverWild
  BY DEF JobsInv
<1>. QED BY <1>1, JobsInvariant, PTL
=============================================================================
