------------------------------ MODULE Scheduler ------------------------------
(***************************************************************************)
(* The process scheduler of MalapropOS: os/src/kernel/scheduler.c and the  *)
(* cases of kernel_handler_svc / kernel_handler_irq in kernel.c that call  *)
(* it.  SVC and IRQ handlers run with interrupts disabled, so a handler is *)
(* one atomic step; user code is preempted by the timer between any two.   *)
(*                                                                         *)
(* A process is its pcb: status, blocked_until and, of the saved context,  *)
(* gpr[0], the only register the kernel itself writes after a process has  *)
(* been created.  The trap frame `ctx' of a handler is the variable r0.    *)
(***************************************************************************)
EXTENDS Integers, Sequences, FiniteSets, Functions

CONSTANTS
    MaxPid,     \* bound: pids 1..MaxPid are ever given out
    Calls,      \* the system calls user processes make
    WaitKinds   \* the kinds of event they pass to waitpid

SchedulerCalls == {"yield", "exit", "fork", "exec", "kill", "kill_other",
                   "setpriority", "waitpid", "waitpid_nohang"}

ASSUME MaxPidAssumption == MaxPid \in Nat \ {0}
ASSUME CallsAssumption == Calls \subseteq SchedulerCalls

Pid == 1..MaxPid
NoPid == -1         \* get_next_process found both queues empty
Shell == 1          \* the process scheduler_initialise creates

Status == {"none", "running", "ready", "blocked", "terminated"}

\* The events the scheduler emits; <<kind, from_process>> is an event_t.
EventKinds == {"exited", "blocked", "created"}
Event == EventKinds \X Pid

ASSUME WaitKindsAssumption == WaitKinds \subseteq EventKinds

\* gpr[0]: a pid, 0, or Live for any other word (what the user program computed,
\* or what an uninitialised variable held).
Live == -2
Word == {Live, 0} \cup Pid

VARIABLES
    current_pid,    \* pid of the process whose context is loaded
    next_pid,       \* next pid to give out; processes are 1..next_pid-1
    low,            \* low_priority_queue_head
    high,           \* high_priority_queue_head
    status,         \* pcb.status, "none" where there is no pcb
    until,          \* pcb.blocked_until
    saved,          \* pcb.ctx.gpr[0]
    r0,             \* ctx->gpr[0], what user mode finds on return
    events          \* events_head: only membership is ever asked of it

queues == <<low, high>>
pcbs == <<status, until, saved>>
vars == <<current_pid, next_pid, queues, pcbs, r0, events>>

-----------------------------------------------------------------------------
(* Queues.                                                                 *)

\* Definitions whose names begin with Bug are faulty variants of the definition
\* they precede; nothing uses them but the project's mutation checks.

\* The walk of remove_pid begins at the second entry.
BugRemoveSkipsHead(q, p) ==
    IF q # <<>> THEN <<Head(q)>> \o SelectSeq(Tail(q), LAMBDA x : x # p) ELSE q

\* remove_pid on one list.  Lists hold a pid at most once (QueuesWellFormed),
\* so unlinking every match unlinks one entry.
RemoveFrom(q, p) ==
    IF p \in Range(q)
    THEN LET i == CHOOSE j \in DOMAIN q : q[j] = p
         IN  [j \in 1..(Len(q) - 1) |-> IF j < i THEN q[j] ELSE q[j + 1]]
    ELSE q

\* The switch statements of remove_pid and add_pid fall through: priority 0
\* touches both lists, 1 only the low one, any other value neither.
AfterSetPriorityHigh(p, prio) ==
    IF prio = 0 THEN Append(RemoveFrom(high, p), p) ELSE high

\* add_pid without the remove_pid before it.
BugAddWithoutRemove(q, p, prio) == IF prio \in {0, 1} THEN Append(q, p) ELSE q

AfterSetPriorityLow(q, p, prio) ==
    IF prio \in {0, 1} THEN Append(RemoveFrom(q, p), p) ELSE q

\* get_next_process without TAILQ_INSERT_TAIL, or with TAILQ_INSERT_HEAD.
BugNotReinserted(q) == Tail(q)
BugReinsertedAtHead(q) == q

Rotate(q) == Append(Tail(q), Head(q))

\* scheduler_run asks the low queue first.
BugLowFirst(h, l) ==
    IF l # <<>> THEN [pid |-> Head(l), high |-> h, low |-> Rotate(l)]
    ELSE [pid |-> NoPid, high |-> h, low |-> l]

\* get_next_process(0), then get_next_process(1) when that returned -1.
GetNextProcess(h, l) ==
    IF h # <<>> THEN [pid |-> Head(h), high |-> Rotate(h), low |-> l]
    ELSE IF l # <<>> THEN [pid |-> Head(l), high |-> h, low |-> Rotate(l)]
    ELSE [pid |-> NoPid, high |-> h, low |-> l]

\* The wake-up loop forgets set_priority.
BugWokenNotQueued(q, woken) == {q}

\* The low queue after scheduler_emit_event has run set_priority(p, 1) on every
\* p of `woken', in process_list (that is, pid) order: the others keep their
\* order and the woken follow.  A singleton on every queue without duplicates.
Requeued(q, woken) ==
    LET members == Range(q) \cup woken
        Before(s, x, y) == \E i, j \in DOMAIN s : i < j /\ s[i] = x /\ s[j] = y
    IN  IF woken = {} THEN {q} ELSE
        {s \in [1..Cardinality(members) -> members] :
            /\ IsInjective(s)
            /\ Range(s) = members
            /\ \A x, y \in members :
                 Before(s, x, y) <=>
                    \/ x \notin woken /\ y \notin woken /\ Before(q, x, y)
                    \/ x \notin woken /\ y \in woken
                    \/ x \in woken /\ y \in woken /\ x < y}

\* The wake-up loop stops at the first waiter.
BugFirstWaiterOnly(ev, st, un) ==
    {p \in Pid : /\ st[p] = "blocked" /\ un[p] = ev
                 /\ \A q \in 1..(p - 1) : ~(st[q] = "blocked" /\ un[q] = ev)}

Woken(ev, st, un) == {p \in Pid : st[p] = "blocked" /\ un[p] = ev}

-----------------------------------------------------------------------------
(* Contexts.                                                               *)

\* find_process believes in one process too many.
BugProcs == 1..next_pid

\* find_process(pid) is not NULL.
Procs == 1..(next_pid - 1)

\* run_process has loaded the context of an existing process.  Otherwise it
\* copied the bytes at address 0 into the trap frame and the machine runs
\* wild: no action describes what follows.
Sane == current_pid \in Procs

\* run_process does not copy the context.
BugNotLoaded(sv, p) == r0

\* What run_process puts in gpr[0] for pid p, given the saved contexts.
Loaded(sv, p) == IF p \in Procs THEN sv[p] ELSE Live

\* save_current_process
SaveCurrent(word) == [saved EXCEPT ![current_pid] = word]

\* scheduler_emit_event takes EXITED for one of the kinds it does not record.
BugExitedNotRecorded(ev) == IF ev[1] = "exited" THEN events ELSE events \cup {ev}

\* The list of events after scheduler_emit_event.  SUSPENDED and UNSUSPENDED,
\* which it would not record, are never emitted.
Record(ev) == events \cup {ev}

Wake(woken, st) == [p \in Pid |-> IF p \in woken THEN "running" ELSE st[p]]
WakeResult(woken, sv, from) == [p \in Pid |-> IF p \in woken THEN from ELSE sv[p]]

-----------------------------------------------------------------------------
Init ==
    /\ current_pid = Shell
    /\ next_pid = Shell + 1
    /\ low = <<Shell>>
    /\ high = <<>>
    /\ status = [p \in Pid |-> IF p = Shell THEN "running" ELSE "none"]
    /\ until = [p \in Pid |-> <<"exited", Shell>>]  \* never read before it is set
    /\ saved = [p \in Pid |-> Live]
    /\ r0 = Live
    /\ events = {}

\* User code overwrites gpr[0].
Compute ==
    /\ Sane /\ r0 # Live
    /\ r0' = Live
    /\ UNCHANGED <<current_pid, next_pid, queues, pcbs, events>>

\* scheduler_run(ctx), with the queues as they stand.
SchedulerRun ==
    LET next == GetNextProcess(high, low) IN
    /\ high' = next.high
    /\ low' = next.low
    /\ saved' = SaveCurrent(r0)
    /\ r0' = Loaded(saved', next.pid)
    /\ current_pid' = next.pid
    /\ UNCHANGED <<next_pid, status, until, events>>

\* TIMER0 interrupt.
Tick == Sane /\ SchedulerRun

Yield == Sane /\ "yield" \in Calls /\ SchedulerRun

\* scheduler_exit.  The EXITED event is emitted after the next process has been
\* chosen, and also when there was none to choose.
Exit ==
    /\ Sane /\ "exit" \in Calls
    /\ LET p == current_pid
           ev == <<"exited", p>>
           next == GetNextProcess(RemoveFrom(high, p), RemoveFrom(low, p))
           ran == SaveCurrent(Live)
           st == IF next.pid # p THEN [status EXCEPT ![p] = "terminated"] ELSE status
           woken == IF next.pid # p THEN Woken(ev, st, until) ELSE {}
       IN  /\ current_pid' = next.pid
           /\ high' = next.high
           /\ low' \in Requeued(next.low, woken)
           /\ status' = Wake(woken, st)
           /\ saved' = WakeResult(woken, ran, p)
           /\ r0' = Loaded(ran, next.pid)
           /\ events' = IF next.pid # p THEN Record(ev) ELSE events
    /\ UNCHANGED <<next_pid, until>>

\* scheduler_kill(pid) with SIGKILL, then ctx->gpr[0] = 0: the frame already
\* holds the context of the process scheduled instead of the caller.  A pid
\* without a pcb is removed, scheduled around and reported exited all the same
\* (the write through the NULL pcb lands in memory nothing reads).
Kill(p) ==
    /\ Sane /\ "kill" \in Calls
    /\ LET ev == <<"exited", p>>
           next == GetNextProcess(RemoveFrom(high, p), RemoveFrom(low, p))
           st == IF p \in Procs THEN [status EXCEPT ![p] = "terminated"] ELSE status
           woken == Woken(ev, st, until)
       IN  /\ current_pid' = next.pid
           /\ high' = next.high
           /\ low' \in Requeued(next.low, woken)
           /\ status' = Wake(woken, st)
           /\ saved' = WakeResult(woken, SaveCurrent(p), p)
           /\ events' = Record(ev)
    /\ r0' = 0
    /\ UNCHANGED <<next_pid, until>>

\* kill with any other signal: `result' is returned uninitialised.
KillOther ==
    /\ Sane /\ "kill_other" \in Calls
    /\ r0' = Live
    /\ UNCHANGED <<current_pid, next_pid, queues, pcbs, events>>

\* scheduler_setpriority: no check that the process exists or is runnable.
SetPriority(p, prio) ==
    /\ Sane /\ "setpriority" \in Calls
    /\ high' = AfterSetPriorityHigh(p, prio)
    /\ low' = AfterSetPriorityLow(low, p, prio)
    /\ r0' = 0
    /\ UNCHANGED <<current_pid, next_pid, pcbs, events>>

\* scheduler_fork: the child is a copy of the caller's pcb that is to find 0.
Fork ==
    /\ Sane /\ "fork" \in Calls
    /\ next_pid <= MaxPid
    /\ LET child == next_pid
           ev == <<"created", child>>
           st == [status EXCEPT ![child] = "ready"]
           un == [until EXCEPT ![child] = until[current_pid]]
           woken == Woken(ev, st, un)
       IN  /\ low' \in Requeued(AfterSetPriorityLow(low, child, 1), woken)
           /\ status' = Wake(woken, st)
           /\ until' = un
           /\ saved' = WakeResult(woken, [saved EXCEPT ![child] = 0], child)
           /\ events' = Record(ev)
           /\ r0' = child
    /\ next_pid' = next_pid + 1
    /\ UNCHANGED <<current_pid, high>>

\* scheduler_exec: the caller goes on in another function.
Exec ==
    /\ Sane /\ "exec" \in Calls
    /\ r0' = Live
    /\ saved' = SaveCurrent(Live)
    /\ status' = [status EXCEPT ![current_pid] = "running"]
    /\ UNCHANGED <<current_pid, next_pid, queues, until, events>>

\* waitpid with WAITPID_NOHANG: scheduler_has_event_occurred.
WaitpidNohang(ev) ==
    /\ Sane /\ "waitpid_nohang" \in Calls
    /\ r0' = IF ev \in events THEN ev[2] ELSE 0
    /\ UNCHANGED <<current_pid, next_pid, queues, pcbs, events>>

\* waitpid without it: scheduler_block_process, then ctx->gpr[0] = the awaited
\* pid, in the frame of the process scheduled instead.  The caller is saved
\* twice; the second save follows the wake-up its own BLOCKED event may cause.
Waitpid(ev) ==
    /\ Sane /\ "waitpid" \in Calls
    /\ LET p == current_pid
           mine == <<"blocked", p>>
           st == [status EXCEPT ![p] = "blocked"]
           un == [until EXCEPT ![p] = ev]
           woken == Woken(mine, st, un)
       IN  \E q \in Requeued(RemoveFrom(low, p), woken) :
             LET next == GetNextProcess(RemoveFrom(high, p), q)
             IN  /\ current_pid' = next.pid
                 /\ high' = next.high
                 /\ low' = next.low
                 /\ status' = Wake(woken, st)
                 /\ until' = un
                 /\ saved' = [WakeResult(woken, saved, p) EXCEPT ![p] = Live]
                 /\ events' = Record(mine)
    /\ r0' = ev[2]
    /\ UNCHANGED next_pid

Next ==
    \/ Tick
    \/ Compute
    \/ Yield
    \/ Exit
    \/ Fork
    \/ Exec
    \/ \E p \in Pid : Kill(p)
    \/ KillOther
    \/ \E p \in Pid, prio \in 0..2 : SetPriority(p, prio)
    \/ \E ev \in WaitKinds \X Pid : WaitpidNohang(ev)
    \/ \E ev \in WaitKinds \X Pid : Waitpid(ev)

Spec == Init /\ [][Next]_vars

\* The timer is periodic and user mode runs with IRQs enabled (cpsr 0x50).
FairSpec == Spec /\ WF_vars(Tick)

\* VIEW for runs whose properties do not mention gpr[0]: no action's guard and no
\* other variable depends on saved, r0, the blocked_until of a process that is not
\* blocked, on whether a process is ready or running, or on the record of events,
\* of which the properties ask only for the exits of the terminated.
ControlView ==
    <<current_pid, next_pid, queues,
      [p \in Pid |-> IF status[p] = "blocked" THEN until[p]
                     ELSE IF status[p] = "ready" THEN "running" ELSE status[p]],
      {p \in Pid : status[p] = "terminated" /\ <<"exited", p>> \in events}>>

-----------------------------------------------------------------------------
(* Properties.                                                             *)

\* Every variable holds a value of its kind, and exactly the pids given out by
\* get_new_pid have a pcb.
TypeOK ==
    /\ current_pid \in Pid \cup {NoPid}
    /\ next_pid \in 2..(MaxPid + 1)
    /\ low \in Seq(Pid)
    /\ high \in Seq(Pid)
    /\ status \in [Pid -> Status]
    /\ until \in [Pid -> Event]
    /\ saved \in [Pid -> Word]
    /\ r0 \in Word
    /\ events \in SUBSET Event
    /\ \A p \in Pid : status[p] = "none" <=> p \notin Procs

\* remove_pid deletes list entries while walking the list and set_priority
\* appends without looking: still no queue ever holds a pid twice, and a
\* high-priority process is always in the low queue as well, whatever pids and
\* priorities users pass.
QueuesWellFormed ==
    /\ IsInjective(low)
    /\ IsInjective(high)
    /\ Range(high) \subseteq Range(low)

\* No process is lost: one that is running or ready can be found by
\* get_next_process, after any sequence of calls (a blocked process that is
\* woken is queued again, a child is queued before anyone can kill it).
RunnableIsQueued ==
    \A p \in Procs : status[p] \in {"running", "ready"} => p \in Range(low)

\* The process whose context is loaded is itself queued, so that a timer tick
\* always finds something to run, as long as run_process found a pcb at all.
CurrentIsQueued == Sane => current_pid \in Range(low)

\* A waiter that polls with WAITPID_NOHANG will learn of every termination:
\* exit and kill both record EXITED for the pcb they mark terminated.
TerminatedIsRecorded ==
    \A p \in Procs : status[p] = "terminated" => <<"exited", p>> \in events

\* Whoever is still blocked after a handler is not waiting for the exit of a
\* process that the handler has terminated: exit and kill emit the event after
\* scheduler_run, and the waiter may be any process but the one then loaded.
NoMissedWakeup ==
    [][\A p, q \in Pid :
          status[q] # "terminated" /\ status'[q] = "terminated" /\ status'[p] = "blocked"
              => until'[p] # <<"exited", q>>]_vars

\* README: "all high-priority tasks will complete before any low-priority task
\* resumes execution".  A switch to a low-priority process happens only when
\* the high queue is empty, in every handler that schedules.
HighFirst ==
    [][current_pid' # current_pid /\ high' # <<>> => current_pid' \in Range(high')]_vars

\* Calls of setpriority that move p to the back of its queue.
MovedBack(p) == \E prio \in {0, 1} : SetPriority(p, prio)

\* A queued low-priority process gets the CPU unless it leaves the queue or a
\* high-priority process appears: a preempted, yielding or newly forked process
\* is not starved by the forks, exits and kills of the others.  What
\* can starve it is a process that moves it to the back for ever (the shell
\* calls setpriority once per job), or the machine running wild.
LowRuns ==
    \A p \in Pid :
        \/ []<><<MovedBack(p)>>_vars
        \/ p \in Range(low) /\ high = <<>>
             ~> current_pid = p \/ p \notin Range(low) \/ high # <<>> \/ ~Sane

\* A process raised to high priority gets the CPU whatever the low ones do, with
\* the same two exceptions.
RaisedRuns ==
    \A p \in Pid :
        \/ []<><<MovedBack(p)>>_vars
        \/ p \in Range(high) ~> current_pid = p \/ p \notin Range(high) \/ ~Sane
=============================================================================
