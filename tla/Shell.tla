-------------------------------- MODULE Shell --------------------------------
(***************************************************************************)
(* The shell's job control (os/src/user/sh.c) running on module Scheduler. *)
(* The shell is process 1; its system calls, those of the programs it      *)
(* launches, the timer and the UART0 interrupt interleave.  A program is   *)
(* one of: an ordinary one, which computes, yields and exits, or `kill'.   *)
(*                                                                         *)
(* Input is a sequence of keys: Ctrl+C, or a whole command line for one    *)
(* key, in the way the line editor would deliver it.  Keys wait in         *)
(* stdin_buffer (kernel) and sh_stdin_buffer (typed ahead during a job).   *)
(***************************************************************************)
EXTENDS Scheduler, SequencesExt

CONSTANTS
    Keys,       \* which keys the user types
    MaxTyped    \* bound: keys typed

CtrlC == "ctrl-c"
Commands == {"job", "job !", "job &", "kill", "kill &"}
Background == {"job &", "kill &"}

ASSUME KeysAssumption == Keys \subseteq Commands \cup {CtrlC}
ASSUME MaxTypedAssumption == MaxTyped \in Nat

VARIABLES
    sh,                 \* where the shell is
    command,            \* the parsed command line
    stored_pid,         \* the foreground child, as launch_process stored it
    held,               \* the key handle_input has read and not yet pushed
    stdin_buffer,       \* the kernel's input queue
    sh_stdin_buffer,    \* the shell's queue of keys typed ahead
    program,            \* per process: what it is executing
    typed, taken,       \* history: the keys typed, those get_line consumed
    unborn,             \* history: pids `kill' named before they were given out
    revived             \* history: pids that were terminated when setpriority
                        \* queued them

history == <<typed, taken, unborn, revived>>
input == <<held, stdin_buffer, sh_stdin_buffer, typed, taken>>
shellvars == <<sh, command, stored_pid, held, stdin_buffer, sh_stdin_buffer,
               program, history>>
allvars == <<vars, shellvars>>

ShellInit ==
    /\ Init
    /\ sh = "prompt"
    /\ command = "job"
    /\ stored_pid = NoPid
    /\ held = <<>>
    /\ stdin_buffer = <<>>
    /\ sh_stdin_buffer = <<>>
    /\ program = [p \in Pid |-> "none"]
    /\ typed = <<>>
    /\ taken = <<>>
    /\ unborn = {}
    /\ revived = {}

\* The UART0 interrupt: kernel_handler_irq pushes the character.
Type(k) ==
    /\ Sane /\ Len(typed) < MaxTyped
    /\ stdin_buffer' = Append(stdin_buffer, k)
    /\ typed' = Append(typed, k)
    /\ UNCHANGED <<vars, sh, command, stored_pid, held, sh_stdin_buffer, program, taken,
                   unborn, revived>>

\* The TIMER0 interrupt, whoever is running, between any two steps below.
TimerTick ==
    /\ Tick
    /\ UNCHANGED shellvars

-----------------------------------------------------------------------------
(* The shell.                                                              *)

At(place) == Sane /\ current_pid = Shell /\ sh = place

\* Definitions whose names begin with Bug are faulty variants of the definition
\* they precede; nothing uses them but the project's mutation checks.

\* get_next_char asks stdin first.
BugStdinFirst ==
    IF stdin_buffer # <<>> THEN <<Head(stdin_buffer), sh_stdin_buffer, Tail(stdin_buffer)>>
    ELSE <<Head(sh_stdin_buffer), Tail(sh_stdin_buffer), stdin_buffer>>

\* get_next_char: only when sh_stdin_buffer is empty is stdin read.
NextChar ==
    IF sh_stdin_buffer # <<>>
    THEN <<Head(sh_stdin_buffer), Tail(sh_stdin_buffer), stdin_buffer>>
    ELSE <<Head(stdin_buffer), sh_stdin_buffer, Tail(stdin_buffer)>>

\* One round of mush up to the launch: a key of this module is what get_line
\* would make a line of (CommandLine models how).  Ctrl+C abandons the line and
\* the empty command that results is not recognised.  stdio_readchar spins until
\* there is a key.
GetLine ==
    /\ At("prompt")
    /\ sh_stdin_buffer # <<>> \/ stdin_buffer # <<>>
    /\ LET k == NextChar[1] IN
       /\ sh' = IF k = CtrlC THEN "prompt" ELSE "fork"
       /\ command' = IF k = CtrlC THEN command ELSE k
       /\ taken' = Append(taken, k)
    /\ sh_stdin_buffer' = NextChar[2]
    /\ stdin_buffer' = NextChar[3]
    /\ UNCHANGED <<vars, stored_pid, held, program, typed, unborn, revived>>

IsKill(line) == line \in {"kill", "kill &"}

\* _fork in launch_process, or in launch_process_bg after "&".
Launch ==
    /\ At("fork")
    /\ Fork
    /\ program' = [program EXCEPT ![next_pid] =
                      IF IsKill(command) THEN "fresh kill" ELSE "fresh job"]
    /\ sh' = "forked"
    /\ UNCHANGED <<command, stored_pid, input, unborn, revived>>

\* fork_pid is taken from gpr[0], and is not 0.
StoreChild ==
    /\ At("forked")
    /\ r0 # 0
    /\ IF command \in Background
       THEN sh' = "yield &" /\ UNCHANGED stored_pid
       ELSE sh' = "setpriority" /\ stored_pid' = r0
    /\ UNCHANGED <<vars, command, input, program, unborn, revived>>

\* fork_pid is 0 in the shell itself: a tick came after the fork and a `kill' of
\* the process that ran then brought the shell back, with the kill's result in
\* its gpr[0].  The shell takes itself for the child and calls _exec.
ExecInstead ==
    /\ At("forked")
    /\ r0 = 0
    /\ Exec
    /\ sh' = "execed"
    /\ program' = [program EXCEPT ![Shell] = IF IsKill(command) THEN "kill" ELSE "job"]
    /\ UNCHANGED <<command, stored_pid, input, unborn, revived>>

YieldBackground ==
    /\ At("yield &")
    /\ Yield
    /\ sh' = "prompt"
    /\ UNCHANGED <<command, stored_pid, input, program, unborn, revived>>

\* _setpriority of the child to the priority asked for, whatever has become of the child.
SetChildPriority ==
    /\ At("setpriority")
    /\ SetPriority(stored_pid, IF command = "job !" THEN 0 ELSE 1)
    /\ sh' = "poll"
    /\ revived' = IF status[stored_pid] = "terminated"
                  THEN revived \cup {stored_pid} ELSE revived
    /\ UNCHANGED <<command, stored_pid, input, program, unborn>>

\* _waitpid(PROCESS_EVENT_EXITED, *stored_pid, WAITPID_NOHANG)
PollChild ==
    /\ At("poll")
    /\ WaitpidNohang(<<"exited", stored_pid>>)
    /\ sh' = "polled"
    /\ UNCHANGED <<command, stored_pid, input, program, unborn, revived>>

\* The wait loop gives up after the first poll.
BugPollOnce ==
    /\ At("polled")
    /\ sh' = "prompt"
    /\ UNCHANGED <<vars, command, stored_pid, input, program, unborn, revived>>

\* if (!result): gpr[0] is what waitpid returned, or the 0 of a `kill' that
\* brought the shell back after a tick.
TestResult ==
    /\ At("polled")
    /\ sh' = IF r0 = 0 THEN "handle_input" ELSE "prompt"
    /\ UNCHANGED <<vars, command, stored_pid, input, program, unborn, revived>>

\* handle_input stores Ctrl+C like any other key.
BugCtrlCNotActedOn ==
    /\ At("handle_input")
    /\ IF stdin_buffer = <<>>
       THEN sh' = "yield" /\ UNCHANGED <<held, stdin_buffer>>
       ELSE /\ held' = <<Head(stdin_buffer)>>
            /\ stdin_buffer' = Tail(stdin_buffer)
            /\ sh' = "push"
    /\ UNCHANGED <<vars, command, stored_pid, sh_stdin_buffer, program, history>>

\* c = stdio_readchar_nonblocking() in handle_input
ReadKey ==
    /\ At("handle_input")
    /\ IF stdin_buffer = <<>>
       THEN sh' = "yield" /\ UNCHANGED <<held, stdin_buffer>>
       ELSE /\ held' = <<Head(stdin_buffer)>>
            /\ stdin_buffer' = Tail(stdin_buffer)
            /\ sh' = IF Head(stdin_buffer) = CtrlC THEN "kill" ELSE "push"
    /\ UNCHANGED <<vars, command, stored_pid, sh_stdin_buffer, program, history>>

\* Ctrl+C: _kill(child_pid, SIGKILL), whether or not the child is still there.
KillChild ==
    /\ At("kill")
    /\ Kill(stored_pid)
    /\ sh' = "push"
    /\ UNCHANGED <<command, stored_pid, input, program, unborn, revived>>

\* The key, Ctrl+C included, is kept for get_line.
PushKey ==
    /\ At("push")
    /\ sh_stdin_buffer' = sh_stdin_buffer \o held
    /\ held' = <<>>
    /\ sh' = "handle_input"
    /\ UNCHANGED <<vars, command, stored_pid, stdin_buffer, program, history>>

YieldWaiting ==
    /\ At("yield")
    /\ Yield
    /\ sh' = "poll"
    /\ UNCHANGED <<command, stored_pid, input, program, unborn, revived>>

ShellStep ==
    \/ GetLine \/ Launch \/ StoreChild \/ ExecInstead \/ YieldBackground
    \/ SetChildPriority \/ PollChild \/ TestResult \/ ReadKey
    \/ KillChild \/ PushKey \/ YieldWaiting

-----------------------------------------------------------------------------
(* The programs.  They, too, go on if they are scheduled after they were    *)
(* terminated: one that was killed where it was, one that exited behind its *)
(* call of _exit, where P0 loops and exits again.                           *)

Runs(p, prog) == Sane /\ current_pid = p /\ program[p] = prog

\* The child returns from _fork, finds 0 and calls _exec.
ChildExec(p) ==
    /\ \/ Runs(p, "fresh job") /\ program' = [program EXCEPT ![p] = "job"]
       \/ Runs(p, "fresh kill") /\ program' = [program EXCEPT ![p] = "kill"]
    /\ r0 = 0
    /\ Exec
    /\ UNCHANGED <<sh, command, stored_pid, input, unborn, revived>>

JobYield(p) ==
    /\ Runs(p, "job")
    /\ Yield
    /\ UNCHANGED shellvars

\* kill.c: _kill(pid, SIGKILL) on the number that was typed, be it that of the
\* shell, of a process that is gone or of one that does not exist; then exit.
KillCommand(p, q) ==
    /\ Runs(p, "kill")
    /\ Kill(q)
    /\ program' = [program EXCEPT ![p] = "job"]
    /\ unborn' = IF q \in Procs THEN unborn ELSE unborn \cup {q}
    /\ UNCHANGED <<sh, command, stored_pid, input, revived>>

\* stdproc_exit, after which P0 would begin again.
ChildExit(p) ==
    /\ Runs(p, "job")
    /\ Exit
    /\ UNCHANGED shellvars

ShellNext ==
    \/ \E k \in Keys : Type(k)
    \/ TimerTick
    \/ ShellStep
    \/ \E p \in Pid : ChildExec(p)
    \/ \E p \in Pid : JobYield(p)
    \/ \E p, q \in Pid : KillCommand(p, q)
    \/ \E p \in Pid : ChildExit(p)

\* A quantum of 2^20 timer cycles is far longer than a step of the shell: each
\* time the shell is scheduled it gets somewhere.
ShellSpec ==
    /\ ShellInit /\ [][ShellNext]_allvars
    /\ WF_allvars(TimerTick)
    /\ SF_allvars(ShellStep)

-----------------------------------------------------------------------------
(* Properties.  Two things can go wrong in launch_process that the first    *)
(* three name: the child is terminated before setpriority, which queues it  *)
(* again (revived), and a `kill' named the child before it existed, so that *)
(* the record says it has exited (unborn).                                  *)

\* The prompt comes back only when the foreground child has terminated: by
\* itself, by Ctrl+C or by a `kill' in the background, with the two exceptions.
ForegroundWaits ==
    sh \in {"prompt", "fork", "forked", "yield &"} /\ stored_pid \in Procs
        => status[stored_pid] = "terminated" \/ stored_pid \in unborn \cup revived

\* A process that has exited or been killed is in no queue and does not run: the
\* setpriority of the shell is the only call that brings one back.
NoZombies ==
    \A p \in Pid :
        status[p] = "terminated" => (p \notin Range(low) /\ current_pid # p) \/ p \in revived

\* As long as the shell lives there is a process to run: its own entry keeps the
\* low queue from running empty, and nothing unborn is ever queued.
NeverWild == Sane \/ status[Shell] = "terminated"

\* Keys reach get_line in the order typed and none is lost, although the shell
\* moves them between two queues while the UART interrupt goes on filling one.
InputInOrder == taken \o sh_stdin_buffer \o held \o stdin_buffer = typed

\* A fresh child always finds 0 in gpr[0] when it returns from _fork, so it
\* never takes itself for the shell, whichever handler scheduled it.
ChildFindsZero ==
    \A p \in Pid : Runs(p, "fresh job") \/ Runs(p, "fresh kill") => r0 = 0

\* README: "While a foreground process is executing, you can terminate it by
\* pressing Ctrl+C", unless it runs in high priority, the shell has been killed
\* or one of the two exceptions has ended the waiting.
CtrlCTerminates ==
    (/\ sh \in {"poll", "polled", "handle_input", "push", "yield"}
     /\ Contains(stdin_buffer, CtrlC) /\ high = <<>>)
        ~> \/ stored_pid \in Procs /\ status[stored_pid] = "terminated"
           \/ high # <<>>
           \/ status[Shell] = "terminated"
           \/ stored_pid \in unborn \cup revived

\* README: _exit is to "terminate the current process".  What is terminated is
\* never queued again.  It is, when the shell's setpriority comes too late.
TerminatedForGood == \A p \in Pid : status[p] = "terminated" => p \notin Range(low)

\* sh.c:69: "Otherwise, wait for the child to complete".  It does not for a child
\* whose pid a `kill' had named before.
WaitsForChild ==
    sh = "prompt" /\ stored_pid \in Procs => status[stored_pid] = "terminated"

\* sh.c:64: "If this is the child process, exec the new process".  The shell
\* never calls _exec itself.  It does, when the result of fork is overwritten.
OnlyChildExecs == sh # "execed"
=============================================================================
