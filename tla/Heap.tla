-------------------------------- MODULE Heap --------------------------------
(***************************************************************************)
(* The one heap of MalapropOS: stdmem_allocate (mlibc/src/stdmem.c) on top *)
(* of _sbrk (os/src/user/syscall.c).  _sbrk is not a system call: user     *)
(* code runs it itself, on the static variable current_break that all user *)
(* processes and the kernel share.  The kernel allocates with interrupts   *)
(* disabled (scheduler, files, ipc, and stdstream_push_char in the UART    *)
(* interrupt); a user process can be preempted between any two loads and   *)
(* stores of current_break.  Nothing is ever freed.                        *)
(*                                                                         *)
(* Addresses are offsets from heap_low.  At boot the kernel has allocated  *)
(* before any user process runs, so "current_break == 0" is not modelled.  *)
(***************************************************************************)
EXTENDS Integers, FiniteSets

CONSTANTS
    Users,          \* the user processes that allocate
    Sizes,          \* the sizes asked for
    HeapTop,        \* heap_top - heap_low
    MaxBlocks       \* bound: blocks ever handed out

ASSUME SizesAssumption == Sizes \subseteq Nat \ {0}
ASSUME HeapTopAssumption == HeapTop \in Nat
ASSUME MaxBlocksAssumption == MaxBlocks \in Nat

Failed == -1        \* (void*)-1

VARIABLES
    current_break,
    pc,         \* per user: where in stdmem_allocate
    call,       \* per user: which of the two _sbrk calls, 1 = _sbrk(0), 2 = _sbrk(size)
    size,       \* per user: the argument of stdmem_allocate
    p,          \* per user: the local p, result of _sbrk(0)
    prev,       \* per user: the local prev_break
    acc,        \* per user: the register of "current_break += incr"
    blocks,     \* the blocks handed out
    raced       \* history: the break was moved under a process that had read it

locals == <<call, size, p, prev, acc>>
vars == <<current_break, pc, locals, blocks, raced>>

Block == [id : 1..MaxBlocks, base : Int, size : Sizes]

\* u has read current_break and is still to act on what it read.
Exposed(u) == pc[u] # "idle" /\ (call[u] = 2 \/ pc[u] # "prev")

\* A step that moves the break, of one of `movers' or of the kernel, is a race
\* when anybody else is exposed.
Raced(movers) ==
    raced \/ (current_break' # current_break /\ \E u \in Users \ movers : Exposed(u))

Incr(u) == IF call[u] = 1 THEN 0 ELSE size[u]

\* The block handed out next, if the bound allows.
Handed(base, sz) == blocks \cup {[id |-> Cardinality(blocks) + 1, base |-> base, size |-> sz]}

Init ==
    /\ current_break = 0
    /\ pc = [u \in Users |-> "idle"]
    /\ call = [u \in Users |-> 1]
    /\ size = [u \in Users |-> 0]
    /\ p = [u \in Users |-> 0]
    /\ prev = [u \in Users |-> 0]
    /\ acc = [u \in Users |-> 0]
    /\ blocks = {}
    /\ raced = FALSE

\* Definitions whose names begin with Bug are faulty variants of the definition
\* they precede; nothing uses them but the project's mutation checks.

\* The break check lets the last byte past the end through.
BugFitsOneMore(brk, incr) == brk + incr <= HeapTop + 1

\* !(current_break + incr > &heap_top)
Fits(brk, incr) == brk + incr <= HeapTop

\* The kernel, in an SVC or IRQ handler, runs stdmem_allocate to its end.
KernelAllocate(sz) ==
    /\ Cardinality(blocks) < MaxBlocks
    /\ IF Fits(current_break, sz)
       THEN /\ blocks' = Handed(current_break, sz)
            /\ current_break' = current_break + sz
       ELSE UNCHANGED <<blocks, current_break>>     \* NULL
    /\ raced' = Raced({})
    /\ UNCHANGED <<pc, locals>>

\* stdmem_allocate(sz) is called.
Allocate(u, sz) ==
    /\ pc[u] = "idle"
    /\ Cardinality(blocks) < MaxBlocks
    /\ pc' = [pc EXCEPT ![u] = "prev"]
    /\ call' = [call EXCEPT ![u] = 1]
    /\ size' = [size EXCEPT ![u] = sz]
    /\ UNCHANGED <<current_break, p, prev, acc, blocks, raced>>

\* prev_break = current_break
ReadPrev(u) ==
    /\ pc[u] = "prev"
    /\ prev' = [prev EXCEPT ![u] = current_break]
    /\ pc' = [pc EXCEPT ![u] = "check"]
    /\ UNCHANGED <<current_break, call, size, p, acc, blocks, raced>>

\* stdmem_allocate hands out p without looking at the second result.
BugFailureIgnored(u, r) ==
    IF call[u] = 1
    THEN /\ p' = [p EXCEPT ![u] = r]
         /\ call' = [call EXCEPT ![u] = 2]
         /\ pc' = [pc EXCEPT ![u] = "prev"]
         /\ UNCHANGED blocks
    ELSE /\ pc' = [pc EXCEPT ![u] = "idle"]
         /\ blocks' = Handed(p[u], size[u])
         /\ UNCHANGED <<p, call>>

\* _sbrk returns r to stdmem_allocate: the first result is p, the second decides
\* between p and NULL.
Return(u, r) ==
    IF call[u] = 1
    THEN /\ p' = [p EXCEPT ![u] = r]
         /\ call' = [call EXCEPT ![u] = 2]
         /\ pc' = [pc EXCEPT ![u] = "prev"]
         /\ UNCHANGED blocks
    ELSE /\ pc' = [pc EXCEPT ![u] = "idle"]
         /\ blocks' = IF r = Failed THEN blocks ELSE Handed(p[u], size[u])
         /\ UNCHANGED <<p, call>>

\* if (current_break + incr > &heap_top) return (void*)-1
Check(u) ==
    /\ pc[u] = "check"
    /\ IF Fits(current_break, Incr(u))
       THEN /\ pc' = [pc EXCEPT ![u] = "load"]
            /\ UNCHANGED <<p, call, blocks>>
       ELSE Return(u, Failed)
    /\ UNCHANGED <<current_break, size, prev, acc, raced>>

\* The load and add of "current_break += incr"
Load(u) ==
    /\ pc[u] = "load"
    /\ acc' = [acc EXCEPT ![u] = current_break + Incr(u)]
    /\ pc' = [pc EXCEPT ![u] = "store"]
    /\ UNCHANGED <<current_break, call, size, p, prev, blocks, raced>>

\* Its store, and return prev_break
Store(u) ==
    /\ pc[u] = "store"
    /\ current_break' = acc[u]
    /\ Return(u, prev[u])
    /\ raced' = Raced({u})
    /\ UNCHANGED <<size, prev, acc>>

Next ==
    \/ \E sz \in Sizes : KernelAllocate(sz)
    \/ \E u \in Users, sz \in Sizes : Allocate(u, sz)
    \/ \E u \in Users : ReadPrev(u)
    \/ \E u \in Users : Check(u)
    \/ \E u \in Users : Load(u)
    \/ \E u \in Users : Store(u)

Spec == Init /\ [][Next]_vars

-----------------------------------------------------------------------------
Cells(b) == b.base..(b.base + b.size - 1)

\* syscall.c:66-67: "Else move the break forward and return the position at the
\* start of the increment".  No byte of the heap is handed out twice: neither two
\* processes nor a process and the kernel's own pcbs, queue entries and messages
\* share memory.  They do, after a race.
NoOverlap ==
    \A b, c \in blocks : b.id # c.id => Cells(b) \cap Cells(c) = {}

\* Any number of processes and the kernel may be in stdmem_allocate at once: only
\* a break that moves between the moment one of them reads it and its return
\* makes two blocks overlap.
DisjointUnlessRaced == ~raced => NoOverlap

\* _sbrk: "If we cannot move the break by the increment without exceeding the
\* available space, return (void*)-1".  With the same exception every block, and
\* the break itself, stay inside the heap, also for the request that fills it
\* exactly.
WithinUnlessRaced ==
    ~raced =>
        /\ current_break \in 0..HeapTop
        /\ \A b \in blocks : b.base >= 0 /\ b.base + b.size <= HeapTop
=============================================================================
