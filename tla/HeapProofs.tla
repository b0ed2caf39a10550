----------------------------- MODULE HeapProofs -----------------------------
(***************************************************************************)
(* Proofs about module Heap, for any number of processes, any sizes, any   *)
(* size of the heap and any interleaving of processes and kernel: as long  *)
(* as the break has not moved under a process that had read it, the two    *)
(* calls of _sbrk hand out disjoint blocks inside the heap.                *)
(***************************************************************************)
EXTENDS Heap, TLAPS

\* What holds in every state, raced or not.
Kinds ==
    /\ pc \in [Users -> {"idle", "prev", "check", "load", "store"}]
    /\ call \in [Users -> {1, 2}]
    /\ size \in [Users -> Nat]
    /\ current_break \in Int
    /\ p \in [Users -> Int] /\ prev \in [Users -> Int] /\ acc \in [Users -> Int]
    /\ \A u \in Users : pc[u] # "idle" => size[u] \in Sizes

\* Everything handed out lies below the break, and no two blocks share a cell.
BlocksBelowBreak ==
    \A b \in blocks : b.base \in Nat /\ b.size \in Nat /\ b.base + b.size <= current_break

BlocksDisjoint ==
    \A b, c \in blocks : b # c => b.base + b.size <= c.base \/ c.base + c.size <= b.base

\* What the locals of a process inside stdmem_allocate say of the break.
LocalsCurrent ==
    \A u \in Users : pc[u] # "idle" =>
        /\ call[u] = 2 => p[u] = current_break
        /\ pc[u] \in {"check", "load", "store"} => prev[u] = current_break
        /\ pc[u] \in {"load", "store"} => Fits(current_break, Incr(u))
        /\ pc[u] = "store" => acc[u] = current_break + Incr(u)

Unraced ==
    /\ current_break \in 0..HeapTop
    /\ BlocksBelowBreak
    /\ BlocksDisjoint
    /\ LocalsCurrent

HeapInv == Kinds /\ (~raced => Unraced)

\* A block placed at the break, which moves past it.
LEMMA HandOut ==
    ASSUME BlocksBelowBreak, BlocksDisjoint, current_break \in Nat, NEW sz \in Nat,
           blocks' = Handed(current_break, sz), current_break' = current_break + sz
    PROVE  BlocksBelowBreak' /\ BlocksDisjoint'
<1>. DEFINE new == [id |-> Cardinality(blocks) + 1, base |-> current_break, size |-> sz]
<1>1. blocks' = blocks \cup {new} /\ new.base = current_break /\ new.size = sz
  BY DEF Handed
<1>. HIDE DEF new
<1>2. BlocksBelowBreak'
  BY <1>1 DEF BlocksBelowBreak
<1>3. BlocksDisjoint'
  BY <1>1 DEF BlocksDisjoint, BlocksBelowBreak
<1>. QED BY <1>2, <1>3

\* The heap starts empty.
LEMMA InitHeapInv == Init => HeapInv
<1>. SUFFICES ASSUME Init PROVE HeapInv
  OBVIOUS
<1>1. Kinds
  BY DEF Init, Kinds
<1>2. Unraced
  BY HeapTopAssumption DEF Init, Unraced, BlocksBelowBreak, BlocksDisjoint, LocalsCurrent
<1>. QED BY <1>1, <1>2 DEF HeapInv

\* The kinds of values are kept by every step.
LEMMA NextKinds ==
    ASSUME Kinds, [Next]_vars
    PROVE  Kinds'
<1>. USE SizesAssumption DEF locals, Kinds, Incr, Failed
<1>1. ASSUME NEW sz \in Sizes, KernelAllocate(sz) PROVE Kinds'
  BY <1>1 DEF KernelAllocate, Raced
<1>2. ASSUME NEW u \in Users, NEW sz \in Sizes, Allocate(u, sz) PROVE Kinds'
  BY <1>2 DEF Allocate
<1>3. ASSUME NEW u \in Users, ReadPrev(u) PROVE Kinds'
  BY <1>3 DEF ReadPrev
<1>4. ASSUME NEW u \in Users, Check(u) PROVE Kinds'
  BY <1>4 DEF Check, Return
<1>5. ASSUME NEW u \in Users, Load(u) PROVE Kinds'
  BY <1>5 DEF Load
<1>6. ASSUME NEW u \in Users, Store(u) PROVE Kinds'
  BY <1>6 DEF Store, Return, Raced
<1>7. CASE UNCHANGED vars
  BY <1>7 DEF vars
<1>. QED BY <1>1, <1>2, <1>3, <1>4, <1>5, <1>6, <1>7 DEF Next

\* A step that leaves the break and the blocks alone and touches the locals of u
\* only.
LEMMA OneUserSteps ==
    ASSUME Kinds, Unraced, NEW u \in Users, UNCHANGED <<current_break, blocks>>,
           \A v \in Users \ {u} : /\ pc'[v] = pc[v] /\ call'[v] = call[v] /\ size'[v] = size[v]
                                  /\ p'[v] = p[v] /\ prev'[v] = prev[v] /\ acc'[v] = acc[v],
           pc'[u] # "idle" =>
              /\ call'[u] = 2 => p'[u] = current_break
              /\ pc'[u] \in {"check", "load", "store"} => prev'[u] = current_break
              /\ pc'[u] \in {"load", "store"} => Fits(current_break, Incr(u)')
              /\ pc'[u] = "store" => acc'[u] = current_break + Incr(u)'
    PROVE  Unraced'
<1>1. BlocksBelowBreak' /\ BlocksDisjoint' /\ current_break' \in 0..HeapTop
  BY DEF Unraced, BlocksBelowBreak, BlocksDisjoint
<1>2. \A v \in Users \ {u} : Incr(v)' = Incr(v)
  BY DEF Incr
<1>3. LocalsCurrent'
  BY <1>2 DEF Unraced, LocalsCurrent, Fits
<1>. QED BY <1>1, <1>3 DEF Unraced

\* The break moves while nobody but `movers' is exposed: the others have nothing
\* to remember of it.
LEMMA BreakMoves ==
    ASSUME Kinds, Unraced, NEW movers \in SUBSET Users, NEW sz \in Nat,
           \A v \in Users \ movers : ~Exposed(v),
           \A v \in movers : pc'[v] = "idle",
           \A v \in Users \ movers : /\ pc'[v] = pc[v] /\ call'[v] = call[v],
           blocks' = Handed(current_break, sz), current_break' = current_break + sz,
           Fits(current_break, sz)
    PROVE  Unraced'
<1>1. BlocksBelowBreak' /\ BlocksDisjoint'
  BY HeapTopAssumption, HandOut DEF Unraced
<1>2. current_break' \in 0..HeapTop
  BY HeapTopAssumption DEF Unraced, Fits
<1>3. LocalsCurrent'
  BY DEF Exposed, LocalsCurrent, Kinds
<1>. QED BY <1>1, <1>2, <1>3 DEF Unraced

\* Every step preserves the invariant, unless it is the race.
LEMMA NextHeapInv ==
    ASSUME HeapInv, [Next]_vars
    PROVE  HeapInv'
<1>0. Kinds' /\ Kinds
  BY NextKinds DEF HeapInv
<1>. SUFFICES ASSUME ~raced' PROVE Unraced'
  BY <1>0 DEF HeapInv
<1>r. ~raced => Unraced
  BY DEF HeapInv
<1>. USE SizesAssumption, HeapTopAssumption DEF locals
<1>1. ASSUME NEW sz \in Sizes, KernelAllocate(sz) PROVE Unraced'
  <2>0. ~raced /\ Unraced
    BY <1>r, <1>1 DEF KernelAllocate, Raced
  <2>1. CASE ~Fits(current_break, sz)
    BY <1>1, <2>0, <2>1
    DEF KernelAllocate, Unraced, BlocksBelowBreak, BlocksDisjoint, LocalsCurrent, Incr
  <2>2. CASE Fits(current_break, sz)
    <3>1. /\ blocks' = Handed(current_break, sz) /\ current_break' = current_break + sz
          /\ sz \in Nat /\ sz # 0 /\ UNCHANGED <<pc, call>>
      BY <1>1, <2>2 DEF KernelAllocate
    <3>2. current_break' # current_break
      BY <2>0, <3>1 DEF Unraced
    <3>3. \A v \in Users : ~Exposed(v)
      BY <1>1, <3>2 DEF KernelAllocate, Raced
    <3>4. PICK none \in SUBSET Users : none = {}
      OBVIOUS
    <3>. QED BY <1>0, <2>0, <2>2, <3>1, <3>3, <3>4, BreakMoves
  <2>. QED BY <2>1, <2>2
<1>2. ASSUME NEW u \in Users, NEW sz \in Sizes, Allocate(u, sz) PROVE Unraced'
  <2>1. Unraced /\ UNCHANGED <<current_break, blocks>> /\ pc'[u] = "prev" /\ call'[u] = 1
    BY <1>0, <1>r, <1>2 DEF Allocate, Kinds
  <2>2. \A v \in Users \ {u} : /\ pc'[v] = pc[v] /\ call'[v] = call[v] /\ size'[v] = size[v]
                               /\ p'[v] = p[v] /\ prev'[v] = prev[v] /\ acc'[v] = acc[v]
    BY <1>0, <1>2 DEF Allocate, Kinds
  <2>. QED BY <1>0, <2>1, <2>2, OneUserSteps
<1>3. ASSUME NEW u \in Users, ReadPrev(u) PROVE Unraced'
  <2>1. /\ Unraced /\ UNCHANGED <<current_break, blocks, call, size, p>>
        /\ pc[u] = "prev" /\ pc'[u] = "check" /\ prev'[u] = current_break
    BY <1>0, <1>r, <1>3 DEF ReadPrev, Kinds
  <2>2. \A v \in Users \ {u} : /\ pc'[v] = pc[v] /\ call'[v] = call[v] /\ size'[v] = size[v]
                               /\ p'[v] = p[v] /\ prev'[v] = prev[v] /\ acc'[v] = acc[v]
    BY <1>0, <1>3 DEF ReadPrev, Kinds
  <2>3. call'[u] = 2 => p'[u] = current_break
    BY <2>1 DEF Unraced, LocalsCurrent
  <2>. QED BY <1>0, <2>1, <2>2, <2>3, OneUserSteps
<1>4. ASSUME NEW u \in Users, Check(u) PROVE Unraced'
  <2>0. Unraced /\ UNCHANGED <<current_break, size, prev, acc>> /\ pc[u] = "check"
    BY <1>r, <1>4 DEF Check
  <2>1. CASE Fits(current_break, Incr(u))
    <3>1. UNCHANGED <<blocks, p, call>> /\ pc' = [pc EXCEPT ![u] = "load"]
      BY <1>4, <2>1 DEF Check
    <3>2. /\ call'[u] = 2 => p'[u] = current_break
          /\ prev'[u] = current_break
          /\ Incr(u)' = Incr(u) /\ pc'[u] = "load"
      BY <1>0, <2>0, <3>1 DEF Unraced, LocalsCurrent, Incr, Kinds
    <3>3. \A v \in Users \ {u} : /\ pc'[v] = pc[v] /\ call'[v] = call[v] /\ size'[v] = size[v]
                                 /\ p'[v] = p[v] /\ prev'[v] = prev[v] /\ acc'[v] = acc[v]
      BY <1>0, <2>0, <3>1 DEF Kinds
    <3>. QED BY <1>0, <2>0, <2>1, <3>1, <3>2, <3>3, OneUserSteps
  <2>2. CASE ~Fits(current_break, Incr(u))
    <3>1. call[u] = 2
      BY <1>0, <2>0, <2>2 DEF Kinds, Unraced, Fits, Incr
    <3>2. UNCHANGED <<blocks, p, call>> /\ pc' = [pc EXCEPT ![u] = "idle"]
      BY <1>4, <2>2, <3>1 DEF Check, Return
    <3>3. /\ pc'[u] = "idle"
          /\ \A v \in Users \ {u} : /\ pc'[v] = pc[v] /\ call'[v] = call[v] /\ size'[v] = size[v]
                                    /\ p'[v] = p[v] /\ prev'[v] = prev[v] /\ acc'[v] = acc[v]
      BY <1>0, <2>0, <3>2 DEF Kinds
    <3>. QED BY <1>0, <2>0, <3>2, <3>3, OneUserSteps
  <2>. QED BY <2>1, <2>2
<1>5. ASSUME NEW u \in Users, Load(u) PROVE Unraced'
  <2>1. /\ Unraced /\ UNCHANGED <<current_break, blocks, call, size, p, prev>>
        /\ pc[u] = "load" /\ pc'[u] = "store" /\ acc'[u] = current_break + Incr(u)
    BY <1>0, <1>r, <1>5 DEF Load, Kinds
  <2>2. \A v \in Users \ {u} : /\ pc'[v] = pc[v] /\ call'[v] = call[v] /\ size'[v] = size[v]
                               /\ p'[v] = p[v] /\ prev'[v] = prev[v] /\ acc'[v] = acc[v]
    BY <1>0, <1>5 DEF Load, Kinds
  <2>3. /\ call'[u] = 2 => p'[u] = current_break
        /\ prev'[u] = current_break
        /\ Incr(u)' = Incr(u) /\ Fits(current_break, Incr(u))
    BY <2>1 DEF Unraced, LocalsCurrent, Incr
  <2>. QED BY <1>0, <2>1, <2>2, <2>3, OneUserSteps
<1>6. ASSUME NEW u \in Users, Store(u) PROVE Unraced'
  <2>0. ~raced /\ Unraced
    BY <1>r, <1>6 DEF Store, Raced
  <2>1. /\ pc[u] = "store" /\ acc[u] = current_break + Incr(u)
        /\ prev[u] = current_break /\ Fits(current_break, Incr(u))
        /\ call[u] = 2 => p[u] = current_break
    BY <1>6, <2>0 DEF Store, Unraced, LocalsCurrent
  <2>2. CASE call[u] = 1
    <3>1. /\ p' = [p EXCEPT ![u] = current_break] /\ call' = [call EXCEPT ![u] = 2]
          /\ pc' = [pc EXCEPT ![u] = "prev"]
          /\ UNCHANGED <<blocks, current_break, size, prev, acc>>
      BY <1>6, <2>0, <2>1, <2>2 DEF Store, Return, Incr, Unraced
    <3>2. /\ pc'[u] = "prev" /\ p'[u] = current_break
          /\ \A v \in Users \ {u} : /\ pc'[v] = pc[v] /\ call'[v] = call[v] /\ size'[v] = size[v]
                                    /\ p'[v] = p[v] /\ prev'[v] = prev[v] /\ acc'[v] = acc[v]
      BY <1>0, <3>1 DEF Kinds
    <3>. QED BY <1>0, <2>0, <3>1, <3>2, OneUserSteps
  <2>3. CASE call[u] = 2
    <3>0. size[u] \in Sizes
      BY <1>0, <2>1 DEF Kinds
    <3>1. /\ pc' = [pc EXCEPT ![u] = "idle"]
          /\ blocks' = Handed(current_break, size[u])
          /\ current_break' = current_break + size[u]
          /\ call' = call /\ Fits(current_break, size[u])
      BY <1>6, <2>0, <2>1, <2>3 DEF Store, Return, Incr, Unraced, Failed
    <3>2. current_break' # current_break /\ size[u] \in Nat
      <4>1. size[u] \in Nat /\ size[u] # 0 /\ current_break \in Int
        BY <1>0, <3>0 DEF Kinds
      <4>. QED BY ONLY <3>1, <4>1
    <3>3. \A v \in Users \ {u} : ~Exposed(v)
      BY <1>6, <3>2 DEF Store, Raced
    <3>4. /\ \A v \in {u} : pc'[v] = "idle"
          /\ \A v \in Users \ {u} : pc'[v] = pc[v] /\ call'[v] = call[v]
          /\ {u} \in SUBSET Users
      BY <1>0, <3>1 DEF Kinds
    <3>. QED BY <1>0, <2>0, <3>1, <3>2, <3>3, <3>4, BreakMoves
  <2>. QED BY <1>0, <2>2, <2>3 DEF Kinds
<1>7. CASE UNCHANGED vars
  BY <1>r, <1>7 DEF vars, Unraced, BlocksBelowBreak, BlocksDisjoint, LocalsCurrent, Incr
<1>. QED BY <1>1, <1>2, <1>3, <1>4, <1>5, <1>6, <1>7 DEF Next

\* The invariant holds in every state of every interleaving.
LEMMA HeapInvariant == Spec => []HeapInv
<1>1. HeapInv /\ [Next]_vars => HeapInv'
  BY NextHeapInv
<1>. QED BY <1>1, InitHeapInv, PTL DEF Spec

\* No byte is handed out twice by stdmem_allocate, whoever calls it and however
\* the calls interleave, unless the break moved under a caller that had read it.
THEOREM BlocksNeverOverlap == Spec => []DisjointUnlessRaced
<1>1. HeapInv => DisjointUnlessRaced
  BY HeapTopAssumption
  DEF HeapInv, Unraced, DisjointUnlessRaced, NoOverlap, BlocksDisjoint, BlocksBelowBreak, Cells
<1>. QED BY <1>1, HeapInvariant, PTL

\* With the same exception _sbrk never moves the break past heap_top, and every
\* block ends before it.
THEOREM BlocksWithinHeap == Spec => []WithinUnlessRaced
<1>1. HeapInv => WithinUnlessRaced
  BY HeapTopAssumption DEF HeapInv, Unraced, WithinUnlessRaced, BlocksBelowBreak
<1>. QED BY <1>1, HeapInvariant, PTL
=============================================================================
