-------------------------- MODULE FileSystemProofs --------------------------
(***************************************************************************)
(* Proofs about FileSystem.tla (os/src/kernel/file.c), for every geometry  *)
(* of the disk, every set of paths and every number of calls.              *)
(*                                                                         *)
(* The theorems are about callers that keep clear of the edges file.c does *)
(* not handle (Callers).  The inductive invariant, IInv, says that the FAT *)
(* is a set of disjoint chains, each begun by one directory entry; that a  *)
(* directory is filled from the front, without a name twice; that what is  *)
(* free, or lies behind the end of a file, is empty; and that an open file *)
(* has the entry that is on the disk.  The operations of the code are      *)
(* shown to be one of three changes of the disk (a new entry, a changed    *)
(* entry, a chain that is lengthened and written), each change is shown to *)
(* keep the disk well formed, and then what it does to every path.         *)
(***************************************************************************)
EXTENDS FileSystem, WellFoundedInduction, FiniteSetTheorems, SequenceTheorems, TLAPS

-----------------------------------------------------------------------------
(* The inductive invariant.                                                *)

\* The callers: no edge is reached, and directories have plain names.
Callers == Uses = {} /\ \A p \in DirPaths : p # <<>> => Last(p) \in PlainNames

\* The clusters of the data region.
Clusters == 2 .. LastCluster

\* The blocks of a directory.
StartOf(d) == IF d = Root THEN 0 ELSE RootSlots + (d - 2) * SlotsPerCluster
SizeOf(d)  == IF d = Root THEN RootSlots ELSE SlotsPerCluster
Region(d)  == StartOf(d) + 1 .. StartOf(d) + SizeOf(d)

DataBlocks  == {Block(d, i) : d \in Data, i \in 1 .. MaxWrite}
DiskEntries == {Entry(n, dir, c, s) : n \in Names, dir \in BOOLEAN, c \in Clusters, s \in Nat}
BlockSet    == {Zero, Deleted} \cup DataBlocks \cup DiskEntries

\* Where the entries are, and the directories they name.
Entries(k) == {a \in 1 .. Blocks : k.store[a].kind = "entry"}
Dirs(k) ==
    {Root} \cup {d \in Clusters : \E a \in Entries(k) : k.store[a].dir /\ k.store[a].first = d}

\* Links lead to cells of the FAT.
FatType(k) == k.fat \in [FatCells -> FatCells]

\* The disk is a FAT and blocks.
DiskType(k) ==
    /\ FatType(k)
    /\ k.store \in [1 .. Blocks -> BlockSet]
    /\ k = [fat |-> k.fat, store |-> k.store]

\* The FAT is a set of disjoint chains that begin nowhere else than in an entry.
FatOK(k) ==
    /\ k.fat[0] = EOC /\ k.fat[1] = EOC
    /\ \A c \in Clusters : k.fat[c] \in {Free, EOC} \cup Clusters
    /\ \A c \in Clusters : k.fat[c] \in Clusters => k.fat[k.fat[c]] # Free
    /\ \A b, c \in Clusters : k.fat[b] \in Clusters /\ k.fat[b] = k.fat[c] => b = c

\* No link leads to c.
Headless(k, c) == \A b \in Clusters : k.fat[b] # c

\* The entries begin chains of their own; a directory has one cluster, and
\* the kind of its name tells a directory from a file.
EntryOK(k) ==
    /\ \A a \in Entries(k) :
          /\ k.fat[k.store[a].first] # Free
          /\ Headless(k, k.store[a].first)
          /\ k.store[a].dir => k.fat[k.store[a].first] = EOC /\ k.store[a].name \in PlainNames
          /\ ~k.store[a].dir => k.store[a].name \in FullNames
          /\ \E d \in Dirs(k) : a \in Region(d)
    /\ \A a, b \in Entries(k) : k.store[a].first = k.store[b].first => a = b

\* A directory is filled from the front, and no name is in it twice.
DirOK(k) ==
    \A d \in Dirs(k) : \A a, b \in Region(d) :
        /\ a < b /\ k.store[a] = Zero => k.store[b] = Zero
        /\ a \in Entries(k) /\ b \in Entries(k) /\ k.store[a].name = k.store[b].name => a = b

\* Free clusters are empty.
FreeOK(k) == \A c \in Clusters : k.fat[c] = Free => \A a \in Region(c) : k.store[a] = Zero

\* The disk is well formed.
DiskOK(k) == DiskType(k) /\ FatOK(k) /\ EntryOK(k) /\ DirOK(k) /\ FreeOK(k)

\* s blocks fit in the chain that begins at c, and what it has beyond them is empty.
FitsIn(k, c, s) ==
    LET cs == Chain(k, c)
    IN  /\ s <= Len(cs) * SlotsPerCluster
        /\ \A i \in s + 1 .. Len(cs) * SlotsPerCluster : k.store[AddressAt(cs, i)] = Zero

\* Every file fits in its chain; a directory counts no blocks.
SizeOK(k) ==
    \A a \in Entries(k) :
        /\ k.store[a].dir => k.store[a].size = 0
        /\ ~k.store[a].dir => FitsIn(k, k.store[a].first, k.store[a].size)

\* What is on the disk was made by the callers.
KnownOK(k) == \A p \in Seq(Names) : p # <<>> /\ find_file(k, p) # NoEntry => p \in Paths

\* What holds of the disk between two calls.
DiskInv(k) == DiskOK(k) /\ SizeOK(k) /\ KnownOK(k)

\* An open file has its directory entry with it.
OpenFileOK(k, f) ==
    /\ f.path \in Paths /\ f.offset \in Nat /\ f.append \in BOOLEAN
    /\ f = [path |-> f.path, entry |-> f.entry, offset |-> f.offset, append |-> f.append]
    /\ f.path = <<>> => f.entry = RootEntry
    /\ f.path # <<>> => f.entry = find_file(k, f.path) /\ f.entry # NoEntry

\* The open files are so, and no path is open twice.
OpenInv(k, op, fd) ==
    /\ fd \in FirstFd .. MaxFd + 1 /\ DOMAIN op \subseteq FirstFd .. fd - 1
    /\ op = [g \in DOMAIN op |-> op[g]]
    /\ \A g \in DOMAIN op : OpenFileOK(k, op[g])
    /\ \A g, h \in DOMAIN op : op[g].path = op[h].path => g = h

\* What holds of the state between two calls.
IInv == DiskInv(disk) /\ OpenInv(disk, open, next_fd) /\ files = AllContents(disk)

-----------------------------------------------------------------------------
(* Natural numbers and recursion.                                          *)

\* A non-empty set of natural numbers has a least element, which is its Min.
LEMMA MinProperties ==
    ASSUME NEW I, I \subseteq Nat, I # {}
    PROVE  Min(I) \in I /\ \A y \in I : Min(I) <= y
<1>1. \E x \in I : \A y \in I : <<y, x>> \notin OpToRel(<, Nat)
  BY WFMin, NatLessThanWellFounded
<1>2. PICK x \in I : \A y \in I : <<y, x>> \notin OpToRel(<, Nat)
  BY <1>1
<1>3. \A y \in I : ~(y < x)
  BY <1>2 DEF OpToRel
<1>4. \E z \in I : \A y \in I : z <= y
  BY <1>3
<1>. QED BY <1>4 DEF Min

\* Min and Max of two numbers.
LEMMA MinMaxTwo ==
    ASSUME NEW a \in Nat, NEW b \in Nat
    PROVE  /\ Min({a, b}) = IF a <= b THEN a ELSE b
           /\ Max({a, b}) = IF a <= b THEN b ELSE a
<1>1. Min({a, b}) = IF a <= b THEN a ELSE b
  BY MinProperties DEF Min
<1>2. Max({a, b}) = IF a <= b THEN b ELSE a
  <2>1. \E x \in {a, b} : \A y \in {a, b} : x >= y
    OBVIOUS
  <2>2. Max({a, b}) \in {a, b} /\ \A y \in {a, b} : Max({a, b}) >= y
    BY <2>1 DEF Max
  <2>. QED BY <2>2
<1>. QED BY <1>1, <1>2

\* Induction over a set of natural numbers.
LEMMA SetInduction ==
    ASSUME NEW I, 0 \in I, \A n \in Nat : n \in I => n + 1 \in I
    PROVE  Nat \subseteq I
<1>. SUFFICES ASSUME Nat \ I # {} PROVE FALSE
  OBVIOUS
<1>1. PICK x \in Nat \ I : \A y \in Nat \ I : x <= y
  BY MinProperties
<1>2. x # 0 /\ x - 1 \in Nat
  BY <1>1
<1>. QED BY <1>1, <1>2

\* v is the beginning, up to n, of what f computes from x.
Begins(v, n, x, f) == v[0] = x /\ \A i \in 1 .. n : v[i] = f[i][v[i - 1]]

\* Two beginnings agree as far as both go.
LEMMA BeginsUnique ==
    ASSUME NEW x, NEW f, NEW v, NEW u, NEW n \in Nat, NEW m \in Nat,
           Begins(v, n, x, f), Begins(u, m, x, f), NEW i \in Nat, i <= n, i <= m
    PROVE  v[i] = u[i]
<1>. DEFINE I == {j \in Nat : j <= n /\ j <= m => v[j] = u[j]}
<1>1. 0 \in I
  BY DEF Begins
<1>2. ASSUME NEW j \in Nat, j \in I PROVE j + 1 \in I
  <2>. SUFFICES ASSUME j + 1 <= n, j + 1 <= m PROVE v[j + 1] = u[j + 1]
    OBVIOUS
  <2>1. v[j] = u[j]
    BY <1>2
  <2>2. v[j + 1] = f[j + 1][v[(j + 1) - 1]] /\ u[j + 1] = f[j + 1][u[(j + 1) - 1]]
    BY DEF Begins
  <2>. QED BY <2>1, <2>2
<1>. HIDE DEF I
<1>3. Nat \subseteq I
  BY <1>1, <1>2, SetInduction
<1>. QED BY <1>3 DEF I

\* There is a beginning of every length.
LEMMA BeginsExists ==
    ASSUME NEW S, NEW x \in S, NEW f \in [Nat -> [S -> S]], NEW n \in Nat
    PROVE  \E v \in [0 .. n -> S] : Begins(v, n, x, f)
<1>. DEFINE I == {j \in Nat : \E v \in [0 .. j -> S] : Begins(v, j, x, f)}
<1>1. 0 \in I
  <2>1. [i \in 0 .. 0 |-> x] \in [0 .. 0 -> S] /\ Begins([i \in 0 .. 0 |-> x], 0, x, f)
    BY DEF Begins
  <2>. QED BY <2>1
<1>2. ASSUME NEW j \in Nat, j \in I PROVE j + 1 \in I
  <2>1. PICK v \in [0 .. j -> S] : Begins(v, j, x, f)
    BY <1>2
  <2>. DEFINE u == [i \in 0 .. j + 1 |-> IF i = j + 1 THEN f[j + 1][v[j]] ELSE v[i]]
  <2>2. u \in [0 .. j + 1 -> S]
    OBVIOUS
  <2>3. u[0] = x
    BY <2>1 DEF Begins
  <2>4. ASSUME NEW i \in 1 .. j + 1 PROVE u[i] = f[i][u[i - 1]]
    <3>1. CASE i = j + 1
      <4>1. u[i - 1] = v[j]
        BY <3>1
      <4>. QED BY <3>1, <4>1
    <3>2. CASE i \in 1 .. j
      BY <2>1, <3>2 DEF Begins
    <3>. QED BY <3>1, <3>2
  <2>5. Begins(u, j + 1, x, f)
    BY <2>3, <2>4 DEF Begins
  <2>. HIDE DEF u
  <2>6. j + 1 \in Nat /\ \E t \in [0 .. j + 1 -> S] : Begins(t, j + 1, x, f)
    BY <2>2, <2>5
  <2>. QED BY <2>6
<1>. HIDE DEF I
<1>3. Nat \subseteq I
  BY <1>1, <1>2, SetInduction
<1>. QED BY <1>3 DEF I

\* w is what f computes from x.
Computes(w, x, f) == w = [i \in Nat |-> IF i = 0 THEN x ELSE f[i][w[i - 1]]]

\* A function that is defined by recursion exists.
LEMMA Recursion ==
    ASSUME NEW S, NEW x \in S, NEW f \in [Nat -> [S -> S]]
    PROVE  \E w \in [Nat -> S] : Computes(w, x, f)
<1>. DEFINE v(n) == CHOOSE u \in [0 .. n -> S] : Begins(u, n, x, f)
            w == [n \in Nat |-> v(n)[n]]
<1>1. ASSUME NEW n \in Nat PROVE v(n) \in [0 .. n -> S] /\ Begins(v(n), n, x, f)
  BY BeginsExists
<1>. HIDE DEF v
<1>2. w \in [Nat -> S]
  BY <1>1
<1>3. w[0] = x
  BY <1>1 DEF Begins
<1>4. ASSUME NEW i \in Nat PROVE w[i + 1] = f[i + 1][w[i]]
  <2>1. v(i + 1)[i] = v(i)[i]
    BY <1>1, BeginsUnique
  <2>2. v(i + 1)[i + 1] = f[i + 1][v(i + 1)[(i + 1) - 1]]
    <3>1. i + 1 \in Nat /\ i + 1 \in 1 .. i + 1
      OBVIOUS
    <3>. QED BY <1>1, <3>1 DEF Begins
  <2>3. w[i] = v(i)[i] /\ w[i + 1] = v(i + 1)[i + 1]
    OBVIOUS
  <2>. QED BY <2>1, <2>2, <2>3
<1>. HIDE DEF w
<1>5. Computes(w, x, f)
  <2>1. ASSUME NEW i \in Nat PROVE w[i] = IF i = 0 THEN x ELSE f[i][w[i - 1]]
    <3>1. CASE i # 0
      <4>1. i - 1 \in Nat /\ (i - 1) + 1 = i
        BY <3>1
      <4>. QED BY <1>4, <3>1, <4>1
    <3>. QED BY <1>3, <3>1
  <2>. QED BY <1>2, <2>1 DEF Computes
<1>. QED BY <1>2, <1>5

-----------------------------------------------------------------------------
(* The geometry of the disk.                                               *)

\* Multiples of s are at least s apart.
LEMMA Product ==
    ASSUME NEW a \in Int, NEW b \in Int, a < b, NEW s \in Nat
    PROVE  a * s + s <= b * s
<1>1. (b - a - 1) * s >= 0
  <2>1. b - a - 1 \in Nat
    OBVIOUS
  <2>. QED BY <2>1, Z3T(30)
<1>2. (b - a - 1) * s = b * s - (a * s + s)
  BY Z3T(30)
<1>3. a * s \in Int /\ b * s \in Int
  OBVIOUS
<1>. QED BY <1>1, <1>2, <1>3

\* What GeometryAssumption says of the numbers the disk is measured in.
LEMMA Geometry ==
    /\ SlotsPerCluster \in Nat /\ SlotsPerCluster >= 1
    /\ RootSlots \in Nat /\ RootSlots >= SlotsPerCluster /\ LastCluster \in Nat /\ LastCluster >= 2
    /\ SlotsPerSector \in Nat /\ LastCluster < 65520 /\ DirLimit \in 2 .. LastCluster
    /\ Blocks \in Nat
    /\ MaxFd \in Nat /\ MaxOffset \in Nat /\ MaxWrite \in Nat \ {0}
<1>1. SlotsPerCluster \in Nat
  BY GeometryAssumption DEF SlotsPerCluster
<1>2. SlotsPerCluster >= 1
  <2>1. SlotsPerSector - 1 \in Nat /\ SectorsPerCluster \in Nat /\ SectorsPerCluster >= 1
    BY GeometryAssumption
  <2>2. 0 * SectorsPerCluster + SectorsPerCluster <= SlotsPerSector * SectorsPerCluster
    <3>1. SlotsPerSector \in Int /\ 0 < SlotsPerSector
      BY GeometryAssumption
    <3>. QED BY <2>1, <3>1, Product
  <2>3. 0 * SectorsPerCluster = 0 /\ SlotsPerSector * SectorsPerCluster \in Int
    BY GeometryAssumption
  <2>. QED BY <2>1, <2>2, <2>3 DEF SlotsPerCluster
<1>3. /\ RootSlots \in Nat /\ RootSlots >= 2 * SlotsPerCluster
      /\ LastCluster \in Nat /\ 1 < LastCluster /\ LastCluster < 65520
  BY GeometryAssumption
<1>4. (LastCluster - 1) * SlotsPerCluster \in Nat
  BY <1>1, <1>3
<1>. HIDE DEF SlotsPerCluster
<1>5. RootSlots >= SlotsPerCluster
  BY <1>1, <1>3
<1>6. Blocks \in Nat
  BY <1>3, <1>4 DEF Blocks
<1>7. /\ SlotsPerSector \in Nat /\ DirLimit \in 2 .. LastCluster
      /\ MaxFd \in Nat /\ MaxOffset \in Nat /\ MaxWrite \in Nat \ {0}
  BY GeometryAssumption
<1>8. LastCluster \in Nat /\ LastCluster >= 2 /\ LastCluster < 65520 /\ RootSlots \in Nat
  BY <1>3
<1>. QED BY <1>1, <1>2, <1>5, <1>6, <1>7, <1>8

\* Division by the size of a cluster.
LEMMA Division ==
    ASSUME NEW i \in Nat
    PROVE  /\ i \div SlotsPerCluster \in Nat /\ i % SlotsPerCluster \in 0 .. SlotsPerCluster - 1
           /\ i = (i \div SlotsPerCluster) * SlotsPerCluster + (i % SlotsPerCluster)
<1>1. ASSUME NEW s \in Nat, s >= 1
      PROVE  /\ i \div s \in Nat /\ i % s \in 0 .. s - 1
             /\ i = (i \div s) * s + (i % s)
  BY <1>1, Z3T(30)
<1>2. SlotsPerCluster \in Nat /\ SlotsPerCluster >= 1
  BY Geometry
<1>. QED BY <1>1, <1>2, Zenon

\* Quotient and remainder are determined by the sum they make up.
LEMMA DivisionUnique ==
    ASSUME NEW q \in Nat, NEW r \in 0 .. SlotsPerCluster - 1
    PROVE  /\ (q * SlotsPerCluster + r) \div SlotsPerCluster = q
           /\ (q * SlotsPerCluster + r) % SlotsPerCluster = r
<1>. DEFINE s == SlotsPerCluster
            i == q * s + r
            p == i \div s
            t == i % s
<1>1. s \in Nat /\ s >= 1
  BY Geometry
<1>2. i \in Nat
  BY <1>1
<1>3. p \in Nat /\ t \in 0 .. s - 1 /\ i = p * s + t
  BY <1>2, Division
<1>. HIDE DEF p, t, i
<1>4. i = q * s + r
  BY DEF i
<1>. HIDE DEF s
<1>5. p * s \in Int /\ q * s \in Int
  BY <1>1, <1>3
<1>6. ~(p < q)
  <2>1. p < q => p * s + s <= q * s
    BY <1>1, <1>3, Product
  <2>. QED BY <2>1, <1>1, <1>3, <1>4, <1>5
<1>7. ~(q < p)
  <2>1. q < p => q * s + s <= p * s
    BY <1>1, <1>3, Product
  <2>2. r \in Int /\ r < s
    BY <1>1 DEF s
  <2>. QED BY <2>1, <2>2, <1>1, <1>3, <1>4, <1>5
<1>8. p = q
  BY <1>3, <1>6, <1>7
<1>9. t = r
  BY <1>3, <1>4, <1>5, <1>8
<1>. QED BY <1>8, <1>9 DEF p, t, i, s

\* Clusters do not overlap, and are on the disk.
LEMMA RegionOf ==
    ASSUME NEW c \in Clusters
    PROVE  /\ Region(c) = RootSlots + (c - 2) * SlotsPerCluster + 1
                            .. RootSlots + (c - 2) * SlotsPerCluster + SlotsPerCluster
           /\ c # Root /\ (c - 2) * SlotsPerCluster \in Nat
           /\ StartOf(c) \in Nat /\ SizeOf(c) = SlotsPerCluster
           /\ \A i \in 1 .. SlotsPerCluster : BlockOf(c, i) = StartOf(c) + i
           /\ Region(c) \subseteq RootSlots + 1 .. Blocks
           /\ \A i \in 1 .. SlotsPerCluster : BlockOf(c, i) \in Region(c)
           /\ \A a \in Region(c) : \E i \in 1 .. SlotsPerCluster : a = BlockOf(c, i)
<1>1. c \in Nat /\ c >= 2 /\ c <= LastCluster /\ c # Root
  BY Geometry DEF Clusters, Root
<1>2. (c - 2) * SlotsPerCluster \in Nat
  BY <1>1, Geometry
<1>3. (c - 2) * SlotsPerCluster + SlotsPerCluster <= (LastCluster - 1) * SlotsPerCluster
  BY <1>1, Geometry, Product
<1>4. Region(c) = RootSlots + (c - 2) * SlotsPerCluster + 1
                            .. RootSlots + (c - 2) * SlotsPerCluster + SlotsPerCluster
  BY <1>1 DEF Region, StartOf, SizeOf
<1>. DEFINE x == (c - 2) * SlotsPerCluster
<1>5. (LastCluster - 1) * SlotsPerCluster \in Int
  BY Geometry
<1>6. Region(c) \subseteq RootSlots + 1 .. Blocks
  <2>. HIDE DEF x
  <2>1. x \in Nat /\ x + SlotsPerCluster <= (LastCluster - 1) * SlotsPerCluster
        /\ Region(c) = RootSlots + x + 1 .. RootSlots + x + SlotsPerCluster
    BY <1>2, <1>3, <1>4 DEF x
  <2>. DEFINE y == (LastCluster - 1) * SlotsPerCluster
  <2>2. Blocks = RootSlots + y /\ y \in Int /\ x + SlotsPerCluster <= y
    BY <1>5, <2>1 DEF Blocks
  <2>. HIDE DEF y
  <2>. QED BY <2>1, <2>2, Geometry
<1>7. ASSUME NEW i \in 1 .. SlotsPerCluster PROVE BlockOf(c, i) \in Region(c)
  <2>1. BlockOf(c, i) = RootSlots + x + i /\ x \in Nat
    BY <1>2 DEF BlockOf
  <2>2. Region(c) = RootSlots + x + 1 .. RootSlots + x + SlotsPerCluster
    BY <1>4
  <2>. HIDE DEF x
  <2>. QED BY <2>1, <2>2, Geometry
<1>8. ASSUME NEW a \in Region(c) PROVE \E i \in 1 .. SlotsPerCluster : a = BlockOf(c, i)
  <2>1. \A i \in 1 .. SlotsPerCluster : BlockOf(c, i) = RootSlots + x + i
    BY <1>2 DEF BlockOf
  <2>2. Region(c) = RootSlots + x + 1 .. RootSlots + x + SlotsPerCluster /\ x \in Nat
    BY <1>4, <1>2
  <2>. HIDE DEF x
  <2>3. a \in Nat /\ a - RootSlots - x \in 1 .. SlotsPerCluster
    BY <2>2, Geometry
  <2>4. BlockOf(c, a - RootSlots - x) = a
    BY <2>1, <2>2, <2>3, Geometry
  <2>. QED BY <2>3, <2>4
<1>9. /\ StartOf(c) \in Nat /\ SizeOf(c) = SlotsPerCluster
      /\ \A i \in 1 .. SlotsPerCluster : BlockOf(c, i) = StartOf(c) + i
  BY <1>1, <1>2, Geometry DEF StartOf, SizeOf, BlockOf
<1>. QED BY <1>1, <1>2, <1>4, <1>6, <1>7, <1>8, <1>9

\* No block is in two regions.
LEMMA RegionsDisjoint ==
    ASSUME NEW c \in Clusters \cup {Root}, NEW d \in Clusters \cup {Root},
           NEW a \in Region(c), a \in Region(d)
    PROVE  c = d
<1>1. ASSUME NEW b \in Clusters, NEW e \in Clusters, a \in Region(b), a \in Region(e)
      PROVE  ~(b < e)
  <2>. DEFINE x == (b - 2) * SlotsPerCluster
              y == (e - 2) * SlotsPerCluster
  <2>1. /\ a \in RootSlots + x + 1 .. RootSlots + x + SlotsPerCluster
        /\ a \in RootSlots + y + 1 .. RootSlots + y + SlotsPerCluster
        /\ x \in Nat /\ y \in Nat
    BY <1>1, RegionOf
  <2>2. b < e => x + SlotsPerCluster <= y
    BY Product, Geometry DEF Clusters
  <2>. HIDE DEF x, y
  <2>. QED BY <2>1, <2>2, Geometry
<1>2. ASSUME NEW b \in Clusters, a \in Region(b) PROVE a \notin Region(Root)
  <2>1. a \in RootSlots + 1 .. Blocks
    BY <1>2, RegionOf
  <2>. QED BY <2>1, Geometry DEF Region, StartOf, SizeOf
<1>3. CASE c \in Clusters /\ d \in Clusters
  <2>1. ~(c < d) /\ ~(d < c)
    BY <1>1, <1>3
  <2>2. c \in Int /\ d \in Int
    BY <1>3, Geometry DEF Clusters
  <2>. QED BY <2>1, <2>2
<1>. QED BY <1>2, <1>3

\* Every region lies on the disk.
LEMMA RegionOnDisk ==
    ASSUME NEW d \in Clusters \cup {Root}
    PROVE  Region(d) \subseteq 1 .. Blocks
<1>1. CASE d \in Clusters
  <2>1. Region(d) \subseteq RootSlots + 1 .. Blocks
    BY <1>1, RegionOf
  <2>. QED BY <2>1, Geometry
<1>2. CASE d = Root
  <2>1. (LastCluster - 1) * SlotsPerCluster \in Nat
    BY Geometry
  <2>2. RootSlots <= Blocks
    BY <2>1, Geometry DEF Blocks
  <2>. QED BY <1>2, <2>2, Geometry DEF Region, StartOf, SizeOf
<1>. QED BY <1>1, <1>2

\* Different places of a cluster have different addresses.
LEMMA BlockOfUnique ==
    ASSUME NEW c \in Clusters, NEW d \in Clusters, NEW i \in 1 .. SlotsPerCluster,
           NEW j \in 1 .. SlotsPerCluster, BlockOf(c, i) = BlockOf(d, j)
    PROVE  c = d /\ i = j
<1>1. c = d
  BY RegionOf, RegionsDisjoint
<1>2. (c - 2) * SlotsPerCluster \in Nat
  BY RegionOf
<1>. QED BY <1>1, <1>2, Geometry DEF BlockOf

-----------------------------------------------------------------------------
(* Chains.                                                                 *)

\* The cells of the FAT, and which of their values are links.
LEMMA Cells ==
    /\ Clusters \subseteq FatCells /\ Clusters \subseteq Nat
    /\ \A c \in FatCells : InChain(c) <=> c \in Clusters
    /\ Free \in FatCells /\ EOC \in FatCells /\ Free \notin Clusters /\ EOC \notin Clusters
    /\ 0 \in FatCells /\ 1 \in FatCells /\ Free # EOC
BY Geometry DEF Clusters, FatCells, InChain, Between, Free, EOC

\* w is the walk from c.
IsWalk(w, k, c) ==
    /\ w \in [Nat -> FatCells] /\ w[0] = c
    /\ \A i \in Nat : w[i] \in Clusters => w[i + 1] = k.fat[w[i]]
    /\ \A i \in Nat : w[i] \notin Clusters => w[i + 1] = w[i]

\* Walk is a walk: the recursion that defines it has a value.
LEMMA WalkType ==
    ASSUME NEW k, FatType(k), NEW c \in FatCells
    PROVE  IsWalk(Walk(k, c), k, c)
<1>. DEFINE g == [b \in FatCells |-> Onward(k, b)]
            f == [i \in Nat |-> g]
<1>1. ASSUME NEW b \in FatCells
      PROVE  /\ Onward(k, b) = IF b \in Clusters THEN k.fat[b] ELSE b
             /\ Onward(k, b) \in FatCells
  BY Cells DEF Onward, get_successor_cluster, FatType
<1>2. g \in [FatCells -> FatCells]
  BY <1>1
<1>3. f \in [Nat -> [FatCells -> FatCells]]
  BY <1>2
<1>4. \A i \in Nat : \A b \in FatCells : f[i][b] = Onward(k, b)
  OBVIOUS
<1>. HIDE DEF f
<1>5. PICK w \in [Nat -> FatCells] : Computes(w, c, f)
  BY <1>3, Recursion
<1>6. w = [i \in Nat |-> IF i = 0 THEN c ELSE Onward(k, w[i - 1])]
  <2>1. ASSUME NEW i \in Nat
        PROVE  w[i] = IF i = 0 THEN c ELSE Onward(k, w[i - 1])
    <3>1. CASE i # 0
      <4>1. i - 1 \in Nat /\ w[i - 1] \in FatCells
        BY <3>1
      <4>2. w[i] = f[i][w[i - 1]]
        BY <1>5, <3>1 DEF Computes
      <4>. QED BY <1>4, <3>1, <4>1, <4>2
    <3>. QED BY <1>5, <3>1 DEF Computes
  <2>. QED BY <2>1
<1>. DEFINE W == Walk(k, c)
<1>7. W = [i \in Nat |-> IF i = 0 THEN c ELSE Onward(k, W[i - 1])]
  BY <1>6 DEF Walk
<1>. HIDE DEF W
<1>8. W[0] = c /\ \A i \in Nat : W[i + 1] = Onward(k, W[i])
  <2>1. W[0] = c
    BY <1>7
  <2>2. ASSUME NEW i \in Nat PROVE W[i + 1] = Onward(k, W[i])
    <3>1. i + 1 \in Nat /\ i + 1 # 0 /\ (i + 1) - 1 = i
      OBVIOUS
    <3>. QED BY <1>7, <3>1
  <2>. QED BY <2>1, <2>2
<1>9. \A i \in Nat : W[i] \in FatCells
  <2>. DEFINE I == {i \in Nat : W[i] \in FatCells}
  <2>1. 0 \in I
    BY <1>8
  <2>2. \A i \in Nat : i \in I => i + 1 \in I
    BY <1>1, <1>8
  <2>. HIDE DEF I
  <2>3. Nat \subseteq I
    BY <2>1, <2>2, SetInduction
  <2>. QED BY <2>3 DEF I
<1>10. W \in [Nat -> FatCells]
  BY <1>7, <1>9
<1>11. \A i \in Nat : W[i + 1] = IF W[i] \in Clusters THEN k.fat[W[i]] ELSE W[i]
  BY <1>1, <1>8, <1>9
<1>. QED BY <1>8, <1>10, <1>11 DEF W, IsWalk

\* A walk stays within the clusters up to last for as long as StepsUpTo says.
LEMMA StepsUpToProperties ==
    ASSUME NEW w, NEW last
    PROVE  /\ StepsUpTo(w, last) \in 0 .. LastCluster
           /\ \A i \in Nat : i < StepsUpTo(w, last) => Between(w[i], last)
           /\ StepsUpTo(w, last) < LastCluster => ~Between(w[StepsUpTo(w, last)], last)
<1>. DEFINE I == {i \in 0 .. LastCluster : ~Between(w[i], last)} \cup {LastCluster}
<1>1. I \subseteq Nat /\ I # {} /\ I \subseteq 0 .. LastCluster
  BY Geometry
<1>2. Min(I) \in I /\ \A y \in I : Min(I) <= y
  BY <1>1, MinProperties
<1>3. StepsUpTo(w, last) = Min(I)
  BY DEF StepsUpTo
<1>4. ASSUME NEW i \in Nat, i < Min(I) PROVE Between(w[i], last)
  <2>1. i \notin I
    BY <1>1, <1>2, <1>4
  <2>2. i \in 0 .. LastCluster
    BY <1>1, <1>2, <1>4, Geometry
  <2>. QED BY <2>1, <2>2
<1>5. ASSUME Min(I) < LastCluster PROVE ~Between(w[Min(I)], last)
  BY <1>2, <1>5, Geometry
<1>. HIDE DEF I
<1>. QED BY <1>1, <1>2, <1>3, <1>4, <1>5

\* The same of the clusters that can be in a chain.
LEMMA StepsProperties ==
    ASSUME NEW w \in [Nat -> FatCells]
    PROVE  /\ Steps(w) \in 0 .. LastCluster
           /\ \A i \in Nat : i < Steps(w) => w[i] \in Clusters
           /\ Steps(w) < LastCluster => w[Steps(w)] \notin Clusters
<1>1. \A c \in FatCells : Between(c, 65519) <=> c \in Clusters
  BY Cells DEF InChain
<1>2. /\ Steps(w) \in 0 .. LastCluster
      /\ \A i \in Nat : i < Steps(w) => Between(w[i], 65519)
      /\ Steps(w) < LastCluster => ~Between(w[Steps(w)], 65519)
  BY StepsUpToProperties DEF Steps
<1>3. Steps(w) \in Nat
  BY <1>2, Geometry
<1>. QED BY <1>1, <1>2, <1>3

\* A walk of which one step is in the chain was in it before; one that has
\* left it stays where it is.
LEMMA WalkBefore ==
    ASSUME NEW k, FatType(k), NEW c \in FatCells,
           NEW i \in Nat, Walk(k, c)[i] \in Clusters, NEW j \in Nat, j <= i
    PROVE  Walk(k, c)[j] \in Clusters
<1>. DEFINE w == Walk(k, c)
            I == {n \in Nat : w[n] \in Clusters => \A m \in 0 .. n : w[m] \in Clusters}
<1>1. IsWalk(w, k, c)
  BY WalkType
<1>. HIDE DEF w
<1>2. 0 \in I
  OBVIOUS
<1>3. ASSUME NEW n \in Nat, n \in I PROVE n + 1 \in I
  <2>. SUFFICES ASSUME w[n + 1] \in Clusters, NEW m \in 0 .. n + 1 PROVE w[m] \in Clusters
    OBVIOUS
  <2>1. w[n] \in Clusters
    BY <1>1 DEF IsWalk
  <2>. QED BY <1>3, <2>1
<1>. HIDE DEF I
<1>4. Nat \subseteq I
  BY <1>2, <1>3, SetInduction
<1>. QED BY <1>4 DEF I, w

\* Once a walk has left the clusters it stays where it is.
LEMMA WalkAfter ==
    ASSUME NEW k, FatType(k), NEW c \in FatCells,
           NEW i \in Nat, Walk(k, c)[i] \notin Clusters, NEW j \in Nat, i <= j
    PROVE  Walk(k, c)[j] = Walk(k, c)[i]
<1>. DEFINE w == Walk(k, c)
            I == {n \in Nat : i <= n => w[n] = w[i]}
<1>1. IsWalk(w, k, c)
  BY WalkType
<1>. HIDE DEF w
<1>2. 0 \in I
  OBVIOUS
<1>3. ASSUME NEW n \in Nat, n \in I PROVE n + 1 \in I
  BY <1>1, <1>3 DEF w, IsWalk
<1>. HIDE DEF I
<1>4. Nat \subseteq I
  BY <1>2, <1>3, SetInduction
<1>. QED BY <1>4 DEF I, w

\* The step into a cluster.
LEMMA WalkLink ==
    ASSUME NEW k, FatType(k), NEW c \in FatCells,
           NEW i \in Nat, Walk(k, c)[i + 1] \in Clusters
    PROVE  Walk(k, c)[i] \in Clusters /\ k.fat[Walk(k, c)[i]] = Walk(k, c)[i + 1]
<1>1. IsWalk(Walk(k, c), k, c)
  BY WalkType
<1>. QED BY <1>1 DEF IsWalk

\* Two chains have no cluster in common, and a chain comes by none twice.
LEMMA WalksMeet ==
    ASSUME NEW k, FatType(k), FatOK(k),
           NEW c \in Clusters, NEW d \in Clusters, Headless(k, c), Headless(k, d),
           NEW i \in Nat, NEW j \in Nat, Walk(k, c)[i] = Walk(k, d)[j], Walk(k, c)[i] \in Clusters
    PROVE  i = j /\ c = d
<1>. DEFINE w == Walk(k, c)
            v == Walk(k, d)
            I == {n \in Nat : \A m \in Nat : w[n] = v[m] /\ w[n] \in Clusters => n = m /\ c = d}
<1>0. c \in FatCells /\ d \in FatCells
  BY Cells
<1>1. w[0] = c /\ v[0] = d
  <2>1. IsWalk(w, k, c) /\ IsWalk(v, k, d)
    BY <1>0, WalkType
  <2>. QED BY <2>1 DEF IsWalk
<1>2. /\ \A n \in Nat : w[n + 1] \in Clusters => w[n] \in Clusters /\ k.fat[w[n]] = w[n + 1]
      /\ \A n \in Nat : v[n + 1] \in Clusters => v[n] \in Clusters /\ k.fat[v[n]] = v[n + 1]
  BY <1>0, WalkLink
<1>. HIDE DEF w, v
<1>3. 0 \in I
  <2>. SUFFICES ASSUME NEW m \in Nat, w[0] = v[m], w[0] \in Clusters PROVE m = 0 /\ c = d
    OBVIOUS
  <2>1. CASE m # 0
    <3>1. m - 1 \in Nat /\ (m - 1) + 1 = m
      BY <2>1
    <3>2. v[m - 1] \in Clusters /\ k.fat[v[m - 1]] = c
      BY <1>1, <1>2, <3>1
    <3>. QED BY <3>2 DEF Headless
  <2>. QED BY <2>1, <1>1
<1>4. ASSUME NEW n \in Nat, n \in I PROVE n + 1 \in I
  <2>. SUFFICES ASSUME NEW m \in Nat, w[n + 1] = v[m], w[n + 1] \in Clusters
                PROVE  n + 1 = m /\ c = d
    OBVIOUS
  <2>1. w[n] \in Clusters /\ k.fat[w[n]] = w[n + 1]
    BY <1>2
  <2>2. m # 0
    BY <2>1, <1>1 DEF Headless
  <2>3. m - 1 \in Nat /\ (m - 1) + 1 = m
    BY <2>2
  <2>4. v[m - 1] \in Clusters /\ k.fat[v[m - 1]] = v[m]
    BY <1>2, <2>3
  <2>5. w[n] = v[m - 1]
    BY <2>1, <2>4 DEF FatOK
  <2>6. n = m - 1 /\ c = d
    BY <1>4, <2>1, <2>3, <2>5
  <2>. QED BY <2>6
<1>. HIDE DEF I
<1>5. Nat \subseteq I
  BY <1>3, <1>4, SetInduction
<1>. QED BY <1>5 DEF I, w, v

\* A chain ends.
LEMMA WalkEnds ==
    ASSUME NEW k, FatType(k), FatOK(k),
           NEW c \in Clusters, Headless(k, c), k.fat[c] # Free
    PROVE  /\ Steps(Walk(k, c)) \in 1 .. LastCluster - 1
           /\ Walk(k, c)[Steps(Walk(k, c))] = EOC
           /\ \A i \in 0 .. Steps(Walk(k, c)) - 1 :
                 Walk(k, c)[i] \in Clusters /\ k.fat[Walk(k, c)[i]] # Free
<1>. DEFINE w == Walk(k, c)
            L == Steps(w)
<1>0. c \in FatCells
  BY Cells
<1>1. /\ w \in [Nat -> FatCells] /\ w[0] = c
      /\ \A i \in Nat : w[i + 1] = IF w[i] \in Clusters THEN k.fat[w[i]] ELSE w[i]
  <2>1. IsWalk(w, k, c)
    BY <1>0, WalkType
  <2>. QED BY <2>1 DEF IsWalk
<1>2. /\ L \in 0 .. LastCluster
      /\ \A i \in Nat : i < L => w[i] \in Clusters
      /\ L < LastCluster => w[L] \notin Clusters
  BY <1>1, StepsProperties
<1>3. \A i, j \in Nat : w[i] = w[j] /\ w[i] \in Clusters => i = j
  BY WalksMeet
<1>. HIDE DEF w, L
<1>4. L # LastCluster
  <2>. SUFFICES ASSUME L = LastCluster PROVE FALSE
    OBVIOUS
  <2>. DEFINE P == 0 .. LastCluster - 1
              f == [i \in P |-> w[i]]
  <2>1. f \in [P -> Clusters]
    BY <1>2, Geometry
  <2>2. \A i, j \in P : f[i] = f[j] => i = j
    BY <1>2, <1>3, Geometry
  <2>3. IsFiniteSet(P) /\ Cardinality(P) = LastCluster
    <3>1. /\ IsFiniteSet(0 .. LastCluster - 1)
          /\ Cardinality(0 .. LastCluster - 1) =
                IF 0 > LastCluster - 1 THEN 0 ELSE (LastCluster - 1) - 0 + 1
      BY FS_Interval, Geometry
    <3>. QED BY <3>1, Geometry
  <2>4. IsFiniteSet(Clusters) /\ Cardinality(Clusters) = LastCluster - 1
    <3>1. /\ IsFiniteSet(2 .. LastCluster)
          /\ Cardinality(2 .. LastCluster) = IF 2 > LastCluster THEN 0 ELSE LastCluster - 2 + 1
      BY FS_Interval, Geometry
    <3>. QED BY <3>1, Geometry DEF Clusters
  <2>. HIDE DEF P, f
  <2>5. LastCluster > LastCluster - 1
    BY Geometry
  <2>6. \E i, j \in P : i # j /\ f[i] = f[j]
    BY <2>1, <2>3, <2>4, <2>5, FS_PigeonHole
  <2>. QED BY <2>2, <2>6
<1>5. L # 0
  BY <1>1, <1>2, Geometry
<1>6. L \in 1 .. LastCluster - 1
  BY <1>2, <1>4, <1>5, Geometry
<1>7. \A i \in Nat : w[i] \in Clusters => k.fat[w[i]] # Free
  <2>. DEFINE I == {i \in Nat : w[i] \in Clusters => k.fat[w[i]] # Free}
  <2>1. 0 \in I
    BY <1>1
  <2>2. ASSUME NEW i \in Nat, i \in I PROVE i + 1 \in I
    <3>1. w[i + 1] \in Clusters => w[i] \in Clusters /\ k.fat[w[i]] = w[i + 1]
      BY <1>1
    <3>. QED BY <3>1 DEF FatOK
  <2>. HIDE DEF I
  <2>3. Nat \subseteq I
    BY <2>1, <2>2, SetInduction
  <2>. QED BY <2>3 DEF I
<1>8. w[L] = EOC
  <2>1. L - 1 \in Nat /\ (L - 1) + 1 = L /\ L < LastCluster /\ L - 1 < L
    BY <1>6, Geometry
  <2>2. w[L - 1] \in Clusters /\ k.fat[w[L - 1]] # Free
    BY <1>2, <1>7, <2>1
  <2>3. w[L] = k.fat[w[L - 1]]
    BY <1>1, <2>1, <2>2
  <2>. QED BY <1>2, <2>1, <2>2, <2>3 DEF FatOK
<1>9. \A i \in 0 .. L - 1 : w[i] \in Clusters /\ k.fat[w[i]] # Free
  BY <1>2, <1>6, <1>7, Geometry
<1>. QED BY <1>6, <1>8, <1>9 DEF w, L

\* A walk whose links are kept is kept.
LEMMA WalkFrame ==
    ASSUME NEW k, FatType(k), NEW k2, FatType(k2),
           NEW c \in FatCells,
           \A i \in Nat : Walk(k, c)[i] \in Clusters => k2.fat[Walk(k, c)[i]] = k.fat[Walk(k, c)[i]]
    PROVE  Walk(k2, c) = Walk(k, c)
<1>. DEFINE w == Walk(k, c)
            v == Walk(k2, c)
            I == {i \in Nat : v[i] = w[i]}
<1>1. IsWalk(w, k, c)
  BY WalkType
<1>2. IsWalk(v, k2, c)
  BY WalkType
<1>3. \A i \in Nat : w[i] \in Clusters => k2.fat[w[i]] = k.fat[w[i]]
  OBVIOUS
<1>. HIDE DEF w, v
<1>4. 0 \in I
  BY <1>1, <1>2 DEF IsWalk
<1>5. ASSUME NEW i \in Nat, i \in I PROVE i + 1 \in I
  BY <1>1, <1>2, <1>3, <1>5 DEF IsWalk
<1>. HIDE DEF I
<1>6. Nat \subseteq I
  BY <1>4, <1>5, SetInduction
<1>7. \A i \in Nat : v[i] = w[i]
  BY <1>6 DEF I
<1>8. v = w
  BY <1>1, <1>2, <1>7 DEF IsWalk
<1>. QED BY <1>8 DEF v, w

\* The walk from a cluster of a walk is the rest of it.
LEMMA WalkShift ==
    ASSUME NEW k, FatType(k), NEW c \in FatCells, NEW q \in Nat,
           NEW i \in Nat
    PROVE  Walk(k, Walk(k, c)[q])[i] = Walk(k, c)[q + i]
<1>. DEFINE w == Walk(k, c)
            v == Walk(k, w[q])
            I == {n \in Nat : v[n] = w[q + n]}
<1>1. IsWalk(w, k, c)
  BY WalkType
<1>2. IsWalk(v, k, w[q])
  <2>1. w[q] \in FatCells
    BY <1>1 DEF IsWalk
  <2>. QED BY <2>1, WalkType
<1>. HIDE DEF w, v
<1>3. 0 \in I
  BY <1>2 DEF IsWalk
<1>4. ASSUME NEW n \in Nat, n \in I PROVE n + 1 \in I
  <2>1. q + n \in Nat /\ q + (n + 1) = (q + n) + 1
    OBVIOUS
  <2>2. w[(q + n) + 1] = IF w[q + n] \in Clusters THEN k.fat[w[q + n]] ELSE w[q + n]
    BY <1>1, <2>1 DEF IsWalk
  <2>. QED BY <1>2, <1>4, <2>1, <2>2 DEF IsWalk
<1>. HIDE DEF I
<1>5. Nat \subseteq I
  BY <1>3, <1>4, SetInduction
<1>. QED BY <1>5 DEF I, v, w

-----------------------------------------------------------------------------
(* Directories and paths.                                                  *)

\* What can be told from the kind of a block.
LEMMA BlockKinds ==
    /\ Zero \in BlockSet /\ Deleted \in BlockSet /\ Zero # Deleted
    /\ Zero.kind # "entry" /\ Deleted.kind # "entry"
    /\ \A b \in DataBlocks : b \in BlockSet /\ b.kind # "entry" /\ b # Zero /\ b # Deleted
    /\ \A b \in BlockSet : b.kind = "entry" =>
          /\ b.name \in Names /\ b.dir \in BOOLEAN /\ b.first \in Clusters /\ b.size \in Nat
          /\ b = Entry(b.name, b.dir, b.first, b.size)
          /\ b # Zero /\ b # Deleted /\ b # NoEntry
BY DEF BlockSet, DataBlocks, DiskEntries, Zero, Deleted, Block, Entry, NoEntry

\* The fields of an entry, and that it is none of the other blocks.
LEMMA EntryFields ==
    ASSUME NEW n, NEW dir, NEW c, NEW s
    PROVE  /\ Entry(n, dir, c, s).kind = "entry" /\ Entry(n, dir, c, s).name = n
           /\ Entry(n, dir, c, s).dir = dir /\ Entry(n, dir, c, s).first = c
           /\ Entry(n, dir, c, s).size = s
           /\ Entry(n, dir, c, s) \notin {Zero, Deleted, NoEntry}
BY DEF Entry, Zero, Deleted, NoEntry

\* An entry for a cluster of the disk is a block of the disk.
LEMMA EntryInBlockSet ==
    ASSUME NEW n \in Names, NEW dir \in BOOLEAN, NEW c \in Clusters, NEW s \in Nat
    PROVE  Entry(n, dir, c, s) \in BlockSet
BY DEF BlockSet, DiskEntries

\* The types of what an entry holds.
LEMMA EntryTypes ==
    ASSUME NEW k, DiskType(k), NEW a \in Entries(k)
    PROVE  /\ a \in 1 .. Blocks /\ k.store[a] \in BlockSet /\ k.store[a].kind = "entry"
           /\ k.store[a].name \in Names /\ k.store[a].dir \in BOOLEAN
           /\ k.store[a].first \in Clusters /\ k.store[a].size \in Nat
           /\ k.store[a] # Zero /\ k.store[a] # Deleted /\ k.store[a] # NoEntry
<1>1. a \in 1 .. Blocks /\ k.store[a] \in BlockSet /\ k.store[a].kind = "entry"
  BY DEF DiskType, Entries
<1>. QED BY <1>1, BlockKinds

\* A directory is the root or a cluster, and is found.
LEMMA DirsAreClusters ==
    ASSUME NEW k, NEW d \in Dirs(k)
    PROVE  d \in Clusters \cup {Root} /\ d # NoDir
BY Cells, Geometry DEF Dirs, Clusters, NoDir, Root

\* A list of the one cluster d.
LEMMA OneCluster ==
    ASSUME NEW d \in Clusters, NEW i \in 1 .. SlotsPerCluster, NEW cs, cs = [j \in 1 .. 1 |-> d]
    PROVE  AddressAt(cs, i) = StartOf(d) + i
<1>1. i - 1 \in 0 .. SlotsPerCluster - 1 /\ 0 * SlotsPerCluster + (i - 1) = i - 1
  BY Geometry
<1>2. (i - 1) \div SlotsPerCluster = 0 /\ (i - 1) % SlotsPerCluster = i - 1
  BY <1>1, DivisionUnique
<1>3. AddressAt(cs, i) = BlockOf(cs[1], 1 + (i - 1))
  BY <1>2 DEF AddressAt
<1>4. cs[1] = d /\ 1 + (i - 1) = i
  OBVIOUS
<1>. QED BY <1>3, <1>4, RegionOf

\* A subdirectory has one cluster.
LEMMA DirFat ==
    ASSUME NEW k, DiskOK(k), NEW d \in Dirs(k), d # Root
    PROVE  d \in Clusters /\ k.fat[d] = EOC /\ d \in FatCells /\ EOC \in FatCells
BY Cells DEF Dirs, DiskOK, EntryOK

\* The addresses of a directory, as those that list it and those that change
\* it see them.
LEMMA PlacesOf ==
    ASSUME NEW k, DiskOK(k), NEW d \in Dirs(k)
    PROVE  Places(k, d) = [i \in 1 .. SizeOf(d) |-> StartOf(d) + i]
<1>1. CASE d = Root
  BY <1>1 DEF Places, SizeOf, StartOf
<1>2. CASE d # Root
  <2>1. d \in Clusters /\ k.fat[d] = EOC /\ d \in FatCells /\ EOC \in FatCells
    BY <1>2, DirFat
  <2>. DEFINE w == Walk(k, d)
              L == Steps(w)
  <2>2. IsWalk(w, k, d)
    BY <2>1, WalkType DEF DiskOK, DiskType
  <2>3. w \in [Nat -> FatCells] /\ w[0] = d /\ w[0 + 1] = EOC
    BY <2>1, <2>2 DEF IsWalk
  <2>4. /\ L \in 0 .. LastCluster
        /\ \A i \in Nat : i < L => w[i] \in Clusters
        /\ L < LastCluster => w[L] \notin Clusters
    BY <2>3, StepsProperties
  <2>. HIDE DEF w, L
  <2>5. L = 1
    <3>1. EOC \notin Clusters /\ L \in Nat /\ LastCluster >= 2
      BY Cells, <2>4, Geometry
    <3>2. L # 0
      BY <2>1, <2>3, <2>4, Geometry
    <3>3. ~(1 < L)
      BY <2>3, <2>4, <3>1
    <3>. QED BY <3>1, <3>2, <3>3
  <2>6. Chain(k, d) = [j \in 1 .. 1 |-> d]
    <3>1. Chain(k, d) = [j \in 1 .. L |-> w[j - 1]]
      BY DEF Chain, w, L
    <3>. QED BY <3>1, <2>3, <2>5
  <2>7. Len(Chain(k, d)) * SlotsPerCluster = SlotsPerCluster
    <3>1. Len(Chain(k, d)) = 1
      BY <2>6
    <3>. QED BY <3>1, Geometry
  <2>8. \A i \in 1 .. SlotsPerCluster : AddressAt(Chain(k, d), i) = StartOf(d) + i
    BY <2>1, <2>6, OneCluster
  <2>9. Places(k, d) = [i \in 1 .. SlotsPerCluster |-> AddressAt(Chain(k, d), i)]
    BY <1>2, <2>7 DEF Places, Addresses
  <2>. QED BY <1>2, <2>8, <2>9 DEF SizeOf
<1>. QED BY <1>1, <1>2

\* The addresses that add_directory_entry and update_directory_entry look at.
LEMMA SlotsOf ==
    ASSUME NEW k, DiskOK(k), NEW d \in Dirs(k)
    PROVE  /\ d # Root => Slots(k, d) = [i \in 1 .. SizeOf(d) |-> StartOf(d) + i]
           /\ d = Root => Slots(k, d) = [i \in 1 .. RootSlots + SlotsPerSector |-> i]
<1>1. CASE d = Root
  BY <1>1 DEF Slots
<1>2. CASE d # Root
  <2>1. d \in Clusters /\ k.fat[d] = EOC /\ d \in FatCells /\ EOC \in FatCells
    BY <1>2, DirFat
  <2>. DEFINE w == Walk(k, EOC)
              L == StepsUpTo(w, DirLimit)
  <2>2. IsWalk(w, k, EOC)
    BY <2>1, WalkType DEF DiskOK, DiskType
  <2>3. w[0] = EOC
    BY <2>2 DEF IsWalk
  <2>4. /\ L \in 0 .. LastCluster
        /\ \A i \in Nat : i < L => Between(w[i], DirLimit)
    BY StepsUpToProperties
  <2>. HIDE DEF w
  <2>5. L = 0
    <3>1. ~Between(EOC, DirLimit)
      BY Geometry DEF Between, EOC
    <3>2. ~(0 < L)
      BY <2>3, <2>4, <3>1
    <3>. HIDE DEF L
    <3>. QED BY <3>2, <2>4, Geometry
  <2>6. DirClusters(k, d) = Followed(d, w, 0)
    BY <2>1, <2>5 DEF DirClusters, get_successor_cluster, w
  <2>7. DirClusters(k, d) = [j \in 1 .. 1 |-> d]
    BY <2>6 DEF Followed
  <2>8. Len(DirClusters(k, d)) * SlotsPerCluster = SlotsPerCluster
    <3>1. Len(DirClusters(k, d)) = 1
      BY <2>7
    <3>. QED BY <3>1, Geometry
  <2>9. \A i \in 1 .. SlotsPerCluster : AddressAt(DirClusters(k, d), i) = StartOf(d) + i
    BY <2>1, <2>7, OneCluster
  <2>10. Slots(k, d) = [i \in 1 .. SlotsPerCluster |-> AddressAt(DirClusters(k, d), i)]
    BY <1>2, <2>8 DEF Slots, Addresses
  <2>. QED BY <1>2, <2>9, <2>10 DEF SizeOf
<1>. QED BY <1>1, <1>2

\* Positions in a directory and the addresses they stand for.
LEMMA RegionIndex ==
    ASSUME NEW d \in Clusters \cup {Root}
    PROVE  /\ StartOf(d) \in Nat /\ SizeOf(d) \in Nat
           /\ \A i \in 1 .. SizeOf(d) : StartOf(d) + i \in Region(d)
           /\ \A a \in Region(d) : a - StartOf(d) \in 1 .. SizeOf(d)
           /\ \A a \in Region(d) : a \in Nat /\ StartOf(d) + (a - StartOf(d)) = a
<1>1. StartOf(d) \in Nat /\ SizeOf(d) \in Nat
  <2>1. CASE d \in Clusters
    <3>1. StartOf(d) \in Nat /\ SizeOf(d) = SlotsPerCluster
      BY <2>1, RegionOf
    <3>. QED BY <3>1, Geometry
  <2>2. CASE d = Root
    BY <2>2, Geometry DEF StartOf, SizeOf
  <2>. QED BY <2>1, <2>2
<1>. QED BY <1>1 DEF Region

\* The entries of directory d with name n.
Named(k, d, n) == {a \in Entries(k) : a \in Region(d) /\ k.store[a].name = n}

\* get_dir lists the entries of a directory, all of them and nothing else.
LEMMA ListedEntries ==
    ASSUME NEW k, DiskOK(k), NEW d \in Dirs(k)
    PROVE  /\ \A i \in 1 .. SizeOf(d) :
                 /\ Places(k, d)[i] = StartOf(d) + i /\ StartOf(d) + i \in Region(d)
                 /\ LoadBlock(k, Places(k, d)[i]) = k.store[StartOf(d) + i]
           /\ Listed(k, Places(k, d)) = {i \in 1 .. SizeOf(d) : StartOf(d) + i \in Entries(k)}
<1>. DEFINE at == Places(k, d)
            z == StartOf(d)
            n == SizeOf(d)
<1>1. d \in Clusters \cup {Root}
  BY DirsAreClusters
<1>2. /\ z \in Nat /\ n \in Nat
      /\ \A i \in 1 .. n : z + i \in Region(d) /\ z + i \in 1 .. Blocks
  BY <1>1, RegionIndex, RegionOnDisk
<1>3. DOMAIN at = 1 .. n /\ \A i \in 1 .. n : at[i] = z + i
  BY PlacesOf
<1>. HIDE DEF at, z, n
<1>4. \A i \in 1 .. n : LoadBlock(k, at[i]) = k.store[z + i]
  BY <1>2, <1>3 DEF LoadBlock
<1>5. \A i \in 1 .. n : z + i \in Entries(k) <=> k.store[z + i].kind = "entry"
  BY <1>2 DEF Entries
<1>6. ASSUME NEW i \in 1 .. n, z + i \in Entries(k), NEW j \in 1 .. i
      PROVE  LoadBlock(k, at[j]) # Zero
  <2>1. j \in 1 .. n
    BY <1>2
  <2>2. k.store[z + i] # Zero
    BY <1>6, EntryTypes DEF DiskOK
  <2>3. CASE j = i
    BY <2>2, <2>3, <1>4
  <2>4. CASE j < i
    <3>1. z + j < z + i /\ z + j \in Region(d) /\ z + i \in Region(d)
      BY <1>2, <2>1, <2>4
    <3>2. k.store[z + j] # Zero
      BY <2>2, <3>1 DEF DiskOK, DirOK
    <3>. QED BY <2>1, <3>2, <1>4
  <2>. QED BY <2>3, <2>4, <1>2
<1>7. Listed(k, at) = {i \in 1 .. n : z + i \in Entries(k)}
  BY <1>3, <1>4, <1>5, <1>6 DEF Listed
<1>. QED BY <1>2, <1>3, <1>4, <1>7 DEF at, z, n

\* Looking a name up in a directory.
LEMMA Lookup ==
    ASSUME NEW k, DiskOK(k), NEW d \in Dirs(k), NEW n
    PROVE  /\ Named(k, d, n) = {} => ListedAs(k, Places(k, d), n) = {}
           /\ \A a \in Named(k, d, n) :
                 /\ Named(k, d, n) = {a}
                 /\ ListedAs(k, Places(k, d), n) = {a - StartOf(d)}
                 /\ a - StartOf(d) \in Nat
                 /\ LoadBlock(k, Places(k, d)[a - StartOf(d)]) = k.store[a]
<1>. DEFINE at == Places(k, d)
            z == StartOf(d)
            m == SizeOf(d)
<1>1. d \in Clusters \cup {Root}
  BY DirsAreClusters
<1>2. /\ z \in Nat /\ m \in Nat
      /\ \A i \in 1 .. m : z + i \in Region(d)
      /\ \A a \in Region(d) : a - z \in 1 .. m /\ a \in Nat /\ z + (a - z) = a
  BY <1>1, RegionIndex
<1>3. /\ \A i \in 1 .. m : LoadBlock(k, at[i]) = k.store[z + i]
      /\ Listed(k, at) = {i \in 1 .. m : z + i \in Entries(k)}
  BY ListedEntries
<1>. HIDE DEF at, z, m
<1>4. ListedAs(k, at, n) = {i \in 1 .. m : z + i \in Named(k, d, n)}
  <2>1. SplitsInTwo(n) => ListedAs(k, at, n) = {i \in 1 .. m : z + i \in Named(k, d, n)}
    BY <1>2, <1>3 DEF ListedAs, Named
  <2>2. ASSUME ~SplitsInTwo(n) PROVE ListedAs(k, at, n) = {} /\ Named(k, d, n) = {}
    <3>1. ListedAs(k, at, n) = {}
      BY <2>2 DEF ListedAs
    <3>2. \A a \in Entries(k) : k.store[a].name \in FullNames \cup PlainNames
      BY DEF DiskOK, EntryOK
    <3>3. n \notin FullNames \cup PlainNames
      BY <2>2, NamesAssumption DEF SplitsInTwo
    <3>. QED BY <3>1, <3>2, <3>3 DEF Named
  <2>. QED BY <2>1, <2>2
<1>5. ASSUME NEW a \in Named(k, d, n), NEW b \in Named(k, d, n) PROVE a = b
  BY <1>5 DEF Named, DiskOK, DirOK
<1>6. ASSUME NEW a \in Named(k, d, n)
      PROVE  /\ Named(k, d, n) = {a}
             /\ ListedAs(k, at, n) = {a - z}
             /\ a - z \in Nat
             /\ LoadBlock(k, at[a - z]) = k.store[a]
  <2>1. a \in Region(d)
    BY DEF Named
  <2>2. a - z \in 1 .. m /\ a \in Nat /\ z + (a - z) = a
    BY <1>2, <2>1
  <2>3. Named(k, d, n) = {a}
    BY <1>5
  <2>4. ListedAs(k, at, n) = {a - z}
    <3>1. ASSUME NEW i \in 1 .. m, z + i = a PROVE i = a - z
      BY <1>2, <3>1
    <3>. QED BY <1>4, <2>2, <2>3, <3>1
  <2>. QED BY <1>3, <2>2, <2>3, <2>4
<1>7. Named(k, d, n) = {} => ListedAs(k, at, n) = {}
  BY <1>4
<1>. QED BY <1>6, <1>7 DEF at, z

\* Min and Max of one number.
LEMMA Singleton ==
    ASSUME NEW x \in Nat
    PROVE  Min({x}) = x /\ Max({x}) = x
BY DEF Min, Max

\* One step down a path leads to the subdirectory of that name, if there is one.
LEMMA DescendTo ==
    ASSUME NEW k, DiskOK(k), NEW d \in Dirs(k), NEW n
    PROVE  /\ \A a \in Named(k, d, n) : k.store[a].dir => Descend(k, d, n) = k.store[a].first
           /\ Descend(k, d, n) # NoDir =>
                 \E a \in Named(k, d, n) : k.store[a].dir /\ Descend(k, d, n) = k.store[a].first
           /\ Descend(k, d, n) \in Dirs(k) \cup {NoDir}
<1>. DEFINE at == Places(k, d)
            m == {i \in ListedAs(k, at, n) : LoadBlock(k, at[i]).dir}
<1>1. d # NoDir
  BY DirsAreClusters
<1>2. Descend(k, d, n) = IF m = {} THEN NoDir ELSE LoadBlock(k, at[Max(m)]).first
  BY <1>1 DEF Descend
<1>3. /\ Named(k, d, n) = {} => ListedAs(k, at, n) = {}
      /\ \A a \in Named(k, d, n) :
            /\ ListedAs(k, at, n) = {a - StartOf(d)}
            /\ a - StartOf(d) \in Nat
            /\ LoadBlock(k, at[a - StartOf(d)]) = k.store[a]
            /\ Named(k, d, n) = {a}
  BY Lookup
<1>. HIDE DEF at
<1>4. ASSUME NEW a \in Named(k, d, n), k.store[a].dir
      PROVE  Descend(k, d, n) = k.store[a].first /\ k.store[a].first \in Dirs(k)
  <2>1. m = {a - StartOf(d)}
    BY <1>3, <1>4
  <2>2. Max(m) = a - StartOf(d)
    BY <1>3, <2>1, Singleton
  <2>3. Descend(k, d, n) = k.store[a].first
    BY <1>2, <1>3, <2>1, <2>2
  <2>4. a \in Entries(k) /\ k.store[a].first \in Clusters
    BY EntryTypes DEF Named, DiskOK
  <2>. QED BY <1>4, <2>3, <2>4 DEF Dirs
<1>5. ASSUME ~\E a \in Named(k, d, n) : k.store[a].dir PROVE Descend(k, d, n) = NoDir
  <2>1. m = {}
    BY <1>3, <1>5
  <2>. QED BY <1>2, <2>1
<1>. QED BY <1>4, <1>5

\* Below a directory that was not found none is found.
LEMMA DescendNowhere ==
    ASSUME NEW k, NEW n
    PROVE  Descend(k, NoDir, n) = NoDir
BY DEF Descend

\* x is the way down path p.
IsDescent(x, k, p) ==
    /\ x \in [Nat -> Dirs(k) \cup {NoDir}] /\ x[0] = Root
    /\ \A i \in Nat : x[i + 1] = Descend(k, x[i], p[i + 1])

\* Descent is the way down a path: the recursion that defines it has a value.
LEMMA DescentType ==
    ASSUME NEW k, DiskOK(k), NEW p
    PROVE  IsDescent(Descent(k, p), k, p)
<1>. DEFINE S == Dirs(k) \cup {NoDir}
            f == [i \in Nat |-> [x \in S |-> Descend(k, x, p[i])]]
<1>1. ASSUME NEW x \in S, NEW n PROVE Descend(k, x, n) \in S
  BY DescendTo, DescendNowhere
<1>2. Root \in S
  BY DEF Dirs
<1>. HIDE DEF S
<1>3. f \in [Nat -> [S -> S]]
  BY <1>1
<1>4. \A i \in Nat : \A b \in S : f[i][b] = Descend(k, b, p[i])
  OBVIOUS
<1>. HIDE DEF f
<1>5. PICK w \in [Nat -> S] : Computes(w, Root, f)
  BY <1>2, <1>3, Recursion
<1>6. w = [i \in Nat |-> IF i = 0 THEN Root ELSE Descend(k, w[i - 1], p[i])]
  <2>1. ASSUME NEW i \in Nat
        PROVE  w[i] = IF i = 0 THEN Root ELSE Descend(k, w[i - 1], p[i])
    <3>1. CASE i # 0
      <4>1. i - 1 \in Nat /\ w[i - 1] \in S
        BY <3>1
      <4>2. w[i] = f[i][w[i - 1]]
        BY <1>5, <3>1 DEF Computes
      <4>. QED BY <1>4, <3>1, <4>1, <4>2
    <3>. QED BY <1>5, <3>1 DEF Computes
  <2>. QED BY <2>1
<1>. DEFINE W == Descent(k, p)
<1>7. W = [i \in Nat |-> IF i = 0 THEN Root ELSE Descend(k, W[i - 1], p[i])]
  BY <1>6 DEF Descent
<1>. HIDE DEF W
<1>8. W[0] = Root /\ \A i \in Nat : W[i + 1] = Descend(k, W[i], p[i + 1])
  <2>1. W[0] = Root
    BY <1>7
  <2>2. ASSUME NEW i \in Nat PROVE W[i + 1] = Descend(k, W[i], p[i + 1])
    <3>1. i + 1 \in Nat /\ i + 1 # 0 /\ (i + 1) - 1 = i
      OBVIOUS
    <3>. QED BY <1>7, <3>1
  <2>. QED BY <2>1, <2>2
<1>9. \A i \in Nat : W[i] \in S
  <2>. DEFINE I == {i \in Nat : W[i] \in S}
  <2>1. 0 \in I
    BY <1>2, <1>8
  <2>2. \A i \in Nat : i \in I => i + 1 \in I
    BY <1>1, <1>8
  <2>. HIDE DEF I
  <2>3. Nat \subseteq I
    BY <2>1, <2>2, SetInduction
  <2>. QED BY <2>3 DEF I
<1>10. W \in [Nat -> S]
  BY <1>7, <1>9
<1>. QED BY <1>8, <1>10 DEF W, IsDescent, S

\* Path p leads to the entry at a.
Leads(k, p, a) ==
    /\ ParentOf(k, p) \in Dirs(k)
    /\ a \in Named(k, ParentOf(k, p), Last(p))

\* A path other than the root.
IsPath(p) == p \in Seq(Names) /\ p # <<>>

\* A path other than the root has a last name.
LEMMA PathLength ==
    ASSUME NEW p, IsPath(p)
    PROVE  Len(p) \in Nat /\ Len(p) - 1 \in Nat /\ Last(p) = p[Len(p)]
BY LenProperties DEF IsPath, Last

\* The parent of a path is a directory, or is not found.
LEMMA ParentType ==
    ASSUME NEW k, DiskOK(k), NEW p, IsPath(p)
    PROVE  ParentOf(k, p) \in Dirs(k) \cup {NoDir}
<1>1. IsDescent(Descent(k, p), k, p)
  BY DescentType
<1>. QED BY <1>1, PathLength DEF ParentOf, IsDescent

\* find_file finds what a path leads to.
LEMMA LeadsFinds ==
    ASSUME NEW k, DiskOK(k), NEW p, IsPath(p), NEW a, Leads(k, p, a)
    PROVE  find_file(k, p) = k.store[a] /\ a \in Entries(k) /\ find_file(k, p) # NoEntry
<1>. DEFINE d == ParentOf(k, p)
            at == Places(k, d)
            n == Last(p)
<1>1. d \in Dirs(k) /\ a \in Named(k, d, n)
  BY DEF Leads
<1>2. d # NoDir
  BY <1>1, DirsAreClusters
<1>3. /\ ListedAs(k, at, n) = {a - StartOf(d)}
      /\ a - StartOf(d) \in Nat
      /\ LoadBlock(k, at[a - StartOf(d)]) = k.store[a]
  BY <1>1, Lookup
<1>4. Min({a - StartOf(d)}) = a - StartOf(d)
  BY <1>3, Singleton
<1>5. find_file(k, p) = IF ListedAs(k, at, n) = {} THEN NoEntry
                        ELSE LoadBlock(k, at[Min(ListedAs(k, at, n))])
  BY <1>2 DEF find_file
<1>6. find_file(k, p) = k.store[a]
  BY <1>3, <1>4, <1>5
<1>7. a \in Entries(k)
  BY <1>1 DEF Named
<1>8. k.store[a] # NoEntry
  BY <1>7, EntryTypes DEF DiskOK
<1>. QED BY <1>6, <1>7, <1>8

\* What find_file finds is the entry the path leads to.
LEMMA FoundLeads ==
    ASSUME NEW k, DiskOK(k), NEW p, IsPath(p), find_file(k, p) # NoEntry
    PROVE  \E a \in Entries(k) : Leads(k, p, a) /\ find_file(k, p) = k.store[a]
<1>. DEFINE d == ParentOf(k, p)
            at == Places(k, d)
            n == Last(p)
<1>1. d \in Dirs(k) \cup {NoDir}
  BY ParentType
<1>2. d # NoDir /\ ListedAs(k, at, n) # {}
  BY DEF find_file
<1>3. Named(k, d, n) # {}
  BY <1>1, <1>2, Lookup
<1>4. PICK a \in Named(k, d, n) : TRUE
  BY <1>3
<1>5. Leads(k, p, a) /\ a \in Entries(k)
  BY <1>1, <1>2, <1>4 DEF Leads, Named
<1>. QED BY <1>5, LeadsFinds

\* What an entry found by its name is.
LEMMA NamedEntry ==
    ASSUME NEW k, DiskOK(k), NEW d, NEW n, NEW a \in Named(k, d, n)
    PROVE  /\ a \in Entries(k) /\ a \in Region(d) /\ k.store[a].name = n
           /\ k.store[a].first \in Clusters /\ k.store[a].first # Root
<1>1. a \in Entries(k) /\ a \in Region(d) /\ k.store[a].name = n
  BY DEF Named
<1>2. k.store[a].first \in Clusters
  BY <1>1, EntryTypes DEF DiskOK
<1>. QED BY <1>1, <1>2, RegionOf

\* Two sequences begin alike.
SameStart(p, q, i) == \A m \in 1 .. i : p[m] = q[m]

\* A directory is reached in one way.
LEMMA DescentUnique ==
    ASSUME NEW k, DiskOK(k), NEW p, NEW q, NEW i \in Nat, NEW j \in Nat,
           Descent(k, p)[i] = Descent(k, q)[j], Descent(k, p)[i] # NoDir
    PROVE  i = j /\ SameStart(p, q, i)
<1>. DEFINE x == Descent(k, p)
            y == Descent(k, q)
            I == {n \in Nat : \A m \in Nat :
                     x[n] = y[m] /\ x[n] # NoDir => n = m /\ \A l \in 1 .. n : p[l] = q[l]}
<1>1. IsDescent(x, k, p) /\ IsDescent(y, k, q)
  BY DescentType
<1>. HIDE DEF x, y
<1>2. x[0] = Root /\ y[0] = Root
  BY <1>1 DEF IsDescent
<1>3. ASSUME NEW n \in Nat, x[n + 1] # NoDir
      PROVE  /\ x[n] \in Dirs(k)
             /\ \E a \in Named(k, x[n], p[n + 1]) : k.store[a].dir /\ x[n + 1] = k.store[a].first
  <2>1. x[n + 1] = Descend(k, x[n], p[n + 1]) /\ x[n] \in Dirs(k) \cup {NoDir}
    BY <1>1 DEF IsDescent
  <2>2. x[n] # NoDir
    BY <2>1, <1>3, DescendNowhere
  <2>. QED BY <1>3, <2>1, <2>2, DescendTo
<1>4. ASSUME NEW n \in Nat, y[n + 1] # NoDir
      PROVE  /\ y[n] \in Dirs(k)
             /\ \E a \in Named(k, y[n], q[n + 1]) : k.store[a].dir /\ y[n + 1] = k.store[a].first
  <2>1. y[n + 1] = Descend(k, y[n], q[n + 1]) /\ y[n] \in Dirs(k) \cup {NoDir}
    BY <1>1 DEF IsDescent
  <2>2. y[n] # NoDir
    BY <2>1, <1>4, DescendNowhere
  <2>. QED BY <1>4, <2>1, <2>2, DescendTo
<1>6. 0 \in I
  <2>. SUFFICES ASSUME NEW m \in Nat, x[0] = y[m], x[0] # NoDir PROVE m = 0
    OBVIOUS
  <2>1. CASE m # 0
    <3>1. m - 1 \in Nat /\ (m - 1) + 1 = m
      BY <2>1
    <3>2. PICK a \in Named(k, y[m - 1], q[m]) : k.store[a].dir /\ y[m] = k.store[a].first
      BY <1>4, <3>1
    <3>3. y[m] # Root
      BY <3>2, NamedEntry
    <3>. QED BY <1>2, <3>3
  <2>. QED BY <2>1
<1>7. ASSUME NEW n \in Nat, n \in I PROVE n + 1 \in I
  <2>. SUFFICES ASSUME NEW m \in Nat, x[n + 1] = y[m], x[n + 1] # NoDir
                PROVE  n + 1 = m /\ \A l \in 1 .. n + 1 : p[l] = q[l]
    OBVIOUS
  <2>1. PICK a \in Named(k, x[n], p[n + 1]) : k.store[a].dir /\ x[n + 1] = k.store[a].first
    BY <1>3
  <2>2. m # 0
    <3>1. x[n + 1] # Root
      BY <2>1, NamedEntry
    <3>. QED BY <1>2, <3>1
  <2>3. m - 1 \in Nat /\ (m - 1) + 1 = m
    BY <2>2
  <2>4. PICK b \in Named(k, y[m - 1], q[m]) : k.store[b].dir /\ y[m] = k.store[b].first
    BY <1>4, <2>3
  <2>5. a = b
    <3>1. a \in Entries(k) /\ b \in Entries(k) /\ k.store[a].first = k.store[b].first
      BY <2>1, <2>4, NamedEntry
    <3>. QED BY <3>1 DEF DiskOK, EntryOK
  <2>6. x[n] \in Dirs(k) /\ y[m - 1] \in Dirs(k)
    BY <1>3, <1>4, <2>3
  <2>7. x[n] = y[m - 1] /\ p[n + 1] = q[m]
    <3>1. a \in Region(x[n]) /\ a \in Region(y[m - 1]) /\ p[n + 1] = q[m]
      BY <2>1, <2>4, <2>5, NamedEntry
    <3>2. x[n] \in Clusters \cup {Root} /\ y[m - 1] \in Clusters \cup {Root}
      BY <2>6, DirsAreClusters
    <3>. QED BY <3>1, <3>2, RegionsDisjoint
  <2>8. x[n] # NoDir
    BY <2>6, DirsAreClusters
  <2>9. n = m - 1 /\ \A l \in 1 .. n : p[l] = q[l]
    BY <1>7, <2>3, <2>7, <2>8
  <2>. QED BY <2>3, <2>7, <2>9
<1>. HIDE DEF I
<1>8. Nat \subseteq I
  BY <1>6, <1>7, SetInduction
<1>. QED BY <1>8 DEF I, x, y, SameStart

\* An entry has one path, and a path one entry.
LEMMA LeadsUnique ==
    ASSUME NEW k, DiskOK(k), NEW p, NEW q, IsPath(p), IsPath(q), NEW a,
           Leads(k, p, a), Leads(k, q, a)
    PROVE  p = q
<1>. DEFINE d == ParentOf(k, p)
            e == ParentOf(k, q)
<1>1. /\ d \in Dirs(k) /\ a \in Region(d) /\ k.store[a].name = Last(p)
      /\ e \in Dirs(k) /\ a \in Region(e) /\ k.store[a].name = Last(q)
  BY DEF Leads, Named
<1>2. d = e /\ d # NoDir
  BY <1>1, DirsAreClusters, RegionsDisjoint
<1>3. /\ Len(p) \in Nat /\ Len(p) - 1 \in Nat /\ Last(p) = p[Len(p)]
      /\ Len(q) \in Nat /\ Len(q) - 1 \in Nat /\ Last(q) = q[Len(q)]
  BY PathLength
<1>4. Len(p) - 1 = Len(q) - 1 /\ \A m \in 1 .. Len(p) - 1 : p[m] = q[m]
  <2>1. /\ Descent(k, p)[Len(p) - 1] = Descent(k, q)[Len(q) - 1]
        /\ Descent(k, p)[Len(p) - 1] # NoDir
    BY <1>2 DEF ParentOf
  <2>2. Len(p) - 1 = Len(q) - 1 /\ SameStart(p, q, Len(p) - 1)
    BY <1>3, <2>1, DescentUnique
  <2>. QED BY <2>2 DEF SameStart
<1>5. Len(p) = Len(q)
  BY <1>3, <1>4
<1>6. \A m \in 1 .. Len(p) : p[m] = q[m]
  <2>. SUFFICES ASSUME NEW m \in 1 .. Len(p) PROVE p[m] = q[m]
    OBVIOUS
  <2>1. CASE m = Len(p)
    BY <1>1, <1>3, <1>5, <2>1
  <2>2. CASE m \in 1 .. Len(p) - 1
    BY <1>4, <2>2
  <2>. QED BY <2>1, <2>2, <1>3
<1>7. p \in Seq(Names) /\ q \in Seq(Names)
  BY DEF IsPath
<1>. QED BY <1>5, <1>6, <1>7, SeqEqual

\* A path leads to one entry only.
LEMMA LeadsOne ==
    ASSUME NEW k, DiskOK(k), NEW p, NEW a, NEW b, Leads(k, p, a), Leads(k, p, b)
    PROVE  a = b
BY Lookup DEF Leads

\* k2 has the directories of k, and at most one new one, c, which is empty.
DirsGrow(k, k2, c) ==
    /\ \A a \in Entries(k) : k.store[a].dir => a \in Entries(k2) /\ k2.store[a] = k.store[a]
    /\ \A a \in Entries(k2) : k2.store[a].dir =>
          \/ a \in Entries(k) /\ k2.store[a] = k.store[a]
          \/ k2.store[a].first = c
    /\ c \in Clusters => \A a \in Entries(k2) : a \notin Region(c)

\* Directories stay, and the new one is all that is added.
LEMMA DirsMonotone ==
    ASSUME NEW k, NEW k2, NEW c, DirsGrow(k, k2, c)
    PROVE  Dirs(k) \subseteq Dirs(k2) /\ Dirs(k2) \subseteq Dirs(k) \cup ({c} \cap Clusters)
BY DEF Dirs, DirsGrow

\* The way down a path stays the same, or now ends in the new directory.
LEMMA DescentGrows ==
    ASSUME NEW k, NEW k2, DiskOK(k), DiskOK(k2), NEW c, DirsGrow(k, k2, c), NEW p, NEW i \in Nat
    PROVE  \/ Descent(k2, p)[i] = Descent(k, p)[i]
           \/ Descent(k, p)[i] = NoDir /\ Descent(k2, p)[i] = c /\ c \in Clusters
<1>. DEFINE x == Descent(k, p)
            y == Descent(k2, p)
            I == {n \in Nat : y[n] = x[n] \/ (x[n] = NoDir /\ y[n] = c /\ c \in Clusters)}
<1>1. IsDescent(x, k, p) /\ IsDescent(y, k2, p)
  BY DescentType
<1>. HIDE DEF x, y
<1>2. 0 \in I
  BY <1>1 DEF IsDescent
<1>3. ASSUME NEW n \in Nat, n \in I PROVE n + 1 \in I
  <2>1. /\ x[n + 1] = Descend(k, x[n], p[n + 1]) /\ x[n] \in Dirs(k) \cup {NoDir}
        /\ y[n + 1] = Descend(k2, y[n], p[n + 1]) /\ y[n] \in Dirs(k2) \cup {NoDir}
    BY <1>1 DEF IsDescent
  <2>2. CASE x[n] = NoDir /\ y[n] = NoDir
    BY <2>1, <2>2, DescendNowhere
  <2>3. CASE x[n] = NoDir /\ y[n] = c /\ c \in Clusters
    <3>1. c \in Dirs(k2)
      <4>1. c # NoDir
        BY <2>3, Geometry DEF Clusters, NoDir
      <4>. QED BY <2>1, <2>3, <4>1
    <3>2. Named(k2, c, p[n + 1]) = {}
      BY <2>3 DEF DirsGrow, Named
    <3>3. Descend(k2, c, p[n + 1]) = NoDir
      BY <3>1, <3>2, DescendTo
    <3>. QED BY <2>1, <2>3, <3>3, DescendNowhere
  <2>4. CASE y[n] = x[n] /\ x[n] # NoDir
    <3>. DEFINE d == x[n]
                m == p[n + 1]
    <3>1. d \in Dirs(k) /\ d \in Dirs(k2)
      BY <2>1, <2>4, DirsMonotone
    <3>2. ASSUME NEW a \in Named(k, d, m), k.store[a].dir
          PROVE  a \in Named(k2, d, m) /\ k2.store[a] = k.store[a]
      BY <3>2 DEF Named, DirsGrow
    <3>3. ASSUME NEW a \in Named(k2, d, m), k2.store[a].dir
          PROVE  \/ a \in Named(k, d, m) /\ k2.store[a] = k.store[a]
                 \/ k2.store[a].first = c /\ c \in Clusters
      <4>1. a \in Entries(k2) /\ k2.store[a].first \in Clusters
        BY EntryTypes DEF Named, DiskOK
      <4>. QED BY <3>3, <4>1 DEF Named, DirsGrow
    <3>. HIDE DEF d, m
    <3>4. CASE Descend(k, d, m) # NoDir
      <4>1. PICK a \in Named(k, d, m) : k.store[a].dir /\ Descend(k, d, m) = k.store[a].first
        BY <3>1, <3>4, DescendTo
      <4>2. a \in Named(k2, d, m) /\ k2.store[a] = k.store[a]
        BY <3>2, <4>1
      <4>3. Descend(k2, d, m) = k2.store[a].first
        BY <3>1, <4>1, <4>2, DescendTo
      <4>. QED BY <2>1, <2>4, <4>1, <4>2, <4>3 DEF d, m
    <3>5. CASE Descend(k, d, m) = NoDir /\ Descend(k2, d, m) # NoDir
      <4>1. PICK a \in Named(k2, d, m) : k2.store[a].dir /\ Descend(k2, d, m) = k2.store[a].first
        BY <3>1, <3>5, DescendTo
      <4>2. ~(a \in Named(k, d, m) /\ k2.store[a] = k.store[a])
        <5>. SUFFICES ASSUME a \in Named(k, d, m), k2.store[a] = k.store[a] PROVE FALSE
          OBVIOUS
        <5>1. Descend(k, d, m) = k.store[a].first
          BY <3>1, <4>1, DescendTo
        <5>. QED BY <3>5, <4>1, <5>1
      <4>3. k2.store[a].first = c /\ c \in Clusters
        BY <3>3, <4>1, <4>2
      <4>. QED BY <2>1, <2>4, <3>5, <4>1, <4>3 DEF d, m
    <3>. QED BY <2>1, <2>4, <3>4, <3>5 DEF d, m
  <2>. QED BY <1>3, <2>2, <2>3, <2>4
<1>. HIDE DEF I
<1>4. Nat \subseteq I
  BY <1>2, <1>3, SetInduction
<1>. QED BY <1>4 DEF I, x, y

\* A path that leads to an entry still does, and no other does, as long as the
\* entry keeps its name.
LEMMA LeadsKept ==
    ASSUME NEW k, NEW k2, DiskOK(k), DiskOK(k2), NEW c, DirsGrow(k, k2, c), NEW p, IsPath(p),
           NEW a \in Entries(k), a \in Entries(k2), k2.store[a].name = k.store[a].name
    PROVE  Leads(k, p, a) <=> Leads(k2, p, a)
<1>. DEFINE d == ParentOf(k, p)
            e == ParentOf(k2, p)
<1>1. e = d \/ (d = NoDir /\ e = c /\ c \in Clusters)
  BY DescentGrows, PathLength DEF ParentOf
<1>2. d \in Dirs(k) => d # NoDir
  BY DirsAreClusters
<1>3. e = c /\ c \in Clusters => a \notin Region(e)
  BY DEF DirsGrow
<1>4. d \in Dirs(k) \cup {NoDir} /\ Dirs(k) \subseteq Dirs(k2)
  BY ParentType, DirsMonotone
<1>5. e \in Dirs(k2) => e # NoDir
  BY DirsAreClusters
<1>. HIDE DEF d, e
<1>6. Leads(k, p, a) <=> d \in Dirs(k) /\ a \in Region(d) /\ k.store[a].name = Last(p)
  BY DEF Leads, Named, d
<1>7. Leads(k2, p, a) <=> e \in Dirs(k2) /\ a \in Region(e) /\ k2.store[a].name = Last(p)
  BY DEF Leads, Named, e
<1>. QED BY <1>1, <1>2, <1>3, <1>4, <1>5, <1>6, <1>7

\* The effect of changing the entry at a0, alone, on what paths name.
LEMMA FindKept ==
    ASSUME NEW k, NEW k2, DiskOK(k), DiskOK(k2), NEW c, DirsGrow(k, k2, c), NEW a0,
           Entries(k) \cup {a0} = Entries(k2) \cup {a0},
           \A a \in Entries(k) \ {a0} : k2.store[a] = k.store[a],
           NEW p, IsPath(p), ~Leads(k, p, a0), ~Leads(k2, p, a0)
    PROVE  find_file(k2, p) = find_file(k, p)
<1>1. ASSUME NEW a, a # a0 PROVE Leads(k, p, a) <=> Leads(k2, p, a)
  <2>1. a \in Entries(k) <=> a \in Entries(k2)
    BY <1>1
  <2>2. CASE a \in Entries(k)
    BY <1>1, <2>1, <2>2, LeadsKept
  <2>3. CASE a \notin Entries(k)
    BY <2>1, <2>3 DEF Leads, Named
  <2>. QED BY <2>2, <2>3
<1>2. CASE find_file(k, p) # NoEntry
  <2>1. PICK a \in Entries(k) : Leads(k, p, a) /\ find_file(k, p) = k.store[a]
    BY <1>2, FoundLeads
  <2>2. a # a0 /\ Leads(k2, p, a)
    BY <2>1, <1>1
  <2>. QED BY <2>1, <2>2, LeadsFinds
<1>3. CASE find_file(k2, p) # NoEntry
  <2>1. PICK a \in Entries(k2) : Leads(k2, p, a) /\ find_file(k2, p) = k2.store[a]
    BY <1>3, FoundLeads
  <2>2. a # a0 /\ Leads(k, p, a)
    BY <2>1, <1>1
  <2>3. find_file(k, p) = k.store[a] /\ a \in Entries(k)
    BY <2>2, LeadsFinds
  <2>. QED BY <2>1, <2>2, <2>3
<1>. QED BY <1>2, <1>3

-----------------------------------------------------------------------------
(* The chains of the entries.                                              *)

\* The chain that begins at an entry: its clusters are in use, and EOC ends it.
LEMMA EntryChain ==
    ASSUME NEW k, DiskOK(k), NEW x \in Entries(k), NEW w, w = Walk(k, k.store[x].first),
           NEW cs, cs = Chain(k, k.store[x].first)
    PROVE  /\ IsWalk(w, k, k.store[x].first) /\ k.store[x].first \in Clusters
           /\ Steps(w) \in 1 .. LastCluster - 1 /\ Len(cs) = Steps(w) /\ Len(cs) \in Nat
           /\ DOMAIN cs = 1 .. Len(cs)
           /\ \A i \in 1 .. Len(cs) : cs[i] = w[i - 1] /\ cs[i] \in Clusters /\ k.fat[cs[i]] # Free
           /\ w[Len(cs)] = EOC /\ cs[1] = k.store[x].first /\ cs \in Seq(Clusters)
           /\ cs = [i \in 1 .. Len(cs) |-> w[i - 1]]
<1>. DEFINE c == k.store[x].first
            L == Steps(w)
<1>1. c \in Clusters /\ c \in FatCells
  BY EntryTypes, Cells DEF DiskOK
<1>2. FatType(k) /\ FatOK(k) /\ Headless(k, c) /\ k.fat[c] # Free
  BY DEF DiskOK, DiskType, EntryOK
<1>. HIDE DEF c
<1>2a. w = Walk(k, c) /\ cs = Chain(k, c)
  BY DEF c
<1>3. IsWalk(w, k, c)
  BY <1>1, <1>2, <1>2a, WalkType
<1>4. /\ L \in 1 .. LastCluster - 1 /\ w[L] = EOC
      /\ \A i \in 0 .. L - 1 : w[i] \in Clusters /\ k.fat[w[i]] # Free
  BY <1>1, <1>2, <1>2a, WalkEnds
<1>5. cs = [i \in 1 .. L |-> w[i - 1]]
  BY <1>2a DEF Chain
<1>6. L \in Nat
  BY <1>4, Geometry
<1>. HIDE DEF L
<1>7. \A i \in 1 .. L : cs[i] = w[i - 1] /\ cs[i] \in Clusters /\ k.fat[cs[i]] # Free
  BY <1>4, <1>5, <1>6
<1>8. cs \in Seq(Clusters) /\ Len(cs) = L /\ DOMAIN cs = 1 .. L
  BY <1>5, <1>6, <1>7
<1>9. cs[1] = c
  <2>1. 1 \in 1 .. L /\ w[0] = c
    BY <1>3, <1>4, <1>6, Geometry DEF IsWalk
  <2>. QED BY <1>7, <2>1
<1>. QED BY <1>1, <1>3, <1>4, <1>5, <1>6, <1>7, <1>8, <1>9 DEF c, L

\* The chains of two entries have no cluster in common, and none comes twice in one.
LEMMA ChainsApart ==
    ASSUME NEW k, DiskOK(k), NEW x \in Entries(k), NEW y \in Entries(k),
           NEW cs, cs = Chain(k, k.store[x].first), NEW ds, ds = Chain(k, k.store[y].first),
           NEW i \in 1 .. Len(cs), NEW j \in 1 .. Len(ds), cs[i] = ds[j]
    PROVE  x = y /\ i = j
<1>. DEFINE c == k.store[x].first
            d == k.store[y].first
            w == Walk(k, c)
            v == Walk(k, d)
<1>1. cs[i] = w[i - 1] /\ cs[i] \in Clusters /\ c \in Clusters /\ Len(cs) \in Nat
  BY EntryChain
<1>2. ds[j] = v[j - 1] /\ ds[j] \in Clusters /\ d \in Clusters /\ Len(ds) \in Nat
  BY EntryChain
<1>3. FatType(k) /\ FatOK(k) /\ Headless(k, c) /\ Headless(k, d)
  BY DEF DiskOK, DiskType, EntryOK
<1>4. i - 1 \in Nat /\ j - 1 \in Nat
  BY <1>1, <1>2
<1>5. w[i - 1] = v[j - 1] /\ w[i - 1] \in Clusters
  BY <1>1, <1>2
<1>6. i - 1 = j - 1 /\ c = d
  <2>. HIDE DEF c, d
  <2>. QED BY <1>1, <1>2, <1>3, <1>4, <1>5, WalksMeet
<1>7. x = y
  BY <1>6 DEF DiskOK, EntryOK
<1>. QED BY <1>1, <1>2, <1>6, <1>7

\* The chain of a file has no cluster of a directory.
LEMMA ChainNotDir ==
    ASSUME NEW k, DiskOK(k), NEW x \in Entries(k), ~k.store[x].dir,
           NEW cs, cs = Chain(k, k.store[x].first), NEW i \in 1 .. Len(cs), NEW d \in Dirs(k)
    PROVE  cs[i] # d
<1>. SUFFICES ASSUME cs[i] = d PROVE FALSE
  OBVIOUS
<1>1. d # Root
  <2>1. cs[i] \in Clusters
    BY EntryChain
  <2>. QED BY <2>1, RegionOf
<1>2. PICK a \in Entries(k) : k.store[a].dir /\ k.store[a].first = d
  BY <1>1 DEF Dirs
<1>. DEFINE ds == Chain(k, k.store[a].first)
<1>3. ds[1] = d /\ Len(ds) \in Nat /\ Len(ds) = Steps(Walk(k, k.store[a].first))
      /\ Steps(Walk(k, k.store[a].first)) \in 1 .. LastCluster - 1
  BY <1>2, EntryChain
<1>4. 1 \in 1 .. Len(ds)
  BY <1>3, Geometry
<1>. HIDE DEF ds
<1>5. x = a
  BY <1>3, <1>4, ChainsApart DEF ds
<1>. QED BY <1>2, <1>5

\* The addresses of a list of clusters.
Positions(cs) == 1 .. Len(cs) * SlotsPerCluster
ClusterIndex(i) == 1 + ((i - 1) \div SlotsPerCluster)
InClusterIndex(i) == 1 + ((i - 1) % SlotsPerCluster)

\* The cluster a position falls into, and the place in that cluster.
LEMMA PositionType ==
    ASSUME NEW n \in Nat, NEW i \in 1 .. n * SlotsPerCluster
    PROVE  /\ i \in Nat /\ ClusterIndex(i) \in 1 .. n /\ InClusterIndex(i) \in 1 .. SlotsPerCluster
           /\ i = (ClusterIndex(i) - 1) * SlotsPerCluster + InClusterIndex(i)
<1>. DEFINE q == (i - 1) \div SlotsPerCluster
            r == (i - 1) % SlotsPerCluster
<1>1. n * SlotsPerCluster \in Nat
  BY Geometry
<1>2. i \in Nat /\ i - 1 \in Nat
  BY <1>1
<1>3. q \in Nat /\ r \in 0 .. SlotsPerCluster - 1 /\ i - 1 = q * SlotsPerCluster + r
  BY <1>2, Division
<1>. HIDE DEF q, r
<1>4. q * SlotsPerCluster \in Nat
  BY <1>3, Geometry
<1>5. q < n
  <2>1. n < q => n * SlotsPerCluster + SlotsPerCluster <= q * SlotsPerCluster
    BY <1>3, Geometry, Product
  <2>2. n = q => n * SlotsPerCluster = q * SlotsPerCluster
    OBVIOUS
  <2>. DEFINE y == n * SlotsPerCluster
              z == q * SlotsPerCluster
  <2>3. /\ y \in Nat /\ z \in Nat /\ i <= y /\ i - 1 = z + r /\ (n < q => y + SlotsPerCluster <= z)
        /\ (n = q => y = z) /\ r >= 0 /\ r \in Int
    BY <1>1, <1>2, <1>3, <1>4, <2>1, <2>2, Geometry
  <2>. HIDE DEF y, z
  <2>. QED BY <2>3, <1>2, <1>3, Geometry
<1>6. ClusterIndex(i) = 1 + q /\ InClusterIndex(i) = 1 + r
  BY DEF ClusterIndex, InClusterIndex, q, r
<1>7. (ClusterIndex(i) - 1) * SlotsPerCluster = q * SlotsPerCluster
  BY <1>3, <1>6
<1>8. ClusterIndex(i) \in 1 .. n /\ InClusterIndex(i) \in 1 .. SlotsPerCluster
  BY <1>3, <1>5, <1>6, Geometry
<1>9. i = q * SlotsPerCluster + InClusterIndex(i)
  BY <1>2, <1>3, <1>4, <1>6, Geometry
<1>. QED BY <1>2, <1>7, <1>8, <1>9

\* The address of a position lies in the cluster it falls into.
LEMMA AddressIn ==
    ASSUME NEW n \in Nat, NEW cs, \A j \in 1 .. n : cs[j] \in Clusters,
           NEW i \in 1 .. n * SlotsPerCluster
    PROVE  /\ AddressAt(cs, i) = BlockOf(cs[ClusterIndex(i)], InClusterIndex(i))
           /\ ClusterIndex(i) \in 1 .. n
           /\ AddressAt(cs, i) \in Region(cs[ClusterIndex(i)])
           /\ AddressAt(cs, i) \in 1 .. Blocks
<1>1. AddressAt(cs, i) = BlockOf(cs[ClusterIndex(i)], InClusterIndex(i))
  BY DEF AddressAt, ClusterIndex, InClusterIndex
<1>2. ClusterIndex(i) \in 1 .. n /\ InClusterIndex(i) \in 1 .. SlotsPerCluster
  BY PositionType
<1>3. cs[ClusterIndex(i)] \in Clusters
  BY <1>2
<1>4. AddressAt(cs, i) \in Region(cs[ClusterIndex(i)])
  BY <1>1, <1>2, <1>3, RegionOf
<1>. QED BY <1>1, <1>2, <1>3, <1>4, RegionOnDisk

\* No two positions of a chain are the same block.
LEMMA AddressUnique ==
    ASSUME NEW n \in Nat, NEW cs, \A j \in 1 .. n : cs[j] \in Clusters,
           NEW m \in Nat, NEW ds, \A j \in 1 .. m : ds[j] \in Clusters,
           NEW i \in 1 .. n * SlotsPerCluster, NEW j \in 1 .. m * SlotsPerCluster,
           AddressAt(cs, i) = AddressAt(ds, j)
    PROVE  /\ cs[ClusterIndex(i)] = ds[ClusterIndex(j)]
           /\ InClusterIndex(i) = InClusterIndex(j)
<1>1. /\ AddressAt(cs, i) = BlockOf(cs[ClusterIndex(i)], InClusterIndex(i))
      /\ AddressAt(ds, j) = BlockOf(ds[ClusterIndex(j)], InClusterIndex(j))
      /\ ClusterIndex(i) \in 1 .. n /\ ClusterIndex(j) \in 1 .. m
  BY AddressIn
<1>2. InClusterIndex(i) \in 1 .. SlotsPerCluster /\ InClusterIndex(j) \in 1 .. SlotsPerCluster
  BY PositionType
<1>3. cs[ClusterIndex(i)] \in Clusters /\ ds[ClusterIndex(j)] \in Clusters
  BY <1>1
<1>4. BlockOf(cs[ClusterIndex(i)], InClusterIndex(i)) = BlockOf(ds[ClusterIndex(j)], InClusterIndex(j))
  BY <1>1
<1>. QED BY <1>2, <1>3, <1>4, BlockOfUnique

\* A chain whose links are kept is kept.
LEMMA ChainFrame ==
    ASSUME NEW k, DiskOK(k), NEW k2, FatType(k2), NEW x \in Entries(k),
           NEW cs, cs = Chain(k, k.store[x].first),
           \A i \in 1 .. Len(cs) : k2.fat[cs[i]] = k.fat[cs[i]]
    PROVE  Chain(k2, k.store[x].first) = cs
<1>. DEFINE c == k.store[x].first
            w == Walk(k, c)
<1>1. /\ IsWalk(w, k, c) /\ c \in Clusters /\ Len(cs) \in Nat /\ w[Len(cs)] = EOC
      /\ \A i \in 1 .. Len(cs) : cs[i] = w[i - 1]
  BY EntryChain
<1>2. FatType(k) /\ c \in FatCells
  BY <1>1, Cells DEF DiskOK, DiskType
<1>3. ASSUME NEW i \in Nat, w[i] \in Clusters PROVE k2.fat[w[i]] = k.fat[w[i]]
  <2>1. i < Len(cs)
    <3>. SUFFICES ASSUME Len(cs) <= i PROVE FALSE
      BY <1>1
    <3>. HIDE DEF c
    <3>1. w[i] = w[Len(cs)]
      BY <1>1, <1>2, WalkAfter, Cells
    <3>. QED BY <1>1, <1>3, <3>1, Cells
  <2>2. i + 1 \in 1 .. Len(cs) /\ (i + 1) - 1 = i
    BY <1>1, <2>1
  <2>. QED BY <1>1, <2>2
<1>. HIDE DEF c
<1>4. Walk(k2, c) = w
  BY <1>2, <1>3, WalkFrame
<1>5. Chain(k2, c) = Chain(k, c)
  BY <1>4 DEF Chain
<1>. QED BY <1>5 DEF c

-----------------------------------------------------------------------------
(* Creating a file or a directory.                                         *)

\* k2 is k with a new entry e in the free slot a of directory d.
Created(k, k2, d, a, e) ==
    /\ d \in Dirs(k) /\ a \in Region(d) /\ k.store[a] \in {Zero, Deleted}
    /\ \A b \in Region(d) : b < a => k.store[b] \notin {Zero, Deleted}
    /\ e.name \in Names /\ e.dir \in BOOLEAN /\ e.first \in Clusters
    /\ e = Entry(e.name, e.dir, e.first, 0)
    /\ Named(k, d, e.name) = {}
    /\ e.dir => e.name \in PlainNames
    /\ ~e.dir => e.name \in FullNames
    /\ k.fat[e.first] = Free
    /\ k2 = [fat |-> [k.fat EXCEPT ![e.first] = EOC], store |-> [k.store EXCEPT ![a] = e]]

\* What a disk with one entry more looks like.
LEMMA CreatedTypes ==
    ASSUME NEW k, NEW k2, NEW d, NEW a, NEW e, DiskOK(k), Created(k, k2, d, a, e)
    PROVE  /\ DiskType(k2) /\ a \in 1 .. Blocks /\ a \notin Entries(k)
           /\ Entries(k2) = Entries(k) \cup {a}
           /\ \A x \in 1 .. Blocks : k2.store[x] = IF x = a THEN e ELSE k.store[x]
           /\ \A c \in FatCells : k2.fat[c] = IF c = e.first THEN EOC ELSE k.fat[c]
           /\ e.first \in FatCells /\ e.first # d /\ e.kind = "entry" /\ e \in BlockSet
           /\ e.size = 0
<1>1. d \in Clusters \cup {Root} /\ a \in 1 .. Blocks
  BY DirsAreClusters, RegionOnDisk DEF Created
<1>2. e \in BlockSet /\ e.kind = "entry" /\ e.size = 0
  <2>1. e = Entry(e.name, e.dir, e.first, 0)
    BY DEF Created
  <2>2. Entry(e.name, e.dir, e.first, 0) \in BlockSet
    BY EntryInBlockSet DEF Created
  <2>. QED BY <2>1, <2>2, EntryFields
<1>3. e.first \in FatCells /\ EOC \in FatCells
  BY Cells DEF Created
<1>4. k2.fat = [k.fat EXCEPT ![e.first] = EOC] /\ k2.store = [k.store EXCEPT ![a] = e]
      /\ k2 = [fat |-> k2.fat, store |-> k2.store]
  BY DEF Created
<1>5. k.fat \in [FatCells -> FatCells] /\ k.store \in [1 .. Blocks -> BlockSet]
  BY DEF DiskOK, DiskType, FatType
<1>6. DiskType(k2)
  BY <1>1, <1>2, <1>3, <1>4, <1>5 DEF DiskType, FatType
<1>7. \A x \in 1 .. Blocks : k2.store[x] = IF x = a THEN e ELSE k.store[x]
  BY <1>1, <1>4, <1>5
<1>8. \A c \in FatCells : k2.fat[c] = IF c = e.first THEN EOC ELSE k.fat[c]
  BY <1>3, <1>4, <1>5
<1>9. a \notin Entries(k)
  BY EntryTypes DEF Created, DiskOK
<1>10. Entries(k2) = Entries(k) \cup {a}
  BY <1>1, <1>2, <1>7 DEF Entries
<1>11. e.first # d
  <2>1. CASE d = Root
    BY <2>1, RegionOf DEF Created
  <2>2. CASE d # Root
    <3>1. k.fat[d] = EOC
      BY <2>2, DirFat DEF Created
    <3>. QED BY <3>1, Cells DEF Created
  <2>. QED BY <2>1, <2>2
<1>. QED BY <1>1, <1>2, <1>3, <1>6, <1>7, <1>8, <1>9, <1>10, <1>11

\* It is as a disk should be.
LEMMA CreatedDisk ==
    ASSUME NEW k, NEW k2, NEW d, NEW a, NEW e, DiskOK(k), Created(k, k2, d, a, e)
    PROVE  /\ DiskOK(k2)
           /\ DirsGrow(k, k2, IF e.dir THEN e.first ELSE Free)
<1>. DEFINE c == e.first
<1>1. /\ DiskType(k2) /\ a \in 1 .. Blocks /\ a \notin Entries(k)
      /\ Entries(k2) = Entries(k) \cup {a}
      /\ \A x \in 1 .. Blocks : k2.store[x] = IF x = a THEN e ELSE k.store[x]
      /\ \A b \in FatCells : k2.fat[b] = IF b = c THEN EOC ELSE k.fat[b]
      /\ c \in FatCells /\ c # d /\ e.kind = "entry" /\ e \in BlockSet
  BY CreatedTypes
<1>2. /\ d \in Dirs(k) /\ a \in Region(d) /\ k.store[a] \in {Zero, Deleted}
      /\ \A b \in Region(d) : b < a => k.store[b] \notin {Zero, Deleted}
      /\ e.dir \in BOOLEAN /\ c \in Clusters /\ Named(k, d, e.name) = {}
      /\ e.dir => e.name \in PlainNames
      /\ ~e.dir => e.name \in FullNames
      /\ k.fat[c] = Free
  BY DEF Created
<1>3. DiskType(k) /\ FatOK(k) /\ EntryOK(k) /\ DirOK(k) /\ FreeOK(k)
  BY DEF DiskOK
<1>. HIDE DEF c
<1>4. \A x \in Entries(k) : k2.store[x] = k.store[x] /\ x # a /\ x \in 1 .. Blocks
                           /\ k.store[x].first \in Clusters /\ k.store[x].first # c
  <2>1. \A x \in Entries(k) : x \in 1 .. Blocks /\ k.store[x].first \in Clusters
    BY <1>3, EntryTypes
  <2>2. \A x \in Entries(k) : k.fat[k.store[x].first] # Free
    BY <1>3 DEF EntryOK
  <2>. QED BY <1>1, <1>2, <2>1, <2>2
<1>5. k2.store[a] = e
  BY <1>1
<1>6. FatOK(k2)
  <2>1. \A b \in Clusters : k.fat[b] # c
    BY <1>2, <1>3 DEF FatOK
  <2>2. \A b \in Clusters : b \in FatCells /\ b # EOC /\ EOC \notin Clusters /\ b # 0 /\ b # 1
    BY Cells, Geometry DEF Clusters
  <2>3. 0 \in FatCells /\ 1 \in FatCells /\ 0 # c /\ 1 # c
    BY Cells, <1>2, <2>2
  <2>4. k2.fat[0] = EOC /\ k2.fat[1] = EOC
    BY <1>1, <1>3, <2>3 DEF FatOK
  <2>5. \A b \in Clusters : k2.fat[b] \in {Free, EOC} \cup Clusters
    BY <1>1, <1>3, <2>2 DEF FatOK
  <2>6. ASSUME NEW b \in Clusters, k2.fat[b] \in Clusters
        PROVE  k2.fat[b] = k.fat[b] /\ k2.fat[b] # c /\ k2.fat[k2.fat[b]] # Free
    <3>1. b # c /\ k2.fat[b] = k.fat[b]
      BY <1>1, <2>2, <2>6
    <3>2. k.fat[k.fat[b]] # Free
      BY <1>3, <2>6, <3>1 DEF FatOK
    <3>. QED BY <1>1, <2>1, <2>2, <2>6, <3>1, <3>2
  <2>7. \A b, f \in Clusters : k2.fat[b] \in Clusters /\ k2.fat[b] = k2.fat[f] => b = f
    BY <1>3, <2>6 DEF FatOK
  <2>. QED BY <2>4, <2>5, <2>6, <2>7 DEF FatOK
<1>7. \A f \in Clusters : Headless(k, f) => Headless(k2, f)
  BY <1>1, Cells DEF Headless
<1>8. Headless(k, c)
  BY <1>2, <1>3 DEF FatOK, Headless
<1>9. /\ Dirs(k) \subseteq Dirs(k2)
      /\ Dirs(k2) \subseteq Dirs(k) \cup {c}
      /\ c \in Dirs(k2) => e.dir
  <2>1. Dirs(k) \subseteq Dirs(k2)
    BY <1>1, <1>4 DEF Dirs
  <2>2. Dirs(k2) \subseteq Dirs(k) \cup {c}
    BY <1>1, <1>4, <1>5 DEF Dirs, c
  <2>3. c # Root
    BY <1>2, RegionOf
  <2>4. c \in Dirs(k2) => e.dir
    BY <1>1, <1>4, <1>5, <2>3 DEF Dirs, c
  <2>. QED BY <2>1, <2>2, <2>4
<1>10. EntryOK(k2)
  <2>1. ASSUME NEW x \in Entries(k)
        PROVE  /\ k2.fat[k2.store[x].first] # Free
               /\ Headless(k2, k2.store[x].first)
               /\ k2.store[x].dir => k2.fat[k2.store[x].first] = EOC /\ k2.store[x].name \in PlainNames
               /\ ~k2.store[x].dir => k2.store[x].name \in FullNames
               /\ \E f \in Dirs(k2) : x \in Region(f)
    <3>1. k2.fat[k.store[x].first] = k.fat[k.store[x].first]
      BY <1>1, <1>4, Cells
    <3>. QED BY <1>3, <1>4, <1>7, <1>9, <3>1 DEF EntryOK
  <2>2. /\ k2.fat[e.first] # Free
        /\ Headless(k2, e.first)
        /\ e.dir => k2.fat[e.first] = EOC /\ e.name \in PlainNames
        /\ ~e.dir => e.name \in FullNames
        /\ \E f \in Dirs(k2) : a \in Region(f)
    BY <1>1, <1>2, <1>7, <1>8, <1>9, Cells DEF c
  <2>3. \A x, y \in Entries(k2) : k2.store[x].first = k2.store[y].first => x = y
    <3>1. \A x, y \in Entries(k) : k2.store[x].first = k2.store[y].first => x = y
      BY <1>3, <1>4 DEF EntryOK
    <3>2. \A x \in Entries(k) : k2.store[x].first # k2.store[a].first
      BY <1>4, <1>5 DEF c
    <3>. QED BY <1>1, <3>1, <3>2
  <2>. QED BY <1>1, <1>5, <2>1, <2>2, <2>3 DEF EntryOK
<1>11. \A x \in 1 .. Blocks : x \in Region(c) => k2.store[x] = Zero
  <2>1. \A x \in Region(c) : k.store[x] = Zero
    BY <1>2, <1>3 DEF FreeOK
  <2>2. a \notin Region(c)
    BY <1>1, <1>2, DirsAreClusters, RegionsDisjoint
  <2>. QED BY <1>1, <2>1, <2>2
<1>12. Region(c) \subseteq 1 .. Blocks
  BY <1>2, RegionOnDisk
<1>13. \A x \in Entries(k2) : x \notin Region(c)
  BY <1>11, BlockKinds DEF Entries
<1>14. DirOK(k2)
  <2>. SUFFICES ASSUME NEW f \in Dirs(k2), NEW x \in Region(f), NEW y \in Region(f)
                PROVE  /\ x < y /\ k2.store[x] = Zero => k2.store[y] = Zero
                       /\ x \in Entries(k2) /\ y \in Entries(k2)
                             /\ k2.store[x].name = k2.store[y].name => x = y
    BY Zenon DEF DirOK
  <2>0. x \in 1 .. Blocks /\ y \in 1 .. Blocks
    BY DirsAreClusters, RegionOnDisk
  <2>1. CASE f = c
    BY <1>11, <1>13, <2>0, <2>1
  <2>2. CASE f \in Dirs(k) /\ f # d
    <3>1. a \notin Region(f)
      BY <1>2, <2>2, DirsAreClusters, RegionsDisjoint
    <3>2. k2.store[x] = k.store[x] /\ k2.store[y] = k.store[y]
      BY <1>1, <2>0, <3>1
    <3>3. (x \in Entries(k2) => x \in Entries(k)) /\ (y \in Entries(k2) => y \in Entries(k))
      BY <1>1, <3>1
    <3>. QED BY <1>3, <2>2, <3>2, <3>3 DEF DirOK
  <2>3. CASE f = d
    <3>1. x < y /\ k2.store[x] = Zero => k2.store[y] = Zero
      <4>. SUFFICES ASSUME x < y, k2.store[x] = Zero PROVE k2.store[y] = Zero
        OBVIOUS
      <4>1. e # Zero
        BY <1>1, BlockKinds
      <4>2. x # a /\ k.store[x] = Zero
        BY <1>1, <2>0, <4>1
      <4>3. y # a
        BY <1>2, <2>3, <4>2
      <4>4. k.store[y] = Zero
        BY <1>3, <1>2, <2>3, <4>2 DEF DirOK
      <4>. QED BY <1>1, <2>0, <4>3, <4>4
    <3>2. ASSUME x \in Entries(k2), y \in Entries(k2), k2.store[x].name = k2.store[y].name
          PROVE  x = y
      <4>1. ASSUME NEW z \in Entries(k), z \in Region(d) PROVE k.store[z].name # e.name
        BY <1>2, <4>1 DEF Named
      <4>2. CASE x # a /\ y # a
        <5>1. x \in Entries(k) /\ y \in Entries(k) /\ k.store[x].name = k.store[y].name
          BY <1>1, <1>4, <3>2, <4>2
        <5>. QED BY <1>2, <1>3, <2>3, <5>1 DEF DirOK
      <4>3. CASE x = a /\ y # a
        <5>1. y \in Entries(k) /\ k.store[y].name = e.name
          BY <1>1, <1>4, <1>5, <3>2, <4>3
        <5>. QED BY <2>3, <4>1, <5>1
      <4>4. CASE x # a /\ y = a
        <5>1. x \in Entries(k) /\ k.store[x].name = e.name
          BY <1>1, <1>4, <1>5, <3>2, <4>4
        <5>. QED BY <2>3, <4>1, <5>1
      <4>. QED BY <4>2, <4>3, <4>4
    <3>. QED BY <3>1, <3>2
  <2>. QED BY <1>9, <2>1, <2>2, <2>3
<1>15. FreeOK(k2)
  <2>. SUFFICES ASSUME NEW b \in Clusters, k2.fat[b] = Free, NEW x \in Region(b)
                PROVE  k2.store[x] = Zero
    BY DEF FreeOK
  <2>1. b # c /\ k.fat[b] = Free
    BY <1>1, Cells
  <2>2. k.store[x] = Zero /\ x \in 1 .. Blocks
    BY <1>3, <2>1, RegionOnDisk DEF FreeOK
  <2>3. b # d
    <3>1. d # Root => k.fat[d] = EOC
      BY <1>2, DirFat
    <3>2. b # Root
      BY RegionOf
    <3>. QED BY <2>1, <3>1, <3>2, Cells
  <2>4. x # a
    BY <1>2, <2>3, DirsAreClusters, RegionsDisjoint
  <2>. QED BY <1>1, <2>2, <2>4
<1>16. DirsGrow(k, k2, IF e.dir THEN e.first ELSE Free)
  <2>1. \A x \in Entries(k) : x \in Entries(k2) /\ k2.store[x] = k.store[x]
    BY <1>1, <1>4
  <2>2. \A x \in Entries(k2) : x \in Entries(k) \/ x = a
    BY <1>1
  <2>3. Free \notin Clusters
    BY Cells
  <2>4. CASE e.dir
    BY <1>5, <1>13, <2>1, <2>2, <2>4 DEF DirsGrow, c
  <2>5. CASE ~e.dir
    BY <1>5, <2>1, <2>2, <2>3, <2>5 DEF DirsGrow
  <2>. QED BY <2>4, <2>5
<1>. QED BY <1>1, <1>6, <1>10, <1>14, <1>15, <1>16 DEF DiskOK

-----------------------------------------------------------------------------
(* Changing the entry of a file: its size, or its removal.                 *)

Changed(k, k2, a, e) ==
    /\ a \in Entries(k) /\ ~k.store[a].dir
    /\ \/ e = Deleted
       \/ \E s \in Nat : e = Entry(k.store[a].name, FALSE, k.store[a].first, s)
    /\ k2 = [k EXCEPT !.store[a] = e]

\* A disk with one entry changed or deleted is as a disk should be.
LEMMA ChangedDisk ==
    ASSUME NEW k, NEW k2, NEW a, NEW e, DiskOK(k), Changed(k, k2, a, e)
    PROVE  /\ DiskOK(k2) /\ DirsGrow(k, k2, Free)
           /\ k2.fat = k.fat /\ k2.store[a] = e
           /\ \A x \in 1 .. Blocks : x # a => k2.store[x] = k.store[x]
           /\ e = Deleted => Entries(k2) = Entries(k) \ {a}
           /\ e # Deleted => Entries(k2) = Entries(k)
           /\ e # Deleted => e.name = k.store[a].name /\ e.first = k.store[a].first /\ ~e.dir
<1>1. DiskType(k) /\ FatOK(k) /\ EntryOK(k) /\ DirOK(k) /\ FreeOK(k)
  BY DEF DiskOK
<1>2. /\ a \in 1 .. Blocks /\ k.store[a].name \in Names /\ k.store[a].first \in Clusters
      /\ a \in Entries(k) /\ ~k.store[a].dir /\ k.store[a] # Zero
  BY <1>1, EntryTypes DEF Changed
<1>3. /\ e \in BlockSet /\ e # Zero
      /\ \/ e = Deleted /\ e.kind # "entry"
         \/ /\ e # Deleted /\ e.kind = "entry" /\ ~e.dir
            /\ e.name = k.store[a].name /\ e.first = k.store[a].first
  <2>1. CASE e = Deleted
    BY <2>1, BlockKinds
  <2>2. CASE e # Deleted
    <3>1. PICK s \in Nat : e = Entry(k.store[a].name, FALSE, k.store[a].first, s)
      BY <2>2 DEF Changed
    <3>2. Entry(k.store[a].name, FALSE, k.store[a].first, s) \in BlockSet
      BY <1>2, EntryInBlockSet
    <3>3. /\ e.kind = "entry" /\ e.name = k.store[a].name /\ e.dir = FALSE
          /\ e.first = k.store[a].first /\ e # Zero
      BY <3>1 DEF Entry, Zero
    <3>4. e \in BlockSet
      BY <3>1, <3>2
    <3>. QED BY <2>2, <3>3, <3>4
  <2>. QED BY <2>1, <2>2
<1>4. /\ k.store \in [1 .. Blocks -> BlockSet] /\ k = [fat |-> k.fat, store |-> k.store]
      /\ FatType(k)
  BY <1>1 DEF DiskType
<1>5. k2 = [fat |-> k.fat, store |-> [k.store EXCEPT ![a] = e]]
  BY <1>4 DEF Changed
<1>6. /\ k2.fat = k.fat /\ k2.store[a] = e /\ DiskType(k2)
      /\ \A x \in 1 .. Blocks : x # a => k2.store[x] = k.store[x]
  BY <1>2, <1>3, <1>4, <1>5 DEF DiskType, FatType
<1>7. /\ e = Deleted => Entries(k2) = Entries(k) \ {a}
      /\ e # Deleted => Entries(k2) = Entries(k)
  BY <1>2, <1>3, <1>6 DEF Entries
<1>8. Entries(k2) \subseteq Entries(k)
  BY <1>7
<1>9. \A x \in Entries(k2) : /\ k2.store[x].first = k.store[x].first
                             /\ k2.store[x].name = k.store[x].name
                             /\ k2.store[x].dir <=> k.store[x].dir
                             /\ x \in 1 .. Blocks
  <2>. SUFFICES ASSUME NEW x \in Entries(k2)
                PROVE  /\ k2.store[x].first = k.store[x].first
                       /\ k2.store[x].name = k.store[x].name
                       /\ k2.store[x].dir <=> k.store[x].dir
                       /\ x \in 1 .. Blocks
    OBVIOUS
  <2>1. x \in 1 .. Blocks
    BY DEF Entries
  <2>2. CASE x = a
    BY <1>2, <1>3, <1>6, <1>7, <2>2
  <2>3. CASE x # a
    BY <1>6, <2>1, <2>3
  <2>. QED BY <2>1, <2>2, <2>3
<1>10. \A x \in Entries(k) : k.store[x].dir => x \in Entries(k2) /\ k2.store[x] = k.store[x]
  <2>. SUFFICES ASSUME NEW x \in Entries(k), k.store[x].dir
                PROVE  x \in Entries(k2) /\ k2.store[x] = k.store[x]
    OBVIOUS
  <2>1. x # a /\ x \in 1 .. Blocks
    BY <1>2 DEF Entries
  <2>. QED BY <1>6, <1>7, <2>1
<1>11. Dirs(k2) = Dirs(k)
  BY <1>8, <1>9, <1>10 DEF Dirs
<1>12. DirsGrow(k, k2, Free)
  <2>1. \A x \in Entries(k2) : k2.store[x].dir => x \in Entries(k) /\ k2.store[x] = k.store[x]
    BY <1>8, <1>9, <1>10
  <2>. QED BY <1>10, <2>1, Cells DEF DirsGrow
<1>13. FatOK(k2)
  BY <1>1, <1>6 DEF FatOK
<1>14. EntryOK(k2)
  BY <1>1, <1>6, <1>8, <1>9, <1>11 DEF EntryOK, Headless
<1>15. DirOK(k2)
  <2>. SUFFICES ASSUME NEW f \in Dirs(k), NEW x \in Region(f), NEW y \in Region(f)
                PROVE  /\ x < y /\ k2.store[x] = Zero => k2.store[y] = Zero
                       /\ x \in Entries(k2) /\ y \in Entries(k2)
                             /\ k2.store[x].name = k2.store[y].name => x = y
    BY <1>11, Zenon DEF DirOK
  <2>0. x \in 1 .. Blocks /\ y \in 1 .. Blocks
    BY DirsAreClusters, RegionOnDisk
  <2>1. \A z \in {x, y} : k2.store[z] = Zero <=> k.store[z] = Zero
    BY <1>2, <1>3, <1>6, <2>0
  <2>2. x < y /\ k.store[x] = Zero => k.store[y] = Zero
    BY <1>1 DEF DirOK
  <2>3. ASSUME x \in Entries(k2), y \in Entries(k2), k2.store[x].name = k2.store[y].name
        PROVE  x = y
    BY <1>1, <1>8, <1>9, <2>3 DEF DirOK
  <2>. QED BY <2>1, <2>2, <2>3
<1>16. FreeOK(k2)
  <2>. SUFFICES ASSUME NEW b \in Clusters, k2.fat[b] = Free, NEW x \in Region(b)
                PROVE  k2.store[x] = Zero
    BY DEF FreeOK
  <2>1. k.store[x] = Zero /\ x \in 1 .. Blocks
    BY <1>1, <1>6, RegionOnDisk DEF FreeOK
  <2>2. x # a
    BY <1>2, <2>1
  <2>. QED BY <1>6, <2>1, <2>2
<1>. QED BY <1>3, <1>6, <1>7, <1>12, <1>13, <1>14, <1>15, <1>16 DEF DiskOK

-----------------------------------------------------------------------------
(* Writing into the clusters X of a file, the last of which is l, and into *)
(* the new clusters N that are linked to it.                               *)

Grown(k, k2, X, l, N) ==
    /\ X \subseteq Clusters /\ N \subseteq Clusters /\ l \in X
    /\ \A b \in X : k.fat[b] # Free /\ b \notin Dirs(k)
    /\ \A b \in N : k.fat[b] = Free
    /\ DiskType(k2)
    /\ \A b \in FatCells : b \notin N \cup {l} => k2.fat[b] = k.fat[b]
    /\ N = {} => k2.fat[l] = k.fat[l]
    /\ N # {} => k.fat[l] = EOC /\ \A b \in N \cup {l} : k2.fat[b] \in N \cup {EOC}
    /\ \A b, c \in N \cup {l} : k2.fat[b] \in N /\ k2.fat[b] = k2.fat[c] => b = c
    /\ \A a \in 1 .. Blocks :
          \/ k2.store[a] = k.store[a]
          \/ k2.store[a] \in DataBlocks /\ \E b \in X \cup N : a \in Region(b)

\* A disk with one chain lengthened and its blocks written is as a disk should be.
LEMMA GrownDisk ==
    ASSUME NEW k, NEW k2, NEW X, NEW l, NEW N, DiskOK(k), Grown(k, k2, X, l, N)
    PROVE  /\ DiskOK(k2) /\ DirsGrow(k, k2, Free) /\ Entries(k2) = Entries(k)
           /\ \A a \in Entries(k) : k2.store[a] = k.store[a]
<1>1. DiskType(k) /\ FatOK(k) /\ EntryOK(k) /\ DirOK(k) /\ FreeOK(k)
  BY DEF DiskOK
<1>2. /\ X \subseteq Clusters /\ N \subseteq Clusters /\ l \in X
      /\ \A b \in X : k.fat[b] # Free /\ b \notin Dirs(k)
      /\ \A b \in N : k.fat[b] = Free
      /\ DiskType(k2)
  BY DEF Grown
<1>3. /\ \A b \in FatCells : b \notin N \cup {l} => k2.fat[b] = k.fat[b]
      /\ N = {} => k2.fat[l] = k.fat[l]
      /\ N # {} => k.fat[l] = EOC /\ \A b \in N \cup {l} : k2.fat[b] \in N \cup {EOC}
      /\ \A b, c \in N \cup {l} : k2.fat[b] \in N /\ k2.fat[b] = k2.fat[c] => b = c
  BY DEF Grown
<1>4. \A a \in 1 .. Blocks :
          \/ k2.store[a] = k.store[a]
          \/ k2.store[a] \in DataBlocks /\ \E b \in X \cup N : a \in Region(b)
  BY DEF Grown
<1>5. \A d \in Dirs(k) : d \notin X \cup N
  <2>1. ASSUME NEW d \in Dirs(k), d \in N PROVE FALSE
    <3>1. d # Root
      BY <1>2, <2>1, RegionOf
    <3>2. k.fat[d] = EOC
      BY <3>1, DirFat
    <3>. QED BY <1>2, <2>1, <3>2, Cells
  <2>. QED BY <1>2, <2>1
<1>6. ASSUME NEW d \in Dirs(k), NEW a \in Region(d) PROVE k2.store[a] = k.store[a] /\ a \in 1 .. Blocks
  <2>1. a \in 1 .. Blocks
    BY DirsAreClusters, RegionOnDisk
  <2>2. ~\E b \in X \cup N : a \in Region(b)
    BY <1>2, <1>5, DirsAreClusters, RegionsDisjoint
  <2>. QED BY <1>4, <2>1, <2>2
<1>7. \A a \in Entries(k) : a \in Entries(k2) /\ k2.store[a] = k.store[a]
  <2>. SUFFICES ASSUME NEW a \in Entries(k) PROVE a \in Entries(k2) /\ k2.store[a] = k.store[a]
    OBVIOUS
  <2>1. PICK d \in Dirs(k) : a \in Region(d)
    BY <1>1 DEF EntryOK
  <2>2. k2.store[a] = k.store[a] /\ a \in 1 .. Blocks
    BY <1>6, <2>1
  <2>. QED BY <2>2 DEF Entries
<1>8. Entries(k2) = Entries(k)
  <2>1. ASSUME NEW a \in Entries(k2) PROVE a \in Entries(k)
    <3>1. a \in 1 .. Blocks /\ k2.store[a].kind = "entry"
      BY DEF Entries
    <3>2. k2.store[a] \notin DataBlocks
      BY <3>1, BlockKinds
    <3>. QED BY <1>4, <3>1, <3>2 DEF Entries
  <2>. QED BY <1>7, <2>1
<1>9. Dirs(k2) = Dirs(k)
  BY <1>7, <1>8 DEF Dirs
<1>10. DirsGrow(k, k2, Free)
  BY <1>7, <1>8, Cells DEF DirsGrow
<1>11. FatOK(k2)
  <2>1. \A b \in Clusters : b \in FatCells /\ b # EOC /\ b # Free /\ b # 0 /\ b # 1
    BY Cells, Geometry DEF Clusters
  <2>2. /\ k2.fat[0] = EOC /\ k2.fat[1] = EOC
    BY <1>1, <1>2, <1>3, <2>1, Cells DEF FatOK
  <2>3. ASSUME NEW b \in Clusters PROVE k2.fat[b] \in {Free, EOC} \cup Clusters
    <3>1. k.fat[b] \in {Free, EOC} \cup Clusters
      BY <1>1 DEF FatOK
    <3>. QED BY <1>2, <1>3, <2>1, <3>1
  <2>4. ASSUME NEW b \in Clusters, b \in N \cup {l}, k2.fat[b] \in Clusters, N # {}
        PROVE  k2.fat[b] \in N
    BY <1>3, <2>1, <2>4
  <2>5. ASSUME NEW b \in Clusters, b \notin N \cup {l} \/ N = {}
        PROVE  k2.fat[b] = k.fat[b] 
    BY <1>3, <2>1, <2>5
  <2>6. ASSUME NEW b \in Clusters, k.fat[b] \in Clusters PROVE k.fat[b] \notin N
    BY <1>1, <1>2, <2>6 DEF FatOK
  <2>7. ASSUME NEW b \in Clusters, k.fat[b] # Free PROVE k2.fat[b] # Free
    BY <1>2, <1>3, <2>1, <2>7, Cells
  <2>8. ASSUME NEW b \in Clusters, k2.fat[b] \in Clusters PROVE k2.fat[k2.fat[b]] # Free
    <3>1. CASE b \in N \cup {l} /\ N # {}
      <4>1. k2.fat[b] \in N
        BY <2>4, <2>8, <3>1
      <4>2. k2.fat[k2.fat[b]] \in N \cup {EOC}
        BY <1>3, <3>1, <4>1
      <4>. QED BY <1>2, <2>1, <4>2, Cells
    <3>2. CASE b \notin N \cup {l} \/ N = {}
      <4>1. k2.fat[b] = k.fat[b]
        BY <2>5, <3>2
      <4>2. k.fat[k.fat[b]] # Free
        BY <1>1, <2>8, <4>1 DEF FatOK
      <4>. QED BY <2>7, <2>8, <4>1, <4>2
    <3>. QED BY <3>1, <3>2
  <2>9. ASSUME NEW b \in Clusters, NEW c \in Clusters, k2.fat[b] \in Clusters, k2.fat[b] = k2.fat[c]
        PROVE  b = c
    <3>1. CASE (b \in N \cup {l} /\ N # {}) /\ (c \in N \cup {l} /\ N # {})
      BY <1>3, <2>4, <2>9, <3>1
    <3>2. CASE (b \in N \cup {l} /\ N # {}) /\ (c \notin N \cup {l} \/ N = {})
      BY <2>4, <2>5, <2>6, <2>9, <3>2
    <3>3. CASE (b \notin N \cup {l} \/ N = {}) /\ (c \in N \cup {l} /\ N # {})
      BY <2>4, <2>5, <2>6, <2>9, <3>3
    <3>4. CASE (b \notin N \cup {l} \/ N = {}) /\ (c \notin N \cup {l} \/ N = {})
      BY <1>1, <2>5, <2>9, <3>4 DEF FatOK
    <3>. QED BY <3>1, <3>2, <3>3, <3>4
  <2>. QED BY <2>2, <2>3, <2>8, <2>9 DEF FatOK
<1>12. EntryOK(k2)
  <2>1. ASSUME NEW a \in Entries(k)
        PROVE  /\ k2.fat[k.store[a].first] # Free
               /\ Headless(k2, k.store[a].first)
               /\ k.store[a].dir => k2.fat[k.store[a].first] = EOC
    <3>. DEFINE c == k.store[a].first
    <3>1. c \in Clusters /\ k.fat[c] # Free /\ Headless(k, c)
      BY <1>1, EntryTypes DEF EntryOK
    <3>2. c \notin N
      BY <1>2, <3>1
    <3>. HIDE DEF c
    <3>3. k2.fat[c] # Free
      BY <1>2, <1>3, <3>1, <3>2, Cells
    <3>4. Headless(k2, c)
      BY <1>2, <1>3, <3>1, <3>2, Cells DEF Headless
    <3>5. k.store[a].dir => k2.fat[c] = EOC
      <4>. SUFFICES ASSUME k.store[a].dir PROVE k2.fat[c] = EOC
        OBVIOUS
      <4>1. c \in Dirs(k) /\ k.fat[c] = EOC
        BY <1>1, <3>1 DEF Dirs, EntryOK, c
      <4>2. c # l /\ c \notin N
        BY <1>2, <1>5, <4>1
      <4>. QED BY <1>3, <3>1, <4>1, <4>2, Cells
    <3>. QED BY <3>3, <3>4, <3>5 DEF c
  <2>. QED BY <1>1, <1>7, <1>8, <1>9, <2>1 DEF EntryOK
<1>13. DirOK(k2)
  <2>. SUFFICES ASSUME NEW f \in Dirs(k), NEW x \in Region(f), NEW y \in Region(f)
                PROVE  /\ x < y /\ k2.store[x] = Zero => k2.store[y] = Zero
                       /\ x \in Entries(k2) /\ y \in Entries(k2)
                             /\ k2.store[x].name = k2.store[y].name => x = y
    BY <1>9, Zenon DEF DirOK
  <2>1. k2.store[x] = k.store[x] /\ k2.store[y] = k.store[y]
    BY <1>6
  <2>. QED BY <1>1, <1>8, <2>1 DEF DirOK
<1>14. FreeOK(k2)
  <2>. SUFFICES ASSUME NEW b \in Clusters, k2.fat[b] = Free, NEW x \in Region(b)
                PROVE  k2.store[x] = Zero
    BY DEF FreeOK
  <2>1. b \notin N /\ b # l
    BY <1>2, <1>3, Cells
  <2>2. k.fat[b] = Free
    BY <1>3, <2>1, Cells
  <2>3. k.store[x] = Zero /\ x \in 1 .. Blocks
    BY <1>1, <2>2, RegionOnDisk DEF FreeOK
  <2>4. b \notin X
    BY <1>2, <2>2
  <2>5. ~\E c \in X \cup N : x \in Region(c)
    BY <1>2, <2>1, <2>4, RegionsDisjoint
  <2>. QED BY <1>4, <2>3, <2>5
<1>. QED BY <1>2, <1>7, <1>8, <1>10, <1>11, <1>12, <1>13, <1>14 DEF DiskOK

-----------------------------------------------------------------------------
(* The operations of the code are the changes of the disk above.           *)

\* find_first_free_cluster returns a free cluster, or 0.
LEMMA FreeAfterProperties ==
    ASSUME NEW k, DiskOK(k), NEW c \in Int
    PROVE  LET b == FreeAfter(k, c)
           IN  b = 0 \/ (b \in Clusters /\ c < b /\ k.fat[b] = Free)
<1>. DEFINE I == {b \in 0 .. LastCluster : c < b /\ k.fat[b] = Free}
<1>1. CASE I # {}
  <2>1. I \subseteq Nat
    OBVIOUS
  <2>2. Min(I) \in I
    BY <1>1, <2>1, MinProperties
  <2>3. Min(I) \in 0 .. LastCluster /\ c < Min(I) /\ k.fat[Min(I)] = Free
    BY <2>2
  <2>4. FreeAfter(k, c) = Min(I)
    BY <1>1 DEF FreeAfter
  <2>. HIDE DEF I
  <2>5. k.fat[0] # Free /\ k.fat[1] # Free
    BY Cells DEF DiskOK, FatOK
  <2>6. Min(I) \in Clusters
    BY <2>3, <2>5, Geometry DEF Clusters
  <2>. QED BY <2>3, <2>4, <2>6
<1>2. CASE I = {}
  BY <1>2 DEF FreeAfter
<1>. QED BY <1>1, <1>2

\* A path that names nothing.
LEMMA NothingNamed ==
    ASSUME NEW k, DiskOK(k), NEW p, IsPath(p), find_file(k, p) = NoEntry,
           ParentOf(k, p) \in Dirs(k)
    PROVE  Named(k, ParentOf(k, p), Last(p)) = {}
<1>. SUFFICES ASSUME NEW a \in Named(k, ParentOf(k, p), Last(p)) PROVE FALSE
  OBVIOUS
<1>1. Leads(k, p, a)
  BY DEF Leads
<1>. QED BY <1>1, LeadsFinds

\* The slot that add_directory_entry takes.
LEMMA FirstFreeSlot ==
    ASSUME NEW k, DiskOK(k), NEW d \in Dirs(k), FreeSlots(k, d) # {},
           d = Root => FreeSlots(k, d) \cap 1 .. RootSlots # {}
    PROVE  LET a == FirstFree(k, d)
           IN  /\ a \in Region(d) /\ k.store[a] \in {Zero, Deleted}
               /\ \A b \in Region(d) : b < a => k.store[b] \notin {Zero, Deleted}
<1>. DEFINE at == Slots(k, d)
            I == FreeSlots(k, d)
            i == Min(I)
            z == StartOf(d)
            n == SizeOf(d)
<1>1. d \in Clusters \cup {Root}
  BY DirsAreClusters
<1>2. /\ z \in Nat /\ n \in Nat
      /\ \A j \in 1 .. n : z + j \in Region(d)
      /\ \A a \in Region(d) : a - z \in 1 .. n /\ a \in Nat /\ z + (a - z) = a
      /\ Region(d) \subseteq 1 .. Blocks
  BY <1>1, RegionIndex, RegionOnDisk
<1>3. /\ DOMAIN at \subseteq Nat
      /\ \A j \in 1 .. n : j \in DOMAIN at /\ at[j] = z + j
      /\ d # Root => DOMAIN at = 1 .. n
      /\ d = Root => n = RootSlots
  <2>1. CASE d # Root
    <3>1. at = [j \in 1 .. n |-> z + j]
      BY <2>1, SlotsOf
    <3>. QED BY <1>2, <2>1, <3>1
  <2>2. CASE d = Root
    <3>1. at = [j \in 1 .. RootSlots + SlotsPerSector |-> j]
      BY <2>2, SlotsOf
    <3>2. z = 0 /\ n = RootSlots
      BY <2>2 DEF StartOf, SizeOf
    <3>3. DOMAIN at = 1 .. RootSlots + SlotsPerSector
      BY <3>1
    <3>4. \A j \in 1 .. n : j \in DOMAIN at /\ at[j] = z + j
      BY <3>1, <3>2, <3>3, Geometry
    <3>. QED BY <2>2, <3>2, <3>3, <3>4, Geometry
  <2>. QED BY <2>1, <2>2
<1>4. I = {j \in DOMAIN at : LoadBlock(k, at[j]) \in {Zero, Deleted}}
  BY DEF FreeSlots
<1>. HIDE DEF at, I, z, n
<1>5. i \in I /\ \A j \in I : i <= j
  BY <1>3, <1>4, MinProperties DEF I
<1>. HIDE DEF i
<1>6. i \in 1 .. n
  <2>1. CASE d # Root
    BY <1>3, <1>4, <1>5, <2>1
  <2>2. CASE d = Root
    <3>1. PICK j \in I : j \in 1 .. RootSlots
      BY <2>2 DEF I
    <3>2. i <= j /\ i \in Nat /\ n = RootSlots
      BY <1>3, <1>4, <1>5, <2>2
    <3>3. n = RootSlots /\ RootSlots \in Nat /\ j <= RootSlots /\ j \in Nat
      BY <1>3, <2>2, <3>1, Geometry
    <3>4. i # 0
      <4>1. 0 \notin DOMAIN at
        <5>1. Slots(k, d) = [m \in 1 .. RootSlots + SlotsPerSector |-> m]
          BY <2>2, SlotsOf
        <5>. QED BY <5>1, Geometry DEF at
      <4>. QED BY <1>4, <1>5, <4>1
    <3>. QED BY <3>2, <3>3, <3>4
  <2>. QED BY <2>1, <2>2
<1>7. FirstFree(k, d) = z + i
  BY <1>3, <1>6 DEF FirstFree, at, i, I
<1>8. \A j \in 1 .. n : j \in I <=> k.store[z + j] \in {Zero, Deleted}
  BY <1>2, <1>3, <1>4 DEF LoadBlock
<1>9. ASSUME NEW b \in Region(d), b < z + i PROVE k.store[b] \notin {Zero, Deleted}
  <2>1. b - z \in 1 .. n /\ b \in Nat /\ z + (b - z) = b
    BY <1>2
  <2>2. b - z < i
    BY <1>2, <1>6, <1>9, <2>1
  <2>3. b - z \notin I
    BY <1>2, <1>5, <1>6, <2>1, <2>2
  <2>. QED BY <1>8, <2>1, <2>3
<1>. QED BY <1>2, <1>5, <1>6, <1>7, <1>8, <1>9

\* create_new_file adds one entry, and ends the chain of its cluster.
LEMMA CreateStep ==
    ASSUME NEW k, DiskOK(k), NEW p, IsPath(p), NEW dir \in BOOLEAN,
           find_file(k, p) = NoEntry, find_first_free_cluster(k) # 0,
           ParentOf(k, p) = Root => FreeSlots(k, Root) \cap 1 .. RootSlots # {},
           ParentOf(k, p) \notin {Root, NoDir} => FreeSlots(k, ParentOf(k, p)) # {},
           dir => Last(p) \in PlainNames, ~dir => Last(p) \in FullNames
    PROVE  /\ create_new_file(k, p, dir).ok <=> ParentOf(k, p) # NoDir
           /\ ParentOf(k, p) = NoDir => create_new_file(k, p, dir).disk = k
           /\ ParentOf(k, p) # NoDir =>
                 Created(k, create_new_file(k, p, dir).disk, ParentOf(k, p),
                         FirstFree(k, ParentOf(k, p)),
                         Entry(Last(p), dir, find_first_free_cluster(k), 0))
<1>. DEFINE d == ParentOf(k, p)
            c == find_first_free_cluster(k)
            n == Last(p)
            e == Entry(n, dir, c, 0)
            r == create_new_file(k, p, dir)
<1>1. CASE d = NoDir
  <2>1. r = [ok |-> FALSE, disk |-> k]
    BY <1>1 DEF create_new_file
  <2>. QED BY <1>1, <2>1
<1>2. CASE d # NoDir
  <2>1. d \in Dirs(k)
    BY <1>2, ParentType
  <2>2. FreeSlots(k, d) # {}
    BY <1>2
  <2>3. c \in Clusters /\ k.fat[c] = Free
    <3>1. c = FreeAfter(k, -1)
      BY DEF find_first_free_cluster
    <3>. QED BY <3>1, FreeAfterProperties
  <2>. DEFINE a == FirstFree(k, d)
              k2 == [fat |-> [k.fat EXCEPT ![c] = EOC], store |-> [k.store EXCEPT ![a] = e]]
  <2>4. /\ a \in Region(d) /\ k.store[a] \in {Zero, Deleted}
        /\ \A b \in Region(d) : b < a => k.store[b] \notin {Zero, Deleted}
    BY <2>1, <2>2, FirstFreeSlot
  <2>5. Named(k, d, n) = {}
    BY <2>1, NothingNamed
  <2>6. n \in Names
    <3>1. p \in Seq(Names) /\ p # <<>>
      BY DEF IsPath
    <3>. QED BY <3>1, LenProperties, ElementOfSeq DEF Last
  <2>. DEFINE k3 == [k EXCEPT !.store[a] = e]
              ae == AddEntry(k, d, e)
  <2>7. ae = [ok |-> TRUE, disk |-> k3]
    BY <2>2 DEF AddEntry
  <2>8. r = [ok |-> TRUE, disk |-> EndChain(k3, c)]
    <3>1. r = IF d = NoDir \/ ~ae.ok THEN [ok |-> FALSE, disk |-> k]
              ELSE [ok |-> TRUE, disk |-> EndChain(ae.disk, c)]
      BY DEF create_new_file
    <3>. HIDE DEF ae, k3, r, d
    <3>2. ae.ok = TRUE /\ ae.disk = k3
      BY <2>7
    <3>. QED BY <1>2, <3>1, <3>2
  <2>9. k = [fat |-> k.fat, store |-> k.store]
    BY DEF DiskOK, DiskType
  <2>10. EndChain(k3, c) = k2
    <3>. HIDE DEF a, e, c
    <3>1. k3 = [fat |-> k.fat, store |-> [k.store EXCEPT ![a] = e]]
      BY <2>9
    <3>. HIDE DEF k3
    <3>2. EndChain(k3, c) = [k3 EXCEPT !.fat[c] = EOC]
      BY DEF EndChain, SetSuccessor
    <3>3. ASSUME NEW f, NEW s, k3 = [fat |-> f, store |-> s]
          PROVE  [k3 EXCEPT !.fat[c] = EOC] = [fat |-> [f EXCEPT ![c] = EOC], store |-> s]
      BY <3>3
    <3>. QED BY <3>1, <3>2, <3>3
  <2>11. e.name = n /\ e.dir = dir /\ e.first = c
    BY EntryFields
  <2>12. r.ok /\ r.disk = k2
    BY <2>8, <2>10
  <2>. HIDE DEF d, c, e, r, a, n
  <2>13. Created(k, k2, d, a, e)
    <3>1. e = Entry(e.name, e.dir, e.first, 0)
      BY <2>11 DEF e
    <3>2. k2 = [fat |-> [k.fat EXCEPT ![e.first] = EOC], store |-> [k.store EXCEPT ![a] = e]]
      BY <2>11
    <3>3. (dir => n \in PlainNames) /\ (~dir => n \in FullNames)
      BY DEF n
    <3>. HIDE DEF k2
    <3>. QED BY <2>1, <2>3, <2>4, <2>5, <2>6, <2>11, <3>1, <3>2, <3>3 DEF Created
  <2>. QED BY <1>2, <2>12, <2>13 DEF d, c, e, r, a, n
<1>. QED BY <1>1, <1>2

\* update_file_details finds the entry that find_file finds.
LEMMA UpdateStep ==
    ASSUME NEW k, DiskOK(k), NEW p, IsPath(p), NEW a, Leads(k, p, a), Last(p) \in FullNames, NEW e
    PROVE  update_file_details(k, p, e) = [k EXCEPT !.store[a] = e]
<1>. DEFINE d == ParentOf(k, p)
            at == Slots(k, d)
            nm == Last(p)
            m == {i \in DOMAIN at : Matches(LoadBlock(k, at[i]), nm)}
            z == StartOf(d)
            n == SizeOf(d)
            i == Min(m)
<1>1. find_file(k, p) # NoEntry
  BY LeadsFinds
<1>2. d \in Dirs(k) /\ a \in Named(k, d, nm)
  BY DEF Leads
<1>3. update_file_details(k, p, e) = IF m = {} THEN k ELSE [k EXCEPT !.store[at[i]] = e]
  BY <1>1 DEF update_file_details, Updated
<1>4. d \in Clusters \cup {Root}
  BY <1>2, DirsAreClusters
<1>5. /\ z \in Nat /\ n \in Nat
      /\ \A j \in 1 .. n : z + j \in Region(d)
      /\ \A b \in Region(d) : b - z \in 1 .. n /\ b \in Nat /\ z + (b - z) = b
      /\ Region(d) \subseteq 1 .. Blocks
  BY <1>4, RegionIndex, RegionOnDisk
<1>6. /\ DOMAIN at \subseteq Nat \ {0}
      /\ \A j \in 1 .. n : j \in DOMAIN at /\ at[j] = z + j
  <2>1. CASE d # Root
    <3>1. at = [j \in 1 .. n |-> z + j]
      BY <1>2, <2>1, SlotsOf
    <3>. QED BY <1>5, <2>1, <3>1
  <2>2. CASE d = Root
    <3>1. at = [j \in 1 .. RootSlots + SlotsPerSector |-> j]
      BY <1>2, <2>2, SlotsOf
    <3>2. z = 0 /\ n = RootSlots
      BY <2>2 DEF StartOf, SizeOf
    <3>3. DOMAIN at = 1 .. RootSlots + SlotsPerSector
      BY <3>1
    <3>4. \A j \in 1 .. n : j \in DOMAIN at /\ at[j] = z + j
      BY <3>1, <3>2, <3>3, Geometry
    <3>. QED BY <3>3, <3>4, Geometry
  <2>. QED BY <2>1, <2>2
<1>. HIDE DEF at, z, n, d
<1>7. a \in Entries(k) /\ a \in Region(d) /\ k.store[a].name = nm
  BY <1>2 DEF Named
<1>8. a - z \in m
  <2>1. a - z \in 1 .. n /\ z + (a - z) = a /\ a \in 1 .. Blocks
    BY <1>5, <1>7
  <2>2. LoadBlock(k, at[a - z]) = k.store[a]
    BY <1>6, <2>1 DEF LoadBlock
  <2>3. Matches(k.store[a], nm)
    BY <1>7 DEF Matches, Entries
  <2>. QED BY <1>6, <2>1, <2>2, <2>3
<1>9. i \in m /\ \A j \in m : i <= j
  BY <1>6, <1>8, MinProperties
<1>10. i \in 1 .. n
  <2>1. i \in Nat \ {0} /\ i <= a - z /\ a - z \in 1 .. n
    BY <1>5, <1>6, <1>7, <1>8, <1>9
  <2>. HIDE DEF i
  <2>. QED BY <2>1, <1>5
<1>11. at[i] = z + i /\ z + i \in Region(d) /\ z + i \in 1 .. Blocks
  BY <1>5, <1>6, <1>10
<1>12. z + i \in Named(k, d, nm)
  <2>1. Matches(k.store[z + i], nm)
    BY <1>9, <1>11 DEF LoadBlock
  <2>. QED BY <1>11, <2>1 DEF Matches, Named, Entries
<1>13. z + i = a
  BY <1>2, <1>12, Lookup
<1>. QED BY <1>3, <1>8, <1>11, <1>13

-----------------------------------------------------------------------------
(* Writing to a file.                                                      *)

\* There is one walk from a cluster.
LEMMA WalkUnique ==
    ASSUME NEW k, NEW c, NEW w, NEW v, IsWalk(w, k, c), IsWalk(v, k, c)
    PROVE  w = v
<1>. DEFINE I == {i \in Nat : w[i] = v[i]}
<1>1. 0 \in I
  BY DEF IsWalk
<1>2. ASSUME NEW i \in Nat, i \in I PROVE i + 1 \in I
  BY <1>2 DEF IsWalk
<1>. HIDE DEF I
<1>3. Nat \subseteq I
  BY <1>1, <1>2, SetInduction
<1>4. \A i \in Nat : w[i] = v[i]
  BY <1>3 DEF I
<1>. QED BY <1>4 DEF IsWalk

\* The walk of an entry is in its chain for as long as the chain is.
LEMMA WalkInChain ==
    ASSUME NEW k, DiskOK(k), NEW x \in Entries(k), NEW w, w = Walk(k, k.store[x].first),
           NEW n \in Nat, n = Len(Chain(k, k.store[x].first)), NEW i \in Nat
    PROVE  w[i] \in Clusters <=> i < n
<1>. DEFINE c == k.store[x].first
            cs == Chain(k, c)
<1>1. /\ IsWalk(w, k, c) /\ c \in Clusters /\ w[n] = EOC
      /\ \A j \in 1 .. n : cs[j] = w[j - 1] /\ cs[j] \in Clusters
  BY EntryChain
<1>2. FatType(k) /\ c \in FatCells /\ w = Walk(k, c)
  BY <1>1, Cells DEF DiskOK, DiskType
<1>. HIDE DEF c, cs
<1>3. ASSUME i < n PROVE w[i] \in Clusters
  <2>1. i + 1 \in 1 .. n /\ (i + 1) - 1 = i
    BY <1>3
  <2>. QED BY <1>1, <2>1
<1>4. ASSUME ~(i < n) PROVE w[i] \notin Clusters
  <2>1. n <= i /\ w[n] \notin Clusters
    BY <1>1, <1>4, Cells
  <2>2. w[i] = w[n]
    BY <1>2, <2>1, WalkAfter
  <2>. QED BY <2>1, <2>2
<1>. QED BY <1>3, <1>4

\* The free clusters come in ascending order.
LEMMA FreeClustersType ==
    ASSUME NEW k, DiskOK(k)
    PROVE  /\ \A i \in Nat : FreeClusters(k)[i] = 0
                             \/ (FreeClusters(k)[i] \in Clusters /\ k.fat[FreeClusters(k)[i]] = Free)
           /\ \A i \in Nat : FreeClusters(k)[i + 1] # 0 =>
                 FreeClusters(k)[i] # 0 /\ FreeClusters(k)[i] < FreeClusters(k)[i + 1]
<1>. DEFINE S == Clusters \cup {0}
            g(y) == FreeAfter(k, IF y = 0 THEN LastCluster ELSE y)
            f == [i \in Nat |-> [y \in S |-> g(y)]]
            x == FreeAfter(k, 1)
<1>1. \A y \in S : y \in Int
  BY Geometry DEF Clusters
<1>2. ASSUME NEW y \in S
      PROVE  /\ g(y) \in S /\ (g(y) # 0 => k.fat[g(y)] = Free)
             /\ g(y) # 0 => y # 0 /\ y < g(y)
  <2>1. CASE y = 0
    <3>1. LastCluster \in Int
      BY Geometry
    <3>2. FreeAfter(k, LastCluster) = 0
             \/ (FreeAfter(k, LastCluster) \in Clusters /\ LastCluster < FreeAfter(k, LastCluster))
      BY <3>1, FreeAfterProperties
    <3>3. g(y) = 0
      BY <2>1, <3>2, Geometry DEF Clusters
    <3>. QED BY <3>3
  <2>2. CASE y # 0
    <3>1. FreeAfter(k, y) = 0
             \/ (FreeAfter(k, y) \in Clusters /\ y < FreeAfter(k, y) /\ k.fat[FreeAfter(k, y)] = Free)
      BY <1>1, FreeAfterProperties
    <3>. QED BY <2>2, <3>1
  <2>. QED BY <2>1, <2>2
<1>3. x \in S /\ (x # 0 => k.fat[x] = Free)
  BY FreeAfterProperties
<1>. HIDE DEF S, g, x
<1>4. f \in [Nat -> [S -> S]]
  BY <1>2
<1>5. \A i \in Nat : \A b \in S : f[i][b] = g(b)
  OBVIOUS
<1>. HIDE DEF f
<1>6. PICK w \in [Nat -> S] : Computes(w, x, f)
  BY <1>3, <1>4, Recursion
<1>7. w = [i \in Nat |-> FreeAfter(k, IF i = 0 THEN 1 ELSE IF w[i - 1] = 0 THEN LastCluster ELSE w[i - 1])]
  <2>1. ASSUME NEW i \in Nat
        PROVE  w[i] = FreeAfter(k, IF i = 0 THEN 1 ELSE IF w[i - 1] = 0 THEN LastCluster ELSE w[i - 1])
    <3>1. CASE i # 0
      <4>1. i - 1 \in Nat /\ w[i - 1] \in S
        BY <3>1
      <4>2. w[i] = f[i][w[i - 1]]
        BY <1>6, <3>1 DEF Computes
      <4>3. w[i] = g(w[i - 1])
        BY <1>5, <4>1, <4>2
      <4>. QED BY <3>1, <4>3 DEF g
    <3>2. CASE i = 0
      BY <1>6, <3>2 DEF Computes, x
    <3>. QED BY <3>1, <3>2
  <2>. QED BY <2>1
<1>. DEFINE W == FreeClusters(k)
<1>8. W = [i \in Nat |-> FreeAfter(k, IF i = 0 THEN 1 ELSE IF W[i - 1] = 0 THEN LastCluster ELSE W[i - 1])]
  BY <1>7 DEF FreeClusters
<1>. HIDE DEF W
<1>9. W[0] = x
  BY <1>8 DEF x
<1>10. ASSUME NEW i \in Nat PROVE W[i + 1] = g(W[i])
  <2>1. i + 1 \in Nat /\ i + 1 # 0 /\ (i + 1) - 1 = i
    OBVIOUS
  <2>2. W[i + 1] = FreeAfter(k, IF W[i] = 0 THEN LastCluster ELSE W[i])
    BY <1>8, <2>1
  <2>. QED BY <2>2 DEF g
<1>11. \A i \in Nat : W[i] \in S /\ (W[i] # 0 => k.fat[W[i]] = Free)
  <2>. DEFINE I == {i \in Nat : W[i] \in S /\ (W[i] # 0 => k.fat[W[i]] = Free)}
  <2>1. 0 \in I
    BY <1>3, <1>9
  <2>2. \A i \in Nat : i \in I => i + 1 \in I
    BY <1>2, <1>10
  <2>. HIDE DEF I
  <2>3. Nat \subseteq I
    BY <2>1, <2>2, SetInduction
  <2>. QED BY <2>3 DEF I
<1>12. \A i \in Nat : W[i + 1] # 0 => W[i] # 0 /\ W[i] < W[i + 1]
  BY <1>2, <1>10, <1>11
<1>. QED BY <1>11, <1>12 DEF W, S

\* No cluster is handed out twice.
LEMMA FreeClustersDistinct ==
    ASSUME NEW k, DiskOK(k), NEW i \in Nat, NEW j \in Nat, i # j,
           FreeClusters(k)[i] # 0, FreeClusters(k)[j] # 0
    PROVE  FreeClusters(k)[i] # FreeClusters(k)[j]
<1>. DEFINE f == FreeClusters(k)
            I == {n \in Nat : f[n] # 0 => \A m \in Nat : m < n => f[m] < f[n]}
<1>1. /\ \A n \in Nat : f[n] \in Int
      /\ \A n \in Nat : f[n + 1] # 0 => f[n] # 0 /\ f[n] < f[n + 1]
  <2>1. \A c \in Clusters : c \in Int
    BY Cells
  <2>. QED BY <2>1, FreeClustersType
<1>. HIDE DEF f
<1>2. 0 \in I
  OBVIOUS
<1>3. ASSUME NEW n \in Nat, n \in I PROVE n + 1 \in I
  <2>. SUFFICES ASSUME f[n + 1] # 0, NEW m \in Nat, m < n + 1 PROVE f[m] < f[n + 1]
    OBVIOUS
  <2>1. f[n] # 0 /\ f[n] < f[n + 1]
    BY <1>1
  <2>2. CASE m = n
    BY <2>1, <2>2
  <2>3. CASE m < n
    <3>1. f[m] < f[n]
      BY <1>3, <2>1, <2>3
    <3>2. f[m] \in Int /\ f[n] \in Int /\ f[n + 1] \in Int
      BY <1>1
    <3>. QED BY <2>1, <3>1, <3>2
  <2>. QED BY <2>2, <2>3
<1>. HIDE DEF I
<1>4. Nat \subseteq I
  BY <1>2, <1>3, SetInduction
<1>5. \A n, m \in Nat : f[n] # 0 /\ m < n => f[m] < f[n]
  BY <1>4 DEF I
<1>6. CASE i < j
  <2>1. f[i] < f[j] /\ f[i] \in Int
    BY <1>1, <1>5, <1>6 DEF f
  <2>. QED BY <2>1 DEF f
<1>7. CASE j < i
  <2>1. f[j] < f[i] /\ f[j] \in Int
    BY <1>1, <1>5, <1>7 DEF f
  <2>. QED BY <2>1 DEF f
<1>. QED BY <1>6, <1>7

\* Some blocks need at least one cluster.
LEMMA NeededPositive ==
    ASSUME NEW o \in Nat, NEW n \in Nat, n >= 1
    PROVE  /\ Needed(o, n) \in Nat /\ Needed(o, n) >= 1
           /\ InCluster(o) \in 0 .. SlotsPerCluster - 1
<1>. DEFINE r == InCluster(o)
            y == r + n + SlotsPerCluster - 1
            q == y \div SlotsPerCluster
            t == y % SlotsPerCluster
<1>1. r \in 0 .. SlotsPerCluster - 1
  BY Division DEF InCluster
<1>. HIDE DEF r
<1>2. y \in Nat /\ y >= SlotsPerCluster
  BY <1>1, Geometry
<1>. HIDE DEF y
<1>3. q \in Nat /\ t \in 0 .. SlotsPerCluster - 1 /\ y = q * SlotsPerCluster + t
  BY <1>2, Division
<1>4. Needed(o, n) = q
  BY DEF Needed, q, y, r
<1>. HIDE DEF q, t
<1>5. q # 0
  <2>. SUFFICES ASSUME q = 0 PROVE FALSE
    OBVIOUS
  <2>1. y = t
    BY <1>2, <1>3, Geometry
  <2>. QED BY <2>1, <1>2, <1>3, Geometry
<1>. QED BY <1>1, <1>3, <1>4, <1>5 DEF r

\* The list old is the part of cs that comes after its first q members.
PartOf(old, cs, q) == \A j \in 1 .. Len(old) : old[j] = cs[q + j]

\* The walk that starts behind step q of a walk.
LEMMA NextWalk ==
    ASSUME NEW k, FatType(k), NEW c \in FatCells, NEW q \in Nat, NEW w, w = Walk(k, c),
           NEW next, next = Walk(k, w[q + 1])
    PROVE  \A i \in Nat : next[i] = w[(q + 1) + i]
<1>1. ASSUME NEW m \in Nat, NEW i \in Nat PROVE Walk(k, Walk(k, c)[m])[i] = Walk(k, c)[m + i]
  BY ONLY FatType(k), c \in FatCells, m \in Nat, i \in Nat, WalkShift
<1>2. q + 1 \in Nat
  OBVIOUS
<1>. QED BY <1>1, <1>2

\* The clusters of a file that a read or a write of n blocks from offset o on covers.
LEMMA CoveredClusters ==
    ASSUME NEW k, DiskOK(k), NEW x \in Entries(k), NEW first, first = k.store[x].first,
           NEW o \in Nat, NEW n \in Nat, n >= 1, ClusterAt(k, first, o) \in Clusters,
           NEW cs, cs = Chain(k, first), NEW old, old = Covered(k, first, o, n),
           NEW q, q = o \div SlotsPerCluster
    PROVE  /\ q \in Nat /\ q < Len(cs) /\ Len(cs) \in Nat
           /\ Len(old) \in Nat /\ Len(old) >= 1
           /\ Len(old) <= Len(cs) - q /\ Len(old) <= Needed(o, n)
           /\ Len(old) < Needed(o, n) => Len(old) = Len(cs) - q
           /\ PartOf(old, cs, q)
<1>. DEFINE w == Walk(k, first)
            L == Len(cs)
            next == Walk(k, k.fat[w[q]])
            s == Steps(next)
            r == Min({s, Needed(o, n) - 1})
<1>1. IsWalk(w, k, first) /\ L \in Nat /\ L \in 1 .. LastCluster - 1
      /\ \A i \in 1 .. L : cs[i] = w[i - 1]
  BY EntryChain
<1>2. q \in Nat
  BY Division
<1>3. w[q] \in Clusters /\ old = Followed(w[q], next, r)
  BY DEF ClusterAt, Covered, get_successor_cluster
<1>4. \A i \in Nat : w[i] \in Clusters <=> i < L
  BY WalkInChain, <1>1
<1>. HIDE DEF w, L
<1>5. q < L
  BY <1>2, <1>3, <1>4
<1>6. w[q + 1] = k.fat[w[q]] /\ w[q + 1] \in FatCells
  BY <1>1, <1>2, <1>3 DEF IsWalk
<1>7. FatType(k)
  BY DEF DiskOK, DiskType
<1>8. first \in FatCells /\ q + 1 \in Nat
  BY <1>1, <1>2 DEF IsWalk
<1>9. \A i \in Nat : next[i] = w[(q + 1) + i]
  <2>1. w = Walk(k, first)
    BY DEF w
  <2>2. next = Walk(k, w[q + 1])
    BY <1>6
  <2>. HIDE DEF next
  <2>. QED BY <2>1, <2>2, <1>2, <1>7, <1>8, NextWalk
<1>10. IsWalk(next, k, w[q + 1])
  BY <1>6, <1>7, WalkType
<1>11. next \in [Nat -> FatCells]
  BY <1>10 DEF IsWalk
<1>. HIDE DEF next
<1>12. /\ s \in 0 .. LastCluster
       /\ \A i \in Nat : i < s => next[i] \in Clusters
       /\ s < LastCluster => next[s] \notin Clusters
  BY <1>11, StepsProperties
<1>. HIDE DEF s
<1>13. s <= L - q - 1
  <2>1. CASE s > 0
    <3>1. s - 1 \in Nat /\ s - 1 < s
      BY <1>12, <2>1
    <3>2. w[(q + 1) + (s - 1)] \in Clusters
      BY <1>9, <1>12, <3>1
    <3>3. (q + 1) + (s - 1) \in Nat
      BY <1>2, <3>1
    <3>4. (q + 1) + (s - 1) < L
      BY <1>4, <3>2, <3>3
    <3>. QED BY <1>1, <1>2, <1>12, <3>4
  <2>. QED BY <2>1, <1>5, <1>12, <1>1, <1>2
<1>14. s >= L - q - 1
  <2>1. s \in Nat /\ s < LastCluster
    BY <1>1, <1>2, <1>12, <1>13, Geometry
  <2>2. w[(q + 1) + s] \notin Clusters
    BY <1>9, <1>12, <2>1
  <2>3. (q + 1) + s \in Nat
    BY <1>2, <2>1
  <2>4. ~((q + 1) + s < L)
    BY <1>4, <2>2, <2>3
  <2>. QED BY <1>1, <1>2, <2>1, <2>4
<1>15. s = L - q - 1 /\ s \in Nat
  BY <1>1, <1>2, <1>12, <1>13, <1>14
<1>16. Needed(o, n) \in Nat /\ Needed(o, n) >= 1
  BY NeededPositive
<1>17. r = IF s <= Needed(o, n) - 1 THEN s ELSE Needed(o, n) - 1
  <2>1. Needed(o, n) - 1 \in Nat
    BY <1>16
  <2>. QED BY <1>15, <2>1, MinMaxTwo
<1>. HIDE DEF r
<1>18. r \in Nat
  BY <1>15, <1>16, <1>17
<1>19. old = [i \in 1 .. r + 1 |-> IF i = 1 THEN w[q] ELSE next[i - 2]]
  BY <1>3 DEF Followed
<1>20. Len(old) = r + 1
  BY <1>18, <1>19
<1>20a. Len(old) <= L - q
  BY <1>1, <1>2, <1>15, <1>17, <1>20
<1>21. ASSUME NEW j \in 1 .. Len(old) PROVE old[j] = cs[q + j]
  <2>1. q + j \in 1 .. L
    BY <1>1, <1>2, <1>18, <1>20, <1>20a
  <2>2. cs[q + j] = w[(q + j) - 1]
    BY <1>1, <2>1
  <2>3. CASE j = 1
    <3>1. (q + j) - 1 = q
      BY <1>2, <2>3
    <3>. QED BY <1>18, <1>19, <2>2, <2>3, <3>1
  <2>4. CASE j # 1
    <3>1. j - 2 \in Nat /\ (q + 1) + (j - 2) = (q + j) - 1 /\ j \in 1 .. r + 1
      BY <1>2, <1>18, <1>20, <2>4
    <3>2. next[j - 2] = w[(q + 1) + (j - 2)]
      BY <1>9, <3>1
    <3>3. old[j] = next[j - 2]
      BY <1>19, <2>4, <3>1
    <3>. QED BY <2>2, <3>1, <3>2, <3>3
  <2>. QED BY <2>3, <2>4
<1>22. /\ L \in Nat /\ L = Len(cs)
       /\ Len(old) \in Nat /\ Len(old) >= 1
       /\ Len(old) <= L - q /\ Len(old) <= Needed(o, n)
       /\ Len(old) < Needed(o, n) => Len(old) = L - q
  BY <1>1, <1>2, <1>15, <1>16, <1>17, <1>18, <1>20 DEF L
<1>23. PartOf(old, cs, q)
  BY <1>21 DEF PartOf
<1>. QED BY <1>2, <1>5, <1>23, <1>22 DEF L

\* The clusters that extend a list are free, and none comes twice.
LEMMA ExtendedClusters ==
    ASSUME NEW k, DiskOK(k), NEW old, Len(old) \in Nat, NEW n \in Nat, NEW cs, cs = Extended(k, old, n)
    PROVE  /\ Len(cs) \in Nat /\ Len(cs) >= Len(old) /\ Len(cs) <= Len(old) + n
           /\ n = 0 => Len(cs) = Len(old)
           /\ \A j \in 1 .. Len(old) : cs[j] = old[j]
           /\ \A j \in Len(old) + 1 .. Len(cs) : cs[j] \in Clusters /\ k.fat[cs[j]] = Free
           /\ \A i, j \in Len(old) + 1 .. Len(cs) : cs[i] = cs[j] => i = j
<1>. DEFINE f == FreeClusters(k)
            s == Steps(f)
            t == Min({n, s})
            m == Len(old)
<1>1. s \in 0 .. LastCluster /\ \A i \in Nat : i < s => Between(f[i], 65519)
  BY StepsUpToProperties DEF Steps
<1>2. \A i \in Nat : f[i] = 0 \/ (f[i] \in Clusters /\ k.fat[f[i]] = Free)
  BY FreeClustersType
<1>. HIDE DEF f
<1>3. \A i \in Nat : i < s => f[i] # 0 /\ f[i] \in Clusters /\ k.fat[f[i]] = Free
  BY <1>1, <1>2 DEF Between
<1>4. \A i, j \in Nat : i < s /\ j < s /\ f[i] = f[j] => i = j
  BY <1>3, FreeClustersDistinct DEF f
<1>. HIDE DEF s
<1>5. t = IF n <= s THEN n ELSE s
  BY <1>1, MinMaxTwo
<1>6. cs = [j \in 1 .. m + t |-> IF j <= m THEN old[j] ELSE f[j - m - 1]]
  BY DEF Extended, s, f
<1>. HIDE DEF t
<1>7. t \in Nat /\ t <= n /\ t <= s
  BY <1>1, <1>5
<1>8. Len(cs) = m + t /\ m \in Nat
  BY <1>6, <1>7
<1>9. \A j \in 1 .. m : cs[j] = old[j]
  BY <1>6, <1>7, <1>8
<1>10. ASSUME NEW j \in m + 1 .. Len(cs) PROVE cs[j] = f[j - m - 1] /\ j - m - 1 \in Nat /\ j - m - 1 < s
  BY <1>1, <1>6, <1>7, <1>8
<1>11. \A j \in m + 1 .. Len(cs) : cs[j] \in Clusters /\ k.fat[cs[j]] = Free
  BY <1>3, <1>10
<1>12. ASSUME NEW i \in m + 1 .. Len(cs), NEW j \in m + 1 .. Len(cs), cs[i] = cs[j] PROVE i = j
  <2>1. i - m - 1 = j - m - 1
    BY <1>4, <1>10, <1>12
  <2>. QED BY <2>1, <1>8, <1>12
<1>. QED BY <1>7, <1>8, <1>9, <1>11, <1>12

\* The links of the clusters of a list.
LEMMA LinkedFat ==
    ASSUME NEW k, DiskType(k), NEW cs, Len(cs) \in Nat, NEW i \in 1 .. Len(cs),
           \A j \in 1 .. Len(cs) : cs[j] \in Clusters,
           \A j, l \in 1 .. Len(cs) : cs[j] = cs[l] => j = l,
           NEW fat, fat = Linked(k, cs, i).fat
    PROVE  /\ fat \in [FatCells -> FatCells]
           /\ \A j \in i .. Len(cs) - 1 : fat[cs[j]] = cs[j + 1]
           /\ i < Len(cs) => fat[cs[Len(cs)]] = EOC
           /\ \A c \in FatCells : (\A j \in i .. Len(cs) : cs[j] # c) => fat[c] = k.fat[c]
           /\ i = Len(cs) => fat = k.fat
           /\ Linked(k, cs, i) = [fat |-> fat, store |-> k.store]
<1>. DEFINE g == [c \in FatCells |->
                    IF \E j \in i .. Len(cs) - 1 : cs[j] = c
                    THEN cs[1 + CHOOSE j \in i .. Len(cs) - 1 : cs[j] = c]
                    ELSE IF i < Len(cs) /\ c = cs[Len(cs)] THEN EOC ELSE k.fat[c]]
<1>1. Linked(k, cs, i) = [fat |-> g, store |-> k.store]
  <2>1. k = [fat |-> k.fat, store |-> k.store]
    BY DEF DiskType
  <2>2. ASSUME NEW f, NEW s PROVE Linked([fat |-> f, store |-> s], cs, i) =
           [fat |-> [c \in FatCells |->
                    IF \E j \in i .. Len(cs) - 1 : cs[j] = c
                    THEN cs[1 + CHOOSE j \in i .. Len(cs) - 1 : cs[j] = c]
                    ELSE IF i < Len(cs) /\ c = cs[Len(cs)] THEN EOC ELSE f[c]], store |-> s]
    BY DEF Linked, Last
  <2>3. Linked(k, cs, i) = Linked([fat |-> k.fat, store |-> k.store], cs, i)
    BY <2>1
  <2>. QED BY <2>2, <2>3
<1>2. fat = g
  BY <1>1
<1>3. k.fat \in [FatCells -> FatCells]
  BY DEF DiskType, FatType
<1>4. ASSUME NEW j \in i .. Len(cs) - 1
      PROVE  j \in 1 .. Len(cs) /\ j + 1 \in 1 .. Len(cs)
  OBVIOUS
<1>5. ASSUME NEW j \in i .. Len(cs) - 1
      PROVE  fat[cs[j]] = cs[j + 1]
  <2>. DEFINE J == CHOOSE l \in i .. Len(cs) - 1 : cs[l] = cs[j]
  <2>1. J \in i .. Len(cs) - 1 /\ cs[J] = cs[j]
    OBVIOUS
  <2>2. cs[j] \in FatCells
    BY <1>4, Cells
  <2>3. fat[cs[j]] = cs[1 + J]
    BY <1>2, <2>2
  <2>. HIDE DEF J
  <2>4. J = j
    BY <1>4, <2>1
  <2>5. 1 + J = j + 1
    BY <2>4
  <2>. QED BY <2>3, <2>5
<1>6. ASSUME NEW c \in FatCells, \A j \in i .. Len(cs) - 1 : cs[j] # c
      PROVE  fat[c] = IF i < Len(cs) /\ c = cs[Len(cs)] THEN EOC ELSE k.fat[c]
  BY <1>2, <1>6
<1>. HIDE DEF g
<1>7. ASSUME i < Len(cs) PROVE fat[cs[Len(cs)]] = EOC
  <2>0. Len(cs) \in 1 .. Len(cs)
    BY <1>7
  <2>1. Len(cs) \in 1 .. Len(cs) /\ cs[Len(cs)] \in FatCells
    BY <2>0, Cells
  <2>2. \A j \in i .. Len(cs) - 1 : cs[j] # cs[Len(cs)]
    BY <1>4, <2>1
  <2>. QED BY <1>6, <1>7, <2>1, <2>2
<1>8. ASSUME NEW c \in FatCells, \A j \in i .. Len(cs) : cs[j] # c
      PROVE  fat[c] = k.fat[c]
  <2>1. \A j \in i .. Len(cs) - 1 : cs[j] # c
    BY <1>8
  <2>2. i < Len(cs) => c # cs[Len(cs)]
    BY <1>8
  <2>. QED BY <1>6, <2>1, <2>2
<1>9. ASSUME i = Len(cs), NEW c \in FatCells PROVE fat[c] = k.fat[c]
  <2>1. \A j \in i .. Len(cs) - 1 : cs[j] # c
    BY <1>9
  <2>. QED BY <1>6, <2>1, <1>9
<1>10. ASSUME NEW c \in FatCells PROVE fat[c] \in FatCells
  <2>1. CASE \E j \in i .. Len(cs) - 1 : cs[j] = c
    BY <2>1, <1>4, <1>5, Cells
  <2>2. CASE \A j \in i .. Len(cs) - 1 : cs[j] # c
    BY <2>2, <1>6, <1>3, Cells
  <2>. QED BY <2>1, <2>2
<1>11. fat = [c \in FatCells |-> fat[c]]
  BY <1>2 DEF g
<1>12. fat \in [FatCells -> FatCells]
  BY <1>10, <1>11
<1>13. i = Len(cs) => fat = k.fat
  BY <1>3, <1>9, <1>12
<1>14. Linked(k, cs, i) = [fat |-> fat, store |-> k.store]
  BY <1>1, <1>2
<1>. QED BY <1>5, <1>7, <1>8, <1>12, <1>13, <1>14

\* A position of a list of clusters is a position of the chain they are a part of.
LEMMA AddressShift ==
    ASSUME NEW cs, NEW ds, NEW o \in Nat, Len(cs) \in Nat, PartOf(cs, ds, o \div SlotsPerCluster),
           NEW i \in Nat, i >= 1, InCluster(o) + i <= Len(cs) * SlotsPerCluster
    PROVE  AddressAt(cs, InCluster(o) + i) = AddressAt(ds, o + i)
<1>. DEFINE S == SlotsPerCluster
            m == Len(cs)
            q == o \div S
            r == o % S
            a == ClusterIndex(r + i)
            b == InClusterIndex(r + i)
<1>1. q \in Nat /\ r \in 0 .. S - 1 /\ o = q * S + r
  BY Division
<1>2. InCluster(o) = r /\ S \in Nat /\ S >= 1
  BY Geometry DEF InCluster
<1>. HIDE DEF q, r
<1>3. r + i \in 1 .. m * SlotsPerCluster
  <2>1. r + i <= m * SlotsPerCluster /\ r \in Nat /\ m * SlotsPerCluster \in Nat
    BY <1>1, <1>2
  <2>. HIDE DEF S
  <2>. QED BY <2>1
<1>4. a \in 1 .. m /\ b \in 1 .. S /\ r + i = (a - 1) * S + b
  BY <1>3, PositionType
<1>5. AddressAt(cs, r + i) = BlockOf(cs[a], b)
  BY DEF AddressAt, ClusterIndex, InClusterIndex
<1>. HIDE DEF a, b
<1>6. q + (a - 1) \in Nat /\ b - 1 \in 0 .. S - 1
  BY <1>1, <1>2, <1>4
<1>7. (o + i) - 1 = (q + (a - 1)) * S + (b - 1)
  <2>1. ASSUME NEW A \in Nat, NEW B \in Nat, NEW s \in Nat PROVE (A + B) * s = A * s + B * s
    OBVIOUS
  <2>2. (q + (a - 1)) * S = q * S + (a - 1) * S
    <3>1. a - 1 \in Nat
      BY <1>4
    <3>. HIDE DEF S
    <3>. QED BY <2>1, <3>1, <1>1, <1>2
  <2>. DEFINE u == q * S
              v == (a - 1) * S
              z == (q + (a - 1)) * S
  <2>3. u \in Int /\ v \in Int /\ z = u + v /\ o = u + r /\ r + i = v + b
    BY <1>1, <1>2, <1>4, <2>2
  <2>4. b \in Int /\ r \in Int
    BY <1>1, <1>4, <1>2
  <2>. HIDE DEF u, v, z
  <2>5. (o + i) - 1 = z + (b - 1)
    BY <2>3, <2>4
  <2>. QED BY <2>5 DEF z
<1>8. ((o + i) - 1) \div S = q + (a - 1) /\ ((o + i) - 1) % S = b - 1
  BY <1>6, <1>7, DivisionUnique
<1>9. AddressAt(ds, o + i) = BlockOf(ds[1 + (((o + i) - 1) \div S)], 1 + (((o + i) - 1) % S))
  BY DEF AddressAt
<1>10. 1 + (q + (a - 1)) = q + a /\ 1 + (b - 1) = b
  BY <1>1, <1>4, <1>2
<1>11. AddressAt(ds, o + i) = BlockOf(ds[q + a], b)
  BY <1>8, <1>9, <1>10
<1>12. cs[a] = ds[q + a]
  BY <1>4 DEF q, PartOf
<1>. QED BY <1>2, <1>5, <1>11, <1>12

\* What fits is something, and does fit.
LEMMA FittingType ==
    ASSUME NEW cs, Len(cs) \in Nat, Len(cs) >= 1, NEW o \in Nat, NEW nb \in Nat, nb >= 1
    PROVE  /\ Fitting(cs, o, nb) \in 1 .. nb
           /\ InCluster(o) + Fitting(cs, o, nb) <= Len(cs) * SlotsPerCluster
           /\ Fitting(cs, o, nb) =
                 IF InCluster(o) + nb <= Len(cs) * SlotsPerCluster THEN nb
                 ELSE Len(cs) * SlotsPerCluster - InCluster(o)
<1>. DEFINE y == Len(cs) * SlotsPerCluster
            r == InCluster(o)
<1>1. r \in Nat /\ r < SlotsPerCluster /\ r <= SlotsPerCluster - 1
  <2>1. r \in 0 .. SlotsPerCluster - 1
    BY NeededPositive
  <2>. QED BY <2>1, Geometry
<1>2. y \in Nat
  BY Geometry
<1>3. y >= SlotsPerCluster
  <2>1. 0 * SlotsPerCluster + SlotsPerCluster <= Len(cs) * SlotsPerCluster
    BY Product, Geometry
  <2>. QED BY <2>1, Geometry
<1>. HIDE DEF y, r
<1>4. y - r \in Nat /\ y - r >= 1
  BY <1>1, <1>2, <1>3, Geometry
<1>5. Min({nb, y - r}) = IF nb <= y - r THEN nb ELSE y - r
  BY <1>4, MinMaxTwo
<1>6. Fitting(cs, o, nb) = Min({nb, y - r})
  BY DEF Fitting, y, r
<1>7. /\ Min({nb, y - r}) \in 1 .. nb /\ r + Min({nb, y - r}) <= y
      /\ Min({nb, y - r}) = IF r + nb <= y THEN nb ELSE y - r
  BY <1>1, <1>2, <1>4, <1>5
<1>. QED BY <1>6, <1>7 DEF y, r

\* A list of n clusters, and one in which none comes twice.
ClusterList(cs, n) == n \in Nat /\ \A j \in 1 .. n : cs[j] \in Clusters
DistinctList(cs, n) == ClusterList(cs, n) /\ \A i, j \in 1 .. n : cs[i] = cs[j] => i = j

\* The blocks of different clusters are different.
LEMMA AddressApart ==
    ASSUME NEW cs, NEW n, ClusterList(cs, n), NEW ds, NEW m, ClusterList(ds, m),
           NEW i \in 1 .. n * SlotsPerCluster, NEW j \in 1 .. m * SlotsPerCluster,
           AddressAt(cs, i) = AddressAt(ds, j)
    PROVE  cs[ClusterIndex(i)] = ds[ClusterIndex(j)] /\ InClusterIndex(i) = InClusterIndex(j)
BY AddressUnique DEF ClusterList

\* No two positions of a list of different clusters are the same block.
LEMMA PositionUnique ==
    ASSUME NEW cs, NEW n, DistinctList(cs, n),
           NEW i \in 1 .. n * SlotsPerCluster, NEW j \in 1 .. n * SlotsPerCluster,
           AddressAt(cs, i) = AddressAt(cs, j)
    PROVE  i = j
<1>0. ClusterList(cs, n) /\ n \in Nat
  BY DEF DistinctList, ClusterList
<1>1. cs[ClusterIndex(i)] = cs[ClusterIndex(j)] /\ InClusterIndex(i) = InClusterIndex(j)
  BY <1>0, AddressApart
<1>2. /\ ClusterIndex(i) \in 1 .. n /\ i = (ClusterIndex(i) - 1) * SlotsPerCluster + InClusterIndex(i)
      /\ ClusterIndex(j) \in 1 .. n /\ j = (ClusterIndex(j) - 1) * SlotsPerCluster + InClusterIndex(j)
  BY <1>0, PositionType
<1>3. ClusterIndex(i) = ClusterIndex(j)
  BY <1>1, <1>2 DEF DistinctList
<1>. QED BY <1>1, <1>2, <1>3

\* The blocks st with those of buf at n places of the clusters cs, from r on.
Patched(st, cs, r, buf, n) ==
    [a \in 1 .. Blocks |-> IF \E i \in 1 .. n : AddressAt(cs, r + i) = a
                           THEN buf[CHOOSE i \in 1 .. n : AddressAt(cs, r + i) = a]
                           ELSE st[a]]

\* The blocks after a write are those of the buffer, and those before it.
Stored(st, st2, cs, r, buf, n) ==
    /\ \A i \in 1 .. n : st2[AddressAt(cs, r + i)] = buf[i]
    /\ \A a \in 1 .. Blocks : (\A i \in 1 .. n : AddressAt(cs, r + i) # a) => st2[a] = st[a]

\* The blocks of the buffer are where they belong, and all others are kept.
LEMMA StoreWritten ==
    ASSUME NEW cs, DistinctList(cs, Len(cs)),
           NEW r \in Nat, NEW n \in Nat, r + n <= Len(cs) * SlotsPerCluster,
           NEW buf, NEW st
    PROVE  Stored(st, Patched(st, cs, r, buf, n), cs, r, buf, n)
<1>. DEFINE y == Len(cs) * SlotsPerCluster
            st2 == Patched(st, cs, r, buf, n)
<1>0. Len(cs) \in Nat /\ \A j \in 1 .. Len(cs) : cs[j] \in Clusters
  BY DEF DistinctList, ClusterList
<1>1. y \in Nat
  BY <1>0, Geometry
<1>2. r + n <= y
  BY DEF y
<1>. HIDE DEF y
<1>3. ASSUME NEW i \in 1 .. n PROVE r + i \in 1 .. y
  BY <1>1, <1>2
<1>4. ASSUME NEW i \in 1 .. y PROVE AddressAt(cs, i) \in 1 .. Blocks
  <2>1. i \in 1 .. Len(cs) * SlotsPerCluster
    BY DEF y
  <2>. QED BY <2>1, <1>0, AddressIn
<1>5. ASSUME NEW i \in 1 .. y, NEW j \in 1 .. y, AddressAt(cs, i) = AddressAt(cs, j)
      PROVE  i = j
  <2>1. i \in 1 .. Len(cs) * SlotsPerCluster /\ j \in 1 .. Len(cs) * SlotsPerCluster
    BY DEF y
  <2>. QED BY <2>1, <1>5, PositionUnique
<1>6. ASSUME NEW i \in 1 .. n PROVE st2[AddressAt(cs, r + i)] = buf[i]
  <2>. DEFINE J == CHOOSE j \in 1 .. n : AddressAt(cs, r + j) = AddressAt(cs, r + i)
  <2>1. J \in 1 .. n /\ AddressAt(cs, r + J) = AddressAt(cs, r + i)
    OBVIOUS
  <2>2. AddressAt(cs, r + i) \in 1 .. Blocks
    BY <1>3, <1>4
  <2>3. st2[AddressAt(cs, r + i)] = buf[J]
    BY <2>2 DEF Patched
  <2>. HIDE DEF J
  <2>4. r + J = r + i
    BY <1>3, <1>5, <2>1
  <2>5. J = i
    BY <2>1, <2>4
  <2>. QED BY <2>3, <2>5
<1>7. ASSUME NEW a \in 1 .. Blocks, \A i \in 1 .. n : AddressAt(cs, r + i) # a
      PROVE  st2[a] = st[a]
  BY <1>7 DEF Patched
<1>. QED BY <1>6, <1>7 DEF Stored

\* A write goes to the clusters ext: m that come after the first q of the chain
\* cs, and free ones, if these m are its last.
WritesTo(k, cs, q, m, ext) ==
    /\ q \in Nat /\ Len(cs) \in Nat /\ Len(ext) \in Nat
    /\ m \in 1 .. Len(ext) /\ q + m <= Len(cs)
    /\ m < Len(ext) => q + m = Len(cs)
    /\ \A j \in 1 .. m : ext[j] = cs[q + j] /\ q + j \in 1 .. Len(cs)
    /\ \A j \in m + 1 .. Len(ext) : k.fat[ext[j]] = Free
    /\ \A j \in 1 .. Len(ext) : ext[j] \in Clusters
    /\ \A i, j \in 1 .. Len(ext) : ext[i] = ext[j] => i = j

\* The clusters a write goes to: those of the chain that it covers, and the free
\* ones that are added when these are its last.
LEMMA WriteClusters ==
    ASSUME NEW k, DiskOK(k), NEW x \in Entries(k), NEW first, first = k.store[x].first,
           NEW o \in Nat, NEW n \in Nat, n >= 1, ClusterAt(k, first, o) \in Clusters,
           NEW cs, cs = Chain(k, first), NEW old, old = Covered(k, first, o, n),
           NEW q, q = o \div SlotsPerCluster,
           NEW ext, ext = Extended(k, old, Needed(o, n) - Len(old))
    PROVE  WritesTo(k, cs, q, Len(old), ext)
<1>. DEFINE d == Needed(o, n)
<1>1. /\ q \in Nat /\ q < Len(cs) /\ Len(cs) \in Nat
      /\ Len(old) \in Nat /\ Len(old) >= 1
      /\ Len(old) <= Len(cs) - q /\ Len(old) <= d
      /\ Len(old) < d => Len(old) = Len(cs) - q
  BY CoveredClusters
<1>1b. PartOf(old, cs, q)
  BY CoveredClusters
<1>1a. \A j \in 1 .. Len(old) : old[j] = cs[q + j]
  BY <1>1b DEF PartOf
<1>2. d \in Nat
  BY NeededPositive
<1>. HIDE DEF d
<1>3. d - Len(old) \in Nat
  BY <1>1, <1>2
<1>4. ext = Extended(k, old, d - Len(old))
  BY DEF d
<1>4a. Len(old) \in Nat
  BY <1>1
<1>5. /\ Len(ext) \in Nat /\ Len(ext) >= Len(old)
      /\ d - Len(old) = 0 => Len(ext) = Len(old)
  BY <1>3, <1>4, <1>4a, ExtendedClusters
<1>5a. \A j \in 1 .. Len(old) : ext[j] = old[j]
  BY <1>3, <1>4, <1>4a, ExtendedClusters
<1>5b. \A j \in Len(old) + 1 .. Len(ext) : ext[j] \in Clusters /\ k.fat[ext[j]] = Free
  BY <1>3, <1>4, <1>4a, ExtendedClusters
<1>5c. \A i, j \in Len(old) + 1 .. Len(ext) : ext[i] = ext[j] => i = j
  BY <1>3, <1>4, <1>4a, ExtendedClusters
<1>6. /\ Len(old) \in 1 .. Len(ext) /\ q + Len(old) <= Len(cs)
      /\ Len(old) < Len(ext) => q + Len(old) = Len(cs)
  BY <1>1, <1>2, <1>5
<1>7. ASSUME NEW j \in 1 .. Len(old)
      PROVE  ext[j] = cs[q + j] /\ q + j \in 1 .. Len(cs) /\ q + j \in Int
  <2>1. ext[j] = cs[q + j]
    BY <1>1a, <1>5a
  <2>. QED BY <1>1, <2>1
<1>8. \A j \in 1 .. Len(cs) : cs[j] \in Clusters /\ k.fat[cs[j]] # Free
  BY EntryChain
<1>9. \A i, j \in 1 .. Len(cs) : cs[i] = cs[j] => i = j
  BY ChainsApart
<1>9a. ASSUME NEW j \in 1 .. Len(old) PROVE ext[j] \in Clusters /\ k.fat[ext[j]] # Free
  BY <1>7, <1>8
<1>9b. ASSUME NEW j \in 1 .. Len(ext)
       PROVE  j \in 1 .. Len(old) \/ j \in Len(old) + 1 .. Len(ext)
  BY <1>1, <1>5
<1>10. ASSUME NEW j \in 1 .. Len(ext) PROVE ext[j] \in Clusters
  BY <1>5b, <1>9a, <1>9b
<1>11. ASSUME NEW i \in 1 .. Len(ext), NEW j \in 1 .. Len(ext), ext[i] = ext[j] PROVE i = j
  <2>1. CASE i \in 1 .. Len(old) /\ j \in 1 .. Len(old)
    <3>1. cs[q + i] = cs[q + j] /\ q + i \in 1 .. Len(cs) /\ q + j \in 1 .. Len(cs)
      BY <2>1, <1>7, <1>11
    <3>2. q + i = q + j
      BY <3>1, <1>9
    <3>. QED BY <3>2, <1>1
  <2>2. CASE i \in Len(old) + 1 .. Len(ext) /\ j \in Len(old) + 1 .. Len(ext)
    BY <2>2, <1>5c, <1>11
  <2>3. CASE i \in 1 .. Len(old) /\ j \in Len(old) + 1 .. Len(ext)
    <3>1. k.fat[ext[i]] # Free /\ k.fat[ext[j]] = Free
      BY <2>3, <1>5b, <1>9a
    <3>. QED BY <3>1, <1>11
  <2>4. CASE j \in 1 .. Len(old) /\ i \in Len(old) + 1 .. Len(ext)
    <3>1. k.fat[ext[j]] # Free /\ k.fat[ext[i]] = Free
      BY <2>4, <1>5b, <1>9a
    <3>. QED BY <3>1, <1>11
  <2>. QED BY <2>1, <2>2, <2>3, <2>4, <1>9b
<1>. QED BY <1>1, <1>5, <1>5b, <1>6, <1>7, <1>10, <1>11 DEF WritesTo

\* The FAT after a write.
Relinked(k, fat, cs, m, ext) ==
    /\ fat \in [FatCells -> FatCells]
    /\ \A j \in m .. Len(ext) - 1 : fat[ext[j]] = ext[j + 1]
    /\ m < Len(ext) => fat[ext[Len(ext)]] = EOC /\ ext[m] = cs[Len(cs)]
    /\ \A c \in FatCells : (\A j \in m .. Len(ext) : ext[j] # c) => fat[c] = k.fat[c]
    /\ m = Len(ext) => fat = k.fat

\* write_to_file links the clusters it adds to the end of the chain.
LEMMA WriteLinks ==
    ASSUME NEW k, DiskOK(k), NEW x \in Entries(k), ~k.store[x].dir,
           NEW cs, cs = Chain(k, k.store[x].first), NEW q, NEW m, NEW ext, WritesTo(k, cs, q, m, ext),
           NEW fat, fat = Linked(k, ext, m).fat
    PROVE  /\ Relinked(k, fat, cs, m, ext)
           /\ Linked(k, ext, m) = [fat |-> fat, store |-> k.store]
<1>1. DiskType(k) /\ Len(ext) \in Nat /\ m \in 1 .. Len(ext)
      /\ (\A j \in 1 .. Len(ext) : ext[j] \in Clusters)
      /\ (\A i, j \in 1 .. Len(ext) : ext[i] = ext[j] => i = j)
  BY DEF WritesTo, DiskOK
<1>2. m < Len(ext) => ext[m] = cs[Len(cs)]
  <2>1. m \in 1 .. m
    BY <1>1
  <2>. QED BY <2>1 DEF WritesTo
<1>. QED BY <1>1, <1>2, LinkedFat DEF Relinked

\* The blocks that differ are data in the clusters of ext.
Differ(k, st, ext) ==
    /\ st \in [1 .. Blocks -> BlockSet]
    /\ \A a \in 1 .. Blocks :
          \/ st[a] = k.store[a]
          \/ st[a] \in DataBlocks /\ \E j \in 1 .. Len(ext) : a \in Region(ext[j])

\* A write grows the chain of one file.
LEMMA WriteGrows ==
    ASSUME NEW k, DiskOK(k), NEW x \in Entries(k), ~k.store[x].dir,
           NEW cs, cs = Chain(k, k.store[x].first), NEW q, NEW m, NEW ext, WritesTo(k, cs, q, m, ext),
           NEW fat, Relinked(k, fat, cs, m, ext),
           NEW st, Differ(k, st, ext), NEW k2, k2 = [fat |-> fat, store |-> st]
    PROVE  \E X, N : Grown(k, k2, X, cs[Len(cs)], N)
<1>. DEFINE X == {cs[j] : j \in 1 .. Len(cs)}
            N == {ext[j] : j \in m + 1 .. Len(ext)}
            l == cs[Len(cs)]
            e == Len(ext)
<1>1. /\ fat \in [FatCells -> FatCells]
      /\ m < e => fat[ext[e]] = EOC /\ ext[m] = l
      /\ m = e => fat = k.fat
  BY DEF Relinked
<1>2. \A j \in m .. e - 1 : fat[ext[j]] = ext[j + 1]
  BY DEF Relinked
<1>3. ASSUME NEW c \in FatCells, \A j \in m .. e : ext[j] # c PROVE fat[c] = k.fat[c]
  BY <1>3 DEF Relinked
<1>4. /\ q \in Nat /\ Len(cs) \in Nat /\ e \in Nat
      /\ m \in 1 .. e /\ q + m <= Len(cs)
      /\ m < e => q + m = Len(cs)
  BY DEF WritesTo
<1>5. /\ \A j \in 1 .. m : ext[j] = cs[q + j] /\ q + j \in 1 .. Len(cs)
      /\ \A j \in m + 1 .. e : k.fat[ext[j]] = Free
      /\ \A j \in 1 .. e : ext[j] \in Clusters
  BY DEF WritesTo
<1>6. \A i, j \in 1 .. e : ext[i] = ext[j] => i = j
  BY DEF WritesTo
<1>7. /\ Len(cs) \in 1 .. Len(cs)
      /\ \A j \in 1 .. Len(cs) : cs[j] \in Clusters /\ k.fat[cs[j]] # Free
      /\ Len(cs) \in Nat
  BY EntryChain, Geometry
<1>8. k.fat[l] = EOC
  <2>. DEFINE w == Walk(k, k.store[x].first)
  <2>1. IsWalk(w, k, k.store[x].first) /\ w[Len(cs)] = EOC /\ cs[Len(cs)] = w[Len(cs) - 1]
    BY <1>7, EntryChain
  <2>2. Len(cs) - 1 \in Nat /\ w[Len(cs) - 1] \in Clusters /\ (Len(cs) - 1) + 1 = Len(cs)
    BY <1>7, <2>1
  <2>. HIDE DEF w
  <2>3. w[(Len(cs) - 1) + 1] = k.fat[w[Len(cs) - 1]]
    BY <2>1, <2>2 DEF IsWalk
  <2>. QED BY <2>1, <2>2, <2>3
<1>. HIDE DEF l, e
<1>9. X \subseteq Clusters /\ N \subseteq Clusters /\ l \in X
  <2>1. X \subseteq Clusters
    BY <1>7
  <2>2. l \in X
    BY <1>7 DEF l
  <2>3. ASSUME NEW j \in m + 1 .. e PROVE ext[j] \in Clusters
    <3>1. j \in 1 .. e
      BY <1>4
    <3>. QED BY <3>1, <1>5
  <2>. QED BY <2>1, <2>2, <2>3 DEF e
<1>10. ASSUME NEW b \in X PROVE k.fat[b] # Free /\ b \notin Dirs(k)
  <2>1. PICK j \in 1 .. Len(cs) : b = cs[j]
    OBVIOUS
  <2>. QED BY <2>1, <1>7, ChainNotDir
<1>11. \A b \in N : k.fat[b] = Free
  BY <1>5 DEF e
<1>12. DiskType(k2)
  BY <1>1 DEF DiskType, FatType, Differ
<1>13. ASSUME NEW b \in FatCells, b \notin N \cup {l} PROVE k2.fat[b] = k.fat[b]
  <2>1. CASE m = e
    BY <2>1, <1>1
  <2>2. CASE m < e
    <3>1. ASSUME NEW j \in m .. e PROVE ext[j] # b
      <4>1. CASE j = m
        BY <4>1, <2>2, <1>1, <1>13
      <4>2. CASE j \in m + 1 .. e
        BY <4>2, <1>13 DEF e
      <4>. QED BY <4>1, <4>2, <1>4
    <3>. QED BY <3>1, <1>3
  <2>. QED BY <2>1, <2>2, <1>4
<1>14. N = {} => k2.fat[l] = k.fat[l]
  <2>1. CASE m = e
    BY <2>1, <1>1
  <2>2. ASSUME m < e PROVE N # {}
    <3>1. m + 1 \in m + 1 .. e
      BY <2>2, <1>4
    <3>2. ext[m + 1] \in N
      BY <3>1 DEF e
    <3>. QED BY <3>2
  <2>3. m = e \/ m < e
    BY <1>4
  <2>. QED BY <2>1, <2>2, <2>3, Zenon
<1>15. ASSUME NEW b \in N \cup {l}, N # {} PROVE m < e /\ \E j \in m .. e : b = ext[j]
  <2>1. m < e
    BY <1>4, <1>15 DEF e
  <2>2. CASE b = l
    <3>1. m \in m .. e
      BY <1>4
    <3>. QED BY <2>1, <2>2, <3>1, <1>1
  <2>3. CASE b \in N
    <3>1. PICK j \in m + 1 .. e : b = ext[j]
      BY <2>3 DEF e
    <3>2. j \in m .. e
      BY <1>4
    <3>. QED BY <2>1, <3>1, <3>2
  <2>. QED BY <2>2, <2>3
<1>16. ASSUME NEW j \in m .. e, m < e
       PROVE  \/ j = e /\ fat[ext[j]] = EOC
              \/ j + 1 \in m + 1 .. e /\ fat[ext[j]] = ext[j + 1] /\ ext[j + 1] \in N
  <2>1. CASE j = e
    BY <2>1, <1>1, <1>16
  <2>2. CASE j # e
    <3>1. j \in m .. e - 1 /\ j + 1 \in m + 1 .. e
      BY <2>2, <1>4
    <3>2. ext[j + 1] \in N
      BY <3>1 DEF e
    <3>. QED BY <3>1, <3>2, <1>2
  <2>. QED BY <2>1, <2>2
<1>17. ASSUME N # {}, NEW b \in N \cup {l} PROVE k2.fat[b] \in N \cup {EOC}
  <2>1. PICK j \in m .. e : b = ext[j]
    BY <1>15, <1>17
  <2>2. m < e
    BY <1>15, <1>17
  <2>3. fat[ext[j]] \in N \cup {EOC}
    BY <1>16, <2>2
  <2>. QED BY <2>1, <2>3
<1>18. ASSUME NEW b \in N \cup {l}, NEW c \in N \cup {l}, k2.fat[b] \in N, k2.fat[b] = k2.fat[c]
       PROVE  b = c
  <2>1. N # {} /\ k2.fat = fat
    BY <1>18
  <2>2. m < e
    BY <2>1, <1>15
  <2>3. PICK i \in m .. e : b = ext[i]
    BY <2>1, <1>15
  <2>4. PICK j \in m .. e : c = ext[j]
    BY <2>1, <1>15
  <2>5. EOC \notin N
    BY <1>9, Cells
  <2>6. i + 1 \in m + 1 .. e /\ fat[ext[i]] = ext[i + 1]
    BY <1>16, <1>18, <2>1, <2>2, <2>3, <2>5
  <2>7. j + 1 \in m + 1 .. e /\ fat[ext[j]] = ext[j + 1]
    BY <1>16, <1>18, <2>1, <2>2, <2>4, <2>5
  <2>8. i + 1 \in 1 .. e /\ j + 1 \in 1 .. e
    BY <2>6, <2>7, <1>4
  <2>9. ext[i + 1] = ext[j + 1]
    BY <1>18, <2>1, <2>3, <2>4, <2>6, <2>7
  <2>10. i + 1 = j + 1
    BY <1>6, <2>8, <2>9
  <2>11. i = j
    BY <2>10, <1>4
  <2>. QED BY <2>3, <2>4, <2>11
<1>19. ASSUME NEW a \in 1 .. Blocks
       PROVE  \/ k2.store[a] = k.store[a]
              \/ k2.store[a] \in DataBlocks /\ \E b \in X \cup N : a \in Region(b)
  <2>1. CASE st[a] = k.store[a]
    BY <2>1
  <2>2. CASE st[a] \in DataBlocks /\ \E j \in 1 .. e : a \in Region(ext[j])
    <3>1. PICK j \in 1 .. e : a \in Region(ext[j])
      BY <2>2
    <3>2. CASE j \in 1 .. m
      <4>1. ext[j] \in X
        BY <3>2, <1>5
      <4>. QED BY <4>1, <3>1, <2>2
    <3>3. CASE j \in m + 1 .. e
      <4>1. ext[j] \in N
        BY <3>3 DEF e
      <4>. QED BY <4>1, <3>1, <2>2
    <3>. QED BY <3>2, <3>3, <1>4
  <2>. QED BY <2>1, <2>2 DEF e, Differ
<1>20. N # {} => k.fat[l] = EOC /\ \A b \in N \cup {l} : k2.fat[b] \in N \cup {EOC}
  BY <1>8, <1>17
<1>. HIDE DEF X, N
<1>21. Grown(k, k2, X, l, N)
  BY <1>9, <1>10, <1>11, <1>12, <1>13, <1>14, <1>20, <1>18, <1>19 DEF Grown
<1>22. Grown(k, k2, X, cs[Len(cs)], N)
  BY <1>21 DEF l
<1>. HIDE DEF X, N
<1>. QED BY <1>22

\* The chain cs followed by the clusters of ext from the one after m on.
Lengthened(cs2, cs, q, m, ext) ==
    /\ Len(cs2) \in Nat /\ Len(cs2) = Len(cs) + (Len(ext) - m)
    /\ \A i \in 1 .. Len(cs) : cs2[i] = cs[i]
    /\ \A j \in m + 1 .. Len(ext) : cs2[Len(cs) + (j - m)] = ext[j]
    /\ \A j \in 1 .. Len(ext) : ext[j] = cs2[q + j]

\* A write leaves the chain with the clusters that were added at its end.
LEMMA WriteChain ==
    ASSUME NEW k, DiskOK(k), NEW x \in Entries(k), ~k.store[x].dir,
           NEW first, first = k.store[x].first,
           NEW cs, cs = Chain(k, first), NEW q, NEW m, NEW ext, WritesTo(k, cs, q, m, ext),
           NEW k2, Relinked(k, k2.fat, cs, m, ext), DiskOK(k2), x \in Entries(k2),
           k2.store[x].first = first, NEW cs2, cs2 = Chain(k2, first)
    PROVE  Lengthened(cs2, cs, q, m, ext)
<1>. DEFINE L == Len(cs)
            e == Len(ext)
            t == e - m
            fat == k2.fat
            w == Walk(k, first)
            v == [i \in Nat |-> IF i < L THEN cs[i + 1]
                                ELSE IF i < L + t THEN ext[m + 1 + (i - L)] ELSE EOC]
<1>1. /\ fat \in [FatCells -> FatCells]
      /\ m < e => fat[ext[e]] = EOC /\ ext[m] = cs[L]
      /\ m = e => fat = k.fat
  BY DEF Relinked
<1>2. \A j \in m .. e - 1 : fat[ext[j]] = ext[j + 1]
  BY DEF Relinked
<1>3. ASSUME NEW c \in FatCells, \A j \in m .. e : ext[j] # c PROVE fat[c] = k.fat[c]
  BY <1>3 DEF Relinked
<1>4. /\ q \in Nat /\ L \in Nat /\ e \in Nat
      /\ m \in 1 .. e /\ q + m <= L /\ m \in Nat
      /\ m < e => q + m = L
  BY DEF WritesTo
<1>5. /\ \A j \in 1 .. m : ext[j] = cs[q + j] /\ q + j \in 1 .. L
      /\ \A j \in m + 1 .. e : k.fat[ext[j]] = Free
      /\ \A j \in 1 .. e : ext[j] \in Clusters
  BY DEF WritesTo
<1>6. /\ IsWalk(w, k, first) /\ first \in Clusters /\ L \in 1 .. LastCluster - 1
      /\ w[L] = EOC /\ cs[1] = first
  BY EntryChain
<1>7. \A j \in 1 .. L : cs[j] = w[j - 1] /\ cs[j] \in Clusters /\ k.fat[cs[j]] # Free
  BY EntryChain
<1>8. \A i, j \in 1 .. L : cs[i] = cs[j] => i = j
  BY ChainsApart
<1>. HIDE DEF L, e, w, fat
<1>9. t \in Nat /\ e = m + t /\ (t = 0 <=> m = e)
  BY <1>4
<1>. HIDE DEF t
<1>10. ASSUME NEW i \in Nat, i < L PROVE cs[i + 1] = w[i] /\ cs[i + 1] \in Clusters /\ i + 1 \in 1 .. L
                                         /\ k.fat[cs[i + 1]] # Free /\ k.fat[cs[i + 1]] = w[i + 1]
  <2>1. i + 1 \in 1 .. L /\ (i + 1) - 1 = i
    BY <1>10, <1>4
  <2>2. cs[i + 1] = w[i] /\ cs[i + 1] \in Clusters /\ k.fat[cs[i + 1]] # Free
    BY <1>7, <2>1
  <2>3. w[i + 1] = k.fat[w[i]]
    BY <1>6, <2>2 DEF IsWalk
  <2>. QED BY <2>1, <2>2, <2>3
<1>11. ASSUME NEW i \in Nat, L <= i, i < L + t
       PROVE  m + 1 + (i - L) \in m + 1 .. e /\ ext[m + 1 + (i - L)] \in Clusters
  <2>1. m + 1 + (i - L) \in m + 1 .. e /\ m + 1 + (i - L) \in 1 .. e
    BY <1>4, <1>9, <1>11
  <2>. QED BY <2>1, <1>5
<1>12. ASSUME NEW i \in Nat, i + 1 < L PROVE fat[cs[i + 1]] = k.fat[cs[i + 1]]
  <2>1. CASE m = e
    BY <2>1, <1>1
  <2>2. CASE m < e
    <3>0. i < L /\ i + 1 \in 1 .. L /\ L \in 1 .. L
      BY <1>12, <1>4
    <3>1. ASSUME NEW j \in m .. e PROVE ext[j] # cs[i + 1]
      <4>1. CASE j = m
        <5>1. ext[j] = cs[L]
          BY <4>1, <2>2, <1>1
        <5>2. cs[L] = cs[i + 1] => L = i + 1
          BY <3>0, <1>8
        <5>. QED BY <5>1, <5>2, <1>12
      <4>2. CASE j \in m + 1 .. e
        <5>1. k.fat[ext[j]] = Free
          BY <4>2, <1>5
        <5>. QED BY <5>1, <3>0, <1>10
      <4>. QED BY <4>1, <4>2, <1>4
    <3>2. cs[i + 1] \in FatCells
      BY <3>0, <1>10, Cells
    <3>. QED BY <3>1, <3>2, <1>3
  <2>. QED BY <2>1, <2>2, <1>4
<1>13. ASSUME NEW i \in Nat
       PROVE  /\ i < L => v[i] = cs[i + 1]
              /\ L <= i /\ i < L + t => v[i] = ext[m + 1 + (i - L)]
              /\ L + t <= i => v[i] = EOC
  BY <1>4, <1>9
<1>14. v \in [Nat -> FatCells]
  <2>1. ASSUME NEW i \in Nat PROVE v[i] \in FatCells
    <3>1. i < L \/ (L <= i /\ i < L + t) \/ L + t <= i
      BY <1>4, <1>9
    <3>. HIDE DEF v
    <3>. QED BY <3>1, <1>10, <1>11, <1>13, Cells
  <2>. QED BY <2>1
<1>15. v[0] = first
  BY <1>6, <1>4, <1>9
<1>. HIDE DEF v
<1>16. ASSUME NEW i \in Nat, v[i] \in Clusters PROVE v[i + 1] = fat[v[i]]
  <2>0. i + 1 \in Nat
    OBVIOUS
  <2>1. CASE i + 1 < L
    <3>1. i < L
      BY <2>1, <1>4
    <3>2. v[i] = cs[i + 1] /\ v[i + 1] = cs[(i + 1) + 1]
      BY <2>0, <2>1, <3>1, <1>13
    <3>3. cs[(i + 1) + 1] = w[i + 1]
      BY <2>0, <2>1, <1>10
    <3>4. k.fat[cs[i + 1]] = w[i + 1]
      BY <3>1, <1>10
    <3>. QED BY <3>2, <3>3, <3>4, <2>1, <1>12
  <2>2. CASE i + 1 = L
    <3>1. i < L
      BY <2>2, <1>4
    <3>2. v[i] = cs[L]
      BY <3>1, <2>2, <1>13
    <3>3. CASE t = 0
      <4>1. v[i + 1] = EOC
        BY <3>3, <2>0, <2>2, <1>4, <1>13
      <4>2. k.fat[cs[L]] = w[L]
        BY <3>1, <2>2, <1>10
      <4>. QED BY <4>1, <4>2, <3>2, <3>3, <1>1, <1>6, <1>9
    <3>4. CASE t # 0
      <4>1. L <= i + 1 /\ i + 1 < L + t /\ m + 1 + ((i + 1) - L) = m + 1 /\ m < e /\ m \in m .. e - 1
        BY <3>4, <2>2, <1>4, <1>9
      <4>2. v[i + 1] = ext[m + 1]
        BY <2>0, <4>1, <1>13
      <4>. QED BY <3>2, <4>1, <4>2, <1>1, <1>2
    <3>. QED BY <3>3, <3>4
  <2>3. CASE L < i + 1 /\ i + 1 < L + t
    <3>1. L <= i /\ i < L + t /\ L <= i + 1
      BY <2>3, <1>4, <1>9
    <3>. DEFINE j == m + 1 + (i - L)
    <3>2. v[i] = ext[j]
      BY <3>1, <1>13
    <3>3. v[i + 1] = ext[m + 1 + ((i + 1) - L)]
      BY <2>0, <2>3, <3>1, <1>13
    <3>4. j \in m .. e - 1 /\ m + 1 + ((i + 1) - L) = j + 1
      BY <2>3, <3>1, <1>4, <1>9
    <3>. HIDE DEF j
    <3>. QED BY <3>2, <3>3, <3>4, <1>2
  <2>4. CASE L < i + 1 /\ i + 1 = L + t
    <3>1. L <= i /\ i < L + t /\ m + 1 + (i - L) = e /\ m < e
      BY <2>4, <1>4, <1>9
    <3>2. v[i] = ext[e]
      BY <3>1, <1>13
    <3>3. v[i + 1] = EOC
      BY <2>0, <2>4, <1>4, <1>9, <1>13
    <3>. QED BY <3>1, <3>2, <3>3, <1>1
  <2>5. CASE L + t < i + 1
    <3>1. L + t <= i
      BY <2>5, <1>4, <1>9
    <3>2. v[i] = EOC
      BY <3>1, <1>13
    <3>. QED BY <3>2, <1>16, Cells
  <2>. QED BY <2>1, <2>2, <2>3, <2>4, <2>5, <1>4, <1>9
<1>17. ASSUME NEW i \in Nat, v[i] \notin Clusters PROVE v[i + 1] = v[i]
  <2>1. ~(i < L)
    BY <1>10, <1>13, <1>17
  <2>2. ~(L <= i /\ i < L + t)
    BY <1>11, <1>13, <1>17
  <2>3. L + t <= i /\ L + t <= i + 1 /\ i + 1 \in Nat
    BY <2>1, <2>2, <1>4, <1>9
  <2>. QED BY <2>3, <1>13
<1>18. IsWalk(v, k2, first)
  BY <1>14, <1>15, <1>16, <1>17 DEF IsWalk, fat
<1>. DEFINE w2 == Walk(k2, first)
            n == Len(cs2)
<1>19. IsWalk(w2, k2, first) /\ n \in Nat /\ n >= 1
  BY EntryChain, Geometry
<1>20. \A i \in 1 .. n : cs2[i] = w2[i - 1]
  BY EntryChain
<1>21. \A i \in Nat : w2[i] \in Clusters <=> i < n
  BY <1>19, WalkInChain
<1>. HIDE DEF w2, n
<1>22. w2 = v
  BY <1>18, <1>19, WalkUnique
<1>23. n = L + t
  <2>1. L + t \in Nat /\ v[L + t] = EOC
    BY <1>4, <1>9, <1>13
  <2>2. ~(L + t < n)
    BY <2>1, <1>21, <1>22, Cells
  <2>3. L + t - 1 \in Nat /\ L >= 1
    BY <1>4, <1>6, <1>9
  <2>4. v[L + t - 1] \in Clusters
    <3>1. CASE t = 0
      <4>1. L + t - 1 < L
        BY <3>1, <1>4
      <4>. QED BY <4>1, <2>3, <1>10, <1>13
    <3>2. CASE t # 0
      <4>1. L <= L + t - 1 /\ L + t - 1 < L + t
        BY <3>2, <1>4, <1>9
      <4>. QED BY <4>1, <2>3, <1>11, <1>13
    <3>. QED BY <3>1, <3>2
  <2>5. L + t - 1 < n
    BY <2>3, <2>4, <1>21, <1>22
  <2>. QED BY <2>2, <2>5, <1>4, <1>9, <1>19
<1>24. ASSUME NEW i \in 1 .. L PROVE cs2[i] = cs[i]
  <2>1. i \in 1 .. n /\ i - 1 \in Nat /\ i - 1 < L /\ (i - 1) + 1 = i
    BY <1>23, <1>4, <1>9
  <2>. QED BY <2>1, <1>13, <1>20, <1>22
<1>25. ASSUME NEW j \in m + 1 .. e PROVE cs2[L + (j - m)] = ext[j]
  <2>. DEFINE i == L + (j - m) - 1
  <2>1. L + (j - m) \in 1 .. n /\ (L + (j - m)) - 1 = i /\ i \in Nat /\ L <= i /\ i < L + t
        /\ m + 1 + (i - L) = j
    BY <1>23, <1>4, <1>9
  <2>. HIDE DEF i
  <2>2. cs2[L + (j - m)] = w2[i]
    BY <2>1, <1>20
  <2>3. v[i] = ext[j]
    BY <2>1, <1>13
  <2>. QED BY <2>2, <2>3, <1>22
<1>26. ASSUME NEW j \in 1 .. e PROVE ext[j] = cs2[q + j]
  <2>1. CASE j \in 1 .. m
    BY <2>1, <1>5, <1>24
  <2>2. CASE j \in m + 1 .. e
    <3>1. L + (j - m) = q + j
      BY <2>2, <1>4
    <3>. QED BY <3>1, <2>2, <1>25
  <2>. QED BY <2>1, <2>2, <1>4
<1>27. Len(cs2) = Len(cs) + (Len(ext) - m) /\ Len(cs2) \in Nat
  BY <1>19, <1>23 DEF n, L, t, e
<1>. QED BY <1>24, <1>25, <1>26, <1>27 DEF Lengthened, L, e

\* What the callers write.
LEMMA BufferType ==
    ASSUME NEW buf \in Buffers
    PROVE  /\ Len(buf) \in Nat /\ Len(buf) >= 1 /\ Len(buf) <= MaxWrite
           /\ \A i \in 1 .. Len(buf) : buf[i] \in DataBlocks
<1>1. PICK n \in 1 .. MaxWrite, d \in Data : buf = [i \in 1 .. n |-> Block(d, i)]
  BY DEF Buffers
<1>2. n \in Nat /\ n >= 1 /\ n <= MaxWrite
  BY Geometry
<1>3. Len(buf) = n
  BY <1>1, <1>2
<1>4. ASSUME NEW i \in 1 .. n PROVE buf[i] \in DataBlocks
  <2>1. buf[i] = Block(d, i) /\ i \in 1 .. MaxWrite
    BY <1>1, <1>2, Geometry
  <2>. QED BY <2>1 DEF DataBlocks
<1>. QED BY <1>2, <1>3, <1>4

\* A block of the lengthened chain is a written one, one of the old chain or an
\* empty one.
Filled(k, k2, cs, cs2, o, buf, n) ==
    \A i \in 1 .. Len(cs2) * SlotsPerCluster :
        /\ i \in o + 1 .. o + n => k2.store[AddressAt(cs2, i)] = buf[i - o]
        /\ i \notin o + 1 .. o + n /\ i <= Len(cs) * SlotsPerCluster =>
              k2.store[AddressAt(cs2, i)] = k.store[AddressAt(cs, i)]
        /\ i \notin o + 1 .. o + n /\ ~(i <= Len(cs) * SlotsPerCluster) =>
              k2.store[AddressAt(cs2, i)] = Zero

\* The chain of the entry at y, and what is in it, are the same.
SameFile(k, k2, y) ==
    LET cs == Chain(k, k.store[y].first)
    IN  /\ Chain(k2, k.store[y].first) = cs
        /\ \A i \in 1 .. Len(cs) * SlotsPerCluster :
              k2.store[AddressAt(cs, i)] = k.store[AddressAt(cs, i)]

\* Blocks that were not in a chain before, and those that were.
LEMMA WriteFills ==
    ASSUME NEW k, DiskOK(k), NEW x \in Entries(k), ~k.store[x].dir,
           NEW first, first = k.store[x].first,
           NEW cs, cs = Chain(k, first), NEW o \in Nat, NEW q, q = o \div SlotsPerCluster,
           NEW m, NEW ext, WritesTo(k, cs, q, m, ext),
           NEW k2, Relinked(k, k2.fat, cs, m, ext), DiskOK(k2), x \in Entries(k2),
           k2.store[x].first = first, NEW cs2, cs2 = Chain(k2, first),
           NEW n \in Nat, n >= 1, InCluster(o) + n <= Len(ext) * SlotsPerCluster, NEW buf,
           Stored(k.store, k2.store, ext, InCluster(o), buf, n)
    PROVE  /\ Filled(k, k2, cs, cs2, o, buf, n)
           /\ Len(cs) \in Nat /\ Len(cs2) \in Nat /\ Len(cs) <= Len(cs2)
           /\ o + n <= Len(cs2) * SlotsPerCluster
<1>. DEFINE S == SlotsPerCluster
            r == InCluster(o)
            L == Len(cs)
            e == Len(ext)
            n2 == Len(cs2)
<1>1. Lengthened(cs2, cs, q, m, ext)
  BY WriteChain
<1>2. /\ q \in Nat /\ L \in Nat /\ e \in Nat
      /\ m \in 1 .. e /\ q + m <= L /\ m \in Nat
      /\ m < e => q + m = L
  BY DEF WritesTo
<1>3. \A j \in m + 1 .. e : k.fat[ext[j]] = Free /\ ext[j] \in Clusters
  BY <1>2 DEF WritesTo
<1>4. n2 \in Nat /\ n2 = L + (e - m) /\ q + e <= n2 /\ L <= n2
  BY <1>1, <1>2 DEF Lengthened
<1>5. \A i \in 1 .. L : cs2[i] = cs[i]
  BY <1>1 DEF Lengthened
<1>6. \A j \in m + 1 .. e : cs2[L + (j - m)] = ext[j]
  BY <1>1 DEF Lengthened
<1>7. \A j \in 1 .. e : ext[j] = cs2[q + j]
  BY <1>1 DEF Lengthened
<1>8. \A j \in 1 .. n2 : cs2[j] \in Clusters
  BY EntryChain
<1>9. \A i, j \in 1 .. n2 : cs2[i] = cs2[j] => i = j
  BY ChainsApart
<1>9a. DistinctList(cs2, n2)
  BY <1>4, <1>8, <1>9 DEF DistinctList, ClusterList
<1>10. o = q * S + r /\ r \in Nat /\ S \in Nat /\ S >= 1
  <2>1. S \in Nat /\ S >= 1
    BY Geometry
  <2>2. o = q * S + r /\ r \in 0 .. S - 1
    BY Division DEF InCluster
  <2>3. r \in Nat
    BY <2>1, <2>2
  <2>. QED BY <2>1, <2>2, <2>3
<1>. HIDE DEF L, e, n2, r, S
<1>11. o + n <= n2 * S
  <2>1. r + n <= e * S
    BY DEF r, e, S
  <2>2. (q + e) * S = q * S + e * S /\ (q + e) * S <= n2 * S
    <3>1. ASSUME NEW a \in Nat, NEW b \in Nat, NEW s \in Nat PROVE (a + b) * s = a * s + b * s
      OBVIOUS
    <3>2. ASSUME NEW a \in Nat, NEW b \in Nat, a <= b, NEW s \in Nat PROVE a * s <= b * s
      BY Product, <3>2
    <3>3. q + e \in Nat
      BY <1>2
    <3>4. (q + e) * S = q * S + e * S
      BY <3>1, <1>2, <1>10
    <3>5. (q + e) * S <= n2 * S
      BY <3>2, <3>3, <1>4, <1>10
    <3>. QED BY <3>4, <3>5
  <2>. DEFINE y == (q + e) * S
              y1 == q * S
              y2 == e * S
              y3 == n2 * S
  <2>3. y \in Int /\ y1 \in Int /\ y2 \in Int /\ y3 \in Int
    <3>1. ASSUME NEW a \in Nat, NEW b \in Nat PROVE a * b \in Int
      OBVIOUS
    <3>2. q + e \in Nat
      BY <1>2
    <3>. QED BY <3>1, <3>2, <1>2, <1>4, <1>10
  <2>4. o = y1 + r /\ r + n <= y2 /\ y = y1 + y2 /\ y <= y3
    BY <2>1, <2>2, <1>10
  <2>. HIDE DEF y, y1, y2, y3
  <2>5. o + n <= y3
    BY <2>3, <2>4, <1>10
  <2>. QED BY <2>5 DEF y3
<1>12. ASSUME NEW j \in 1 .. n PROVE AddressAt(ext, r + j) = AddressAt(cs2, o + j)
  <2>1. PartOf(ext, cs2, o \div SlotsPerCluster)
    BY <1>7 DEF PartOf, e
  <2>2. j \in Nat /\ j >= 1
    OBVIOUS
  <2>3. InCluster(o) + j <= e * SlotsPerCluster
    <3>. DEFINE y == e * SlotsPerCluster
    <3>1. y \in Int /\ r + n <= y
      BY <1>2, Geometry DEF r, e
    <3>. HIDE DEF y
    <3>2. r + j <= y
      BY <3>1, <1>10
    <3>. QED BY <3>2 DEF y, r
  <2>4. AddressAt(ext, InCluster(o) + j) = AddressAt(cs2, o + j)
    BY <2>1, <2>2, <2>3, <1>2, AddressShift DEF e
  <2>. QED BY <2>4 DEF r
<1>. SUFFICES ASSUME NEW i \in 1 .. n2 * S
              PROVE  /\ i \in o + 1 .. o + n => k2.store[AddressAt(cs2, i)] = buf[i - o]
                     /\ i \notin o + 1 .. o + n /\ i <= L * S =>
                           k2.store[AddressAt(cs2, i)] = k.store[AddressAt(cs, i)]
                     /\ i \notin o + 1 .. o + n /\ ~(i <= L * S) => k2.store[AddressAt(cs2, i)] = Zero
  BY <1>2, <1>4, <1>11 DEF Filled, n2, S, L
<1>13. i \in 1 .. n2 * SlotsPerCluster /\ i \in Nat
  BY <1>4, Geometry DEF S
<1>14. CASE i \in o + 1 .. o + n
  <2>. DEFINE j == i - o
  <2>1. j \in 1 .. n /\ o + j = i
    BY <1>14
  <2>. HIDE DEF j
  <2>2. k2.store[AddressAt(ext, r + j)] = buf[j]
    BY <2>1 DEF r, Stored
  <2>3. k2.store[AddressAt(cs2, i)] = buf[j]
    BY <2>1, <2>2, <1>12
  <2>. QED BY <1>14, <2>3 DEF j
<1>15. CASE i \notin o + 1 .. o + n
  <2>. DEFINE a == AddressAt(cs2, i)
              c == ClusterIndex(i)
  <2>1. a \in 1 .. Blocks /\ a = BlockOf(cs2[c], InClusterIndex(i)) /\ a \in Region(cs2[c])
    BY <1>4, <1>8, <1>13, AddressIn
  <2>2. c \in 1 .. n2 /\ InClusterIndex(i) \in 1 .. S /\ i = (c - 1) * S + InClusterIndex(i)
    BY <1>4, <1>13, PositionType DEF S
  <2>3. AddressAt(cs, i) = BlockOf(cs[c], InClusterIndex(i))
    BY DEF AddressAt, ClusterIndex, InClusterIndex
  <2>4. ASSUME NEW j \in 1 .. n PROVE AddressAt(ext, r + j) # a
    <3>1. o + j \in 1 .. n2 * SlotsPerCluster /\ o + j \in o + 1 .. o + n
      <4>. DEFINE y == n2 * SlotsPerCluster
      <4>1. y \in Int /\ o + n <= y
        BY <1>4, <1>11, Geometry DEF S
      <4>. HIDE DEF y
      <4>2. o + j \in 1 .. y /\ o + j \in o + 1 .. o + n
        BY <4>1
      <4>. QED BY <4>2 DEF y
    <3>0. ASSUME NEW u \in 1 .. n2 * SlotsPerCluster, AddressAt(cs2, u) = AddressAt(cs2, i)
          PROVE  u = i
      BY <3>0, <1>9a, <1>13, PositionUnique
    <3>2. AddressAt(cs2, o + j) = a => o + j = i
      BY <3>0, <3>1
    <3>. QED BY <3>1, <3>2, <1>12, <1>15
  <2>. HIDE DEF a, c
  <2>5. k2.store[a] = k.store[a]
    BY <2>1, <2>4 DEF r, Stored
  <2>6. CASE c <= L
    <3>1. cs2[c] = cs[c]
      BY <2>2, <2>6, <1>2, <1>5
    <3>2. (c - 1) * S + S <= L * S
      BY <2>2, <2>6, <1>2, <1>10, Product
    <3>3. i <= L * S
      <4>. DEFINE y == (c - 1) * S
                  z == L * S
      <4>1. y \in Int /\ z \in Int /\ y + S <= z /\ i = y + InClusterIndex(i)
        BY <1>2, <1>10, <2>2, <3>2
      <4>. HIDE DEF y, z
      <4>2. i <= z
        BY <4>1, <2>2, <1>10
      <4>. QED BY <4>2 DEF z
    <3>. QED BY <1>15, <2>1, <2>3, <2>5, <3>1, <3>3 DEF a
  <2>7. CASE ~(c <= L)
    <3>1. ~(i <= L * S)
      <4>1. L * S + S <= c * S
        BY <2>2, <2>7, <1>2, <1>10, Product
      <4>2. (c - 1) * S + S = c * S
        <5>1. ASSUME NEW u \in Nat, u >= 1, NEW s \in Nat PROVE (u - 1) * s + s = u * s
          BY <5>1
        <5>2. c \in Nat /\ c >= 1
          BY <2>2, <1>4
        <5>. QED BY <5>1, <5>2, <1>10
      <4>. DEFINE y == (c - 1) * S
                  y1 == c * S
                  z == L * S
      <4>3. y \in Int /\ z \in Int /\ y1 \in Int /\ z + S <= y1 /\ y + S = y1
            /\ i = y + InClusterIndex(i)
        BY <1>2, <1>10, <2>2, <4>1, <4>2
      <4>. HIDE DEF y, y1, z
      <4>4. ~(i <= z)
        BY <4>3, <2>2, <1>10
      <4>. QED BY <4>4 DEF z
    <3>. DEFINE j == m + (c - L)
    <3>2. j \in m + 1 .. e /\ L + (j - m) = c
      BY <2>2, <2>7, <1>2, <1>4
    <3>. HIDE DEF j
    <3>3. cs2[c] = ext[j] /\ k.fat[ext[j]] = Free /\ ext[j] \in Clusters
      BY <3>2, <1>3, <1>6
    <3>4. k.store[a] = Zero
      BY <2>1, <3>3 DEF DiskOK, FreeOK
    <3>. QED BY <1>15, <2>5, <3>1, <3>4 DEF a
  <2>. QED BY <2>6, <2>7
<1>. QED BY <1>14, <1>15

\* A write leaves the other files alone.
LEMMA WriteSpares ==
    ASSUME NEW k, DiskOK(k), NEW x \in Entries(k), ~k.store[x].dir,
           NEW cs, cs = Chain(k, k.store[x].first), NEW q, NEW m, NEW ext, WritesTo(k, cs, q, m, ext),
           NEW k2, Relinked(k, k2.fat, cs, m, ext),
           NEW r \in Nat, NEW n \in Nat, r + n <= Len(ext) * SlotsPerCluster, NEW buf,
           Stored(k.store, k2.store, ext, r, buf, n),
           NEW y \in Entries(k), y # x
    PROVE  SameFile(k, k2, y)
<1>. DEFINE ds == Chain(k, k.store[y].first)
            e == Len(ext)
<1>1. /\ q \in Nat /\ Len(cs) \in Nat /\ e \in Nat
      /\ m \in 1 .. e /\ q + m <= Len(cs) /\ m \in Nat
  BY DEF WritesTo
<1>2. /\ \A j \in 1 .. m : ext[j] = cs[q + j] /\ q + j \in 1 .. Len(cs)
      /\ \A j \in m + 1 .. e : k.fat[ext[j]] = Free
  BY DEF WritesTo
<1>2a. \A j \in 1 .. e : ext[j] \in Clusters
  BY DEF WritesTo
<1>3. Len(ds) \in Nat /\ \A i \in 1 .. Len(ds) : ds[i] \in Clusters /\ k.fat[ds[i]] # Free
  BY EntryChain
<1>4. ASSUME NEW i \in 1 .. Len(cs), NEW j \in 1 .. Len(ds) PROVE cs[i] # ds[j]
  BY ChainsApart
<1>. HIDE DEF ds, e
<1>5. ASSUME NEW j \in 1 .. e, NEW i \in 1 .. Len(ds) PROVE ext[j] # ds[i]
  <2>1. CASE j \in 1 .. m
    BY <2>1, <1>2, <1>4
  <2>2. CASE j \in m + 1 .. e
    BY <2>2, <1>2, <1>3
  <2>. QED BY <2>1, <2>2, <1>1
<1>6. FatType(k2)
  BY DEF Relinked, FatType
<1>7. ASSUME NEW i \in 1 .. Len(ds) PROVE k2.fat[ds[i]] = k.fat[ds[i]]
  <2>1. ds[i] \in FatCells
    BY <1>3, Cells
  <2>2. \A j \in m .. e : ext[j] # ds[i]
    <3>1. \A j \in m .. e : j \in 1 .. e
      BY <1>1
    <3>. QED BY <3>1, <1>5
  <2>. QED BY <2>1, <2>2 DEF Relinked, e
<1>8. Chain(k2, k.store[y].first) = ds
  BY <1>6, <1>7, ChainFrame DEF ds
<1>9. ASSUME NEW i \in 1 .. Len(ds) * SlotsPerCluster
      PROVE  k2.store[AddressAt(ds, i)] = k.store[AddressAt(ds, i)]
  <2>1. AddressAt(ds, i) \in 1 .. Blocks /\ ClusterIndex(i) \in 1 .. Len(ds)
    BY <1>3, AddressIn
  <2>2. ASSUME NEW j \in 1 .. n PROVE AddressAt(ext, r + j) # AddressAt(ds, i)
    <3>1. r + j \in 1 .. e * SlotsPerCluster
      <4>. DEFINE z == e * SlotsPerCluster
      <4>1. z \in Int /\ r + n <= z
        BY <1>1, Geometry DEF e
      <4>. HIDE DEF z
      <4>2. r + j \in 1 .. z
        BY <4>1
      <4>. QED BY <4>2 DEF z
    <3>2. ClusterIndex(r + j) \in 1 .. e
      BY <3>1, <1>1, PositionType
    <3>3. ext[ClusterIndex(r + j)] # ds[ClusterIndex(i)]
      BY <3>2, <2>1, <1>5
    <3>4. ASSUME NEW u \in 1 .. e * SlotsPerCluster, AddressAt(ext, u) = AddressAt(ds, i)
          PROVE  ext[ClusterIndex(u)] = ds[ClusterIndex(i)]
      <4>1. ClusterList(ext, e) /\ ClusterList(ds, Len(ds))
        BY <1>1, <1>2a, <1>3 DEF ClusterList
      <4>. QED BY <3>4, <4>1, AddressApart
    <3>. QED BY <3>1, <3>3, <3>4
  <2>. QED BY <2>1, <2>2 DEF Stored
<1>. QED BY <1>8, <1>9 DEF SameFile, ds

\* k2 is k after n blocks of buf were written to the file at x, from offset o on.
Written(k, k2, x, o, buf, n) ==
    LET cs  == Chain(k, k.store[x].first)
        cs2 == Chain(k2, k.store[x].first)
    IN  /\ DiskOK(k2) /\ DirsGrow(k, k2, Free) /\ Entries(k2) = Entries(k)
        /\ \A a \in Entries(k) : k2.store[a] = k.store[a]
        /\ n \in 1 .. Len(buf)
        /\ Len(cs) \in Nat /\ Len(cs2) \in Nat /\ Len(cs) <= Len(cs2)
        /\ o + n <= Len(cs2) * SlotsPerCluster
        /\ Filled(k, k2, cs, cs2, o, buf, n)
        /\ \A y \in Entries(k) : y # x => SameFile(k, k2, y)

\* The disk that write_to_file leaves.
LEMMA WriteDisk ==
    ASSUME NEW k, DiskType(k), NEW first, NEW o, NEW buf, NEW old, NEW ext, NEW n, NEW fat,
           old = Covered(k, first, o, Len(buf)),
           ext = Extended(k, old, Needed(o, Len(buf)) - Len(old)),
           n = Fitting(ext, o, Len(buf)),
           Linked(k, ext, Len(old)) = [fat |-> fat, store |-> k.store]
    PROVE  /\ write_to_file(k, first, o, buf).n = n
           /\ write_to_file(k, first, o, buf).disk =
                 [fat |-> fat, store |-> Patched(k.store, ext, InCluster(o), buf, n)]
<1>. DEFINE G(s) == [a \in DOMAIN s |->
                        IF \E i \in 1 .. n : AddressAt(ext, InCluster(o) + i) = a
                        THEN buf[CHOOSE i \in 1 .. n : AddressAt(ext, InCluster(o) + i) = a]
                        ELSE s[a]]
<1>1. G(k.store) = Patched(k.store, ext, InCluster(o), buf, n)
  <2>1. DOMAIN k.store = 1 .. Blocks
    BY DEF DiskType
  <2>. QED BY <2>1 DEF Patched
<1>2. write_to_file(k, first, o, buf).disk = [Linked(k, ext, Len(old)) EXCEPT !.store = G(@)]
  BY DEF write_to_file
<1>3. write_to_file(k, first, o, buf).n = n
  BY DEF write_to_file
<1>. HIDE DEF G
<1>4. ASSUME NEW s PROVE [[fat |-> fat, store |-> s] EXCEPT !.store = G(@)]
                         = [fat |-> fat, store |-> G(s)]
  OBVIOUS
<1>. QED BY <1>1, <1>2, <1>3, <1>4

\* write_to_file writes to the file it is told to, where it is told to.
LEMMA WriteStep ==
    ASSUME NEW k, DiskOK(k), NEW x \in Entries(k), ~k.store[x].dir,
           NEW first, first = k.store[x].first, NEW o \in Nat, NEW buf \in Buffers,
           ClusterAt(k, first, o) \in Clusters,
           NEW k2, k2 = write_to_file(k, first, o, buf).disk
    PROVE  Written(k, k2, x, o, buf, write_to_file(k, first, o, buf).n)
<1>. DEFINE nb == Len(buf)
            cs == Chain(k, first)
            cs2 == Chain(k2, first)
            q == o \div SlotsPerCluster
            old == Covered(k, first, o, nb)
            m == Len(old)
            ext == Extended(k, old, Needed(o, nb) - Len(old))
            n == Fitting(ext, o, nb)
            fat == Linked(k, ext, m).fat
            r == InCluster(o)
            st == Patched(k.store, ext, r, buf, n)
<1>1. nb \in Nat /\ nb >= 1 /\ \A i \in 1 .. nb : buf[i] \in DataBlocks
  BY BufferType
<1>. HIDE DEF nb
<1>2. WritesTo(k, cs, q, m, ext)
  BY <1>1, WriteClusters
<1>. HIDE DEF old, ext
<1>3. Relinked(k, fat, cs, m, ext) /\ Linked(k, ext, m) = [fat |-> fat, store |-> k.store]
  BY <1>2, WriteLinks
<1>4. DiskType(k) /\ k.store \in [1 .. Blocks -> BlockSet]
  BY DEF DiskOK, DiskType
<1>5. write_to_file(k, first, o, buf).n = n /\ k2 = [fat |-> fat, store |-> st]
  BY <1>3, <1>4, WriteDisk DEF old, ext, nb
<1>6. Len(ext) \in Nat /\ Len(ext) >= 1 /\ m \in 1 .. Len(ext)
  BY <1>2 DEF WritesTo
<1>7. n \in 1 .. nb /\ r + n <= Len(ext) * SlotsPerCluster
  BY <1>1, <1>6, FittingType
<1>. HIDE DEF n
<1>8. n \in Nat /\ n >= 1 /\ r \in Nat
  <2>1. r \in 0 .. SlotsPerCluster - 1
    BY <1>1, NeededPositive
  <2>. QED BY <2>1, <1>1, <1>7, Geometry
<1>. HIDE DEF r
<1>9. DistinctList(ext, Len(ext))
  BY <1>2 DEF WritesTo, DistinctList, ClusterList
<1>10. Stored(k.store, st, ext, r, buf, n)
  BY <1>7, <1>8, <1>9, StoreWritten
<1>10a. st = [a \in 1 .. Blocks |-> st[a]]
  BY DEF Patched
<1>. HIDE DEF st
<1>11. ASSUME NEW a \in 1 .. Blocks
       PROVE  \/ st[a] = k.store[a]
              \/ st[a] \in DataBlocks /\ \E j \in 1 .. Len(ext) : a \in Region(ext[j])
  <2>1. CASE \A i \in 1 .. n : AddressAt(ext, r + i) # a
    BY <2>1, <1>10 DEF Stored
  <2>2. CASE \E i \in 1 .. n : AddressAt(ext, r + i) = a
    <3>1. PICK i \in 1 .. n : AddressAt(ext, r + i) = a
      BY <2>2
    <3>2. st[a] = buf[i] /\ i \in 1 .. nb
      BY <3>1, <1>10, <1>7, <1>1 DEF Stored
    <3>3. r + i \in 1 .. Len(ext) * SlotsPerCluster
      <4>. DEFINE z == Len(ext) * SlotsPerCluster
      <4>1. z \in Int /\ r + n <= z
        BY <1>6, <1>7, Geometry
      <4>. HIDE DEF z
      <4>2. r + i \in 1 .. z
        BY <4>1, <1>8
      <4>. QED BY <4>2 DEF z
    <3>4. ASSUME NEW u \in 1 .. Len(ext) * SlotsPerCluster
          PROVE  ClusterIndex(u) \in 1 .. Len(ext) /\ AddressAt(ext, u) \in Region(ext[ClusterIndex(u)])
      BY <1>6, <1>9, AddressIn DEF DistinctList, ClusterList
    <3>5. \E j \in 1 .. Len(ext) : a \in Region(ext[j])
      BY <3>1, <3>3, <3>4
    <3>. QED BY <3>2, <3>5, <1>1
  <2>. QED BY <2>1, <2>2
<1>12. st \in [1 .. Blocks -> BlockSet]
  <2>1. ASSUME NEW a \in 1 .. Blocks PROVE st[a] \in BlockSet
    BY <1>4, <1>11, BlockKinds
  <2>. QED BY <2>1, <1>10a
<1>. HIDE DEF fat, m, q
<1>13. \E X, N : Grown(k, k2, X, cs[Len(cs)], N)
  <2>1. Differ(k, st, ext)
    BY <1>11, <1>12 DEF Differ
  <2>. QED BY <2>1, <1>2, <1>3, <1>5, WriteGrows
<1>14. DiskOK(k2) /\ DirsGrow(k, k2, Free) /\ Entries(k2) = Entries(k)
       /\ \A a \in Entries(k) : k2.store[a] = k.store[a]
  BY <1>13, GrownDisk
<1>15. k2.fat = fat /\ k2.store = st
  BY <1>5
<1>16. Stored(k.store, k2.store, ext, InCluster(o), buf, n)
  BY <1>10, <1>15 DEF r
<1>17. x \in Entries(k2) /\ k2.store[x].first = first /\ Relinked(k, k2.fat, cs, m, ext)
  BY <1>3, <1>14, <1>15
<1>18. InCluster(o) + n <= Len(ext) * SlotsPerCluster
  BY <1>7 DEF r
<1>19. /\ Filled(k, k2, cs, cs2, o, buf, n)
       /\ Len(cs) \in Nat /\ Len(cs2) \in Nat /\ Len(cs) <= Len(cs2)
       /\ o + n <= Len(cs2) * SlotsPerCluster
  BY <1>2, <1>8, <1>14, <1>16, <1>17, <1>18, WriteFills DEF q
<1>20. ASSUME NEW y \in Entries(k), y # x PROVE SameFile(k, k2, y)
  <2>1. Stored(k.store, k2.store, ext, r, buf, n) /\ r \in Nat /\ n \in Nat
        /\ r + n <= Len(ext) * SlotsPerCluster
    BY <1>7, <1>8, <1>10, <1>15
  <2>2. Relinked(k, k2.fat, cs, m, ext) /\ WritesTo(k, cs, q, m, ext)
    BY <1>2, <1>17
  <2>3. cs = Chain(k, k.store[x].first)
    OBVIOUS
  <2>. HIDE DEF cs
  <2>. QED BY <2>1, <2>2, <2>3, <1>20, WriteSpares
<1>21. n \in 1 .. Len(buf)
  BY <1>7 DEF nb
<1>. QED BY <1>5, <1>14, <1>19, <1>20, <1>21 DEF Written, cs

-----------------------------------------------------------------------------
(* The sizes of the files.                                                 *)

\* A file whose chain and blocks are the same still fits.
LEMMA FitsKept ==
    ASSUME NEW k, NEW k2, NEW y, SameFile(k, k2, y), NEW s, s \in Nat,
           FitsIn(k, k.store[y].first, s)
    PROVE  FitsIn(k2, k.store[y].first, s)
<1>. DEFINE cs == Chain(k, k.store[y].first)
            z == Len(cs) * SlotsPerCluster
<1>1. Chain(k2, k.store[y].first) = cs /\ \A i \in 1 .. z : k2.store[AddressAt(cs, i)] = k.store[AddressAt(cs, i)]
  BY DEF SameFile
<1>2. s <= z /\ \A i \in s + 1 .. z : k.store[AddressAt(cs, i)] = Zero
  BY DEF FitsIn
<1>3. FitsIn(k2, k.store[y].first, s) <=>
        (s <= z /\ \A i \in s + 1 .. z : k2.store[AddressAt(cs, i)] = Zero)
  BY <1>1 DEF FitsIn
<1>. HIDE DEF cs, z
<1>4. \A i \in s + 1 .. z : i \in 1 .. z
  OBVIOUS
<1>. QED BY <1>1, <1>2, <1>3, <1>4

\* A block of the chain of a file is in no directory.
LEMMA ChainOffDirs ==
    ASSUME NEW k, DiskOK(k), NEW y \in Entries(k), ~k.store[y].dir,
           NEW cs, cs = Chain(k, k.store[y].first), NEW i \in 1 .. Len(cs) * SlotsPerCluster,
           NEW d \in Dirs(k), NEW a \in Region(d)
    PROVE  AddressAt(cs, i) # a /\ AddressAt(cs, i) \in 1 .. Blocks
<1>1. Len(cs) \in Nat /\ \A j \in 1 .. Len(cs) : cs[j] \in Clusters
  BY EntryChain
<1>2. /\ ClusterIndex(i) \in 1 .. Len(cs) /\ AddressAt(cs, i) \in Region(cs[ClusterIndex(i)])
      /\ AddressAt(cs, i) \in 1 .. Blocks
  BY <1>1, AddressIn
<1>3. cs[ClusterIndex(i)] # d /\ cs[ClusterIndex(i)] \in Clusters
  BY <1>1, <1>2, ChainNotDir
<1>4. d \in Clusters \cup {Root}
  BY DirsAreClusters
<1>. QED BY <1>2, <1>3, <1>4, RegionsDisjoint

\* A new entry leaves every file as it was.
LEMMA CreatedSpares ==
    ASSUME NEW k, NEW k2, NEW d, NEW a, NEW e, DiskOK(k), Created(k, k2, d, a, e),
           NEW y \in Entries(k), ~k.store[y].dir
    PROVE  SameFile(k, k2, y)
<1>. DEFINE cs == Chain(k, k.store[y].first)
<1>1. /\ DiskType(k2) /\ a \in 1 .. Blocks
      /\ \A x \in 1 .. Blocks : k2.store[x] = IF x = a THEN e ELSE k.store[x]
      /\ \A c \in FatCells : k2.fat[c] = IF c = e.first THEN EOC ELSE k.fat[c]
  BY CreatedTypes
<1>2. d \in Dirs(k) /\ a \in Region(d) /\ k.fat[e.first] = Free
  BY DEF Created
<1>3. Len(cs) \in Nat /\ \A j \in 1 .. Len(cs) : cs[j] \in Clusters /\ k.fat[cs[j]] # Free
  BY EntryChain
<1>4. ASSUME NEW j \in 1 .. Len(cs) PROVE k2.fat[cs[j]] = k.fat[cs[j]]
  <2>1. cs[j] \in FatCells /\ cs[j] # e.first
    BY <1>2, <1>3, Cells
  <2>. QED BY <2>1, <1>1
<1>5. Chain(k2, k.store[y].first) = cs
  BY <1>1, <1>4, ChainFrame DEF DiskType
<1>6. ASSUME NEW i \in 1 .. Len(cs) * SlotsPerCluster
      PROVE  k2.store[AddressAt(cs, i)] = k.store[AddressAt(cs, i)]
  <2>1. AddressAt(cs, i) # a /\ AddressAt(cs, i) \in 1 .. Blocks
    BY <1>2, ChainOffDirs
  <2>. QED BY <2>1, <1>1
<1>. QED BY <1>5, <1>6 DEF SameFile

\* The chain of a new entry is one empty cluster.
LEMMA CreatedFits ==
    ASSUME NEW k, NEW k2, NEW d, NEW a, NEW e, DiskOK(k), Created(k, k2, d, a, e)
    PROVE  FitsIn(k2, e.first, 0)
<1>. DEFINE c == e.first
            cs == Chain(k2, c)
            w == Walk(k2, c)
<1>1. /\ a \in 1 .. Blocks /\ e.first # d /\ a \in Entries(k2) /\ k2.store[a] = e
      /\ \A x \in 1 .. Blocks : k2.store[x] = IF x = a THEN e ELSE k.store[x]
      /\ k2.fat[c] = EOC /\ c \in FatCells
  BY CreatedTypes
<1>2. DiskOK(k2)
  BY CreatedDisk
<1>3. d \in Dirs(k) /\ a \in Region(d) /\ k.fat[c] = Free /\ c \in Clusters
  BY DEF Created
<1>4. IsWalk(w, k2, c) /\ Len(cs) \in Nat /\ Len(cs) >= 1 /\ cs[1] = c
      /\ \A j \in 1 .. Len(cs) : cs[j] \in Clusters
  BY <1>1, <1>2, EntryChain, Geometry
<1>5. Len(cs) = 1
  <2>1. w[0] = c /\ w[0 + 1] = k2.fat[w[0]]
    BY <1>3, <1>4 DEF IsWalk
  <2>2. w[1] \notin Clusters
    BY <2>1, <1>1, Cells
  <2>3. w[1] \in Clusters <=> 1 < Len(cs)
    BY <1>1, <1>2, <1>4, WalkInChain
  <2>. DEFINE n == Len(cs)
  <2>4. n \in Nat /\ n >= 1 /\ ~(1 < n)
    BY <2>2, <2>3, <1>4
  <2>. HIDE DEF n
  <2>5. n = 1
    BY <2>4
  <2>. QED BY <2>5 DEF n
<1>. HIDE DEF cs, c, w
<1>6. ASSUME NEW i \in 1 .. Len(cs) * SlotsPerCluster PROVE k2.store[AddressAt(cs, i)] = Zero
  <2>1. /\ ClusterIndex(i) \in 1 .. Len(cs) /\ AddressAt(cs, i) \in Region(cs[ClusterIndex(i)])
        /\ AddressAt(cs, i) \in 1 .. Blocks
    BY <1>4, AddressIn
  <2>2. AddressAt(cs, i) \in Region(c)
    BY <2>1, <1>4, <1>5
  <2>3. k.store[AddressAt(cs, i)] = Zero
    BY <1>3, <2>2 DEF DiskOK, FreeOK
  <2>4. AddressAt(cs, i) # a
    <3>1. d \in Clusters \cup {Root} /\ c # d
      BY <1>1, <1>3, DirsAreClusters DEF c
    <3>. QED BY <3>1, <1>3, <2>2, RegionsDisjoint
  <2>. QED BY <2>1, <2>3, <2>4, <1>1
<1>7. 0 <= Len(cs) * SlotsPerCluster
  BY <1>5, Geometry
<1>8. \A i \in 0 + 1 .. Len(cs) * SlotsPerCluster : k2.store[AddressAt(cs, i)] = Zero
  BY <1>6
<1>. QED BY <1>7, <1>8 DEF FitsIn, cs, c

\* A new file fits in its chain, and the others still do.
LEMMA CreatedSize ==
    ASSUME NEW k, NEW k2, NEW d, NEW a, NEW e, DiskOK(k), Created(k, k2, d, a, e), SizeOK(k)
    PROVE  SizeOK(k2)
<1>1. /\ a \in 1 .. Blocks /\ a \notin Entries(k) /\ Entries(k2) = Entries(k) \cup {a}
      /\ \A x \in 1 .. Blocks : k2.store[x] = IF x = a THEN e ELSE k.store[x]
      /\ e.size = 0
  BY CreatedTypes
<1>2. SUFFICES ASSUME NEW y \in Entries(k2)
               PROVE  /\ k2.store[y].dir => k2.store[y].size = 0
                      /\ ~k2.store[y].dir => FitsIn(k2, k2.store[y].first, k2.store[y].size)
  BY DEF SizeOK
<1>3. CASE y = a
  <2>1. k2.store[y] = e
    BY <1>1, <1>3
  <2>. QED BY <2>1, <1>1, CreatedFits
<1>4. CASE y # a
  <2>1. y \in Entries(k) /\ k2.store[y] = k.store[y]
    BY <1>1, <1>4 DEF Entries
  <2>2. k.store[y].size \in Nat
    BY <2>1, EntryTypes DEF DiskOK
  <2>3. CASE k.store[y].dir
    BY <2>1, <2>3 DEF SizeOK
  <2>4. CASE ~k.store[y].dir
    <3>1. SameFile(k, k2, y)
      BY <2>1, <2>4, CreatedSpares
    <3>2. FitsIn(k, k.store[y].first, k.store[y].size)
      BY <2>1, <2>4 DEF SizeOK
    <3>3. FitsIn(k2, k.store[y].first, k.store[y].size)
      BY <3>1, <3>2, <2>2, FitsKept
    <3>. QED BY <2>1, <2>4, <3>3
  <2>. QED BY <2>3, <2>4
<1>. QED BY <1>3, <1>4

\* A changed entry leaves every file as it was.
LEMMA ChangedSpares ==
    ASSUME NEW k, NEW k2, NEW a, NEW e, DiskOK(k), Changed(k, k2, a, e),
           NEW y \in Entries(k), ~k.store[y].dir
    PROVE  SameFile(k, k2, y)
<1>. DEFINE cs == Chain(k, k.store[y].first)
<1>1. DiskOK(k2) /\ k2.fat = k.fat /\ \A x \in 1 .. Blocks : x # a => k2.store[x] = k.store[x]
  BY ChangedDisk
<1>2. PICK d \in Dirs(k) : a \in Region(d)
  BY DEF DiskOK, EntryOK, Changed
<1>3. Chain(k2, k.store[y].first) = cs
  BY <1>1, ChainFrame DEF DiskOK, DiskType
<1>4. ASSUME NEW i \in 1 .. Len(cs) * SlotsPerCluster
      PROVE  k2.store[AddressAt(cs, i)] = k.store[AddressAt(cs, i)]
  <2>1. AddressAt(cs, i) # a /\ AddressAt(cs, i) \in 1 .. Blocks
    BY <1>2, ChainOffDirs
  <2>. QED BY <2>1, <1>1
<1>. QED BY <1>3, <1>4 DEF SameFile

OthersFit(k, a) ==
    \A y \in Entries(k) \ {a} :
        /\ k.store[y].dir => k.store[y].size = 0
        /\ ~k.store[y].dir => FitsIn(k, k.store[y].first, k.store[y].size)

\* Every file but the changed one still fits, and so does that one if it did
\* with its new size.
LEMMA ChangedSize ==
    ASSUME NEW k, NEW k2, NEW a, NEW e, DiskOK(k), Changed(k, k2, a, e),
           OthersFit(k, a),
           e # Deleted => FitsIn(k, k.store[a].first, e.size) /\ e.size \in Nat
    PROVE  SizeOK(k2)
<1>1. /\ k2.store[a] = e /\ \A x \in 1 .. Blocks : x # a => k2.store[x] = k.store[x]
      /\ e = Deleted => Entries(k2) = Entries(k) \ {a}
      /\ e # Deleted => Entries(k2) = Entries(k)
      /\ e # Deleted => e.first = k.store[a].first /\ ~e.dir
  BY ChangedDisk
<1>2. SUFFICES ASSUME NEW y \in Entries(k2)
               PROVE  /\ k2.store[y].dir => k2.store[y].size = 0
                      /\ ~k2.store[y].dir => FitsIn(k2, k2.store[y].first, k2.store[y].size)
  BY DEF SizeOK
<1>3. y \in Entries(k) /\ (y = a => e # Deleted)
  BY <1>1
<1>4. CASE y = a
  <2>1. SameFile(k, k2, y)
    BY <1>4, ChangedSpares DEF Changed
  <2>2. FitsIn(k2, k.store[y].first, e.size)
    BY <2>1, <1>3, <1>4, FitsKept
  <2>. QED BY <2>2, <1>1, <1>3, <1>4
<1>5. CASE y # a
  <2>1. y \in Entries(k) /\ k2.store[y] = k.store[y]
    BY <1>1, <1>3, <1>5 DEF Entries
  <2>2. k.store[y].size \in Nat
    BY <2>1, EntryTypes DEF DiskOK
  <2>3. CASE k.store[y].dir
    BY <2>1, <2>3, <1>5 DEF OthersFit
  <2>4. CASE ~k.store[y].dir
    <3>1. SameFile(k, k2, y)
      BY <2>1, <2>4, ChangedSpares
    <3>2. FitsIn(k, k.store[y].first, k.store[y].size)
      BY <2>1, <2>4, <1>5 DEF OthersFit
    <3>3. FitsIn(k2, k.store[y].first, k.store[y].size)
      BY <3>1, <3>2, <2>2, FitsKept
    <3>. QED BY <2>1, <2>4, <3>3
  <2>. QED BY <2>3, <2>4
<1>. QED BY <1>4, <1>5

\* After a write the file fits with the size that sys_write gives it.
LEMMA WrittenFits ==
    ASSUME NEW k, NEW k2, NEW x \in Entries(k), NEW o \in Nat, NEW buf, NEW n, DiskOK(k),
           Written(k, k2, x, o, buf, n), Len(buf) \in Nat, FitsIn(k, k.store[x].first, k.store[x].size),
           NEW s, s = Max({k.store[x].size, o + n})
    PROVE  s \in Nat /\ s >= k.store[x].size /\ s >= o + n /\ FitsIn(k2, k.store[x].first, s)
<1>. DEFINE cs == Chain(k, k.store[x].first)
            cs2 == Chain(k2, k.store[x].first)
            z == Len(cs) * SlotsPerCluster
            z2 == Len(cs2) * SlotsPerCluster
            u == k.store[x].size
<1>1. n \in Nat /\ n >= 1 /\ Len(cs) \in Nat /\ Len(cs2) \in Nat /\ Len(cs) <= Len(cs2) /\ o + n <= z2
  BY DEF Written
<1>2. Filled(k, k2, cs, cs2, o, buf, n)
  BY DEF Written
<1>3. u \in Nat
  BY EntryTypes DEF DiskOK
<1>4. u <= z /\ \A i \in u + 1 .. z : k.store[AddressAt(cs, i)] = Zero
  BY DEF FitsIn
<1>5. z \in Nat /\ z2 \in Nat /\ z <= z2
  <2>1. ASSUME NEW A \in Nat, NEW B \in Nat, A <= B, NEW S \in Nat PROVE A * S <= B * S
    BY Product, <2>1
  <2>. QED BY <2>1, <1>1, Geometry
<1>6. ASSUME NEW i \in 1 .. z2
      PROVE  /\ i \notin o + 1 .. o + n /\ i <= z => k2.store[AddressAt(cs2, i)] = k.store[AddressAt(cs, i)]
             /\ i \notin o + 1 .. o + n /\ ~(i <= z) => k2.store[AddressAt(cs2, i)] = Zero
  BY <1>2 DEF Filled
<1>7. s = IF u <= o + n THEN o + n ELSE u
  <2>1. ASSUME NEW t \in Nat PROVE Max({u, t}) = IF u <= t THEN t ELSE u
    BY <1>3, MinMaxTwo
  <2>2. o + n \in Nat
    BY <1>1
  <2>3. Max({u, o + n}) = IF u <= o + n THEN o + n ELSE u
    BY <2>1, <2>2
  <2>. QED BY <2>3
<1>. HIDE DEF cs, cs2, z, z2, u
<1>8. s \in Nat /\ s >= u /\ s >= o + n /\ s <= z2
  BY <1>1, <1>3, <1>4, <1>5, <1>7
<1>9. ASSUME NEW i \in s + 1 .. z2 PROVE k2.store[AddressAt(cs2, i)] = Zero
  <2>1. i \in 1 .. z2 /\ i \notin o + 1 .. o + n /\ (i <= z => i \in u + 1 .. z)
    BY <1>1, <1>3, <1>5, <1>8
  <2>. QED BY <2>1, <1>4, <1>6
<1>. QED BY <1>8, <1>9 DEF FitsIn, cs2, z2, u

-----------------------------------------------------------------------------
(* What the changes of the disk mean for the paths.                        *)

\* Every path but p names what it named before.
OnlyPath(k, k2, p) == \A q \in Seq(Names) : q # <<>> /\ q # p => find_file(k2, q) = find_file(k, q)

\* A new entry is found at its path.
LEMMA CreateEffect ==
    ASSUME NEW k, NEW k2, NEW p, IsPath(p), NEW a, NEW e, DiskOK(k),
           Created(k, k2, ParentOf(k, p), a, e), e.name = Last(p)
    PROVE  Leads(k2, p, a) /\ find_file(k2, p) = e /\ OnlyPath(k, k2, p)
<1>. DEFINE d == ParentOf(k, p)
            c == IF e.dir THEN e.first ELSE Free
<1>1. DiskOK(k2) /\ DirsGrow(k, k2, c)
  BY CreatedDisk
<1>2. /\ a \in 1 .. Blocks /\ a \notin Entries(k) /\ Entries(k2) = Entries(k) \cup {a}
      /\ \A x \in 1 .. Blocks : k2.store[x] = IF x = a THEN e ELSE k.store[x]
  BY CreatedTypes
<1>3. d \in Dirs(k) /\ a \in Region(d)
  BY DEF Created
<1>. HIDE DEF c
<1>4. ParentOf(k2, p) = d
  <2>1. Len(p) - 1 \in Nat
    BY PathLength
  <2>2. \/ Descent(k2, p)[Len(p) - 1] = Descent(k, p)[Len(p) - 1]
        \/ Descent(k, p)[Len(p) - 1] = NoDir
    BY <1>1, <2>1, DescentGrows
  <2>3. d # NoDir
    BY <1>3, DirsAreClusters
  <2>. QED BY <2>2, <2>3 DEF ParentOf
<1>5. Leads(k2, p, a)
  <2>1. d \in Dirs(k2)
    BY <1>1, <1>3, DirsMonotone
  <2>2. a \in Entries(k2) /\ k2.store[a] = e
    BY <1>2
  <2>. HIDE DEF d
  <2>. QED BY <1>3, <1>4, <2>1, <2>2 DEF Leads, Named
<1>6. find_file(k2, p) = e
  BY <1>1, <1>2, <1>5, LeadsFinds
<1>7. ASSUME NEW q \in Seq(Names), q # <<>>, q # p PROVE find_file(k2, q) = find_file(k, q)
  <2>1. IsPath(q)
    BY <1>7 DEF IsPath
  <2>2. ~Leads(k, q, a)
    BY <1>2 DEF Leads, Named
  <2>3. ~Leads(k2, q, a)
    BY <1>1, <1>5, <1>7, <2>1, LeadsUnique
  <2>4. Entries(k) \cup {a} = Entries(k2) \cup {a}
    BY <1>2
  <2>5. \A x \in Entries(k) \ {a} : k2.store[x] = k.store[x]
    BY <1>2 DEF Entries
  <2>. QED BY <1>1, <2>1, <2>2, <2>3, <2>4, <2>5, FindKept
<1>. QED BY <1>5, <1>6, <1>7 DEF OnlyPath

\* A removed entry is not found any more.
LEMMA DeleteEffect ==
    ASSUME NEW k, NEW k2, NEW p, IsPath(p), NEW a, DiskOK(k), Leads(k, p, a), Changed(k, k2, a, Deleted)
    PROVE  find_file(k2, p) = NoEntry /\ OnlyPath(k, k2, p)
<1>0. a \in Entries(k)
  BY DEF Changed
<1>1. /\ DiskOK(k2) /\ DirsGrow(k, k2, Free)
      /\ \A x \in 1 .. Blocks : x # a => k2.store[x] = k.store[x]
      /\ Entries(k2) = Entries(k) \ {a} /\ a \in Entries(k)
  BY <1>0, ChangedDisk
<1>2. ASSUME find_file(k2, p) # NoEntry PROVE FALSE
  <2>1. PICK b \in Entries(k2) : Leads(k2, p, b)
    BY <1>1, <1>2, FoundLeads
  <2>2. b \in Entries(k) /\ b # a /\ k2.store[b] = k.store[b]
    BY <1>1 DEF Entries
  <2>3. Leads(k, p, b)
    BY <1>1, <2>1, <2>2, LeadsKept
  <2>. QED BY <2>2, <2>3, LeadsOne
<1>3. ASSUME NEW q \in Seq(Names), q # <<>>, q # p PROVE find_file(k2, q) = find_file(k, q)
  <2>1. IsPath(q)
    BY <1>3 DEF IsPath
  <2>2. ~Leads(k, q, a)
    BY <1>3, <2>1, LeadsUnique
  <2>3. ~Leads(k2, q, a)
    BY <1>1 DEF Leads, Named
  <2>4. Entries(k) \cup {a} = Entries(k2) \cup {a}
    BY <1>1
  <2>5. \A x \in Entries(k) \ {a} : k2.store[x] = k.store[x]
    BY <1>1 DEF Entries
  <2>. QED BY <1>1, <2>1, <2>2, <2>3, <2>4, <2>5, FindKept
<1>. QED BY <1>2, <1>3 DEF OnlyPath

\* An entry with a new size is found at its path.
LEMMA UpdateEffect ==
    ASSUME NEW k, NEW k2, NEW p, IsPath(p), NEW a, NEW e, DiskOK(k), Leads(k, p, a),
           Changed(k, k2, a, e), e # Deleted
    PROVE  Leads(k2, p, a) /\ find_file(k2, p) = e /\ OnlyPath(k, k2, p)
<1>0. a \in Entries(k)
  BY DEF Changed
<1>1. /\ DiskOK(k2) /\ DirsGrow(k, k2, Free) /\ k2.store[a] = e
      /\ \A x \in 1 .. Blocks : x # a => k2.store[x] = k.store[x]
      /\ Entries(k2) = Entries(k) /\ a \in Entries(k) /\ e.name = k.store[a].name
  BY <1>0, ChangedDisk
<1>2. Leads(k2, p, a)
  BY <1>1, LeadsKept
<1>3. find_file(k2, p) = e
  BY <1>1, <1>2, LeadsFinds
<1>4. ASSUME NEW q \in Seq(Names), q # <<>>, q # p PROVE find_file(k2, q) = find_file(k, q)
  <2>1. IsPath(q)
    BY <1>4 DEF IsPath
  <2>2. ~Leads(k, q, a)
    BY <1>4, <2>1, LeadsUnique
  <2>3. ~Leads(k2, q, a)
    BY <1>1, <1>2, <1>4, <2>1, LeadsUnique
  <2>4. Entries(k) \cup {a} = Entries(k2) \cup {a}
    BY <1>1
  <2>5. \A x \in Entries(k) \ {a} : k2.store[x] = k.store[x]
    BY <1>1 DEF Entries
  <2>. QED BY <1>1, <2>1, <2>2, <2>3, <2>4, <2>5, FindKept
<1>. QED BY <1>2, <1>3, <1>4 DEF OnlyPath

\* A write changes no entry.
LEMMA WriteEffect ==
    ASSUME NEW k, NEW k2, NEW x \in Entries(k), NEW o, NEW buf, NEW n, DiskOK(k),
           Written(k, k2, x, o, buf, n), NEW p, IsPath(p)
    PROVE  find_file(k2, p) = find_file(k, p) /\ (Leads(k, p, x) => Leads(k2, p, x))
<1>1. /\ DiskOK(k2) /\ DirsGrow(k, k2, Free) /\ Entries(k2) = Entries(k)
      /\ \A a \in Entries(k) : k2.store[a] = k.store[a]
  BY DEF Written
<1>2. Leads(k, p, x) => Leads(k2, p, x)
  BY <1>1, LeadsKept
<1>3. 0 \notin Entries(k)
  BY DEF Entries
<1>4. ~Leads(k, p, 0) /\ ~Leads(k2, p, 0)
  BY <1>1, <1>3 DEF Leads, Named
<1>5. Entries(k) \cup {0} = Entries(k2) \cup {0} /\ \A a \in Entries(k) \ {0} : k2.store[a] = k.store[a]
  BY <1>1
<1>. QED BY <1>1, <1>2, <1>4, <1>5, FindKept

\* What a call about a path of the callers leaves on the disk is known.
LEMMA KnownKept ==
    ASSUME NEW k, NEW k2, KnownOK(k), NEW p \in Paths, OnlyPath(k, k2, p)
    PROVE  KnownOK(k2)
BY DEF KnownOK, OnlyPath

\* The paths of the callers are paths.
LEMMA PathsAre ==
    ASSUME NEW p \in Paths
    PROVE  p \in Seq(Names) /\ (p # <<>> => IsPath(p))
BY NamesAssumption DEF IsPath

-----------------------------------------------------------------------------
(* What they mean for the contents of the files.                           *)

\* Every path but p holds what it held before.
SameContents(k, k2, p) == \A q \in Seq(Names) : q # <<>> /\ q # p => Contents(k2, q) = Contents(k, q)

\* The blocks of a chain that is the same.
LEMMA LoadKept ==
    ASSUME NEW k, NEW k2, DiskOK(k), NEW y \in Entries(k), SameFile(k, k2, y),
           NEW cs, cs = Chain(k, k.store[y].first)
    PROVE  Chain(k2, k.store[y].first) = cs /\ LoadChain(k2, cs) = LoadChain(k, cs)
<1>1. Chain(k2, k.store[y].first) = cs
  BY DEF SameFile
<1>2. \A i \in 1 .. Len(cs) * SlotsPerCluster : k2.store[AddressAt(cs, i)] = k.store[AddressAt(cs, i)]
  BY DEF SameFile
<1>3. Len(cs) \in Nat /\ \A j \in 1 .. Len(cs) : cs[j] \in Clusters
  BY EntryChain
<1>4. ASSUME NEW i \in 1 .. Len(cs) * SlotsPerCluster
      PROVE  LoadBlock(k2, AddressAt(cs, i)) = LoadBlock(k, AddressAt(cs, i))
  <2>1. AddressAt(cs, i) \in 1 .. Blocks
    BY <1>3, AddressIn
  <2>. QED BY <2>1, <1>2 DEF LoadBlock
<1>5. LoadChain(k2, cs) = LoadChain(k, cs)
  BY <1>4 DEF LoadChain
<1>. QED BY <1>1, <1>5

\* A path whose file is kept holds what it held.
LEMMA ContentsKept ==
    ASSUME NEW k, NEW k2, DiskOK(k), NEW q, IsPath(q), find_file(k2, q) = find_file(k, q),
           \A y \in Entries(k) : Leads(k, q, y) /\ ~k.store[y].dir => SameFile(k, k2, y)
    PROVE  Contents(k2, q) = Contents(k, q)
<1>1. CASE find_file(k, q) = NoEntry
  BY <1>1 DEF Contents
<1>2. CASE find_file(k, q) # NoEntry
  <2>1. PICK y \in Entries(k) : Leads(k, q, y) /\ find_file(k, q) = k.store[y]
    BY <1>2, FoundLeads
  <2>2. CASE k.store[y].dir
    BY <1>2, <2>1, <2>2 DEF Contents
  <2>3. CASE ~k.store[y].dir
    <3>. DEFINE cs == Chain(k, k.store[y].first)
                s == k.store[y].size
    <3>1. Chain(k2, k.store[y].first) = cs /\ LoadChain(k2, cs) = LoadChain(k, cs)
      BY <2>1, <2>3, LoadKept
    <3>2. Contents(k, q) = [st |-> "file", data |-> SubSeq(LoadChain(k, cs), 1, Min({s, Len(LoadChain(k, cs))}))]
      BY <1>2, <2>1, <2>3 DEF Contents
    <3>3. Contents(k2, q) =
            LET all == LoadChain(k2, Chain(k2, k.store[y].first))
            IN  [st |-> "file", data |-> SubSeq(all, 1, Min({s, Len(all)}))]
      BY <1>2, <2>1, <2>3 DEF Contents
    <3>. QED BY <3>1, <3>2, <3>3
  <2>. QED BY <2>2, <2>3
<1>. QED BY <1>1, <1>2

\* A step that leaves the files on other paths alone leaves their contents alone.
LEMMA ContentsOthers ==
    ASSUME NEW k, NEW k2, DiskOK(k), NEW p, OnlyPath(k, k2, p),
           \A q \in Seq(Names), y \in Entries(k) :
              q # <<>> /\ q # p /\ Leads(k, q, y) /\ ~k.store[y].dir => SameFile(k, k2, y)
    PROVE  SameContents(k, k2, p)
<1>1. ASSUME NEW q \in Seq(Names), q # <<>>, q # p PROVE Contents(k2, q) = Contents(k, q)
  <2>1. IsPath(q)
    BY <1>1 DEF IsPath
  <2>2. find_file(k2, q) = find_file(k, q)
    BY <1>1 DEF OnlyPath
  <2>3. \A y \in Entries(k) : Leads(k, q, y) /\ ~k.store[y].dir => SameFile(k, k2, y)
    BY <1>1
  <2>. QED BY <2>1, <2>2, <2>3, ContentsKept
<1>. QED BY <1>1 DEF SameContents

-----------------------------------------------------------------------------
(* The calls.                                                              *)

\* A call that concerns path p alone.
Concerns(k, k2, p) == DiskInv(k2) /\ OnlyPath(k, k2, p) /\ SameContents(k, k2, p)

\* Two changes that concern one path, one after the other.
LEMMA ConcernsTwo ==
    ASSUME NEW k, NEW k1, NEW k2, NEW p, OnlyPath(k, k1, p), SameContents(k, k1, p),
           OnlyPath(k1, k2, p), SameContents(k1, k2, p)
    PROVE  OnlyPath(k, k2, p) /\ SameContents(k, k2, p)
BY DEF OnlyPath, SameContents

\* No change concerns no path.
LEMMA ConcernsNone ==
    ASSUME NEW k, NEW p
    PROVE  OnlyPath(k, k, p) /\ SameContents(k, k, p)
BY DEF OnlyPath, SameContents

\* create_new_file makes an empty file or directory at the path, or does nothing.
LEMMA CreateCall ==
    ASSUME NEW k, DiskInv(k), NEW p \in Paths, p # <<>>, NEW dir \in BOOLEAN,
           find_file(k, p) = NoEntry, find_first_free_cluster(k) # 0,
           ParentOf(k, p) = Root => FreeSlots(k, Root) \cap 1 .. RootSlots # {},
           ParentOf(k, p) \notin {Root, NoDir} => FreeSlots(k, ParentOf(k, p)) # {},
           dir => Last(p) \in PlainNames, ~dir => Last(p) \in FullNames,
           NEW k2, k2 = create_new_file(k, p, dir).disk,
           NEW e, e = Entry(Last(p), dir, find_first_free_cluster(k), 0)
    PROVE  /\ Concerns(k, k2, p)
           /\ ~create_new_file(k, p, dir).ok => k2 = k
           /\ create_new_file(k, p, dir).ok =>
                 ParentOf(k, p) \in Dirs(k) /\ find_file(k2, p) = e /\ e # NoEntry
<1>1. IsPath(p)
  BY PathsAre
<1>2. DiskOK(k) /\ SizeOK(k) /\ KnownOK(k)
  BY DEF DiskInv
<1>. DEFINE a == FirstFree(k, ParentOf(k, p))
<1>3. /\ create_new_file(k, p, dir).ok <=> ParentOf(k, p) # NoDir
      /\ ParentOf(k, p) = NoDir => k2 = k
      /\ ParentOf(k, p) # NoDir => Created(k, k2, ParentOf(k, p), a, e)
  BY <1>1, <1>2, CreateStep
<1>. HIDE DEF a
<1>4. CASE ParentOf(k, p) = NoDir
  <2>1. k2 = k /\ ~create_new_file(k, p, dir).ok
    BY <1>3, <1>4
  <2>. QED BY <2>1, <1>2, ConcernsNone DEF Concerns, DiskInv
<1>5. CASE ParentOf(k, p) # NoDir
  <2>1. Created(k, k2, ParentOf(k, p), a, e) /\ create_new_file(k, p, dir).ok
    BY <1>3, <1>5
  <2>2. e.name = Last(p) /\ e # NoEntry
    BY EntryFields
  <2>3. find_file(k2, p) = e /\ OnlyPath(k, k2, p)
    BY <1>1, <1>2, <2>1, <2>2, CreateEffect
  <2>4. DiskOK(k2) /\ SizeOK(k2)
    BY <1>2, <2>1, CreatedDisk, CreatedSize
  <2>5. KnownOK(k2)
    BY <1>2, <2>3, KnownKept
  <2>6. SameContents(k, k2, p)
    <3>1. \A y \in Entries(k) : ~k.store[y].dir => SameFile(k, k2, y)
      BY <1>2, <2>1, CreatedSpares
    <3>. QED BY <1>2, <2>3, <3>1, ContentsOthers
  <2>7. ParentOf(k, p) \in Dirs(k)
    BY <2>1 DEF Created
  <2>. QED BY <2>1, <2>2, <2>3, <2>4, <2>5, <2>6, <2>7 DEF Concerns, DiskInv
<1>. QED BY <1>4, <1>5

\* The entry of a path with a full name is that of a file.
LEMMA FullNameFile ==
    ASSUME NEW k, DiskOK(k), NEW p, IsPath(p), NEW a, Leads(k, p, a)
    PROVE  Last(p) \in FullNames <=> ~k.store[a].dir
<1>1. a \in Entries(k) /\ k.store[a].name = Last(p)
  BY DEF Leads, Named
<1>2. /\ k.store[a].dir => k.store[a].name \in PlainNames
      /\ ~k.store[a].dir => k.store[a].name \in FullNames
  BY <1>1 DEF DiskOK, EntryOK
<1>. QED BY <1>1, <1>2, NamesAssumption

\* update_file_details removes the file at the path.
LEMMA UnlinkCall ==
    ASSUME NEW k, DiskInv(k), NEW p \in Paths, p # <<>>, find_file(k, p) # NoEntry,
           Last(p) \in FullNames, NEW k2, k2 = update_file_details(k, p, Deleted)
    PROVE  Concerns(k, k2, p) /\ find_file(k2, p) = NoEntry /\ ~find_file(k, p).dir
<1>1. IsPath(p)
  BY PathsAre
<1>2. DiskOK(k) /\ SizeOK(k) /\ KnownOK(k)
  BY DEF DiskInv
<1>3. PICK a \in Entries(k) : Leads(k, p, a) /\ find_file(k, p) = k.store[a]
  BY <1>1, <1>2, FoundLeads
<1>4. ~k.store[a].dir
  BY <1>1, <1>2, <1>3, FullNameFile
<1>5. Changed(k, k2, a, Deleted)
  BY <1>1, <1>2, <1>3, <1>4, UpdateStep DEF Changed
<1>6. find_file(k2, p) = NoEntry /\ OnlyPath(k, k2, p)
  BY <1>1, <1>2, <1>3, <1>5, DeleteEffect
<1>7. DiskOK(k2)
  BY <1>2, <1>5, ChangedDisk
<1>8. SizeOK(k2)
  <2>1. OthersFit(k, a)
    BY <1>2 DEF SizeOK, OthersFit
  <2>. QED BY <1>2, <1>5, <2>1, ChangedSize
<1>9. KnownOK(k2)
  BY <1>2, <1>6, KnownKept
<1>10. SameContents(k, k2, p)
  <2>1. \A y \in Entries(k) : ~k.store[y].dir => SameFile(k, k2, y)
    BY <1>2, <1>5, ChangedSpares
  <2>. QED BY <1>2, <1>6, <2>1, ContentsOthers
<1>. QED BY <1>3, <1>4, <1>6, <1>7, <1>8, <1>9, <1>10 DEF Concerns, DiskInv

\* k2 is k after n blocks of buf were written at o to the file at x, whose entry is now e.
WrittenFile(k, k1, k2, x, o, buf, n, e) ==
    /\ x \in Entries(k) /\ Written(k, k1, x, o, buf, n)
    /\ x \in Entries(k2) /\ k2.store[x] = e /\ e.first = k.store[x].first /\ ~e.dir
    /\ SameFile(k1, k2, x)
    /\ e.size = Max({k.store[x].size, o + n}) /\ e.size \in Nat /\ e.size >= o + n
    /\ e.size >= k.store[x].size

\* A file is the same on the same disk.
LEMMA SameFileSelf ==
    ASSUME NEW k, NEW y
    PROVE  SameFile(k, k, y)
BY DEF SameFile

\* e is the entry b of a file with size s.
Resized(e, b, s) ==
    /\ e = Entry(b.name, FALSE, b.first, s)
    /\ e # NoEntry /\ e # Deleted /\ ~e.dir /\ e.size = s /\ e.first = b.first
    /\ (e = b <=> s = b.size)

\* The entry of a file with another size.
LEMMA ResizedEntry ==
    ASSUME NEW k, DiskType(k), NEW a \in Entries(k), ~k.store[a].dir, NEW s \in Nat,
           NEW e, e = [k.store[a] EXCEPT !.size = s]
    PROVE  Resized(e, k.store[a], s)
<1>. DEFINE b == k.store[a]
<1>1. b = Entry(b.name, b.dir, b.first, b.size) /\ b.dir \in BOOLEAN
  BY EntryTypes, BlockKinds
<1>2. b.dir = FALSE
  BY <1>1
<1>. HIDE DEF b
<1>3. ASSUME NEW n, NEW d, NEW c, NEW t
      PROVE  [Entry(n, d, c, t) EXCEPT !.size = s] = Entry(n, d, c, s)
  BY DEF Entry
<1>4. [b EXCEPT !.size = s] = Entry(b.name, b.dir, b.first, s)
  <2>1. [Entry(b.name, b.dir, b.first, b.size) EXCEPT !.size = s] = Entry(b.name, b.dir, b.first, s)
    BY <1>3
  <2>2. [b EXCEPT !.size = s] = [Entry(b.name, b.dir, b.first, b.size) EXCEPT !.size = s]
    BY <1>1
  <2>. QED BY <2>1, <2>2
<1>5. ASSUME NEW n, NEW d, NEW c, NEW t, NEW u PROVE Entry(n, d, c, t) = Entry(n, d, c, u) <=> t = u
  BY DEF Entry
<1>6. Entry(b.name, b.dir, b.first, s) = b <=> s = b.size
  <2>1. Entry(b.name, b.dir, b.first, s) = Entry(b.name, b.dir, b.first, b.size) <=> s = b.size
    BY <1>5
  <2>. QED BY <1>1, <2>1
<1>4a. e = Entry(b.name, b.dir, b.first, s)
  BY <1>4 DEF b
<1>7. e # NoEntry /\ e # Deleted /\ e.dir = b.dir /\ e.size = s /\ e.first = b.first
  <2>. DEFINE f == Entry(b.name, b.dir, b.first, s)
  <2>1. f # NoEntry /\ f # Deleted /\ f.dir = b.dir /\ f.size = s /\ f.first = b.first
    BY EntryFields
  <2>. HIDE DEF f
  <2>. QED BY <1>4a, <2>1 DEF f
<1>8. e = Entry(b.name, FALSE, b.first, s)
  BY <1>2, <1>4a
<1>9. e = b <=> s = b.size
  BY <1>4a, <1>6
<1>10. Resized(e, b, s)
  BY <1>2, <1>7, <1>8, <1>9 DEF Resized
<1>. QED BY <1>10 DEF b

\* The entry of a file after sys_write, and the disk with it.
EntryAfter(e0, o, n) == [e0 EXCEPT !.size = Max({e0.size, o + n})]
DiskAfter(k, p, e0, e) == IF e # e0 THEN update_file_details(k, p, e) ELSE k

\* The same of the file at path p.
WrittenPath(k, k1, k2, p, o, buf, n, e) ==
    \E x \in Entries(k) :
        Leads(k, p, x) /\ Leads(k2, p, x) /\ WrittenFile(k, k1, k2, x, o, buf, n, e)

\* sys_write writes to the file at the path, and the entry there has its new size.
LEMMA WriteCall ==
    ASSUME NEW k, DiskInv(k), NEW p \in Paths, p # <<>>, NEW e0, e0 = find_file(k, p),
           e0 # NoEntry, ~e0.dir, NEW o \in Nat, NEW buf \in Buffers,
           InChain(ClusterAt(k, e0.first, o)),
           NEW n, n = write_to_file(k, e0.first, o, buf).n,
           NEW k1, k1 = write_to_file(k, e0.first, o, buf).disk,
           NEW e, e = EntryAfter(e0, o, n),
           NEW k2, k2 = DiskAfter(k1, p, e0, e)
    PROVE  /\ Concerns(k, k2, p) /\ find_file(k2, p) = e /\ e # NoEntry
           /\ n \in 1 .. Len(buf)
           /\ WrittenPath(k, k1, k2, p, o, buf, n, e)
<1>1. IsPath(p)
  BY PathsAre
<1>2. DiskOK(k) /\ SizeOK(k) /\ KnownOK(k) /\ DiskType(k) /\ FatType(k)
  BY DEF DiskInv, DiskOK, DiskType
<1>3. PICK x \in Entries(k) : Leads(k, p, x) /\ e0 = k.store[x]
  BY <1>1, <1>2, FoundLeads
<1>4. Last(p) \in FullNames
  BY <1>1, <1>2, <1>3, FullNameFile
<1>5. k.store[x].first \in Clusters /\ k.store[x].size \in Nat
  BY <1>2, EntryTypes
<1>6. ClusterAt(k, e0.first, o) \in Clusters
  <2>1. IsWalk(Walk(k, e0.first), k, e0.first)
    BY <1>2, <1>3, <1>5, Cells, WalkType
  <2>2. o \div SlotsPerCluster \in Nat
    BY Division
  <2>3. ClusterAt(k, e0.first, o) \in FatCells
    BY <2>1, <2>2 DEF ClusterAt, IsWalk
  <2>. QED BY <2>3, Cells
<1>7. Written(k, k1, x, o, buf, n)
  BY <1>2, <1>3, <1>6, WriteStep
<1>8. Len(buf) \in Nat
  BY BufferType
<1>9. n \in 1 .. Len(buf) /\ DiskOK(k1) /\ Entries(k1) = Entries(k)
      /\ \A a \in Entries(k) : k1.store[a] = k.store[a]
  BY <1>7 DEF Written
<1>10. \A y \in Entries(k) : y # x => SameFile(k, k1, y)
  BY <1>7 DEF Written
<1>. DEFINE s == Max({k.store[x].size, o + n})
<1>11. FitsIn(k, k.store[x].first, k.store[x].size)
  BY <1>2, <1>3 DEF SizeOK
<1>12. s \in Nat /\ s >= k.store[x].size /\ s >= o + n /\ FitsIn(k1, k.store[x].first, s)
  BY <1>2, <1>7, <1>8, <1>11, WrittenFits
<1>13. e = [k.store[x] EXCEPT !.size = s]
  BY <1>3 DEF EntryAfter
<1>. HIDE DEF s
<1>14a. Resized(e, k.store[x], s)
  BY <1>2, <1>3, <1>12, <1>13, ResizedEntry
<1>14. e.size = s
  BY <1>14a DEF Resized
<1>15a. ~k.store[x].dir
  BY <1>3
<1>15. /\ e = Entry(k.store[x].name, FALSE, k.store[x].first, s)
       /\ e # NoEntry /\ e # Deleted /\ ~e.dir /\ e.first = k.store[x].first
       /\ (e = k.store[x] <=> s = k.store[x].size)
  BY <1>14a DEF Resized
<1>16. find_file(k1, p) = k.store[x] /\ Leads(k1, p, x) /\ x \in Entries(k1) /\ k1.store[x] = k.store[x]
  <2>1. find_file(k1, p) = find_file(k, p) /\ (Leads(k, p, x) => Leads(k1, p, x))
    BY <1>1, <1>2, <1>7, WriteEffect
  <2>. QED BY <2>1, <1>3, <1>9
<1>17. OnlyPath(k, k1, p)
  <2>1. ASSUME NEW q \in Seq(Names), q # <<>> PROVE find_file(k1, q) = find_file(k, q)
    <3>1. IsPath(q)
      BY <2>1 DEF IsPath
    <3>. QED BY <3>1, <1>2, <1>7, WriteEffect
  <2>. QED BY <2>1 DEF OnlyPath
<1>18. SameContents(k, k1, p)
  <2>1. ASSUME NEW q \in Seq(Names), NEW y \in Entries(k), q # <<>>, q # p, Leads(k, q, y)
        PROVE  SameFile(k, k1, y)
    <3>1. IsPath(q)
      BY <2>1 DEF IsPath
    <3>2. y # x
      BY <1>1, <1>2, <1>3, <2>1, <3>1, LeadsUnique
    <3>. QED BY <3>2, <1>10
  <2>. QED BY <1>2, <1>17, <2>1, ContentsOthers
<1>19. ASSUME NEW y \in Entries(k) \ {x}
       PROVE  /\ k1.store[y].dir => k1.store[y].size = 0
              /\ ~k1.store[y].dir => FitsIn(k1, k1.store[y].first, k1.store[y].size)
  <2>1. k1.store[y] = k.store[y] /\ k.store[y].size \in Nat /\ SameFile(k, k1, y)
    BY <1>2, <1>9, <1>10, EntryTypes
  <2>2. /\ k.store[y].dir => k.store[y].size = 0
        /\ ~k.store[y].dir => FitsIn(k, k.store[y].first, k.store[y].size)
    BY <1>2 DEF SizeOK
  <2>3. CASE k.store[y].dir
    BY <2>1, <2>2, <2>3
  <2>4. CASE ~k.store[y].dir
    <3>1. FitsIn(k1, k.store[y].first, k.store[y].size)
      BY <2>1, <2>2, <2>4, FitsKept
    <3>. QED BY <2>1, <2>4, <3>1
  <2>. QED BY <2>3, <2>4
<1>20. KnownOK(k1)
  BY <1>2, <1>17, KnownKept
<1>21. CASE e = e0
  <2>1. k2 = k1 /\ e = k.store[x] /\ s = k.store[x].size
    BY <1>3, <1>15, <1>21 DEF DiskAfter
  <2>2. SizeOK(k1)
    <3>1. ASSUME NEW y \in Entries(k1)
          PROVE  /\ k1.store[y].dir => k1.store[y].size = 0
                 /\ ~k1.store[y].dir => FitsIn(k1, k1.store[y].first, k1.store[y].size)
      <4>1. CASE y = x
        BY <4>1, <2>1, <1>12, <1>15, <1>16
      <4>2. CASE y # x
        BY <4>2, <1>9, <1>19
      <4>. QED BY <4>1, <4>2
    <3>. QED BY <3>1 DEF SizeOK
  <2>3. Concerns(k, k2, p)
    BY <2>1, <2>2, <1>9, <1>17, <1>18, <1>20 DEF Concerns, DiskInv
  <2>4. WrittenFile(k, k1, k2, x, o, buf, n, e)
    <3>1. SameFile(k1, k2, x)
      BY <2>1, SameFileSelf
    <3>. QED BY <3>1, <2>1, <1>7, <1>12, <1>14, <1>15, <1>16 DEF WrittenFile, s
  <2>5. WrittenPath(k, k1, k2, p, o, buf, n, e)
    BY <2>1, <2>4, <1>3, <1>16 DEF WrittenPath
  <2>. QED BY <2>1, <2>3, <2>5, <1>3, <1>9, <1>15, <1>16
<1>22. CASE e # e0
  <2>1. k2 = [k1 EXCEPT !.store[x] = e]
    <3>1. k2 = update_file_details(k1, p, e)
      BY <1>22 DEF DiskAfter
    <3>. QED BY <3>1, <1>1, <1>4, <1>9, <1>16, UpdateStep
  <2>2. Changed(k1, k2, x, e)
    <3>1. e = Entry(k1.store[x].name, FALSE, k1.store[x].first, s) /\ ~k1.store[x].dir
      BY <1>3, <1>15, <1>16
    <3>. QED BY <3>1, <2>1, <1>12, <1>16 DEF Changed
  <2>3. Leads(k2, p, x) /\ find_file(k2, p) = e /\ OnlyPath(k1, k2, p)
    <3>1. DiskOK(k1) /\ Leads(k1, p, x) /\ e # Deleted
      BY <1>9, <1>15, <1>16
    <3>. QED BY <3>1, <1>1, <2>2, UpdateEffect
  <2>4. DiskOK(k2) /\ k2.store[x] = e /\ Entries(k2) = Entries(k1)
    <3>1. DiskOK(k1) /\ x \in Entries(k1) /\ e # Deleted
      BY <1>9, <1>15, <1>16
    <3>. QED BY <3>1, <2>2, ChangedDisk
  <2>5. SizeOK(k2)
    <3>1. FitsIn(k1, k1.store[x].first, e.size) /\ e.size \in Nat
      BY <1>12, <1>14, <1>16
    <3>2. OthersFit(k1, x)
      BY <1>9, <1>19 DEF OthersFit
    <3>3. DiskOK(k1)
      BY <1>9
    <3>. QED BY <2>2, <3>1, <3>2, <3>3, ChangedSize
  <2>6. KnownOK(k2)
    BY <1>20, <2>3, KnownKept
  <2>7. \A y \in Entries(k1) : ~k1.store[y].dir => SameFile(k1, k2, y)
    BY <1>9, <2>2, ChangedSpares
  <2>8. SameContents(k1, k2, p)
    BY <1>9, <2>3, <2>7, ContentsOthers
  <2>9. OnlyPath(k, k2, p) /\ SameContents(k, k2, p)
    BY <1>17, <1>18, <2>3, <2>8, ConcernsTwo
  <2>10. Concerns(k, k2, p)
    BY <2>4, <2>5, <2>6, <2>9 DEF Concerns, DiskInv
  <2>11. WrittenFile(k, k1, k2, x, o, buf, n, e)
    <3>1. SameFile(k1, k2, x)
      BY <1>3, <1>16, <2>7
    <3>. QED BY <3>1, <2>4, <1>7, <1>12, <1>14, <1>15, <1>16 DEF WrittenFile, s
  <2>12. WrittenPath(k, k1, k2, p, o, buf, n, e)
    BY <2>3, <2>11, <1>3 DEF WrittenPath
  <2>. QED BY <2>3, <2>10, <2>12, <1>9, <1>15
<1>. QED BY <1>21, <1>22

\* An open file whose path a call does not concern.
LEMMA OpenKept ==
    ASSUME NEW k, NEW k2, NEW p, NEW f, OpenFileOK(k, f), OnlyPath(k, k2, p), f.path # p
    PROVE  OpenFileOK(k2, f)
<1>1. f.path \in Seq(Names)
  BY NamesAssumption DEF OpenFileOK
<1>2. f.path # <<>> => find_file(k2, f.path) = find_file(k, f.path)
  BY <1>1 DEF OnlyPath
<1>. QED BY <1>2 DEF OpenFileOK

\* The calls that leave the open files alone.
LEMMA OpenSame ==
    ASSUME NEW k, NEW k2, NEW p, NEW op, NEW fd, OpenInv(k, op, fd), OnlyPath(k, k2, p),
           \A g \in DOMAIN op : op[g].path # p
    PROVE  OpenInv(k2, op, fd)
<1>1. \A g \in DOMAIN op : OpenFileOK(k2, op[g])
  BY OpenKept DEF OpenInv
<1>. QED BY <1>1 DEF OpenInv

\* One more open file.
LEMMA OpenMore ==
    ASSUME NEW k, NEW op, NEW fd, OpenInv(k, op, fd), fd <= MaxFd, NEW f, OpenFileOK(k, f),
           \A g \in DOMAIN op : op[g].path # f.path,
           NEW op2, op2 = [g \in DOMAIN op \cup {fd} |-> IF g = fd THEN f ELSE op[g]]
    PROVE  OpenInv(k, op2, fd + 1)
<1>1. fd \in FirstFd .. MaxFd + 1 /\ DOMAIN op \subseteq FirstFd .. fd - 1 /\ FirstFd \in Nat
      /\ MaxFd \in Nat
  BY Geometry DEF OpenInv, FirstFd
<1>2. DOMAIN op2 = DOMAIN op \cup {fd} /\ op2 = [g \in DOMAIN op2 |-> op2[g]] /\ op2[fd] = f
  OBVIOUS
<1>3. fd \notin DOMAIN op
  BY <1>1
<1>4. \A g \in DOMAIN op : op2[g] = op[g]
  BY <1>3
<1>5. fd + 1 \in FirstFd .. MaxFd + 1
  BY <1>1
<1>6. DOMAIN op2 \subseteq FirstFd .. (fd + 1) - 1
  BY <1>1, <1>2
<1>7. ASSUME NEW g \in DOMAIN op2 PROVE OpenFileOK(k, op2[g])
  <2>1. CASE g = fd
    BY <2>1, <1>2
  <2>2. CASE g \in DOMAIN op
    BY <2>2, <1>4 DEF OpenInv
  <2>. QED BY <2>1, <2>2, <1>2
<1>8. ASSUME NEW g \in DOMAIN op2, NEW h \in DOMAIN op2, op2[g].path = op2[h].path PROVE g = h
  <2>1. g \in DOMAIN op \/ g = fd
    BY <1>2
  <2>2. h \in DOMAIN op \/ h = fd
    BY <1>2
  <2>3. CASE g \in DOMAIN op /\ h \in DOMAIN op
    BY <2>3, <1>4, <1>8 DEF OpenInv
  <2>4. CASE g = fd /\ h \in DOMAIN op
    BY <2>4, <1>2, <1>4, <1>8
  <2>5. CASE h = fd /\ g \in DOMAIN op
    BY <2>5, <1>2, <1>4, <1>8
  <2>. QED BY <2>1, <2>2, <2>3, <2>4, <2>5
<1>. QED BY <1>2, <1>5, <1>6, <1>7, <1>8 DEF OpenInv

\* One open file that is changed.
LEMMA OpenOther ==
    ASSUME NEW k, NEW k2, NEW p, NEW op, NEW fd, OpenInv(k, op, fd), OnlyPath(k, k2, p),
           NEW g \in DOMAIN op, op[g].path = p, NEW f, OpenFileOK(k2, f), f.path = p,
           NEW op2, op2 = [h \in DOMAIN op |-> IF h = g THEN f ELSE op[h]]
    PROVE  OpenInv(k2, op2, fd)
<1>1. DOMAIN op2 = DOMAIN op /\ op2 = [h \in DOMAIN op2 |-> op2[h]]
      /\ \A h \in DOMAIN op : op2[h] = IF h = g THEN f ELSE op[h]
  OBVIOUS
<1>2. ASSUME NEW h \in DOMAIN op PROVE OpenFileOK(k2, op2[h]) /\ op2[h].path = op[h].path
  <2>1. CASE h = g
    BY <2>1, <1>1
  <2>2. CASE h # g
    <3>1. op[h].path # p
      BY <2>2 DEF OpenInv
    <3>2. OpenFileOK(k2, op[h])
      BY <3>1, OpenKept DEF OpenInv
    <3>. QED BY <3>2, <2>2, <1>1
  <2>. QED BY <2>1, <2>2
<1>3. ASSUME NEW h \in DOMAIN op, NEW i \in DOMAIN op, op2[h].path = op2[i].path PROVE h = i
  <2>1. op[h].path = op[i].path
    BY <1>2, <1>3
  <2>. QED BY <2>1 DEF OpenInv
<1>4. fd \in FirstFd .. MaxFd + 1 /\ DOMAIN op2 \subseteq FirstFd .. fd - 1
  BY <1>1 DEF OpenInv
<1>5. (\A h \in DOMAIN op2 : OpenFileOK(k2, op2[h]))
      /\ \A h, i \in DOMAIN op2 : op2[h].path = op2[i].path => h = i
  BY <1>1, <1>2, <1>3
<1>. QED BY <1>1, <1>4, <1>5 DEF OpenInv

\* One open file less.
LEMMA OpenLess ==
    ASSUME NEW k, NEW op, NEW fd, OpenInv(k, op, fd), NEW g,
           NEW op2, op2 = [h \in DOMAIN op \ {g} |-> op[h]]
    PROVE  OpenInv(k, op2, fd)
<1>1. DOMAIN op2 = DOMAIN op \ {g} /\ op2 = [h \in DOMAIN op2 |-> op2[h]]
      /\ \A h \in DOMAIN op2 : op2[h] = op[h] /\ h \in DOMAIN op
  OBVIOUS
<1>2. fd \in FirstFd .. MaxFd + 1 /\ DOMAIN op2 \subseteq FirstFd .. fd - 1
  BY <1>1 DEF OpenInv
<1>3. (\A h \in DOMAIN op2 : OpenFileOK(k, op2[h]))
      /\ \A h, i \in DOMAIN op2 : op2[h].path = op2[i].path => h = i
  BY <1>1 DEF OpenInv
<1>. QED BY <1>1, <1>2, <1>3 DEF OpenInv

\* An open file with another entry and offset.
Rewritten(f, e, o) == [[f EXCEPT !.entry = e] EXCEPT !.offset = o]

\* A record of an open file with some of its fields changed.
LEMMA OpenFields ==
    ASSUME NEW k, NEW f, OpenFileOK(k, f), NEW e, NEW o, NEW a
    PROVE  /\ [f EXCEPT !.append = a] =
                 [path |-> f.path, entry |-> f.entry, offset |-> f.offset, append |-> a]
           /\ [f EXCEPT !.offset = o] =
                 [path |-> f.path, entry |-> f.entry, offset |-> o, append |-> f.append]
           /\ Rewritten(f, e, o) =
                 [path |-> f.path, entry |-> e, offset |-> o, append |-> f.append]
<1>1. f = [path |-> f.path, entry |-> f.entry, offset |-> f.offset, append |-> f.append]
  BY DEF OpenFileOK
<1>2. [f EXCEPT !.append = a] = [path |-> f.path, entry |-> f.entry, offset |-> f.offset, append |-> a]
  <2>1. ASSUME NEW p, NEW e1, NEW o1, NEW a1
        PROVE  [[path |-> p, entry |-> e1, offset |-> o1, append |-> a1] EXCEPT !.append = a]
                  = [path |-> p, entry |-> e1, offset |-> o1, append |-> a]
    OBVIOUS
  <2>2. [[path |-> f.path, entry |-> f.entry, offset |-> f.offset, append |-> f.append]
          EXCEPT !.append = a] = [path |-> f.path, entry |-> f.entry, offset |-> f.offset, append |-> a]
    BY <2>1
  <2>. QED BY <1>1, <2>2
<1>3. [f EXCEPT !.offset = o] = [path |-> f.path, entry |-> f.entry, offset |-> o, append |-> f.append]
  <2>1. ASSUME NEW p, NEW e1, NEW o1, NEW a1
        PROVE  [[path |-> p, entry |-> e1, offset |-> o1, append |-> a1] EXCEPT !.offset = o]
                  = [path |-> p, entry |-> e1, offset |-> o, append |-> a1]
    OBVIOUS
  <2>2. [[path |-> f.path, entry |-> f.entry, offset |-> f.offset, append |-> f.append]
          EXCEPT !.offset = o] = [path |-> f.path, entry |-> f.entry, offset |-> o, append |-> f.append]
    BY <2>1
  <2>. QED BY <1>1, <2>2
<1>4. Rewritten(f, e, o) =
         [path |-> f.path, entry |-> e, offset |-> o, append |-> f.append]
  <2>1. ASSUME NEW p, NEW e1, NEW o1, NEW a1
        PROVE  [[path |-> p, entry |-> e1, offset |-> o1, append |-> a1] EXCEPT !.entry = e]
                  = [path |-> p, entry |-> e, offset |-> o1, append |-> a1]
    OBVIOUS
  <2>2. ASSUME NEW p, NEW o1, NEW a1
        PROVE  [[path |-> p, entry |-> e, offset |-> o1, append |-> a1] EXCEPT !.offset = o]
                  = [path |-> p, entry |-> e, offset |-> o, append |-> a1]
    OBVIOUS
  <2>3. [[path |-> f.path, entry |-> f.entry, offset |-> f.offset, append |-> f.append] EXCEPT !.entry = e]
          = [path |-> f.path, entry |-> e, offset |-> f.offset, append |-> f.append]
    BY <2>1
  <2>4. [f EXCEPT !.entry = e] = [path |-> f.path, entry |-> e, offset |-> f.offset, append |-> f.append]
    BY <1>1, <2>3
  <2>5. [[path |-> f.path, entry |-> e, offset |-> f.offset, append |-> f.append] EXCEPT !.offset = o]
          = [path |-> f.path, entry |-> e, offset |-> o, append |-> f.append]
    BY <2>2
  <2>. QED BY <2>4, <2>5 DEF Rewritten
<1>. QED BY <1>2, <1>3, <1>4

\* The last of these alone.
LEMMA RewrittenFields ==
    ASSUME NEW k, NEW f, OpenFileOK(k, f), NEW e, NEW o
    PROVE  Rewritten(f, e, o) = [path |-> f.path, entry |-> e, offset |-> o, append |-> f.append]
BY OpenFields

-----------------------------------------------------------------------------
(* The actions.                                                            *)

\* The state after a step.
Kept == DiskInv(disk') /\ OpenInv(disk', open', next_fd')

\* An open file other than the root.
LEMMA OpenEntry ==
    ASSUME IInv, NEW fd \in DOMAIN open
    PROVE  /\ OpenFileOK(disk, open[fd]) /\ open[fd].path \in Paths
           /\ open[fd].offset \in Nat /\ open[fd].append \in BOOLEAN /\ open[fd].entry.size \in Nat
           /\ open[fd].path = <<>> => open[fd].entry = RootEntry
           /\ open[fd].path # <<>> =>
                 /\ open[fd].entry = find_file(disk, open[fd].path) /\ open[fd].entry # NoEntry
                 /\ open[fd].entry.first \in Clusters
           /\ ~open[fd].entry.dir => open[fd].path # <<>>
           /\ open[fd].entry.first >= 2 => open[fd].path # <<>>
<1>. DEFINE f == open[fd]
<1>1. OpenFileOK(disk, f)
  BY DEF IInv, OpenInv
<1>. HIDE DEF f
<1>2. /\ f.path \in Paths /\ f.offset \in Nat /\ f.append \in BOOLEAN
      /\ f.path = <<>> => f.entry = RootEntry
      /\ f.path # <<>> => f.entry = find_file(disk, f.path) /\ f.entry # NoEntry
  BY <1>1 DEF OpenFileOK
<1>3. CASE f.path = <<>>
  <2>1. f.entry = RootEntry
    BY <1>2, <1>3
  <2>2. RootEntry.dir /\ RootEntry.first = 0 /\ RootEntry.size = RootSlots
    BY DEF RootEntry, Entry
  <2>3. RootSlots \in Nat
    BY Geometry
  <2>4. f.entry.dir /\ f.entry.size \in Nat /\ ~(f.entry.first >= 2)
    BY <2>1, <2>2, <2>3
  <2>. QED BY <1>1, <1>2, <1>3, <2>4 DEF f
<1>4. CASE f.path # <<>>
  <2>1. IsPath(f.path) /\ DiskOK(disk) /\ DiskType(disk)
    BY <1>2, <1>4, PathsAre DEF IInv, DiskInv, DiskOK
  <2>2. PICK x \in Entries(disk) : f.entry = disk.store[x]
    BY <1>2, <1>4, <2>1, FoundLeads
  <2>3. f.entry.size \in Nat /\ f.entry.first \in Clusters
    BY <2>1, <2>2, EntryTypes
  <2>. QED BY <1>1, <1>2, <1>4, <2>3 DEF f
<1>. QED BY <1>3, <1>4

\* _close.
LEMMA CloseKeeps ==
    ASSUME IInv, NEW fd \in DOMAIN open, Close(fd)
    PROVE  Kept /\ disk' = disk
<1>1. disk' = disk /\ next_fd' = next_fd /\ open' = [f \in DOMAIN open \ {fd} |-> open[f]]
  BY DEF Close
<1>2. DiskInv(disk) /\ OpenInv(disk, open, next_fd)
  BY DEF IInv
<1>3. OpenInv(disk, open', next_fd)
  BY <1>1, <1>2, OpenLess
<1>. QED BY <1>1, <1>2, <1>3 DEF Kept

\* The steps that change one open file, and not the disk.
LEMMA FieldKeeps ==
    ASSUME IInv, NEW fd \in DOMAIN open, NEW f, OpenFileOK(disk, f), f.path = open[fd].path,
           open' = [open EXCEPT ![fd] = f], disk' = disk, next_fd' = next_fd
    PROVE  Kept
<1>1. DiskInv(disk) /\ OpenInv(disk, open, next_fd)
  BY DEF IInv
<1>2. open' = [h \in DOMAIN open |-> IF h = fd THEN f ELSE open[h]]
  OBVIOUS
<1>3. OnlyPath(disk, disk, f.path)
  BY ConcernsNone
<1>4. ASSUME NEW op2, op2 = [h \in DOMAIN open |-> IF h = fd THEN f ELSE open[h]]
      PROVE  OpenInv(disk, op2, next_fd)
  BY <1>1, <1>3, <1>4, OpenOther
<1>5. OpenInv(disk, open', next_fd)
  BY <1>2, <1>4
<1>. QED BY <1>1, <1>5 DEF Kept

\* _open of a path that is open.
LEMMA SharedKeeps ==
    ASSUME IInv, NEW p \in Paths, NEW a \in BOOLEAN, OpenShared(p, a)
    PROVE  Kept /\ disk' = disk
<1>1. PICK fd \in find_open_file(p) : open' = [open EXCEPT ![fd].append = a]
  BY DEF OpenShared
<1>2. disk' = disk /\ next_fd' = next_fd
  BY DEF OpenShared
<1>3. fd \in DOMAIN open
  BY DEF find_open_file
<1>. DEFINE f == [open[fd] EXCEPT !.append = a]
<1>4. open' = [open EXCEPT ![fd] = f]
  BY <1>1
<1>5. OpenFileOK(disk, open[fd])
  BY <1>3, OpenEntry
<1>6. f = [path |-> open[fd].path, entry |-> open[fd].entry, offset |-> open[fd].offset, append |-> a]
  BY <1>5, OpenFields
<1>. HIDE DEF f
<1>7. OpenFileOK(disk, f) /\ f.path = open[fd].path
  BY <1>5, <1>6 DEF OpenFileOK
<1>. QED BY <1>2, <1>3, <1>4, <1>7, FieldKeeps

\* The offset of an open file is moved.
LEMMA OffsetKeeps ==
    ASSUME IInv, NEW fd \in DOMAIN open, NEW o \in Nat, open' = [open EXCEPT ![fd].offset = o],
           disk' = disk, next_fd' = next_fd
    PROVE  Kept
<1>. DEFINE f == [open[fd] EXCEPT !.offset = o]
<1>4. open' = [open EXCEPT ![fd] = f]
  OBVIOUS
<1>5. OpenFileOK(disk, open[fd])
  BY OpenEntry
<1>6. f = [path |-> open[fd].path, entry |-> open[fd].entry, offset |-> o, append |-> open[fd].append]
  BY <1>5, OpenFields
<1>. HIDE DEF f
<1>7. OpenFileOK(disk, f) /\ f.path = open[fd].path
  BY <1>5, <1>6 DEF OpenFileOK
<1>. QED BY <1>4, <1>7, FieldKeeps

\* _lseek.
LEMMA LseekKeeps ==
    ASSUME IInv, NEW fd \in DOMAIN open, NEW o \in 0 .. 1,
           NEW w \in {"SEEK_SET", "SEEK_CUR", "SEEK_END"}, Lseek(fd, o, w)
    PROVE  Kept /\ disk' = disk
<1>. DEFINE base == CASE w = "SEEK_SET" -> 0
                      [] w = "SEEK_CUR" -> open[fd].offset
                      [] w = "SEEK_END" -> open[fd].entry.size
<1>1. disk' = disk /\ next_fd' = next_fd /\ open' = [open EXCEPT ![fd].offset = base + o]
  BY DEF Lseek
<1>2. open[fd].offset \in Nat /\ open[fd].entry.size \in Nat
  BY OpenEntry
<1>3. base \in Nat
  BY <1>2
<1>. HIDE DEF base
<1>4. base + o \in Nat
  BY <1>3
<1>. QED BY <1>1, <1>4, OffsetKeeps

\* The length and the elements of a subsequence.
LEMMA SubSeqOf ==
    ASSUME NEW s, NEW m \in Nat, NEW n \in Nat, m >= 1, m <= n + 1
    PROVE  /\ Len(SubSeq(s, m, n)) = n - m + 1
           /\ \A i \in 1 .. n - m + 1 : SubSeq(s, m, n)[i] = s[m + i - 1]
           /\ SubSeq(s, m, n) = [i \in 1 .. n - m + 1 |-> s[m + i - 1]]
<1>. DEFINE S == {s[i] : i \in m .. n}
            t == SubSeq(s, m, n)
<1>1. \A i \in m .. n : s[i] \in S
  OBVIOUS
<1>. HIDE DEF S
<1>2. /\ t \in Seq(S) /\ Len(t) = IF m <= n THEN n - m + 1 ELSE 0
      /\ \A i \in 1 .. n - m + 1 : t[i] = s[m + i - 1]
  BY <1>1, SubSeqProperties
<1>. HIDE DEF t
<1>3. Len(t) = n - m + 1 /\ Len(t) \in Nat
  BY <1>2
<1>4. t \in [1 .. Len(t) -> S]
  BY <1>2, <1>3
<1>5. t = [i \in 1 .. Len(t) |-> t[i]]
  BY <1>4
<1>. QED BY <1>2, <1>3, <1>5 DEF t

\* read_from_file returns at least a block, and no more than it is asked for.
LEMMA ReadLength ==
    ASSUME NEW k, FatType(k), NEW first, NEW o \in Nat, NEW n \in Nat, n >= 1
    PROVE  Len(read_from_file(k, first, o, n)) \in 1 .. n
<1>. DEFINE c == ClusterAt(k, first, o)
            next == Walk(k, get_successor_cluster(k, c))
            s == Steps(next)
            r == Min({s, Needed(o, n) - 1})
            cs == Covered(k, first, o, n)
            x == InCluster(o)
            f == Fitting(cs, o, n)
<1>1. cs = Followed(c, next, r)
  BY DEF Covered
<1>2. s \in Nat
  BY StepsUpToProperties, Geometry DEF Steps
<1>3. Needed(o, n) - 1 \in Nat /\ x \in Nat
  <2>1. Needed(o, n) \in Nat /\ Needed(o, n) >= 1 /\ x \in 0 .. SlotsPerCluster - 1
    BY NeededPositive
  <2>. HIDE DEF x
  <2>. QED BY <2>1, Geometry
<1>. HIDE DEF c, next, s
<1>4. r \in Nat
  BY <1>2, <1>3, MinMaxTwo
<1>. HIDE DEF r
<1>5. Len(cs) \in Nat /\ Len(cs) >= 1
  BY <1>1, <1>4 DEF Followed
<1>. HIDE DEF cs
<1>6. f \in 1 .. n
  BY <1>5, FittingType
<1>. HIDE DEF f, x
<1>7. read_from_file(k, first, o, n) = SubSeq(LoadChain(k, cs), x + 1, x + f)
  BY DEF read_from_file, cs, x, f
<1>8. Len(SubSeq(LoadChain(k, cs), x + 1, x + f)) = (x + f) - (x + 1) + 1
  BY <1>3, <1>6, SubSeqOf
<1>. QED BY <1>3, <1>6, <1>7, <1>8

\* _read moves the offset by what it has read.
LEMMA ReadKeeps ==
    ASSUME IInv, NEW fd \in DOMAIN open, NEW n \in 1 .. MaxWrite, Read(fd, n)
    PROVE  Kept /\ disk' = disk
<1>. DEFINE t == Len(read_from_file(disk, open[fd].entry.first, open[fd].offset, n))
            o == open[fd].offset + t
<1>1. disk' = disk /\ next_fd' = next_fd /\ open' = [open EXCEPT ![fd].offset = o]
  BY DEF Read
<1>2. open[fd].offset \in Nat /\ n \in Nat /\ n >= 1
  BY OpenEntry, Geometry
<1>3. FatType(disk)
  BY DEF IInv, DiskInv, DiskOK, DiskType
<1>4. t \in 1 .. n
  BY <1>2, <1>3, ReadLength
<1>. HIDE DEF t
<1>5. o \in Nat
  BY <1>2, <1>4
<1>. HIDE DEF o
<1>. QED BY <1>1, <1>5, OffsetKeeps

\* No file of path p is open.
LEMMA NotOpen ==
    ASSUME NEW p, find_open_file(p) = {}
    PROVE  \A g \in DOMAIN open : open[g].path # p
BY DEF find_open_file

\* A path that has just been opened.
LEMMA OpenNew ==
    ASSUME NEW k, NEW p \in Paths, NEW a \in BOOLEAN, NEW e, e # NoEntry,
           p = <<>> => e = RootEntry, p # <<>> => e = find_file(k, p)
    PROVE  OpenFileOK(k, OpenFile(p, e, a)) /\ OpenFile(p, e, a).path = p
<1>. DEFINE f == OpenFile(p, e, a)
<1>1. f.path = p /\ f.entry = e /\ f.offset = 0 /\ f.append = a
  BY DEF OpenFile
<1>2. f = [path |-> p, entry |-> e, offset |-> 0, append |-> a]
  BY DEF OpenFile
<1>. HIDE DEF f
<1>3. f = [path |-> f.path, entry |-> f.entry, offset |-> f.offset, append |-> f.append]
  BY <1>1, <1>2
<1>. QED BY <1>1, <1>3 DEF f, OpenFileOK

\* open_file on the disk k.
LEMMA OpenedKeeps ==
    ASSUME NEW k, DiskInv(k), OpenInv(k, open, next_fd), next_fd <= MaxFd, NEW p \in Paths,
           \A g \in DOMAIN open : open[g].path # p, NEW a \in BOOLEAN, Opened(k, p, a)
    PROVE  Kept /\ disk' = k
<1>. DEFINE e == IF p = <<>> THEN RootEntry ELSE find_file(k, p)
            f == OpenFile(p, e, a)
<1>1. disk' = k
  BY DEF Opened
<1>2. CASE e = NoEntry
  <2>1. open' = open /\ next_fd' = next_fd
    BY <1>2 DEF Opened
  <2>. QED BY <1>1, <2>1 DEF Kept
<1>3. CASE e # NoEntry
  <2>1. open' = WithFile(next_fd, f) /\ next_fd' = next_fd + 1
    BY <1>3 DEF Opened
  <2>2. (p = <<>> => e = RootEntry) /\ (p # <<>> => e = find_file(k, p))
    OBVIOUS
  <2>. HIDE DEF e
  <2>3. OpenFileOK(k, f) /\ f.path = p
    <3>1. ASSUME NEW x, x # NoEntry, p = <<>> => x = RootEntry, p # <<>> => x = find_file(k, p)
          PROVE  OpenFileOK(k, OpenFile(p, x, a)) /\ OpenFile(p, x, a).path = p
      BY ONLY <3>1, p \in Paths, a \in BOOLEAN, OpenNew
    <3>2. OpenFileOK(k, OpenFile(p, e, a)) /\ OpenFile(p, e, a).path = p
      BY ONLY <3>1, <1>3, <2>2
    <3>. QED BY <3>2
  <2>. HIDE DEF f
  <2>4. open' = [g \in DOMAIN open \cup {next_fd} |-> IF g = next_fd THEN f ELSE open[g]]
    BY <2>1 DEF WithFile
  <2>5. ASSUME NEW op2, op2 = [g \in DOMAIN open \cup {next_fd} |-> IF g = next_fd THEN f ELSE open[g]]
        PROVE  OpenInv(k, op2, next_fd + 1)
    BY <2>3, <2>5, OpenMore
  <2>6. OpenInv(k, open', next_fd + 1)
    BY <2>4, <2>5
  <2>. QED BY <1>1, <2>1, <2>6 DEF Kept
<1>. QED BY <1>2, <1>3

\* _open of a path that is on the disk.
LEMMA ExistingKeeps ==
    ASSUME IInv, NEW p \in Paths, NEW a \in BOOLEAN, OpenExisting(p, a)
    PROVE  Kept /\ disk' = disk
<1>1. \A g \in DOMAIN open : open[g].path # p
  BY NotOpen DEF OpenExisting
<1>2. next_fd <= MaxFd /\ Opened(disk, p, a)
  BY DEF OpenExisting
<1>3. DiskInv(disk) /\ OpenInv(disk, open, next_fd)
  BY DEF IInv
<1>. QED BY <1>1, <1>2, <1>3, OpenedKeeps

\* What create_new_file does when the callers keep clear of the edges.
LEMMA MayCreate ==
    ASSUME IInv, Callers, NEW p \in Paths, p # <<>>, NEW dir \in BOOLEAN, find_file(disk, p) = NoEntry,
           Permitted(p), dir => Last(p) \in PlainNames, ~dir => Last(p) \in FullNames,
           NEW k2, k2 = create_new_file(disk, p, dir).disk
    PROVE  /\ Concerns(disk, k2, p)
           /\ ~create_new_file(disk, p, dir).ok => k2 = disk
           /\ create_new_file(disk, p, dir).ok =>
                 /\ ParentOf(disk, p) \in Dirs(disk)
                 /\ find_file(k2, p) = Entry(Last(p), dir, find_first_free_cluster(disk), 0)
                 /\ find_file(k2, p) # NoEntry
<1>1. Uses = {}
  BY DEF Callers
<1>2. /\ find_first_free_cluster(disk) # 0
      /\ ParentOf(disk, p) = Root => FreeSlots(disk, Root) \cap 1 .. RootSlots # {}
      /\ ParentOf(disk, p) \notin {Root, NoDir} => FreeSlots(disk, ParentOf(disk, p)) # {}
  BY <1>1 DEF Permitted
<1>3. DiskInv(disk)
  BY DEF IInv
<1>. QED BY <1>2, <1>3, CreateCall

\* _open of a path that is not on the disk.
LEMMA CreatingKeeps ==
    ASSUME IInv, Callers, NEW p \in Paths, NEW a \in BOOLEAN, OpenCreating(p, a)
    PROVE  /\ Kept /\ Concerns(disk, disk', p) /\ p # <<>> /\ ParentOf(disk, p) \in Dirs(disk)
           /\ find_file(disk, p) = NoEntry
           /\ find_file(disk', p) = Entry(Last(p), FALSE, find_first_free_cluster(disk), 0)
<1>. DEFINE k2 == create_new_file(disk, p, FALSE).disk
<1>1. /\ \A g \in DOMAIN open : open[g].path # p
      /\ p # <<>> /\ find_file(disk, p) = NoEntry /\ Permitted(p) /\ next_fd <= MaxFd
      /\ create_new_file(disk, p, FALSE).ok
  BY NotOpen DEF OpenCreating
<1>2. Opened(k2, p, a)
  BY DEF OpenCreating
<1>3. Last(p) \in FullNames
  <2>1. Last(p) \notin PlainNames /\ Last(p) \notin LongNames
    BY DEF OpenCreating, PermittedName, Callers
  <2>2. p \in Seq(Names) /\ p # <<>>
    BY <1>1, NamesAssumption
  <2>3. Last(p) \in Names
    BY <2>2 DEF Last
  <2>. QED BY <2>1, <2>3 DEF Names
<1>. HIDE DEF k2
<1>4. /\ Concerns(disk, k2, p) /\ ParentOf(disk, p) \in Dirs(disk)
      /\ find_file(k2, p) = Entry(Last(p), FALSE, find_first_free_cluster(disk), 0)
  BY <1>1, <1>3, MayCreate DEF k2
<1>5. DiskInv(k2) /\ OnlyPath(disk, k2, p)
  BY <1>4 DEF Concerns
<1>6. OpenInv(disk, open, next_fd)
  BY DEF IInv
<1>7. OpenInv(k2, open, next_fd)
  BY <1>1, <1>5, <1>6, OpenSame
<1>8. Kept /\ disk' = k2
  BY <1>1, <1>2, <1>5, <1>7, OpenedKeeps
<1>. QED BY <1>1, <1>4, <1>8

\* A path that names nothing is not open.
LEMMA AbsentNotOpen ==
    ASSUME IInv, NEW p, p # <<>>, find_file(disk, p) = NoEntry
    PROVE  \A g \in DOMAIN open : open[g].path # p
<1>1. ASSUME NEW g \in DOMAIN open, open[g].path = p PROVE FALSE
  BY <1>1, OpenEntry
<1>. QED BY <1>1

\* mkdir.
LEMMA MkdirKeeps ==
    ASSUME IInv, Callers, NEW p \in Paths, p \in DirPaths, Mkdir(p)
    PROVE  /\ Kept /\ Concerns(disk, disk', p) /\ p # <<>> /\ find_file(disk, p) = NoEntry
           /\ \/ disk' = disk
              \/ /\ ParentOf(disk, p) \in Dirs(disk)
                 /\ find_file(disk', p) = Entry(Last(p), TRUE, find_first_free_cluster(disk), 0)
<1>. DEFINE k2 == create_new_file(disk, p, TRUE).disk
<1>1. p # <<>> /\ find_file(disk, p) = NoEntry /\ Permitted(p)
  BY DEF Mkdir
<1>2. disk' = k2 /\ open' = open /\ next_fd' = next_fd
  BY DEF Mkdir
<1>3. Last(p) \in PlainNames
  BY <1>1 DEF Callers
<1>. HIDE DEF k2
<1>4. /\ Concerns(disk, k2, p)
      /\ ~create_new_file(disk, p, TRUE).ok => k2 = disk
      /\ create_new_file(disk, p, TRUE).ok =>
            /\ ParentOf(disk, p) \in Dirs(disk)
            /\ find_file(k2, p) = Entry(Last(p), TRUE, find_first_free_cluster(disk), 0)
  <2>1. TRUE \in BOOLEAN /\ k2 = create_new_file(disk, p, TRUE).disk
    BY DEF k2
  <2>. QED BY <1>1, <1>3, <2>1, MayCreate
<1>5. DiskInv(k2) /\ OnlyPath(disk, k2, p)
  BY <1>4 DEF Concerns
<1>6. OpenInv(disk, open, next_fd)
  BY DEF IInv
<1>7. OpenInv(k2, open, next_fd)
  BY <1>1, <1>5, <1>6, OpenSame, AbsentNotOpen
<1>. QED BY <1>1, <1>2, <1>4, <1>5, <1>7 DEF Kept

\* A name without a full extension matches no entry.
LEMMA PlainStays ==
    ASSUME NEW k, NEW p, NEW e, Last(p) \notin FullNames
    PROVE  update_file_details(k, p, e) = k
BY DEF update_file_details, Updated, Matches

\* _unlink.
LEMMA UnlinkKeeps ==
    ASSUME IInv, Callers, NEW p \in Paths, Unlink(p)
    PROVE  /\ Kept
           /\ \/ disk' = disk
              \/ /\ Concerns(disk, disk', p) /\ p # <<>>
                 /\ find_file(disk, p) # NoEntry /\ ~find_file(disk, p).dir
                 /\ find_file(disk', p) = NoEntry
<1>. DEFINE k2 == Unlinked(p)
<1>1. p # <<>> /\ find_file(disk, p) # NoEntry /\ \A g \in DOMAIN open : open[g].path # p
  BY NotOpen DEF Unlink, MayUnlink
<1>2. disk' = k2 /\ open' = open /\ next_fd' = next_fd
  BY DEF Unlink
<1>3. k2 = update_file_details(disk, p, Deleted)
  BY DEF Unlinked
<1>4. DiskInv(disk) /\ OpenInv(disk, open, next_fd)
  BY DEF IInv
<1>. HIDE DEF k2
<1>5. CASE Last(p) \notin FullNames
  <2>1. k2 = disk
    BY <1>3, <1>5, PlainStays
  <2>. QED BY <1>2, <1>4, <2>1 DEF Kept
<1>6. CASE Last(p) \in FullNames
  <2>1. Concerns(disk, k2, p) /\ find_file(k2, p) = NoEntry /\ ~find_file(disk, p).dir
    BY <1>1, <1>3, <1>4, <1>6, UnlinkCall
  <2>2. DiskInv(k2) /\ OnlyPath(disk, k2, p)
    BY <2>1 DEF Concerns
  <2>3. OpenInv(k2, open, next_fd)
    BY <1>1, <1>4, <2>2, OpenSame
  <2>. QED BY <1>1, <1>2, <2>1, <2>2, <2>3 DEF Kept
<1>. QED BY <1>5, <1>6

\* sys_write, at an offset that is in the chain or where it ends.
LEMMA WriteKeeps ==
    ASSUME IInv, Callers, NEW fd \in DOMAIN open, NEW buf \in Buffers, Write(fd, buf),
           NEW p, p = open[fd].path, NEW e0, e0 = open[fd].entry,
           NEW o, o = WriteOffset(open[fd]),
           NEW n, n = write_to_file(disk, e0.first, o, buf).n,
           NEW k1, k1 = write_to_file(disk, e0.first, o, buf).disk,
           NEW e, e = EntryAfter(e0, o, n)
    PROVE  /\ Kept /\ Concerns(disk, disk', p) /\ p \in Paths /\ p # <<>> /\ ~e0.dir /\ o \in Nat
           /\ e0 = find_file(disk, p) /\ e0 # NoEntry
           /\ find_file(disk', p) = e /\ e # NoEntry /\ n \in 1 .. Len(buf)
           /\ WrittenPath(disk, k1, disk', p, o, buf, n, e)
<1>. DEFINE k2 == DiskAfter(k1, p, e0, e)
            f == Rewritten(open[fd], e, o + n)
<1>1. ~e0.dir
  BY DEF Write
<1>2. InChain(ClusterAt(disk, e0.first, o))
  BY DEF Write, Callers
<1>3. disk' = k2
  BY DEF Write, EntryAfter, DiskAfter
<1>4. open' = [open EXCEPT ![fd].entry = e, ![fd].offset = o + n] /\ next_fd' = next_fd
  BY DEF Write, EntryAfter
<1>5. open' = [open EXCEPT ![fd] = f]
  BY <1>4 DEF Rewritten
<1>6. /\ OpenFileOK(disk, open[fd]) /\ p \in Paths /\ open[fd].offset \in Nat
      /\ open[fd].append \in BOOLEAN /\ e0.size \in Nat
      /\ p # <<>> => e0 = find_file(disk, p) /\ e0 # NoEntry
      /\ ~e0.dir => p # <<>>
  BY OpenEntry
<1>7. o \in Nat
  BY <1>6 DEF WriteOffset
<1>8. f = [path |-> p, entry |-> e, offset |-> o + n, append |-> open[fd].append]
  BY <1>6, RewrittenFields
<1>9. DiskInv(disk) /\ OpenInv(disk, open, next_fd)
  BY DEF IInv
<1>10. p # <<>> /\ e0 = find_file(disk, p) /\ e0 # NoEntry
  BY <1>1, <1>6
<1>. HIDE DEF f, k2
<1>11. /\ Concerns(disk, k2, p) /\ find_file(k2, p) = e /\ e # NoEntry /\ n \in 1 .. Len(buf)
       /\ WrittenPath(disk, k1, k2, p, o, buf, n, e)
  BY <1>1, <1>2, <1>6, <1>7, <1>9, <1>10, WriteCall DEF k2
<1>12. o + n \in Nat
  BY <1>7, <1>11
<1>13. OpenFileOK(k2, f) /\ f.path = p
  BY <1>6, <1>8, <1>10, <1>11, <1>12 DEF OpenFileOK
<1>14. DiskInv(k2) /\ OnlyPath(disk, k2, p)
  BY <1>11 DEF Concerns
<1>15. open' = [h \in DOMAIN open |-> IF h = fd THEN f ELSE open[h]]
  BY <1>5
<1>16. ASSUME NEW op2, op2 = [h \in DOMAIN open |-> IF h = fd THEN f ELSE open[h]]
       PROVE  OpenInv(k2, op2, next_fd)
  BY <1>9, <1>13, <1>14, <1>16, OpenOther
<1>17. OpenInv(k2, open', next_fd)
  BY <1>15, <1>16
<1>18. Kept
  BY <1>3, <1>4, <1>14, <1>17 DEF Kept
<1>. QED BY <1>1, <1>3, <1>6, <1>7, <1>10, <1>11, <1>18

\* Every call keeps the disk and the open files as they should be.
LEMMA NextKeeps ==
    ASSUME IInv, Callers, Next
    PROVE  IInv'
<1>1. CASE FileCall
  <2>1. PICK fd \in DOMAIN open :
            \/ Close(fd)
            \/ \E b \in Buffers : Write(fd, b)
            \/ \E n \in 1 .. MaxWrite : Read(fd, n)
            \/ \E o \in 0 .. 1, w \in {"SEEK_SET", "SEEK_CUR", "SEEK_END"} : Lseek(fd, o, w)
    BY <1>1 DEF FileCall
  <2>2. ASSUME Close(fd) PROVE Kept
    BY <2>2, CloseKeeps
  <2>3. ASSUME NEW b \in Buffers, Write(fd, b) PROVE Kept
    BY <2>3, WriteKeeps
  <2>4. ASSUME NEW n \in 1 .. MaxWrite, Read(fd, n) PROVE Kept
    BY <2>4, ReadKeeps
  <2>5. ASSUME NEW o \in 0 .. 1, NEW w \in {"SEEK_SET", "SEEK_CUR", "SEEK_END"}, Lseek(fd, o, w)
        PROVE  Kept
    BY <2>5, LseekKeeps
  <2>6. Kept
    BY <2>1, <2>2, <2>3, <2>4, <2>5
  <2>. QED BY <2>6 DEF Kept, IInv, Next
<1>2. CASE PathCall
  <2>1. PICK p \in Paths :
            \/ \E a \in BOOLEAN : OpenShared(p, a) \/ OpenExisting(p, a) \/ OpenCreating(p, a)
            \/ Unlink(p)
            \/ p \in DirPaths /\ Mkdir(p)
    BY <1>2 DEF PathCall
  <2>2. ASSUME NEW a \in BOOLEAN, OpenShared(p, a) PROVE Kept
    BY <2>2, SharedKeeps
  <2>3. ASSUME NEW a \in BOOLEAN, OpenExisting(p, a) PROVE Kept
    BY <2>3, ExistingKeeps
  <2>4. ASSUME NEW a \in BOOLEAN, OpenCreating(p, a) PROVE Kept
    BY <2>4, CreatingKeeps
  <2>5. ASSUME Unlink(p) PROVE Kept
    BY <2>5, UnlinkKeeps
  <2>6. ASSUME p \in DirPaths, Mkdir(p) PROVE Kept
    BY <2>6, MkdirKeeps
  <2>7. Kept
    BY <2>1, <2>2, <2>3, <2>4, <2>5, <2>6
  <2>. QED BY <2>7 DEF Kept, IInv, Next
<1>. QED BY <1>1, <1>2 DEF Next

\* A freshly formatted disk.
LEMMA FreshDisk ==
    ASSUME NEW k, k = [fat   |-> [c \in FatCells |-> IF c < 2 THEN EOC ELSE Free],
                       store |-> [a \in 1 .. Blocks |-> Zero]]
    PROVE  DiskInv(k) /\ Entries(k) = {} /\ \A p \in Seq(Names) : p # <<>> => find_file(k, p) = NoEntry
<1>1. /\ k.fat = [c \in FatCells |-> IF c < 2 THEN EOC ELSE Free]
      /\ k.store = [a \in 1 .. Blocks |-> Zero]
      /\ k = [fat |-> k.fat, store |-> k.store]
  OBVIOUS
<1>2. FatType(k)
  BY <1>1, Cells DEF FatType
<1>3. \A a \in 1 .. Blocks : k.store[a] = Zero /\ Zero \in BlockSet
  BY <1>1 DEF BlockSet
<1>4. DiskType(k)
  BY <1>1, <1>2, <1>3 DEF DiskType
<1>5. Entries(k) = {}
  BY <1>3 DEF Entries, Zero
<1>6. /\ \A c \in Clusters : k.fat[c] = Free
      /\ k.fat[0] = EOC /\ k.fat[1] = EOC
  <2>1. ASSUME NEW c \in Clusters PROVE k.fat[c] = Free
    <3>1. c \in FatCells /\ ~(c < 2)
      BY Cells DEF Clusters
    <3>. QED BY <1>1, <3>1
  <2>2. k.fat[0] = EOC /\ k.fat[1] = EOC
    BY <1>1, Cells
  <2>. QED BY <2>1, <2>2
<1>7. FatOK(k)
  BY <1>6, Cells DEF FatOK
<1>8. EntryOK(k)
  BY <1>5 DEF EntryOK
<1>9. Dirs(k) = {Root}
  BY <1>5 DEF Dirs
<1>10. \A d \in Dirs(k) : Region(d) \subseteq 1 .. Blocks
  BY <1>9, RegionOnDisk
<1>11. DirOK(k)
  BY <1>3, <1>5, <1>10 DEF DirOK
<1>12. FreeOK(k)
  <2>1. \A c \in Clusters : Region(c) \subseteq 1 .. Blocks
    BY RegionOnDisk
  <2>. QED BY <1>3, <2>1 DEF FreeOK
<1>13. DiskOK(k)
  BY <1>4, <1>7, <1>8, <1>11, <1>12 DEF DiskOK
<1>14. ASSUME NEW p \in Seq(Names), p # <<>> PROVE find_file(k, p) = NoEntry
  <2>1. IsPath(p)
    BY <1>14 DEF IsPath
  <2>. QED BY <1>5, <1>13, <2>1, FoundLeads
<1>15. KnownOK(k)
  BY <1>14 DEF KnownOK
<1>16. SizeOK(k)
  BY <1>5 DEF SizeOK
<1>. QED BY <1>5, <1>13, <1>14, <1>15, <1>16 DEF DiskInv

\* The file system starts with nothing open.
LEMMA InitHolds ==
    ASSUME Init
    PROVE  IInv
<1>1. DiskInv(disk)
  BY FreshDisk DEF Init
<1>2. DOMAIN open = {} /\ open = <<>>
  BY DEF Init
<1>3. open = [g \in DOMAIN open |-> open[g]]
  BY <1>2
<1>4. next_fd \in FirstFd .. MaxFd + 1
  BY GeometryAssumption DEF Init, FirstFd
<1>5. OpenInv(disk, open, next_fd)
  BY <1>2, <1>3, <1>4 DEF OpenInv
<1>. QED BY <1>1, <1>5 DEF IInv, Init

\* The invariant holds of every state the callers can bring the file system into.
THEOREM DiskStaysSound ==
    ASSUME Callers
    PROVE  Spec => []IInv
<1>1. Init => IInv
  BY InitHolds
<1>2. IInv /\ [Next]_vars => IInv'
  <2>1. ASSUME IInv, UNCHANGED vars PROVE IInv'
    BY <2>1 DEF vars, IInv, AllContents
  <2>2. ASSUME IInv, Next PROVE IInv'
    BY <2>2, NextKeeps
  <2>. QED BY <2>1, <2>2
<1>. QED BY <1>1, <1>2, PTL DEF Spec

-----------------------------------------------------------------------------
(* What the invariant says of the properties.                              *)

\* What a path that names something leads to.
LEMMA PresentEntry ==
    ASSUME IInv, NEW p \in Present
    PROVE  /\ DiskOK(disk) /\ IsPath(p)
           /\ \E a \in Entries(disk) : Leads(disk, p, a) /\ find_file(disk, p) = disk.store[a]
<1>1. p \in Paths /\ p # <<>> /\ find_file(disk, p) # NoEntry
  BY DEF Present
<1>2. DiskOK(disk) /\ IsPath(p)
  BY <1>1, PathsAre DEF IInv, DiskInv
<1>. QED BY <1>1, <1>2, FoundLeads

\* The state has the types of the code.
LEMMA TypeHolds ==
    ASSUME IInv
    PROVE  TypeOK
<1>1. DiskOK(disk) /\ DiskType(disk) /\ FatType(disk) /\ OpenInv(disk, open, next_fd)
  BY DEF IInv, DiskInv, DiskOK, DiskType
<1>2. disk.fat \in [FatCells -> FatCells]
  BY <1>1 DEF FatType
<1>3. DOMAIN disk.store = 1 .. Blocks
  BY <1>1 DEF DiskType
<1>4. ASSUME NEW a \in 1 .. Blocks, disk.store[a].kind = "entry"
      PROVE  disk.store[a].first \in 0 .. LastCluster /\ disk.store[a].name \in Names
  <2>1. a \in Entries(disk)
    BY <1>4 DEF Entries
  <2>2. disk.store[a].first \in Clusters /\ disk.store[a].name \in Names
    BY <1>1, <2>1, EntryTypes
  <2>. QED BY <2>2, Geometry DEF Clusters
<1>5. next_fd \in FirstFd .. MaxFd + 1 /\ DOMAIN open \subseteq FirstFd .. next_fd - 1
  BY <1>1 DEF OpenInv
<1>6. ASSUME NEW fd \in DOMAIN open PROVE open[fd].path \in Paths /\ open[fd].entry.kind = "entry"
  <2>1. /\ open[fd].path \in Paths
        /\ open[fd].path = <<>> => open[fd].entry = RootEntry
        /\ open[fd].path # <<>> => open[fd].entry = find_file(disk, open[fd].path) /\ open[fd].entry # NoEntry
    BY OpenEntry
  <2>2. CASE open[fd].path = <<>>
    <3>1. RootEntry.kind = "entry"
      BY DEF RootEntry, Entry
    <3>. QED BY <2>1, <2>2, <3>1
  <2>3. CASE open[fd].path # <<>>
    <3>1. open[fd].path \in Present
      BY <2>1, <2>3 DEF Present
    <3>2. PICK a \in Entries(disk) : find_file(disk, open[fd].path) = disk.store[a]
      BY <3>1, PresentEntry
    <3>3. disk.store[a].kind = "entry"
      BY DEF Entries
    <3>. QED BY <2>1, <2>3, <3>2, <3>3
  <2>. QED BY <2>1, <2>2, <2>3
<1>. QED BY <1>2, <1>3, <1>4, <1>5, <1>6 DEF TypeOK

\* The chains of two paths have no cluster in common, and none comes twice in one.
LEMMA ChainsHold ==
    ASSUME IInv
    PROVE  ChainsDisjoint
<1>1. ASSUME NEW p \in Present, NEW cs, cs = ClustersOf(p)
      PROVE  cs # <<>> /\ IsInjective(cs) /\ disk.fat[Last(cs)] = EOC
  <2>1. PICK a \in Entries(disk) : DiskOK(disk) /\ find_file(disk, p) = disk.store[a]
    BY PresentEntry
  <2>. DEFINE w == Walk(disk, disk.store[a].first)
              L == Len(cs)
  <2>2. cs = Chain(disk, disk.store[a].first)
    BY <1>1, <2>1 DEF ClustersOf
  <2>3. /\ IsWalk(w, disk, disk.store[a].first) /\ Steps(w) \in 1 .. LastCluster - 1 /\ L = Steps(w)
        /\ DOMAIN cs = 1 .. L /\ w[L] = EOC /\ cs \in Seq(Clusters)
        /\ \A i \in 1 .. L : cs[i] = w[i - 1] /\ cs[i] \in Clusters
    BY <2>1, <2>2, EntryChain
  <2>4. L \in Nat /\ L >= 1
    BY <2>3, Geometry
  <2>5. cs # <<>>
    BY <2>4
  <2>6. ASSUME NEW i \in DOMAIN cs, NEW j \in DOMAIN cs, cs[i] = cs[j] PROVE i = j
    BY <2>1, <2>2, <2>3, <2>6, ChainsApart
  <2>7. IsInjective(cs)
    BY <2>6 DEF IsInjective
  <2>. HIDE DEF w, L
  <2>8. L - 1 \in Nat /\ (L - 1) + 1 = L /\ L \in 1 .. L
    BY <2>4
  <2>9. cs[L] = w[L - 1] /\ w[L - 1] \in Clusters
    BY <2>3, <2>8
  <2>10. w[(L - 1) + 1] = disk.fat[w[L - 1]]
    BY <2>3, <2>8, <2>9 DEF IsWalk
  <2>11. disk.fat[cs[L]] = EOC
    BY <2>3, <2>8, <2>9, <2>10
  <2>12. Last(cs) = cs[L]
    BY DEF Last, L
  <2>. QED BY <2>5, <2>7, <2>11, <2>12
<1>2. ASSUME NEW p \in Present, NEW q \in Present, p # q
      PROVE  ToSet(ClustersOf(p)) \cap ToSet(ClustersOf(q)) = {}
  <2>1. PICK a \in Entries(disk) : Leads(disk, p, a) /\ find_file(disk, p) = disk.store[a]
    BY PresentEntry
  <2>2. PICK b \in Entries(disk) : Leads(disk, q, b) /\ find_file(disk, q) = disk.store[b]
    BY PresentEntry
  <2>3. DiskOK(disk) /\ IsPath(p) /\ IsPath(q)
    BY PresentEntry
  <2>4. a # b
    BY <1>2, <2>1, <2>2, <2>3, LeadsUnique
  <2>. DEFINE cs == Chain(disk, disk.store[a].first)
              ds == Chain(disk, disk.store[b].first)
  <2>5. ClustersOf(p) = cs /\ ClustersOf(q) = ds
    BY <2>1, <2>2 DEF ClustersOf
  <2>6. DOMAIN cs = 1 .. Len(cs) /\ DOMAIN ds = 1 .. Len(ds)
    BY <2>3, EntryChain
  <2>7. ASSUME NEW i \in DOMAIN cs, NEW j \in DOMAIN ds PROVE cs[i] # ds[j]
    <3>1. ASSUME cs[i] = ds[j] PROVE FALSE
      BY <2>3, <2>4, <2>6, <3>1, ChainsApart
    <3>. QED BY <3>1
  <2>. HIDE DEF cs, ds
  <2>8. ToSet(cs) \cap ToSet(ds) = {}
    BY <2>7 DEF ToSet
  <2>. QED BY <2>5, <2>8
<1>. QED BY <1>1, <1>2 DEF ChainsDisjoint

\* The entry of an open file is the one on the disk.
LEMMA OpenHolds ==
    ASSUME IInv
    PROVE  OpenMatchesDisk
BY OpenEntry DEF OpenMatchesDisk

\* A file that may be removed is gone afterwards, or nothing has changed.
LEMMA UnlinkHolds ==
    ASSUME IInv
    PROVE  UnlinkRemoves
<1>. SUFFICES ASSUME NEW p \in Paths, MayUnlink(p)
              PROVE  IF Last(p) \in FullNames THEN find_file(Unlinked(p), p) = NoEntry
                     ELSE Unlinked(p) = disk
  BY DEF UnlinkRemoves
<1>1. p # <<>> /\ find_file(disk, p) # NoEntry /\ DiskInv(disk)
  BY DEF MayUnlink, IInv
<1>2. CASE Last(p) \in FullNames
  BY <1>1, <1>2, UnlinkCall DEF Unlinked
<1>3. CASE Last(p) \notin FullNames
  BY <1>3, PlainStays DEF Unlinked
<1>. QED BY <1>2, <1>3

\* The links of the FAT lead to clusters it describes, entries name such clusters,
\* and descriptors are those get_next_filedesc has handed out, for every geometry
\* of the disk and every set of paths.
THEOREM FileTypesCorrect ==
    ASSUME Callers
    PROVE  Spec => []TypeOK
<1>1. IInv => TypeOK
  BY TypeHolds
<1>. QED BY <1>1, DiskStaysSound, PTL

\* create_new_file and write_to_file, which take the first free clusters and link
\* them, never give two files, or one file twice, the same cluster.
THEOREM ChainsStayDisjoint ==
    ASSUME Callers
    PROVE  Spec => []ChainsDisjoint
<1>1. IInv => ChainsDisjoint
  BY ChainsHold
<1>. QED BY <1>1, DiskStaysSound, PTL

\* The directory entry that sys_open copies to the open file stays the one that is
\* on the disk, whatever sys_write does to both.
THEOREM OpenFilesMatch ==
    ASSUME Callers
    PROVE  Spec => []OpenMatchesDisk
<1>1. IInv => OpenMatchesDisk
  BY OpenHolds
<1>. QED BY <1>1, DiskStaysSound, PTL

\* When sys_unlink, which ignores the result of update_file_details, returns 0, a
\* file with a full extension is gone, whatever else has been created and removed in
\* its directory, and for any other name the disk is what it was.
THEOREM UnlinkRemovesOrLeaves ==
    ASSUME Callers
    PROVE  Spec => []UnlinkRemoves
<1>1. IInv => UnlinkRemoves
  BY UnlinkHolds
<1>. QED BY <1>1, DiskStaysSound, PTL

-----------------------------------------------------------------------------
(* Reading.                                                                *)

\* The clusters that n blocks need have room for them.
LEMMA NeededRoom ==
    ASSUME NEW o \in Nat, NEW n \in Nat, n >= 1
    PROVE  InCluster(o) + n <= Needed(o, n) * SlotsPerCluster
<1>. DEFINE r == InCluster(o)
            y == r + n + SlotsPerCluster - 1
            q == y \div SlotsPerCluster
            t == y % SlotsPerCluster
            z == q * SlotsPerCluster
<1>1. r \in 0 .. SlotsPerCluster - 1
  BY NeededPositive
<1>. HIDE DEF r
<1>2. y \in Nat
  BY <1>1, Geometry
<1>. HIDE DEF y
<1>3. q \in Nat /\ t \in 0 .. SlotsPerCluster - 1 /\ y = z + t
  BY <1>2, Division
<1>4. Needed(o, n) = q
  BY DEF Needed, q, y, r
<1>5. z \in Nat
  BY <1>3, Geometry
<1>. HIDE DEF q, t, z
<1>6. r + n + SlotsPerCluster - 1 = z + t
  BY <1>3 DEF y
<1>7. r + n <= z
  BY <1>1, <1>3, <1>5, <1>6, Geometry
<1>. QED BY <1>4, <1>7 DEF r, z, q

\* The blocks of a file, in order.
BlocksOf(k, x) == [i \in 1 .. k.store[x].size |-> k.store[AddressAt(Chain(k, k.store[x].first), i)]]

\* load_file, cut to the size of the file, returns its blocks.
LEMMA FileData ==
    ASSUME NEW k, DiskOK(k), SizeOK(k), NEW x \in Entries(k), ~k.store[x].dir,
           NEW cs, cs = Chain(k, k.store[x].first), NEW s, s = k.store[x].size
    PROVE  /\ s \in Nat /\ Len(cs) \in Nat /\ s <= Len(cs) * SlotsPerCluster
           /\ \A i \in 1 .. Len(cs) * SlotsPerCluster :
                 LoadBlock(k, AddressAt(cs, i)) = k.store[AddressAt(cs, i)]
           /\ SubSeq(LoadChain(k, cs), 1, Min({s, Len(LoadChain(k, cs))})) = BlocksOf(k, x)
<1>. DEFINE all == LoadChain(k, cs)
            z == Len(cs) * SlotsPerCluster
<1>1. s \in Nat
  BY EntryTypes DEF DiskOK
<1>2. Len(cs) \in Nat /\ \A j \in 1 .. Len(cs) : cs[j] \in Clusters
  BY EntryChain
<1>3. s <= z
  BY DEF SizeOK, FitsIn
<1>4. z \in Nat
  BY <1>2, Geometry
<1>5. ASSUME NEW i \in 1 .. z PROVE LoadBlock(k, AddressAt(cs, i)) = k.store[AddressAt(cs, i)]
  <2>1. AddressAt(cs, i) \in 1 .. Blocks
    BY <1>2, AddressIn
  <2>. QED BY <2>1 DEF LoadBlock
<1>. HIDE DEF z
<1>6. all = [i \in 1 .. z |-> LoadBlock(k, AddressAt(cs, i))]
  BY DEF LoadChain, z
<1>. HIDE DEF all
<1>7. Len(all) = z /\ \A i \in 1 .. z : all[i] = k.store[AddressAt(cs, i)]
  BY <1>4, <1>5, <1>6
<1>8. Min({s, Len(all)}) = s
  BY <1>1, <1>3, <1>4, <1>7, MinMaxTwo
<1>9. SubSeq(all, 1, s) = [i \in 1 .. s - 1 + 1 |-> all[1 + i - 1]]
  BY <1>1, SubSeqOf
<1>10. SubSeq(all, 1, s) = [i \in 1 .. s |-> k.store[AddressAt(cs, i)]]
  <2>1. s - 1 + 1 = s
    BY <1>1
  <2>2. ASSUME NEW i \in 1 .. s PROVE all[1 + i - 1] = k.store[AddressAt(cs, i)]
    <3>1. i \in 1 .. z /\ 1 + i - 1 = i
      BY <1>1, <1>3, <1>4
    <3>. QED BY <3>1, <1>7
  <2>. QED BY <1>9, <2>1, <2>2
<1>. QED BY <1>1, <1>2, <1>3, <1>5, <1>8, <1>10 DEF BlocksOf, all, z

\* The n elements of a sequence after the first o.
Part(s, o, n) == [i \in 1 .. n |-> s[o + i]]

\* read_from_file inside a file returns the blocks from the offset on.
LEMMA ReadInside ==
    ASSUME NEW k, DiskOK(k), SizeOK(k), NEW x \in Entries(k), ~k.store[x].dir,
           NEW o \in Nat, NEW n \in Nat, n >= 1, o + n <= k.store[x].size
    PROVE  read_from_file(k, k.store[x].first, o, n) = Part(BlocksOf(k, x), o, n)
<1>. DEFINE first == k.store[x].first
            s == k.store[x].size
            cs == Chain(k, first)
            L == Len(cs)
            S == SlotsPerCluster
            q == o \div S
            r == InCluster(o)
            old == Covered(k, first, o, n)
            m == Len(old)
            d == Needed(o, n)
<1>1. /\ s \in Nat /\ L \in Nat /\ s <= L * S
      /\ \A i \in 1 .. L * S : LoadBlock(k, AddressAt(cs, i)) = k.store[AddressAt(cs, i)]
  BY FileData
<1>2. q \in Nat /\ r \in 0 .. S - 1 /\ o = q * S + r /\ S \in Nat /\ S >= 1
  BY Division, Geometry DEF InCluster
<1>3. q < L
  <2>. SUFFICES ASSUME ~(q < L) PROVE FALSE
    OBVIOUS
  <2>1. CASE q = L
    <3>. HIDE DEF q, r, s, L
    <3>. DEFINE y == q * S
    <3>1. y \in Nat /\ s <= y /\ o = y + r
      BY <1>1, <1>2, <2>1
    <3>. HIDE DEF y
    <3>. QED BY <3>1, <1>1, <1>2 DEF s
  <2>2. CASE L < q
    <3>. HIDE DEF q, r, s, L
    <3>1. L * S + S <= q * S
      BY <1>1, <1>2, <2>2, Product
    <3>. DEFINE y == q * S
                z == L * S
    <3>2. y \in Nat /\ z \in Nat /\ s <= z /\ o = y + r /\ z + S <= y
      BY <1>1, <1>2, <3>1
    <3>. HIDE DEF y, z
    <3>. QED BY <3>2, <1>1, <1>2 DEF s
  <2>. QED BY <1>1, <1>2, <2>1, <2>2
<1>4. ClusterAt(k, first, o) \in Clusters
  <2>1. Walk(k, first)[q] \in Clusters <=> q < L
    BY <1>1, <1>2, WalkInChain
  <2>. QED BY <1>3, <2>1 DEF ClusterAt
<1>5. /\ m \in Nat /\ m >= 1 /\ m <= d /\ PartOf(old, cs, q)
      /\ m < d => m = L - q
  BY <1>4, CoveredClusters
<1>6. d \in Nat /\ r + n <= d * S
  BY NeededPositive, NeededRoom
<1>. HIDE DEF q, s, L, m, d, old, cs, first
<1>7. r + n <= m * S
  <2>1. CASE m = d
    BY <2>1, <1>6
  <2>2. CASE m < d
    <3>. DEFINE y == q * S
                z == L * S
    <3>1. m * S = z - y
      <4>1. ASSUME NEW a \in Nat, NEW b \in Nat, NEW c \in Nat
            PROVE  (a - b) * c = a * c - b * c
        BY Z3T(30)
      <4>2. (L - q) * S = L * S - q * S
        BY <1>1, <1>2, <4>1
      <4>. QED BY <1>5, <2>2, <4>2
    <3>2. y \in Nat /\ z \in Nat /\ s <= z /\ o = y + r
      BY <1>1, <1>2
    <3>. HIDE DEF y, z
    <3>3. o + n <= s
      BY DEF s
    <3>4. r + n <= z - y
      BY <3>2, <3>3, <1>1, <1>2
    <3>. QED BY <3>1, <3>4
  <2>. QED BY <1>5, <1>6, <2>1, <2>2
<1>8. Fitting(old, o, n) = n
  <2>1. Fitting(old, o, n) = IF r + n <= m * S THEN n ELSE m * S - r
    BY <1>5, FittingType DEF m
  <2>. QED BY <1>7, <2>1
<1>. HIDE DEF r
<1>9. read_from_file(k, first, o, n) = SubSeq(LoadChain(k, old), r + 1, r + n)
  BY <1>8 DEF read_from_file, old, r
<1>10. SubSeq(LoadChain(k, old), r + 1, r + n) = [i \in 1 .. n |-> LoadChain(k, old)[r + i]]
  <2>1. r + 1 \in Nat /\ r + n \in Nat /\ r + 1 >= 1 /\ r + 1 <= (r + n) + 1
    BY <1>2
  <2>2. SubSeq(LoadChain(k, old), r + 1, r + n)
           = [i \in 1 .. (r + n) - (r + 1) + 1 |-> LoadChain(k, old)[(r + 1) + i - 1]]
    BY <2>1, SubSeqOf
  <2>3. (r + n) - (r + 1) + 1 = n /\ \A i \in 1 .. n : (r + 1) + i - 1 = r + i
    BY <1>2
  <2>. QED BY <2>2, <2>3
<1>11. ASSUME NEW i \in 1 .. n PROVE LoadChain(k, old)[r + i] = BlocksOf(k, x)[o + i]
  <2>1. i \in Nat /\ i >= 1 /\ r + i \in 1 .. m * S /\ o + i \in 1 .. s
    <3>. DEFINE y == m * S
    <3>1. y \in Nat /\ r + n <= y
      BY <1>2, <1>5, <1>7
    <3>. HIDE DEF y
    <3>2. r + i \in 1 .. y
      BY <3>1, <1>2
    <3>3. o + i \in 1 .. s
      BY <1>1 DEF s
    <3>. QED BY <3>2, <3>3 DEF y
  <2>2. LoadChain(k, old)[r + i] = LoadBlock(k, AddressAt(old, r + i))
    BY <2>1 DEF LoadChain, m
  <2>3. AddressAt(old, r + i) = AddressAt(cs, o + i)
    <3>1. r + i <= m * S
      BY <2>1, <1>2
    <3>. QED BY <3>1, <2>1, <1>5, AddressShift DEF r, m, q
  <2>4. o + i \in 1 .. L * S
    <3>. DEFINE z == L * S
    <3>1. z \in Nat /\ s <= z
      BY <1>1, <1>2
    <3>. HIDE DEF z
    <3>2. o + i \in 1 .. z
      BY <3>1, <2>1, <1>1
    <3>. QED BY <3>2 DEF z
  <2>5. LoadBlock(k, AddressAt(cs, o + i)) = k.store[AddressAt(cs, o + i)]
    BY <1>1, <2>4
  <2>6. BlocksOf(k, x)[o + i] = k.store[AddressAt(cs, o + i)]
    BY <2>1 DEF BlocksOf, s, cs, first
  <2>. QED BY <2>2, <2>3, <2>5, <2>6
<1>12. SubSeq(LoadChain(k, old), r + 1, r + n) = [i \in 1 .. n |-> BlocksOf(k, x)[o + i]]
  BY <1>10, <1>11
<1>. QED BY <1>9, <1>12 DEF first, Part

\* What a path holds that leads to a file.
LEMMA ContentsFile ==
    ASSUME NEW k, DiskOK(k), SizeOK(k), NEW p, NEW x \in Entries(k), find_file(k, p) = k.store[x],
           ~k.store[x].dir
    PROVE  Contents(k, p) = [st |-> "file", data |-> BlocksOf(k, x)]
<1>. DEFINE cs == Chain(k, k.store[x].first)
            s == k.store[x].size
<1>1. k.store[x] # NoEntry
  BY EntryTypes DEF DiskOK
<1>2. Contents(k, p) = [st |-> "file", data |-> SubSeq(LoadChain(k, cs), 1, Min({s, Len(LoadChain(k, cs))}))]
  BY <1>1 DEF Contents
<1>3. SubSeq(LoadChain(k, cs), 1, Min({s, Len(LoadChain(k, cs))})) = BlocksOf(k, x)
  BY FileData
<1>. QED BY <1>2, <1>3

\* Reads inside open files.
LEMMA ReadsHold ==
    ASSUME IInv
    PROVE  ReadsContents
<1>1. ASSUME NEW fd \in DOMAIN open, ~open[fd].entry.dir, NEW o \in 0 .. open[fd].entry.size,
             NEW n \in 1 .. open[fd].entry.size - o
      PROVE  read_from_file(disk, open[fd].entry.first, o, n)
                = SubSeq(files[open[fd].path].data, o + 1, o + n)
  <2>. DEFINE p == open[fd].path
              e == open[fd].entry
  <2>1. p \in Paths /\ p # <<>> /\ e = find_file(disk, p) /\ e # NoEntry
    BY <1>1, OpenEntry
  <2>2. p \in Present
    BY <2>1 DEF Present
  <2>3. PICK x \in Entries(disk) : DiskOK(disk) /\ e = disk.store[x]
    BY <2>1, <2>2, PresentEntry
  <2>4. SizeOK(disk) /\ files = AllContents(disk)
    BY DEF IInv, DiskInv
  <2>. DEFINE s == disk.store[x].size
              t == BlocksOf(disk, x)
  <2>5. s \in Nat /\ ~disk.store[x].dir
    BY <2>3, <1>1, EntryTypes DEF DiskOK
  <2>6. files[p] = [st |-> "file", data |-> t]
    <3>1. Contents(disk, p) = [st |-> "file", data |-> t]
      BY <2>1, <2>3, <2>4, <2>5, ContentsFile
    <3>2. files[p] = Contents(disk, p)
      BY <2>1, <2>4 DEF AllContents
    <3>. QED BY <3>1, <3>2
  <2>7. files[p].data = t
    BY <2>6
  <2>8. o \in Nat /\ n \in Nat /\ n >= 1 /\ o + n <= s
    BY <1>1, <2>3, <2>5
  <2>9. read_from_file(disk, disk.store[x].first, o, n) = Part(t, o, n)
    BY <2>3, <2>4, <2>5, <2>8, ReadInside
  <2>10. SubSeq(t, o + 1, o + n) = Part(t, o, n)
    <3>. HIDE DEF t
    <3>1. o + 1 \in Nat /\ o + n \in Nat /\ o + 1 >= 1 /\ o + 1 <= (o + n) + 1
      BY <2>8
    <3>2. SubSeq(t, o + 1, o + n) = [i \in 1 .. (o + n) - (o + 1) + 1 |-> t[(o + 1) + i - 1]]
      BY <3>1, SubSeqOf
    <3>3. (o + n) - (o + 1) + 1 = n /\ \A i \in 1 .. n : (o + 1) + i - 1 = o + i
      BY <2>8
    <3>. QED BY <3>2, <3>3 DEF Part
  <2>. QED BY <2>3, <2>7, <2>9, <2>10
<1>. QED BY <1>1 DEF ReadsContents

\* A read that lies inside a file returns the blocks it holds, however many clusters
\* read_from_file has to follow.
THEOREM ReadsReturnContents ==
    ASSUME Callers
    PROVE  Spec => []ReadsContents
<1>1. IInv => ReadsContents
  BY ReadsHold
<1>. QED BY <1>1, DiskStaysSound, PTL

-----------------------------------------------------------------------------
(* The file system implements Files.                                       *)

\* Two paths that begin alike lead through the same directories.
LEMMA DescentSame ==
    ASSUME NEW k, DiskOK(k), NEW p, NEW q, NEW m \in Nat, SameStart(p, q, m),
           NEW i \in Nat, i <= m
    PROVE  Descent(k, p)[i] = Descent(k, q)[i]
<1>. DEFINE x == Descent(k, p)
            y == Descent(k, q)
            I == {n \in Nat : n <= m => x[n] = y[n]}
<1>1. IsDescent(x, k, p) /\ IsDescent(y, k, q)
  BY DescentType
<1>. HIDE DEF x, y
<1>2. 0 \in I
  BY <1>1 DEF IsDescent
<1>3. ASSUME NEW n \in Nat, n \in I PROVE n + 1 \in I
  <2>. SUFFICES ASSUME n + 1 <= m PROVE x[n + 1] = y[n + 1]
    OBVIOUS
  <2>1. x[n] = y[n] /\ p[n + 1] = q[n + 1]
    BY <1>3 DEF SameStart
  <2>2. x[n + 1] = Descend(k, x[n], p[n + 1]) /\ y[n + 1] = Descend(k, y[n], q[n + 1])
    BY <1>1 DEF IsDescent
  <2>. QED BY <2>1, <2>2
<1>. HIDE DEF I
<1>4. Nat \subseteq I
  BY <1>2, <1>3, SetInduction
<1>. QED BY <1>4 DEF I, x, y

\* The directory that find_dir finds for a path below the root is one the callers made.
LEMMA ParentPresent ==
    ASSUME NEW k, DiskInv(k), NEW p, IsPath(p), Len(p) > 1, ParentOf(k, p) \in Dirs(k),
           NEW q, q = SubSeq(p, 1, Len(p) - 1)
    PROVE  q \in Paths /\ q # <<>> /\ Contents(k, q) = [st |-> "dir", data |-> <<>>]
<1>. DEFINE n == Len(p)
            x == Descent(k, p)
<1>1. DiskOK(k) /\ KnownOK(k)
  BY DEF DiskInv
<1>2. n \in Nat /\ p \in Seq(Names)
  BY PathLength DEF IsPath
<1>3. n - 1 \in Nat /\ n - 2 \in Nat /\ n - 1 >= 1 /\ (n - 2) + 1 = n - 1 /\ (n - 1) - 1 = n - 2
  BY <1>2
<1>4. \A i \in 1 .. n - 1 : p[i] \in Names
  <2>1. \A i \in 1 .. n : p[i] \in Names
    BY <1>2, ElementOfSeq
  <2>. QED BY <1>3, <2>1
<1>5. q \in Seq(Names) /\ Len(q) = n - 1 /\ \A i \in 1 .. n - 1 : q[i] = p[i]
  <2>1. 1 \in Int /\ n - 1 \in Int
    BY <1>3
  <2>2. /\ q \in Seq(Names) /\ Len(q) = IF 1 <= n - 1 THEN (n - 1) - 1 + 1 ELSE 0
        /\ \A i \in 1 .. (n - 1) - 1 + 1 : q[i] = p[1 + i - 1]
    BY <2>1, <1>4, SubSeqProperties
  <2>3. (n - 1) - 1 + 1 = n - 1 /\ \A i \in 1 .. n - 1 : 1 + i - 1 = i
    BY <1>3
  <2>. QED BY <2>2, <2>3, <1>3
<1>6. IsPath(q)
  <2>1. Len(q) # 0 /\ Len(<<>>) = 0
    BY <1>3, <1>5
  <2>2. q # <<>>
    BY <2>1
  <2>. QED BY <2>2, <1>5 DEF IsPath
<1>. HIDE DEF n
<1>7. Last(q) = p[n - 1]
  <2>1. Last(q) = q[Len(q)]
    BY <1>6, PathLength
  <2>2. n - 1 \in 1 .. n - 1
    BY <1>3
  <2>. QED BY <2>1, <2>2, <1>5
<1>8. IsDescent(x, k, p)
  BY <1>1, DescentType
<1>9. ParentOf(k, q) = x[n - 2]
  <2>1. ParentOf(k, q) = Descent(k, q)[n - 2]
    BY <1>3, <1>5 DEF ParentOf
  <2>2. n - 2 <= n - 1
    BY <1>3
  <2>3. \A l \in 1 .. n - 1 : q[l] = p[l]
    BY <1>5
  <2>4. Descent(k, q)[n - 2] = Descent(k, p)[n - 2]
    <3>. DEFINE m == n - 1
                i == n - 2
    <3>1. m \in Nat /\ i \in Nat /\ i <= m /\ SameStart(q, p, m)
      BY <2>2, <2>3, <1>3 DEF SameStart
    <3>. HIDE DEF m, i
    <3>2. Descent(k, q)[i] = Descent(k, p)[i]
      BY <3>1, <1>1, DescentSame
    <3>. QED BY <3>2 DEF i
  <2>. QED BY <2>1, <2>4
<1>10. ParentOf(k, p) = x[n - 1]
  BY DEF ParentOf, n
<1>. HIDE DEF x
<1>11. x[n - 1] = Descend(k, x[n - 2], p[n - 1])
  <2>1. x[(n - 2) + 1] = Descend(k, x[n - 2], p[(n - 2) + 1])
    BY <1>3, <1>8 DEF IsDescent
  <2>. QED BY <2>1, <1>3
<1>12. x[n - 2] \in Dirs(k) /\ x[n - 1] # NoDir
  <2>1. x[n - 1] # NoDir
    BY <1>10, DirsAreClusters
  <2>2. x[n - 2] \in Dirs(k) \cup {NoDir}
    BY <1>3, <1>8 DEF IsDescent
  <2>3. x[n - 2] # NoDir
    BY <2>1, <1>11, DescendNowhere
  <2>. QED BY <2>1, <2>2, <2>3
<1>13. PICK a \in Named(k, x[n - 2], p[n - 1]) : k.store[a].dir
  BY <1>1, <1>11, <1>12, DescendTo
<1>14. Leads(k, q, a)
  BY <1>7, <1>9, <1>12 DEF Leads
<1>15. find_file(k, q) = k.store[a] /\ find_file(k, q) # NoEntry
  BY <1>1, <1>6, <1>14, LeadsFinds
<1>16. q \in Paths /\ q # <<>>
  BY <1>1, <1>6, <1>15 DEF KnownOK, IsPath
<1>17. Contents(k, q) = [st |-> "dir", data |-> <<>>]
  BY <1>13, <1>15 DEF Contents
<1>. QED BY <1>16, <1>17

\* What a new entry holds.
LEMMA ContentsNew ==
    ASSUME NEW k, DiskInv(k), NEW p, IsPath(p), NEW n, NEW c, NEW dir \in BOOLEAN,
           find_file(k, p) = Entry(n, dir, c, 0)
    PROVE  /\ dir => Contents(k, p) = [st |-> "dir", data |-> <<>>]
           /\ ~dir => Contents(k, p) = [st |-> "file", data |-> <<>>]
<1>. DEFINE e == Entry(n, dir, c, 0)
<1>1. e.dir = dir /\ e.size = 0 /\ e # NoEntry
  BY EntryFields
<1>2. DiskOK(k) /\ SizeOK(k)
  BY DEF DiskInv
<1>. HIDE DEF e
<1>3. find_file(k, p) = e
  BY DEF e
<1>4. CASE dir
  <2>1. e.dir
    BY <1>1, <1>4
  <2>. QED BY <1>1, <1>3, <1>4, <2>1 DEF Contents
<1>5. CASE ~dir
  <2>1. PICK x \in Entries(k) : find_file(k, p) = k.store[x]
    BY <1>1, <1>2, <1>3, FoundLeads
  <2>2. ~k.store[x].dir /\ k.store[x].size = 0
    BY <2>1, <1>1, <1>3, <1>5
  <2>3. Contents(k, p) = [st |-> "file", data |-> BlocksOf(k, x)]
    BY <1>2, <2>1, <2>2, ContentsFile
  <2>4. BlocksOf(k, x) = <<>>
    BY <2>2 DEF BlocksOf
  <2>. QED BY <2>3, <2>4, <1>5
<1>. QED BY <1>4, <1>5

\* old with the n blocks of buf from offset o on.
Overwritten(old, size, o, buf, n, v) ==
    /\ DOMAIN v = 1 .. Max({size, o + n})
    /\ \A i \in DOMAIN v :
          v[i] = IF i \in o + 1 .. o + n THEN buf[i - o]
                 ELSE IF i \in 1 .. size THEN old[i] ELSE Zero

\* What a file holds that has been written to.
LEMMA ContentsWritten ==
    ASSUME NEW k, DiskInv(k), NEW k1, NEW k2, DiskInv(k2), NEW x, NEW o \in Nat, NEW buf, NEW n \in Nat,
           NEW e, ~k.store[x].dir, WrittenFile(k, k1, k2, x, o, buf, n, e)
    PROVE  Overwritten(BlocksOf(k, x), k.store[x].size, o, buf, n, BlocksOf(k2, x))
<1>. DEFINE f == k.store[x].first
            s == k.store[x].size
            s2 == e.size
            cs == Chain(k, f)
            cs2 == Chain(k1, f)
            z == Len(cs) * SlotsPerCluster
            z2 == Len(cs2) * SlotsPerCluster
            old == BlocksOf(k, x)
            v == BlocksOf(k2, x)
<1>1. /\ x \in Entries(k) /\ Written(k, k1, x, o, buf, n) /\ x \in Entries(k2)
      /\ k2.store[x] = e /\ e.first = f /\ ~e.dir /\ SameFile(k1, k2, x)
      /\ s2 = Max({s, o + n}) /\ s2 \in Nat /\ s2 >= o + n /\ s2 >= s
  BY DEF WrittenFile
<1>2. DiskOK(k) /\ SizeOK(k) /\ DiskOK(k2) /\ SizeOK(k2)
  BY DEF DiskInv
<1>3. /\ k1.store[x] = k.store[x] /\ Len(cs) \in Nat /\ Len(cs2) \in Nat
      /\ Filled(k, k1, cs, cs2, o, buf, n)
  BY <1>1 DEF Written
<1>4. k1.store[x].first = f
  BY <1>3
<1>5. /\ Chain(k2, f) = cs2
      /\ \A i \in 1 .. z2 : k2.store[AddressAt(cs2, i)] = k1.store[AddressAt(cs2, i)]
  BY <1>1, <1>4 DEF SameFile
<1>6. s \in Nat /\ s <= z
  BY <1>1, <1>2, FileData
<1>7. s2 <= z2
  <2>1. Chain(k2, k2.store[x].first) = cs2 /\ k2.store[x].size = s2 /\ ~k2.store[x].dir
    BY <1>1, <1>5
  <2>2. k2.store[x].size <= Len(Chain(k2, k2.store[x].first)) * SlotsPerCluster
    BY <1>1, <1>2, <2>1, FileData
  <2>. QED BY <2>1, <2>2
<1>8. FitsIn(k, f, s)
  BY <1>1, <1>2 DEF SizeOK
<1>9. \A i \in s + 1 .. z : k.store[AddressAt(cs, i)] = Zero
  BY <1>8 DEF FitsIn
<1>10. v = [i \in 1 .. s2 |-> k2.store[AddressAt(cs2, i)]]
  BY <1>1, <1>5 DEF BlocksOf
<1>11. old = [i \in 1 .. s |-> k.store[AddressAt(cs, i)]]
  BY DEF BlocksOf
<1>12. z \in Nat /\ z2 \in Nat
  BY <1>3, Geometry
<1>13. \A i \in 1 .. z2 :
          /\ i \in o + 1 .. o + n => k1.store[AddressAt(cs2, i)] = buf[i - o]
          /\ i \notin o + 1 .. o + n /\ i <= z => k1.store[AddressAt(cs2, i)] = k.store[AddressAt(cs, i)]
          /\ i \notin o + 1 .. o + n /\ ~(i <= z) => k1.store[AddressAt(cs2, i)] = Zero
  BY <1>3 DEF Filled
<1>. HIDE DEF s, s2, cs, cs2, z, z2, old, v, f
<1>14. ASSUME NEW i \in 1 .. s2
       PROVE  v[i] = IF i \in o + 1 .. o + n THEN buf[i - o]
                     ELSE IF i \in 1 .. s THEN old[i] ELSE Zero
  <2>1. i \in 1 .. z2 /\ i \in Nat /\ i >= 1
    BY <1>1, <1>7, <1>12
  <2>2. v[i] = k1.store[AddressAt(cs2, i)]
    BY <2>1, <1>5, <1>10
  <2>3. CASE i \in o + 1 .. o + n
    BY <2>1, <2>2, <2>3, <1>13
  <2>4. CASE i \notin o + 1 .. o + n /\ i \in 1 .. s
    <3>1. i <= z
      BY <2>4, <1>6, <1>12
    <3>2. v[i] = k.store[AddressAt(cs, i)]
      BY <3>1, <2>1, <2>2, <2>4, <1>13
    <3>. QED BY <3>2, <2>4, <1>11
  <2>5. CASE i \notin o + 1 .. o + n /\ i \notin 1 .. s
    <3>1. CASE i <= z
      <4>1. i \in s + 1 .. z
        BY <3>1, <2>1, <2>5, <1>6, <1>12
      <4>2. v[i] = k.store[AddressAt(cs, i)]
        BY <3>1, <2>1, <2>2, <2>5, <1>13
      <4>. QED BY <4>1, <4>2, <2>5, <1>9
    <3>2. CASE ~(i <= z)
      <4>1. v[i] = Zero
        BY <3>2, <2>1, <2>2, <2>5, <1>13
      <4>. QED BY <4>1, <2>5
    <3>. QED BY <3>1, <3>2
  <2>. QED BY <2>3, <2>4, <2>5
<1>15. DOMAIN v = 1 .. s2
  BY <1>10
<1>16. DOMAIN v = 1 .. Max({s, o + n})
  BY <1>15, <1>1
<1>. QED BY <1>14, <1>15, <1>16 DEF Overwritten, s, v, old

\* A call that concerns one path changes what that path holds.
LEMMA FilesChange ==
    ASSUME IInv, NEW p \in Paths, p # <<>>, Concerns(disk, disk', p), files' = AllContents(disk')
    PROVE  /\ files = [q \in Paths \ {<<>>} |-> Contents(disk, q)]
           /\ files' = [files EXCEPT ![p] = Contents(disk', p)]
<1>1. files = [q \in Paths \ {<<>>} |-> Contents(disk, q)]
  BY DEF IInv, AllContents
<1>2. files' = [q \in Paths \ {<<>>} |-> Contents(disk', q)]
  BY DEF AllContents
<1>3. ASSUME NEW q \in Paths \ {<<>>}, q # p PROVE Contents(disk', q) = Contents(disk, q)
  <2>1. q \in Seq(Names) /\ q # <<>>
    BY PathsAre
  <2>. QED BY <1>3, <2>1 DEF Concerns, SameContents
<1>4. files' = [files EXCEPT ![p] = Contents(disk', p)]
  BY <1>1, <1>2, <1>3
<1>. QED BY <1>1, <1>4

\* A prefix of a buffer is a buffer.
LEMMA BufferPrefix ==
    ASSUME NEW buf \in Buffers, NEW n \in 1 .. Len(buf)
    PROVE  SubSeq(buf, 1, n) \in Buffers /\ Len(SubSeq(buf, 1, n)) = n
           /\ \A i \in 1 .. n : SubSeq(buf, 1, n)[i] = buf[i]
<1>1. PICK m \in 1 .. MaxWrite, d \in Data : buf = [i \in 1 .. m |-> Block(d, i)]
  BY DEF Buffers
<1>2. m \in Nat /\ Len(buf) = m /\ MaxWrite \in Nat
  BY <1>1, Geometry
<1>3. n \in Nat /\ n \in 1 .. MaxWrite /\ n >= 1 /\ n <= m
  BY <1>1, <1>2
<1>. DEFINE t == SubSeq(buf, 1, n)
<1>4. /\ Len(t) = n - 1 + 1 /\ \A i \in 1 .. n - 1 + 1 : t[i] = buf[1 + i - 1]
      /\ t = [i \in 1 .. n - 1 + 1 |-> buf[1 + i - 1]]
  BY <1>3, SubSeqOf
<1>. HIDE DEF t
<1>5. n - 1 + 1 = n /\ \A i \in 1 .. n : 1 + i - 1 = i /\ i \in 1 .. m
  BY <1>2, <1>3
<1>6. Len(t) = n /\ (\A i \in 1 .. n : t[i] = buf[i]) /\ t = [i \in 1 .. n |-> buf[i]]
  BY <1>4, <1>5
<1>7. t = [i \in 1 .. n |-> Block(d, i)]
  BY <1>1, <1>5, <1>6
<1>8. t \in Buffers
  BY <1>3, <1>7 DEF Buffers
<1>. QED BY <1>6, <1>8 DEF t

\* Creating.
LEMMA CreateImplements ==
    ASSUME IInv, NEW p \in Paths, p # <<>>, Concerns(disk, disk', p), files' = AllContents(disk'),
           find_file(disk, p) = NoEntry, ParentOf(disk, p) \in Dirs(disk), NEW dir \in BOOLEAN, NEW c,
           find_file(disk', p) = Entry(Last(p), dir, c, 0)
    PROVE  F!Next
<1>. DEFINE q == SubSeq(p, 1, Len(p) - 1)
<1>1. /\ files = [r \in Paths \ {<<>>} |-> Contents(disk, r)]
      /\ files' = [files EXCEPT ![p] = Contents(disk', p)]
  BY FilesChange
<1>2. IsPath(p) /\ DiskInv(disk) /\ DiskInv(disk')
  BY PathsAre DEF IInv, Concerns
<1>3. Contents(disk, p) = [st |-> "absent", data |-> <<>>]
  BY DEF Contents
<1>4. files[p] = F!Absent
  BY <1>1, <1>3 DEF F!Absent
<1>5. ASSUME Len(p) > 1 PROVE files[q] = F!Directory
  <2>1. q \in Paths /\ q # <<>> /\ Contents(disk, q) = [st |-> "dir", data |-> <<>>]
    BY <1>2, <1>5, ParentPresent
  <2>. QED BY <2>1, <1>1 DEF F!Directory
<1>6. F!HasParent(p)
  BY <1>5 DEF F!HasParent
<1>7. /\ dir => Contents(disk', p) = F!Directory
      /\ ~dir => Contents(disk', p) = F!File(<<>>)
  <2>1. /\ dir => Contents(disk', p) = [st |-> "dir", data |-> <<>>]
        /\ ~dir => Contents(disk', p) = [st |-> "file", data |-> <<>>]
    BY <1>2, ContentsNew
  <2>. QED BY <2>1 DEF F!Directory, F!File
<1>8. F!Create(p, F!Directory) \/ F!Create(p, F!File(<<>>))
  BY <1>1, <1>4, <1>6, <1>7 DEF F!Create
<1>. QED BY <1>8 DEF F!Next

\* Removing.
LEMMA UnlinkImplements ==
    ASSUME IInv, NEW p \in Paths, p # <<>>, Concerns(disk, disk', p), files' = AllContents(disk'),
           find_file(disk, p) # NoEntry, ~find_file(disk, p).dir, find_file(disk', p) = NoEntry
    PROVE  F!Next
<1>1. /\ files = [r \in Paths \ {<<>>} |-> Contents(disk, r)]
      /\ files' = [files EXCEPT ![p] = Contents(disk', p)]
  BY FilesChange
<1>2. Contents(disk, p).st = "file"
  BY DEF Contents
<1>3. Contents(disk', p) = F!Absent
  BY DEF Contents, F!Absent
<1>4. F!Remove(p)
  BY <1>1, <1>2, <1>3 DEF F!Remove
<1>. QED BY <1>4 DEF F!Next

\* v is a function.
IsFunction(v) == v = [i \in DOMAIN v |-> v[i]]

\* Overwriting as Files has it.
LEMMA OverwriteIs ==
    ASSUME NEW old, NEW s \in Nat, Len(old) = s, NEW o \in Nat, NEW buf, NEW n \in Nat, NEW new,
           Len(new) = n, SameStart(new, buf, n), NEW v, IsFunction(v),
           Overwritten(old, s, o, buf, n, v)
    PROVE  F!Overwrite(old, o, new) = v
<1>. DEFINE m == IF s > o + n THEN s ELSE o + n
<1>1. Max({s, o + n}) = m
  <2>1. ASSUME NEW y \in Nat PROVE Max({s, y}) = IF s > y THEN s ELSE y
    BY MinMaxTwo
  <2>2. o + n \in Nat
    OBVIOUS
  <2>. QED BY <2>1, <2>2
<1>. HIDE DEF m
<1>2. DOMAIN v = 1 .. m
  BY <1>1 DEF Overwritten
<1>3. \A i \in 1 .. m : v[i] = IF i \in o + 1 .. o + n THEN buf[i - o]
                               ELSE IF i \in 1 .. s THEN old[i] ELSE Zero
  BY <1>2 DEF Overwritten
<1>4. \A i \in o + 1 .. o + n : new[i - o] = buf[i - o]
  BY DEF SameStart
<1>5. ASSUME NEW i \in 1 .. m
      PROVE  v[i] = IF i \in o + 1 .. o + n THEN new[i - o]
                    ELSE IF i \in 1 .. s THEN old[i] ELSE Zero
  BY <1>3, <1>4
<1>6. v = [i \in 1 .. m |-> v[i]]
  BY <1>2 DEF IsFunction
<1>7. F!Overwrite(old, o, new) =
         [i \in 1 .. m |-> IF i \in o + 1 .. o + n THEN new[i - o]
                           ELSE IF i \in 1 .. s THEN old[i] ELSE Zero]
  BY DEF F!Overwrite, m
<1>. QED BY <1>5, <1>6, <1>7

\* Writing.
LEMMA WriteImplements ==
    ASSUME IInv, Callers, NEW fd \in DOMAIN open, NEW buf \in Buffers, Write(fd, buf),
           files' = AllContents(disk')
    PROVE  F!Next
<1>. DEFINE p == open[fd].path
            e0 == open[fd].entry
            o == WriteOffset(open[fd])
            n == write_to_file(disk, e0.first, o, buf).n
            k1 == write_to_file(disk, e0.first, o, buf).disk
            e == EntryAfter(e0, o, n)
            new == SubSeq(buf, 1, n)
<1>0. o <= MaxOffset
  BY DEF Write
<1>1. /\ Concerns(disk, disk', p) /\ p \in Paths /\ p # <<>> /\ ~e0.dir /\ o \in Nat
      /\ e0 = find_file(disk, p) /\ e0 # NoEntry
      /\ find_file(disk', p) = e /\ n \in 1 .. Len(buf)
      /\ WrittenPath(disk, k1, disk', p, o, buf, n, e)
  BY WriteKeeps
<1>. HIDE DEF p, e0, o, n, k1, e
<1>2. PICK x \in Entries(disk) :
         Leads(disk, p, x) /\ Leads(disk', p, x) /\ WrittenFile(disk, k1, disk', x, o, buf, n, e)
  BY <1>1 DEF WrittenPath
<1>3. IsPath(p) /\ DiskInv(disk) /\ DiskInv(disk') /\ DiskOK(disk) /\ SizeOK(disk)
      /\ DiskOK(disk') /\ SizeOK(disk')
  BY <1>1, PathsAre DEF IInv, Concerns, DiskInv
<1>4. find_file(disk, p) = disk.store[x] /\ ~disk.store[x].dir
  BY <1>1, <1>2, <1>3, LeadsFinds
<1>5. x \in Entries(disk') /\ disk'.store[x] = e /\ ~e.dir /\ e.size \in Nat
  BY <1>2 DEF WrittenFile
<1>. DEFINE s == disk.store[x].size
            old == BlocksOf(disk, x)
            v == BlocksOf(disk', x)
<1>6. Contents(disk, p) = [st |-> "file", data |-> old]
  BY <1>3, <1>4, ContentsFile
<1>7. Contents(disk', p) = [st |-> "file", data |-> v]
  BY <1>1, <1>3, <1>5, ContentsFile
<1>8. s \in Nat
  BY <1>3, EntryTypes DEF DiskOK
<1>9. n \in Nat
  BY <1>1, BufferType
<1>10. Overwritten(old, s, o, buf, n, v)
  BY <1>1, <1>2, <1>3, <1>4, <1>9, ContentsWritten
<1>11. IsFunction(v)
  BY <1>5 DEF BlocksOf, IsFunction
<1>12. Len(old) = s
  BY <1>8 DEF BlocksOf
<1>13. new \in Buffers /\ Len(new) = n /\ \A i \in 1 .. n : new[i] = buf[i]
  BY <1>1, BufferPrefix
<1>20. SameStart(new, buf, n)
  BY <1>13 DEF SameStart
<1>. HIDE DEF new, old, v, s
<1>14. F!Overwrite(old, o, new) = v
  BY <1>1, <1>8, <1>9, <1>10, <1>11, <1>12, <1>13, <1>20, OverwriteIs
<1>15. /\ files = [r \in Paths \ {<<>>} |-> Contents(disk, r)]
       /\ files' = [files EXCEPT ![p] = Contents(disk', p)]
  BY <1>1, FilesChange
<1>16. files[p].st = "file" /\ files[p].data = old
  BY <1>1, <1>6, <1>15
<1>17. files' = [files EXCEPT ![p] = F!File(v)]
  BY <1>7, <1>15 DEF F!File
<1>18. F!Store(p, o, new)
  BY <1>14, <1>16, <1>17 DEF F!Store
<1>19. o \in 0 .. MaxOffset /\ p \in Paths \ {<<>>}
  BY <1>0, <1>1, Geometry
<1>. QED BY <1>13, <1>18, <1>19 DEF F!Next

\* A call that leaves the disk alone changes nothing that a path holds.
LEMMA SameDisk ==
    ASSUME IInv, disk' = disk, files' = AllContents(disk')
    PROVE  files' = files
BY DEF IInv, AllContents

\* Every call is one of Files, or changes nothing there.
LEMMA NextImplements ==
    ASSUME IInv, Callers, Next
    PROVE  F!Next \/ files' = files
<1>0. files' = AllContents(disk')
  BY DEF Next
<1>1. CASE FileCall
  <2>1. PICK fd \in DOMAIN open :
            \/ Close(fd)
            \/ \E b \in Buffers : Write(fd, b)
            \/ \E n \in 1 .. MaxWrite : Read(fd, n)
            \/ \E o \in 0 .. 1, w \in {"SEEK_SET", "SEEK_CUR", "SEEK_END"} : Lseek(fd, o, w)
    BY <1>1 DEF FileCall
  <2>2. ASSUME Close(fd) PROVE disk' = disk
    BY <2>2, CloseKeeps
  <2>3. ASSUME NEW b \in Buffers, Write(fd, b) PROVE F!Next
    BY <1>0, <2>3, WriteImplements
  <2>4. ASSUME NEW n \in 1 .. MaxWrite, Read(fd, n) PROVE disk' = disk
    BY <2>4, ReadKeeps
  <2>5. ASSUME NEW o \in 0 .. 1, NEW w \in {"SEEK_SET", "SEEK_CUR", "SEEK_END"}, Lseek(fd, o, w)
        PROVE  disk' = disk
    BY <2>5, LseekKeeps
  <2>6. F!Next \/ disk' = disk
    BY <2>1, <2>2, <2>3, <2>4, <2>5
  <2>. QED BY <2>6, <1>0, SameDisk
<1>2. CASE PathCall
  <2>1. PICK p \in Paths :
            \/ \E a \in BOOLEAN : OpenShared(p, a) \/ OpenExisting(p, a) \/ OpenCreating(p, a)
            \/ Unlink(p)
            \/ p \in DirPaths /\ Mkdir(p)
    BY <1>2 DEF PathCall
  <2>2. ASSUME NEW a \in BOOLEAN, OpenShared(p, a) PROVE disk' = disk
    BY <2>2, SharedKeeps
  <2>3. ASSUME NEW a \in BOOLEAN, OpenExisting(p, a) PROVE disk' = disk
    BY <2>3, ExistingKeeps
  <2>4. ASSUME NEW a \in BOOLEAN, OpenCreating(p, a) PROVE F!Next
    <3>1. /\ Concerns(disk, disk', p) /\ p # <<>> /\ ParentOf(disk, p) \in Dirs(disk)
          /\ find_file(disk, p) = NoEntry
          /\ find_file(disk', p) = Entry(Last(p), FALSE, find_first_free_cluster(disk), 0)
      BY <2>4, CreatingKeeps
    <3>2. FALSE \in BOOLEAN
      OBVIOUS
    <3>. QED BY <1>0, <3>1, <3>2, CreateImplements
  <2>5. ASSUME Unlink(p) PROVE F!Next \/ disk' = disk
    <3>1. \/ disk' = disk
          \/ /\ Concerns(disk, disk', p) /\ p # <<>> /\ find_file(disk, p) # NoEntry
             /\ ~find_file(disk, p).dir /\ find_file(disk', p) = NoEntry
      BY <2>5, UnlinkKeeps
    <3>. QED BY <1>0, <3>1, UnlinkImplements
  <2>6. ASSUME p \in DirPaths, Mkdir(p) PROVE F!Next \/ disk' = disk
    <3>1. /\ Concerns(disk, disk', p) /\ p # <<>> /\ find_file(disk, p) = NoEntry
          /\ \/ disk' = disk
             \/ /\ ParentOf(disk, p) \in Dirs(disk)
                /\ find_file(disk', p) = Entry(Last(p), TRUE, find_first_free_cluster(disk), 0)
      BY <2>6, MkdirKeeps
    <3>2. TRUE \in BOOLEAN
      OBVIOUS
    <3>3. ASSUME disk' # disk PROVE F!Next
      BY <1>0, <3>1, <3>2, <3>3, CreateImplements
    <3>. QED BY <3>3
  <2>7. F!Next \/ disk' = disk
    BY <2>1, <2>2, <2>3, <2>4, <2>5, <2>6
  <2>. QED BY <2>7, <1>0, SameDisk
<1>. QED BY <1>1, <1>2 DEF Next

\* The file system implements Files: whatever clusters, slots and chains file.c uses,
\* creating, writing and removing change what one path holds and no other, a new path
\* is empty, a write puts its blocks where they belong and reads of a gap give zeroes.
THEOREM FilesImplemented ==
    ASSUME Callers
    PROVE  Spec => ImplementsFiles
<1>1. Init => F!Init
  <2>. SUFFICES ASSUME Init PROVE F!Init
    OBVIOUS
  <2>1. \A p \in Seq(Names) : p # <<>> => find_file(disk, p) = NoEntry
    BY FreshDisk DEF Init
  <2>2. ASSUME NEW p \in Paths \ {<<>>} PROVE Contents(disk, p) = F!Absent
    <3>1. find_file(disk, p) = NoEntry
      BY <2>1, PathsAre
    <3>. QED BY <3>1 DEF Contents, F!Absent
  <2>3. files = [p \in Paths \ {<<>>} |-> Contents(disk, p)]
    BY DEF Init, AllContents
  <2>. QED BY <2>2, <2>3 DEF F!Init
<1>2. IInv /\ [Next]_vars => [F!Next]_files
  <2>1. ASSUME UNCHANGED vars PROVE files' = files
    BY <2>1 DEF vars
  <2>2. ASSUME IInv, Next PROVE F!Next \/ files' = files
    BY <2>2, NextImplements
  <2>. QED BY <2>1, <2>2
<1>. QED BY <1>1, <1>2, DiskStaysSound, PTL DEF Spec, F!Spec, ImplementsFiles
=============================================================================
