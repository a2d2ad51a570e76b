---------------------------- MODULE BootHeapProofs ----------------------------
(***************************************************************************)
(* Proofs about the heap, for every arena, cluster size, alignment and set *)
(* of request sizes that satisfies HeapAssumption.                         *)
(*                                                                         *)
(* The argument: the marks of a block tell t_free its shape, so that it    *)
(* clears entries of that block only; the table therefore accounts for     *)
(* every block in use, so that a free run that malloc finds is outside all *)
(* of them; and the rounding in malloc keeps a block's bytes inside its    *)
(* clusters, unless its sum wraps.                                         *)
(***************************************************************************)
EXTENDS BootHeap, TLAPS

-----------------------------------------------------------------------------
(* Arithmetic *)

\* Quotient and remainder as the provers need them.
LEMMA DivFacts ==
    ASSUME NEW t \in Nat, NEW c \in Nat \ {0}
    PROVE  /\ t \div c \in Nat
           /\ c * (t \div c) <= t
           /\ t < c * ((t \div c) + 1)
  OBVIOUS

\* A remainder is smaller than the divisor.
LEMMA ModFacts ==
    ASSUME NEW t \in Nat, NEW c \in Nat \ {0}
    PROVE  t % c \in 0 .. (c - 1)
  OBVIOUS

\* Nor is it larger than what is divided.
LEMMA ModLeq ==
    ASSUME NEW t \in Nat, NEW c \in Nat \ {0}
    PROVE  t % c <= t
<1>1. t % c = t - c * (t \div c)
  OBVIOUS
<1>2. t \div c \in Nat
  BY DivFacts
<1>3. c * (t \div c) \in Nat
  BY <1>2
<1> QED
  BY <1>1, <1>3

\* Multiplication keeps the order.
LEMMA MulMono ==
    ASSUME NEW a \in Nat, NEW b \in Nat, NEW c \in Nat, a <= b
    PROVE  a * c <= b * c
  OBVIOUS

\* Division keeps the order.
LEMMA DivMono ==
    ASSUME NEW t \in Nat, NEW m \in Nat, NEW c \in Nat \ {0}, t <= m
    PROVE  t \div c <= m \div c
  BY DivFacts

-----------------------------------------------------------------------------
(* The clusters of a block *)

\* The size malloc passes on leaves room for the header and the caller's
\* bytes, if the sum does not wrap.
LEMMA RoundedFits ==
    ASSUME NEW size \in Nat
    PROVE  /\ Rounded(size) \in Nat
           /\ ~Wraps(size) => Pad + size <= Rounded(size)
<1>1. Pad \in Nat \ {0} /\ size + 2 * Pad \in Nat /\ WordSize \in Nat \ {0}
  BY HeapAssumption DEF HeapAssumption
<1>2. PICK sum \in Nat : sum = (size + 2 * Pad) % WordSize
  BY <1>1, ModFacts
<1>3. sum % Pad \in 0 .. (Pad - 1) /\ sum % Pad <= sum
  BY <1>1, ModFacts, ModLeq
<1>4. Rounded(size) = sum - (sum % Pad)
  BY <1>2 DEF Rounded
<1>5. ~Wraps(size) => sum = size + 2 * Pad
  BY <1>1, <1>2 DEF Wraps
<1> QED
  BY <1>1, <1>3, <1>4, <1>5

\* t_malloc takes enough clusters for the size, and never two or three.
LEMMA NeedFits ==
    ASSUME NEW t \in Nat, t <= MaxLarge
    PROVE  /\ Need(t) \in 1 .. MaxNeed
           /\ t <= Need(t) * ClusterSize
           /\ Need(t) \notin {2, 3}
<1> USE HeapAssumption DEF HeapAssumption
<1>1. /\ t \div ClusterSize \in Nat
      /\ t < ClusterSize * ((t \div ClusterSize) + 1)
      /\ ClusterSize * (t \div ClusterSize) <= t
  BY DivFacts
<1>2. /\ MaxLarge \div ClusterSize \in Nat
      /\ t \div ClusterSize <= MaxLarge \div ClusterSize
  BY DivFacts, DivMono
<1>3. (4 * ClusterSize) \div ClusterSize = 4
  OBVIOUS
<1>4. 4 <= MaxLarge \div ClusterSize
  BY <1>3, DivMono
<1>5. CASE t <= ClusterSize
  BY <1>2, <1>5 DEF Need, MaxNeed
<1>6. CASE ~(t <= ClusterSize) /\ t <= 4 * ClusterSize
  BY <1>4, <1>2, <1>6 DEF Need, MaxNeed
<1>7. CASE ~(t <= 4 * ClusterSize)
  <2>1. ~(t <= ClusterSize)
    BY <1>7
  <2>2. Need(t) = (t \div ClusterSize) + 1
    BY <2>1, <1>7 DEF Need
  <2>3. 4 <= t \div ClusterSize
    BY <1>3, <1>7, DivMono
  <2> QED
    BY <2>2, <2>3, <1>1, <1>2 DEF MaxNeed
<1> QED
  BY <1>5, <1>6, <1>7

\* t_malloc writes no free mark.
LEMMA MarkIsMark ==
    ASSUME NEW n, NEW i
    PROVE  Mark(n, i) \in Marks \ {Free0}
  BY DEF Mark, Marks, Free0

-----------------------------------------------------------------------------
(* The inductive invariant *)

\* A block in use has the number of clusters t_malloc computes for its size.
Sized == \A b \in live : Rounded(b.size) <= MaxLarge /\ b.n = Need(Rounded(b.size))

\* No cluster belongs to two blocks in use.
Separate == \A b, d \in live : b # d => Clusters(b) \cap Clusters(d) = {}

\* A leaked cluster belongs to no block in use and stays marked.
LeakApart ==
    /\ \A b \in live : Clusters(b) \cap leaked = {}
    /\ 0 \notin leaked

TableInv == ClustersAccounted /\ memsmall[0] = "reserved"

BlockInv == Sized /\ Separate /\ MarksIntact /\ LeakApart

HInv == TypeOK /\ TableInv /\ BlockInv

\* The clusters of a block in use are entries of the table other than entry 0.
LEMMA ClustersInTable ==
    ASSUME TypeOK, NEW b \in live
    PROVE  /\ Clusters(b) \subseteq Table \ {0}
           /\ b.at \in 1 .. (N - 1) /\ b.n \in 1 .. MaxNeed /\ b.size \in Nat
           /\ b = [at |-> b.at, n |-> b.n, size |-> b.size]
           /\ MaxNeed \in Nat
<1> USE HeapAssumption DEF HeapAssumption
<1>1. b \in [at : 1 .. (N - 1), n : 1 .. MaxNeed, size : Requests]
  BY DEF TypeOK
<1>4. b.size \in Requests /\ Requests \subseteq Nat
  BY <1>1
<1>2. /\ b.at \in 1 .. (N - 1) /\ b.n \in 1 .. MaxNeed /\ b.size \in Nat
      /\ b = [at |-> b.at, n |-> b.n, size |-> b.size]
  BY <1>1, <1>4
<1>3. MaxNeed \in Nat /\ N + MaxNeed <= TableLen
  BY DivFacts DEF MaxNeed
<1> QED
  BY <1>2, <1>3 DEF Clusters, Table

-----------------------------------------------------------------------------
(* free: what t_free clears *)

\* The shapes do not overlap, and a block of more than five clusters shows the
\* third one.
LEMMA ShapeOfBlock ==
    ASSUME TypeOK, MarksIntact, NEW b \in live, b.n \notin {2, 3}
    PROVE  /\ IsSmall(b.at) <=> b.n = 1
           /\ IsMedium(b.at) <=> b.n = 4
           /\ IsLarge(b.at) <=> b.n > 5
<1>1. /\ b.at \in Nat /\ b.n \in Nat \ {0}
  BY ClustersInTable, HeapAssumption DEF HeapAssumption
<1>2. \A i \in 0 .. (b.n - 1) : memsmall[b.at + i] = Mark(b.n, i)
  <2> TAKE i \in 0 .. (b.n - 1)
  <2>1. b.at + i \in Clusters(b) /\ (b.at + i) - b.at = i
    BY <1>1 DEF Clusters
  <2> QED
    BY <2>1 DEF MarksIntact
<1>3. memsmall[b.at] = Mark(b.n, 0)
  BY <1>1, <1>2
<1>4. CASE b.n = 1
  BY <1>3, <1>4 DEF Mark, IsSmall, IsMedium, IsLarge
<1>5. CASE b.n = 4
  BY <1>1, <1>2, <1>3, <1>5 DEF Mark, IsSmall, IsMedium, IsLarge
<1>6. CASE b.n = 5
  BY <1>1, <1>2, <1>3, <1>6 DEF Mark, IsSmall, IsMedium, IsLarge
<1>7. CASE b.n > 5
  <2>1. /\ memsmall[b.at + 1] = Mark(b.n, 1)
        /\ memsmall[b.at + 2] = Mark(b.n, 2)
        /\ memsmall[b.at + 3] = Mark(b.n, 3)
    BY <1>1, <1>2, <1>7
  <2> QED
    BY <2>1, <1>1, <1>3, <1>7 DEF Mark, IsSmall, IsMedium, IsLarge
<1>8. b.n = 1 \/ b.n = 4 \/ b.n = 5 \/ b.n > 5
  BY <1>1
<1> QED
  BY <1>4, <1>5, <1>6, <1>7, <1>8

\* In a large block only the last two clusters look like the end.
LEMMA EndOfBlock ==
    ASSUME TypeOK, MarksIntact, NEW b \in live, b.n > 5,
           NEW d \in b.at .. (b.at + b.n - 2)
    PROVE  EndsAt(b.at, d) <=> d = b.at + b.n - 2 /\ d <= N - 1
<1>1. /\ b.at \in Nat /\ b.n \in Nat \ {0} /\ N \in Nat
  BY ClustersInTable, HeapAssumption DEF HeapAssumption
<1>2. d \in Clusters(b) /\ d + 1 \in Clusters(b)
  BY <1>1 DEF Clusters
<1>3. /\ memsmall[d] = Mark(b.n, d - b.at)
      /\ memsmall[d + 1] = Mark(b.n, (d + 1) - b.at)
  <2>1. \A c \in Clusters(b) : memsmall[c] = Mark(b.n, c - b.at)
    BY DEF MarksIntact
  <2> QED
    BY <1>2, <2>1
<1>4. CASE d = b.at + b.n - 2
  <2>1. d - b.at = b.n - 2 /\ (d + 1) - b.at = b.n - 1
    BY <1>1, <1>4
  <2> QED
    BY <2>1, <1>1, <1>3, <1>4 DEF Mark, EndsAt
<1>5. CASE d # b.at + b.n - 2
  BY <1>1, <1>3, <1>5 DEF Mark, EndsAt
<1> QED
  BY <1>4, <1>5

\* t_free clears entries of the block it was given and no others.
LEMMA ClearsOnlyTheBlock ==
    ASSUME TypeOK, MarksIntact, NEW b \in live, b.n \notin {2, 3}
    PROVE  Cleared(b.at) \subseteq Clusters(b)
<1>1. /\ b.at \in Nat /\ b.n \in Nat \ {0} /\ N \in Nat
  BY ClustersInTable, HeapAssumption DEF HeapAssumption
<1>2. CASE b.n <= 5
  BY <1>1, <1>2, ShapeOfBlock DEF Cleared, Clusters
<1>3. CASE b.n > 5
  <2>1. Cleared(b.at) = {x \in b.at .. N : /\ x = N => EndsAt(b.at, N - 1)
                              /\ \A d \in b.at .. (x - 2) : ~EndsAt(b.at, d)}
    BY <1>1, <1>3, ShapeOfBlock DEF Cleared
  <2>2. SUFFICES ASSUME NEW x \in b.at .. N, x > b.at + b.n - 1,
                        \A d \in b.at .. (x - 2) : ~EndsAt(b.at, d)
                 PROVE  FALSE
    BY <2>1, <1>1 DEF Clusters
  <2>3. b.at + b.n - 2 \in b.at .. (x - 2) /\ b.at + b.n - 2 <= N - 1
    BY <2>2, <1>1, <1>3
  <2>4. EndsAt(b.at, b.at + b.n - 2)
    BY <2>3, <1>1, <1>3, EndOfBlock
  <2> QED
    BY <2>2, <2>3, <2>4
<1> QED
  BY <1>1, <1>2, <1>3

\* t_free clears all of them unless the block has exactly five clusters or
\* ends two or more clusters past the arena.
LEMMA ClearsTheBlock ==
    ASSUME TypeOK, MarksIntact, NEW b \in live, b.n \notin {2, 3, 5},
           b.n > 5 => b.at + b.n <= N + 1
    PROVE  Clusters(b) \subseteq Cleared(b.at)
<1>1. /\ b.at \in Nat /\ b.n \in Nat \ {0} /\ N \in Nat
  BY ClustersInTable, HeapAssumption DEF HeapAssumption
<1>2. CASE b.n <= 5
  BY <1>1, <1>2, ShapeOfBlock DEF Cleared, Clusters
<1>3. CASE b.n > 5
  <2>1. Cleared(b.at) = {x \in b.at .. N : /\ x = N => EndsAt(b.at, N - 1)
                              /\ \A d \in b.at .. (x - 2) : ~EndsAt(b.at, d)}
    BY <1>1, <1>3, ShapeOfBlock DEF Cleared
  <2>2. SUFFICES ASSUME NEW x \in Clusters(b)
                 PROVE  /\ x \in b.at .. N
                        /\ x = N => EndsAt(b.at, N - 1)
                        /\ \A d \in b.at .. (x - 2) : ~EndsAt(b.at, d)
    BY <2>1
  <2>3. x \in b.at .. N
    BY <1>1, <1>3 DEF Clusters
  <2>4. ASSUME x = N PROVE EndsAt(b.at, N - 1)
    <3>1. N - 1 = b.at + b.n - 2 /\ N - 1 \in b.at .. (b.at + b.n - 2)
      BY <2>4, <1>1, <1>3 DEF Clusters
    <3> QED
      BY <3>1, <1>1, <1>3, EndOfBlock
  <2>5. ASSUME NEW d \in b.at .. (x - 2) PROVE ~EndsAt(b.at, d)
    <3>1. d \in b.at .. (b.at + b.n - 2) /\ d # b.at + b.n - 2
      BY <2>5, <1>1, <1>3 DEF Clusters
    <3> QED
      BY <3>1, <1>1, <1>3, EndOfBlock
  <2> QED
    BY <2>3, <2>4, <2>5
<1> QED
  BY <1>1, <1>2, <1>3

-----------------------------------------------------------------------------
(* Steps *)

\* Init establishes the invariant.
LEMMA InitHolds == Init => HInv
<1> SUFFICES ASSUME Init PROVE HInv
  OBVIOUS
<1> USE HeapAssumption DEF HeapAssumption, Init
<1>1. TypeOK
  BY DEF TypeOK, Marks, Free0
<1>2. TableInv
  BY DEF TableInv, ClustersAccounted, Free0, Table
<1>3. BlockInv
  BY DEF BlockInv, Sized, Separate, MarksIntact, LeakApart
<1> QED
  BY <1>1, <1>2, <1>3 DEF HInv

\* A step that leaves the table and the blocks alone keeps the invariant.
LEMMA QuietStep ==
    ASSUME HInv, UNCHANGED <<memsmall, live, leaked>>,
           ret' \in Nat, found' \in BOOLEAN, iflag' \in BOOLEAN
    PROVE  HInv'
<1>1. TypeOK'
  BY DEF HInv, TypeOK
<1>2. TableInv'
  BY DEF HInv, TableInv, ClustersAccounted
<1>3. BlockInv'
  BY DEF HInv, BlockInv, Sized, Separate, MarksIntact, LeakApart
<1> QED
  BY <1>1, <1>2, <1>3 DEF HInv

\* A free run is outside every block in use and every leak.
LEMMA FreeRunApart ==
    ASSUME HInv, NEW c \in 1 .. (N - 1), NEW n \in 1 .. MaxNeed, FreeRun(c, n)
    PROVE  /\ c .. (c + n - 1) \subseteq Table \ {0}
           /\ \A b \in live : Clusters(b) \cap (c .. (c + n - 1)) = {}
           /\ leaked \cap (c .. (c + n - 1)) = {}
<1> USE HeapAssumption DEF HeapAssumption
<1>1. MaxNeed \in Nat /\ N + MaxNeed <= TableLen
  BY DivFacts DEF MaxNeed
<1>2. c .. (c + n - 1) \subseteq Table \ {0}
  BY <1>1 DEF Table
<1>3. \A x \in c .. (c + n - 1) : memsmall[x] = Free0
  BY DEF FreeRun
<1>4. \A x \in c .. (c + n - 1) : x \notin leaked /\ \A b \in live : x \notin Clusters(b)
  BY <1>2, <1>3 DEF HInv, TableInv, ClustersAccounted
<1> QED
  BY <1>2, <1>4

\* malloc that finds memory.
LEMMA MallocStep ==
    ASSUME HInv, NEW size \in Requests, MallocFound(size)
    PROVE  HInv'
<1> DEFINE n == Need(Rounded(size))
<1>1. PICK c \in 1 .. (N - 1) :
        /\ FreeRun(c, n)
        /\ memsmall' = [x \in Table |->
                IF x \in c .. (c + n - 1) THEN Mark(n, x - c) ELSE memsmall[x]]
        /\ live' = live \cup {[at |-> c, n |-> n, size |-> size]}
        /\ ret' = Base + c * ClusterSize + Pad
  BY DEF MallocFound, FirstFit
<1>2. /\ Rounded(size) <= MaxLarge /\ found' = TRUE /\ iflag' = TRUE
      /\ leaked' = leaked
  BY DEF MallocFound
<1>3. size \in Nat /\ c \in Nat
  BY HeapAssumption DEF HeapAssumption
<1>4. n \in 1 .. MaxNeed
  BY <1>2, <1>3, RoundedFits, NeedFits
<1> DEFINE nb == [at |-> c, n |-> n, size |-> size]
           run == c .. (c + n - 1)
<1>5. Clusters(nb) = run
  BY DEF Clusters
<1>6. /\ run \subseteq Table \ {0}
      /\ \A b \in live : Clusters(b) \cap run = {}
      /\ leaked \cap run = {}
  BY <1>1, <1>4, FreeRunApart
<1>7. TypeOK'
  <2>1. memsmall' \in [Table -> Marks]
    BY <1>1, MarkIsMark DEF HInv, TypeOK
  <2>2. ret' \in Nat
    BY <1>1, <1>3, HeapAssumption DEF HeapAssumption
  <2>3. \A b \in live' : b \in [at : 1 .. (N - 1), n : 1 .. MaxNeed, size : Requests]
    <3> HIDE DEF n
    <3>1. nb \in [at : 1 .. (N - 1), n : 1 .. MaxNeed, size : Requests]
      BY <1>4
    <3>2. \A b \in live : b \in [at : 1 .. (N - 1), n : 1 .. MaxNeed, size : Requests]
      BY DEF HInv, TypeOK
    <3>3. live' = live \cup {nb}
      BY <1>1
    <3> QED
      BY <3>1, <3>2, <3>3
  <2> QED
    BY <2>1, <2>2, <2>3, <1>2 DEF HInv, TypeOK
<1> HIDE DEF n
<1>8. live' = live \cup {nb} /\ nb.at = c /\ nb.n = n /\ nb.size = size
  BY <1>1
<1>9. \A x \in Table : memsmall'[x] = IF x \in run THEN Mark(n, x - c) ELSE memsmall[x]
  BY <1>1
<1> HIDE DEF nb, run
<1>10. TableInv'
  <2>1. \A x \in run : memsmall'[x] # Free0
    BY <1>6, <1>9, MarkIsMark
  <2>2. 0 \in Table
    BY HeapAssumption, <1>6 DEF HeapAssumption, Table
  <2>3. memsmall'[0] = "reserved"
    BY <2>2, <1>6, <1>9 DEF HInv, TableInv
  <2>4. ASSUME NEW x \in Table \ {0}
        PROVE  memsmall'[x] # Free0 <=> x \in leaked \/ \E b \in live' : x \in Clusters(b)
    <3>1. memsmall[x] # Free0 <=> x \in leaked \/ \E b \in live : x \in Clusters(b)
      BY DEF HInv, TableInv, ClustersAccounted
    <3>2. CASE x \in run
      BY <3>2, <2>1, <1>5, <1>8
    <3>3. CASE x \notin run
      BY <3>1, <3>3, <1>5, <1>8, <1>9
    <3> QED
      BY <3>2, <3>3
  <2> QED
    BY <2>3, <2>4, <1>2 DEF TableInv, ClustersAccounted
<1>11. BlockInv'
  <2>1. Sized'
    BY <1>2, <1>8 DEF HInv, BlockInv, Sized, n
  <2>2. Separate'
    BY <1>5, <1>6, <1>8 DEF HInv, BlockInv, Separate
  <2>3. LeakApart'
    BY <1>2, <1>5, <1>6, <1>8 DEF HInv, BlockInv, LeakApart
  <2>4. MarksIntact'
    <3> SUFFICES ASSUME NEW b \in live', NEW x \in Clusters(b)
                 PROVE  memsmall'[x] = Mark(b.n, x - b.at)
      BY DEF MarksIntact
    <3>1. CASE b = nb
      BY <3>1, <1>5, <1>6, <1>8, <1>9
    <3>2. CASE b \in live
      <4>1. x \in Table /\ x \notin run
        BY <3>2, <1>6, ClustersInTable DEF HInv
      <4>2. memsmall[x] = Mark(b.n, x - b.at)
        BY <3>2 DEF HInv, BlockInv, MarksIntact
      <4> QED
        BY <4>1, <4>2, <1>9
    <3> QED
      BY <3>1, <3>2, <1>8
  <2> QED
    BY <2>1, <2>2, <2>3, <2>4 DEF BlockInv
<1> QED
  BY <1>7, <1>10, <1>11 DEF HInv

\* No block in use has two or three clusters.
LEMMA NotTwoOrThree ==
    ASSUME HInv, NEW b \in live
    PROVE  b.n \notin {2, 3}
<1>1. b.size \in Nat
  BY ClustersInTable DEF HInv
<1> QED
  BY <1>1, RoundedFits, NeedFits DEF HInv, BlockInv, Sized

\* free of a block in use.
LEMMA FreeStep ==
    ASSUME HInv, NEW b \in live, FreeBlock(b)
    PROVE  HInv'
<1> DEFINE gone == Cleared(b.at)
<1>1. gone \subseteq Clusters(b)
  BY NotTwoOrThree, ClearsOnlyTheBlock DEF HInv, BlockInv
<1>2. Clusters(b) \subseteq Table \ {0}
  BY ClustersInTable DEF HInv
<1>3. /\ memsmall' = [x \in Table |-> IF x \in gone THEN Free0 ELSE memsmall[x]]
      /\ live' = live \ {b}
      /\ leaked' = leaked \cup (Clusters(b) \ gone)
      /\ iflag' = TRUE /\ ret' = ret /\ found' = found
  BY DEF FreeBlock
<1> HIDE DEF gone
<1>4. \A x \in Table : memsmall'[x] = IF x \in gone THEN Free0 ELSE memsmall[x]
  BY <1>3
<1>5. TypeOK'
  <2>1. memsmall' \in [Table -> Marks]
    BY <1>3 DEF HInv, TypeOK, Marks, Free0
  <2> QED
    BY <2>1, <1>2, <1>3 DEF HInv, TypeOK
<1>6. \A d \in live' : d \in live /\ Clusters(d) \cap Clusters(b) = {}
  BY <1>3 DEF HInv, BlockInv, Separate
<1>7. TableInv'
  <2>1. 0 \in Table /\ 0 \notin gone
    BY HeapAssumption, <1>1, <1>2 DEF HeapAssumption, Table
  <2>2. memsmall'[0] = "reserved"
    BY <2>1, <1>4 DEF HInv, TableInv
  <2>3. ASSUME NEW x \in Table \ {0}
        PROVE  memsmall'[x] # Free0 <=> x \in leaked' \/ \E d \in live' : x \in Clusters(d)
    <3>1. memsmall[x] # Free0 <=> x \in leaked \/ \E d \in live : x \in Clusters(d)
      BY DEF HInv, TableInv, ClustersAccounted
    <3>2. CASE x \in gone
      <4>1. x \in Clusters(b) /\ x \notin leaked
        BY <3>2, <1>1 DEF HInv, BlockInv, LeakApart
      <4> QED
        BY <4>1, <3>2, <1>3, <1>4, <1>6
    <3>3. CASE x \notin gone /\ x \in Clusters(b)
      BY <3>1, <3>3, <1>3, <1>4
    <3>4. CASE x \notin Clusters(b)
      <4>1. memsmall'[x] = memsmall[x]
        BY <3>4, <1>1, <1>4
      <4>2. x \in leaked' <=> x \in leaked
        BY <3>4, <1>3
      <4>3. (\E d \in live' : x \in Clusters(d)) <=> (\E d \in live : x \in Clusters(d))
        BY <3>4, <1>3
      <4> QED
        BY <4>1, <4>2, <4>3, <3>1
    <3> QED
      BY <3>2, <3>3, <3>4
  <2> QED
    BY <2>2, <2>3 DEF TableInv, ClustersAccounted
<1>8. BlockInv'
  <2>1. Sized' /\ Separate'
    BY <1>6 DEF HInv, BlockInv, Sized, Separate
  <2>2. LeakApart'
    BY <1>2, <1>3, <1>6 DEF HInv, BlockInv, LeakApart
  <2>3. MarksIntact'
    <3> SUFFICES ASSUME NEW d \in live', NEW x \in Clusters(d)
                 PROVE  memsmall'[x] = Mark(d.n, x - d.at)
      BY DEF MarksIntact
    <3>1. d \in live /\ x \notin gone /\ x \in Table
      BY <1>1, <1>6, ClustersInTable DEF HInv
    <3>2. memsmall[x] = Mark(d.n, x - d.at)
      BY <3>1 DEF HInv, BlockInv, MarksIntact
    <3> QED
      BY <3>1, <3>2, <1>4
  <2> QED
    BY <2>1, <2>2, <2>3 DEF BlockInv
<1> QED
  BY <1>5, <1>7, <1>8 DEF HInv

\* Every step keeps the invariant.
LEMMA NextHolds == HInv /\ [Next]_vars => HInv'
<1> SUFFICES ASSUME HInv, [Next]_vars PROVE HInv'
  OBVIOUS
<1>1. ret \in Nat /\ found \in BOOLEAN /\ iflag \in BOOLEAN
  BY DEF HInv, TypeOK
<1>2. ASSUME NEW size \in Requests, MallocFound(size) PROVE HInv'
  BY <1>2, MallocStep
<1>3. ASSUME NEW size \in Requests, MallocNotFound(size) PROVE HInv'
  <2>1. /\ UNCHANGED <<memsmall, live, leaked>>
        /\ ret' \in Nat /\ found' \in BOOLEAN /\ iflag' \in BOOLEAN
    BY <1>3, HeapAssumption DEF MallocNotFound, HeapAssumption
  <2> QED
    BY <2>1, QuietStep
<1>4. ASSUME NEW b \in live, FreeBlock(b) PROVE HInv'
  BY <1>4, FreeStep
<1>5. CASE FreeNull \/ FreeForeign \/ UNCHANGED vars
  <2>1. /\ UNCHANGED <<memsmall, live, leaked>>
        /\ ret' \in Nat /\ found' \in BOOLEAN /\ iflag' \in BOOLEAN
    BY <1>1, <1>5 DEF FreeNull, FreeForeign, vars
  <2> QED
    BY <2>1, QuietStep
<1> QED
  BY <1>2, <1>3, <1>4, <1>5 DEF Next

\* The inductive invariant holds in every reachable state of the heap.
THEOREM HeapInvariance == Spec => []HInv
  BY InitHolds, NextHolds, PTL DEF Spec

\* The cluster table and the blocks stay well typed: no block ends past the
\* table, for every arena and every choice of request sizes.
THEOREM HeapTypeCorrect == Spec => []TypeOK
  BY HeapInvariance, PTL DEF HInv

\* free of one block never disturbs the marks of another.
THEOREM HeapMarksIntact == Spec => []MarksIntact
<1>1. HInv => MarksIntact
  BY DEF HInv, BlockInv
<1> QED
  BY <1>1, HeapInvariance, PTL

\* A cluster is taken exactly if a block in use or a leak accounts for it.
THEOREM HeapAccounting == Spec => []ClustersAccounted
<1>1. HInv => ClustersAccounted
  BY DEF HInv, TableInv
<1> QED
  BY <1>1, HeapInvariance, PTL

\* The bytes of a block lie in its clusters.
LEMMA AreaInClusters ==
    ASSUME HInv, NEW b \in live
    PROVE  /\ Base + b.at * ClusterSize <= AreaFrom(b)
           /\ ~Wraps(b.size) => AreaTo(b) <= Base + (b.at + b.n) * ClusterSize
<1>1. /\ b.at \in Nat /\ b.n \in Nat /\ b.size \in Nat
      /\ Base \in Nat /\ ClusterSize \in Nat /\ Pad \in Nat /\ Header \in Nat
      /\ Header <= Pad
  BY ClustersInTable, HeapAssumption DEF HInv, HeapAssumption
<1>2. ~Wraps(b.size) => Pad + b.size <= b.n * ClusterSize
  BY <1>1, RoundedFits, NeedFits DEF HInv, BlockInv, Sized
<1>3. (b.at + b.n) * ClusterSize = b.at * ClusterSize + b.n * ClusterSize
  BY <1>1
<1>4. b.at * ClusterSize \in Nat /\ b.n * ClusterSize \in Nat
  BY <1>1
<1> QED
  BY <1>1, <1>2, <1>3, <1>4 DEF AreaFrom, AreaTo

\* The bytes of a block whose size did not wrap are clear of all clusters of
\* the others, and no block reaches the table.
LEMMA DisjointFromInv == HInv => AreasDisjoint
<1> SUFFICES ASSUME HInv PROVE AreasDisjoint
  OBVIOUS
<1>1. ASSUME NEW b \in live PROVE AreaFrom(b) >= Base + ClusterSize
  <2>1. /\ b.at \in Nat /\ 1 <= b.at /\ ClusterSize \in Nat /\ Base \in Nat
        /\ b.size \in Nat /\ Pad \in Nat /\ Header \in Nat
    BY ClustersInTable, HeapAssumption DEF HInv, HeapAssumption
  <2>2. 1 * ClusterSize <= b.at * ClusterSize
    BY <2>1, MulMono
  <2> QED
    BY <2>1, <2>2, AreaInClusters DEF AreaFrom
<1>2. ASSUME NEW b \in live, NEW d \in live, b.at + b.n <= d.at, ~Wraps(b.size)
      PROVE  AreaTo(b) <= Base + d.at * ClusterSize
  <2>1. /\ b.at \in Nat /\ b.n \in Nat /\ d.at \in Nat /\ b.size \in Nat
        /\ ClusterSize \in Nat /\ Base \in Nat /\ Pad \in Nat /\ Header \in Nat
    BY ClustersInTable, HeapAssumption DEF HInv, HeapAssumption
  <2>2. (b.at + b.n) * ClusterSize <= d.at * ClusterSize
    BY <1>2, <2>1, MulMono
  <2>3. /\ (b.at + b.n) * ClusterSize \in Nat /\ d.at * ClusterSize \in Nat
        /\ b.at * ClusterSize \in Nat
    BY <2>1
  <2> QED
    BY <1>2, <2>1, <2>2, <2>3, AreaInClusters DEF AreaTo
<1>4. ASSUME NEW b \in live, NEW d \in live, d.at + d.n <= b.at
      PROVE  Base + (d.at + d.n) * ClusterSize <= AreaFrom(b)
  <2>1. /\ b.at \in Nat /\ d.n \in Nat /\ d.at \in Nat
        /\ ClusterSize \in Nat /\ Base \in Nat /\ Pad \in Nat /\ Header \in Nat
    BY ClustersInTable, HeapAssumption DEF HInv, HeapAssumption
  <2>2. (d.at + d.n) * ClusterSize <= b.at * ClusterSize
    BY <1>4, <2>1, MulMono
  <2>3. (d.at + d.n) * ClusterSize \in Nat /\ b.at * ClusterSize \in Nat
    BY <2>1
  <2> QED
    BY <2>1, <2>2, <2>3, AreaInClusters DEF AreaFrom
<1>3. ASSUME NEW b \in live, NEW d \in live, b # d
      PROVE  b.at + b.n <= d.at \/ d.at + d.n <= b.at
  <2>1. /\ b.at \in Nat /\ b.n \in Nat \ {0} /\ d.at \in Nat /\ d.n \in Nat \ {0}
    BY ClustersInTable DEF HInv
  <2>2. Clusters(b) \cap Clusters(d) = {}
    BY <1>3 DEF HInv, BlockInv, Separate
  <2>3. b.at \notin Clusters(d) /\ d.at \notin Clusters(b)
    BY <2>1, <2>2 DEF Clusters
  <2> QED
    BY <2>1, <2>3 DEF Clusters
<1> QED
  BY <1>1, <1>2, <1>3, <1>4 DEF AreasDisjoint

\* For every arena and every sequence of malloc and free, the bytes of a block
\* in use are in no cluster of another, unless the rounding of its size wrapped.
THEOREM HeapDisjoint == Spec => []AreasDisjoint
  BY HeapInvariance, DisjointFromInv, PTL

\* A step that frees a block is a call of free on it.
LEMMA ReleaseStep ==
    ASSUME HInv, Next, NEW b \in live \ live',
           b.n # 5, b.n > 5 => b.at + b.n <= N + 1
    PROVE  \A c \in Clusters(b) : memsmall'[c] = Free0
<1>1. FreeBlock(b)
  BY DEF Next, MallocFound, MallocNotFound, FreeBlock, FreeNull, FreeForeign
<1>2. Clusters(b) \subseteq Cleared(b.at)
  BY NotTwoOrThree, ClearsTheBlock DEF HInv, BlockInv
<1>3. Clusters(b) \subseteq Table
  BY ClustersInTable DEF HInv
<1> QED
  BY <1>1, <1>2, <1>3 DEF FreeBlock

\* free releases all of a block but in the two cases the code misses.
THEOREM HeapReleases == Spec => FreeReleases
<1>1. HInv /\ [Next]_vars =>
        [\A b \in live \ live' :
          b.n # 5 /\ (b.n > 5 => b.at + b.n <= N + 1) =>
              \A c \in Clusters(b) : memsmall'[c] = Free0]_vars
  BY ReleaseStep DEF vars
<1> QED
  BY <1>1, HeapInvariance, PTL DEF Spec, FreeReleases
=============================================================================
