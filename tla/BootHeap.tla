------------------------------- MODULE BootHeap -------------------------------
(***************************************************************************)
(* The heap of lib/misc/BootLibrary.c: malloc and free over the cluster    *)
(* table kept by t_malloc and t_free.                                      *)
(*                                                                         *)
(* The table has one byte per 16K cluster.  A block is one cluster marked  *)
(* AA, four clusters marked FE DC BA B8, or five and more clusters marked  *)
(* BB CC FF .. FF CC BB.  The C code searches for a free run that starts   *)
(* below entry 0x400 but never asks where the run ends: the table is as    *)
(* long as the cluster that holds it (0x4000 zeroed bytes), so a run may   *)
(* extend past the arena.                                                  *)
(*                                                                         *)
(* malloc and free run with interrupts off from their first to their last  *)
(* instruction, so each call is one step whichever of the main program and *)
(* the USB interrupt makes it.                                             *)
(***************************************************************************)
EXTENDS Integers, FiniteSets

CONSTANTS
    N,              \* entries that are searched: 0x400, the clusters of the arena
    TableLen,       \* entries that exist: 0x4000
    ClusterSize,    \* 0x4000
    Pad,            \* 0x100, alignment of what malloc returns
    Header,         \* 8, bytes malloc writes in front of what it returns
    MaxLarge,       \* 5 MB, the largest request t_malloc accepts
    Base,           \* MEMORYMANAGERSTART
    WordSize,       \* 2^32, where a size_t wraps
    Requests        \* the sizes callers ask for

ASSUME HeapAssumption ==
    /\ N \in Nat \ {0, 1}
    /\ TableLen \in Nat
    /\ ClusterSize \in Nat \ {0}
    /\ Pad \in Nat \ {0}
    /\ Header \in 1 .. Pad
    /\ MaxLarge \in Nat
    /\ 4 * ClusterSize <= MaxLarge
    /\ N + (MaxLarge \div ClusterSize) + 1 <= TableLen
    /\ Base \in Nat
    /\ WordSize \in Nat \ {0}
    /\ Requests \subseteq 0 .. (WordSize - 1)

Free0 == "00"
Marks == {Free0, "reserved", "AA", "FE", "DC", "BA", "B8", "BB", "CC", "FF"}
Table == 0 .. (TableLen - 1)

VARIABLES
    memsmall,   \* the cluster table
    live,       \* blocks handed out and not freed: [at, n, size]
    leaked,     \* clusters of freed blocks that t_free did not release
    ret,        \* what the last malloc returned
    found,      \* whether t_malloc had found memory for it
    iflag       \* the processor takes interrupts

vars == <<memsmall, live, leaked, ret, found, iflag>>

-----------------------------------------------------------------------------
\* MemoryManagementInitialization
Init ==
    /\ memsmall = [c \in Table |-> IF c = 0 THEN "reserved" ELSE Free0]
    /\ live = {}
    /\ leaked = {}
    /\ ret = 0
    /\ found = TRUE
    /\ iflag = TRUE

\* Mutant: no room is added for the header.
RoundedTight(size) == size

\* malloc adds room for its header and alignment: (size+0x200) & 0xffffff00.
\* The sum is taken in a word: a request near its end comes out as 0 or Pad.
Rounded(size) ==
    LET sum == (size + 2 * Pad) % WordSize
    IN  sum - (sum % Pad)

\* Mutant: one cluster too many for a large block.
NeedOneMore(t) ==
    IF t <= ClusterSize THEN 1
    ELSE IF t <= 4 * ClusterSize THEN 4
    ELSE (t \div ClusterSize) + 2

\* The number of clusters t_malloc takes.  A large block always gets one more
\* than the whole clusters in its size.
Need(t) ==
    IF t <= ClusterSize THEN 1
    ELSE IF t <= 4 * ClusterSize THEN 4
    ELSE (t \div ClusterSize) + 1

\* The byte t_malloc writes for cluster i of a block of n.
Mark(n, i) ==
    IF n = 1 THEN "AA"
    ELSE IF n = 4 THEN
        IF i = 0 THEN "FE" ELSE IF i = 1 THEN "DC" ELSE IF i = 2 THEN "BA" ELSE "B8"
    ELSE IF i = 0 \/ i = n - 1 THEN "BB"
    ELSE IF i = 1 \/ i = n - 2 THEN "CC"
    ELSE "FF"

\* Mutant: only the two ends of the run are looked at.
FreeEnds(c, n) == memsmall[c] = Free0 /\ memsmall[c + n - 1] = Free0

FreeRun(c, n) == \A i \in c .. (c + n - 1) : memsmall[i] = Free0

\* The lowest start of a free run of n clusters.
FirstFit(c, n) ==
    /\ c \in 1 .. (N - 1)
    /\ FreeRun(c, n)
    /\ \A d \in 1 .. (c - 1) : ~FreeRun(d, n)

NoFit(n) == \A c \in 1 .. (N - 1) : ~FreeRun(c, n)

Clusters(b) == b.at .. (b.at + b.n - 1)

\* malloc when t_malloc finds a run.
MallocFound(size) ==
    LET t == Rounded(size)
        n == Need(t)
    IN  /\ t <= MaxLarge
        /\ \E c \in 1 .. (N - 1) :
            /\ FirstFit(c, n)
            /\ memsmall' = [x \in Table |->
                    IF x \in c .. (c + n - 1) THEN Mark(n, x - c) ELSE memsmall[x]]
            /\ live' = live \cup {[at |-> c, n |-> n, size |-> size]}
            /\ ret' = Base + c * ClusterSize + Pad
        /\ found' = TRUE
        /\ iflag' = TRUE
        /\ UNCHANGED leaked

\* malloc when t_malloc returns 0: the alignment makes 0x100 of it.
MallocNotFound(size) ==
    LET t == Rounded(size) IN
    /\ t <= MaxLarge => NoFit(Need(t))
    /\ ret' = Pad
    /\ found' = FALSE
    /\ iflag' = TRUE
    /\ UNCHANGED <<memsmall, live, leaked>>

\* The three shapes t_free recognises.  The third one, 0xFFFFCCBB, is not how
\* a block of five clusters starts.
IsSmall(c) == memsmall[c] = "AA"

IsMedium(c) ==
    /\ memsmall[c] = "FE" /\ memsmall[c + 1] = "DC"
    /\ memsmall[c + 2] = "BA" /\ memsmall[c + 3] = "B8"

IsLarge(c) ==
    /\ memsmall[c] = "BB" /\ memsmall[c + 1] = "CC"
    /\ memsmall[c + 2] = "FF" /\ memsmall[c + 3] = "FF"

\* Mutant: the scan takes any CC for the end of the block.
EndsAtAnyCC(c, e) == e \in c .. (N - 1) /\ memsmall[e] = "CC"

\* Mutant: the scan does not stop at the end of the block.
EndsAtNever(c, e) == FALSE

\* Where the scan for CC BB stops; it does not look past the arena.
EndsAt(c, e) == e \in c .. (N - 1) /\ memsmall[e] = "CC" /\ memsmall[e + 1] = "BB"

\* The entries t_free sets to 0.
Cleared(c) ==
    IF IsSmall(c) THEN {c}
    ELSE IF IsMedium(c) THEN c .. (c + 3)
    ELSE IF IsLarge(c) THEN
        {x \in c .. N : /\ x = N => EndsAt(c, N - 1)
                        /\ \A d \in c .. (x - 2) : ~EndsAt(c, d)}
    ELSE {}

\* free of a pointer malloc returned.  Its header leads back to the block.
FreeBlock(b) ==
    /\ b \in live
    /\ memsmall' = [x \in Table |-> IF x \in Cleared(b.at) THEN Free0 ELSE memsmall[x]]
    /\ live' = live \ {b}
    /\ leaked' = leaked \cup (Clusters(b) \ Cleared(b.at))
    /\ iflag' = TRUE
    /\ UNCHANGED <<ret, found>>

\* free(NULL) returns between cli and sti.
FreeNull ==
    /\ iflag' = FALSE
    /\ UNCHANGED <<memsmall, live, leaked, ret, found>>

\* free of a pointer without the magic number in front of it.
FreeForeign ==
    /\ iflag' = TRUE
    /\ UNCHANGED <<memsmall, live, leaked, ret, found>>

Next ==
    \/ \E size \in Requests : MallocFound(size) \/ MallocNotFound(size)
    \/ \E b \in live : FreeBlock(b)
    \/ FreeNull
    \/ FreeForeign

Spec == Init /\ [][Next]_vars

-----------------------------------------------------------------------------
(* Properties *)

MaxNeed == (MaxLarge \div ClusterSize) + 1

\* A cluster table of marks and a set of blocks that t_malloc can hand out; a
\* block may end past the arena, but not past the table.
TypeOK ==
    /\ memsmall \in [Table -> Marks]
    /\ \A b \in live : b \in [at : 1 .. (N - 1), n : 1 .. MaxNeed, size : Requests]
    /\ leaked \subseteq Table
    /\ ret \in Nat
    /\ found \in BOOLEAN
    /\ iflag \in BOOLEAN

\* First byte malloc writes for a block (its header), and the first byte after
\* what the caller may write.
AreaFrom(b) == Base + b.at * ClusterSize + Pad - Header
AreaTo(b) == Base + b.at * ClusterSize + Pad + b.size

\* The sum in malloc wraps: the caller who asked for all but 0x200 bytes of
\* the address space, or for more, gets a block of one cluster.
Wraps(size) == size + 2 * Pad >= WordSize

\* No block reaches the cluster that holds the table, and the bytes of a block
\* in use, header included, are in no cluster of another one: whatever order of
\* malloc and free, with blocks that leaked or that run past the arena.  The one
\* exception are requests whose rounding wraps: what such a caller takes for
\* his is not protected from others, nor others from him; but the block he
\* really has is one more that all the others stay clear of.
AreasDisjoint ==
    \A b \in live :
        /\ AreaFrom(b) >= Base + ClusterSize
        /\ ~Wraps(b.size) =>
            \A d \in live \ {b} :
                \/ AreaTo(b) <= Base + d.at * ClusterSize
                \/ Base + (d.at + d.n) * ClusterSize <= AreaFrom(b)

\* The table entries of a block in use are still what t_malloc wrote: freeing
\* one block never clears an entry of another, so t_free will recognise it.
MarksIntact ==
    \A b \in live : \A c \in Clusters(b) : memsmall[c] = Mark(b.n, c - b.at)

\* A cluster is taken exactly if a block in use or a leak accounts for it.
ClustersAccounted ==
    \A c \in Table \ {0} :
        memsmall[c] # Free0 <=> c \in leaked \/ \E b \in live : c \in Clusters(b)

\* free releases every cluster of the block, except of a block of exactly five
\* clusters and of one that runs past the arena by two clusters or more.
FreeReleases ==
    [][\A b \in live \ live' :
          b.n # 5 /\ (b.n > 5 => b.at + b.n <= N + 1) =>
              \A c \in Clusters(b) : memsmall'[c] = Free0]_vars

\* "OpenFATXPartition : Out of memory": callers take a NULL from malloc to mean
\* that no memory was found.
NullOnFailure == ~found => ret = 0
=============================================================================
