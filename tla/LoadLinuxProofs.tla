--------------------------- MODULE LoadLinuxProofs ---------------------------
(***************************************************************************)
(* Proofs about the two tasks of boot/LoadLinux.c that are modelled.       *)
(*                                                                         *)
(* Flashing from a CD (FlashSession), for every collection of discs: the   *)
(* inductive invariant ties the session to the contract of                 *)
(* BootReflashAndReset.  Outside of the call the flash is untouched, a     *)
(* refusal leaves it untouched, a reboot finds it complete.                *)
(*                                                                         *)
(* Starting Linux from a FATX partition (Fatx), for every size of the      *)
(* partition, every content of its directories and every chain table: the  *)
(* search is on its way through a chain of directories that the path       *)
(* names, and what was copied is the beginning of a file it names.         *)
(***************************************************************************)
EXTENDS FlashSession, Fatx, FiniteSetTheorems, SequenceTheorems,
        NaturalsInduction, WellFoundedInduction, TLAPS

-----------------------------------------------------------------------------
(* Flashing from a CD.                                                     *)

\* What the phases of the flash say of its content.
Contract ==
    /\ phase \in {"idle", "refused"} => intact
    /\ phase = "rebooting" => complete

\* The flash is idle until the size was found right.
CallInv ==
    /\ pc = "probe" => n < Tries
    /\ pc \notin {"flash", "started"} => phase = "idle"
    /\ pc = "started" => phase \in {"refused", "rebooting"}
    /\ pc \in {"flash", "started"} => got = Expected

\* A sound image is the file of a disc, and its size is the one returned.
ImageInv ==
    /\ image.sound => image.of \in Discs
    /\ pc \in {"check", "flash", "started"} /\ got # Missing /\ image.sound =>
            got = File[image.of].size

SInv == TypeOK /\ Contract /\ CallInv /\ ImageInv

\* What BootIso9660GetFile can return.
LEMMA LoadsType ==
    ASSUME TypeOK, image.sound => image.of \in Discs, NEW l \in Loads
    PROVE  /\ l.ret \in {Missing} \cup (0 .. 3)
           /\ l.image \in [of : Discs \cup {NoDisc}, sound : BOOLEAN]
           /\ l.image.sound => l.image.of \in Discs
           /\ l.ret # Missing /\ l.image.sound => l.ret = File[l.image.of].size
<1> USE SessionAssumption DEF SessionAssumption
<1>1. CASE l \in NotFound
  BY <1>1 DEF NotFound, TypeOK
<1>2. CASE l \in WholeFile /\ disc \in Discs
  <2>1. File[disc].size \in 0 .. 3
    BY <1>2
  <2>2. PICK ok \in BOOLEAN :
          l = [ret |-> File[disc].size, image |-> [of |-> disc, sound |-> ok]]
    BY <1>2 DEF WholeFile
  <2> QED
    BY <1>2, <2>1, <2>2
<1>3. CASE l \in StrayLength /\ disc \in Discs
  <2>1. PICK s \in {Missing} \cup Sizes :
          l = [ret |-> s, image |-> [of |-> disc, sound |-> FALSE]]
    BY <1>3 DEF StrayLength
  <2> QED
    BY <1>3, <2>1 DEF Sizes
<1>4. CASE l \in Mixed
  <2>1. PICK s \in {Missing} \cup Sizes :
          l = [ret |-> s, image |-> [of |-> disc, sound |-> FALSE]]
    BY <1>4 DEF Mixed
  <2> QED
    BY <2>1 DEF Sizes, TypeOK
<1> QED
  BY <1>1, <1>2, <1>3, <1>4 DEF Loads

\* Init establishes the invariant.
LEMMA SessionInit == Init => SInv
<1> SUFFICES ASSUME Init PROVE SInv
  OBVIOUS
<1> USE SessionAssumption DEF SessionAssumption, Init, Flash!Init
<1>1. TypeOK
  BY DEF TypeOK, NoImage, Missing, Flash!Phases
<1>2. Contract /\ CallInv
  BY DEF Contract, CallInv
<1>3. ImageInv
  BY DEF ImageInv, NoImage
<1> QED
  BY <1>1, <1>2, <1>3 DEF SInv

\* Every step keeps the invariant.
LEMMA SessionNext == SInv /\ [Next]_vars => SInv'
<1> SUFFICES ASSUME SInv, [Next]_vars PROVE SInv'
  OBVIOUS
<1> USE DEF SInv
<1>1. CASE Probe
  <2>1. PICK l \in Loads :
          /\ image' = l.image /\ n' = n + 1
          /\ pc' = IF l.ret # Missing THEN "load" ELSE IF LastProbe THEN "ask" ELSE "probe"
    BY <1>1 DEF Probe
  <2>2. pc = "probe" /\ UNCHANGED <<job, disc, got, flashVars>>
    BY <1>1 DEF Probe
  <2>3. /\ l.image \in [of : Discs \cup {NoDisc}, sound : BOOLEAN]
        /\ l.image.sound => l.image.of \in Discs
    BY LoadsType DEF ImageInv
  <2>4. n' \in 0 .. Tries /\ (pc' = "probe" => n' < Tries)
    BY <2>1, <2>2, SessionAssumption
        DEF SessionAssumption, TypeOK, CallInv, LastProbe
  <2> QED
    BY <1>1, <2>1, <2>2, <2>3, <2>4
        DEF Probe, Return, TypeOK, Contract, CallInv, ImageInv, flashVars
<1>2. CASE WaitReadable
  <2>1. PICK l \in Loads :
          image' = l.image /\ pc' = IF l.ret # Missing THEN "load" ELSE "wait"
    BY <1>2 DEF WaitReadable
  <2>2. pc = "wait" /\ UNCHANGED <<job, disc, n, got, flashVars>>
    BY <1>2 DEF WaitReadable
  <2>3. /\ l.image \in [of : Discs \cup {NoDisc}, sound : BOOLEAN]
        /\ l.image.sound => l.image.of \in Discs
    BY LoadsType DEF ImageInv
  <2> QED
    BY <1>2, <2>1, <2>2, <2>3
        DEF WaitReadable, Return, TypeOK, Contract, CallInv, ImageInv, flashVars
<1>3. CASE Load
  <2>1. PICK l \in Loads : got' = l.ret /\ image' = l.image
    BY <1>3 DEF Load
  <2>2. pc = "load" /\ pc' = "check" /\ UNCHANGED <<job, disc, n, flashVars>>
    BY <1>3 DEF Load
  <2>3. /\ l.ret \in {Missing} \cup (0 .. 3)
        /\ l.image \in [of : Discs \cup {NoDisc}, sound : BOOLEAN]
        /\ l.image.sound => l.image.of \in Discs
        /\ l.ret # Missing /\ l.image.sound => l.ret = File[l.image.of].size
    BY LoadsType DEF ImageInv
  <2> QED
    BY <1>3, <2>1, <2>2, <2>3
        DEF Load, Return, TypeOK, Contract, CallInv, ImageInv, flashVars
<1>4. CASE Check
  BY <1>4 DEF Check, SizeAsExpected, Expected, TypeOK, Contract, CallInv, ImageInv,
              ioVars, fileVars, flashVars
<1>5. CASE Reflash
  <2>1. /\ pc = "flash" /\ pc' = pc /\ phase # "refused" /\ Flash!Next
        /\ UNCHANGED <<job, disc, n, io, whole, got, image>>
    BY <1>5 DEF Reflash, ioVars, fileVars
  <2>2. /\ phase' \in Flash!Phases
        /\ intact' \in BOOLEAN /\ complete' \in BOOLEAN
    BY <2>1 DEF TypeOK, Flash!Next, Flash!Refuse, Flash!Commit, Flash!Modify,
                Flash!Reboot, Flash!PowerLoss, Flash!Phases
  <2>3. Contract'
    BY <2>1 DEF Contract, Flash!Next, Flash!Refuse, Flash!Commit, Flash!Modify,
                Flash!Reboot, Flash!PowerLoss
  <2> QED
    BY <2>1, <2>2, <2>3 DEF TypeOK, CallInv, ImageInv, Expected
<1>6. CASE StartOld \/ StartNew \/ PressA
  BY <1>6 DEF StartOld, StartNew, PressA, TypeOK, Contract, CallInv, ImageInv,
              Expected, ioVars, fileVars, flashVars
<1>7. CASE Swap \/ GetFile \/ DriveStalls \/ DriveAnswers
  BY <1>7 DEF Swap, GetFile, DriveStalls, DriveAnswers, TypeOK, Contract, CallInv, ImageInv, Expected, fileVars, flashVars
<1>8. CASE UNCHANGED vars
  BY <1>8 DEF vars, TypeOK, Contract, CallInv, ImageInv, Expected, ioVars, fileVars,
              flashVars
<1> QED
  BY <1>1, <1>2, <1>3, <1>4, <1>5, <1>6, <1>7, <1>8 DEF Next, Step

\* The inductive invariant holds throughout a session.
THEOREM SessionInvariance == Spec => []SInv
  BY SessionInit, SessionNext, PTL DEF Spec

\* The console is restarted only with the old BIOS untouched or the new one
\* complete, for every collection of discs.
THEOREM SessionStarts == Spec => []StartsOldOrNew
<1>1. SInv => StartsOldOrNew
  BY DEF SInv, Contract, CallInv, StartsOldOrNew
<1> QED
  BY <1>1, SessionInvariance, PTL

\* Only the file of a single disc, of the right size, is ever flashed.
THEOREM SessionFlashesOneDisc == Spec => []FlashesOneDisc
<1>1. SInv => FlashesOneDisc
  BY DEF SInv, TypeOK, CallInv, ImageInv, FlashesOneDisc, Expected, Missing
<1> QED
  BY <1>1, SessionInvariance, PTL

-----------------------------------------------------------------------------
(* Starting Linux from FATX: chains and directories.                       *)

Link == Cluster \cup {EOC}

\* A set of natural numbers has a least element.
LEMMA LeastNat ==
    ASSUME NEW S, S \subseteq Nat, S # {}
    PROVE  \E m \in S : \A k \in S : m <= k
<1>1. PICK m \in S : \A k \in S : ~(<<k, m>> \in OpToRel(<, Nat))
  BY WFMin, NatLessThanWellFounded
<1>2. \A k \in S : ~(k < m)
  BY <1>1 DEF OpToRel
<1> QED
  BY <1>2

\* The link behind x in the table m, and the first k links F of a chain.
Follow(m, x) == IF x = EOC THEN EOC ELSE m[x]
Links(m, c, F, k) == [l \in 0 .. k |-> IF l = 0 THEN c ELSE Follow(m, F[l - 1])]

\* A chain can be followed to any length.
LEMMA ChainExists ==
    ASSUME NEW m \in [Cluster -> Link], NEW c \in Link, NEW b \in Nat
    PROVE  \E F \in [0 .. b -> Link] : F = Links(m, c, F, b)
<1> DEFINE Runs(k) == \E F \in [0 .. k -> Link] : F = Links(m, c, F, k)
           Bad == {k \in 0 .. b : ~Runs(k)}
<1>1. Runs(0)
  <2> DEFINE F == [l \in 0 .. 0 |-> c]
  <2>1. F \in [0 .. 0 -> Link] /\ F = Links(m, c, F, 0)
    BY DEF Links
  <2> QED
    BY <2>1
<1>2. ASSUME NEW k \in 0 .. (b - 1), Runs(k) PROVE Runs(k + 1)
  <2>1. PICK F \in [0 .. k -> Link] : F = Links(m, c, F, k)
    BY <1>2
  <2> DEFINE v == Follow(m, F[k])
             H == [l \in 0 .. (k + 1) |-> IF l = k + 1 THEN v ELSE F[l]]
  <2>2. v \in Link
    BY DEF Follow, Link
  <2> HIDE DEF v
  <2>3. H \in [0 .. (k + 1) -> Link]
    BY <2>2
  <2>4. ASSUME NEW l \in 0 .. (k + 1)
        PROVE  H[l] = IF l = 0 THEN c ELSE Follow(m, H[l - 1])
    <3>1. CASE l = k + 1
      <4>1. H[l] = v /\ H[l - 1] = F[k] /\ l # 0
        BY <3>1
      <4> QED
        BY <4>1 DEF v
    <3>2. CASE l # k + 1
      <4>1. l \in 0 .. k /\ H[l] = F[l] /\ (l # 0 => H[l - 1] = F[l - 1])
        BY <3>2
      <4>2. F[l] = IF l = 0 THEN c ELSE Follow(m, F[l - 1])
        BY <4>1, <2>1 DEF Links
      <4> QED
        BY <4>1, <4>2
    <3> QED
      BY <3>1, <3>2
  <2>5. H = Links(m, c, H, k + 1)
    BY <2>4 DEF Links
  <2> QED
    BY <2>3, <2>5
<1> HIDE DEF Runs
<1>3. SUFFICES ASSUME Bad # {} PROVE FALSE
  BY DEF Runs
<1>4. PICK k \in Bad : \A l \in Bad : k <= l
  <2>1. Bad \subseteq Nat
    OBVIOUS
  <2> QED
    BY <2>1, <1>3, LeastNat
<1>5. k # 0
  BY <1>1, <1>4
<1>6. k - 1 \in 0 .. (b - 1) /\ Runs(k - 1)
  BY <1>4, <1>5
<1>7. Runs((k - 1) + 1)
  BY <1>6, <1>2
<1> QED
  BY <1>7, <1>4

\* A table of links, and directory entries.
Volumes == [chain : [Cluster -> Link], entries : [Sector -> Entry]]

\* What ChainAt is: the start, and then link after link.
LEMMA ChainFacts ==
    ASSUME NEW v \in Volumes, NEW c \in Link
    PROVE  /\ ChainAt(v, c)[0] = c
           /\ \A k \in 0 .. (N + 1) : ChainAt(v, c)[k + 1] = Follow(v.chain, ChainAt(v, c)[k])
           /\ \A k \in 0 .. (N + 2) : ChainAt(v, c)[k] \in Link
<1> DEFINE m == v.chain
           B(F) == [k \in 0 .. (N + 2) |->
                      IF k = 0 THEN c ELSE IF F[k - 1] = EOC THEN EOC ELSE m[F[k - 1]]]
           C == CHOOSE F : F = B(F)
<1>1. N \in Nat /\ N + 2 \in Nat /\ m \in [Cluster -> Link]
  BY LayoutAssumption DEF LayoutAssumption, Volumes
<1>2. ASSUME NEW F PROVE B(F) = Links(m, c, F, N + 2)
  BY DEF Links, Follow
<1>3. \E F : F = B(F)
  <2>1. PICK F \in [0 .. (N + 2) -> Link] : F = Links(m, c, F, N + 2)
    BY <1>1, ChainExists
  <2>2. F = B(F)
    BY <2>1, <1>2
  <2> QED
    BY <2>2
<1>4. C = B(C)
  BY <1>3
<1>5. ChainAt(v, c) = C
  BY DEF ChainAt, C, m
<1> HIDE DEF C, m
<1>6. C[0] = c
  BY <1>1, <1>4
<1>7. \A k \in 0 .. (N + 1) : C[k + 1] = Follow(m, C[k])
  <2> SUFFICES ASSUME NEW k \in 0 .. (N + 1) PROVE C[k + 1] = Follow(m, C[k])
    OBVIOUS
  <2>1. k + 1 \in 0 .. (N + 2) /\ k + 1 # 0 /\ (k + 1) - 1 = k
    BY <1>1
  <2> QED
    BY <2>1, <1>4 DEF Follow
<1>8. \A k \in 0 .. (N + 2) : C[k] \in Link
  <2> DEFINE Bad == {k \in 0 .. (N + 2) : C[k] \notin Link}
  <2>1. SUFFICES ASSUME Bad # {} PROVE FALSE
    OBVIOUS
  <2>2. PICK k \in Bad : \A l \in Bad : k <= l
    <3>1. Bad \subseteq Nat
      OBVIOUS
    <3> QED
      BY <3>1, <2>1, LeastNat
  <2>3. k # 0
    BY <1>6, <2>2
  <2>4. k - 1 \in 0 .. (N + 1) /\ k - 1 \in 0 .. (N + 2) /\ C[k - 1] \in Link /\ (k - 1) + 1 = k
    BY <2>2, <2>3, <1>1
  <2>5. C[k] = Follow(m, C[k - 1])
    BY <2>4, <1>7
  <2>6. C[k] \in Link
    BY <2>4, <2>5, <1>1 DEF Follow, Link
  <2> QED
    BY <2>2, <2>6
<1> QED
  BY <1>5, <1>6, <1>7, <1>8 DEF m
-----------------------------------------------------------------------------
(* The invariant.                                                          *)

\* The search for x has come to the k-th cluster of the chain that starts at d.
\* It was not there before, and none of the clusters before holds an entry at
\* which the search ends.
Walked(v, d, k, x) ==
    /\ \A l \in 0 .. k : ChainAt(v, d)[l] # EOC
    /\ \A j, l \in 0 .. k : ChainAt(v, d)[j] = ChainAt(v, d)[l] => j = l
    /\ \A l \in 0 .. (k - 1), s \in 1 .. U : ~Stops(v.entries[<<ChainAt(v, d)[l], s>>], x)

\* At cluster c the names r of path p are still to be found.
Searches(v, p, r, c) ==
    \E i \in 1 .. (Len(p) + 1) : \E t \in Trails(v, p, i) :
        /\ r = SubSeq(p, i, Len(p))
        /\ c = EOC \/ \E k \in 0 .. (N + 1) : c = ChainAt(v, t[i])[k] /\ Walked(v, t[i], k, r[1])

\* How much of file e the first k clusters of its chain hold.
Filled(e, k) == IF k * U <= e.size THEN k * U ELSE e.size

\* That part of it, and what remains.
PartOf(v, e, k) == [i \in 1 .. Filled(e, k) |-> Content(v, e)[i]]
Remains(e, k) == e.size - Filled(e, k)

\* The first k clusters of file e were copied to b, the next one is c, and size
\* is what remains.
Copied(v, e, k, c, b, size) ==
    /\ c = ChainAt(v, e.first)[k]
    /\ \A l \in 0 .. (k - 1) : ChainAt(v, e.first)[l] # EOC
    /\ b = PartOf(v, e, k)
    /\ size = Remains(e, k)

\* A file of path p is being copied.
Copies(v, p, c, b, size) ==
    \E e \in FilesAt(v, p) :
        /\ e \in Entry
        /\ SoundChain(v, e.first) => \E k \in 0 .. (N + 2) : Copied(v, e, k, c, b, size)

\* The path of each file, as PathOf has it.
Wanted == {"cfg", "debian", "kernel", "initrd"}
Sought(cf, j) == CASE j = "cfg" -> CfgPath
                   [] j = "debian" -> DebianCfgPath
                   [] j = "kernel" -> cf.kernel
                   [] j = "initrd" -> cf.initrd

\* What always holds: nothing on the disk changes.
FatxTypes ==
    /\ Volume \in Volumes
    /\ config \in [kernel : Seq(Names), initrd : Seq(Names)]
    /\ wanted \in Wanted
    /\ errors \in Nat

\* As long as no read failed: where the program is, and what it has.
SoFarGood ==
    /\ stage \in {"find", "scan"} => Searches(Volume, Sought(config, wanted), path, clusterId)
    /\ stage \in {"load", "copy"} =>
            Copies(Volume, Sought(config, wanted), clusterId, buffer, fileSize)
    /\ stage \in {"scan", "copy"} => clusterId # EOC /\ clusterData = Sectors(clusterId)
    /\ stage \in {"find", "scan", "load", "copy"} => clusterChainMap = table
    /\ wanted = "initrd" => config.initrd # <<>>
    /\ wanted = "initrd" /\ stage # "linux" => IsFile(Volume, kernel, config.kernel)
    /\ stage = "linux" /\ config.initrd = <<>> => IsFile(Volume, kernel, config.kernel)
    /\ stage = "linux" /\ config.initrd # <<>> =>
            /\ BeginsFile(Volume, kernel, config.kernel, KernelRoom)
            /\ IsFile(Volume, initrd, config.initrd)

FatxInv == FatxTypes /\ (errors = 0 => SoFarGood)

-----------------------------------------------------------------------------
(* The search.                                                             *)

\* A file or directory entry has a first cluster, a file a size.
LEMMA EntryFacts ==
    ASSUME NEW e \in Entry
    PROVE  /\ e.kind \in {"file", "dir"} => e.first \in Link
           /\ e.kind = "file" => e.size \in Nat
  BY DEF Entry, Link

\* A program looks for a path in the root first.
LEMMA SearchStarts ==
    ASSUME NEW v \in Volumes, NEW p \in Seq(Names)
    PROVE  Searches(v, p, p, 1)
<1> DEFINE t == [j \in 1 .. 1 |-> 1]
<1>1. N \in Nat /\ 1 \in Link /\ 1 # EOC /\ 0 \in 0 .. (N + 1)
  BY LayoutAssumption DEF LayoutAssumption, Link, Cluster
<1>2. t \in Trails(v, p, 1) /\ t[1] = 1
  BY <1>1 DEF Trails, Link
<1>3. p = SubSeq(p, 1, Len(p))
  OBVIOUS
<1>4. ChainAt(v, t[1])[0] = 1
  BY <1>1, ChainFacts
<1>5. Walked(v, t[1], 0, p[1])
  BY <1>1, <1>4 DEF Walked
<1>6. 1 \in 1 .. (Len(p) + 1)
  OBVIOUS
<1> HIDE DEF t
<1> QED
  BY <1>1, <1>2, <1>3, <1>4, <1>5, <1>6 DEF Searches

\* There are not more clusters than the search has room for.
LEMMA WalkBound ==
    ASSUME NEW v \in Volumes, NEW d \in Link, NEW x, Walked(v, d, N + 2, x)
    PROVE  FALSE
<1> DEFINE f == [l \in 0 .. (N + 2) |-> ChainAt(v, d)[l]]
<1>1. N \in Nat
  BY LayoutAssumption DEF LayoutAssumption
<1>2. f \in [0 .. (N + 2) -> Cluster]
  <2>1. \A l \in 0 .. (N + 2) : ChainAt(v, d)[l] \in Link /\ ChainAt(v, d)[l] # EOC
    BY ChainFacts DEF Walked
  <2> QED
    BY <2>1 DEF Link
<1>3. IsFiniteSet(0 .. (N + 2)) /\ Cardinality(0 .. (N + 2)) = N + 3
  BY <1>1, FS_Interval
<1>4. IsFiniteSet(Cluster) /\ Cardinality(Cluster) = N + 2
  BY <1>1, FS_Interval DEF Cluster
<1>5. Cardinality(Cluster) < Cardinality(0 .. (N + 2))
  BY <1>1, <1>3, <1>4
<1> HIDE DEF f
<1>6. PICK j, l \in 0 .. (N + 2) : j # l /\ f[j] = f[l]
  BY <1>2, <1>3, <1>4, <1>5, FS_PigeonHole
<1> QED
  BY <1>6 DEF f, Walked

\* The search goes on in the next cluster; if it was there already, it is as
\* far as it was then.
LEMMA WalkGoesOn ==
    ASSUME NEW v \in Volumes, NEW d \in Link, NEW x, NEW k \in 0 .. (N + 1), Walked(v, d, k, x),
           NEW c, c = ChainAt(v, d)[k], Follow(v.chain, c) # EOC,
           \A s \in 1 .. U : ~Stops(v.entries[<<c, s>>], x)
    PROVE  \E l \in 0 .. (N + 1) : Follow(v.chain, c) = ChainAt(v, d)[l] /\ Walked(v, d, l, x)
<1> DEFINE C(l) == ChainAt(v, d)[l]
           y == Follow(v.chain, c)
<1>1. N \in Nat /\ k \in Nat /\ k \in 0 .. k /\ k + 1 \in 0 .. (N + 2)
  BY LayoutAssumption DEF LayoutAssumption
<1>2. y = C(k + 1) /\ y # EOC
  BY ChainFacts
<1> HIDE DEF y
<1>3. CASE \E l \in 0 .. k : y = C(l)
  <2>1. PICK l \in 0 .. k : y = C(l)
    BY <1>3
  <2>2. /\ l \in 0 .. (N + 1) /\ (0 .. l) \subseteq (0 .. k)
        /\ (0 .. (l - 1)) \subseteq (0 .. (k - 1))
    BY <1>1
  <2>3. Walked(v, d, l, x)
    BY <2>2 DEF Walked
  <2> QED
    BY <2>1, <2>2, <2>3 DEF y
<1>4. CASE \A l \in 0 .. k : y # C(l)
  <2>1. \A l \in 0 .. (k + 1) : l = k + 1 \/ l \in 0 .. k
    BY <1>1
  <2>2. \A l \in 0 .. k : l = k \/ l \in 0 .. (k - 1)
    BY <1>1
  <2>3. \A l \in 0 .. k : C(l) # EOC
    BY DEF Walked
  <2>4. \A j, l \in 0 .. k : C(j) = C(l) => j = l
    BY DEF Walked
  <2>5. \A l \in 0 .. (k - 1), s \in 1 .. U : ~Stops(v.entries[<<C(l), s>>], x)
    BY DEF Walked
  <2>6. C(k) = c
    OBVIOUS
  <2> HIDE DEF C
  <2>7. \A l \in 0 .. (k + 1) : C(l) # EOC
    BY <2>1, <2>3, <1>2
  <2>8. \A j, l \in 0 .. (k + 1) : C(j) = C(l) => j = l
    BY <2>1, <2>4, <1>2, <1>4
  <2>9. \A l \in 0 .. k, s \in 1 .. U : ~Stops(v.entries[<<C(l), s>>], x)
    BY <2>2, <2>5, <2>6
  <2>10. (k + 1) - 1 = k
    BY <1>1
  <2>11. Walked(v, d, k + 1, x)
    BY <2>7, <2>8, <2>9, <2>10 DEF Walked, C
  <2>12. k + 1 # N + 2
    BY <2>11, WalkBound
  <2>13. k + 1 \in 0 .. (N + 1)
    BY <1>1, <2>12
  <2> QED
    BY <1>2, <2>11, <2>13 DEF y, C
<1> QED
  BY <1>3, <1>4

\* Trails lead to clusters, also to none.
LEMMA TrailFacts ==
    ASSUME NEW v, NEW p, NEW i \in Nat \ {0}, NEW t \in Trails(v, p, i)
    PROVE  t \in [1 .. i -> Link] /\ t[i] \in Link
<1>1. t \in [1 .. i -> Link]
  BY DEF Trails, Link
<1>2. i \in 1 .. i
  OBVIOUS
<1> QED
  BY <1>1, <1>2

\* Nothing at which the search ends was in this cluster: it goes on.
LEMMA SearchGoesOn ==
    ASSUME NEW v \in Volumes, NEW p \in Seq(Names), NEW r, NEW c, Searches(v, p, r, c), c # EOC,
           \A s \in 1 .. U : ~Stops(v.entries[<<c, s>>], r[1])
    PROVE  Searches(v, p, r, Follow(v.chain, c))
<1>0. PICK i \in 1 .. (Len(p) + 1) : \E t \in Trails(v, p, i) :
        /\ r = SubSeq(p, i, Len(p))
        /\ \E k \in 0 .. (N + 1) : c = ChainAt(v, t[i])[k] /\ Walked(v, t[i], k, r[1])
  BY DEF Searches
<1>1. PICK t \in Trails(v, p, i) :
        /\ r = SubSeq(p, i, Len(p))
        /\ \E k \in 0 .. (N + 1) : c = ChainAt(v, t[i])[k] /\ Walked(v, t[i], k, r[1])
  BY <1>0
<1>2. PICK k \in 0 .. (N + 1) : c = ChainAt(v, t[i])[k] /\ Walked(v, t[i], k, r[1])
  BY <1>1
<1>3. t[i] \in Link
  BY TrailFacts
<1>4. CASE Follow(v.chain, c) # EOC
  <2>1. \E l \in 0 .. (N + 1) :
            Follow(v.chain, c) = ChainAt(v, t[i])[l] /\ Walked(v, t[i], l, r[1])
    BY <1>2, <1>3, <1>4, WalkGoesOn
  <2> QED
    BY <1>1, <2>1 DEF Searches
<1>5. CASE Follow(v.chain, c) = EOC
  BY <1>1, <1>5 DEF Searches
<1> QED
  BY <1>4, <1>5

\* An entry at which the search ends belongs to the directory.
LEMMA SearchFinds ==
    ASSUME NEW v \in Volumes, NEW p \in Seq(Names), NEW r, NEW c, Searches(v, p, r, c), c # EOC,
           NEW s \in 1 .. U, \A u \in 1 .. U : u < s => ~Stops(v.entries[<<c, u>>], r[1])
    PROVE  /\ v.entries[<<c, s>>] \in Entry
           /\ \E i \in 1 .. (Len(p) + 1) : \E t \in Trails(v, p, i) :
                 /\ r = SubSeq(p, i, Len(p))
                 /\ v.entries[<<c, s>>] \in EntriesAt(v, t[i])
<1>0. PICK i \in 1 .. (Len(p) + 1) : \E t \in Trails(v, p, i) :
        /\ r = SubSeq(p, i, Len(p))
        /\ \E k \in 0 .. (N + 1) : c = ChainAt(v, t[i])[k] /\ Walked(v, t[i], k, r[1])
  BY DEF Searches
<1>1. PICK t \in Trails(v, p, i) :
        /\ r = SubSeq(p, i, Len(p))
        /\ \E k \in 0 .. (N + 1) : c = ChainAt(v, t[i])[k] /\ Walked(v, t[i], k, r[1])
  BY <1>0
<1>2. PICK k \in 0 .. (N + 1) : c = ChainAt(v, t[i])[k] /\ Walked(v, t[i], k, r[1])
  BY <1>1
<1>3. t[i] \in Link
  BY TrailFacts
<1> DEFINE C(l) == ChainAt(v, t[i])[l]
           all == {q \in (0 .. (N + 2)) \X (1 .. U) : C(q[1]) # EOC}
           entry(q) == v.entries[<<C(q[1]), q[2]>>]
           before(x, q) == x[1] < q[1] \/ (x[1] = q[1] /\ x[2] < q[2])
           good == {q \in all : \A x \in all : before(x, q) => entry(x).kind \notin {"last", "badlength"}}
<1>4. N \in Nat /\ U \in Nat /\ k \in 0 .. (N + 2) /\ k \in 0 .. k
  BY LayoutAssumption DEF LayoutAssumption
<1>5. c = C(k) /\ c \in Cluster
  BY <1>2, <1>3, <1>4, ChainFacts DEF Link
<1>6. v.entries[<<c, s>>] \in Entry
  BY <1>5 DEF Volumes, Sector
<1>7. <<k, s>> \in all /\ entry(<<k, s>>) = v.entries[<<c, s>>]
  BY <1>4, <1>5
<1>8. ASSUME NEW x \in all, before(x, <<k, s>>) PROVE entry(x).kind \notin {"last", "badlength"}
  <2>1. x[1] \in 0 .. (N + 2) /\ x[2] \in 1 .. U /\ (x[1] < k \/ (x[1] = k /\ x[2] < s))
    BY <1>8
  <2>2. CASE x[1] < k
    <3>1. x[1] \in 0 .. (k - 1)
      BY <2>1, <2>2, <1>4
    <3>2. ~Stops(entry(x), r[1])
      BY <3>1, <2>1, <1>2 DEF Walked
    <3> QED
      BY <3>2 DEF Stops
  <2>3. CASE x[1] = k /\ x[2] < s
    <3>1. entry(x) = v.entries[<<c, x[2]>>]
      BY <2>3, <1>5
    <3>2. ~Stops(entry(x), r[1])
      BY <3>1, <2>1, <2>3
    <3> QED
      BY <3>2 DEF Stops
  <2> QED
    BY <2>1, <2>2, <2>3
<1>9. <<k, s>> \in good
  BY <1>7, <1>8
<1>10. EntriesAt(v, t[i]) = {entry(q) : q \in good}
  BY DEF EntriesAt
<1>11. v.entries[<<c, s>>] \in EntriesAt(v, t[i])
  <2> HIDE DEF good, entry
  <2> QED
    BY <1>7, <1>9, <1>10
<1> QED
  BY <1>1, <1>6, <1>11

\* A directory on the way was found: the search goes on there.
LEMMA SearchEnters ==
    ASSUME NEW v \in Volumes, NEW p \in Seq(Names), NEW r, Len(r) > 1,
           NEW e \in Entry, e.kind = "dir", e.name = r[1],
           NEW i \in 1 .. (Len(p) + 1), NEW t \in Trails(v, p, i),
           r = SubSeq(p, i, Len(p)), e \in EntriesAt(v, t[i])
    PROVE  Searches(v, p, Tail(r), e.first)
<1> DEFINE f == e.first
           w == [j \in 1 .. (i + 1) |-> IF j = i + 1 THEN f ELSE t[j]]
<1>1. /\ Len(p) \in Nat /\ i \in Nat \ {0} /\ i < Len(p) /\ i + 1 \in 1 .. (Len(p) + 1)
      /\ r[1] = p[i] /\ Tail(r) = SubSeq(p, i + 1, Len(p))
  <2>1. Len(p) \in Nat /\ Len(r) = IF i <= Len(p) THEN Len(p) - i + 1 ELSE 0
    OBVIOUS
  <2>2. i < Len(p)
    BY <2>1
  <2>3. r[1] = p[i]
    BY <2>1, <2>2
  <2>4. Tail(r) = SubSeq(p, i + 1, Len(p))
    <3>1. /\ \A j \in i .. Len(p) : p[j] \in Names
          /\ \A j \in (i + 1) .. Len(p) : p[j] \in Names
          /\ i \in Int /\ i + 1 \in Int /\ Len(p) \in Int
      BY <2>1
    <3>2. /\ r \in Seq(Names) /\ r # <<>> /\ Len(r) = Len(p) - i + 1
          /\ \A j \in 1 .. (Len(p) - i + 1) : r[j] = p[i + j - 1]
      <4>1. /\ r \in Seq(Names) /\ Len(r) = Len(p) - i + 1
            /\ \A j \in 1 .. (Len(p) - i + 1) : r[j] = p[i + j - 1]
        BY <3>1, <2>1, <2>2, SubSeqProperties
      <4>2. Len(<<>>) = 0 /\ ~(0 > 1)
        OBVIOUS
      <4>3. r # <<>>
        BY <4>2, Zenon
      <4> QED
        BY <4>1, <4>3
    <3>3. /\ SubSeq(p, i + 1, Len(p)) \in Seq(Names)
          /\ Len(SubSeq(p, i + 1, Len(p))) = Len(p) - i
          /\ \A j \in 1 .. (Len(p) - i) : SubSeq(p, i + 1, Len(p))[j] = p[(i + 1) + j - 1]
      <4>1. Len(p) - (i + 1) + 1 = Len(p) - i /\ i + 1 <= Len(p)
        BY <2>1, <2>2
      <4> QED
        BY <3>1, <4>1, SubSeqProperties
    <3>4. /\ Tail(r) \in Seq(Names) /\ Len(Tail(r)) = Len(p) - i
          /\ \A j \in 1 .. (Len(p) - i) : Tail(r)[j] = r[j + 1]
      BY <3>2, <2>1, <2>2, HeadTailProperties
    <3>5. \A j \in 1 .. (Len(p) - i) : Tail(r)[j] = SubSeq(p, i + 1, Len(p))[j]
      <4> SUFFICES ASSUME NEW j \in 1 .. (Len(p) - i)
                   PROVE  Tail(r)[j] = SubSeq(p, i + 1, Len(p))[j]
        OBVIOUS
      <4>1. j + 1 \in 1 .. (Len(p) - i + 1) /\ i + (j + 1) - 1 = (i + 1) + j - 1
        BY <2>1
      <4> QED
        BY <4>1, <3>2, <3>3, <3>4
    <3> QED
      BY <3>3, <3>4, <3>5, SeqEqual
  <2>5. Len(p) \in Nat /\ i \in Nat \ {0} /\ i + 1 \in 1 .. (Len(p) + 1)
    BY <2>1, <2>2
  <2> QED
    BY <2>2, <2>3, <2>4, <2>5, Zenon
<1>2. f \in Link
  BY EntryFacts DEF f
<1>3. t \in [1 .. i -> Link] /\ t[1] = 1
  BY <1>1 DEF Trails, Link
<1>4. w \in [1 .. (i + 1) -> Link] /\ w[1] = 1 /\ w[i + 1] = f
  <2> HIDE DEF f
  <2>1. \A j \in 1 .. (i + 1) : j = i + 1 \/ j \in 1 .. i
    BY <1>1
  <2>2. 1 \in 1 .. (i + 1) /\ i + 1 \in 1 .. (i + 1) /\ 1 # i + 1
    BY <1>1
  <2>3. \A j \in 1 .. (i + 1) : (IF j = i + 1 THEN f ELSE t[j]) \in Link
    BY <2>1, <1>2, <1>3
  <2> QED
    BY <2>2, <2>3, <1>3
<1>4a. \A j \in 1 .. (i + 1) : w[j] = IF j = i + 1 THEN f ELSE t[j]
  BY Zenon
<1> HIDE DEF w
<1>5. ASSUME NEW j \in 2 .. (i + 1)
      PROVE  \E x \in EntriesAt(v, w[j - 1]) : x.kind = "dir" /\ x.name = p[j - 1] /\ x.first = w[j]
  <2>0. /\ j \in 1 .. (i + 1) /\ j - 1 \in 1 .. (i + 1) /\ j - 1 # i + 1
        /\ j = i + 1 => j - 1 = i
        /\ j # i + 1 => j \in 2 .. i
    BY <1>1
  <2>1. CASE j = i + 1
    <3>1. w[j - 1] = t[i] /\ w[j] = f /\ j - 1 = i
      BY <2>0, <2>1, <1>4a, Zenon
    <3>2. e.name = p[i]
      BY <1>1, Zenon
    <3>3. e \in EntriesAt(v, w[j - 1]) /\ e.name = p[j - 1] /\ e.first = w[j]
      BY <3>1, <3>2, Zenon
    <3> QED
      BY <3>3, Zenon
  <2>2. CASE j # i + 1
    <3>1. j \in 2 .. i /\ w[j - 1] = t[j - 1] /\ w[j] = t[j]
      BY <2>0, <2>2, <1>4a, Zenon
    <3> QED
      BY <3>1 DEF Trails
  <2> QED
    BY <2>1, <2>2
<1>6. w \in Trails(v, p, i + 1)
  BY <1>4, <1>5 DEF Trails, Link
<1>7. f = EOC \/ \E k \in 0 .. (N + 1) :
                    f = ChainAt(v, w[i + 1])[k] /\ Walked(v, w[i + 1], k, Tail(r)[1])
  <2> SUFFICES ASSUME f # EOC
               PROVE  f = ChainAt(v, f)[0] /\ Walked(v, f, 0, Tail(r)[1]) /\ 0 \in 0 .. (N + 1)
    BY <1>4
  <2>1. ChainAt(v, f)[0] = f
    BY <1>2, ChainFacts
  <2>2. N \in Nat
    BY LayoutAssumption DEF LayoutAssumption
  <2> QED
    BY <2>1, <2>2 DEF Walked
<1> QED
  BY <1>1, <1>6, <1>7 DEF Searches

\* A file at the end of the path was found: it is one that the path names.
LEMMA SearchEnds ==
    ASSUME NEW v, NEW p \in Seq(Names), NEW r, Len(r) = 1,
           NEW e, e.kind = "file", e.name = r[1],
           NEW i \in 1 .. (Len(p) + 1), NEW t \in Trails(v, p, i),
           r = SubSeq(p, i, Len(p)), e \in EntriesAt(v, t[i])
    PROVE  e \in FilesAt(v, p)
<1>1. i = Len(p) /\ r[1] = p[i]
  <2>1. Len(p) \in Nat /\ Len(r) = IF i <= Len(p) THEN Len(p) - i + 1 ELSE 0
    OBVIOUS
  <2>2. i = Len(p)
    BY <2>1
  <2> QED
    BY <2>1, <2>2
<1> QED
  BY <1>1 DEF FilesAt

-----------------------------------------------------------------------------
(* The copy.                                                               *)

\* A file that was found is copied from its first cluster on.
LEMMA CopyStarts ==
    ASSUME NEW v \in Volumes, NEW p, NEW e \in Entry, e.kind = "file", e \in FilesAt(v, p)
    PROVE  Copies(v, p, e.first, <<>>, e.size)
<1>1. e.first \in Link /\ e.size \in Nat
  BY EntryFacts
<1>2. N \in Nat /\ U \in Nat /\ 0 \in 0 .. (N + 2)
  BY LayoutAssumption DEF LayoutAssumption
<1>3. Filled(e, 0) = 0
  BY <1>1, <1>2 DEF Filled
<1>4. ChainAt(v, e.first)[0] = e.first
  BY <1>1, ChainFacts
<1>5. <<>> = PartOf(v, e, 0) /\ e.size = Remains(e, 0)
  BY <1>1, <1>3 DEF PartOf, Remains
<1>6. Copied(v, e, 0, e.first, <<>>, e.size)
  BY <1>4, <1>5 DEF Copied
<1> QED
  BY <1>2, <1>6 DEF Copies

\* Which sector of which cluster a sector of a file is.
LEMMA SectorOfFile ==
    ASSUME NEW k \in Nat, NEW r \in Nat, r < U
    PROVE  (k * U + r) \div U = k /\ (k * U + r) % U = r
<1>1. U \in Nat /\ U > 0
  BY LayoutAssumption DEF LayoutAssumption
<1> QED
  BY <1>1

\* How much of a cluster is copied, and what that makes of the part copied.
Take(size) == IF size <= U THEN size ELSE U
Grows(e, k, w) ==
    /\ Filled(e, k) \in Nat /\ w \in Nat /\ w <= U
    /\ Filled(e, k + 1) = Filled(e, k) + w
    /\ Remains(e, k) - w = Remains(e, k + 1)
    /\ Filled(e, k + 1) <= e.size
    /\ w > 0 => Filled(e, k) = k * U

\* How much one more cluster of the chain holds.
LEMMA OneMore ==
    ASSUME NEW e, e.size \in Nat, NEW k \in Nat
    PROVE  Grows(e, k, Take(Remains(e, k)))
<1>1. U \in Nat /\ U > 0
  BY LayoutAssumption DEF LayoutAssumption
<1>2. PICK q \in Nat : q = k * U
  BY <1>1
<1>3. (k + 1) * U = q + U
  BY <1>1, <1>2
<1>4. PICK w : w = Take(Remains(e, k))
  OBVIOUS
<1>5. Filled(e, k + 1) = (IF q + U <= e.size THEN q + U ELSE e.size)
  BY <1>3 DEF Filled
<1>6. Filled(e, k) = (IF q <= e.size THEN q ELSE e.size)
  BY <1>2 DEF Filled
<1>7. /\ Filled(e, k) \in Nat /\ w \in Nat /\ w <= U
      /\ Filled(e, k + 1) = Filled(e, k) + w
      /\ Remains(e, k) - w = Remains(e, k + 1)
      /\ Filled(e, k + 1) <= e.size
      /\ w > 0 => Filled(e, k) = q
  BY <1>1, <1>4, <1>5, <1>6 DEF Take, Remains
<1> QED
  BY <1>2, <1>4, <1>7 DEF Grows

\* A sequence of length f, two sequences of lengths f and w joined, and the
\* first w sectors of cluster c.
Row(b, f, T) == b \in [1 .. f -> T]
Join(b, x, f, w) == [i \in 1 .. (f + w) |-> IF i <= f THEN b[i] ELSE x[i - f]]
Joins(b, x, f, w) == b \o x = Join(b, x, f, w)
Front(c, w) == [i \in 1 .. w |-> <<c, i>>]

\* What joining two sequences gives.
LEMMA Joined ==
    ASSUME NEW T, NEW f \in Nat, NEW w \in Nat, NEW b, Row(b, f, T), NEW x, Row(x, w, T)
    PROVE  Joins(b, x, f, w)
<1>1. b \in Seq(T) /\ Len(b) = f /\ x \in Seq(T) /\ Len(x) = w
  BY DEF Row
<1>2. /\ b \o x \in Seq(T) /\ Len(b \o x) = f + w
      /\ \A i \in 1 .. (f + w) : (b \o x)[i] = IF i <= f THEN b[i] ELSE x[i - f]
  BY <1>1, ConcatProperties
<1>3. PICK y : y = b \o x
  OBVIOUS
<1>4. /\ y \in [1 .. (f + w) -> T]
      /\ \A i \in 1 .. (f + w) : y[i] = IF i <= f THEN b[i] ELSE x[i - f]
  <2>1. y \in Seq(T) /\ Len(y) = f + w
    BY <1>2, <1>3, Zenon
  <2>2. \A i \in 1 .. (f + w) : y[i] = IF i <= f THEN b[i] ELSE x[i - f]
    BY <1>2, <1>3, Zenon
  <2> QED
    BY <2>1, <2>2, LenProperties
<1>5. y = Join(b, x, f, w)
  BY <1>4 DEF Join
<1> QED
  BY <1>3, <1>5, Zenon DEF Joins

\* The beginning of a cluster.
LEMMA FirstSectors ==
    ASSUME NEW c, NEW w \in Nat, w <= U
    PROVE  SubSeq(Sectors(c), 1, w) = Front(c, w)
<1> DEFINE T == {<<c, i>> : i \in 1 .. U}
           x == SubSeq(Sectors(c), 1, w)
<1>1. U \in Nat /\ U > 0
  BY LayoutAssumption DEF LayoutAssumption
<1>2. \A i \in 1 .. w : Sectors(c)[i] = <<c, i>> /\ Sectors(c)[i] \in T
  BY <1>1 DEF Sectors
<1> HIDE DEF T
<1>3. /\ x \in Seq(T) /\ Len(x) = (IF 1 <= w THEN w - 1 + 1 ELSE 0)
      /\ \A i \in 1 .. (w - 1 + 1) : x[i] = Sectors(c)[1 + i - 1]
  <2>1. 1 \in Int /\ w \in Int
    OBVIOUS
  <2> QED
    BY <1>2, <2>1, SubSeqProperties
<1> HIDE DEF x
<1>4. Len(x) = w /\ \A i \in 1 .. w : x[i] = <<c, i>>
  BY <1>2, <1>3
<1>5. x = [i \in 1 .. w |-> x[i]]
  BY <1>3, <1>4
<1> QED
  BY <1>4, <1>5 DEF x, Front

\* What is copied of a cluster belongs to the file.
LEMMA NextPart ==
    ASSUME NEW v, NEW e, e.size \in Nat, NEW k \in Nat, NEW c, c = ChainAt(v, e.first)[k]
    PROVE  PartOf(v, e, k) \o SubSeq(Sectors(c), 1, Take(Remains(e, k))) = PartOf(v, e, k + 1)
<1>1. PICK w : w = Take(Remains(e, k)) /\ Grows(e, k, w)
  BY OneMore, Zenon
<1>2. PICK f \in Nat : f = Filled(e, k)
  BY <1>1 DEF Grows
<1>3. /\ w \in Nat /\ w <= U /\ Filled(e, k + 1) = f + w /\ f + w <= e.size
      /\ w > 0 => f = k * U
      /\ U \in Nat /\ U > 0
  BY <1>1, <1>2, LayoutAssumption DEF Grows, LayoutAssumption
<1>4. PICK x : x = SubSeq(Sectors(c), 1, w) /\ x = Front(c, w)
  BY <1>3, FirstSectors, Zenon
<1>5. PICK y : y = Content(v, e)
  OBVIOUS
<1>6. PICK b : b = PartOf(v, e, k) /\ b = [i \in 1 .. f |-> y[i]]
  BY <1>2, <1>5 DEF PartOf
<1>7. PICK T : T = {y[i] : i \in 1 .. f} \cup {<<c, i>> : i \in 1 .. w}
  OBVIOUS
<1>8. Row(b, f, T) /\ Row(x, w, T)
  <2>1. \A i \in 1 .. f : y[i] \in T
    BY <1>7
  <2>2. \A i \in 1 .. w : <<c, i>> \in T
    BY <1>7
  <2> QED
    BY <2>1, <2>2, <1>4, <1>6 DEF Front, Row
<1>9. Joins(b, x, f, w)
  <2>1. w \in Nat
    BY <1>3
  <2> QED
    BY <2>1, <1>8, Joined, Zenon
<1>10. ASSUME NEW i \in 1 .. (f + w) PROVE (IF i <= f THEN b[i] ELSE x[i - f]) = y[i]
  <2>1. CASE i <= f
    <3>1. i \in 1 .. f
      BY <2>1
    <3> QED
      BY <2>1, <3>1, <1>6
  <2>2. CASE ~(i <= f)
    <3>1. i - f \in 1 .. w /\ w > 0 /\ f = k * U /\ i \in 1 .. e.size
      BY <2>2, <1>3
    <3>2. PICK r \in Nat : r = i - f - 1
      BY <3>1
    <3>3. r < U /\ i - 1 = f + r /\ r + 1 = i - f
      BY <3>1, <3>2, <1>3
    <3>4. (i - 1) \div U = k /\ ((i - 1) % U) + 1 = i - f
      <4>1. (k * U + r) \div U = k /\ (k * U + r) % U = r
        BY <3>3, SectorOfFile
      <4>2. i - 1 = k * U + r
        BY <3>1, <3>3
      <4> QED
        BY <4>1, <4>2, <3>3
    <3>5. y[i] = <<c, i - f>>
      BY <3>1, <3>4, <1>5 DEF Content
    <3>6. x[i - f] = <<c, i - f>>
      BY <3>1, <1>4 DEF Front
    <3> QED
      BY <2>2, <3>5, <3>6
  <2> QED
    BY <2>1, <2>2
<1>11. Join(b, x, f, w) = PartOf(v, e, k + 1)
  BY <1>3, <1>5, <1>10 DEF Join, PartOf
<1> QED
  BY <1>1, <1>4, <1>6, <1>9, <1>11, Zenon DEF Joins

\* One cluster more was copied.
LEMMA CopyGoesOn ==
    ASSUME NEW v \in Volumes, NEW p, NEW c, c # EOC, NEW b, NEW size,
           Copies(v, p, c, b, size)
    PROVE  Copies(v, p, Follow(v.chain, c), b \o SubSeq(Sectors(c), 1, Take(size)),
                  size - Take(size))
<1> DEFINE d == Follow(v.chain, c)
           a == b \o SubSeq(Sectors(c), 1, Take(size))
<1>1. PICK e \in FilesAt(v, p) :
        /\ e \in Entry
        /\ SoundChain(v, e.first) => \E k \in 0 .. (N + 2) : Copied(v, e, k, c, b, size)
  BY DEF Copies
<1>2. e.first \in Link /\ e.size \in Nat
  BY <1>1, EntryFacts DEF FilesAt
<1>3. ASSUME SoundChain(v, e.first)
      PROVE  \E k \in 0 .. (N + 2) : Copied(v, e, k, d, a, size - Take(size))
  <2>1. PICK k \in 0 .. (N + 2) : Copied(v, e, k, c, b, size)
    BY <1>1, <1>3
  <2>2. N \in Nat /\ k # N + 2
    BY <1>3, <2>1, LayoutAssumption DEF LayoutAssumption, SoundChain, Copied
  <2>3. k \in Nat /\ k \in 0 .. (N + 1) /\ k + 1 \in 0 .. (N + 2) /\ (k + 1) - 1 = k
    BY <2>2
  <2>4. d = ChainAt(v, e.first)[k + 1]
    BY <1>2, <2>1, <2>3, ChainFacts DEF Copied
  <2>5. \A l \in 0 .. k : ChainAt(v, e.first)[l] # EOC
    <3>1. \A l \in 0 .. k : l = k \/ l \in 0 .. (k - 1)
      BY <2>3
    <3> QED
      BY <3>1, <2>1 DEF Copied
  <2>6. a = PartOf(v, e, k + 1)
    BY <1>2, <2>1, <2>3, NextPart, Zenon DEF Copied
  <2>7. size - Take(size) = Remains(e, k + 1)
    <3>1. Grows(e, k, Take(size)) /\ size = Remains(e, k)
      BY <1>2, <2>1, <2>3, OneMore, Zenon DEF Copied
    <3> QED
      BY <3>1 DEF Grows
  <2> HIDE DEF d, a
  <2>8. Copied(v, e, k + 1, d, a, size - Take(size))
    BY <2>3, <2>4, <2>5, <2>6, <2>7 DEF Copied
  <2> QED
    BY <2>3, <2>8
<1> HIDE DEF d, a
<1>4. Copies(v, p, d, a, size - Take(size))
  BY <1>1, <1>3 DEF Copies
<1> QED
  BY <1>4 DEF d, a

\* At the end of the chain, with nothing left to copy, the file is complete.
LEMMA CopyEnds ==
    ASSUME NEW v, NEW p, NEW b, Copies(v, p, EOC, b, 0)
    PROVE  IsFile(v, b, p)
<1>1. PICK e \in FilesAt(v, p) :
        /\ e \in Entry
        /\ SoundChain(v, e.first) => \E k \in 0 .. (N + 2) : Copied(v, e, k, EOC, b, 0)
  BY DEF Copies
<1>2. e.size \in Nat
  BY <1>1, EntryFacts DEF FilesAt
<1>3. ASSUME SoundChain(v, e.first)
      PROVE  ChainLength(v, e.first) * U >= e.size /\ b = Content(v, e)
  <2> DEFINE S == {l \in 0 .. (N + 2) : ChainAt(v, e.first)[l] # EOC}
  <2>1. PICK k \in 0 .. (N + 2) : Copied(v, e, k, EOC, b, 0)
    BY <1>1, <1>3
  <2>2. N \in Nat /\ U \in Nat /\ k \in Nat
    BY LayoutAssumption DEF LayoutAssumption
  <2>3. Filled(e, k) = e.size /\ e.size <= k * U
    <3>1. k * U \in Nat
      BY <2>2
    <3> QED
      BY <1>2, <2>1, <3>1 DEF Copied, Remains, Filled
  <2>4. b = Content(v, e)
    BY <2>1, <2>3 DEF Copied, PartOf, Content
  <2>5. IsFiniteSet(S) /\ Cardinality(0 .. (k - 1)) = k
    <3>1. IsFiniteSet(0 .. (N + 2)) /\ Cardinality(0 .. (k - 1)) = k
      BY <2>2, FS_Interval
    <3> QED
      BY <3>1, FS_Subset
  <2>6. (0 .. (k - 1)) \in SUBSET S
    BY <2>1, <2>2 DEF Copied
  <2>7. k <= Cardinality(S) /\ Cardinality(S) \in Nat
    BY <2>5, <2>6, FS_Subset, FS_CardinalityType
  <2>8. Cardinality(S) * U >= k * U /\ Cardinality(S) * U \in Nat /\ k * U \in Nat
    <3> HIDE DEF S
    <3> QED
      BY <2>2, <2>7
  <2>9. ChainLength(v, e.first) = Cardinality(S)
    BY DEF ChainLength
  <2> HIDE DEF S
  <2> QED
    BY <1>2, <2>3, <2>4, <2>8, <2>9
<1> QED
  BY <1>1, <1>3 DEF IsFile

-----------------------------------------------------------------------------
(* The steps.                                                              *)

\* The parts of the volume, and the paths of the files.
LEMMA VolumeFacts ==
    /\ Volume.chain = table /\ Volume.entries = disk
    /\ \A j \in Wanted : PathOf(j) = Sought(config, j)
  BY DEF Volume, Wanted, PathOf, Sought

\* Paths are sequences of names.
LEMMA SoughtType ==
    ASSUME NEW cf \in [kernel : Seq(Names), initrd : Seq(Names)], NEW j \in Wanted
    PROVE  Sought(cf, j) \in Seq(Names)
  BY PathAssumption DEF PathAssumption, Wanted, Sought

\* Nothing on the disk changes.
LEMMA DiskKept ==
    ASSUME UNCHANGED diskVars
    PROVE  Volume' = Volume /\ config' = config /\ table' = table
  BY DEF diskVars, Volume

\* A search has begun.
LEMMA FindGood ==
    ASSUME FatxTypes, SoFarGood, UNCHANGED diskVars, NEW j \in Wanted, FATXFindFile(j),
           clusterChainMap' = table,
           j = "initrd" => IsFile(Volume, kernel', config.kernel) /\ config.initrd # <<>>
    PROVE  SoFarGood'
<1>1. Volume' = Volume /\ config' = config /\ table' = table
  BY DiskKept
<1>2. stage' = "find" /\ wanted' = j /\ path' = Sought(config, j) /\ clusterId' = 1
  BY VolumeFacts DEF FATXFindFile
<1>3. Searches(Volume, Sought(config, j), Sought(config, j), 1)
  <2>1. Sought(config, j) \in Seq(Names) /\ Volume \in Volumes
    BY SoughtType DEF FatxTypes
  <2> QED
    BY <2>1, SearchStarts
<1> QED
  BY <1>1, <1>2, <1>3 DEF SoFarGood

\* What follows when a file was not found or is too short.
LEMMA NotLoadedGood ==
    ASSUME FatxTypes, SoFarGood, UNCHANGED diskVars, clusterChainMap' = table, NotLoaded,
           stage # "linux"
    PROVE  SoFarGood'
<1>1. CASE FATXFindFile("debian")
  <2>1. "debian" \in Wanted /\ "debian" # "initrd"
    BY DEF Wanted
  <2> QED
    BY <1>1, <2>1, FindGood
<1>2. CASE stage' \in {"no entry", "halt"} /\ wanted' = wanted /\ stage # "linux"
  <2>1. Volume' = Volume /\ config' = config /\ kernel' = kernel
    BY DiskKept DEF NotLoaded
  <2> QED
    BY <1>2, <2>1 DEF SoFarGood
<1> QED
  BY <1>1, <1>2 DEF NotLoaded

\* A RAM disk leaves the kernel as it was before KernelRoom.
LEMMA OverwrittenBegins ==
    ASSUME NEW v \in Volumes, NEW p, NEW k, NEW b, IsFile(v, k, p)
    PROVE  BeginsFile(v, Overwritten(k, b), p, KernelRoom)
<1>1. PICK e \in FilesAt(v, p) :
        SoundChain(v, e.first) => ChainLength(v, e.first) * U >= e.size /\ k = Content(v, e)
  BY DEF IsFile
<1>2. ASSUME SoundChain(v, e.first)
      PROVE  /\ DOMAIN Overwritten(k, b) = 1 .. e.size
             /\ \A i \in 1 .. e.size : i <= KernelRoom => Overwritten(k, b)[i] = Content(v, e)[i]
  <2>1. k = Content(v, e) /\ DOMAIN k = 1 .. e.size
    BY <1>1, <1>2 DEF Content
  <2>2. DOMAIN Overwritten(k, b) = 1 .. e.size
    BY <2>1 DEF Overwritten
  <2>3. ASSUME NEW i \in 1 .. e.size, i <= KernelRoom PROVE Overwritten(k, b)[i] = k[i]
    <3>1. ~(i > KernelRoom)
      BY <2>3, LayoutAssumption DEF LayoutAssumption
    <3> QED
      BY <2>1, <3>1 DEF Overwritten
  <2> QED
    BY <2>1, <2>2, <2>3
<1> QED
  BY <1>1, <1>2 DEF BeginsFile

\* What follows when a file is complete.
LEMMA LoadedGood ==
    ASSUME FatxTypes, SoFarGood, UNCHANGED diskVars, clusterChainMap' = table, Loaded,
           stage # "linux", IsFile(Volume, buffer, Sought(config, wanted))
    PROVE  SoFarGood'
<1>1. Volume' = Volume /\ config' = config /\ table' = table
  BY DiskKept
<1>2. CASE stage' = "open" /\ wanted' = "kernel"
  BY <1>2 DEF SoFarGood
<1>3. CASE /\ wanted = "kernel" /\ kernel' = buffer /\ config.initrd # <<>>
           /\ FATXFindFile("initrd")
  <2>1. Sought(config, wanted) = config.kernel /\ "initrd" \in Wanted
    BY <1>3 DEF Sought, Wanted
  <2>2. IsFile(Volume, kernel', config.kernel)
    BY <1>3, <2>1
  <2> QED
    BY <1>3, <2>1, <2>2, FindGood
<1>4. CASE /\ wanted = "kernel" /\ kernel' = buffer /\ config.initrd = <<>>
           /\ stage' = "linux" /\ wanted' = wanted
  <2>1. Sought(config, wanted) = config.kernel
    BY <1>4 DEF Sought
  <2> QED
    BY <1>1, <1>4, <2>1 DEF SoFarGood
<1>5. CASE /\ wanted = "initrd" /\ initrd' = buffer /\ stage' = "linux" /\ wanted' = wanted
           /\ kernel' = Overwritten(kernel, buffer)
  <2>1. Sought(config, wanted) = config.initrd
    BY <1>5 DEF Sought
  <2>2. IsFile(Volume, kernel, config.kernel) /\ config.initrd # <<>> /\ Volume \in Volumes
    BY <1>5 DEF SoFarGood, FatxTypes
  <2>3. BeginsFile(Volume, kernel', config.kernel, KernelRoom)
    BY <1>5, <2>2, OverwrittenBegins
  <2> QED
    BY <1>1, <1>5, <2>1, <2>2, <2>3 DEF SoFarGood
<1> QED
  BY <1>2, <1>3, <1>4, <1>5 DEF Loaded

\* A cluster was read, or the read failed.
LEMMA ReadFacts ==
    ASSUME NEW c, errors \in Nat, LoadFATXCluster(c)
    PROVE  /\ errors' \in Nat
           /\ errors' = 0 => errors = 0 /\ clusterData' = Sectors(c)
  BY DEF LoadFATXCluster

\* Opening the partition.
LEMMA OpenGood ==
    ASSUME FatxInv, OpenFATXPartition
    PROVE  FatxInv'
<1>1. UNCHANGED diskVars /\ Volume' = Volume /\ config' = config /\ kernel' = kernel
  BY DiskKept DEF OpenFATXPartition
<1>2. wanted \in Wanted /\ errors \in Nat /\ wanted' = wanted /\ stage = "open"
  BY DEF FatxInv, FatxTypes, OpenFATXPartition, FATXFindFile
<1>3. /\ errors' \in Nat
      /\ errors' = 0 => errors = 0 /\ FATXFindFile(wanted) /\ clusterChainMap' = table
  <2>1. \/ errors' = errors /\ FATXFindFile(wanted) /\ clusterChainMap' = table
        \/ errors' = errors + 1
    BY Zenon DEF OpenFATXPartition, ReadTable
  <2>2. errors + 1 \in Nat /\ errors + 1 # 0
    BY <1>2
  <2> QED
    BY <1>2, <2>1, <2>2, Zenon
<1>4. FatxTypes'
  BY <1>1, <1>2, <1>3 DEF FatxInv, FatxTypes
<1>5. ASSUME errors' = 0 PROVE SoFarGood'
  <2>1. FATXFindFile(wanted) /\ FatxTypes /\ SoFarGood /\ clusterChainMap' = table
    BY <1>3, <1>5 DEF FatxInv
  <2>2. wanted = "initrd" => IsFile(Volume, kernel', config.kernel) /\ config.initrd # <<>>
    BY <1>1, <1>2, <2>1 DEF SoFarGood
  <2> QED
    BY <1>1, <1>2, <2>1, <2>2, FindGood
<1> QED
  BY <1>4, <1>5 DEF FatxInv

\* Reading a cluster of a directory.
LEMMA ReadDirectoryGood ==
    ASSUME FatxInv, ReadDirectory
    PROVE  FatxInv'
<1>1. /\ UNCHANGED diskVars /\ Volume' = Volume /\ config' = config
      /\ stage = "find" /\ FatxTypes /\ errors \in Nat /\ table' = table
      /\ clusterChainMap' = clusterChainMap
  BY DiskKept DEF ReadDirectory, FatxInv, FatxTypes
<1>2. CASE clusterId = EOC /\ NotLoaded /\ UNCHANGED errors
  <2>1. wanted' \in Wanted
    BY <1>1, <1>2 DEF NotLoaded, FATXFindFile, FatxTypes, Wanted
  <2>2. FatxTypes'
    BY <1>1, <1>2, <2>1 DEF FatxTypes
  <2>3. ASSUME errors' = 0 PROVE SoFarGood'
    <3>1. SoFarGood
      BY <1>2, <2>3 DEF FatxInv
    <3>2. clusterChainMap' = table
      BY <1>1, <3>1 DEF SoFarGood
    <3> QED
      BY <1>1, <1>2, <3>1, <3>2, NotLoadedGood
  <2> QED
    BY <2>2, <2>3 DEF FatxInv
<1>3. CASE /\ clusterId # EOC /\ LoadFATXCluster(clusterId) /\ stage' = "scan"
           /\ UNCHANGED <<wanted, path, clusterId, fileSize, buffer, kernel, initrd>>
  <2>1. errors' \in Nat /\ (errors' = 0 => errors = 0 /\ clusterData' = Sectors(clusterId))
    BY <1>1, <1>3, ReadFacts
  <2>2. FatxTypes'
    BY <1>1, <1>3, <2>1 DEF FatxTypes
  <2>3. ASSUME errors' = 0 PROVE SoFarGood'
    <3>1. SoFarGood /\ clusterData' = Sectors(clusterId)
      BY <2>1, <2>3 DEF FatxInv
    <3> QED
      BY <1>1, <1>3, <3>1 DEF SoFarGood
  <2> QED
    BY <2>2, <2>3 DEF FatxInv
<1> QED
  BY <1>2, <1>3 DEF ReadDirectory

\* The first entry of a cluster at which the search ends.
FirstStop(c, x, s) ==
    /\ s \in 1 .. U /\ Stops(disk[<<c, s>>], x)
    /\ \A u \in 1 .. U : u < s => ~Stops(disk[<<c, u>>], x)

\* What SearchCluster does in a cluster that was read.
LEMMA SearchFacts ==
    ASSUME SearchCluster, clusterData = Sectors(clusterId)
    PROVE  \/ /\ \A s \in 1 .. U : ~Stops(disk[<<clusterId, s>>], path[1])
              /\ stage' = "find" /\ clusterId' = clusterChainMap[clusterId]
              /\ UNCHANGED <<wanted, path, kernel, initrd>>
           \/ \E s : LET e == disk[<<clusterId, s>>] IN
              /\ FirstStop(clusterId, path[1], s) /\ e.kind = "dir" /\ Len(path) > 1
              /\ stage' = "find" /\ path' = Tail(path) /\ clusterId' = e.first
              /\ UNCHANGED <<wanted, kernel, initrd>>
           \/ \E s : LET e == disk[<<clusterId, s>>] IN
              /\ FirstStop(clusterId, path[1], s) /\ e.kind = "file" /\ Len(path) = 1
              /\ stage' \in {"load", "overrun"} /\ clusterId' = e.first /\ fileSize' = e.size
              /\ buffer' = <<>> /\ UNCHANGED <<wanted, kernel, initrd>>
           \/ NotLoaded
<1> DEFINE entry(s) == disk[clusterData[s]]
           stops == {s \in 1 .. U : Stops(entry(s), path[1])}
           f == CHOOSE s \in stops : \A t \in stops : s <= t
           isDir == stops # {} /\ entry(f).kind = "dir" /\ Len(path) > 1
           isFile == stops # {} /\ entry(f).kind = "file" /\ Len(path) = 1
<1>1. \A s \in 1 .. U : entry(s) = disk[<<clusterId, s>>]
  BY DEF Sectors
<1>2. U \in Nat
  BY LayoutAssumption DEF LayoutAssumption
<1>3. \/ /\ stops = {} /\ stage' = "find" /\ clusterId' = clusterChainMap[clusterId]
         /\ UNCHANGED <<wanted, path, kernel, initrd>>
      \/ /\ isDir /\ stage' = "find" /\ path' = Tail(path) /\ clusterId' = entry(f).first
         /\ UNCHANGED <<wanted, kernel, initrd>>
      \/ /\ isFile /\ stage' \in {"load", "overrun"} /\ clusterId' = entry(f).first
         /\ fileSize' = entry(f).size /\ buffer' = <<>>
         /\ UNCHANGED <<wanted, kernel, initrd>>
      \/ NotLoaded
  BY Zenon DEF SearchCluster, getNextClusterInChain
<1>4. ASSUME stops # {} PROVE f \in 1 .. U /\ FirstStop(clusterId, path[1], f)
  <2>1. stops \subseteq Nat
    BY <1>2
  <2>2. \E m \in stops : \A k \in stops : m <= k
    BY <1>4, <2>1, LeastNat
  <2>3. f \in stops /\ \A t \in stops : f <= t
    BY <2>2, Zenon
  <2>4. f \in 1 .. U /\ Stops(disk[<<clusterId, f>>], path[1])
    BY <2>3, <1>1
  <2>5. ASSUME NEW u \in 1 .. U, u < f PROVE ~Stops(disk[<<clusterId, u>>], path[1])
    <3>1. u \notin stops
      BY <2>3, <2>4, <2>5, <1>2
    <3> QED
      BY <3>1, <1>1
  <2> QED
    BY <2>4, <2>5 DEF FirstStop
<1>5. CASE stops = {}
  <2>1. \A s \in 1 .. U : ~Stops(disk[<<clusterId, s>>], path[1])
    BY <1>1, <1>5
  <2>2. ~isDir /\ ~isFile
    BY <1>5
  <2> HIDE DEF stops, isDir, isFile
  <2> QED
    BY <1>3, <2>1, <2>2
<1>6. CASE stops # {}
  <2>1. FirstStop(clusterId, path[1], f) /\ entry(f) = disk[<<clusterId, f>>]
    BY <1>1, <1>4, <1>6
  <2> HIDE DEF stops, f, entry
  <2> QED
    BY <1>3, <1>6, <2>1
<1> QED
  BY <1>5, <1>6

\* Searching the cluster.
LEMMA SearchGood ==
    ASSUME FatxInv, SearchCluster
    PROVE  FatxInv'
<1>1. /\ UNCHANGED diskVars /\ Volume' = Volume /\ config' = config /\ errors' = errors
      /\ stage = "scan" /\ FatxTypes /\ table' = table /\ clusterChainMap' = clusterChainMap
  BY DiskKept DEF SearchCluster, FatxInv
<1>2. wanted' \in Wanted
  BY <1>1 DEF SearchCluster, NotLoaded, FATXFindFile, FatxTypes, Wanted
<1>3. FatxTypes'
  BY <1>1, <1>2 DEF FatxTypes
<1>4. ASSUME errors' = 0 PROVE SoFarGood'
  <2> DEFINE p == Sought(config, wanted)
             v == Volume
  <2>1. SoFarGood /\ clusterId # EOC /\ clusterData = Sectors(clusterId) /\ Searches(v, p, path, clusterId)
    BY <1>1, <1>4 DEF FatxInv, SoFarGood
  <2>2. /\ v \in Volumes /\ v.entries = disk /\ v.chain = clusterChainMap /\ p \in Seq(Names)
        /\ clusterChainMap' = table
    BY <1>1, <2>1, SoughtType, VolumeFacts DEF FatxTypes, SoFarGood
  <2> HIDE DEF p, v
  <2>3. CASE /\ \A s \in 1 .. U : ~Stops(disk[<<clusterId, s>>], path[1])
             /\ stage' = "find" /\ clusterId' = clusterChainMap[clusterId]
             /\ UNCHANGED <<wanted, path, kernel, initrd>>
    <3>1. Searches(v, p, path, Follow(v.chain, clusterId))
      BY <2>1, <2>2, <2>3, SearchGoesOn
    <3>2. clusterId' = Follow(v.chain, clusterId)
      BY <2>1, <2>2, <2>3 DEF Follow
    <3>3. Searches(Volume', Sought(config', wanted'), path', clusterId')
      BY <1>1, <2>3, <3>1, <3>2 DEF v, p
    <3> QED
      BY <1>1, <2>1, <2>2, <2>3, <3>3 DEF SoFarGood
  <2>4. ASSUME NEW s, FirstStop(clusterId, path[1], s),
               disk[<<clusterId, s>>].kind \in {"file", "dir"}
        PROVE  LET e == disk[<<clusterId, s>>] IN
               /\ e \in Entry /\ e.name = path[1]
               /\ \E i \in 1 .. (Len(p) + 1) : \E t \in Trails(v, p, i) :
                     path = SubSeq(p, i, Len(p)) /\ e \in EntriesAt(v, t[i])
    <3>1. /\ s \in 1 .. U /\ Stops(disk[<<clusterId, s>>], path[1])
          /\ \A u \in 1 .. U : u < s => ~Stops(v.entries[<<clusterId, u>>], path[1])
      BY <2>2, <2>4 DEF FirstStop
    <3>2. disk[<<clusterId, s>>].name = path[1]
      BY <2>4, <3>1 DEF Stops, Named
    <3>3. /\ v.entries[<<clusterId, s>>] \in Entry
          /\ \E i \in 1 .. (Len(p) + 1) : \E t \in Trails(v, p, i) :
                /\ path = SubSeq(p, i, Len(p))
                /\ v.entries[<<clusterId, s>>] \in EntriesAt(v, t[i])
      BY <2>1, <2>2, <3>1, SearchFinds
    <3> QED
      BY <2>2, <3>2, <3>3
  <2>5. ASSUME NEW s, FirstStop(clusterId, path[1], s), NEW e, e = disk[<<clusterId, s>>],
               e.kind = "dir", Len(path) > 1, stage' = "find", path' = Tail(path),
               clusterId' = e.first, UNCHANGED <<wanted, kernel, initrd>>
        PROVE  SoFarGood'
    <3>0. /\ e \in Entry /\ e.name = path[1]
          /\ \E i \in 1 .. (Len(p) + 1) : \E t \in Trails(v, p, i) :
                path = SubSeq(p, i, Len(p)) /\ e \in EntriesAt(v, t[i])
      BY <2>4, <2>5
    <3>1. PICK i \in 1 .. (Len(p) + 1) : \E t \in Trails(v, p, i) :
            path = SubSeq(p, i, Len(p)) /\ e \in EntriesAt(v, t[i])
      BY <3>0
    <3>2. PICK t \in Trails(v, p, i) : path = SubSeq(p, i, Len(p)) /\ e \in EntriesAt(v, t[i])
      BY <3>1
    <3>3. Searches(v, p, Tail(path), e.first)
      BY <2>2, <2>5, <3>0, <3>2, SearchEnters
    <3>4. Searches(Volume', Sought(config', wanted'), path', clusterId')
      BY <1>1, <2>5, <3>3 DEF v, p
    <3> QED
      BY <1>1, <2>1, <2>2, <2>5, <3>4 DEF SoFarGood
  <2>6. ASSUME NEW s, FirstStop(clusterId, path[1], s), NEW e, e = disk[<<clusterId, s>>],
               e.kind = "file", Len(path) = 1, stage' \in {"load", "overrun"},
               clusterId' = e.first,
               fileSize' = e.size, buffer' = <<>>, UNCHANGED <<wanted, kernel, initrd>>
        PROVE  SoFarGood'
    <3>0. /\ e \in Entry /\ e.name = path[1]
          /\ \E i \in 1 .. (Len(p) + 1) : \E t \in Trails(v, p, i) :
                path = SubSeq(p, i, Len(p)) /\ e \in EntriesAt(v, t[i])
      BY <2>4, <2>6
    <3>1. PICK i \in 1 .. (Len(p) + 1) : \E t \in Trails(v, p, i) :
            path = SubSeq(p, i, Len(p)) /\ e \in EntriesAt(v, t[i])
      BY <3>0
    <3>2. PICK t \in Trails(v, p, i) : path = SubSeq(p, i, Len(p)) /\ e \in EntriesAt(v, t[i])
      BY <3>1
    <3>3. e \in FilesAt(v, p)
      BY <2>2, <2>6, <3>0, <3>2, SearchEnds
    <3>4. Copies(v, p, e.first, <<>>, e.size)
      BY <2>2, <2>6, <3>0, <3>3, CopyStarts
    <3>5. Copies(Volume', Sought(config', wanted'), clusterId', buffer', fileSize')
      BY <1>1, <2>6, <3>4 DEF v, p
    <3> QED
      BY <1>1, <2>1, <2>2, <2>6, <3>5 DEF SoFarGood
  <2>7. CASE NotLoaded
    BY <1>1, <2>1, <2>2, <2>7, NotLoadedGood
  <2> QED
    BY <2>1, <2>3, <2>5, <2>6, <2>7, SearchFacts
<1> QED
  BY <1>3, <1>4 DEF FatxInv

\* Reading a cluster of a file, and the end of its chain.
LEMMA ReadFileGood ==
    ASSUME FatxInv, ReadFile
    PROVE  FatxInv'
<1>1. /\ UNCHANGED diskVars /\ Volume' = Volume /\ config' = config
      /\ stage = "load" /\ FatxTypes /\ errors \in Nat /\ table' = table
      /\ clusterChainMap' = clusterChainMap
  BY DiskKept DEF ReadFile, FatxInv, FatxTypes
<1>2. CASE clusterId = EOC /\ UNCHANGED errors /\ (NotLoaded \/ (Complete /\ Loaded))
  <2>1. wanted' \in Wanted
    BY <1>1, <1>2 DEF NotLoaded, Loaded, FATXFindFile, FatxTypes, Wanted
  <2>2. FatxTypes'
    BY <1>1, <1>2, <2>1 DEF FatxTypes
  <2>3. ASSUME errors' = 0 PROVE SoFarGood'
    <3>1. SoFarGood
      BY <1>2, <2>3 DEF FatxInv
    <3>0. clusterChainMap' = table
      BY <1>1, <3>1 DEF SoFarGood
    <3>2. CASE NotLoaded
      BY <1>1, <3>0, <3>1, <3>2, NotLoadedGood
    <3>3. CASE Complete /\ Loaded
      <4>1. Copies(Volume, Sought(config, wanted), EOC, buffer, 0)
        BY <1>1, <1>2, <3>1, <3>3 DEF SoFarGood, Complete
      <4>2. IsFile(Volume, buffer, Sought(config, wanted))
        BY <4>1, CopyEnds
      <4> QED
        BY <1>1, <3>0, <3>1, <3>3, <4>2, LoadedGood
    <3> QED
      BY <1>2, <3>2, <3>3
  <2> QED
    BY <2>2, <2>3 DEF FatxInv
<1>3. CASE /\ clusterId # EOC /\ LoadFATXCluster(clusterId) /\ stage' = "copy"
           /\ UNCHANGED <<wanted, path, clusterId, fileSize, buffer, kernel, initrd>>
  <2>1. errors' \in Nat /\ (errors' = 0 => errors = 0 /\ clusterData' = Sectors(clusterId))
    BY <1>1, <1>3, ReadFacts
  <2>2. FatxTypes'
    BY <1>1, <1>3, <2>1 DEF FatxTypes
  <2>3. ASSUME errors' = 0 PROVE SoFarGood'
    <3>1. SoFarGood /\ clusterData' = Sectors(clusterId)
      BY <2>1, <2>3 DEF FatxInv
    <3> QED
      BY <1>1, <1>3, <3>1 DEF SoFarGood
  <2> QED
    BY <2>2, <2>3 DEF FatxInv
<1> QED
  BY <1>2, <1>3 DEF ReadFile

\* Copying a cluster.
LEMMA CopyGood ==
    ASSUME FatxInv, CopyCluster
    PROVE  FatxInv'
<1>1. /\ Volume' = Volume /\ config' = config /\ errors' = errors /\ stage = "copy"
      /\ stage' = "load" /\ UNCHANGED <<wanted, kernel, initrd>> /\ FatxTypes
      /\ buffer' = buffer \o SubSeq(clusterData, 1, Take(fileSize))
      /\ fileSize' = fileSize - Take(fileSize) /\ clusterId' = clusterChainMap[clusterId]
      /\ table' = table /\ clusterChainMap' = clusterChainMap
  BY DiskKept DEF CopyCluster, FatxInv, Take, Written, getNextClusterInChain
<1>2. FatxTypes'
  BY <1>1 DEF FatxTypes
<1>3. ASSUME errors' = 0 PROVE SoFarGood'
  <2> DEFINE p == Sought(config, wanted)
  <2>1. /\ SoFarGood /\ clusterId # EOC /\ clusterData = Sectors(clusterId)
        /\ Copies(Volume, p, clusterId, buffer, fileSize) /\ Volume \in Volumes
        /\ clusterChainMap = table
    BY <1>1, <1>3 DEF FatxInv, FatxTypes, SoFarGood
  <2> HIDE DEF p
  <2>2. clusterId' = Follow(Volume.chain, clusterId)
    BY <1>1, <2>1, VolumeFacts DEF Follow
  <2>3. Copies(Volume, p, Follow(Volume.chain, clusterId),
               buffer \o SubSeq(Sectors(clusterId), 1, Take(fileSize)), fileSize - Take(fileSize))
    BY <2>1, CopyGoesOn
  <2>4. Copies(Volume', Sought(config', wanted'), clusterId', buffer', fileSize')
    BY <1>1, <2>1, <2>2, <2>3 DEF p
  <2> QED
    BY <1>1, <2>1, <2>4 DEF SoFarGood
<1> QED
  BY <1>2, <1>3 DEF FatxInv

\* The inductive invariant of loading from FATX, for every volume: as long as
\* no read fails, the search follows the path and the copy follows the file.
THEOREM FatxInvariance == FatxSpec => []FatxInv
<1>1. FatxInit => FatxInv
  <2> SUFFICES ASSUME FatxInit PROVE FatxInv
    OBVIOUS
  <2>1. Volume \in Volumes
    BY ImageAssumption DEF FatxInit, ImageAssumption, Table, Volume, Volumes, Link
  <2>2. config \in [kernel : Seq(Names), initrd : Seq(Names)]
    BY PathAssumption DEF FatxInit, PathAssumption
  <2>3. wanted = "cfg" /\ stage = "open" /\ errors = 0
    BY DEF FatxInit
  <2> QED
    BY <2>1, <2>2, <2>3 DEF FatxInv, FatxTypes, SoFarGood, Wanted
<1>2. FatxInv /\ [FatxNext]_fatxVars => FatxInv'
  <2> SUFFICES ASSUME FatxInv, [FatxNext]_fatxVars PROVE FatxInv'
    OBVIOUS
  <2>1. CASE UNCHANGED fatxVars
    <3>1. Volume' = Volume /\ config' = config
      BY <2>1 DEF fatxVars, Volume
    <3> QED
      BY <2>1, <3>1 DEF fatxVars, FatxInv, FatxTypes, SoFarGood
  <2>2. CASE DriveHangs
    <3>1. Volume' = Volume /\ config' = config /\ stage' = "stuck"
          /\ UNCHANGED <<wanted, errors, kernel>> /\ stage # "linux"
      BY <2>2, DiskKept DEF DriveHangs
    <3> QED
      BY <3>1 DEF FatxInv, FatxTypes, SoFarGood
  <2> QED
    BY <2>1, <2>2, OpenGood, ReadDirectoryGood, SearchGood, ReadFileGood, CopyGood DEF FatxNext
<1> QED
  BY <1>1, <1>2, PTL DEF FatxSpec

\* Without read errors Linux is started only with the RAM disk that the
\* configuration names and with its kernel, complete unless the RAM disk lies
\* on its end; for every partition, every content of its directories, every
\* chain table, also a damaged one, and every size of the memory areas.
THEOREM FatxStartsConfigured == FatxSpec => []StartsConfigured
<1>1. FatxInv => StartsConfigured
  BY DEF FatxInv, SoFarGood, StartsConfigured
<1> QED
  BY <1>1, FatxInvariance, PTL
=============================================================================
