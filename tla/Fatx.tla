-------------------------------- MODULE Fatx ---------------------------------
(***************************************************************************)
(* Starting Linux from a FATX partition: LoadConfigFatX looks for the boot *)
(* configuration, LoadKernelFatX loads the kernel and the initial RAM disk *)
(* it names, and BootMenuEntry starts Linux.  Below them BootFATX.c walks  *)
(* directories and cluster chains, and BootIdeReadSector may fail or never *)
(* return.                                                                 *)
(*                                                                         *)
(* One step reads one cluster.  A sector is a token <<cluster, number>>;   *)
(* each sector of a directory holds one entry.                             *)
(***************************************************************************)
EXTENDS Integers, Sequences, FiniteSets

CONSTANTS
    N,          \* clusters of the partition, 1 .. N
    U,          \* sectors of a cluster (clusterSize in units)
    Names,      \* names of files and directories; a path is a sequence of them
    Images,     \* what the disk may hold: [sector -> directory entry]
    Tables,     \* its chain table, also a damaged one: [cluster -> next]
    Configs,    \* what the configuration may name: [kernel, initrd: paths]
    CfgPath, DebianCfgPath, \* "/linuxboot.cfg", "/debian/linuxboot.cfg"
    KernelRoom, \* sectors of a kernel that lie before INITRD_START
    InitrdRoom, \* sectors between INITRD_START and the heap
    Junk,       \* what the heap may hold where a chain table is allocated
    EOC,        \* end-of-chain marker, also FATX's marker for the root
    MaxErrors   \* bound: reads that fail

\* Cluster 0 is the end of the chain table, N + 1 stands for a cluster
\* behind the partition: the code reads both when a chain leads there.
Cluster == 0 .. (N + 1)
Sector == Cluster \X (1 .. U)

Table == [Cluster -> Cluster \cup {EOC}]

ASSUME LayoutAssumption ==
    /\ N \in Nat \ {0} /\ U \in Nat \ {0} /\ EOC \notin Cluster
    /\ KernelRoom \in Nat /\ InitrdRoom \in Nat /\ Junk # {} /\ Junk \subseteq Table

\* A directory entry; its first cluster may also be none, or behind the disk.
Entry ==
    [kind : {"last", "deleted", "badlength"}]
      \cup [kind : {"file"}, name : Names, first : Cluster \cup {EOC}, size : Nat]
      \cup [kind : {"dir"}, name : Names, first : Cluster \cup {EOC}]

ASSUME ImageAssumption ==
    /\ Images # {} /\ Images \subseteq [Sector -> Entry]
    /\ Tables # {} /\ Tables \subseteq Table
ASSUME PathAssumption ==
    /\ Configs # {} /\ Configs \subseteq [kernel : Seq(Names), initrd : Seq(Names)]
    /\ CfgPath \in Seq(Names) /\ DebianCfgPath \in Seq(Names)

VARIABLES
    disk,           \* the directory entries on the disk
    table,          \* the chain table on the disk
    config,         \* what ParseConfig finds in the configuration file
    clusterChainMap,\* the chain table in memory
    stage,
    wanted,         \* which file is being looked for
    path,           \* names still to be found, the first in directory clusterId
    clusterId,
    clusterData,    \* the cluster buffer on the stack, one for each function
    fileSize,       \* sectors of the file still to be copied
    buffer,         \* what was copied to fileinfo->buffer
    kernel, initrd, \* what Linux will be started with
    errors          \* number of failed reads so far

fatxVars == <<disk, table, config, clusterChainMap, stage, wanted, path, clusterId,
              clusterData, fileSize, buffer, kernel, initrd, errors>>
diskVars == <<disk, table, config>>

PathOf(j) == CASE j = "cfg" -> CfgPath
               [] j = "debian" -> DebianCfgPath
               [] j = "kernel" -> config.kernel
               [] j = "initrd" -> config.initrd

\* No partition is open yet.
FatxInit ==
    /\ disk \in Images /\ table \in Tables /\ config \in Configs
    /\ clusterChainMap = [c \in Cluster |-> EOC]
    /\ stage = "open" /\ wanted = "cfg"
    /\ path = <<>> /\ clusterId = EOC /\ clusterData = <<>>
    /\ fileSize = 0 /\ buffer = <<>> /\ kernel = <<>> /\ initrd = <<>>
    /\ errors = 0

-----------------------------------------------------------------------------
(* Reading                                                                 *)

Sectors(c) == [s \in 1 .. U |-> <<c, s>>]

\* LoadFATXCluster: a failed read leaves the rest of the buffer as it was,
\* and for the first cluster that is what an earlier call left on the stack:
\* junk, or a directory searched before.  The failure is not reported to the
\* caller.
LoadFATXCluster(c) ==
    \/ clusterData' = Sectors(c) /\ UNCHANGED errors
    \/ /\ errors < MaxErrors /\ errors' = errors + 1
       /\ \E old \in IF clusterData # <<>> THEN {clusterData} ELSE {Sectors(0), Sectors(1)},
             bad \in 1 .. U :
              clusterData' = [s \in 1 .. U |-> IF s < bad THEN <<c, s>> ELSE old[s]]

\* BootIdeReadSector waits without limit for a drive that stays busy, and for
\* data that do not come.  Waiting that ends is a read like any other.
DriveHangs ==
    /\ stage = "open" \/ (stage \in {"find", "load"} /\ clusterId # EOC)
    /\ stage' = "stuck"
    /\ UNCHANGED <<diskVars, clusterChainMap, wanted, path, clusterId, clusterData, fileSize,
                   buffer, kernel, initrd, errors>>

\* Mutant: the end marker is not recognised.
NextWithoutEnd(c) == IF clusterChainMap[c] = EOC THEN 0 ELSE clusterChainMap[c]

\* A link to an unallocated or invalid cluster is followed with a warning.
getNextClusterInChain(c) == clusterChainMap[c]

\* Start looking for the file of wanted j, in the root directory (cluster 1).
FATXFindFile(j) ==
    /\ stage' = "find" /\ wanted' = j
    /\ path' = PathOf(j) /\ clusterId' = 1 /\ clusterData' = <<>>

-----------------------------------------------------------------------------
(* OpenFATXPartition                                                       *)

\* The chain table goes to fresh memory of the heap.  If it cannot be read to
\* its end the partition is used all the same, with what the memory held.
ReadTable ==
    \/ clusterChainMap' = table /\ UNCHANGED errors
    \/ /\ errors < MaxErrors /\ errors' = errors + 1
       /\ \E junk \in Junk, bad \in Cluster :
             clusterChainMap' = [c \in Cluster |-> IF c < bad THEN table[c] ELSE junk[c]]

\* Without a header there is no partition: no menu entry then, but a kernel
\* that could not be loaded is started all the same (BootMenuEntry does not
\* look at the result of LoadKernelFatX).
OpenFATXPartition ==
    /\ stage = "open"
    /\ \/ ReadTable /\ FATXFindFile(wanted)
       \/ /\ errors < MaxErrors /\ errors' = errors + 1
          /\ stage' = IF wanted = "cfg" THEN "no entry" ELSE "linux"
          /\ UNCHANGED <<clusterChainMap, wanted, path, clusterId, clusterData>>
    /\ UNCHANGED <<diskVars, fileSize, buffer, kernel, initrd>>

-----------------------------------------------------------------------------
(* _FATXFindFile: search one directory, cluster by cluster                 *)

Named(e, n) == e.kind \in {"file", "dir"} /\ e.name = n

\* The entries at which the search through a cluster ends; deleted entries
\* and other names are passed over.
Stops(e, n) == e.kind \in {"last", "badlength"} \/ Named(e, n)

\* The file was not found, or its chain was too short.
NotLoaded ==
    /\ \/ wanted = "cfg" /\ FATXFindFile("debian")
       \/ /\ wanted # "cfg"
          /\ stage' = IF wanted = "debian" THEN "no entry" ELSE "halt"
          /\ UNCHANGED <<wanted, path, clusterId, clusterData>>
    /\ UNCHANGED <<fileSize, buffer, kernel, initrd>>

ReadDirectory ==
    /\ stage = "find"
    /\ \/ /\ clusterId = EOC /\ NotLoaded /\ UNCHANGED errors
       \/ /\ clusterId # EOC /\ LoadFATXCluster(clusterId)
          /\ stage' = "scan"
          /\ UNCHANGED <<wanted, path, clusterId, fileSize, buffer, kernel, initrd>>
    /\ UNCHANGED <<diskVars, clusterChainMap>>

\* The configuration goes to the heap, the other files to INITRD_START.
\* LoadFATXFilefixed fills fileSize bytes there without looking at the size:
\* one that is too large runs over the heap and the chain table in it.
FitsMemory(size) == wanted \in {"kernel", "initrd"} => size <= InitrdRoom

\* A directory on the way is searched next, in a new frame; a file at the
\* end of the path is loaded; everything else that ends the search fails.
SearchCluster ==
    LET entry(s) == disk[clusterData[s]]
        stops == {s \in 1 .. U : Stops(entry(s), path[1])}
        e == entry(CHOOSE s \in stops : \A t \in stops : s <= t)
        isDir == stops # {} /\ e.kind = "dir" /\ Len(path) > 1
        isFile == stops # {} /\ e.kind = "file" /\ Len(path) = 1
    IN
    /\ stage = "scan"
    /\ \/ /\ stops = {}
          /\ stage' = "find" /\ clusterId' = getNextClusterInChain(clusterId)
          /\ UNCHANGED <<wanted, path, clusterData, fileSize, buffer, kernel, initrd>>
       \/ /\ isDir
          /\ stage' = "find" /\ path' = Tail(path)
          /\ clusterId' = e.first /\ clusterData' = <<>>
          /\ UNCHANGED <<wanted, fileSize, buffer, kernel, initrd>>
       \/ /\ isFile
          /\ stage' = IF FitsMemory(e.size) THEN "load" ELSE "overrun"
          /\ clusterId' = e.first /\ clusterData' = <<>>
          /\ fileSize' = e.size /\ buffer' = <<>>
          /\ UNCHANGED <<wanted, path, kernel, initrd>>
       \/ stops # {} /\ ~isDir /\ ~isFile /\ NotLoaded
    /\ UNCHANGED <<diskVars, clusterChainMap, errors>>

-----------------------------------------------------------------------------
(* FATXLoadFromDisk and what its callers do with the file                  *)

\* What is left of a kernel when a RAM disk is at INITRD_START: LoadKernelFatX
\* does not compare the kernel's size with the room before it.
Overwritten(k, ramdisk) ==
    [i \in DOMAIN k |-> IF i > KernelRoom /\ i - KernelRoom \in DOMAIN ramdisk
                       THEN ramdisk[i - KernelRoom] ELSE k[i]]

\* The configuration leads to a menu entry; the user chooses it and the
\* partition is opened again.  The kernel is moved to its place before the RAM
\* disk is loaded.
Loaded ==
    \/ /\ wanted \in {"cfg", "debian"}
       /\ stage' = "open" /\ wanted' = "kernel"
       /\ UNCHANGED <<path, clusterId, clusterData, fileSize, buffer, kernel, initrd>>
    \/ /\ wanted = "kernel"
       /\ kernel' = buffer
       /\ \/ config.initrd # <<>> /\ FATXFindFile("initrd")
          \/ /\ config.initrd = <<>> /\ stage' = "linux"
             /\ UNCHANGED <<wanted, path, clusterId, clusterData>>
       /\ UNCHANGED <<fileSize, buffer, initrd>>
    \/ /\ wanted = "initrd"
       /\ initrd' = buffer /\ kernel' = Overwritten(kernel, buffer) /\ stage' = "linux"
       /\ UNCHANGED <<wanted, path, clusterId, clusterData, fileSize, buffer>>

\* Mutant: the check at the end of the chain is missing.
CompleteUnchecked == TRUE

\* "check we actually found enough data"
Complete == fileSize = 0

\* The chain is followed to its end, also when the file is complete.
ReadFile ==
    /\ stage = "load"
    /\ \/ clusterId = EOC /\ Complete /\ Loaded /\ UNCHANGED errors
       \/ clusterId = EOC /\ ~Complete /\ NotLoaded /\ UNCHANGED errors
       \/ /\ clusterId # EOC /\ LoadFATXCluster(clusterId)
          /\ stage' = "copy"
          /\ UNCHANGED <<wanted, path, clusterId, fileSize, buffer, kernel, initrd>>
    /\ UNCHANGED <<diskVars, clusterChainMap>>

\* How much of a cluster belongs to the file.
Written == IF fileSize <= U THEN fileSize ELSE U

CopyCluster ==
    /\ stage = "copy"
    /\ buffer' = buffer \o SubSeq(clusterData, 1, Written)
    /\ fileSize' = fileSize - Written
    /\ clusterId' = getNextClusterInChain(clusterId)
    /\ stage' = "load"
    /\ UNCHANGED <<diskVars, clusterChainMap, wanted, path, clusterData, kernel, initrd, errors>>

-----------------------------------------------------------------------------
FatxNext ==
    OpenFATXPartition \/ ReadDirectory \/ SearchCluster \/ ReadFile \/ CopyCluster \/ DriveHangs

FatxSpec == FatxInit /\ [][FatxNext]_fatxVars

\* The program runs on: nothing else uses the processor while it loads.
FatxFairSpec == FatxSpec /\ WF_fatxVars(FatxNext)

-----------------------------------------------------------------------------
(* Reference definitions: what a volume v holds, read without a program.   *)

Volume == [chain |-> table, entries |-> disk]

\* The n-th cluster of the chain that starts at c; EOC behind its end.
ChainAt(v, c) ==
    LET at[n \in 0 .. (N + 2)] ==
            IF n = 0 THEN c ELSE IF at[n - 1] = EOC THEN EOC ELSE v.chain[at[n - 1]]
    IN at

\* A chain of allocated clusters that ends.
SoundChain(v, c) ==
    /\ ChainAt(v, c)[N + 2] = EOC
    /\ \A n \in 0 .. (N + 2) : ChainAt(v, c)[n] \in (1 .. N) \cup {EOC}

ChainLength(v, c) == Cardinality({n \in 0 .. (N + 2) : ChainAt(v, c)[n] # EOC})

\* The entries of the directory that starts at c, up to its end marker.
EntriesAt(v, c) ==
    LET all == {p \in (0 .. (N + 2)) \X (1 .. U) : ChainAt(v, c)[p[1]] # EOC}
        entry(p) == v.entries[<<ChainAt(v, c)[p[1]], p[2]>>]
        before(p, q) == p[1] < q[1] \/ (p[1] = q[1] /\ p[2] < q[2])
    IN {entry(p) : p \in {q \in all :
            \A x \in all : before(x, q) => entry(x).kind \notin {"last", "badlength"}}}

\* Where the directories start that lead to the i-th name of path p, the root
\* first.
Trails(v, p, i) ==
    {t \in [1 .. i -> Cluster \cup {EOC}] :
        /\ t[1] = 1
        /\ \A j \in 2 .. i : \E e \in EntriesAt(v, t[j - 1]) :
              e.kind = "dir" /\ e.name = p[j - 1] /\ e.first = t[j]}

\* The files that path p names.
FilesAt(v, p) ==
    {e \in UNION {EntriesAt(v, t[Len(p)]) : t \in Trails(v, p, Len(p))} :
        e.kind = "file" /\ e.name = p[Len(p)]}

Content(v, e) == [i \in 1 .. e.size |->
                    <<ChainAt(v, e.first)[(i - 1) \div U], ((i - 1) % U) + 1>>]

\* The content of memory is a file of that path.
IsFile(v, m, p) ==
    \E e \in FilesAt(v, p) :
        SoundChain(v, e.first) => /\ ChainLength(v, e.first) * U >= e.size
                                  /\ m = Content(v, e)

\* It is as long as such a file, and as far as r sectors the same.
BeginsFile(v, m, p, r) ==
    \E e \in FilesAt(v, p) :
        SoundChain(v, e.first) =>
            /\ ChainLength(v, e.first) * U >= e.size
            /\ DOMAIN m = 1 .. e.size
            /\ \A i \in 1 .. e.size : i <= r => m[i] = Content(v, e)[i]

-----------------------------------------------------------------------------
(* Properties                                                              *)

\* Without read errors Linux is started only with the complete RAM disk that
\* the configuration names and the complete kernel, although the kernel is
\* loaded where the RAM disk will be and then moved (LoadKernelFatX).  Of a
\* kernel that reaches to INITRD_START, which no check prevents, only the part
\* before it is right if there is a RAM disk.  A file whose chain runs into
\* unallocated clusters is excepted, the code reads on there, and so is one
\* that runs over the heap.
StartsConfigured ==
    stage = "linux" /\ errors = 0 =>
        /\ config.initrd = <<>> => IsFile(Volume, kernel, config.kernel)
        /\ config.initrd # <<>> =>
              /\ BeginsFile(Volume, kernel, config.kernel, KernelRoom)
              /\ IsFile(Volume, initrd, config.initrd)

\* The chain that is being followed, in the table that is used, has an end.
OnChainWithEnd == ChainAt([Volume EXCEPT !.chain = clusterChainMap], clusterId)[N + 2] = EOC

\* The search and the loading come to an end: Linux, no menu entry, the halt of
\* LoadKernelFatX, or the heap overrun; unless the drive keeps a read waiting
\* for good.  This holds for damaged chain tables, tables that could not be
\* read and failed reads of clusters too, as long as no chain that the code
\* follows is a circle: that is the one way in which its loops do not end.
LoadEnds ==
    []OnChainWithEnd => <>(stage \in {"linux", "no entry", "halt", "overrun", "stuck"})
=============================================================================
