------------------------------- MODULE MCFatx --------------------------------
(* A disk with the configuration in the root or in a subdirectory, the     *)
(* kernel (two clusters) in that subdirectory, and every chain table.      *)
EXTENDS Fatx

Last == [kind |-> "last"]
Deleted == [kind |-> "deleted"]
BadLength == [kind |-> "badlength"]
FileEntry(n, c, size) == [kind |-> "file", name |-> n, first |-> c, size |-> size]
DirEntry(n, c) == [kind |-> "dir", name |-> n, first |-> c]

Disk(root) == [t \in Sector |->
    CASE t[1] = 1 -> root[t[2]]
      [] t[1] = 2 -> <<FileEntry("k", 3, 3), FileEntry("c", 4, 2)>>[t[2]]
      [] t[1] = 0 -> Last
      [] OTHER -> BadLength]

MCImages == {Disk(<<Deleted, DirEntry("d", 2)>>),
             Disk(<<FileEntry("c", 4, 4), DirEntry("d", 2)>>)}

MCConfigs == {[kernel |-> <<"d", "k">>, initrd |-> <<>>],
              [kernel |-> <<"d", "k">>, initrd |-> <<"d", "c">>],
              [kernel |-> <<"c">>, initrd |-> <<>>]}

\* Every table with the format's marker in entry 0 and, behind the last
\* cluster, a link to the root.
MCTables == {m \in Table : m[0] = EOC /\ m[N + 1] = 1}

\* The heap holds a table in which some chains end and some are a circle.
MCJunk == {[c \in Cluster |-> IF c = 3 THEN 4 ELSE IF c = 4 THEN 3 ELSE EOC]}

MCCfgPath == <<"c">>
MCDebianCfgPath == <<"d", "c">>
=============================================================================
