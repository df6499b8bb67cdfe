------------------------------- MODULE MCFat32 -------------------------------
(***************************************************************************)
(* Volumes with a boot sector, two FATs of two sectors and clusters from   *)
(* LBA 5 on: files of one and of two clusters, a subdirectory, full        *)
(* directories, clusters of two sectors, a disk on which a cluster number  *)
(* times four is past the end, and a sector 0 without signature.  A word   *)
(* of the text has bits beyond the 28 of a FAT entry.                      *)
(***************************************************************************)
EXTENDS Fat32

File(name, clus, size) == [name |-> name, kind |-> "file", clus |-> clus, size |-> size]
Dir(name, clus) == [name |-> name, kind |-> "dir", clus |-> clus, size |-> 0]
Other(name, kind) == [name |-> name, kind |-> kind, clus |-> 3, size |-> 1]

Blank == [words |-> <<0, 0, 0, 0>>, ents |-> <<NoEnt, NoEnt, NoEnt, NoEnt>>]
Text(ws) == [words |-> ws, ents |-> [i \in 1 .. 4 |-> File("TEXT", ws[i], 1)]]
Fat(ws) == [words |-> ws, ents |-> Blank.ents]
\* Seen as words, a name is a number far beyond any cluster.
Table(es) == [words |-> <<500, 501, 502, 503>>,
              ents |-> [i \in 1 .. 4 |-> IF i <= Len(es) THEN es[i] ELSE NoEnt]]

\* Clusters: a function from cluster number to its sectors.
Volume(spc, capacity, fat, dirs, clusters) ==
    [sig |-> TRUE, part |-> 0, reserved |-> 1, numFats |-> 2, secPerFat |-> 2,
     secPerClus |-> spc, root |-> 2, dataAt |-> 5, ended |-> TRUE, dirs |-> dirs,
     sectors |-> [l \in 0 .. capacity - 1 |->
         IF l \in {1, 3} THEN Fat(SubSeq(fat, 1, 4))
         ELSE IF l \in {2, 4} THEN Fat(SubSeq(fat, 5, 8))
         ELSE IF l >= 5 /\ (l - 5) \div spc + 2 \in DOMAIN clusters
         THEN clusters[(l - 5) \div spc + 2][((l - 5) % spc) + 1]
         ELSE Blank]]

On(c, s) == [x \in {c} |-> s]

FData == On(3, <<Text(<<31, 32, 33, 34>>)>>)
GData == On(5, <<Text(<<51, 52, 2002, 54>>)>>) @@ On(6, <<Text(<<61, 62, 63, 64>>)>>)
SubDir == On(4, <<Table(<<Dir("DOT", 4), Dir("DOTDOT", 0), File("G", 5, 6)>>)>>)
OneFat == <<999, 999, 999, 999, 999, 6, 999, 999>>

Plain ==
    Volume(1, 24, OneFat, {2, 4},
        On(2, <<Table(<<Other("F", "deleted"), Dir("D", 4), File("F", 3, 3)>>)>>)
        @@ FData @@ SubDir @@ GData)

FullSubDir ==
    On(4, <<Table(<<Dir("DOT", 4), Dir("DOTDOT", 0), File("G", 5, 6), File("E", 0, 0)>>)>>)

FullDirs ==
    [Volume(1, 24, OneFat, {2, 4},
        On(2, <<Table(<<Other("F", "lfn"), Dir("D", 4), File("F", 3, 4), File("E", 0, 0)>>)>>)
        @@ FData @@ FullSubDir @@ GData) EXCEPT !.ended = FALSE]

WideClusters ==
    Volume(2, 24, <<999, 999, 999, 999, 999, 999, 999, 999>>, {2},
        On(2, <<Table(<<Other("F", "volume"), File("F", 3, 6), File("G", 4, 2)>>), Blank>>)
        @@ On(3, <<Text(<<31, 32, 33, 34>>), Text(<<35, 36, 37, 38>>)>>)
        @@ On(4, <<Text(<<41, 42, 43, 44>>), Text(<<45, 46, 47, 48>>)>>))

FarFile ==
    Volume(1, 12, OneFat, {2},
        On(2, <<Table(<<File("F", 3, 2), File("G", 7, 2)>>)>>)
        @@ FData @@ On(7, <<Text(<<71, 72, 73, 74>>)>>))

MCVolumes == {Plain, FullDirs, WideClusters, FarFile, [Plain EXCEPT !.sig = FALSE]}

MCShortName == [f |-> "F", d |-> "D", g |-> "G", e |-> "E", x |-> "X", up |-> "DOT"]

P(parts, slash) == [parts |-> parts, slash |-> slash]
MCPaths ==
    {P(<<>>, TRUE), P(<<"f">>, FALSE), P(<<"f">>, TRUE), P(<<"e">>, FALSE), P(<<"g">>, FALSE),
     P(<<"x">>, FALSE), P(<<"d">>, TRUE), P(<<"d", "g">>, FALSE), P(<<"d", "x">>, FALSE),
     P(<<"f", "g">>, FALSE), P(<<"d", "up", "g">>, FALSE)}

MCJunk == {Blank, Text(<<91, 92, 93, 94>>)}
=============================================================================
