-------------------------------- MODULE Fat32 --------------------------------
(***************************************************************************)
(* Kernel/Filesystems/Fat32: mount, get_file_size and read_file over a     *)
(* block device whose reads may fail.                                      *)
(*                                                                         *)
(* A sector is seen in two ways, as Words words of four bytes and as       *)
(* directory entries.  Sizes are counted in words; the arithmetic on       *)
(* clusters and LBAs is the code's.  Only the first sector of a cluster is *)
(* read into the cluster buffer: the rest keeps what the heap held there,  *)
(* any of Junk.  Buffers are never freed.                                  *)
(*                                                                         *)
(* Two things are taken for granted that the code does not check.  The     *)
(* BPB's m_bytes_per_sec is the 512 of the device and of read_fat's buffer *)
(* on the stack (the check is commented out).  And a read of the device    *)
(* fills the buffer it is given, which VirtioBlock shows for a buffer in   *)
(* adjacent frames.                                                        *)
(***************************************************************************)
EXTENDS Integers, Sequences, SequencesExt

CONSTANTS
    Volumes,    \* disks: geometry (the BPB), sectors, clusters that are directories
    Words,      \* words of a sector: m_bytes_per_sec / 4
    Mod32,      \* u32 arithmetic: 2^32
    Mod28,      \* a FAT entry has 28 bits: 2^28
    Eoc,        \* 0x0FFFFFF8
    Names,      \* names of eight and three characters
    ShortName,  \* to_8dot3_upper, which is not injective
    Paths,      \* absolute paths: components, and whether a separator ends them
    Limits,     \* values of max_bytes
    Junk,       \* sectors the heap memory may hold
    HeapBuffers \* cluster buffers the heap can give

ASSUME FatAssumption ==
    /\ Words \in Nat \ {0} /\ HeapBuffers \in Nat
    /\ Limits \subseteq Nat
    /\ {Eoc, Mod28, Mod32} \subseteq Nat /\ Eoc < Mod28 /\ Mod28 <= Mod32

Kinds == {"deleted", "lfn", "volume", "end", "file", "dir"}
Entry == [name : Names \cup {"none"}, kind : Kinds, clus : Nat, size : Nat]
SectorData == [words : [1 .. Words -> Nat], ents : Seq(Entry)]
Path == [parts : Seq(DOMAIN ShortName), slash : BOOLEAN]

ASSUME InputAssumption == Paths \subseteq Path /\ Junk \subseteq SectorData

FatBegin(v) == v.part + v.reserved

DataBegin(v) == FatBegin(v) + v.numFats * v.secPerFat

\* The cluster of a file or directory: its number is one the format allows, and
\* its first sector is on the disk.
StartsOnDisk(v, c) ==
    c \in 2 .. Eoc - 1 /\ v.dataAt + (c - 2) * v.secPerClus \in DOMAIN v.sectors

\* The directory entries in the first sector of a cluster.
FirstEntries(v, c) == v.sectors[v.dataAt + (c - 2) * v.secPerClus].ents

\* A disk that is formatted: the data come after the FATs, and what the entries
\* of a directory say, up to its end, is so.  A directory may start in cluster
\* 0, which stands for the root; an empty file has no cluster.
Formatted(v) ==
    /\ {v.part, v.reserved, v.numFats, v.secPerFat} \subseteq Nat
    /\ v.secPerClus \in Nat \ {0}
    /\ v.dataAt = DataBegin(v)
    /\ v.root \in v.dirs
    /\ \A c \in v.dirs :
        /\ StartsOnDisk(v, c)
        /\ \A i \in DOMAIN FirstEntries(v, c) :
            LET e == FirstEntries(v, c)[i]
            IN  (\A j \in 1 .. i : FirstEntries(v, c)[j].kind # "end") =>
                    /\ (e.kind = "dir" /\ e.clus >= 2) => e.clus \in v.dirs
                    /\ (e.kind = "file" /\ e.size > 0) => StartsOnDisk(v, e.clus)

\* mount takes only disks with a signature.
ASSUME VolumesAssumption ==
    \A v \in Volumes :
        /\ v.sig \in BOOLEAN
        /\ \A l \in DOMAIN v.sectors : v.sectors[l] \in SectorData
        /\ v.sig => Formatted(v)

VARIABLES
    vol,     \* the disk that is there
    geo,     \* the m_ fields mount fills in
    pc,      \* where the call is
    call,    \* its operation, path and limit
    depth,   \* components of the path resolved so far
    ent,     \* the entry found last
    cl,      \* the cluster being read
    buf,     \* the cluster buffer
    copied,  \* what is in out_buf
    toRead,
    heap,    \* buffers the heap can still give
    ret      \* the call that returned last, and what it returned

vars == <<vol, geo, pc, call, depth, ent, cl, buf, copied, toRead, heap, ret>>

NoGeo == [spc |-> 0, fatBegin |-> 0, dataBegin |-> 0, root |-> 0]
NoCall == [op |-> "none", path |-> [parts |-> <<>>, slash |-> FALSE], max |-> 0]
NoEnt == [name |-> "none", kind |-> "end", clus |-> 0, size |-> 0]
NoRet == [call |-> NoCall, err |-> "none", size |-> 0, data |-> <<>>]

Init ==
    /\ vol \in Volumes
    /\ geo = NoGeo /\ pc = "unmounted"
    /\ call = NoCall /\ depth = 0 /\ ent = NoEnt /\ cl = 0
    /\ buf = <<>> /\ copied = <<>> /\ toRead = 0
    /\ heap = HeapBuffers /\ ret = NoRet

-----------------------------------------------------------------------------
(* The device, and the computations on clusters.                           *)

OnDisk(lba) == lba \in DOMAIN vol.sectors
Sector(lba) == vol.sectors[lba]

\* read_cluster: the first sector of the cluster, and no other.
ClusterLba(c) == geo.dataBegin + ((c - 2) % Mod32) * geo.spc
ReadCluster == [buf EXCEPT ![1] = Sector(ClusterLba(cl))]

\* read_fat: the byte offset of the entry in the FAT is taken for an LBA.
FatLba(c) == c * 4
ReadFat == Sector(FatLba(cl)).words[((cl * 4) % (Words * 4)) \div 4 + 1] % Mod28

IsEoc(c) == c >= Eoc
IsFree(c) == c = 0

BufferEntries == FlattenSeq([i \in DOMAIN buf' |-> buf'[i].ents])
BufferWords == FlattenSeq([i \in DOMAIN buf' |-> buf'[i].words])

Skipped(e) == e.kind \in {"deleted", "lfn", "volume"}

\* Mutant: the entry that ends a directory is not noticed.
StopsAtName(e, want) == ~Skipped(e) /\ e.name = want

\* The first entry that is the end of the directory or has the name.
Stops(e, want) == e.kind = "end" \/ (~Skipped(e) /\ e.name = want)

-----------------------------------------------------------------------------
(* mount: a failure stops the kernel.                                      *)

Mount ==
    /\ pc = "unmounted"
    /\ \/ /\ vol.sig /\ pc' = "idle"
          /\ geo' = [spc |-> vol.secPerClus, fatBegin |-> FatBegin(vol),
                     dataBegin |-> DataBegin(vol), root |-> vol.root]
       \/ pc' = "panic" /\ UNCHANGED geo
    /\ UNCHANGED <<vol, call, depth, ent, cl, buf, copied, toRead, heap, ret>>

-----------------------------------------------------------------------------
(* A call: walk_path, then the size or the contents.                       *)

Return(err, size) ==
    /\ pc' = "idle"
    /\ ret' = [call |-> call, err |-> err, size |-> size, data |-> copied']
    /\ call' = NoCall /\ depth' = 0 /\ ent' = NoEnt /\ cl' = 0
    /\ buf' = <<>> /\ toRead' = 0

Failed(err) == copied' = <<>> /\ Return(err, 0) /\ UNCHANGED <<vol, geo, heap>>

\* An empty path is refused by walk_path.
Call(op, path, max) ==
    /\ pc = "idle"
    /\ call' = [op |-> op, path |-> path, max |-> max]
    /\ pc' = IF path.parts = <<>> THEN "refused" ELSE "lookup"
    /\ cl' = geo.root /\ depth' = 0 /\ copied' = <<>> /\ ret' = NoRet
    /\ UNCHANGED <<vol, geo, ent, buf, toRead, heap>>

Refused == pc = "refused" /\ Failed("path")

\* The cluster buffer of find_in_directory, or of read_file.
Allocate(from, to) ==
    /\ pc = from /\ heap > 0
    /\ heap' = heap - 1
    /\ buf' \in [1 .. geo.spc -> Junk]
    /\ pc' = to
    /\ UNCHANGED <<vol, geo, call, depth, ent, cl, copied, toRead, ret>>

AllocateRefused == pc \in {"lookup", "open"} /\ heap = 0 /\ Failed("heap")

\* A read the device fails, or of a sector it does not have.
DeviceError == pc \in {"scan", "next", "copy", "follow"} /\ Failed("device")

OutOfRange ==
    /\ \/ pc = "scan" /\ ~IsEoc(cl) /\ ~IsFree(cl) /\ ~OnDisk(ClusterLba(cl))
       \/ pc = "copy" /\ toRead > 0 /\ ~IsEoc(cl) /\ ~IsFree(cl) /\ ~OnDisk(ClusterLba(cl))
       \/ pc \in {"next", "follow"} /\ ~OnDisk(FatLba(cl))
    /\ Failed("range")

-----------------------------------------------------------------------------
(* find_in_directory and walk_path.                                        *)

Want == ShortName[call.path.parts[depth + 1]]

\* The entry is the last of the path, is to be entered, or is no directory.
Found(e) ==
    /\ ent' = e
    /\ depth' = depth + 1
    /\ LET last == depth + 1 = Len(call.path.parts)
       IN  \/ /\ last /\ (call.path.slash => e.kind = "dir")
              /\ pc' = "found" /\ UNCHANGED cl
           \/ /\ ~last /\ e.kind = "dir"
              /\ pc' = "lookup" /\ cl' = e.clus
           \/ /\ ~last \/ call.path.slash
              /\ e.kind # "dir"
              /\ pc' = "refused" /\ UNCHANGED cl

ScanCluster ==
    /\ pc = "scan" /\ ~IsEoc(cl) /\ ~IsFree(cl) /\ OnDisk(ClusterLba(cl))
    /\ buf' = ReadCluster
    /\ LET es == BufferEntries
           i == SelectInSeq(es, LAMBDA e : Stops(e, Want))
       IN  \/ /\ i = 0
              /\ pc' = "next" /\ UNCHANGED <<ent, depth, cl>>
           \/ /\ i > 0 /\ es[i].kind = "end"
              /\ pc' = "refused" /\ UNCHANGED <<ent, depth, cl>>
           \/ /\ i > 0 /\ es[i].kind # "end"
              /\ Found(es[i])
    /\ UNCHANGED <<vol, geo, call, copied, toRead, heap, ret>>

ScanEnds == pc = "scan" /\ (IsEoc(cl) \/ IsFree(cl)) /\ Failed("path")

NextCluster(from, to) ==
    /\ pc = from /\ OnDisk(FatLba(cl))
    /\ cl' = ReadFat
    /\ pc' = to
    /\ UNCHANGED <<vol, geo, call, depth, ent, buf, copied, toRead, heap, ret>>

-----------------------------------------------------------------------------
(* get_file_size and read_file once the entry is known.                    *)

FoundDirectory == pc = "found" /\ ent.kind = "dir" /\ Failed("path")

FileSize ==
    /\ pc = "found" /\ ent.kind # "dir"
    /\ call.op = "size" \/ ent.size = 0
    /\ copied' = <<>>
    /\ Return("none", IF call.op = "size" THEN ent.size ELSE 0)
    /\ UNCHANGED <<vol, geo, heap>>

Lesser(a, b) == IF a < b THEN a ELSE b

\* Mutant: max_bytes is ignored.
OpenUnlimited ==
    /\ pc = "found" /\ ent.kind # "dir" /\ call.op = "read" /\ ent.size > 0
    /\ toRead' = ent.size
    /\ cl' = ent.clus
    /\ pc' = "open"
    /\ UNCHANGED <<vol, geo, call, depth, ent, buf, copied, heap, ret>>

Open ==
    /\ pc = "found" /\ ent.kind # "dir" /\ call.op = "read" /\ ent.size > 0
    /\ toRead' = Lesser(call.max, ent.size)
    /\ cl' = ent.clus
    /\ pc' = "open"
    /\ UNCHANGED <<vol, geo, call, depth, ent, buf, copied, heap, ret>>

Chunk == Lesser(toRead, Words * geo.spc)

CopyCluster ==
    /\ pc = "copy" /\ toRead > 0 /\ ~IsEoc(cl) /\ ~IsFree(cl) /\ OnDisk(ClusterLba(cl))
    /\ buf' = ReadCluster
    /\ copied' = copied \o SubSeq(BufferWords, 1, Chunk)
    /\ toRead' = toRead - Chunk
    /\ pc' = "follow"
    /\ UNCHANGED <<vol, geo, call, depth, ent, cl, heap, ret>>

CopyEnds ==
    /\ pc = "copy" /\ (toRead = 0 \/ IsEoc(cl) \/ IsFree(cl))
    /\ copied' = copied
    /\ Return("none", Len(copied))
    /\ UNCHANGED <<vol, geo, heap>>

Halted == pc = "panic" /\ UNCHANGED vars

-----------------------------------------------------------------------------
Step ==
    \/ Refused \/ AllocateRefused \/ OutOfRange
    \/ Allocate("lookup", "scan") \/ ScanCluster \/ ScanEnds \/ NextCluster("next", "scan")
    \/ FoundDirectory \/ FileSize \/ Open
    \/ Allocate("open", "copy") \/ CopyCluster \/ CopyEnds \/ NextCluster("follow", "copy")

Next ==
    \/ Mount
    \/ \E p \in Paths : Call("size", p, 0) \/ \E n \in Limits : Call("read", p, n)
    \/ Step \/ DeviceError \/ Halted

\* The kernel goes on with a call it has begun.
Spec == Init /\ [][Next]_vars /\ WF_vars(Step)

-----------------------------------------------------------------------------
(* What a volume v says, read by the rules of the format.                  *)

\* The FAT entry of a cluster, and the k-th cluster of a chain.
FatEntry(v, c) == v.sectors[FatBegin(v) + (c \div Words)].words[(c % Words) + 1] % Mod28
ChainAt(v, c, k) == LET f[i \in 0 .. k] == IF i = 0 THEN c ELSE FatEntry(v, f[i - 1]) IN f[k]

\* The j-th word of a file.
FileWord(v, e, j) ==
    LET c == ChainAt(v, e.clus, j \div (Words * v.secPerClus))
        lba == v.dataAt + (c - 2) * v.secPerClus + ((j \div Words) % v.secPerClus)
    IN  v.sectors[lba].words[(j % Words) + 1]

Contents(v, e, n) == [j \in 1 .. Lesser(n, e.size) |-> FileWord(v, e, j - 1)]

\* The entry with a name in the first sector of a directory, up to its end.
EntryIn(v, dir, name) ==
    LET es == FirstEntries(v, dir)
        i == SelectInSeq(es, LAMBDA e :
                 e.kind = "end" \/ (e.kind \in {"file", "dir"} /\ e.name = name))
    IN  IF i = 0 THEN NoEnt ELSE es[i]

Root(v) == [name |-> "root", kind |-> "dir", clus |-> v.root, size |-> 0]

\* The entries on the way along a path, and the one that it names.
Resolved(v, path) ==
    LET f[i \in 0 .. Len(path.parts)] ==
            IF i = 0 THEN Root(v)
            ELSE IF f[i - 1].kind # "dir" \/ f[i - 1].clus < 2 THEN NoEnt
            ELSE EntryIn(v, f[i - 1].clus, ShortName[path.parts[i]])
    IN  f

Named(v, path) ==
    LET e == Resolved(v, path)[Len(path.parts)]
    IN  IF path.slash /\ e.kind # "dir" THEN NoEnt ELSE e

-----------------------------------------------------------------------------
(* Properties.                                                             *)

TypeOK ==
    /\ vol \in Volumes
    /\ pc \in {"unmounted", "panic", "idle", "refused", "lookup", "scan", "next", "found",
               "open", "copy", "follow"}
    /\ heap \in 0 .. HeapBuffers
    /\ toRead \in Nat /\ cl \in Nat
    /\ depth \in 0 .. Len(call.path.parts)
    /\ pc \in {"copy", "follow"} => Len(copied) + toRead <= ent.size
    /\ ret.err \in {"none", "path", "heap", "device", "range"}

Healthy == ret.call.op = "read" /\ ret.err \notin {"device", "heap"}

\* A file that fits in one sector, and whose cluster number is below a quarter
\* of the disk, is read whole: read_file delivers its words, up to max_bytes.
SmallFilesRight ==
    LET e == Named(vol, ret.call.path)
    IN  (Healthy /\ e.kind = "file" /\ e.size <= Words /\ OnDisk(FatLba(e.clus)))
            => ret.err = "none" /\ ret.data = Contents(vol, e, ret.call.max)

\* read_file never writes more than max_bytes, nor more than the size, into
\* the caller's buffer, however long the chain.
NeverTooMuch ==
    pc \in {"copy", "follow"} => Len(copied) <= call.max /\ Len(copied) <= ent.size

\* get_file_size answers the size of the file the path names, where one is
\* named in the first sectors.
SizeRight ==
    LET e == Named(vol, ret.call.path)
    IN  (ret.call.op = "size" /\ ret.err \notin {"device", "heap"} /\ e.kind = "file")
            => ret.err = "none" /\ ret.size = e.size

\* Together: what the calls answer and write, where the code is right.
AnswersRight == TypeOK /\ SmallFilesRight /\ NeverTooMuch /\ SizeRight

\* Every call returns when each directory ends in its first sector; where one
\* does not, the wrong FAT sector may lead find_in_directory round in circles.
Returns == (pc \notin {"unmounted", "panic", "idle"} /\ vol.ended) ~> (pc = "idle")

\* Fat32.h: "Read whole file by absolute path".
WholeFile ==
    LET e == Named(vol, ret.call.path)
    IN  (Healthy /\ e.kind = "file")
            => ret.err = "none" /\ ret.data = Contents(vol, e, ret.call.max)
=============================================================================
