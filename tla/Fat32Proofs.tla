----------------------------- MODULE Fat32Proofs -----------------------------
(* Proofs about Fat32, for every set of formatted volumes, of paths and of *)
(* contents of the heap.                                                   *)
EXTENDS Fat32, SequenceTheorems, WellFoundedInduction, TLAPS

-----------------------------------------------------------------------------
(* The inductive invariant.                                                *)

Calls == [op : {"none", "size", "read"}, path : Path, max : Nat]
Errors == {"none", "path", "heap", "device", "range"}
Answers == [call : Calls, err : Errors, size : Nat, data : Seq(Nat)]

Geometry(v) ==
    [spc |-> v.secPerClus, fatBegin |-> FatBegin(v), dataBegin |-> DataBegin(v), root |-> v.root]

InCall == {"refused", "lookup", "scan", "next", "found", "open", "copy", "follow"}

Types ==
    /\ vol \in Volumes
    /\ pc \in {"unmounted", "panic", "idle"} \cup InCall
    /\ call \in Calls /\ ret \in Answers
    /\ ent \in Entry
    /\ heap \in 0 .. HeapBuffers
    /\ toRead \in Nat /\ cl \in Nat /\ depth \in Nat
    /\ copied \in Seq(Nat)

\* mount has filled in the geometry before the first call.
Mounted == pc \in {"idle"} \cup InCall => vol.sig /\ geo = Geometry(vol)

Buffered == pc \in {"scan", "next", "copy", "follow"} => buf \in [1 .. geo.spc -> SectorData]

\* walk_path has components left while it searches.
Walking ==
    /\ depth <= Len(call.path.parts)
    /\ pc \in {"lookup", "scan", "next"} => depth < Len(call.path.parts)

\* read_file: what is copied and what is left to read make up the request.
Reading ==
    /\ pc \in InCall \ {"copy", "follow"} => copied = <<>>
    /\ pc \in {"open", "copy", "follow"} =>
        /\ call.op = "read"
        /\ Len(copied) + toRead = Lesser(call.max, ent.size)

\* The file of the path, once it is found, is the one the volume names.
Target == Named(vol, call.path)

\* The search for a file that is there is always in the directory it should be in.
Searching ==
    Target.kind = "file" =>
        /\ pc \notin {"refused", "next"}
        /\ pc \in {"lookup", "scan"} => cl = Resolved(vol, call.path)[depth].clus
        /\ pc \in {"found", "open", "copy", "follow"} => ent = Target
        /\ pc = "open" => cl = ent.clus

\* A small file is copied in one piece, from its first cluster.
Small(v, e) == e.kind = "file" /\ e.size <= Words /\ FatLba(e.clus) \in DOMAIN v.sectors

Copying ==
    (pc \in {"copy", "follow"} /\ Small(vol, Target)) =>
        \/ pc = "copy" /\ copied = <<>> /\ cl = ent.clus
        \/ /\ toRead = 0 /\ copied = Contents(vol, Target, call.max)
           /\ pc = "follow" => cl = ent.clus

IInv ==
    /\ Types /\ Mounted /\ Buffered /\ Walking /\ Reading /\ Searching /\ Copying
    /\ SmallFilesRight /\ SizeRight

-----------------------------------------------------------------------------
(* Numbers.                                                                *)

\* A set with 0 and with the successor of each of its numbers has them all.
LEMMA Induct ==
    ASSUME NEW S, 0 \in S, \A n \in Nat : n \in S => n + 1 \in S
    PROVE  \A n \in Nat : n \in S
<1> SUFFICES ASSUME NEW k \in Nat, k \notin S PROVE FALSE
  OBVIOUS
<1> DEFINE R == OpToRel(<, Nat)
           T == {n \in Nat : n \notin S}
<1>1. IsWellFoundedOn(R, Nat)
  BY NatLessThanWellFounded, Zenon
<1>2. \A i, j \in Nat : i < j => <<i, j>> \in R
  BY DEF OpToRel
<1> HIDE DEF R
<1>3. PICK n \in T : \A m \in T : ~ (<<m, n>> \in R)
  BY <1>1, WFMin
<1>4. n \in Nat /\ n # 0 /\ n - 1 \in Nat /\ n - 1 < n /\ (n - 1) + 1 = n
  OBVIOUS
<1>5. n - 1 \in S
  BY <1>2, <1>3, <1>4
<1>6. QED BY <1>4, <1>5

\* A set of numbers that is not empty has a least member.
LEMMA Least ==
    ASSUME NEW S, S \subseteq Nat, S # {}
    PROVE  Min(S) \in S /\ \A t \in S : Min(S) <= t
<1> DEFINE R == OpToRel(<, Nat)
<1>1. IsWellFoundedOn(R, Nat)
  BY NatLessThanWellFounded, Zenon
<1>2. \A i, j \in Nat : i < j => <<i, j>> \in R
  BY DEF OpToRel
<1> HIDE DEF R
<1>3. PICK x \in S : \A m \in S : ~ (<<m, x>> \in R)
  BY <1>1, WFMin
<1>4. x \in Nat /\ \A m \in S : m \in Nat /\ ~(m < x)
  BY <1>2, <1>3
<1>5. \A m \in S : x <= m
  BY <1>4
<1>6. QED BY <1>3, <1>5 DEF Min

LEMMA LesserIs ==
    ASSUME NEW a \in Nat, NEW b \in Nat
    PROVE  /\ Lesser(a, b) \in Nat /\ Lesser(a, b) <= a /\ Lesser(a, b) <= b
           /\ Lesser(a, b) = a \/ Lesser(a, b) = b
BY DEF Lesser

\* The place in a sector that read_fat takes its word from is inside it.
LEMMA FatIndex ==
    ASSUME NEW c \in Nat
    PROVE  ((c * 4) % (Words * 4)) \div 4 + 1 \in 1 .. Words
<1>1. PICK w : w = Words * 4
  OBVIOUS
<1>2. w \in Nat /\ w > 0 /\ c * 4 \in Nat /\ Words \in Nat
  BY <1>1, FatAssumption
<1>3. PICK r : r = (c * 4) % w
  OBVIOUS
<1>4. r \in Nat /\ r < w
  BY <1>2, <1>3, Z3
<1>5. r \div 4 \in Nat /\ r \div 4 < Words
  BY <1>1, <1>2, <1>4
<1>6. QED BY <1>1, <1>2, <1>3, <1>5

-----------------------------------------------------------------------------
(* The cluster buffer: its sectors, one after the other.                   *)

FlatStep(s, g, i) == IF i = 1 THEN s[i] ELSE g[i - 1] \o s[i]
IsFlat(s, g, n) == g = [i \in 1 .. n |-> FlatStep(s, g, i)]

\* The definition of FlattenSeq has a solution.
LEMMA FlatExists ==
    ASSUME NEW s, NEW N \in Nat
    PROVE  \E g : IsFlat(s, g, N)
<1> DEFINE T == {k \in Nat : \E g : IsFlat(s, g, k)}
<1>1. 0 \in T
  <2> DEFINE g == [i \in 1 .. 0 |-> s[i]]
  <2>1. g = [i \in 1 .. 0 |-> FlatStep(s, g, i)]
    OBVIOUS
  <2>2. IsFlat(s, g, 0)
    BY <2>1 DEF IsFlat
  <2>3. QED BY <2>2
<1>2. ASSUME NEW k \in Nat, k \in T PROVE k + 1 \in T
  <2>1. PICK g : IsFlat(s, g, k)
    BY <1>2
  <2> DEFINE e == [i \in 1 .. k + 1 |-> IF i = k + 1 THEN FlatStep(s, g, k + 1) ELSE g[i]]
  <2>2. \A i \in 1 .. k : e[i] = g[i]
    BY <1>2
  <2>3. \A i \in 1 .. k : g[i] = FlatStep(s, g, i)
    BY <2>1 DEF IsFlat
  <2>4. ASSUME NEW i \in 1 .. k + 1 PROVE e[i] = FlatStep(s, e, i)
    <3>1. e[i] = IF i = k + 1 THEN FlatStep(s, g, k + 1) ELSE g[i]
      OBVIOUS
    <3> HIDE DEF e
    <3>2. i = 1 \/ (i - 1 \in 1 .. k /\ i # 1)
      BY <1>2
    <3>3. FlatStep(s, e, i) = FlatStep(s, g, i)
      BY <2>2, <3>2 DEF FlatStep
    <3>4. i = k + 1 \/ i \in 1 .. k
      BY <1>2
    <3>5. QED BY <2>3, <3>1, <3>3, <3>4
  <2>5. IsFlat(s, e, k + 1)
    <3>1. e = [i \in 1 .. k + 1 |-> e[i]]
      OBVIOUS
    <3> HIDE DEF e
    <3>2. QED BY <2>4, <3>1 DEF IsFlat
  <2>6. QED BY <2>5
<1> HIDE DEF T
<1>3. N \in T
  BY <1>1, <1>2, Induct
<1>4. QED BY <1>3 DEF T

\* Flattening: the first sequence is where the result starts, and the lengths
\* add up.
LEMMA FlattenIs ==
    ASSUME NEW S, NEW s \in Seq(Seq(S)), Len(s) >= 1
    PROVE  /\ FlattenSeq(s) \in Seq(S)
           /\ Len(FlattenSeq(s)) >= Len(s[1])
           /\ \A j \in 1 .. Len(s[1]) : FlattenSeq(s)[j] = s[1][j]
           /\ \A w \in Nat : (\A i \in 1 .. Len(s) : Len(s[i]) = w)
                                => Len(FlattenSeq(s)) = w * Len(s)
<1>1. PICK n : n = Len(s)
  OBVIOUS
<1>2. n \in Nat /\ n >= 1 /\ \A i \in 1 .. n : s[i] \in Seq(S)
  BY <1>1
<1>3. PICK f : f = CHOOSE g : g = [i \in 1 .. n |-> IF i = 1 THEN s[i] ELSE g[i - 1] \o s[i]]
  OBVIOUS
<1>4. FlattenSeq(s) = f[n]
  BY <1>1, <1>2, <1>3 DEF FlattenSeq
<1>5. \E g : g = [i \in 1 .. n |-> IF i = 1 THEN s[i] ELSE g[i - 1] \o s[i]]
  BY <1>2, FlatExists DEF IsFlat, FlatStep
<1>6. f = [i \in 1 .. n |-> IF i = 1 THEN s[i] ELSE f[i - 1] \o s[i]]
  BY <1>3, <1>5
<1>7. f[1] = s[1] /\ \A i \in 1 .. n - 1 : f[i + 1] = f[i] \o s[i + 1]
  <2>1. \A i \in 1 .. n : f[i] = IF i = 1 THEN s[i] ELSE f[i - 1] \o s[i]
    BY <1>6
  <2>2. \A i \in 1 .. n - 1 : i + 1 \in 1 .. n /\ i + 1 # 1 /\ (i + 1) - 1 = i
    BY <1>2
  <2>3. ASSUME NEW i \in 1 .. n - 1 PROVE f[i + 1] = f[i] \o s[i + 1]
    <3>1. f[i + 1] = f[(i + 1) - 1] \o s[i + 1]
      BY <2>1, <2>2
    <3>2. QED BY <2>2, <3>1
  <2>4. 1 \in 1 .. n
    BY <1>2
  <2>5. QED BY <2>1, <2>3, <2>4
<1> DEFINE Good(i) ==
        /\ f[i] \in Seq(S) /\ Len(f[i]) >= Len(s[1])
        /\ \A j \in 1 .. Len(s[1]) : f[i][j] = s[1][j]
        /\ \A w \in Nat : (\A k \in 1 .. n : Len(s[k]) = w) => Len(f[i]) = w * i
    T == {k \in Nat : k + 1 <= n => Good(k + 1)}
<1>8. 0 \in T
  <2>1. Good(1)
    BY <1>2, <1>7
  <2>2. QED BY <2>1
<1>9. ASSUME NEW k \in Nat, k \in T PROVE k + 1 \in T
  <2>0. (k + 1) + 1 = k + 2
    OBVIOUS
  <2> SUFFICES ASSUME k + 2 <= n PROVE Good(k + 2)
    <3> HIDE DEF Good
    <3>1. QED BY <2>0
  <2>1. k + 1 \in 1 .. n - 1 /\ k + 2 \in 1 .. n /\ (k + 1) + 1 = k + 2
    BY <1>2
  <2>2. f[k + 2] = f[k + 1] \o s[k + 2]
    BY <1>7, <2>1
  <2>3. PICK g, h : g = f[k + 1] /\ h = s[k + 2]
    OBVIOUS
  <2>4. g \in Seq(S) /\ h \in Seq(S) /\ Len(g) >= Len(s[1])
        /\ \A j \in 1 .. Len(s[1]) : g[j] = s[1][j]
    BY <1>2, <1>9, <2>1, <2>3
  <2>5. g \o h \in Seq(S) /\ Len(g \o h) = Len(g) + Len(h)
        /\ \A j \in 1 .. Len(g) : (g \o h)[j] = g[j]
    BY <2>4
  <2>6. s[1] \in Seq(S) /\ Len(s[1]) \in Nat /\ Len(g) \in Nat /\ Len(h) \in Nat
    BY <1>2, <2>4
  <2>7. Len(g \o h) >= Len(s[1])
    BY <2>4, <2>5, <2>6
  <2>8. \A j \in 1 .. Len(s[1]) : (g \o h)[j] = s[1][j]
    BY <2>4, <2>5, <2>6
  <2>9. ASSUME NEW w \in Nat, \A i \in 1 .. n : Len(s[i]) = w
        PROVE  Len(g \o h) = w * (k + 2)
    <3>1. Len(g) = w * (k + 1) /\ Len(h) = w
      <4>1. Good(k + 1)
        <5> HIDE DEF Good
        <5>1. QED BY <1>2, <1>9, <2>1
      <4>2. QED BY <2>1, <2>3, <2>9, <4>1
    <3>2. w * (k + 1) + w = w * (k + 2)
      BY Z3
    <3>3. QED BY <2>5, <3>1, <3>2
  <2>10. QED BY <2>2, <2>3, <2>5, <2>7, <2>8, <2>9
<1> HIDE DEF T
<1>10. n - 1 \in T
  <2>1. n - 1 \in Nat
    BY <1>2
  <2>2. \A i \in Nat : i \in T
    BY <1>8, <1>9, Induct
  <2>3. QED BY <2>1, <2>2
<1>11. Good(n)
  <2>1. (n - 1) + 1 = n /\ n - 1 \in Nat
    BY <1>2
  <2>2. n - 1 + 1 <= n => Good(n - 1 + 1)
    BY <1>10 DEF T
  <2>3. QED BY <1>2, <2>1, <2>2
<1>12. QED BY <1>1, <1>4, <1>11

\* The entries and the words of a buffer of n sectors.
LEMMA BufferIs ==
    ASSUME NEW n \in Nat \ {0}, NEW b \in [1 .. n -> SectorData]
    PROVE  LET E == FlattenSeq([i \in DOMAIN b |-> b[i].ents])
               W == FlattenSeq([i \in DOMAIN b |-> b[i].words])
           IN  /\ E \in Seq(Entry) /\ Len(E) >= Len(b[1].ents)
               /\ \A j \in 1 .. Len(b[1].ents) : E[j] = b[1].ents[j]
               /\ W \in Seq(Nat) /\ Len(W) = Words * n
               /\ \A j \in 1 .. Words : W[j] = b[1].words[j]
<1> DEFINE se == [i \in DOMAIN b |-> b[i].ents]
           sw == [i \in DOMAIN b |-> b[i].words]
<1>0. Words \in Nat
  BY FatAssumption
<1>1. \A i \in 1 .. n : b[i].ents \in Seq(Entry) /\ b[i].words \in [1 .. Words -> Nat]
  BY DEF SectorData
<1>2. \A i \in 1 .. n : b[i].words \in Seq(Nat) /\ Len(b[i].words) = Words
  <2>1. \A w \in [1 .. Words -> Nat] : w \in Seq(Nat) /\ Len(w) = Words
    BY <1>0
  <2>2. QED BY <1>1, <2>1
<1>3. se \in Seq(Seq(Entry)) /\ Len(se) = n /\ se[1] = b[1].ents
  BY <1>1
<1>4. sw \in Seq(Seq(Nat)) /\ Len(sw) = n /\ sw[1] = b[1].words
      /\ \A i \in 1 .. Len(sw) : Len(sw[i]) = Words
  BY <1>2
<1> HIDE DEF se, sw
<1>5. /\ FlattenSeq(se) \in Seq(Entry) /\ Len(FlattenSeq(se)) >= Len(b[1].ents)
      /\ \A j \in 1 .. Len(b[1].ents) : FlattenSeq(se)[j] = b[1].ents[j]
  BY <1>3, FlattenIs
<1>6. /\ FlattenSeq(sw) \in Seq(Nat) /\ Len(FlattenSeq(sw)) = Words * n
      /\ \A j \in 1 .. Len(b[1].words) : FlattenSeq(sw)[j] = b[1].words[j]
  <2>1. Len(sw) >= 1
    BY <1>4
  <2>2. Len(sw[1]) = Words /\ 1 \in 1 .. Len(sw)
    BY <1>4, <2>1
  <2>3. /\ FlattenSeq(sw) \in Seq(Nat)
        /\ \A j \in 1 .. Len(sw[1]) : FlattenSeq(sw)[j] = sw[1][j]
        /\ \A w \in Nat : (\A i \in 1 .. Len(sw) : Len(sw[i]) = w)
                                => Len(FlattenSeq(sw)) = w * Len(sw)
    BY <1>4, <2>1, FlattenIs
  <2>4. QED BY <1>0, <1>4, <2>3
<1>7. Len(b[1].words) = Words
  BY <1>2
<1>8. QED BY <1>5, <1>6, <1>7 DEF se, sw

\* Where find_in_directory stops in a sequence of entries.
StopSet(es, want) == {i \in 1 .. Len(es) : Stops(es[i], want)}
FirstStop(es, want) == IF StopSet(es, want) # {} THEN Min(StopSet(es, want)) ELSE 0

LEMMA FirstStopIs ==
    ASSUME NEW es \in Seq(Entry), NEW want
    PROVE  /\ FirstStop(es, want) \in 0 .. Len(es)
           /\ FirstStop(es, want) > 0 =>
                /\ Stops(es[FirstStop(es, want)], want)
                /\ \A j \in 1 .. FirstStop(es, want) - 1 : ~ Stops(es[j], want)
           /\ FirstStop(es, want) = 0 => \A j \in 1 .. Len(es) : ~ Stops(es[j], want)
<1> DEFINE I == StopSet(es, want)
<1>1. I \subseteq 1 .. Len(es) /\ I \subseteq Nat /\ Len(es) \in Nat
  BY DEF StopSet
<1>2. CASE I = {}
  BY <1>1, <1>2 DEF FirstStop, StopSet
<1>3. CASE I # {}
  <2>1. Min(I) \in I /\ \A t \in I : Min(I) <= t
    BY <1>1, <1>3, Least
  <2>2. FirstStop(es, want) = Min(I)
    BY <1>3 DEF FirstStop
  <2>3. PICK m : m = Min(I)
    OBVIOUS
  <2>4. m \in 1 .. Len(es) /\ Stops(es[m], want)
    BY <2>1, <2>3 DEF StopSet
  <2>5. ASSUME NEW j \in 1 .. m - 1 PROVE ~ Stops(es[j], want)
    <3>1. j \in 1 .. Len(es) /\ j < m
      BY <1>1, <2>4
    <3>2. j \notin I
      BY <1>1, <2>1, <2>3, <2>4, <3>1
    <3>3. QED BY <3>1, <3>2 DEF StopSet
  <2>6. QED BY <1>1, <2>2, <2>3, <2>4, <2>5
<1>4. QED BY <1>2, <1>3

\* A sequence that starts like another stops where that one does.
LEMMA FirstStopInPrefix ==
    ASSUME NEW es \in Seq(Entry), NEW fs \in Seq(Entry), NEW want,
           Len(fs) >= Len(es), \A j \in 1 .. Len(es) : fs[j] = es[j],
           FirstStop(es, want) > 0
    PROVE  FirstStop(fs, want) = FirstStop(es, want)
<1>1. PICK i, k : i = FirstStop(es, want) /\ k = FirstStop(fs, want)
  OBVIOUS
<1>2. /\ i \in 1 .. Len(es) /\ Stops(es[i], want)
      /\ \A j \in 1 .. i - 1 : ~ Stops(es[j], want)
  BY <1>1, FirstStopIs
<1>3. /\ k \in 0 .. Len(fs)
      /\ k > 0 => Stops(fs[k], want)
      /\ k > 0 => \A j \in 1 .. k - 1 : ~ Stops(fs[j], want)
      /\ k = 0 => \A j \in 1 .. Len(fs) : ~ Stops(fs[j], want)
  BY <1>1, FirstStopIs
<1>4. Stops(fs[i], want) /\ i \in 1 .. Len(fs)
  BY <1>2
<1>0. Len(es) \in Nat /\ Len(fs) \in Nat
  OBVIOUS
<1>5. k > 0 /\ k <= i
  <2>1. k \in Nat /\ i \in Nat /\ k # 0
    BY <1>0, <1>2, <1>3, <1>4
  <2>2. ~ (i \in 1 .. k - 1)
    BY <1>3, <1>4, <2>1
  <2>3. QED BY <1>0, <1>2, <2>1, <2>2
<1>6. ~ (k < i)
  <2> SUFFICES ASSUME k < i PROVE FALSE
    OBVIOUS
  <2>1. k \in 1 .. i - 1 /\ k \in 1 .. Len(es)
    BY <1>0, <1>2, <1>3, <1>5
  <2>2. fs[k] = es[k]
    BY <2>1
  <2>3. QED BY <1>2, <1>3, <1>5, <2>1, <2>2
<1>7. QED BY <1>1, <1>2, <1>3, <1>5, <1>6

-----------------------------------------------------------------------------
(* What a formatted volume says of a path.                                 *)

LEMMA VolumeIs ==
    ASSUME NEW v \in Volumes, v.sig
    PROVE  /\ v.secPerClus \in Nat \ {0} /\ v.dataAt = DataBegin(v) /\ v.dataAt \in Nat
           /\ v.root \in v.dirs
           /\ \A c \in v.dirs : StartsOnDisk(v, c) /\ FirstEntries(v, c) \in Seq(Entry)
           /\ \A l \in DOMAIN v.sectors : v.sectors[l] \in SectorData
<1>1. Formatted(v) /\ \A l \in DOMAIN v.sectors : v.sectors[l] \in SectorData
  BY VolumesAssumption
<1>2. v.dataAt \in Nat
  BY <1>1 DEF Formatted, DataBegin, FatBegin
<1>3. ASSUME NEW c \in v.dirs PROVE StartsOnDisk(v, c) /\ FirstEntries(v, c) \in Seq(Entry)
  <2>1. StartsOnDisk(v, c)
    BY <1>1 DEF Formatted
  <2>2. QED BY <1>1, <2>1 DEF StartsOnDisk, FirstEntries, SectorData
<1>4. QED BY <1>1, <1>2, <1>3 DEF Formatted

\* The entry with a name in a directory is where find_in_directory stops.
LEMMA EntryInIs ==
    ASSUME NEW v \in Volumes, v.sig, NEW d \in v.dirs, NEW name
    PROVE  LET e == EntryIn(v, d, name)
               i == FirstStop(FirstEntries(v, d), name)
           IN  /\ e \in Entry
               /\ e.kind # "end" =>
                    /\ i \in 1 .. Len(FirstEntries(v, d)) /\ e = FirstEntries(v, d)[i]
                    /\ e.kind \in {"file", "dir"}
               /\ (e.kind = "dir" /\ e.clus >= 2) => e.clus \in v.dirs
               /\ (e.kind = "file" /\ e.size > 0) => StartsOnDisk(v, e.clus)
<1> DEFINE es == FirstEntries(v, d)
           i == FirstStop(es, name)
           e == EntryIn(v, d, name)
<1>1. es \in Seq(Entry)
  BY VolumeIs
<1>2. \A x \in Entry : Stops(x, name)
            <=> (x.kind = "end" \/ (x.kind \in {"file", "dir"} /\ x.name = name))
  BY DEF Stops, Skipped, Entry, Kinds
<1>3. \A j \in 1 .. Len(es) : es[j] \in Entry
  BY <1>1
<1>4. {j \in 1 .. Len(es) :
          es[j].kind = "end" \/ (es[j].kind \in {"file", "dir"} /\ es[j].name = name)}
      = StopSet(es, name)
  BY <1>2, <1>3 DEF StopSet
<1>5. e = IF i = 0 THEN NoEnt ELSE es[i]
  <2> HIDE DEF es
  <2>1. SelectInSeq(es, LAMBDA x :
            x.kind = "end" \/ (x.kind \in {"file", "dir"} /\ x.name = name))
        = i
    BY <1>4 DEF SelectInSeq, FirstStop
  <2>2. QED BY <2>1 DEF EntryIn, es
<1>6. /\ i \in 0 .. Len(es)
      /\ i > 0 => Stops(es[i], name) /\ \A j \in 1 .. i - 1 : ~ Stops(es[j], name)
  BY <1>1, FirstStopIs
<1>7. NoEnt \in Entry /\ NoEnt.kind = "end"
  BY DEF NoEnt, Entry, Kinds
<1> HIDE DEF i, es, e
<1>8. e \in Entry
  BY <1>3, <1>5, <1>6, <1>7
<1>9. ASSUME e.kind # "end"
      PROVE  /\ i \in 1 .. Len(es) /\ e = es[i] /\ e.kind \in {"file", "dir"}
             /\ \A j \in 1 .. i : es[j].kind # "end"
  <2>1. i # 0 /\ e = es[i]
    BY <1>5, <1>7, <1>9
  <2>2. i \in 1 .. Len(es) /\ i > 0
    BY <1>1, <1>6, <2>1
  <2>3. e.kind \in {"file", "dir"}
    BY <1>2, <1>6, <1>8, <1>9, <2>1, <2>2
  <2>4. ASSUME NEW j \in 1 .. i PROVE es[j].kind # "end"
    <3>1. j = i \/ j \in 1 .. i - 1
      BY <2>2
    <3>2. \A x : x.kind = "end" => Stops(x, name)
      BY DEF Stops
    <3>3. QED BY <1>6, <1>9, <2>1, <2>2, <3>1, <3>2
  <2>5. QED BY <2>1, <2>2, <2>3, <2>4
<1>10. ASSUME e.kind # "end"
       PROVE  /\ (e.kind = "dir" /\ e.clus >= 2) => e.clus \in v.dirs
              /\ (e.kind = "file" /\ e.size > 0) => StartsOnDisk(v, e.clus)
  <2>1. i \in DOMAIN es /\ e = es[i] /\ \A j \in 1 .. i : es[j].kind # "end"
    BY <1>1, <1>9, <1>10
  <2>2. Formatted(v)
    BY VolumesAssumption
  <2>3. \A k \in DOMAIN FirstEntries(v, d) :
            (\A j \in 1 .. k : FirstEntries(v, d)[j].kind # "end") =>
                /\ (FirstEntries(v, d)[k].kind = "dir" /\ FirstEntries(v, d)[k].clus >= 2)
                        => FirstEntries(v, d)[k].clus \in v.dirs
                /\ (FirstEntries(v, d)[k].kind = "file" /\ FirstEntries(v, d)[k].size > 0)
                        => StartsOnDisk(v, FirstEntries(v, d)[k].clus)
    BY <2>2, Zenon DEF Formatted
  <2>4. QED BY <2>1, <2>3 DEF es
<1>11. QED BY <1>8, <1>9, <1>10 DEF e, i, es

WayStep(v, path, g, i) ==
    IF i = 0 THEN Root(v)
    ELSE IF g[i - 1].kind # "dir" \/ g[i - 1].clus < 2 THEN NoEnt
    ELSE EntryIn(v, g[i - 1].clus, ShortName[path.parts[i]])
IsWay(v, path, g, n) == g = [i \in 0 .. n |-> WayStep(v, path, g, i)]

\* The definition of Resolved has a solution.
LEMMA WayExists ==
    ASSUME NEW v, NEW path, NEW N \in Nat
    PROVE  \E g : IsWay(v, path, g, N)
<1> DEFINE T == {k \in Nat : \E g : IsWay(v, path, g, k)}
<1>1. 0 \in T
  <2> DEFINE g == [i \in 0 .. 0 |-> Root(v)]
  <2>1. g = [i \in 0 .. 0 |-> WayStep(v, path, g, i)]
    BY DEF WayStep
  <2>2. IsWay(v, path, g, 0)
    BY <2>1 DEF IsWay
  <2>3. QED BY <2>2
<1>2. ASSUME NEW k \in Nat, k \in T PROVE k + 1 \in T
  <2>1. PICK g : IsWay(v, path, g, k)
    BY <1>2
  <2> DEFINE e == [i \in 0 .. k + 1 |-> IF i = k + 1 THEN WayStep(v, path, g, k + 1) ELSE g[i]]
  <2>2. \A i \in 0 .. k : e[i] = g[i]
    BY <1>2
  <2>3. \A i \in 0 .. k : g[i] = WayStep(v, path, g, i)
    BY <2>1 DEF IsWay
  <2>4. ASSUME NEW i \in 0 .. k + 1 PROVE e[i] = WayStep(v, path, e, i)
    <3>1. e[i] = IF i = k + 1 THEN WayStep(v, path, g, k + 1) ELSE g[i]
      OBVIOUS
    <3> HIDE DEF e
    <3>2. i = 0 \/ (i - 1 \in 0 .. k /\ i # 0)
      BY <1>2
    <3>3. WayStep(v, path, e, i) = WayStep(v, path, g, i)
      BY <2>2, <3>2 DEF WayStep
    <3>4. i = k + 1 \/ i \in 0 .. k
      BY <1>2
    <3>5. QED BY <2>3, <3>1, <3>3, <3>4
  <2>5. IsWay(v, path, e, k + 1)
    <3>1. e = [i \in 0 .. k + 1 |-> e[i]]
      OBVIOUS
    <3> HIDE DEF e
    <3>2. QED BY <2>4, <3>1 DEF IsWay
  <2>6. QED BY <2>5
<1> HIDE DEF T
<1>3. N \in T
  BY <1>1, <1>2, Induct
<1>4. QED BY <1>3 DEF T

\* What Resolved computes.
LEMMA ResolvedIs ==
    ASSUME NEW v, NEW path \in Path
    PROVE  /\ Len(path.parts) \in Nat
           /\ \A i \in 0 .. Len(path.parts) :
                Resolved(v, path)[i] = WayStep(v, path, Resolved(v, path), i)
<1>1. PICK n : n = Len(path.parts)
  OBVIOUS
<1>2. n \in Nat
  BY <1>1 DEF Path
<1>3. Resolved(v, path) = CHOOSE g : g = [i \in 0 .. n |->
            IF i = 0 THEN Root(v)
            ELSE IF g[i - 1].kind # "dir" \/ g[i - 1].clus < 2 THEN NoEnt
            ELSE EntryIn(v, g[i - 1].clus, ShortName[path.parts[i]])]
  BY <1>1 DEF Resolved
<1>4. \E g : g = [i \in 0 .. n |->
            IF i = 0 THEN Root(v)
            ELSE IF g[i - 1].kind # "dir" \/ g[i - 1].clus < 2 THEN NoEnt
            ELSE EntryIn(v, g[i - 1].clus, ShortName[path.parts[i]])]
  <2>1. PICK g : IsWay(v, path, g, n)
    BY <1>2, WayExists
  <2>2. g = [i \in 0 .. n |->
            IF i = 0 THEN Root(v)
            ELSE IF g[i - 1].kind # "dir" \/ g[i - 1].clus < 2 THEN NoEnt
            ELSE EntryIn(v, g[i - 1].clus, ShortName[path.parts[i]])]
    BY <2>1 DEF IsWay, WayStep
  <2>3. QED BY <2>2
<1>5. PICK R : R = Resolved(v, path)
  OBVIOUS
<1>6. R = [i \in 0 .. n |->
            IF i = 0 THEN Root(v)
            ELSE IF R[i - 1].kind # "dir" \/ R[i - 1].clus < 2 THEN NoEnt
            ELSE EntryIn(v, R[i - 1].clus, ShortName[path.parts[i]])]
  BY <1>3, <1>4, <1>5
<1>7. \A i \in 0 .. n : R[i] = WayStep(v, path, R, i)
  BY <1>6 DEF WayStep
<1>8. QED BY <1>1, <1>2, <1>5, <1>7

\* On the way to a file every component but the last names a directory; each is
\* looked for in the one before it.
LEMMA WayToFile ==
    ASSUME NEW v \in Volumes, v.sig, NEW path \in Path, Named(v, path).kind = "file"
    PROVE  LET n == Len(path.parts)
               R == Resolved(v, path)
           IN  /\ n \in Nat \ {0} /\ ~ path.slash /\ Named(v, path) = R[n]
               /\ R[0].clus = v.root
               /\ \A i \in 0 .. n - 1 :
                    /\ R[i].kind = "dir" /\ R[i].clus \in v.dirs
                    /\ R[i + 1] = EntryIn(v, R[i].clus, ShortName[path.parts[i + 1]])
                    /\ R[i + 1].kind \in {"file", "dir"}
<1>1. PICK n, R : n = Len(path.parts) /\ R = Resolved(v, path)
  OBVIOUS
<1>2. n \in Nat /\ \A i \in 0 .. n : R[i] = WayStep(v, path, R, i)
  BY <1>1, ResolvedIs
<1>3. NoEnt.kind = "end" /\ Root(v).kind = "dir" /\ Root(v).clus = v.root
  BY DEF NoEnt, Root
<1>4. ~ path.slash /\ Named(v, path) = R[n] /\ R[n].kind = "file"
  BY <1>1, <1>3 DEF Named
<1>5. R[0] = Root(v)
  BY <1>2 DEF WayStep
<1>6. n # 0
  BY <1>3, <1>4, <1>5
<1>7. ASSUME NEW i \in 0 .. n - 1
      PROVE  R[i + 1] = IF R[i].kind # "dir" \/ R[i].clus < 2 THEN NoEnt
                        ELSE EntryIn(v, R[i].clus, ShortName[path.parts[i + 1]])
  <2>1. i + 1 \in 0 .. n /\ (i + 1) - 1 = i /\ i + 1 # 0
    BY <1>2
  <2>2. R[i + 1] = WayStep(v, path, R, i + 1)
    BY <1>2, <2>1
  <2>3. QED BY <2>1, <2>2 DEF WayStep
\* Were one of them no directory, so would be all that follow it.
<1>8. \A i \in 0 .. n - 1 : R[i].kind = "dir" /\ ~ (R[i].clus < 2)
  <2> SUFFICES ASSUME NEW b \in 0 .. n - 1, ~ (R[b].kind = "dir" /\ ~ (R[b].clus < 2))
               PROVE  FALSE
    OBVIOUS
  <2> DEFINE Bad(i) == ~ (R[i].kind = "dir" /\ ~ (R[i].clus < 2))
             T == {k \in Nat : b + k <= n - 1 => Bad(b + k)}
  <2>1. 0 \in T
    BY <1>2
  <2>2. ASSUME NEW k \in Nat, k \in T PROVE k + 1 \in T
    <3> SUFFICES ASSUME b + (k + 1) <= n - 1 PROVE Bad(b + (k + 1))
      OBVIOUS
    <3>1. b + k \in 0 .. n - 1 /\ (b + k) + 1 = b + (k + 1)
      BY <1>2
    <3>2. Bad(b + k)
      BY <1>2, <2>2, <3>1
    <3>3. R[b + (k + 1)] = NoEnt
      BY <1>7, <3>1, <3>2
    <3>4. QED BY <1>3, <3>3
  <2> HIDE DEF T
  <2>3. \A k \in Nat : k \in T
    BY <2>1, <2>2, Induct
  <2>4. n - 1 - b \in Nat /\ b + (n - 1 - b) = n - 1 /\ n - 1 \in 0 .. n - 1 /\ (n - 1) + 1 = n
    BY <1>2, <1>6
  <2>5. n - 1 - b \in T
    BY <2>3, <2>4
  <2>6. b + (n - 1 - b) <= n - 1 => Bad(b + (n - 1 - b))
    BY <2>5 DEF T
  <2>7. Bad(n - 1)
    BY <1>2, <2>4, <2>6
  <2>8. R[n] = NoEnt
    BY <1>7, <2>4, <2>7
  <2>9. QED BY <1>3, <1>4, <2>8
<1>9. \A i \in 0 .. n - 1 : R[i + 1] = EntryIn(v, R[i].clus, ShortName[path.parts[i + 1]])
  BY <1>7, <1>8
<1>10. \A i \in 0 .. n - 1 : R[i + 1].kind \in {"file", "dir"}
  <2> TAKE i \in 0 .. n - 1
  <2>1. i + 1 = n \/ i + 1 \in 0 .. n - 1
    BY <1>2
  <2>2. QED BY <1>4, <1>8, <2>1
<1>11. \A i \in 0 .. n - 1 : R[i].clus \in v.dirs
  <2> DEFINE T == {k \in Nat : k <= n - 1 => R[k].clus \in v.dirs}
  <2>1. 0 \in T
    BY <1>3, <1>5, VolumeIs
  <2>2. ASSUME NEW k \in Nat, k \in T PROVE k + 1 \in T
    <3> SUFFICES ASSUME k + 1 <= n - 1 PROVE R[k + 1].clus \in v.dirs
      OBVIOUS
    <3>1. k \in 0 .. n - 1 /\ k + 1 \in 0 .. n - 1 /\ k <= n - 1
      BY <1>2
    <3>2. R[k].clus \in v.dirs
      BY <2>2, <3>1
    <3>3. PICK e : e = EntryIn(v, R[k].clus, ShortName[path.parts[k + 1]])
      OBVIOUS
    <3>4. e \in Entry /\ (e.kind = "dir" /\ e.clus >= 2 => e.clus \in v.dirs)
      BY <3>2, <3>3, EntryInIs
    <3>5. R[k + 1] = e /\ R[k + 1].kind = "dir" /\ ~ (R[k + 1].clus < 2)
      BY <1>8, <1>9, <3>1, <3>3
    <3>6. e.clus \in Nat
      BY <3>4 DEF Entry
    <3>7. QED BY <3>4, <3>5, <3>6
  <2> HIDE DEF T
  <2>3. \A k \in Nat : k \in T
    BY <2>1, <2>2, Induct
  <2>4. QED BY <1>2, <2>3 DEF T
<1>12. QED BY <1>1, <1>2, <1>3, <1>4, <1>5, <1>6, <1>8, <1>9, <1>10, <1>11

\* The file itself: it starts on the disk, unless it is empty.
LEMMA FileIs ==
    ASSUME NEW v \in Volumes, v.sig, NEW path \in Path, Named(v, path).kind = "file"
    PROVE  LET e == Named(v, path)
           IN  e \in Entry /\ (e.size > 0 => StartsOnDisk(v, e.clus))
<1>1. PICK n, R : n = Len(path.parts) /\ R = Resolved(v, path)
  OBVIOUS
<1>2. /\ n \in Nat \ {0} /\ Named(v, path) = R[n]
      /\ \A i \in 0 .. n - 1 :
            /\ R[i].clus \in v.dirs
            /\ R[i + 1] = EntryIn(v, R[i].clus, ShortName[path.parts[i + 1]])
  BY <1>1, WayToFile, SMTT(30)
<1>3. n - 1 \in 0 .. n - 1 /\ (n - 1) + 1 = n
  BY <1>2
<1>4. R[n - 1].clus \in v.dirs /\ R[n] = EntryIn(v, R[n - 1].clus, ShortName[path.parts[n]])
  BY <1>2, <1>3
<1>5. QED BY <1>2, <1>4, EntryInIs

\* The words of a file's first sector.
LEMMA FirstWords ==
    ASSUME NEW v \in Volumes, v.sig, NEW e \in Entry, NEW j \in 1 .. Words
    PROVE  FileWord(v, e, j - 1)
                = v.sectors[v.dataAt + (e.clus - 2) * v.secPerClus].words[j]
<1>1. PICK s : s = v.secPerClus
  OBVIOUS
<1>2. s \in Nat \ {0} /\ Words \in Nat \ {0} /\ v.dataAt \in Nat /\ e.clus \in Nat
  BY <1>1, VolumeIs, FatAssumption DEF Entry
<1>3. j - 1 \in Nat /\ j - 1 < Words
  BY <1>2
<1>4. PICK m : m = Words * s
  OBVIOUS
<1>5. m \in Nat /\ Words <= m
  BY <1>2, <1>4, Z3
<1>6. (j - 1) \div m = 0 /\ (j - 1) \div Words = 0 /\ (j - 1) % Words = j - 1
  <2>1. (j - 1) \div m = 0
    BY <1>2, <1>3, <1>5, Z3
  <2>2. (j - 1) \div Words = 0 /\ (j - 1) % Words = j - 1
    BY <1>2, <1>3, Z3
  <2>3. QED BY <2>1, <2>2
<1>7. 0 % s = 0
  BY <1>2, Z3
<1>8. ChainAt(v, e.clus, 0) = e.clus
  <2> DEFINE c == e.clus
             f == CHOOSE g : g = [i \in 0 .. 0 |-> IF i = 0 THEN c ELSE FatEntry(v, g[i - 1])]
  <2>1. ChainAt(v, c, 0) = f[0]
    BY DEF ChainAt
  <2>2. \E g : g = [i \in 0 .. 0 |-> IF i = 0 THEN c ELSE FatEntry(v, g[i - 1])]
    <3> DEFINE h == [i \in 0 .. 0 |-> c]
    <3>1. h = [i \in 0 .. 0 |-> IF i = 0 THEN c ELSE FatEntry(v, h[i - 1])]
      OBVIOUS
    <3> HIDE DEF h
    <3>2. QED BY <3>1
  <2>3. f = [i \in 0 .. 0 |-> IF i = 0 THEN c ELSE FatEntry(v, f[i - 1])]
    BY <2>2
  <2>4. f[0] = c
    BY <2>3
  <2>5. QED BY <2>1, <2>4
<1>9. PICK lba : lba = v.dataAt + (e.clus - 2) * s
  OBVIOUS
<1>10. lba + 0 = lba /\ (j - 1) + 1 = j
  <2>1. (e.clus - 2) * s \in Int
    BY <1>2
  <2>2. QED BY <1>2, <1>9, <2>1
<1>11. FileWord(v, e, j - 1) = v.sectors[lba + 0].words[(j - 1) + 1]
  BY <1>1, <1>4, <1>6, <1>7, <1>8, <1>9 DEF FileWord
<1>12. QED BY <1>1, <1>9, <1>10, <1>11

-----------------------------------------------------------------------------
(* Steps.                                                                  *)

LEMMA Nothing ==
    /\ NoCall \in Calls /\ Len(NoCall.path.parts) = 0 /\ NoEnt \in Entry /\ NoRet \in Answers
    /\ NoRet.call.op = "none"
<1>1. <<>> \in Seq(DOMAIN ShortName) /\ <<>> \in Seq(Nat) /\ Len(<<>>) = 0
  OBVIOUS
<1>2. [parts |-> <<>>, slash |-> FALSE] \in Path
  BY <1>1 DEF Path
<1>3. NoCall \in Calls /\ Len(NoCall.path.parts) = 0
  BY <1>1, <1>2 DEF NoCall, Calls
<1>4. NoRet \in Answers /\ NoRet.call.op = "none"
  BY <1>1, <1>3 DEF NoRet, Answers, Errors, NoCall
<1>5. NoEnt \in Entry
  BY DEF NoEnt, Entry, Kinds
<1>6. QED BY <1>3, <1>4, <1>5

\* The LBA that read_cluster computes is the format's, for a cluster on the disk.
LEMMA ClusterLbaIs ==
    ASSUME NEW v \in Volumes, v.sig, vol = v, geo = Geometry(v), NEW c, StartsOnDisk(v, c)
    PROVE  /\ c \in Nat /\ ~ IsEoc(c) /\ ~ IsFree(c)
           /\ ClusterLba(c) = v.dataAt + (c - 2) * v.secPerClus /\ OnDisk(ClusterLba(c))
<1>1. c \in 2 .. Eoc - 1 /\ Eoc \in Nat /\ Mod32 \in Nat /\ Eoc < Mod32
  BY FatAssumption DEF StartsOnDisk
<1>2. c \in Nat /\ c - 2 \in Nat /\ c - 2 < Mod32 /\ ~ IsEoc(c) /\ ~ IsFree(c)
  BY <1>1 DEF IsEoc, IsFree
<1>3. (c - 2) % Mod32 = c - 2
  BY <1>1, <1>2, Z3
<1>4. geo.dataBegin = v.dataAt /\ geo.spc = v.secPerClus
  BY VolumeIs DEF Geometry
<1>5. ClusterLba(c) = v.dataAt + (c - 2) * v.secPerClus
  BY <1>3, <1>4 DEF ClusterLba
<1>6. QED BY <1>2, <1>5 DEF StartsOnDisk, OnDisk

\* A call that fails: no answer was due, or the device or the heap failed.
LEMMA FailedKeeps ==
    ASSUME IInv, pc \in InCall, NEW err \in Errors, Failed(err),
           err \notin {"device", "heap"} =>
                ~ (Target.kind = "file" /\ (call.op = "size" \/ Small(vol, Target)))
    PROVE  IInv'
<1>1. /\ copied' = <<>> /\ pc' = "idle" /\ call' = NoCall /\ depth' = 0 /\ ent' = NoEnt
      /\ cl' = 0 /\ toRead' = 0 /\ vol' = vol /\ geo' = geo /\ heap' = heap
      /\ ret' = [call |-> call, err |-> err, size |-> 0, data |-> <<>>]
  BY DEF Failed, Return
<1>2. <<>> \in Seq(Nat)
  OBVIOUS
<1>3. ret' \in Answers
  BY <1>1, <1>2 DEF IInv, Types, Answers
<1>4. Types'
  BY <1>1, <1>2, <1>3, Nothing DEF IInv, Types
<1>5. Mounted' /\ Buffered' /\ Walking' /\ Reading' /\ Searching' /\ Copying'
  <2>1. Mounted'
    BY <1>1 DEF IInv, Mounted, InCall
  <2>2. QED BY <1>1, <2>1, Nothing DEF Buffered, Walking, Reading, Searching, Copying, InCall
<1>6. ret'.call = call /\ ret'.err = err
  BY <1>1
<1>7. SmallFilesRight' /\ SizeRight'
  BY <1>1, <1>6 DEF SmallFilesRight, SizeRight, Healthy, Target, Small, OnDisk
<1>8. QED BY <1>4, <1>5, <1>7 DEF IInv

\* A call that succeeds with a size and with what is copied.
LEMMA ReturnKeeps ==
    ASSUME IInv, pc \in InCall, NEW n \in Nat, Return("none", n), UNCHANGED <<vol, geo, heap>>,
           copied' \in Seq(Nat),
           (Target.kind = "file" /\ call.op = "size") => n = Target.size,
           (Small(vol, Target) /\ call.op = "read") => copied' = Contents(vol, Target, call.max)
    PROVE  IInv'
<1>1. /\ pc' = "idle" /\ call' = NoCall /\ depth' = 0 /\ ent' = NoEnt
      /\ cl' = 0 /\ toRead' = 0 /\ vol' = vol /\ geo' = geo /\ heap' = heap
      /\ ret' = [call |-> call, err |-> "none", size |-> n, data |-> copied']
  BY DEF Return
<1>2. ret' \in Answers
  BY <1>1 DEF IInv, Types, Answers, Errors
<1>3. Types'
  BY <1>1, <1>2, Nothing DEF IInv, Types
<1>4. Mounted' /\ Buffered' /\ Walking' /\ Reading' /\ Searching' /\ Copying'
  <2>1. Mounted'
    BY <1>1 DEF IInv, Mounted, InCall
  <2>2. QED BY <1>1, <2>1, Nothing DEF Buffered, Walking, Reading, Searching, Copying, InCall
<1>5. ret'.call = call /\ ret'.err = "none" /\ ret'.size = n /\ ret'.data = copied'
  BY <1>1
<1>6. SmallFilesRight' /\ SizeRight'
  BY <1>1, <1>5 DEF SmallFilesRight, SizeRight, Healthy, Target, Small, OnDisk
<1>7. QED BY <1>3, <1>4, <1>6 DEF IInv

LEMMA MountKeeps == ASSUME IInv, Mount PROVE IInv'
<1>1. /\ vol' = vol /\ call' = call /\ depth' = depth /\ ent' = ent /\ cl' = cl /\ buf' = buf
      /\ copied' = copied /\ toRead' = toRead /\ heap' = heap /\ ret' = ret
      /\ pc' \in {"idle", "panic"}
      /\ pc' = "idle" => vol.sig /\ geo' = Geometry(vol)
  BY DEF Mount, Geometry
<1>2. Types'
  BY <1>1 DEF IInv, Types, InCall
<1>3. Mounted'
  BY <1>1 DEF Mounted, InCall
<1>4. Buffered' /\ Walking' /\ Reading' /\ Searching' /\ Copying'
  BY <1>1 DEF IInv, Buffered, Walking, Reading, Searching, Copying, InCall
<1>5. SmallFilesRight' /\ SizeRight'
  BY <1>1 DEF IInv, SmallFilesRight, SizeRight, Healthy, OnDisk
<1>6. QED BY <1>2, <1>3, <1>4, <1>5 DEF IInv

LEMMA CallKeeps ==
    ASSUME IInv, NEW op \in {"size", "read"}, NEW path \in Paths, NEW max \in Nat,
           Call(op, path, max)
    PROVE  IInv'
<1>1. /\ vol' = vol /\ geo' = geo /\ ent' = ent /\ toRead' = toRead /\ heap' = heap
      /\ call' = [op |-> op, path |-> path, max |-> max]
      /\ pc' = IF path.parts = <<>> THEN "refused" ELSE "lookup"
      /\ cl' = geo.root /\ depth' = 0 /\ copied' = <<>> /\ ret' = NoRet /\ pc = "idle"
  BY DEF Call
<1>2. path \in Path /\ path.parts \in Seq(DOMAIN ShortName)
  BY InputAssumption DEF Path
<1>3. call' \in Calls /\ call'.path = path
  BY <1>1, <1>2 DEF Calls
<1>4. vol \in Volumes /\ vol.sig /\ geo = Geometry(vol) /\ geo.root = vol.root
  BY <1>1 DEF IInv, Types, Mounted, Geometry
<1>5. vol.root \in Nat
  <2>1. StartsOnDisk(vol, vol.root)
    BY <1>4, VolumeIs
  <2>2. QED BY <1>4, <2>1, ClusterLbaIs
<1>6. <<>> \in Seq(Nat)
  OBVIOUS
<1>7. Types'
  BY <1>1, <1>3, <1>4, <1>5, <1>6, Nothing DEF IInv, Types, InCall
<1>8. Mounted' /\ Buffered' /\ Reading' /\ Copying'
  BY <1>1, <1>4 DEF Mounted, Buffered, Reading, Copying, InCall
<1>9. Walking'
  <2>1. Len(path.parts) \in Nat /\ (path.parts # <<>> => Len(path.parts) > 0)
    BY <1>2
  <2>2. QED BY <1>1, <1>3, <2>1 DEF Walking
<1>10. Searching'
  <2> SUFFICES ASSUME Named(vol, path).kind = "file"
               PROVE  pc' = "lookup" /\ cl' = Resolved(vol, path)[0].clus
    BY <1>1, <1>3 DEF Searching, Target
  <2>1. Len(path.parts) # 0 /\ Resolved(vol, path)[0].clus = vol.root
    BY <1>2, <1>4, WayToFile
  <2>2. Len(<<>>) = 0
    OBVIOUS
  <2>3. QED BY <1>1, <1>4, <2>1, <2>2
<1>11. SmallFilesRight' /\ SizeRight'
  BY <1>1, Nothing DEF SmallFilesRight, SizeRight, Healthy
<1>12. QED BY <1>7, <1>8, <1>9, <1>10, <1>11 DEF IInv

LEMMA AllocateKeeps ==
    ASSUME IInv, Allocate("lookup", "scan") \/ Allocate("open", "copy")
    PROVE  IInv'
<1>1. /\ vol' = vol /\ geo' = geo /\ call' = call /\ depth' = depth /\ ent' = ent /\ cl' = cl
      /\ copied' = copied /\ toRead' = toRead /\ ret' = ret
      /\ heap > 0 /\ heap' = heap - 1 /\ buf' \in [1 .. geo.spc -> Junk]
      /\ (pc = "lookup" /\ pc' = "scan") \/ (pc = "open" /\ pc' = "copy")
  BY DEF Allocate
<1>2. Types'
  BY <1>1, FatAssumption DEF IInv, Types, InCall
<1>3. Mounted' /\ Walking' /\ Reading' /\ Searching' /\ Copying'
  <2>1. Mounted' /\ Walking' /\ Reading'
    BY <1>1 DEF IInv, Mounted, Walking, Reading, InCall
  <2>2. Searching'
    BY <1>1 DEF IInv, Searching, Target
  <2>3. Copying'
    BY <1>1 DEF IInv, Searching, Reading, Copying, Target, Small, InCall
  <2>4. QED BY <2>1, <2>2, <2>3
<1>4. Buffered'
  BY <1>1, InputAssumption DEF Buffered
<1>5. SmallFilesRight' /\ SizeRight'
  BY <1>1 DEF IInv, SmallFilesRight, SizeRight, Healthy, OnDisk
<1>6. QED BY <1>2, <1>3, <1>4, <1>5 DEF IInv

LEMMA NextClusterKeeps ==
    ASSUME IInv, NextCluster("next", "scan") \/ NextCluster("follow", "copy")
    PROVE  IInv'
<1>1. /\ vol' = vol /\ geo' = geo /\ call' = call /\ depth' = depth /\ ent' = ent /\ buf' = buf
      /\ copied' = copied /\ toRead' = toRead /\ ret' = ret /\ heap' = heap
      /\ OnDisk(FatLba(cl)) /\ cl' = ReadFat
      /\ (pc = "next" /\ pc' = "scan") \/ (pc = "follow" /\ pc' = "copy")
  BY DEF NextCluster
<1>2. vol \in Volumes /\ vol.sig /\ cl \in Nat
  BY <1>1 DEF IInv, Types, Mounted, InCall
<1>3. cl' \in Nat
  <2>1. Sector(FatLba(cl)).words \in [1 .. Words -> Nat]
    BY <1>1, <1>2, VolumeIs DEF OnDisk, Sector, SectorData
  <2>2. Mod28 \in Nat \ {0} /\ \A w \in Nat : w % Mod28 \in Nat
    BY FatAssumption, Z3
  <2>3. QED BY <1>1, <1>2, <2>1, <2>2, FatIndex DEF ReadFat
<1>4. Types'
  BY <1>1, <1>3 DEF IInv, Types, InCall
<1>5. Mounted' /\ Buffered' /\ Walking' /\ Reading'
  BY <1>1 DEF IInv, Mounted, Buffered, Walking, Reading, InCall
<1>6. Searching'
  BY <1>1 DEF IInv, Searching, Target
<1>7. Copying'
  BY <1>1 DEF IInv, Copying, Target
<1>8. SmallFilesRight' /\ SizeRight'
  BY <1>1 DEF IInv, SmallFilesRight, SizeRight, Healthy, OnDisk
<1>9. QED BY <1>4, <1>5, <1>6, <1>7, <1>8 DEF IInv

\* What read_cluster leaves in the buffer.
LEMMA ReadClusterIs ==
    ASSUME IInv, pc \in {"scan", "copy"}, OnDisk(ClusterLba(cl)), buf' = ReadCluster
    PROVE  /\ vol \in Volumes /\ vol.sig /\ geo = Geometry(vol)
           /\ geo.spc = vol.secPerClus /\ geo.spc \in Nat \ {0}
           /\ buf' \in [1 .. geo.spc -> SectorData] /\ buf'[1] = Sector(ClusterLba(cl))
           /\ BufferEntries \in Seq(Entry) /\ Len(BufferEntries) >= Len(buf'[1].ents)
           /\ \A j \in 1 .. Len(buf'[1].ents) : BufferEntries[j] = buf'[1].ents[j]
           /\ BufferWords \in Seq(Nat) /\ Len(BufferWords) = Words * geo.spc
           /\ \A j \in 1 .. Words : BufferWords[j] = buf'[1].words[j]
<1>1. vol \in Volumes /\ vol.sig /\ geo = Geometry(vol) /\ geo.spc = vol.secPerClus
  BY DEF IInv, Types, Mounted, InCall, Geometry
<1>2. geo.spc \in Nat \ {0} /\ Sector(ClusterLba(cl)) \in SectorData
  BY <1>1, VolumeIs DEF OnDisk, Sector
<1>3. buf \in [1 .. geo.spc -> SectorData] /\ 1 \in 1 .. geo.spc
  BY <1>2 DEF IInv, Buffered
<1>4. buf' \in [1 .. geo.spc -> SectorData] /\ buf'[1] = Sector(ClusterLba(cl))
  BY <1>2, <1>3 DEF ReadCluster
<1>5. PICK b, n : b = buf' /\ n = geo.spc
  OBVIOUS
<1>6. LET E == FlattenSeq([i \in DOMAIN b |-> b[i].ents])
          W == FlattenSeq([i \in DOMAIN b |-> b[i].words])
      IN  /\ E \in Seq(Entry) /\ Len(E) >= Len(b[1].ents)
          /\ \A j \in 1 .. Len(b[1].ents) : E[j] = b[1].ents[j]
          /\ W \in Seq(Nat) /\ Len(W) = Words * n
          /\ \A j \in 1 .. Words : W[j] = b[1].words[j]
  <2>1. n \in Nat \ {0} /\ b \in [1 .. n -> SectorData]
    BY <1>2, <1>4, <1>5
  <2>2. QED BY <2>1, BufferIs
<1>7. BufferEntries = FlattenSeq([i \in DOMAIN b |-> b[i].ents])
      /\ BufferWords = FlattenSeq([i \in DOMAIN b |-> b[i].words])
  BY <1>5 DEF BufferEntries, BufferWords
<1>8. QED BY <1>1, <1>2, <1>4, <1>5, <1>6, <1>7

\* The entry that find_in_directory stops at is the next one on the way to the
\* file, if the path names one.
LEMMA ScanFinds ==
    ASSUME IInv, pc = "scan", OnDisk(ClusterLba(cl)), buf' = ReadCluster,
           Target.kind = "file"
    PROVE  LET i == FirstStop(BufferEntries, Want)
               R == Resolved(vol, call.path)
           IN  /\ i \in 1 .. Len(BufferEntries) /\ BufferEntries[i] = R[depth + 1]
               /\ R[depth + 1].kind \in {"file", "dir"}
               /\ depth + 1 = Len(call.path.parts) => R[depth + 1] = Target
               /\ depth + 1 # Len(call.path.parts) => R[depth + 1].kind = "dir"
               /\ ~ call.path.slash
<1>1. PICK n, R : n = Len(call.path.parts) /\ R = Resolved(vol, call.path)
  OBVIOUS
<1>2. PICK es, b : es = BufferEntries /\ b = buf'
  OBVIOUS
<1>3. /\ vol \in Volumes /\ vol.sig /\ geo = Geometry(vol)
      /\ b[1] = Sector(ClusterLba(cl))
      /\ es \in Seq(Entry) /\ Len(es) >= Len(b[1].ents)
      /\ \A j \in 1 .. Len(b[1].ents) : es[j] = b[1].ents[j]
  BY <1>2, ReadClusterIs
<1>4. call.path \in Path /\ depth \in Nat /\ depth < n /\ cl = R[depth].clus
  BY <1>1 DEF IInv, Types, Calls, Walking, Searching
<1>5. /\ n \in Nat \ {0} /\ ~ call.path.slash /\ Target = R[n]
      /\ \A i \in 0 .. n - 1 :
            /\ R[i].kind = "dir" /\ R[i].clus \in vol.dirs
            /\ R[i + 1] = EntryIn(vol, R[i].clus, ShortName[call.path.parts[i + 1]])
            /\ R[i + 1].kind \in {"file", "dir"}
  BY <1>1, <1>3, <1>4, WayToFile DEF Target
<1>6. depth \in 0 .. n - 1
  BY <1>4, <1>5
<1>7. cl \in vol.dirs /\ R[depth + 1] = EntryIn(vol, cl, Want)
      /\ R[depth + 1].kind \in {"file", "dir"}
  BY <1>4, <1>5, <1>6 DEF Want
<1>8. StartsOnDisk(vol, cl) /\ FirstEntries(vol, cl) \in Seq(Entry)
  BY <1>3, <1>7, VolumeIs
<1>9. b[1].ents = FirstEntries(vol, cl)
  BY <1>3, <1>8, ClusterLbaIs DEF Sector, FirstEntries
<1>10. PICK k : k = FirstStop(FirstEntries(vol, cl), Want)
  OBVIOUS
<1>11. k \in 1 .. Len(FirstEntries(vol, cl)) /\ R[depth + 1] = FirstEntries(vol, cl)[k]
  BY <1>3, <1>7, <1>10, EntryInIs
<1>12. FirstStop(es, Want) = k
  <2>1. k > 0
    BY <1>11
  <2>2. QED BY <1>3, <1>8, <1>9, <1>10, <2>1, FirstStopInPrefix
<1>13. k \in 1 .. Len(es) /\ es[k] = R[depth + 1]
  <2>1. Len(es) \in Nat /\ Len(FirstEntries(vol, cl)) \in Nat
    BY <1>3, <1>8
  <2>2. QED BY <1>3, <1>9, <1>11, <2>1
<1>14. depth + 1 # n => R[depth + 1].kind = "dir"
  <2>1. depth + 1 # n => depth + 1 \in 0 .. n - 1
    BY <1>5, <1>6
  <2>2. QED BY <1>5, <2>1
<1>15. QED BY <1>1, <1>2, <1>5, <1>7, <1>12, <1>13, <1>14

LEMMA ScanClusterKeeps == ASSUME IInv, ScanCluster PROVE IInv'
<1>1. /\ vol' = vol /\ geo' = geo /\ call' = call /\ copied' = copied /\ toRead' = toRead
      /\ heap' = heap /\ ret' = ret /\ pc = "scan"
      /\ OnDisk(ClusterLba(cl)) /\ buf' = ReadCluster
  BY DEF ScanCluster
<1>2. PICK es, i : es = BufferEntries /\ i = FirstStop(BufferEntries, Want)
  OBVIOUS
<1>3. SelectInSeq(es, LAMBDA e : Stops(e, Want)) = i
  BY <1>2 DEF SelectInSeq, FirstStop, StopSet
<1>4. \/ i = 0 /\ pc' = "next" /\ ent' = ent /\ depth' = depth /\ cl' = cl
      \/ i > 0 /\ es[i].kind = "end" /\ pc' = "refused" /\ ent' = ent /\ depth' = depth /\ cl' = cl
      \/ i > 0 /\ es[i].kind # "end" /\ Found(es[i])
  BY <1>2, <1>3 DEF ScanCluster
<1>5. /\ vol \in Volumes /\ vol.sig /\ geo = Geometry(vol)
      /\ buf' \in [1 .. geo.spc -> SectorData] /\ es \in Seq(Entry)
  BY <1>1, <1>2, ReadClusterIs
<1>6. i \in 0 .. Len(es) /\ Len(es) \in Nat
  BY <1>2, <1>5, FirstStopIs
<1>7. i > 0 => es[i] \in Entry
  BY <1>5, <1>6
<1>8. PICK n : n = Len(call.path.parts)
  OBVIOUS
<1>9. /\ n \in Nat /\ depth \in Nat /\ depth < n /\ ent \in Entry /\ cl \in Nat
      /\ call.path \in Path
  BY <1>1, <1>8 DEF IInv, Types, Walking, Calls, Path
<1>10. \/ pc' = "next" /\ ent' = ent /\ depth' = depth /\ cl' = cl
       \/ pc' = "refused" /\ ent' = ent /\ depth' = depth /\ cl' = cl
       \/ /\ i > 0 /\ ent' = es[i] /\ depth' = depth + 1
          /\ \/ depth + 1 = n /\ pc' = "found" /\ cl' = cl
             \/ depth + 1 # n /\ pc' = "lookup" /\ cl' = es[i].clus
             \/ pc' = "refused" /\ cl' = cl
  BY <1>4, <1>8 DEF Found
<1>11. Types'
  <2>1. ent' \in Entry /\ depth' \in Nat /\ cl' \in Nat /\ pc' \in InCall
    BY <1>7, <1>9, <1>10 DEF Entry, InCall
  <2>2. QED BY <1>1, <2>1 DEF IInv, Types
<1>12. Mounted' /\ Buffered'
  BY <1>1, <1>5 DEF Mounted, Buffered
<1>13. Walking'
  BY <1>1, <1>8, <1>9, <1>10 DEF Walking
<1>14. Reading' /\ Copying'
  BY <1>1, <1>10 DEF IInv, Reading, Copying, InCall
<1>15. Searching'
  <2> SUFFICES ASSUME Target.kind = "file"
               PROVE  \/ pc' = "found" /\ ent' = Target
                      \/ pc' = "lookup" /\ cl' = Resolved(vol, call.path)[depth'].clus
    BY <1>1 DEF Searching, Target
  <2>1. PICK e : e = Resolved(vol, call.path)[depth + 1]
    OBVIOUS
  <2>2. /\ i \in 1 .. Len(es) /\ es[i] = e /\ e.kind \in {"file", "dir"}
        /\ depth + 1 = n => e = Target
        /\ depth + 1 # n => e.kind = "dir"
        /\ ~ call.path.slash
    BY <1>1, <1>2, <1>8, <2>1, ScanFinds
  <2>3. Found(e)
    BY <1>4, <1>6, <2>2
  <2>4. QED BY <1>8, <2>1, <2>2, <2>3 DEF Found
<1>16. SmallFilesRight' /\ SizeRight'
  BY <1>1 DEF IInv, SmallFilesRight, SizeRight, Healthy, OnDisk
<1>17. QED BY <1>11, <1>12, <1>13, <1>14, <1>15, <1>16 DEF IInv

LEMMA OpenKeeps == ASSUME IInv, Open PROVE IInv'
<1>1. /\ vol' = vol /\ geo' = geo /\ call' = call /\ depth' = depth /\ ent' = ent /\ buf' = buf
      /\ copied' = copied /\ ret' = ret /\ heap' = heap
      /\ pc = "found" /\ pc' = "open" /\ call.op = "read" /\ cl' = ent.clus
      /\ toRead' = Lesser(call.max, ent.size)
  BY DEF Open
<1>2. ent.clus \in Nat /\ ent.size \in Nat /\ call.max \in Nat /\ copied = <<>>
  BY <1>1 DEF IInv, Types, Entry, Calls, Reading, InCall
<1>3. toRead' \in Nat
  BY <1>1, <1>2, LesserIs
<1>4. Types'
  BY <1>1, <1>2, <1>3 DEF IInv, Types, InCall
<1>5. Mounted' /\ Buffered' /\ Walking' /\ Copying'
  BY <1>1 DEF IInv, Mounted, Buffered, Walking, Copying, InCall
<1>6. Reading'
  <2>1. Len(copied) = 0
    BY <1>2
  <2>2. \A t \in Nat : 0 + t = t
    OBVIOUS
  <2>3. Len(copied') + toRead' = toRead'
    BY <1>1, <1>3, <2>1, <2>2
  <2>4. QED BY <1>1, <1>2, <2>3 DEF Reading, InCall
<1>7. Searching'
  BY <1>1 DEF IInv, Searching, Target
<1>8. SmallFilesRight' /\ SizeRight'
  BY <1>1 DEF IInv, SmallFilesRight, SizeRight, Healthy, OnDisk
<1>9. QED BY <1>4, <1>5, <1>6, <1>7, <1>8 DEF IInv

\* The part of a file that a call asks for, as read from its first sector.
LEMMA OneChunk ==
    ASSUME NEW v \in Volumes, v.sig, NEW e \in Entry, e.size <= Words, NEW max \in Nat,
           NEW W \in Seq(Nat), Len(W) >= Words,
           \A j \in 1 .. Words :
                W[j] = v.sectors[v.dataAt + (e.clus - 2) * v.secPerClus].words[j]
    PROVE  SubSeq(W, 1, Lesser(max, e.size)) = Contents(v, e, max)
<1>1. PICK m : m = Lesser(max, e.size)
  OBVIOUS
<1>2. m \in Nat /\ m <= Words /\ Words \in Nat /\ m <= Len(W) /\ Len(W) \in Nat
  <2>1. e.size \in Nat /\ Words \in Nat /\ Len(W) \in Nat
    BY FatAssumption DEF Entry
  <2>2. m \in Nat /\ m <= e.size
    BY <1>1, <2>1, LesserIs
  <2>3. QED BY <2>1, <2>2
<1>3. Contents(v, e, max) = [j \in 1 .. m |-> FileWord(v, e, j - 1)]
  BY <1>1 DEF Contents
<1>4. \A j \in 1 .. m : j \in 1 .. Words /\ W[j] = FileWord(v, e, j - 1)
  <2> TAKE j \in 1 .. m
  <2>1. j \in 1 .. Words
    BY <1>2
  <2>2. FileWord(v, e, j - 1) = v.sectors[v.dataAt + (e.clus - 2) * v.secPerClus].words[j]
    BY <2>1, FirstWords
  <2>3. QED BY <2>1, <2>2
<1>5. SubSeq(W, 1, m) = [j \in 1 .. m |-> W[j]]
  <2>1. /\ SubSeq(W, 1, m) \in Seq(Nat) /\ Len(SubSeq(W, 1, m)) = m
        /\ \A j \in 1 .. m : SubSeq(W, 1, m)[j] = W[j]
    BY <1>2
  <2>2. QED BY <1>2, <2>1
<1>6. QED BY <1>1, <1>3, <1>4, <1>5

LEMMA CopyClusterKeeps == ASSUME IInv, CopyCluster PROVE IInv'
<1>1. /\ vol' = vol /\ geo' = geo /\ call' = call /\ depth' = depth /\ ent' = ent /\ cl' = cl
      /\ ret' = ret /\ heap' = heap /\ pc = "copy" /\ pc' = "follow" /\ toRead > 0
      /\ OnDisk(ClusterLba(cl)) /\ buf' = ReadCluster
      /\ copied' = copied \o SubSeq(BufferWords, 1, Chunk) /\ toRead' = toRead - Chunk
  BY DEF CopyCluster
<1>2. PICK W, b, k : W = BufferWords /\ b = buf' /\ k = Chunk
  OBVIOUS
<1>3. /\ vol \in Volumes /\ vol.sig /\ geo = Geometry(vol)
      /\ geo.spc \in Nat \ {0} /\ geo.spc = vol.secPerClus
      /\ b \in [1 .. geo.spc -> SectorData] /\ b[1] = Sector(ClusterLba(cl))
      /\ W \in Seq(Nat) /\ Len(W) = Words * geo.spc
      /\ \A j \in 1 .. Words : W[j] = b[1].words[j]
  BY <1>1, <1>2, ReadClusterIs
<1>4. Words \in Nat /\ Words * geo.spc \in Nat /\ Words <= Words * geo.spc
  <2>1. Words \in Nat /\ geo.spc \in Nat /\ geo.spc >= 1
    BY <1>3, FatAssumption
  <2>2. PICK s : s = geo.spc
    OBVIOUS
  <2>3. Words * s \in Nat /\ Words <= Words * s
    BY <2>1, <2>2, Z3
  <2>4. QED BY <2>1, <2>2, <2>3
<1>5. toRead \in Nat /\ copied \in Seq(Nat) /\ Len(copied) \in Nat /\ call.op = "read"
      /\ Len(copied) + toRead = Lesser(call.max, ent.size)
  BY <1>1 DEF IInv, Types, Reading
<1>6. k \in Nat /\ k <= toRead /\ k <= Words * geo.spc
      /\ (toRead <= Words => k = toRead)
  BY <1>2, <1>4, <1>5 DEF Chunk, Lesser
<1>7. SubSeq(W, 1, k) \in Seq(Nat) /\ Len(SubSeq(W, 1, k)) = k
  BY <1>3, <1>4, <1>6
<1>8. copied' = copied \o SubSeq(W, 1, k) /\ toRead' = toRead - k
  BY <1>1, <1>2
<1>9. copied' \in Seq(Nat) /\ Len(copied') = Len(copied) + k /\ toRead' \in Nat
      /\ Len(copied') + toRead' = Len(copied) + toRead
  <2>1. PICK s : s = SubSeq(W, 1, k)
    OBVIOUS
  <2>2. copied \o s \in Seq(Nat) /\ Len(copied \o s) = Len(copied) + k
    BY <1>5, <1>7, <2>1
  <2>3. copied' \in Seq(Nat) /\ Len(copied') = Len(copied) + k
    BY <1>8, <2>1, <2>2
  <2>4. toRead - k \in Nat /\ (Len(copied) + k) + (toRead - k) = Len(copied) + toRead
    BY <1>5, <1>6
  <2>5. QED BY <1>8, <2>3, <2>4
<1>10. Types'
  BY <1>1, <1>9 DEF IInv, Types, InCall
<1>11. Mounted' /\ Buffered' /\ Walking'
  BY <1>1, <1>2, <1>3 DEF IInv, Mounted, Buffered, Walking
<1>12. Reading'
  BY <1>1, <1>5, <1>9 DEF Reading
<1>13. Searching'
  BY <1>1 DEF IInv, Searching, Target
<1>14. Copying'
  <2> SUFFICES ASSUME Small(vol, Target)
               PROVE  /\ toRead' = 0 /\ copied' = Contents(vol, Target, call.max)
                      /\ cl = ent.clus
    BY <1>1 DEF Copying, Target
  <2>1. /\ Target.kind = "file" /\ Target.size <= Words /\ ent = Target
        /\ copied = <<>> /\ cl = ent.clus
    BY <1>1, <1>5 DEF Small, IInv, Copying, Searching
  <2>2. call.path \in Path /\ call.max \in Nat
    BY DEF IInv, Types, Calls
  <2>3. Target \in Entry /\ (Target.size > 0 => StartsOnDisk(vol, Target.clus))
    BY <1>3, <2>1, <2>2, FileIs DEF Target
  <2>4. Target.size \in Nat /\ toRead = Lesser(call.max, Target.size) /\ toRead <= Target.size
    <3>1. Len(<<>>) = 0 /\ Target.size \in Nat
      BY <2>3 DEF Entry
    <3>2. toRead = Lesser(call.max, Target.size)
      BY <1>5, <2>1, <3>1
    <3>3. QED BY <2>2, <3>1, <3>2, LesserIs
  <2>5. StartsOnDisk(vol, cl)
    BY <1>1, <1>5, <2>1, <2>3, <2>4
  <2>6. ClusterLba(cl) = vol.dataAt + (cl - 2) * vol.secPerClus
    BY <1>3, <2>5, ClusterLbaIs
  <2>7. \A j \in 1 .. Words :
            W[j] = vol.sectors[vol.dataAt + (Target.clus - 2) * vol.secPerClus].words[j]
    BY <1>3, <2>1, <2>6 DEF Sector
  <2>8. k = toRead
    BY <1>4, <1>5, <1>6, <2>1, <2>4
  <2>9. SubSeq(W, 1, k) = Contents(vol, Target, call.max)
    BY <1>3, <1>4, <2>1, <2>2, <2>3, <2>4, <2>7, <2>8, OneChunk
  <2>10. <<>> \o SubSeq(W, 1, k) = SubSeq(W, 1, k)
    BY <1>7
  <2>11. QED BY <1>5, <1>8, <2>1, <2>8, <2>9, <2>10
<1>15. SmallFilesRight' /\ SizeRight'
  BY <1>1 DEF IInv, SmallFilesRight, SizeRight, Healthy, OnDisk
<1>16. QED BY <1>10, <1>11, <1>12, <1>13, <1>14, <1>15 DEF IInv

\* Of nothing, nothing is asked.
LEMMA NoContents ==
    ASSUME NEW v, NEW e, NEW max, Lesser(max, e.size) = 0
    PROVE  Contents(v, e, max) = <<>>
BY DEF Contents

LEMMA CopyEndsKeeps == ASSUME IInv, CopyEnds PROVE IInv'
<1>1. /\ pc = "copy" /\ (toRead = 0 \/ IsEoc(cl) \/ IsFree(cl))
      /\ copied' = copied /\ Return("none", Len(copied)) /\ UNCHANGED <<vol, geo, heap>>
  BY DEF CopyEnds
<1>2. /\ copied \in Seq(Nat) /\ Len(copied) \in Nat /\ toRead \in Nat /\ call.op = "read"
      /\ Len(copied) + toRead = Lesser(call.max, ent.size)
      /\ vol \in Volumes /\ vol.sig /\ geo = Geometry(vol)
      /\ call.path \in Path /\ call.max \in Nat
  BY <1>1 DEF IInv, Types, Reading, Mounted, Calls, InCall
<1>3. ASSUME Small(vol, Target) PROVE copied = Contents(vol, Target, call.max)
  <2>1. Target.kind = "file" /\ ent = Target
    BY <1>1, <1>3 DEF IInv, Small, Searching
  <2>2. Target \in Entry /\ (Target.size > 0 => StartsOnDisk(vol, Target.clus))
    BY <1>2, <2>1, FileIs DEF Target
  <2> SUFFICES ASSUME copied = <<>>, cl = ent.clus PROVE copied = Contents(vol, Target, call.max)
    BY <1>1, <1>3 DEF IInv, Copying
  <2>3. toRead = Lesser(call.max, Target.size) /\ Target.size \in Nat
    BY <1>2, <2>1, <2>2 DEF Entry
  <2>4. toRead = 0
    <3> SUFFICES ASSUME toRead > 0 PROVE FALSE
      BY <1>2
    <3>1. toRead <= Target.size
      BY <1>2, <2>3, LesserIs
    <3>2. StartsOnDisk(vol, cl)
      BY <1>2, <2>1, <2>2, <2>3, <3>1
    <3>3. ~ IsEoc(cl) /\ ~ IsFree(cl)
      BY <1>2, <3>2, ClusterLbaIs
    <3>4. QED BY <1>1, <3>3
  <2>5. QED BY <2>3, <2>4, NoContents
<1>4. pc \in InCall
  BY <1>1 DEF InCall
<1>5. QED BY <1>1, <1>2, <1>3, <1>4, ReturnKeeps

LEMMA FileSizeKeeps == ASSUME IInv, FileSize PROVE IInv'
<1>1. /\ pc = "found" /\ ent.kind # "dir" /\ (call.op = "size" \/ ent.size = 0)
      /\ copied' = <<>> /\ UNCHANGED <<vol, geo, heap>>
      /\ Return("none", IF call.op = "size" THEN ent.size ELSE 0)
  BY DEF FileSize
<1>2. PICK n : n = IF call.op = "size" THEN ent.size ELSE 0
  OBVIOUS
<1>3. n \in Nat /\ ent.size \in Nat /\ call.max \in Nat
  BY <1>2 DEF IInv, Types, Entry, Calls
<1>4. Target.kind = "file" => ent = Target
  BY <1>1 DEF IInv, Searching
<1>5. (Target.kind = "file" /\ call.op = "size") => n = Target.size
  BY <1>2, <1>4
<1>6. (Small(vol, Target) /\ call.op = "read") => copied' = Contents(vol, Target, call.max)
  <2> SUFFICES ASSUME Small(vol, Target), call.op = "read"
               PROVE  Contents(vol, Target, call.max) = <<>>
    BY <1>1
  <2>1. ent = Target /\ ent.size = 0
    BY <1>1, <1>4 DEF Small
  <2>2. Lesser(call.max, Target.size) = 0
    BY <1>3, <2>1 DEF Lesser
  <2>3. QED BY <2>2, NoContents
<1>7. copied' \in Seq(Nat)
  BY <1>1
<1>8. pc \in InCall
  BY <1>1 DEF InCall
<1>9. QED BY <1>1, <1>2, <1>3, <1>5, <1>6, <1>7, <1>8, ReturnKeeps

\* The calls that fail, each for the reason it gives.
LEMMA FailuresKeep ==
    ASSUME IInv,
           \/ Refused \/ AllocateRefused \/ OutOfRange \/ ScanEnds \/ FoundDirectory
           \/ DeviceError
    PROVE  IInv'
<1>1. "path" \in Errors /\ "heap" \in Errors /\ "device" \in Errors /\ "range" \in Errors
  BY DEF Errors
<1>2. pc \in InCall => /\ vol \in Volumes /\ vol.sig /\ geo = Geometry(vol)
                       /\ call.path \in Path /\ depth \in Nat
  BY DEF IInv, Types, Mounted, Calls
\* A search for a file that is there goes through directories on the disk.
<1>3. ASSUME pc = "scan", Target.kind = "file"
      PROVE  ~ IsEoc(cl) /\ ~ IsFree(cl) /\ OnDisk(ClusterLba(cl))
  <2>1. pc \in InCall
    BY <1>3 DEF InCall
  <2>2. PICK n, R : n = Len(call.path.parts) /\ R = Resolved(vol, call.path)
    OBVIOUS
  <2>3. n \in Nat /\ \A i \in 0 .. n - 1 : R[i].clus \in vol.dirs
    BY <1>2, <1>3, <2>1, <2>2, WayToFile DEF Target
  <2>4. depth < n /\ cl = R[depth].clus
    BY <1>3, <2>2 DEF IInv, Walking, Searching
  <2>5. depth \in 0 .. n - 1
    BY <1>2, <2>1, <2>3, <2>4
  <2>6. StartsOnDisk(vol, cl)
    BY <1>2, <2>1, <2>3, <2>4, <2>5, VolumeIs
  <2>7. QED BY <1>2, <2>1, <2>6, ClusterLbaIs
<1>4. CASE Refused
  <2>1. pc = "refused" /\ Failed("path") /\ pc \in InCall
    BY <1>4 DEF Refused, InCall
  <2>2. Target.kind # "file"
    BY <2>1 DEF IInv, Searching
  <2>3. QED BY <1>1, <2>1, <2>2, FailedKeeps
<1>5. CASE AllocateRefused
  <2>1. Failed("heap") /\ pc \in InCall
    BY <1>5 DEF AllocateRefused, InCall
  <2>2. QED BY <1>1, <2>1, FailedKeeps
<1>6. CASE DeviceError
  <2>1. Failed("device") /\ pc \in InCall
    BY <1>6 DEF DeviceError, InCall
  <2>2. QED BY <1>1, <2>1, FailedKeeps
<1>7. CASE ScanEnds
  <2>1. pc = "scan" /\ (IsEoc(cl) \/ IsFree(cl)) /\ Failed("path") /\ pc \in InCall
    BY <1>7 DEF ScanEnds, InCall
  <2>2. Target.kind # "file"
    BY <1>3, <2>1
  <2>3. QED BY <1>1, <2>1, <2>2, FailedKeeps
<1>8. CASE FoundDirectory
  <2>1. pc = "found" /\ ent.kind = "dir" /\ Failed("path") /\ pc \in InCall
    BY <1>8 DEF FoundDirectory, InCall
  <2>2. Target.kind # "file"
    BY <2>1 DEF IInv, Searching
  <2>3. QED BY <1>1, <2>1, <2>2, FailedKeeps
<1>9. CASE OutOfRange
  <2>1. Failed("range") /\ pc \in {"scan", "copy", "next", "follow"} /\ pc \in InCall
    BY <1>9 DEF OutOfRange, InCall
  <2>2. /\ pc = "scan" => ~ OnDisk(ClusterLba(cl))
        /\ pc = "copy" => toRead > 0 /\ ~ OnDisk(ClusterLba(cl))
        /\ pc \in {"next", "follow"} => ~ OnDisk(FatLba(cl))
    BY <1>9 DEF OutOfRange
  <2>3. ASSUME Target.kind = "file", call.op = "size" \/ Small(vol, Target) PROVE FALSE
    <3>1. pc \in {"copy", "follow"}
      BY <1>3, <2>1, <2>2, <2>3 DEF IInv, Searching
    <3>2. Small(vol, Target) /\ ent = Target
      BY <2>3, <3>1 DEF IInv, Reading, Searching
    <3>3. cl = Target.clus
      BY <2>2, <3>1, <3>2 DEF IInv, Copying, Types
    <3>4. OnDisk(FatLba(cl))
      BY <3>2, <3>3 DEF Small, OnDisk
    <3>5. pc = "copy" /\ toRead > 0 /\ ~ OnDisk(ClusterLba(cl)) /\ copied = <<>>
      BY <2>2, <3>1, <3>2, <3>4 DEF IInv, Copying, Types
    <3>6. Target \in Entry /\ (Target.size > 0 => StartsOnDisk(vol, Target.clus))
      BY <1>2, <2>1, <2>3, FileIs DEF Target
    <3>7. Target.size > 0
      <4>1. Target.size \in Nat /\ call.max \in Nat /\ toRead \in Nat
        BY <3>6 DEF IInv, Types, Entry, Calls
      <4>2. Len(copied) = 0
        BY <3>5
      <4>3. toRead = Lesser(call.max, Target.size)
        BY <3>1, <3>2, <4>1, <4>2 DEF IInv, Reading
      <4>4. toRead <= Target.size
        BY <4>1, <4>3, LesserIs
      <4>5. QED BY <3>5, <4>1, <4>4
    <3>8. QED BY <1>2, <2>1, <3>3, <3>5, <3>6, <3>7, ClusterLbaIs
  <2>4. QED BY <1>1, <2>1, <2>3, FailedKeeps
<1>10. QED BY <1>4, <1>5, <1>6, <1>7, <1>8, <1>9

-----------------------------------------------------------------------------
(* The theorem.                                                            *)

LEMMA InitIInv == Init => IInv
<1> SUFFICES ASSUME Init PROVE IInv
  OBVIOUS
<1>1. <<>> \in Seq(Nat) /\ HeapBuffers \in Nat
  BY FatAssumption
<1>2. Types
  BY <1>1, Nothing DEF Init, Types
<1>3. Mounted /\ Buffered /\ Walking /\ Reading /\ Searching /\ Copying
  BY Nothing DEF Init, Mounted, Buffered, Walking, Reading, Searching, Copying, InCall
<1>4. SmallFilesRight /\ SizeRight
  BY Nothing DEF Init, SmallFilesRight, SizeRight, Healthy
<1>5. QED BY <1>2, <1>3, <1>4 DEF IInv

LEMMA NextIInv == IInv /\ [Next]_vars => IInv'
<1> SUFFICES ASSUME IInv, [Next]_vars PROVE IInv'
  OBVIOUS
<1>1. CASE Mount
  BY <1>1, MountKeeps
<1>2. CASE \E p \in Paths : Call("size", p, 0) \/ \E n \in Limits : Call("read", p, n)
  <2>1. PICK p \in Paths : Call("size", p, 0) \/ \E n \in Limits : Call("read", p, n)
    BY <1>2
  <2>2. CASE Call("size", p, 0)
    BY <2>2, CallKeeps
  <2>3. CASE \E n \in Limits : Call("read", p, n)
    <3>1. PICK n \in Limits : Call("read", p, n)
      BY <2>3
    <3>2. n \in Nat
      BY FatAssumption
    <3>3. QED BY <3>1, <3>2, CallKeeps
  <2>4. QED BY <2>1, <2>2, <2>3
<1>3. CASE Step
  <2>1. CASE Refused \/ AllocateRefused \/ OutOfRange \/ ScanEnds \/ FoundDirectory
    BY <2>1, FailuresKeep
  <2>2. CASE Allocate("lookup", "scan") \/ Allocate("open", "copy")
    BY <2>2, AllocateKeeps
  <2>3. CASE NextCluster("next", "scan") \/ NextCluster("follow", "copy")
    BY <2>3, NextClusterKeeps
  <2>4. QED
    BY <1>3, <2>1, <2>2, <2>3, ScanClusterKeeps, FileSizeKeeps, OpenKeeps, CopyClusterKeeps,
       CopyEndsKeeps DEF Step
<1>4. CASE DeviceError
  BY <1>4, FailuresKeep
<1>5. CASE UNCHANGED vars
  <2>1. /\ vol' = vol /\ geo' = geo /\ pc' = pc /\ call' = call /\ depth' = depth /\ ent' = ent
        /\ cl' = cl /\ buf' = buf /\ copied' = copied /\ toRead' = toRead /\ heap' = heap
        /\ ret' = ret
    BY <1>5 DEF vars
  <2>2. Types' /\ Mounted' /\ Buffered' /\ Walking' /\ Reading'
    BY <2>1 DEF IInv, Types, Mounted, Buffered, Walking, Reading
  <2>3. Searching' /\ Copying' /\ SmallFilesRight' /\ SizeRight'
    BY <2>1 DEF IInv, Searching, Copying, Target, SmallFilesRight, SizeRight, Healthy, OnDisk
  <2>4. QED BY <2>2, <2>3 DEF IInv
<1>6. QED BY <1>1, <1>2, <1>3, <1>4, <1>5 DEF Next, Halted

LEMMA IInvAnswers == IInv => AnswersRight
<1> SUFFICES ASSUME IInv PROVE AnswersRight
  OBVIOUS
<1>1. call.max \in Nat /\ ent.size \in Nat /\ Len(copied) \in Nat /\ toRead \in Nat
      /\ depth \in Nat /\ Len(call.path.parts) \in Nat
  BY DEF IInv, Types, Calls, Entry, Path
<1>2. pc \in {"copy", "follow"} => /\ Len(copied) + toRead <= ent.size
                                  /\ Len(copied) <= call.max /\ Len(copied) <= ent.size
  <2> SUFFICES ASSUME pc \in {"copy", "follow"}
               PROVE  /\ Len(copied) + toRead <= ent.size
                      /\ Len(copied) <= call.max /\ Len(copied) <= ent.size
    OBVIOUS
  <2>1. Len(copied) + toRead = Lesser(call.max, ent.size)
    BY DEF IInv, Reading
  <2>2. Lesser(call.max, ent.size) <= call.max /\ Lesser(call.max, ent.size) <= ent.size
    BY <1>1, LesserIs
  <2>3. QED BY <1>1, <2>1, <2>2
<1>3. NeverTooMuch
  BY <1>2 DEF NeverTooMuch
<1>4. ret.err \in Errors
  BY DEF IInv, Types, Answers
<1>5. TypeOK
  BY <1>1, <1>2, <1>4 DEF TypeOK, IInv, Types, Walking, InCall, Errors
<1>6. QED BY <1>3, <1>5 DEF AnswersRight, IInv

\* get_file_size answers the size of the file that a path names; read_file
\* delivers every word of a file of at most one sector whose FAT entry lands on
\* the disk, up to max_bytes, and writes no more than max_bytes and the size of
\* any file: on every formatted volume, whatever the heap held before and
\* whatever went wrong in earlier calls.
THEOREM AnswersCorrect == Spec => []AnswersRight
<1>1. Init => IInv
  BY InitIInv
<1>2. IInv /\ [Next]_vars => IInv'
  BY NextIInv
<1>3. IInv => AnswersRight
  BY IInvAnswers
<1>4. QED BY <1>1, <1>2, <1>3, PTL DEF Spec

\* The same search, said of one step: while get_file_size or read_file looks for
\* a file that the path names, it is never led on to another cluster by read_fat,
\* whose sector is the wrong one, nor turned away.
StaysOnWay ==
    Named(vol, call.path).kind = "file" => pc \notin {"next", "refused"}

THEOREM NeverLedAstray == Spec => []StaysOnWay
<1>1. Init => IInv
  BY InitIInv
<1>2. IInv /\ [Next]_vars => IInv'
  BY NextIInv
<1>3. IInv => StaysOnWay
  BY DEF IInv, Searching, Target, StaysOnWay
<1>4. QED BY <1>1, <1>2, <1>3, PTL DEF Spec
=============================================================================
