------------------------- MODULE KernelMemoryProofs -------------------------
(***************************************************************************)
(* Proofs about KernelMemory, for every amount of memory, every size of    *)
(* tables and heap and every request, within the conditions of Within.     *)
(*                                                                         *)
(* That no frame serves two purposes is shown with a ghost: a function     *)
(* that gives every frame one role, and names in the role the one place    *)
(* that may refer to the frame.  Two places that refer to the same frame   *)
(* are then the same place, and no pair of tables has to be compared.      *)
(***************************************************************************)
EXTENDS KernelMemory, WellFoundedInduction, FiniteSetTheorems, TLAPS

\* Where the code keeps what it promises: the heap is within the reach of the
\* one page directory, frame numbers survive the shift of an int (memory below
\* 4 GiB), and segments have one page and no more file data than fits it,
\* since load_elf writes what is longer to the frames that follow the first
\* one, whoever owns them.  A segment may start anywhere in its page, be longer
\* in the file than in memory, and be out of the reach of a page directory.
Within ==
    /\ HeapBase + HeapPages <= Dirs * Entries
    /\ NumFrames <= 2 * IntFrames
    /\ \A s \in Segments : s.memsz \in 1 .. Entries /\ s.filesz <= Entries

-----------------------------------------------------------------------------
(* Numbers.                                                                *)

\* A set of numbers has a least one.
LEMMA Least ==
    ASSUME NEW T \in SUBSET Nat, T # {}
    PROVE  \E n \in T : \A m \in T : n <= m
<1> DEFINE R == OpToRel(<, Nat)
<1>1. IsWellFoundedOn(R, Nat)
  BY NatLessThanWellFounded, Zenon
<1>2. \A i, j \in Nat : i < j => <<i, j>> \in R
  BY DEF OpToRel
<1> HIDE DEF R
<1>3. PICK n \in T : \A m \in T : ~ (<<m, n>> \in R)
  BY <1>1, WFMin
<1>4. ASSUME NEW m \in T PROVE n <= m
  <2>1. ~(m < n)
    BY <1>2, <1>3
  <2>2. QED BY <2>1
<1>5. QED BY <1>4

\* Induction, with a set in place of a predicate.
LEMMA Induct ==
    ASSUME NEW S, 0 \in S, \A n \in Nat : n \in S => n + 1 \in S
    PROVE  \A n \in Nat : n \in S
<1> SUFFICES ASSUME NEW k \in Nat, k \notin S PROVE FALSE
  OBVIOUS
<1> DEFINE T == {n \in Nat : n \notin S}
<1>1. PICK n \in T : \A m \in T : n <= m
  BY Least
<1>2. n \in Nat /\ n # 0 /\ n - 1 \in Nat
  OBVIOUS
<1>3. n - 1 \in S
  BY <1>1, <1>2
<1>4. (n - 1) + 1 = n
  BY <1>2
<1>5. QED BY <1>2, <1>3, <1>4

\* The sizes are numbers.
LEMMA Sizes ==
    /\ Entries \in Nat \ {0} /\ Dirs \in Nat \ {0} /\ HeapBase \in 1 .. Entries
    /\ HeapPages \in Nat /\ NumFrames \in Nat /\ IntFrames \in Nat \ {0}
    /\ BootFrames \subseteq Frames /\ 0 \in BootFrames /\ BootTable = 0 /\ 0 \in Frames
BY LayoutAssumption DEF BootTable

\* Quotient and remainder make up the number, and nothing else does.
LEMMA DivMod ==
    ASSUME NEW e \in Nat \ {0}, NEW v \in Nat
    PROVE  /\ v \div e \in Nat /\ v % e \in 0 .. e - 1
           /\ v = e * (v \div e) + (v % e)
           /\ \A d \in Nat : v < d * e => v \div e < d
OBVIOUS

\* A quotient and a remainder determine each other.
LEMMA DivUnique ==
    ASSUME NEW e \in Nat \ {0}, NEW q \in Nat, NEW r \in 0 .. e - 1, NEW v \in Nat, v = e * q + r
    PROVE  v \div e = q /\ v % e = r
OBVIOUS

\* The pages in the reach of the directory.
Reach == 0 .. Dirs * Entries - 1

\* A page in reach has its own table and entry.
LEMMA Indices ==
    ASSUME NEW v \in Reach
    PROVE  /\ DirIndex(v) \in 0 .. Dirs - 1 /\ TableIndex(v) \in 0 .. Entries - 1
           /\ v = Entries * DirIndex(v) + TableIndex(v)
<1>1. v \in Nat /\ v < Dirs * Entries
  BY Sizes DEF Reach
<1> DEFINE q == v \div Entries
<1>2. q \in Nat /\ q < Dirs /\ v = Entries * q + TableIndex(v) /\ TableIndex(v) \in 0 .. Entries - 1
  BY <1>1, Sizes, DivMod DEF TableIndex
<1>3. DirIndex(v) = q % Dirs
  BY DEF DirIndex
<1> HIDE DEF q
<1>4. q % Dirs = q
  BY <1>2, Sizes
<1>5. QED BY <1>2, <1>3, <1>4, Sizes

\* Two pages with the same indices are the same page.
LEMMA SamePlace ==
    ASSUME NEW v \in Reach, NEW w \in Reach,
           DirIndex(v) = DirIndex(w), TableIndex(v) = TableIndex(w)
    PROVE  v = w
BY Indices, Zenon

\* The first page of the table that a page is in.
LEMMA FirstOfTable ==
    ASSUME NEW v \in Reach
    PROVE  /\ v - TableIndex(v) \in Reach /\ v - TableIndex(v) <= v
           /\ DirIndex(v - TableIndex(v)) = DirIndex(v)
           /\ TableIndex(v - TableIndex(v)) = 0
<1> DEFINE q == DirIndex(v)
           r == TableIndex(v)
           w == v - r
<1>1. v \in Nat /\ v < Dirs * Entries /\ q \in 0 .. Dirs - 1 /\ r \in 0 .. Entries - 1 /\ v = Entries * q + r
  BY Indices, Sizes DEF Reach
<1> HIDE DEF q, r
<1>2. w \in Nat /\ w = Entries * q + 0 /\ w <= v
  BY <1>1, Sizes
<1>3. w \in Reach
  <2> DEFINE z == Dirs * Entries
  <2>1. z \in Nat /\ v < z
    BY <1>1, Sizes
  <2> HIDE DEF z, w
  <2>2. w \in 0 .. z - 1
    BY <1>1, <1>2, <2>1
  <2>3. QED BY <2>2 DEF Reach, z
<1>4. w \div Entries = q /\ w % Entries = 0
  <2> HIDE DEF w
  <2>1. 0 \in 0 .. Entries - 1 /\ q \in Nat
    BY <1>1, Sizes
  <2>2. w \in Nat /\ w = Entries * q + 0 /\ Entries \in Nat \ {0}
    BY <1>1, <1>2, <2>1, Sizes
  <2>3. QED BY <2>1, <2>2, DivUnique
<1>5. q % Dirs = q
  BY <1>1, Sizes
<1>6. DirIndex(w) = q /\ TableIndex(w) = 0
  BY <1>4, <1>5, Zenon DEF DirIndex, TableIndex
<1>7. QED BY <1>2, <1>3, <1>6 DEF q, r

-----------------------------------------------------------------------------
(* The invariant.                                                          *)

Indexes == 0 .. Entries - 1
Entry == [kind : {"pte", "data"}, to : Nat] \cup {Zero}
Page == [Indexes -> Entry]

Memory ==
    [free : SUBSET Frames, mem : [Frames -> Page], kpd : [0 .. Dirs - 1 -> Frames \cup {None}],
     next : Nat, left : Nat, failed : BOOLEAN]

\* What a frame is for.  "lost" is a frame in nobody's reach: on its way to
\* its place, or left behind by a request that failed.
Kinds == {"free", "boot", "ktab", "heap", "pdpt", "pd", "utab", "user", "lost"}
Roles == [Frames -> [kind : Kinds, a : Nat, b : Nat]]

IsA(R, f, k, a, b) == R[f].kind = k /\ R[f].a = a /\ R[f].b = b

\* KernelEntry and UserEntry of any memory.
KEntry(m, v) ==
    IF v >= Dirs * Entries \/ m.kpd[DirIndex(v)] = None THEN Zero
    ELSE m.mem[m.kpd[DirIndex(v)]][TableIndex(v)]
UEntry(m, p, v) ==
    LET d == m.mem[m.mem[p][0].to][UserDirIndex(v)]
    IN  IF d.kind = "pte" THEN m.mem[d.to][TableIndex(v)] ELSE Zero

\* Entry i of the table f points to the frame whose role names this place.
Child(m, R, f, i, k) ==
    /\ m.mem[f][i].kind = "pte" /\ m.mem[f][i].to \in Frames
    /\ IsA(R, m.mem[f][i].to, k, f, i)

Parts(m, R) ==
    /\ \A f \in Frames : f \in m.free <=> R[f].kind = "free"
    /\ \A f \in Frames : R[f].kind = "boot" => f \in BootFrames
    /\ \A f \in BootFrames : R[f].kind = "boot" \/ f = BootTable

KernelSide(m, L, R) ==
    /\ m.kpd[0] = BootTable
    /\ \A d \in 0 .. Dirs - 1 : m.kpd[d] # None => IsA(R, m.kpd[d], "ktab", d, 0)
    /\ \A v \in 0 .. HeapBase - 1 : KEntry(m, v) = Pte(BootTable)
    /\ \A v \in L : /\ v \in Reach /\ v >= HeapBase
                    /\ KEntry(m, v).kind = "pte" /\ KEntry(m, v).to \in Frames
                    /\ IsA(R, KEntry(m, v).to, "heap", v, 0)

UserSide(m, P, R) ==
    /\ P \subseteq Frames
    /\ \A p \in P : R[p].kind = "pdpt" /\ Child(m, R, p, 0, "pd")
    /\ \A f \in Frames : R[f].kind = "pd" =>
         \A i \in Indexes : m.mem[f][i] = Zero \/ Child(m, R, f, i, "utab")
    /\ \A f \in Frames : R[f].kind = "utab" =>
         \A i \in Indexes : m.mem[f][i] = Zero \/ Child(m, R, f, i, "user")

\* With heap pages L in use and address spaces P.
Good(m, L, P, R) ==
    m \in Memory /\ R \in Roles /\ Parts(m, R) /\ KernelSide(m, L, R) /\ UserSide(m, P, R)

\* The place that a role names does refer to the frame; N are the frames on
\* their way.
Backed(m, L, P, R, N) ==
    \A f \in Frames :
        /\ R[f].kind = "lost" => f \in N
        /\ R[f].kind = "ktab" => R[f].a \in 0 .. Dirs - 1 /\ m.kpd[R[f].a] = f
        /\ R[f].kind = "heap" => R[f].a \in L /\ KEntry(m, R[f].a).to = f
        /\ R[f].kind = "pdpt" => f \in P
        /\ R[f].kind = "pd" => R[f].a \in P /\ m.mem[R[f].a][0] = Pte(f)
        /\ R[f].kind = "utab" =>
             /\ R[f].a \in Frames /\ R[R[f].a].kind = "pd"
             /\ R[f].b \in Indexes /\ m.mem[R[f].a][R[f].b] = Pte(f)
        /\ R[f].kind = "user" =>
             /\ R[f].a \in Frames /\ R[R[f].a].kind = "utab"
             /\ R[f].b \in Indexes /\ m.mem[R[f].a][R[f].b] = Pte(f)

\* What load_elf leaves in the page of a segment.
Content(s) == [i \in Indexes |-> IF i < s.filesz THEN Data(s.id + i) ELSE Zero]

\* The segments S are where load_elf reported them.
Present(m, P, S) ==
    \A l \in S :
        /\ l.pdpt \in P /\ l.seg \in Segments
        /\ UEntry(m, l.pdpt, FirstPage(l.seg)).kind = "pte"
        /\ m.mem[UEntry(m, l.pdpt, FirstPage(l.seg)).to] = Content(l.seg)

Counters(m, L) ==
    /\ m.next + m.left = HeapBase + HeapPages /\ m.next >= HeapBase
    /\ L \subseteq HeapBase .. m.next - 1

Explained(R) ==
    /\ Good(mm, live, processes, R)
    /\ (~mm.failed /\ status = "running") =>
         Backed(mm, live, processes, R, {}) /\ Present(mm, processes, loaded)

IInv ==
    /\ status \in {"running", "panic", "fault", "hung"}
    /\ Counters(mm, live) /\ VerifyPanicExplained
    /\ \E R : Explained(R)

-----------------------------------------------------------------------------
(* A change in one part of memory leaves the other parts as they are.      *)

\* An entry without a page is Zero, and one with a page is the Pte of it.
LEMMA Entries2 ==
    /\ Zero \in Entry /\ Zero.kind = "zero" /\ Zero.to = 0
    /\ \A f \in Nat : Pte(f) \in Entry /\ Pte(f).kind = "pte" /\ Pte(f).to = f
    /\ \A e \in Entry : /\ e.kind \in {"zero", "pte", "data"} /\ e.to \in Nat
                        /\ e.kind = "zero" <=> e = Zero
                        /\ e.kind = "pte" => e = Pte(e.to)
    /\ \A f, g \in Nat : Pte(f) = Pte(g) => f = g
    /\ ZeroPage \in Page /\ \A i \in Indexes : ZeroPage[i] = Zero
BY DEF Entry, Zero, Pte, ZeroPage, Page, Indexes

\* The image of the kernel is in reach.
LEMMA LowReach == \A v \in 0 .. HeapBase - 1 : v \in Reach
<1>1. Dirs * Entries >= Entries
  BY Sizes
<1>2. QED BY <1>1, Sizes DEF Reach

\* What is found for a page in reach: the entry of its table.
LEMMA Walked ==
    ASSUME NEW m \in Memory, NEW v \in Reach
    PROVE  /\ m.kpd[DirIndex(v)] \in Frames \cup {None}
           /\ KEntry(m, v) = IF m.kpd[DirIndex(v)] = None THEN Zero
                             ELSE m.mem[m.kpd[DirIndex(v)]][TableIndex(v)]
           /\ KEntry(m, v) \in Entry
<1>1. DirIndex(v) \in 0 .. Dirs - 1 /\ TableIndex(v) \in Indexes
  BY Indices DEF Indexes
<1>2. ~(v >= Dirs * Entries)
  BY Sizes DEF Reach
<1>3. m.kpd[DirIndex(v)] \in Frames \cup {None} /\ m.mem \in [Frames -> Page]
  BY <1>1 DEF Memory
<1>4. KEntry(m, v) = IF m.kpd[DirIndex(v)] = None THEN Zero
                     ELSE m.mem[m.kpd[DirIndex(v)]][TableIndex(v)]
  BY <1>2 DEF KEntry
<1>5. QED BY <1>1, <1>3, <1>4, Entries2 DEF Page

\* No kernel table has changed.
SameKernel(m, m2, R, R2) ==
    /\ m2.kpd = m.kpd
    /\ \A f \in Frames : R[f].kind \in {"ktab", "heap"} => R2[f] = R[f]
    /\ \A f \in Frames : R[f].kind = "ktab" => m2.mem[f] = m.mem[f]

\* What is found for kernel pages stays when no kernel table changes.
LEMMA KernelKept ==
    ASSUME NEW m \in Memory, NEW m2 \in Memory, NEW L, NEW R, NEW R2, KernelSide(m, L, R),
           SameKernel(m, m2, R, R2)
    PROVE  KernelSide(m2, L, R2) /\ \A v \in Reach : KEntry(m2, v) = KEntry(m, v)
<1>1. \A d \in 0 .. Dirs - 1 : m.kpd[d] \in Frames \cup {None}
  BY DEF Memory
<1>2. ASSUME NEW v \in Reach PROVE KEntry(m2, v) = KEntry(m, v)
  <2>1. DirIndex(v) \in 0 .. Dirs - 1
    BY Indices
  <2>2. CASE m.kpd[DirIndex(v)] = None
    BY <2>2, Walked DEF SameKernel
  <2>3. CASE m.kpd[DirIndex(v)] # None
    <3>1. m.kpd[DirIndex(v)] \in Frames /\ R[m.kpd[DirIndex(v)]].kind = "ktab"
      BY <1>1, <2>1, <2>3 DEF KernelSide, IsA
    <3>2. QED BY <3>1, Walked DEF SameKernel
  <2>4. QED BY <2>2, <2>3
<1>3. \A d \in 0 .. Dirs - 1 : m2.kpd[d] # None => IsA(R2, m2.kpd[d], "ktab", d, 0)
  BY <1>1 DEF KernelSide, IsA, SameKernel
<1>4. \A v \in 0 .. HeapBase - 1 : KEntry(m2, v) = Pte(BootTable)
  BY <1>2, LowReach DEF KernelSide
<1>5. ASSUME NEW v \in L
      PROVE  /\ v \in Reach /\ v >= HeapBase
             /\ KEntry(m2, v).kind = "pte" /\ KEntry(m2, v).to \in Frames
             /\ IsA(R2, KEntry(m2, v).to, "heap", v, 0)
  BY <1>2 DEF KernelSide, IsA, SameKernel
<1>6. QED BY <1>2, <1>3, <1>4, <1>5 DEF KernelSide, SameKernel

\* No user table has changed.
SameUser(m, m2, R, R2) ==
    /\ \A f \in Frames : R[f].kind \in {"pdpt", "pd", "utab", "user"} => R2[f] = R[f]
    /\ \A f \in Frames : R2[f].kind \in {"pd", "utab"} => R[f].kind = R2[f].kind
    /\ \A f \in Frames : R[f].kind \in {"pdpt", "pd", "utab"} => m2.mem[f] = m.mem[f]

\* A child stays one where its entry and its role stay.
LEMMA ChildKept ==
    ASSUME NEW m, NEW m2, NEW R, NEW Q, NEW h, NEW i, NEW k, Child(m, R, h, i, k),
           m2.mem[h][i] = m.mem[h][i], Q[m.mem[h][i].to] = R[m.mem[h][i].to]
    PROVE  Child(m2, Q, h, i, k)
BY DEF Child, IsA

\* The shape of the user tables stays when none of them changes.
LEMMA UserKept ==
    ASSUME NEW m, NEW m2, NEW P, NEW R, NEW R2, UserSide(m, P, R), SameUser(m, m2, R, R2)
    PROVE  UserSide(m2, P, R2)
<1>1. \A p \in P : R2[p].kind = "pdpt" /\ Child(m2, R2, p, 0, "pd")
  BY DEF UserSide, Child, IsA, SameUser
<1>2. ASSUME NEW f \in Frames, R2[f].kind = "pd", NEW i \in Indexes
      PROVE  m2.mem[f][i] = Zero \/ Child(m2, R2, f, i, "utab")
  <2>1. m2.mem[f] = m.mem[f] /\ (m.mem[f][i] = Zero \/ Child(m, R, f, i, "utab"))
    BY <1>2 DEF UserSide, SameUser
  <2>2. CASE Child(m, R, f, i, "utab")
    <3>1. R2[m.mem[f][i].to] = R[m.mem[f][i].to]
      BY <2>2 DEF Child, IsA, SameUser
    <3>2. QED BY <2>1, <2>2, <3>1, ChildKept
  <2>3. QED BY <2>1, <2>2
<1>3. ASSUME NEW f \in Frames, R2[f].kind = "utab", NEW i \in Indexes
      PROVE  m2.mem[f][i] = Zero \/ Child(m2, R2, f, i, "user")
  <2>1. m2.mem[f] = m.mem[f] /\ (m.mem[f][i] = Zero \/ Child(m, R, f, i, "user"))
    BY <1>3 DEF UserSide, SameUser
  <2>2. CASE Child(m, R, f, i, "user")
    <3>1. R2[m.mem[f][i].to] = R[m.mem[f][i].to]
      BY <2>2 DEF Child, IsA, SameUser
    <3>2. QED BY <2>1, <2>2, <3>1, ChildKept
  <2>3. QED BY <2>1, <2>2
<1>4. QED BY <1>1, <1>2, <1>3 DEF UserSide

\* User tables gain entries and lose none.
Grows(m, m2, R) ==
    \A f \in Frames :
        /\ R[f].kind \in {"pdpt", "user"} => m2.mem[f] = m.mem[f]
        /\ R[f].kind \in {"pd", "utab"} =>
             \A i \in Indexes : m.mem[f][i] # Zero => m2.mem[f][i] = m.mem[f][i]

\* The indices of a segment's page.
LEMMA SegmentIndices ==
    ASSUME NEW s \in Segments
    PROVE  /\ UserDirIndex(FirstPage(s)) \in Indexes /\ TableIndex(FirstPage(s)) \in Indexes
           /\ FirstPage(s) \in Nat
<1>1. s.vaddr \in Nat
  BY LayoutAssumption
<1>2. FirstPage(s) \in Nat
  BY <1>1, Sizes, DivMod DEF FirstPage
<1>3. FirstPage(s) \div Entries \in Nat /\ FirstPage(s) % Entries \in 0 .. Entries - 1
  BY <1>2, Sizes, DivMod
<1>4. (FirstPage(s) \div Entries) % Entries \in 0 .. Entries - 1
  BY <1>3, Sizes, DivMod
<1>5. QED BY <1>2, <1>3, <1>4, Sizes DEF Indexes, TableIndex, UserDirIndex

\* The segments S are found where they were, in user pages.
Found(m, m2, R, S) ==
    \A l \in S : /\ UEntry(m2, l.pdpt, FirstPage(l.seg)) = UEntry(m, l.pdpt, FirstPage(l.seg))
                 /\ UEntry(m, l.pdpt, FirstPage(l.seg)).to \in Frames
                 /\ R[UEntry(m, l.pdpt, FirstPage(l.seg)).to].kind = "user"

\* Loaded segments stay where they are when user tables only gain entries.
LEMMA PresentKept ==
    ASSUME NEW m \in Memory, NEW m2, NEW P, NEW P2, NEW R, NEW S, UserSide(m, P, R),
           Present(m, P, S), Grows(m, m2, R), P \subseteq P2
    PROVE  Present(m2, P2, S) /\ Found(m, m2, R, S)
<1> SUFFICES ASSUME NEW l \in S
             PROVE  /\ l.pdpt \in P2 /\ l.seg \in Segments
                    /\ UEntry(m2, l.pdpt, FirstPage(l.seg)).kind = "pte"
                    /\ m2.mem[UEntry(m2, l.pdpt, FirstPage(l.seg)).to] = Content(l.seg)
                    /\ UEntry(m2, l.pdpt, FirstPage(l.seg)) = UEntry(m, l.pdpt, FirstPage(l.seg))
                    /\ UEntry(m, l.pdpt, FirstPage(l.seg)).to \in Frames
                    /\ R[UEntry(m, l.pdpt, FirstPage(l.seg)).to].kind = "user"
  BY DEF Present, Found
<1> DEFINE p == l.pdpt
           pd == m.mem[p][0].to
           d == UserDirIndex(FirstPage(l.seg))
           i == TableIndex(FirstPage(l.seg))
           t == m.mem[pd][d].to
           u == m.mem[t][i].to
<1>1. p \in P /\ l.seg \in Segments /\ UEntry(m, p, FirstPage(l.seg)).kind = "pte"
      /\ m.mem[UEntry(m, p, FirstPage(l.seg)).to] = Content(l.seg)
  BY DEF Present
<1>2. d \in Indexes /\ i \in Indexes
  BY <1>1, SegmentIndices
<1>3. p \in Frames /\ R[p].kind = "pdpt" /\ pd \in Frames /\ R[pd].kind = "pd"
  BY <1>1 DEF UserSide, Child, IsA
<1>4. m.mem[pd][d].kind = "pte" /\ UEntry(m, p, FirstPage(l.seg)) = m.mem[t][i]
  BY <1>1 DEF UEntry, Zero
<1>5. t \in Frames /\ R[t].kind = "utab" /\ m.mem[pd][d] # Zero
  <2>1. m.mem[pd][d] # Zero
    BY <1>4, Entries2, Zenon
  <2>2. Child(m, R, pd, d, "utab")
    <3> HIDE DEF pd, d
    <3>1. QED BY <1>2, <1>3, <2>1 DEF UserSide
  <2>3. QED BY <2>1, <2>2 DEF Child, IsA
<1>6. u \in Frames /\ R[u].kind = "user" /\ m.mem[t][i] # Zero /\ m.mem[t][i].kind = "pte"
  <2>1. m.mem[t][i] # Zero
    <3>1. m.mem[t][i].kind = "pte"
      BY <1>1, <1>4, Zenon
    <3>2. QED BY <3>1, Entries2, Zenon
  <2>2. Child(m, R, t, i, "user")
    <3> HIDE DEF t, i
    <3>1. QED BY <1>2, <1>5, <2>1 DEF UserSide
  <2>3. QED BY <2>1, <2>2 DEF Child, IsA
<1>7. m2.mem[p] = m.mem[p] /\ m2.mem[pd][d] = m.mem[pd][d] /\ m2.mem[t][i] = m.mem[t][i] /\ m2.mem[u] = m.mem[u]
  BY <1>2, <1>3, <1>5, <1>6 DEF Grows
<1>8. UEntry(m2, p, FirstPage(l.seg)) = m.mem[t][i]
  BY <1>4, <1>7 DEF UEntry
<1>9. QED BY <1>1, <1>4, <1>6, <1>7, <1>8

-----------------------------------------------------------------------------
(* The steps that the operations are made of.                              *)

Holds(m, L, P, S, R, N) ==
    /\ Good(m, L, P, R)
    /\ ~m.failed => Backed(m, L, P, R, N) /\ Present(m, P, S)

\* What the steps ask for and leave behind.
Is(R, f, k) == R[f].kind = k
Blank(m, f) == m.mem[f] = ZeroPage
Vacant(m, f, i) == m.mem[f][i] = Zero
Steady(m, m2) == m2.next = m.next /\ m2.left = m.left /\ m2.failed = m.failed
Quiet(m, m2) == m2.next = m.next /\ m2.left = m.left
SameDirectory(m, m2) == m2.kpd = m.kpd
OthersKept(m, m2, f) == \A g \in Frames : g # f => m2.mem[g] = m.mem[g]
RolesKept(R, Q, f) == \A g \in Frames : g # f => Q[g] = R[g]

\* Frame f gets a new role.
Give(R, f, k, a, b) == [R EXCEPT ![f] = [kind |-> k, a |-> a, b |-> b]]

\* Only the role of f changes.
LEMMA Given ==
    ASSUME NEW R \in Roles, NEW f \in Frames, NEW k \in Kinds, NEW a \in Nat, NEW b \in Nat
    PROVE  /\ Give(R, f, k, a, b) \in Roles /\ IsA(Give(R, f, k, a, b), f, k, a, b)
           /\ \A g \in Frames : g # f => Give(R, f, k, a, b)[g] = R[g]
BY DEF Give, Roles, IsA

\* None is not a frame.
LEMMA FramesAreNumbers == Frames \subseteq Nat /\ None \notin Frames /\ None \notin Nat
BY Sizes DEF Frames, None

\* Frames of the boot loader have no role that changes.
LEMMA BootRole ==
    ASSUME NEW m, NEW L, NEW R, Parts(m, R), KernelSide(m, L, R), NEW f \in BootFrames
    PROVE  R[f].kind \in {"boot", "ktab"}
<1>1. CASE f = BootTable
  <2>1. 0 \in 0 .. Dirs - 1 /\ m.kpd[0] # None
    BY Sizes, FramesAreNumbers DEF KernelSide
  <2>2. QED BY <1>1, <2>1 DEF KernelSide, IsA
<1>2. CASE f # BootTable
  BY <1>2 DEF Parts
<1>3. QED BY <1>1, <1>2

\* Frame p is taken and zeroed.
Taken(m, m2, p) == p \in m.free /\ m2 = [m EXCEPT !.free = @ \ {p}, !.mem[p] = ZeroPage]

\* A frame that was free is on its way when it is taken.
LEMMA TakeFrame ==
    ASSUME NEW m, NEW L, NEW P, NEW S, NEW R, NEW N, Holds(m, L, P, S, R, N),
           NEW p, NEW m2, Taken(m, m2, p)
    PROVE  /\ p \in Frames /\ Blank(m2, p) /\ Is(R, p, "free")
           /\ Steady(m, m2) /\ SameDirectory(m, m2)
           /\ Holds(m2, L, P, S, Give(R, p, "lost", 0, 0), N \cup {p})
           /\ Is(Give(R, p, "lost", 0, 0), p, "lost")
           /\ OthersKept(m, m2, p) /\ RolesKept(R, Give(R, p, "lost", 0, 0), p)
<1>1. m \in Memory /\ R \in Roles /\ Parts(m, R) /\ KernelSide(m, L, R) /\ UserSide(m, P, R)
  BY DEF Holds, Good
<1>2. /\ m2 \in Memory /\ p \in Frames
      /\ m2.free = m.free \ {p} /\ m2.mem = [m.mem EXCEPT ![p] = ZeroPage]
      /\ m2.next = m.next /\ m2.left = m.left /\ m2.failed = m.failed /\ m2.kpd = m.kpd
  <2>1. p \in Frames
    BY <1>1 DEF Memory, Taken
  <2>2. QED BY <1>1, <2>1, Entries2 DEF Memory, Taken
<1>3. m2.mem[p] = ZeroPage /\ \A f \in Frames : f # p => m2.mem[f] = m.mem[f]
  BY <1>1, <1>2 DEF Memory
<1> DEFINE Q == Give(R, p, "lost", 0, 0)
<1>4. Q \in Roles /\ IsA(Q, p, "lost", 0, 0) /\ \A g \in Frames : g # p => Q[g] = R[g]
  BY <1>1, <1>2, Given DEF Kinds
<1> HIDE DEF Q
<1>5. R[p].kind = "free" /\ p \notin BootFrames
  BY <1>1, <1>2, BootRole DEF Parts, Taken
<1>6. Parts(m2, Q)
  BY <1>1, <1>2, <1>4, <1>5, Sizes DEF Parts, IsA
<1>7. KernelSide(m2, L, Q) /\ \A v \in Reach : KEntry(m2, v) = KEntry(m, v)
  <2>1. SameKernel(m, m2, R, Q)
    BY <1>2, <1>3, <1>4, <1>5 DEF SameKernel
  <2>2. QED BY <1>1, <1>2, <2>1, KernelKept
<1>8. UserSide(m2, P, Q)
  <2>1. SameUser(m, m2, R, Q)
    BY <1>3, <1>4, <1>5 DEF SameUser, IsA
  <2>2. QED BY <1>1, <2>1, UserKept
<1>9. ASSUME ~m.failed PROVE Backed(m2, L, P, Q, N \cup {p}) /\ Present(m2, P, S)
  <2>1. Backed(m, L, P, R, N) /\ Present(m, P, S)
    BY <1>9 DEF Holds
  <2>2. Present(m2, P, S)
    <3>1. Grows(m, m2, R)
      BY <1>3, <1>5 DEF Grows
    <3>2. QED BY <1>1, <2>1, <3>1, PresentKept
  <2>3. \A f \in Frames : R[f].kind = "heap" => R[f].a \in Reach
    BY <1>1, <2>1 DEF Backed, KernelSide
  <2>4. QED BY <1>1, <1>2, <1>3, <1>4, <1>5, <1>7, <2>1, <2>2, <2>3 DEF Backed, UserSide, IsA
<1>10. QED
  <2>1. Blank(m2, p) /\ Is(R, p, "free") /\ Steady(m, m2) /\ SameDirectory(m, m2) /\ OthersKept(m, m2, p)
    BY <1>2, <1>3, <1>5 DEF Blank, Is, Steady, SameDirectory, OthersKept
  <2>2. Is(Q, p, "lost") /\ RolesKept(R, Q, p)
    BY <1>4 DEF Is, IsA, RolesKept
  <2>3. Holds(m2, L, P, S, Q, N \cup {p})
    BY <1>2, <1>4, <1>6, <1>7, <1>8, <1>9 DEF Holds, Good
  <2>4. QED BY <1>2, <2>1, <2>2, <2>3 DEF Q

\* Entry i of the frame t is written, and nothing else.
Written(m, m2, t, i, e) == m2 = [m EXCEPT !.mem[t][i] = e]

\* What a write changes and leaves alone.
LEMMA Writing ==
    ASSUME NEW m \in Memory, NEW t \in Frames, NEW i \in Indexes, NEW e \in Entry,
           NEW m2, Written(m, m2, t, i, e)
    PROVE  /\ m2 \in Memory /\ m2.free = m.free /\ m2.kpd = m.kpd
           /\ m2.next = m.next /\ m2.left = m.left /\ m2.failed = m.failed
           /\ \A g \in Frames : g # t => m2.mem[g] = m.mem[g]
           /\ m2.mem[t][i] = e /\ \A j \in Indexes : j # i => m2.mem[t][j] = m.mem[t][j]
<1> DEFINE q == [m.mem[t] EXCEPT ![i] = e]
           n == [m.mem EXCEPT ![t] = q]
<1>1. m2 = [m EXCEPT !.mem = n]
  BY DEF Written
<1>2. m.mem \in [Frames -> Page] /\ m.mem[t] \in [Indexes -> Entry]
  BY DEF Memory, Page
<1>3. q \in Page /\ q[i] = e /\ \A j \in Indexes : j # i => q[j] = m.mem[t][j]
  BY <1>2 DEF Page
<1> HIDE DEF q
<1>4. n \in [Frames -> Page] /\ n[t] = q /\ \A g \in Frames : g # t => n[g] = m.mem[g]
  BY <1>2, <1>3
<1> HIDE DEF n
<1>5. /\ m2 \in Memory /\ m2.free = m.free /\ m2.kpd = m.kpd /\ m2.mem = n
      /\ m2.next = m.next /\ m2.left = m.left /\ m2.failed = m.failed
  BY <1>1, <1>4 DEF Memory
<1>6. QED BY <1>3, <1>4, <1>5

\* Entry d of the directory, where there was no table, is written.
Linked(m, m2, d, p) ==
    d \in 0 .. Dirs - 1 /\ m.kpd[d] = None /\ m2 = [m EXCEPT !.kpd[d] = p]
HasTable(m, d, p) == m.kpd[d] = p

\* A zeroed frame becomes the page table of directory entry d.
LEMMA LinkTable ==
    ASSUME NEW m, NEW L, NEW P, NEW S, NEW R, NEW N, Holds(m, L, P, S, R, N),
           NEW p \in Frames, Is(R, p, "lost"), Blank(m, p), NEW d, NEW m2, Linked(m, m2, d, p)
    PROVE  /\ Steady(m, m2) /\ HasTable(m2, d, p)
           /\ Holds(m2, L, P, S, Give(R, p, "ktab", d, 0), N \ {p})
           /\ RolesKept(R, Give(R, p, "ktab", d, 0), p)
<1>0. d \in 0 .. Dirs - 1 /\ m.kpd[d] = None
  BY DEF Linked
<1> USE <1>0 DEF Is, Blank
<1>1. m \in Memory /\ R \in Roles /\ Parts(m, R) /\ KernelSide(m, L, R) /\ UserSide(m, P, R)
  BY DEF Holds, Good
<1>2. /\ m2 \in Memory /\ m2.free = m.free /\ m2.mem = m.mem /\ m2.kpd = [m.kpd EXCEPT ![d] = p]
      /\ m2.next = m.next /\ m2.left = m.left /\ m2.failed = m.failed
  BY <1>1 DEF Memory, Linked
<1>3. m2.kpd[d] = p /\ \A e \in 0 .. Dirs - 1 : e # d => m2.kpd[e] = m.kpd[e]
  BY <1>1, <1>2 DEF Memory
<1> DEFINE Q == Give(R, p, "ktab", d, 0)
<1>4. Q \in Roles /\ IsA(Q, p, "ktab", d, 0) /\ \A g \in Frames : g # p => Q[g] = R[g]
  <2>1. R \in Roles /\ "ktab" \in Kinds /\ d \in Nat /\ 0 \in Nat
    BY <1>1, Sizes DEF Kinds
  <2>2. QED BY ONLY <2>1, p \in Frames, Given DEF Q
<1> HIDE DEF Q
<1>5. p \notin BootFrames /\ d # 0
  BY <1>1, BootRole, Sizes, FramesAreNumbers DEF KernelSide
<1>6. Parts(m2, Q)
  BY <1>1, <1>2, <1>4, <1>5, Sizes DEF Parts, IsA
<1>7. ASSUME NEW v \in Reach PROVE KEntry(m2, v) = KEntry(m, v)
  <2>1. DirIndex(v) \in 0 .. Dirs - 1 /\ TableIndex(v) \in Indexes
    BY Indices DEF Indexes
  <2>2. CASE DirIndex(v) = d
    <3>1. KEntry(m2, v) = ZeroPage[TableIndex(v)]
      BY <1>2, <1>3, <2>2, Walked, FramesAreNumbers
    <3>2. KEntry(m, v) = Zero
      BY <1>1, <2>2, Walked
    <3>3. QED BY <2>1, <3>1, <3>2, Entries2
  <2>3. CASE DirIndex(v) # d
    <3>1. m2.kpd[DirIndex(v)] = m.kpd[DirIndex(v)]
      BY <1>3, <2>1, <2>3
    <3>2. QED BY <1>1, <1>2, <3>1, Walked
  <2>4. QED BY <2>2, <2>3
<1>8. KernelSide(m2, L, Q)
  <2>1. m2.kpd[0] = BootTable
    BY <1>1, <1>3, <1>5, Sizes DEF KernelSide
  <2>2. ASSUME NEW e \in 0 .. Dirs - 1, m2.kpd[e] # None PROVE IsA(Q, m2.kpd[e], "ktab", e, 0)
    <3>1. CASE e = d
      BY <1>3, <1>4, <3>1
    <3>2. CASE e # d
      <4>1. IsA(R, m.kpd[e], "ktab", e, 0) /\ m.kpd[e] \in Frames /\ m2.kpd[e] = m.kpd[e]
        BY <1>1, <1>3, <2>2, <3>2 DEF KernelSide, Memory
      <4>2. QED BY <1>4, <4>1 DEF IsA
    <3>3. QED BY <3>1, <3>2
  <2>3. \A v \in 0 .. HeapBase - 1 : KEntry(m2, v) = Pte(BootTable)
    BY <1>1, <1>7, LowReach DEF KernelSide
  <2>4. ASSUME NEW v \in L
        PROVE  /\ v \in Reach /\ v >= HeapBase
               /\ KEntry(m2, v).kind = "pte" /\ KEntry(m2, v).to \in Frames
               /\ IsA(Q, KEntry(m2, v).to, "heap", v, 0)
    BY <1>1, <1>4, <1>7 DEF KernelSide, IsA
  <2>5. QED BY <2>1, <2>2, <2>3, <2>4 DEF KernelSide
<1>9. UserSide(m2, P, Q)
  <2>1. SameUser(m, m2, R, Q)
    BY <1>2, <1>4 DEF SameUser, IsA
  <2>2. QED BY <1>1, <2>1, UserKept
<1>10. ASSUME ~m.failed PROVE Backed(m2, L, P, Q, N \ {p}) /\ Present(m2, P, S)
  <2>1. Backed(m, L, P, R, N) /\ Present(m, P, S)
    BY <1>10 DEF Holds
  <2>2. Present(m2, P, S)
    <3>1. Grows(m, m2, R)
      BY <1>2 DEF Grows
    <3>2. QED BY <1>1, <2>1, <3>1, PresentKept
  <2>3. \A f \in Frames : R[f].kind = "heap" => R[f].a \in Reach
    BY <1>1, <2>1 DEF Backed, KernelSide
  <2>4. \A f \in Frames : R[f].kind = "ktab" => R[f].a # d
    BY <2>1, FramesAreNumbers DEF Backed
  <2>5. QED BY <1>1, <1>2, <1>3, <1>4, <1>7, <2>1, <2>2, <2>3, <2>4 DEF Backed, UserSide, IsA
<1>11. QED
  <2>1. Steady(m, m2) /\ HasTable(m2, d, p) /\ RolesKept(R, Q, p)
    BY <1>2, <1>3, <1>4 DEF Steady, HasTable, RolesKept
  <2>2. Holds(m2, L, P, S, Q, N \ {p})
    BY <1>2, <1>4, <1>6, <1>8, <1>9, <1>10 DEF Holds, Good
  <2>3. QED BY <2>1, <2>2 DEF Q

\* The entry of the page v, which has a table, is written.
Mapped(m, m2, v, e) ==
    m.kpd[DirIndex(v)] # None /\ Written(m, m2, m.kpd[DirIndex(v)], TableIndex(v), e)

\* A write to the entry of the page v changes what is found for v only.
LEMMA EntryWritten ==
    ASSUME NEW m \in Memory, NEW L, NEW R, KernelSide(m, L, R), NEW v \in Reach,
           NEW e \in Entry, NEW m2, Mapped(m, m2, v, e)
    PROVE  /\ KEntry(m2, v) = e
           /\ \A w \in Reach : w # v => KEntry(m2, w) = KEntry(m, w)
<1> DEFINE d == DirIndex(v)
           i == TableIndex(v)
           t == m.kpd[d]
<1>1. d \in 0 .. Dirs - 1 /\ i \in Indexes
  BY Indices DEF Indexes
<1>2. t \in Frames /\ IsA(R, t, "ktab", d, 0)
  BY <1>1 DEF KernelSide, Memory, Mapped
<1>3. Written(m, m2, t, i, e)
  BY DEF Mapped
<1> HIDE DEF d, i, t
<1>4. /\ m2 \in Memory /\ m2.kpd = m.kpd
      /\ \A g \in Frames : g # t => m2.mem[g] = m.mem[g]
      /\ m2.mem[t][i] = e /\ \A j \in Indexes : j # i => m2.mem[t][j] = m.mem[t][j]
  BY <1>1, <1>2, <1>3, Writing
<1>5. KEntry(m2, v) = e
  BY <1>2, <1>4, Walked, FramesAreNumbers DEF d, i, t
<1>6. ASSUME NEW w \in Reach, w # v PROVE KEntry(m2, w) = KEntry(m, w)
  <2>1. DirIndex(w) \in 0 .. Dirs - 1 /\ TableIndex(w) \in Indexes
    BY Indices DEF Indexes
  <2>2. CASE DirIndex(w) = d
    <3>1. TableIndex(w) # i
      BY <1>6, <2>2, SamePlace DEF d, i
    <3>2. QED BY <1>2, <1>4, <2>1, <2>2, <3>1, Walked DEF t
  <2>3. CASE DirIndex(w) # d
    <3>1. m.kpd[DirIndex(w)] # None => m.kpd[DirIndex(w)] # t /\ m.kpd[DirIndex(w)] \in Frames
      <4>1. m.kpd[DirIndex(w)] \in Frames \cup {None}
        BY <2>1 DEF Memory
      <4>2. m.kpd[DirIndex(w)] # None => R[m.kpd[DirIndex(w)]].a = DirIndex(w)
        BY <2>1 DEF KernelSide, IsA
      <4>3. R[t].a = d
        BY <1>2 DEF IsA
      <4>4. QED BY <2>3, <4>1, <4>2, <4>3
    <3>2. QED BY <1>4, <2>1, <3>1, Walked
  <2>4. QED BY <2>2, <2>3
<1>7. QED BY <1>5, <1>6

\* A frame is mapped at the heap page v.
LEMMA MapPage ==
    ASSUME NEW m, NEW L, NEW P, NEW S, NEW R, NEW N, Holds(m, L, P, S, R, N),
           NEW f \in Frames, Is(R, f, "lost"),
           NEW v \in Reach, v >= HeapBase, v \notin L, NEW m2, Mapped(m, m2, v, Pte(f))
    PROVE  /\ Steady(m, m2)
           /\ Holds(m2, L \cup {v}, P, S, Give(R, f, "heap", v, 0), N \ {f})
<1>1. m \in Memory /\ R \in Roles /\ Parts(m, R) /\ KernelSide(m, L, R) /\ UserSide(m, P, R)
  BY DEF Holds, Good
<1> DEFINE d == DirIndex(v)
           i == TableIndex(v)
           t == m.kpd[d]
<1>2. d \in 0 .. Dirs - 1 /\ i \in Indexes /\ v \in Nat
  BY Indices, Sizes DEF Indexes, Reach
<1> USE DEF Is
<1>0. t # None /\ Written(m, m2, m.kpd[DirIndex(v)], TableIndex(v), Pte(f))
  BY DEF Mapped
<1>3. t \in Frames /\ IsA(R, t, "ktab", d, 0)
  BY <1>0, <1>1, <1>2 DEF KernelSide, Memory
<1>4. f \in Nat /\ Pte(f) \in Entry
  BY FramesAreNumbers, Entries2
<1>5. Written(m, m2, t, i, Pte(f))
  BY <1>0
<1> HIDE DEF d, i, t
<1>6. /\ m2 \in Memory /\ m2.free = m.free /\ m2.kpd = m.kpd
      /\ m2.next = m.next /\ m2.left = m.left /\ m2.failed = m.failed
  <2> HIDE DEF Is
  <2>1. m \in Memory /\ t \in Frames /\ i \in Indexes /\ Pte(f) \in Entry /\ Written(m, m2, t, i, Pte(f))
    BY <1>1, <1>2, <1>3, <1>4, <1>5
  <2>2. m2 \in Memory /\ m2.free = m.free /\ m2.kpd = m.kpd
    BY <2>1, Writing
  <2>3. m2.next = m.next /\ m2.left = m.left /\ m2.failed = m.failed
    BY <2>1, Writing
  <2>4. QED BY <2>2, <2>3
<1>7. /\ \A g \in Frames : g # t => m2.mem[g] = m.mem[g]
      /\ m2.mem[t][i] = Pte(f) /\ \A j \in Indexes : j # i => m2.mem[t][j] = m.mem[t][j]
  BY <1>1, <1>2, <1>3, <1>4, <1>5, Writing
<1> DEFINE Q == Give(R, f, "heap", v, 0)
<1>8. Q \in Roles /\ IsA(Q, f, "heap", v, 0) /\ \A g \in Frames : g # f => Q[g] = R[g]
  <2>1. "heap" \in Kinds /\ v \in Nat /\ 0 \in Nat
    BY <1>2 DEF Kinds
  <2>2. QED BY <1>1, <2>1, Given
<1> HIDE DEF Q
<1>9. f \notin BootFrames
  BY <1>1, BootRole
<1>10. Parts(m2, Q)
  BY <1>1, <1>6, <1>8, <1>9, Sizes DEF Parts, IsA
<1>11. KEntry(m2, v) = Pte(f)
  BY <1>1, <1>4, EntryWritten
<1>12. \A w \in Reach : w # v => KEntry(m2, w) = KEntry(m, w)
  BY <1>1, <1>4, EntryWritten
<1>13. KernelSide(m2, L \cup {v}, Q)
  <2>1. m2.kpd[0] = BootTable
    BY <1>1, <1>6 DEF KernelSide
  <2>2. \A e \in 0 .. Dirs - 1 : m2.kpd[e] # None => IsA(Q, m2.kpd[e], "ktab", e, 0)
    <3>1. \A e \in 0 .. Dirs - 1 : m.kpd[e] \in Frames \cup {None}
      BY <1>1 DEF Memory
    <3>2. QED BY <1>1, <1>6, <1>8, <3>1 DEF KernelSide, IsA
  <2>3. \A w \in 0 .. HeapBase - 1 : KEntry(m2, w) = Pte(BootTable)
    <3>1. \A w \in 0 .. HeapBase - 1 : w # v /\ w \in Reach
      BY <1>2, LowReach, Sizes
    <3>2. QED BY <1>1, <1>12, <3>1 DEF KernelSide
  <2>4. ASSUME NEW w \in L \cup {v}
        PROVE  /\ w \in Reach /\ w >= HeapBase
               /\ KEntry(m2, w).kind = "pte" /\ KEntry(m2, w).to \in Frames
               /\ IsA(Q, KEntry(m2, w).to, "heap", w, 0)
    <3>1. CASE w = v
      BY <1>4, <1>8, <1>11, <3>1, Entries2
    <3>2. CASE w # v
      <4>1. w \in L
        BY <3>2
      <4>2. QED BY <1>1, <1>8, <1>12, <3>2, <4>1 DEF KernelSide, IsA
    <3>3. QED BY <3>1, <3>2
  <2>5. QED BY <2>1, <2>2, <2>3, <2>4 DEF KernelSide
<1>14. UserSide(m2, P, Q)
  <2>1. SameUser(m, m2, R, Q)
    BY <1>3, <1>7, <1>8 DEF SameUser, IsA
  <2>2. QED BY <1>1, <2>1, UserKept
<1>15. ASSUME ~m.failed PROVE Backed(m2, L \cup {v}, P, Q, N \ {f}) /\ Present(m2, P, S)
  <2>1. Backed(m, L, P, R, N) /\ Present(m, P, S)
    BY <1>15 DEF Holds
  <2>2. Present(m2, P, S)
    <3>1. Grows(m, m2, R)
      BY <1>3, <1>7 DEF Grows, IsA
    <3>2. QED BY <1>1, <2>1, <3>1, PresentKept
  <2>3. \A g \in Frames : R[g].kind = "heap" => R[g].a \in Reach /\ R[g].a # v
    BY <1>1, <2>1 DEF Backed, KernelSide
  <2>4. Backed(m2, L \cup {v}, P, Q, N \ {f})
    <3>1. ASSUME NEW g \in Frames, g # f, Q[g].kind \in {"pd", "utab", "user"}
          PROVE  /\ Q[g].kind = "pd" => Q[g].a \in P /\ m2.mem[Q[g].a][0] = Pte(g)
                 /\ Q[g].kind = "utab" =>
                      /\ Q[g].a \in Frames /\ Q[Q[g].a].kind = "pd"
                      /\ Q[g].b \in Indexes /\ m2.mem[Q[g].a][Q[g].b] = Pte(g)
                 /\ Q[g].kind = "user" =>
                      /\ Q[g].a \in Frames /\ Q[Q[g].a].kind = "utab"
                      /\ Q[g].b \in Indexes /\ m2.mem[Q[g].a][Q[g].b] = Pte(g)
      BY <1>1, <1>3, <1>7, <1>8, <2>1, <3>1 DEF Backed, UserSide, IsA
    <3>2. ASSUME NEW g \in Frames, g # f, Q[g].kind \in {"lost", "ktab", "heap", "pdpt"}
          PROVE  /\ Q[g].kind = "lost" => g \in N \ {f}
                 /\ Q[g].kind = "ktab" => Q[g].a \in 0 .. Dirs - 1 /\ m2.kpd[Q[g].a] = g
                 /\ Q[g].kind = "heap" => Q[g].a \in L \cup {v} /\ KEntry(m2, Q[g].a).to = g
                 /\ Q[g].kind = "pdpt" => g \in P
      BY <1>6, <1>8, <1>12, <2>1, <2>3, <3>2 DEF Backed
    <3>3. KEntry(m2, v).to = f
      BY <1>4, <1>11, Entries2
    <3>4. QED BY <1>8, <3>1, <3>2, <3>3 DEF Backed, IsA
  <2>5. QED BY <2>2, <2>4
<1>16. QED
  <2>1. Steady(m, m2)
    BY <1>6 DEF Steady
  <2>2. Holds(m2, L \cup {v}, P, S, Q, N \ {f})
    BY <1>6, <1>8, <1>10, <1>13, <1>14, <1>15 DEF Holds, Good
  <2>3. QED BY <2>1, <2>2 DEF Q

\* The frame of the heap page v is given back.
Freed(m, m2, v) == m2 = [m EXCEPT !.free = @ \cup {KEntry(m, v).to}]

\* The frame is free, and the page no longer in use.
LEMMA ReleaseFrame ==
    ASSUME NEW m, NEW L, NEW P, NEW S, NEW R, NEW N, Holds(m, L, P, S, R, N),
           NEW v \in L, NEW m2, Freed(m, m2, v)
    PROVE  Steady(m, m2) /\ SameDirectory(m, m2) /\ \E Q : Holds(m2, L \ {v}, P, S, Q, N)
<1>1. m \in Memory /\ R \in Roles /\ Parts(m, R) /\ KernelSide(m, L, R) /\ UserSide(m, P, R)
  BY DEF Holds, Good
<1> DEFINE f == KEntry(m, v).to
           Q == Give(R, f, "free", 0, 0)
<1>2. f \in Frames /\ IsA(R, f, "heap", v, 0)
  BY <1>1 DEF KernelSide
<1>3. m2 = [m EXCEPT !.free = @ \cup {f}]
  BY DEF Freed
<1>4. \A w \in L : KEntry(m, w).to = f => w = v
  BY <1>1, <1>2 DEF KernelSide, IsA
<1> HIDE DEF f
<1>5. /\ m2 \in Memory /\ m2.free = m.free \cup {f} /\ m2.kpd = m.kpd /\ m2.mem = m.mem
      /\ m2.next = m.next /\ m2.left = m.left /\ m2.failed = m.failed
  BY <1>1, <1>2, <1>3 DEF Memory
<1>6. Q \in Roles /\ IsA(Q, f, "free", 0, 0) /\ \A g \in Frames : g # f => Q[g] = R[g]
  BY <1>1, <1>2, Given DEF Kinds
<1> HIDE DEF Q
<1>7. f \notin BootFrames
  BY <1>1, <1>2, BootRole DEF IsA
<1>8. Parts(m2, Q)
  BY <1>1, <1>5, <1>6, <1>7, Sizes DEF Parts, IsA
<1>9. \A w \in Reach : KEntry(m2, w) = KEntry(m, w)
  BY <1>1, <1>5, Walked
<1>10. KernelSide(m2, L \ {v}, Q)
  <2>1. m2.kpd[0] = BootTable /\ \A e \in 0 .. Dirs - 1 : m2.kpd[e] # None => IsA(Q, m2.kpd[e], "ktab", e, 0)
    <3>1. \A e \in 0 .. Dirs - 1 : m.kpd[e] \in Frames \cup {None}
      BY <1>1 DEF Memory
    <3>2. QED BY <1>1, <1>2, <1>5, <1>6, <3>1 DEF KernelSide, IsA
  <2>2. \A w \in 0 .. HeapBase - 1 : KEntry(m2, w) = Pte(BootTable)
    BY <1>1, <1>9, LowReach DEF KernelSide
  <2>3. ASSUME NEW w \in L \ {v}
        PROVE  /\ w \in Reach /\ w >= HeapBase
               /\ KEntry(m2, w).kind = "pte" /\ KEntry(m2, w).to \in Frames
               /\ IsA(Q, KEntry(m2, w).to, "heap", w, 0)
    BY <1>1, <1>4, <1>6, <1>9 DEF KernelSide, IsA
  <2>4. QED BY <2>1, <2>2, <2>3 DEF KernelSide
<1>11. UserSide(m2, P, Q)
  <2>1. SameUser(m, m2, R, Q)
    BY <1>2, <1>5, <1>6 DEF SameUser, IsA
  <2>2. QED BY <1>1, <2>1, UserKept
<1>12. ASSUME ~m.failed PROVE Backed(m2, L \ {v}, P, Q, N) /\ Present(m2, P, S)
  <2>1. Backed(m, L, P, R, N) /\ Present(m, P, S)
    BY <1>12 DEF Holds
  <2>2. Present(m2, P, S)
    <3>1. Grows(m, m2, R)
      BY <1>5 DEF Grows
    <3>2. QED BY <1>1, <2>1, <3>1, PresentKept
  <2>3. \A g \in Frames : R[g].kind = "heap" => R[g].a \in Reach /\ (g # f => R[g].a # v)
    BY <1>1, <2>1 DEF Backed, KernelSide, f
  <2>4. QED BY <1>1, <1>2, <1>5, <1>6, <1>9, <2>1, <2>2, <2>3 DEF Backed, UserSide, IsA
<1>13. QED
  <2>1. Steady(m, m2) /\ SameDirectory(m, m2)
    BY <1>5 DEF Steady, SameDirectory
  <2>2. Holds(m2, L \ {v}, P, S, Q, N)
    BY <1>5, <1>6, <1>8, <1>10, <1>11, <1>12 DEF Holds, Good
  <2>3. QED BY <2>1, <2>2

\* The entry of a heap page that is not in use is cleared.
LEMMA Erase ==
    ASSUME NEW m, NEW L, NEW P, NEW S, NEW R, NEW N, Holds(m, L, P, S, R, N),
           NEW v \in Reach, v >= HeapBase, v \notin L, NEW m2, Mapped(m, m2, v, Zero)
    PROVE  Steady(m, m2) /\ Holds(m2, L, P, S, R, N)
<1>0. m.kpd[DirIndex(v)] # None /\ Written(m, m2, m.kpd[DirIndex(v)], TableIndex(v), Zero)
  BY DEF Mapped
<1>1. m \in Memory /\ R \in Roles /\ Parts(m, R) /\ KernelSide(m, L, R) /\ UserSide(m, P, R)
  BY DEF Holds, Good
<1> DEFINE t == m.kpd[DirIndex(v)]
<1>2. DirIndex(v) \in 0 .. Dirs - 1 /\ TableIndex(v) \in Indexes /\ v \in Nat
  BY Indices, Sizes DEF Indexes, Reach
<1>3. t \in Frames /\ R[t].kind = "ktab"
  <2>1. t \in Frames /\ IsA(R, t, "ktab", DirIndex(v), 0)
    BY <1>0, <1>1, <1>2 DEF KernelSide, Memory
  <2>2. QED BY <2>1 DEF IsA
<1>4. /\ m2 \in Memory /\ m2.free = m.free /\ m2.kpd = m.kpd
      /\ m2.next = m.next /\ m2.left = m.left /\ m2.failed = m.failed
      /\ \A g \in Frames : g # t => m2.mem[g] = m.mem[g]
  BY <1>0, <1>1, <1>2, <1>3, Writing, Entries2
<1> HIDE DEF t
<1>5. \A w \in Reach : w # v => KEntry(m2, w) = KEntry(m, w)
  BY <1>1, EntryWritten, Entries2
<1>6. Parts(m2, R)
  BY <1>1, <1>4 DEF Parts
<1>7. KernelSide(m2, L, R)
  <2>1. m2.kpd[0] = BootTable /\ \A e \in 0 .. Dirs - 1 : m2.kpd[e] # None => IsA(R, m2.kpd[e], "ktab", e, 0)
    BY <1>1, <1>4 DEF KernelSide
  <2>2. \A w \in 0 .. HeapBase - 1 : KEntry(m2, w) = Pte(BootTable)
    <3>1. \A w \in 0 .. HeapBase - 1 : w # v /\ w \in Reach
      BY <1>2, LowReach, Sizes
    <3>2. QED BY <1>1, <1>5, <3>1 DEF KernelSide
  <2>3. ASSUME NEW w \in L
        PROVE  /\ w \in Reach /\ w >= HeapBase
               /\ KEntry(m2, w).kind = "pte" /\ KEntry(m2, w).to \in Frames
               /\ IsA(R, KEntry(m2, w).to, "heap", w, 0)
    BY <1>1, <1>5 DEF KernelSide
  <2>4. QED BY <2>1, <2>2, <2>3 DEF KernelSide
<1>8. UserSide(m2, P, R)
  <2>1. SameUser(m, m2, R, R)
    BY <1>3, <1>4 DEF SameUser
  <2>2. QED BY <1>1, <2>1, UserKept
<1>9. ASSUME ~m.failed PROVE Backed(m2, L, P, R, N) /\ Present(m2, P, S)
  <2>1. Backed(m, L, P, R, N) /\ Present(m, P, S)
    BY <1>9 DEF Holds
  <2>2. Present(m2, P, S)
    <3>1. Grows(m, m2, R)
      BY <1>3, <1>4 DEF Grows
    <3>2. QED BY <1>1, <2>1, <3>1, PresentKept
  <2>3. \A g \in Frames : R[g].kind = "heap" => R[g].a \in Reach /\ R[g].a # v
    BY <1>1, <2>1 DEF Backed, KernelSide
  <2>4. Backed(m2, L, P, R, N)
    BY <1>1, <1>3, <1>4, <1>5, <2>1, <2>3 DEF Backed, UserSide
  <2>5. QED BY <2>2, <2>4
<1>10. QED BY <1>1, <1>4, <1>6, <1>7, <1>8, <1>9 DEF Holds, Good, Steady

\* Two zeroed frames become the tables of a new address space.
LEMMA MakeDirectory ==
    ASSUME NEW m, NEW L, NEW P, NEW S, NEW R, NEW N, Holds(m, L, P, S, R, N),
           NEW f \in Frames, Is(R, f, "lost"),
           NEW g \in Frames, Is(R, g, "lost"), f # g, Blank(m, g),
           NEW m2, Written(m, m2, f, 0, Pte(g))
    PROVE  Steady(m, m2) /\ \E Q : Holds(m2, L, P \cup {f}, S, Q, N \ {f, g})
<1> USE DEF Is, Blank
<1>1. m \in Memory /\ R \in Roles /\ Parts(m, R) /\ KernelSide(m, L, R) /\ UserSide(m, P, R)
  BY DEF Holds, Good
<1>2. f \in Nat /\ g \in Nat /\ Pte(g) \in Entry /\ 0 \in Indexes /\ 0 \in Nat
  BY FramesAreNumbers, Entries2, Sizes DEF Indexes
<1>3. /\ m2 \in Memory /\ m2.free = m.free /\ m2.kpd = m.kpd
      /\ m2.next = m.next /\ m2.left = m.left /\ m2.failed = m.failed
      /\ \A h \in Frames : h # f => m2.mem[h] = m.mem[h]
      /\ m2.mem[f][0] = Pte(g)
  BY <1>1, <1>2, Writing
<1> DEFINE A == Give(R, f, "pdpt", 0, 0)
           Q == Give(A, g, "pd", f, 0)
<1>4. A \in Roles /\ IsA(A, f, "pdpt", 0, 0) /\ \A h \in Frames : h # f => A[h] = R[h]
  BY <1>1, <1>2, Given DEF Kinds
<1> HIDE DEF A
<1>5. Q \in Roles /\ IsA(Q, g, "pd", f, 0) /\ \A h \in Frames : h # g => Q[h] = A[h]
  <2>1. "pd" \in Kinds
    BY DEF Kinds
  <2>2. QED BY <1>2, <1>4, <2>1, Given
<1> HIDE DEF Q
<1>6. IsA(Q, f, "pdpt", 0, 0) /\ \A h \in Frames : h # f /\ h # g => Q[h] = R[h]
  BY <1>4, <1>5 DEF IsA
<1>7. f \notin BootFrames /\ g \notin BootFrames
  BY <1>1, BootRole
<1>8. Parts(m2, Q)
  BY <1>1, <1>3, <1>5, <1>6, <1>7, Sizes DEF Parts, IsA
<1>9. KernelSide(m2, L, Q) /\ \A v \in Reach : KEntry(m2, v) = KEntry(m, v)
  <2>1. SameKernel(m, m2, R, Q)
    BY <1>3, <1>6 DEF SameKernel
  <2>2. QED BY <1>1, <1>3, <2>1, KernelKept
<1>10. UserSide(m2, P \cup {f}, Q)
  <2>2. ASSUME NEW p \in P PROVE Q[p].kind = "pdpt" /\ Child(m2, Q, p, 0, "pd")
    <3>1. p \in Frames /\ R[p].kind = "pdpt" /\ Child(m, R, p, 0, "pd")
      BY <1>1 DEF UserSide
    <3>2. p # f /\ p # g
      BY <3>1
    <3>3. m2.mem[p] = m.mem[p] /\ Q[p] = R[p]
      BY <1>3, <1>6, <3>1, <3>2
    <3>4. Q[m.mem[p][0].to] = R[m.mem[p][0].to]
      BY <1>6, <3>1 DEF Child, IsA
    <3>5. QED BY <3>1, <3>3, <3>4, ChildKept
  <2>3. Q[f].kind = "pdpt" /\ Child(m2, Q, f, 0, "pd")
    BY <1>2, <1>3, <1>5, <1>6, Entries2 DEF Child, IsA
  <2>4. ASSUME NEW h \in Frames, Q[h].kind = "pd", NEW i \in Indexes
        PROVE  m2.mem[h][i] = Zero \/ Child(m2, Q, h, i, "utab")
    <3>1. CASE h = g
      BY <1>3, <3>1, Entries2
    <3>2. CASE h # g
      <4>1. h # f /\ R[h].kind = "pd"
        BY <1>6, <2>4, <3>2 DEF IsA
      <4>2. m2.mem[h] = m.mem[h] /\ (m.mem[h][i] = Zero \/ Child(m, R, h, i, "utab"))
        BY <1>1, <1>3, <4>1 DEF UserSide
      <4>3. CASE Child(m, R, h, i, "utab")
        <5>1. Q[m.mem[h][i].to] = R[m.mem[h][i].to]
          BY <1>6, <4>3 DEF Child, IsA
        <5>2. QED BY <4>2, <4>3, <5>1, ChildKept
      <4>4. QED BY <4>2, <4>3
    <3>3. QED BY <3>1, <3>2
  <2>5. ASSUME NEW h \in Frames, Q[h].kind = "utab", NEW i \in Indexes
        PROVE  m2.mem[h][i] = Zero \/ Child(m2, Q, h, i, "user")
    <3>1. h # f /\ R[h].kind = "utab"
      BY <1>5, <1>6, <2>5 DEF IsA
    <3>2. m2.mem[h] = m.mem[h] /\ (m.mem[h][i] = Zero \/ Child(m, R, h, i, "user"))
      BY <1>1, <1>3, <3>1 DEF UserSide
    <3>3. CASE Child(m, R, h, i, "user")
      <4>1. Q[m.mem[h][i].to] = R[m.mem[h][i].to]
        BY <1>6, <3>3 DEF Child, IsA
      <4>2. QED BY <3>2, <3>3, <4>1, ChildKept
    <3>4. QED BY <3>2, <3>3
  <2>6. QED BY <1>1, <2>2, <2>3, <2>4, <2>5 DEF UserSide
<1>11. ASSUME ~m.failed PROVE Backed(m2, L, P \cup {f}, Q, N \ {f, g}) /\ Present(m2, P \cup {f}, S)
  <2>1. Backed(m, L, P, R, N) /\ Present(m, P, S)
    BY <1>11 DEF Holds
  <2>2. Present(m2, P \cup {f}, S)
    <3>1. Grows(m, m2, R)
      BY <1>3 DEF Grows
    <3>2. QED BY <1>1, <2>1, <3>1, PresentKept
  <2>3. \A h \in Frames : R[h].kind = "heap" => R[h].a \in Reach
    BY <1>1, <2>1 DEF Backed, KernelSide
  <2>4. Backed(m2, L, P \cup {f}, Q, N \ {f, g})
    <3>1. ASSUME NEW h \in Frames, h # f, h # g, Q[h].kind \in {"pd", "utab", "user"}
          PROVE  /\ Q[h].kind = "pd" => Q[h].a \in P /\ m2.mem[Q[h].a][0] = Pte(h)
                 /\ Q[h].kind = "utab" =>
                      /\ Q[h].a \in Frames /\ Q[Q[h].a].kind = "pd"
                      /\ Q[h].b \in Indexes /\ m2.mem[Q[h].a][Q[h].b] = Pte(h)
                 /\ Q[h].kind = "user" =>
                      /\ Q[h].a \in Frames /\ Q[Q[h].a].kind = "utab"
                      /\ Q[h].b \in Indexes /\ m2.mem[Q[h].a][Q[h].b] = Pte(h)
      BY <1>1, <1>3, <1>6, <2>1, <3>1 DEF Backed, UserSide
    <3>2. ASSUME NEW h \in Frames, h # f, h # g, Q[h].kind \in {"lost", "ktab", "heap", "pdpt"}
          PROVE  /\ Q[h].kind = "lost" => h \in N \ {f, g}
                 /\ Q[h].kind = "ktab" => Q[h].a \in 0 .. Dirs - 1 /\ m2.kpd[Q[h].a] = h
                 /\ Q[h].kind = "heap" => Q[h].a \in L /\ KEntry(m2, Q[h].a).to = h
                 /\ Q[h].kind = "pdpt" => h \in P
      BY <1>3, <1>6, <1>9, <2>1, <2>3, <3>2 DEF Backed
    <3>3. QED BY <1>3, <1>5, <1>6, <3>1, <3>2 DEF Backed, IsA
  <2>5. QED BY <2>2, <2>4
<1>12. QED
  <2>1. Steady(m, m2)
    BY <1>3 DEF Steady
  <2>2. Holds(m2, L, P \cup {f}, S, Q, N \ {f, g})
    BY <1>3, <1>5, <1>8, <1>9, <1>10, <1>11 DEF Holds, Good
  <2>3. QED BY <2>1, <2>2

\* A frame is a page table when it is zeroed, or a page.
Fits(m, R, t, f, k) ==
    \/ R[t].kind = "pd" /\ k = "utab" /\ m.mem[f] = ZeroPage
    \/ R[t].kind = "utab" /\ k = "user"

\* A frame becomes child i of a table of a user address space, and is
\* of kind k from then on.
LEMMA LinkChild ==
    ASSUME NEW m, NEW L, NEW P, NEW S, NEW R, NEW N, Holds(m, L, P, S, R, N),
           NEW t \in Frames, NEW i \in Indexes, Vacant(m, t, i),
           NEW f \in Frames, Is(R, f, "lost"), NEW k, Fits(m, R, t, f, k),
           NEW m2, Written(m, m2, t, i, Pte(f))
    PROVE  /\ Steady(m, m2) /\ Holds(m2, L, P, S, Give(R, f, k, t, i), N \ {f})
           /\ Grows(m, m2, R) /\ OthersKept(m, m2, t)
           /\ IsA(Give(R, f, k, t, i), f, k, t, i) /\ RolesKept(R, Give(R, f, k, t, i), f)
<1> USE DEF Is, Vacant, Fits
<1>1. m \in Memory /\ R \in Roles /\ Parts(m, R) /\ KernelSide(m, L, R) /\ UserSide(m, P, R)
  BY DEF Holds, Good
<1>2. f \in Nat /\ t \in Nat /\ i \in Nat /\ Pte(f) \in Entry /\ k \in Kinds /\ f # t
  BY FramesAreNumbers, Entries2, Sizes DEF Indexes, Kinds
<1>3. /\ m2 \in Memory /\ m2.free = m.free /\ m2.kpd = m.kpd
      /\ m2.next = m.next /\ m2.left = m.left /\ m2.failed = m.failed
      /\ \A h \in Frames : h # t => m2.mem[h] = m.mem[h]
      /\ m2.mem[t][i] = Pte(f) /\ \A j \in Indexes : j # i => m2.mem[t][j] = m.mem[t][j]
  BY <1>1, <1>2, Writing
<1> DEFINE Q == Give(R, f, k, t, i)
<1>4. Q \in Roles /\ IsA(Q, f, k, t, i) /\ \A h \in Frames : h # f => Q[h] = R[h]
  <2> HIDE DEF Is, Vacant, Fits
  <2>1. QED BY <1>1, <1>2, Given
<1> HIDE DEF Q
<1>5. f \notin BootFrames
  BY <1>1, BootRole
<1>6. Parts(m2, Q)
  BY <1>1, <1>3, <1>4, <1>5, Sizes DEF Parts, IsA
<1>7. KernelSide(m2, L, Q) /\ \A v \in Reach : KEntry(m2, v) = KEntry(m, v)
  <2>1. SameKernel(m, m2, R, Q)
    BY <1>3, <1>4 DEF SameKernel
  <2>2. QED BY <1>1, <1>3, <2>1, KernelKept
<1>8. Child(m2, Q, t, i, k)
  BY <1>2, <1>3, <1>4, Entries2 DEF Child, IsA
<1>9. UserSide(m2, P, Q)
  <2>1. ASSUME NEW p \in P PROVE Q[p].kind = "pdpt" /\ Child(m2, Q, p, 0, "pd")
    <3>1. p \in Frames /\ R[p].kind = "pdpt" /\ Child(m, R, p, 0, "pd")
      BY <1>1 DEF UserSide
    <3>2. p # f /\ p # t
      BY <3>1
    <3>3. m2.mem[p] = m.mem[p] /\ Q[p] = R[p]
      BY <1>3, <1>4, <3>1, <3>2
    <3>4. Q[m.mem[p][0].to] = R[m.mem[p][0].to]
      BY <1>4, <3>1 DEF Child, IsA
    <3>5. QED BY <3>1, <3>3, <3>4, ChildKept
  <2>2. ASSUME NEW h \in Frames, h # f, NEW j \in Indexes, NEW c, c # "lost", R[h].kind \in {"pd", "utab"},
               m.mem[h][j] = Zero \/ Child(m, R, h, j, c), (h = t /\ j = i) => c = k
        PROVE  m2.mem[h][j] = Zero \/ Child(m2, Q, h, j, c)
    <3>1. CASE h = t /\ j = i
      BY <1>8, <2>2, <3>1
    <3>2. CASE ~(h = t /\ j = i)
      <4>1. m2.mem[h][j] = m.mem[h][j]
        BY <1>3, <3>2
      <4>2. CASE m.mem[h][j] = Zero
        BY <4>1, <4>2
      <4>3. CASE Child(m, R, h, j, c)
        <5>1. m.mem[h][j].to # f /\ m.mem[h][j].to \in Frames
          BY <2>2, <4>3 DEF Child, IsA
        <5>2. QED BY <1>4, <4>1, <4>3, <5>1 DEF Child, IsA
      <4>4. QED BY <2>2, <4>2, <4>3
    <3>3. QED BY <3>1, <3>2
  <2>3. ASSUME NEW h \in Frames, Q[h].kind = "pd", NEW j \in Indexes
        PROVE  m2.mem[h][j] = Zero \/ Child(m2, Q, h, j, "utab")
    <3>1. h # f /\ R[h].kind = "pd"
      BY <1>4, <2>3 DEF IsA
    <3>2. m.mem[h][j] = Zero \/ Child(m, R, h, j, "utab")
      BY <1>1, <3>1 DEF UserSide
    <3>3. QED BY <2>2, <3>1, <3>2
  <2>4. ASSUME NEW h \in Frames, Q[h].kind = "utab", NEW j \in Indexes
        PROVE  m2.mem[h][j] = Zero \/ Child(m2, Q, h, j, "user")
    <3>1. CASE h = f
      BY <1>2, <1>3, <1>4, <2>4, <3>1, Entries2 DEF IsA
    <3>2. CASE h # f
      <4>1. R[h].kind = "utab"
        BY <1>4, <2>4, <3>2
      <4>2. m.mem[h][j] = Zero \/ Child(m, R, h, j, "user")
        BY <1>1, <4>1 DEF UserSide
      <4>3. QED BY <2>2, <3>2, <4>1, <4>2
    <3>3. QED BY <3>1, <3>2
  <2>5. QED BY <1>1, <2>1, <2>3, <2>4 DEF UserSide
<1>10. Grows(m, m2, R)
  BY <1>3 DEF Grows
<1>11. ASSUME ~m.failed PROVE Backed(m2, L, P, Q, N \ {f}) /\ Present(m2, P, S)
  <2>1. Backed(m, L, P, R, N) /\ Present(m, P, S)
    BY <1>11 DEF Holds
  <2>2. Present(m2, P, S)
    BY <1>1, <1>10, <2>1, PresentKept
  <2>3. \A h \in Frames : R[h].kind = "heap" => R[h].a \in Reach
    BY <1>1, <2>1 DEF Backed, KernelSide
  <2>4. \A h \in Frames, j \in Indexes : R[h].kind \in {"pd", "utab"} /\ m.mem[h][j] # Zero => m2.mem[h][j] = m.mem[h][j]
    BY <1>3
  <2>5. ASSUME NEW h \in Frames, h # f, Q[h].kind \in {"pd", "utab", "user"}
        PROVE  /\ Q[h].kind = "pd" => Q[h].a \in P /\ m2.mem[Q[h].a][0] = Pte(h)
               /\ Q[h].kind = "utab" =>
                    /\ Q[h].a \in Frames /\ Q[Q[h].a].kind = "pd"
                    /\ Q[h].b \in Indexes /\ m2.mem[Q[h].a][Q[h].b] = Pte(h)
               /\ Q[h].kind = "user" =>
                    /\ Q[h].a \in Frames /\ Q[Q[h].a].kind = "utab"
                    /\ Q[h].b \in Indexes /\ m2.mem[Q[h].a][Q[h].b] = Pte(h)
    <3>1. Q[h] = R[h] /\ h \in Nat /\ Pte(h) # Zero
      BY <1>4, <2>5, FramesAreNumbers, Entries2
    <3>2. ASSUME R[h].kind = "pd" PROVE R[h].a \in P /\ m2.mem[R[h].a][0] = Pte(h)
      <4>1. R[h].a \in P /\ m.mem[R[h].a][0] = Pte(h)
        BY <2>1, <3>2 DEF Backed
      <4>2. R[h].a \in Frames /\ R[h].a # t
        BY <1>1, <4>1 DEF UserSide
      <4>3. QED BY <1>3, <4>1, <4>2
    <3>3. ASSUME NEW c \in {"pd", "utab"}, R[h].a \in Frames, R[R[h].a].kind = c,
                 R[h].b \in Indexes, m.mem[R[h].a][R[h].b] = Pte(h)
          PROVE  Q[R[h].a].kind = c /\ m2.mem[R[h].a][R[h].b] = Pte(h)
      BY <1>4, <2>4, <3>1, <3>3
    <3>4. QED BY <2>1, <2>5, <3>1, <3>2, <3>3 DEF Backed
  <2>6. ASSUME NEW h \in Frames, h # f, Q[h].kind \in {"lost", "ktab", "heap", "pdpt"}
        PROVE  /\ Q[h].kind = "lost" => h \in N \ {f}
               /\ Q[h].kind = "ktab" => Q[h].a \in 0 .. Dirs - 1 /\ m2.kpd[Q[h].a] = h
               /\ Q[h].kind = "heap" => Q[h].a \in L /\ KEntry(m2, Q[h].a).to = h
               /\ Q[h].kind = "pdpt" => h \in P
    BY <1>3, <1>4, <1>7, <2>1, <2>3, <2>6 DEF Backed
  <2>7. Backed(m2, L, P, Q, N \ {f})
    BY <1>2, <1>3, <1>4, <2>5, <2>6 DEF Backed, IsA
  <2>8. QED BY <2>2, <2>7
<1>12. QED
  <2>1. Steady(m, m2) /\ OthersKept(m, m2, t) /\ RolesKept(R, Q, f)
    BY <1>3, <1>4 DEF Steady, OthersKept, RolesKept
  <2>2. Holds(m2, L, P, S, Q, N \ {f})
    BY <1>3, <1>4, <1>6, <1>7, <1>9, <1>11 DEF Holds, Good
  <2>3. QED BY <1>4, <1>10, <2>1, <2>2 DEF Q

\* The frames and the tables are the same: next, left and failed may differ.
SameTables(m, m2) ==
    m2 \in Memory /\ m2.free = m.free /\ m2.mem = m.mem /\ m2.kpd = m.kpd

\* Nothing depends on the counters, and a failure only lifts obligations.
LEMMA TablesKept ==
    ASSUME NEW m, NEW L, NEW P, NEW S, NEW R, NEW N, Holds(m, L, P, S, R, N),
           NEW m2, SameTables(m, m2), m2.failed \/ m2.failed = m.failed
    PROVE  Holds(m2, L, P, S, R, N)
<1>1. \A v : KEntry(m2, v) = KEntry(m, v)
  BY DEF KEntry, SameTables
<1>2. \A p, v : UEntry(m2, p, v) = UEntry(m, p, v)
  BY DEF UEntry, SameTables
<1>3. \A f, i, k : Child(m2, R, f, i, k) <=> Child(m, R, f, i, k)
  BY DEF Child, SameTables
<1>4. Good(m, L, P, R)
  BY DEF Holds
<1>5. m2 \in Memory /\ R \in Roles /\ Parts(m2, R)
  BY <1>4 DEF SameTables, Parts, Good
<1>6. KernelSide(m2, L, R)
  BY <1>1, <1>4 DEF SameTables, KernelSide, Good
<1>7. UserSide(m2, P, R)
  BY <1>3, <1>4 DEF SameTables, UserSide, Good
<1>8. ASSUME ~m2.failed PROVE Backed(m2, L, P, R, N) /\ Present(m2, P, S)
  <2>1. Backed(m, L, P, R, N) /\ Present(m, P, S)
    BY <1>8 DEF Holds
  <2>2. Backed(m2, L, P, R, N)
    BY <1>1, <2>1 DEF Backed, SameTables
  <2>3. Present(m2, P, S)
    BY <1>2, <2>1 DEF Present, SameTables
  <2>4. QED BY <2>2, <2>3
<1>9. QED BY <1>5, <1>6, <1>7, <1>8 DEF Holds, Good

\* More frames may be on their way than are.
LEMMA Wider ==
    ASSUME NEW m, NEW L, NEW P, NEW S, NEW R, NEW N, Holds(m, L, P, S, R, N),
           NEW N2, N \subseteq N2
    PROVE  Holds(m, L, P, S, R, N2)
BY DEF Holds, Backed

\* After a failure fewer pages, and other segments and frames on their way,
\* may be accounted for.
LEMMA Lifted ==
    ASSUME NEW m, NEW L, NEW P, NEW S, NEW R, NEW N, Holds(m, L, P, S, R, N), m.failed,
           NEW L2, L2 \subseteq L, NEW S2, NEW N2
    PROVE  Holds(m, L2, P, S2, R, N2)
BY DEF Holds, Good, KernelSide

\* The lowest frame of a set is in it.
LEMMA FirstIsIn ==
    ASSUME NEW T \in SUBSET Frames, T # {}
    PROVE  FirstFrame(T) \in T
<1>1. T \subseteq Nat
  BY FramesAreNumbers
<1>2. \E f \in T : \A g \in T : f <= g
  BY <1>1, Least
<1>3. QED BY <1>2, Zenon DEF FirstFrame

-----------------------------------------------------------------------------
(* The operations of the memory manager.                                   *)

\* A request has failed, and the address space is as it was.
Failed(m, m2) == m2.failed = TRUE /\ m2.next = m.next /\ m2.left = m.left

\* allocate_physical_page: a zeroed frame that was free, or an error.
LEMMA PhysicalPage ==
    ASSUME NEW m, NEW L, NEW P, NEW S, NEW R, NEW N, Holds(m, L, P, S, R, N)
    PROVE  LET r == AllocatePhysicalPage(m)
               Q == Give(R, r.v, "lost", 0, 0)
           IN  /\ r.ok \in BOOLEAN
               /\ ~r.ok => Failed(m, r.m) /\ Holds(r.m, L, P, S, R, N)
               /\ r.ok => /\ r.v \in Frames /\ Blank(r.m, r.v) /\ Is(R, r.v, "free")
                          /\ Steady(m, r.m) /\ SameDirectory(m, r.m)
                          /\ Holds(r.m, L, P, S, Q, N \cup {r.v}) /\ Is(Q, r.v, "lost")
                          /\ OthersKept(m, r.m, r.v) /\ RolesKept(R, Q, r.v)
<1> DEFINE r == AllocatePhysicalPage(m)
<1>1. m \in Memory /\ m.free \in SUBSET Frames
  BY DEF Holds, Good, Memory
<1>2. CASE m.free = {}
  <2>1. r.ok = FALSE /\ r.m = [m EXCEPT !.failed = TRUE]
    BY <1>2 DEF AllocatePhysicalPage, Fail
  <2>2. r.m \in Memory /\ r.m.free = m.free /\ r.m.mem = m.mem /\ r.m.kpd = m.kpd
        /\ r.m.next = m.next /\ r.m.left = m.left /\ r.m.failed = TRUE
    BY <1>1, <2>1 DEF Memory
  <2> HIDE DEF r
  <2>3. Holds(r.m, L, P, S, R, N)
    <3>1. SameTables(m, r.m)
      BY <2>2 DEF SameTables
    <3>2. QED BY <2>2, <3>1, TablesKept
  <2>4. Failed(m, r.m)
    BY <2>2 DEF Failed
  <2>5. QED BY <2>1, <2>3, <2>4 DEF r
<1>3. CASE m.free # {}
  <2> DEFINE p == FirstFrame(m.free)
             n == [m EXCEPT !.free = @ \ {p}, !.mem[p] = ZeroPage]
  <2>1. r.ok = TRUE /\ r.v = p /\ r.m = n
    BY <1>3 DEF AllocatePhysicalPage, Done
  <2>2. p \in m.free
    BY <1>1, <1>3, FirstIsIn
  <2>3. Taken(m, n, p)
    BY <2>2 DEF Taken
  <2> HIDE DEF r, n, p
  <2>4. /\ p \in Frames /\ Blank(n, p) /\ Is(R, p, "free")
        /\ Steady(m, n) /\ SameDirectory(m, n)
        /\ Holds(n, L, P, S, Give(R, p, "lost", 0, 0), N \cup {p})
        /\ Is(Give(R, p, "lost", 0, 0), p, "lost")
        /\ OthersKept(m, n, p) /\ RolesKept(R, Give(R, p, "lost", 0, 0), p)
    BY <2>3, TakeFrame
  <2>5. QED BY <2>1, <2>4 DEF r
<1>4. QED BY <1>2, <1>3

\* Frames on their way stay so.
LostKept(R, Q) == \A f \in Frames : Is(R, f, "lost") => Is(Q, f, "lost")

\* get_kernel_page_table_entry leaves the table of the page v in the directory.
LEMMA PageTable ==
    ASSUME NEW m, NEW L, NEW P, NEW S, NEW R, NEW N, Holds(m, L, P, S, R, N), NEW v \in Reach
    PROVE  LET r == KernelPageTable(m, v)
           IN  /\ r.ok \in BOOLEAN
               /\ ~r.ok => Failed(m, r.m) /\ Holds(r.m, L, P, S, R, N)
               /\ r.ok => /\ r.v # None /\ HasTable(r.m, DirIndex(v), r.v) /\ Steady(m, r.m)
                          /\ \E Q : Holds(r.m, L, P, S, Q, N) /\ LostKept(R, Q)
<1> DEFINE d == DirIndex(v)
           a == AllocatePhysicalPage(m)
           r == KernelPageTable(m, v)
<1>1. d \in 0 .. Dirs - 1 /\ m \in Memory
  BY Indices DEF Holds, Good
<1>2. CASE m.kpd[d] # None
  <2>1. r.ok = TRUE /\ r.m = m /\ r.v = m.kpd[d]
    BY <1>2 DEF KernelPageTable, Done
  <2>2. HasTable(m, d, r.v) /\ Steady(m, m) /\ LostKept(R, R)
    BY <2>1 DEF HasTable, Steady, LostKept
  <2> HIDE DEF r, a
  <2>3. QED BY <1>2, <2>1, <2>2 DEF r
<1>3. CASE m.kpd[d] = None /\ ~a.ok
  <2>1. r = a
    BY <1>3 DEF KernelPageTable
  <2>2. a.ok \in BOOLEAN /\ Failed(m, a.m) /\ Holds(a.m, L, P, S, R, N)
    BY <1>3, PhysicalPage
  <2> HIDE DEF r, a
  <2>3. QED BY <1>3, <2>1, <2>2 DEF r
<1>4. CASE m.kpd[d] = None /\ a.ok
  <2> DEFINE n == [a.m EXCEPT !.kpd[d] = a.v]
             A == Give(R, a.v, "lost", 0, 0)
             Q == Give(A, a.v, "ktab", d, 0)
  <2>1. r.ok = TRUE /\ r.m = n /\ r.v = a.v
    BY <1>4 DEF KernelPageTable, Done
  <2>2. /\ a.v \in Frames /\ Blank(a.m, a.v) /\ Is(R, a.v, "free")
        /\ Steady(m, a.m) /\ SameDirectory(m, a.m)
        /\ Holds(a.m, L, P, S, A, N \cup {a.v}) /\ Is(A, a.v, "lost") /\ RolesKept(R, A, a.v)
    BY <1>4, PhysicalPage
  <2>3. Linked(a.m, n, d, a.v)
    <3> HIDE DEF a
    <3>1. a.m.kpd[d] = None
      BY <1>4, <2>2 DEF SameDirectory
    <3>2. QED BY <1>1, <3>1 DEF Linked
  <2> HIDE DEF r, a, n, A
  <2>4. /\ Steady(a.m, n) /\ HasTable(n, d, a.v)
        /\ Holds(n, L, P, S, Q, (N \cup {a.v}) \ {a.v}) /\ RolesKept(A, Q, a.v)
    BY <2>2, <2>3, LinkTable
  <2> HIDE DEF Q
  <2>5. Holds(n, L, P, S, Q, N)
    BY <2>4, Wider
  <2>6. LostKept(R, Q) /\ Steady(m, n)
    BY <2>2, <2>4 DEF LostKept, RolesKept, Is, Steady
  <2>7. QED BY <2>1, <2>2, <2>4, <2>5, <2>6, FramesAreNumbers DEF r, d
<1>5. QED BY <1>2, <1>3, <1>4

\* map_kernel_page gives the page v the frame f, or an error when its table
\* cannot be made.
LEMMA KernelPage ==
    ASSUME NEW m, NEW L, NEW P, NEW S, NEW R, NEW N, Holds(m, L, P, S, R, N),
           NEW f \in Frames, Is(R, f, "lost"), NEW v \in Reach, v >= HeapBase, v \notin L
    PROVE  LET r == MapKernelPage(m, f, v)
           IN  /\ r.ok \in BOOLEAN
               /\ ~r.ok => Failed(m, r.m) /\ \E Q : Holds(r.m, L, P, S, Q, N)
               /\ r.ok => /\ r.v = v /\ Steady(m, r.m)
                          /\ \E Q : Holds(r.m, L \cup {v}, P, S, Q, N \ {f})
<1> DEFINE t == KernelPageTable(m, v)
           r == MapKernelPage(m, f, v)
<1>1. /\ t.ok \in BOOLEAN
      /\ ~t.ok => Failed(m, t.m) /\ Holds(t.m, L, P, S, R, N)
      /\ t.ok => /\ t.v # None /\ HasTable(t.m, DirIndex(v), t.v) /\ Steady(m, t.m)
                 /\ \E Q : Holds(t.m, L, P, S, Q, N) /\ LostKept(R, Q)
  BY PageTable
<1>2. CASE ~t.ok
  <2>1. r = t
    BY <1>2 DEF MapKernelPage
  <2> HIDE DEF r, t
  <2>2. QED BY <1>1, <1>2, <2>1 DEF r
<1>3. CASE t.ok
  <2> DEFINE n == [t.m EXCEPT !.mem[t.v][TableIndex(v)] = Pte(f)]
  <2>1. r.ok = TRUE /\ r.m = n /\ r.v = v
    BY <1>3 DEF MapKernelPage, Done
  <2>2. Written(t.m, n, t.v, TableIndex(v), Pte(f))
    BY DEF Written
  <2> HIDE DEF r, t, n
  <2>3. Mapped(t.m, n, v, Pte(f))
    BY <1>1, <1>3, <2>2 DEF Mapped, HasTable
  <2>4. PICK Q : Holds(t.m, L, P, S, Q, N) /\ LostKept(R, Q)
    BY <1>1, <1>3
  <2>5. Is(Q, f, "lost")
    BY <2>4 DEF LostKept
  <2>6. Steady(t.m, n) /\ Holds(n, L \cup {v}, P, S, Give(Q, f, "heap", v, 0), N \ {f})
    BY <2>3, <2>4, <2>5, MapPage
  <2>7. Steady(m, n)
    BY <1>1, <1>3, <2>6 DEF Steady
  <2>8. QED BY <2>1, <2>6, <2>7 DEF r
<1>4. QED BY <1>1, <1>2, <1>3

\* unmap_kernel_page of a page that has a table clears its entry.
LEMMA UnmappedPage ==
    ASSUME NEW m, NEW L, NEW P, NEW S, NEW R, NEW N, Holds(m, L, P, S, R, N),
           NEW v \in Reach, v >= HeapBase, v \notin L, ~HasTable(m, DirIndex(v), None)
    PROVE  Steady(m, UnmapKernelPage(m, v).m) /\ Holds(UnmapKernelPage(m, v).m, L, P, S, R, N)
<1> DEFINE t == m.kpd[DirIndex(v)]
           n == [m EXCEPT !.mem[t][TableIndex(v)] = Zero]
<1>1. t # None
  BY DEF HasTable
<1>2. UnmapKernelPage(m, v).m = n
  BY <1>1 DEF UnmapKernelPage, KernelPageTable, Done
<1>3. Mapped(m, n, v, Zero)
  BY <1>1 DEF Mapped, Written
<1> HIDE DEF n
<1>4. Steady(m, n) /\ Holds(n, L, P, S, R, N)
  BY <1>3, Erase
<1>5. QED BY <1>2, <1>4

\* One page of allocate_kernel_heap_pages.
LEMMA OneHeapPage ==
    ASSUME NEW r, r.ok = TRUE, NEW L, NEW P, NEW S, NEW R, Holds(r.m, L, P, S, R, {}),
           NEW v \in Reach, v >= HeapBase, v \notin L
    PROVE  LET s == HeapPageStep(r, v)
           IN  /\ s.ok \in BOOLEAN
               /\ ~s.ok => Failed(r.m, s.m) /\ \E Q : Holds(s.m, L, P, S, Q, {})
               /\ s.ok => Steady(r.m, s.m) /\ \E Q : Holds(s.m, L \cup {v}, P, S, Q, {})
<1> DEFINE p == AllocatePhysicalPage(r.m)
           A == Give(R, p.v, "lost", 0, 0)
           k == MapKernelPage(p.m, p.v, v)
           s == HeapPageStep(r, v)
<1>1. /\ p.ok \in BOOLEAN
      /\ ~p.ok => Failed(r.m, p.m) /\ Holds(p.m, L, P, S, R, {})
      /\ p.ok => /\ p.v \in Frames /\ Steady(r.m, p.m)
                 /\ Holds(p.m, L, P, S, A, {} \cup {p.v}) /\ Is(A, p.v, "lost")
  BY PhysicalPage
<1>2. CASE ~p.ok
  <2>1. s = p
    BY <1>2 DEF HeapPageStep
  <2> HIDE DEF p, s
  <2>2. QED BY <1>1, <1>2, <2>1 DEF s
<1>3. CASE p.ok
  <2>1. s = k
    BY <1>3 DEF HeapPageStep
  <2>2. /\ k.ok \in BOOLEAN
        /\ ~k.ok => Failed(p.m, k.m) /\ \E Q : Holds(k.m, L, P, S, Q, {} \cup {p.v})
        /\ k.ok => /\ Steady(p.m, k.m)
                   /\ \E Q : Holds(k.m, L \cup {v}, P, S, Q, ({} \cup {p.v}) \ {p.v})
    <3> HIDE DEF p, A
    <3>1. QED BY <1>1, <1>3, KernelPage
  <2> HIDE DEF p, A, k, s
  <2>3. CASE ~k.ok
    <3>1. PICK Q : Holds(k.m, L, P, S, Q, {} \cup {p.v})
      BY <2>2, <2>3
    <3>2. Failed(r.m, k.m) /\ k.m.failed
      BY <1>1, <1>3, <2>2, <2>3 DEF Failed, Steady
    <3>3. Holds(k.m, L, P, S, Q, {})
      BY <3>1, <3>2, Lifted
    <3>4. QED BY <2>1, <2>2, <2>3, <3>2, <3>3 DEF s
  <2>4. CASE k.ok
    <3>1. PICK Q : Holds(k.m, L \cup {v}, P, S, Q, ({} \cup {p.v}) \ {p.v})
      BY <2>2, <2>4
    <3>2. Steady(r.m, k.m)
      BY <1>1, <1>3, <2>2, <2>4 DEF Steady
    <3>3. Holds(k.m, L \cup {v}, P, S, Q, {})
      BY <3>1, Wider
    <3>4. QED BY <2>1, <2>2, <2>4, <3>2, <3>3 DEF s
  <2>5. QED BY <2>2, <2>3, <2>4
<1>4. QED BY <1>1, <1>2, <1>3

\* The pages from v on are in reach and above all pages in use.
Room(v, n, L) ==
    v \in Nat /\ v >= HeapBase /\ v + n <= Dirs * Entries /\ \A w \in L : w < v

\* The address space gives the pages from next on, or what is left is dropped.
LEMMA PagesTaken ==
    ASSUME Within, NEW m, NEW L, NEW P, NEW S, NEW R, NEW N, Holds(m, L, P, S, R, N), Counters(m, L),
           NEW n \in Nat
    PROVE  LET t == TakePages(m, n)
           IN  /\ t.ok \in BOOLEAN /\ Holds(t.m, L, P, S, R, N) /\ Counters(t.m, L)
               /\ ~t.ok => Failed(t.m, t.m)
               /\ t.ok => Room(t.v, n, L) /\ Counters(t.m, L \cup (t.v .. t.v + n - 1))
<1> DEFINE t == TakePages(m, n)
<1>1. m \in Memory
  BY DEF Holds, Good
<1>2. /\ m.next \in Nat /\ m.left \in Nat /\ m.next + m.left = HeapBase + HeapPages
      /\ m.next >= HeapBase /\ L \subseteq HeapBase .. m.next - 1
  BY <1>1 DEF Memory, Counters
<1>3. CASE m.left < n
  <2> DEFINE m0 == [m EXCEPT !.next = @ + m.left]
             m1 == [m0 EXCEPT !.left = 0]
             m2 == [m1 EXCEPT !.failed = TRUE]
  <2>0. m0 \in Memory /\ m0.free = m.free /\ m0.mem = m.mem /\ m0.kpd = m.kpd /\ m0.next = m.next + m.left
    BY <1>1, <1>2 DEF Memory
  <2>1. t.ok = FALSE /\ t.m = m2
    BY <1>3 DEF TakePages, Fail
  <2> HIDE DEF m0
  <2>2. /\ m1 \in Memory /\ m1.free = m.free /\ m1.mem = m.mem /\ m1.kpd = m.kpd
        /\ m1.next = m.next + m.left /\ m1.left = 0
    BY <2>0 DEF Memory
  <2> HIDE DEF m1
  <2>3. /\ m2 \in Memory /\ m2.free = m.free /\ m2.mem = m.mem /\ m2.kpd = m.kpd
        /\ m2.next = m.next + m.left /\ m2.left = 0 /\ m2.failed = TRUE
    BY <2>2 DEF Memory
  <2> HIDE DEF m2, t
  <2>4. Counters(m2, L) /\ Failed(m2, m2)
    BY <1>2, <2>3, Sizes DEF Counters, Failed
  <2>5. SameTables(m, m2) /\ m2.failed
    BY <2>3 DEF SameTables
  <2>6. Holds(m2, L, P, S, R, N)
    BY <2>5, TablesKept
  <2>7. QED BY <2>1, <2>4, <2>6 DEF t
<1>4. CASE ~(m.left < n)
  <2> DEFINE m0 == [m EXCEPT !.next = @ + n]
             m1 == [m0 EXCEPT !.left = @ - n]
  <2>0. /\ m0 \in Memory /\ m0.free = m.free /\ m0.mem = m.mem /\ m0.kpd = m.kpd
        /\ m0.next = m.next + n /\ m0.left = m.left /\ m0.failed = m.failed
    BY <1>1, <1>2 DEF Memory
  <2>1. t.ok = TRUE /\ t.m = m1 /\ t.v = m.next
    BY <1>4 DEF TakePages, Done
  <2> HIDE DEF m0
  <2>2. /\ m1 \in Memory /\ m1.free = m.free /\ m1.mem = m.mem /\ m1.kpd = m.kpd
        /\ m1.next = m.next + n /\ m1.left = m.left - n /\ m1.failed = m.failed
    <3>1. m.left - n \in Nat /\ m0.left - n = m.left - n
      BY <1>2, <1>4, <2>0
    <3>2. QED BY <2>0, <3>1 DEF Memory
  <2> HIDE DEF m1, t
  <2>3. Counters(m1, L) /\ Counters(m1, L \cup (m.next .. m.next + n - 1))
    <3>1. m1.next + m1.left = HeapBase + HeapPages /\ m1.next >= HeapBase
      BY <1>2, <1>4, <2>2, Sizes
    <3>2. HeapBase .. m.next - 1 \subseteq HeapBase .. m1.next - 1
      BY <1>2, <2>2, Sizes
    <3>3. m.next .. m.next + n - 1 \subseteq HeapBase .. m1.next - 1
      BY <1>2, <2>2, Sizes
    <3>4. QED BY <1>2, <3>1, <3>2, <3>3 DEF Counters
  <2>4. Room(m.next, n, L)
    <3>1. HeapBase + HeapPages <= Dirs * Entries /\ HeapBase \in Nat
      BY Sizes DEF Within
    <3>2. Dirs * Entries \in Nat
      BY Sizes
    <3>3. QED BY <1>2, <1>4, <3>1, <3>2, Sizes DEF Room
  <2>5. SameTables(m, m1) /\ m1.failed = m.failed
    BY <2>2 DEF SameTables
  <2>6. Holds(m1, L, P, S, R, N)
    BY <2>5, TablesKept
  <2>7. QED BY <2>1, <2>3, <2>4, <2>6 DEF t
<1>5. QED BY <1>3, <1>4

\* The loop of allocate_kernel_heap_pages as a function of the step.
HeapLoop(g, t, n) ==
    g = [i \in 0 .. n |-> IF i = 0 THEN t ELSE HeapPageStep(g[i - 1], t.v + i - 1)]

\* There is such a function: the definition in AllocateHeapPages defines one.
LEMMA HeapLoopExists ==
    ASSUME NEW t, NEW n \in Nat
    PROVE  \E g : HeapLoop(g, t, n)
<1> DEFINE T == {k \in Nat : \E g : HeapLoop(g, t, k)}
<1>1. 0 \in T
  <2> DEFINE g == [i \in 0 .. 0 |-> t]
  <2>1. g = [i \in 0 .. 0 |-> IF i = 0 THEN t ELSE HeapPageStep(g[i - 1], t.v + i - 1)]
    OBVIOUS
  <2>2. HeapLoop(g, t, 0)
    BY <2>1 DEF HeapLoop
  <2>3. QED BY <2>2
<1>2. ASSUME NEW k \in Nat, k \in T PROVE k + 1 \in T
  <2>1. PICK g : HeapLoop(g, t, k)
    BY <1>2
  <2> DEFINE h == [i \in 0 .. k + 1 |-> IF i = k + 1 THEN HeapPageStep(g[k], t.v + (k + 1) - 1) ELSE g[i]]
  <2>2. \A i \in 0 .. k : h[i] = g[i]
    BY <1>2
  <2>3. \A i \in 0 .. k : g[i] = IF i = 0 THEN t ELSE HeapPageStep(g[i - 1], t.v + i - 1)
    BY <2>1 DEF HeapLoop
  <2>4. ASSUME NEW i \in 0 .. k + 1
        PROVE  h[i] = IF i = 0 THEN t ELSE HeapPageStep(h[i - 1], t.v + i - 1)
    <3>1. CASE i = k + 1
      <4>1. h[i] = HeapPageStep(g[k], t.v + i - 1) /\ i # 0 /\ i - 1 = k /\ k \in 0 .. k
        BY <3>1
      <4> HIDE DEF h
      <4>2. QED BY <2>2, <4>1
    <3>2. CASE i # k + 1
      <4>1. i \in 0 .. k /\ (i # 0 => i - 1 \in 0 .. k)
        BY <3>2
      <4> HIDE DEF h
      <4>2. QED BY <2>2, <2>3, <4>1
    <3>3. QED BY <3>1, <3>2
  <2>5. HeapLoop(h, t, k + 1)
    <3>1. h = [i \in 0 .. k + 1 |-> h[i]]
      OBVIOUS
    <3> HIDE DEF h
    <3>2. QED BY <2>4, <3>1 DEF HeapLoop
  <2>6. QED BY <2>5
<1> HIDE DEF T
<1>3. n \in T
  BY <1>1, <1>2, Induct
<1>4. QED BY <1>3 DEF T

\* Where the loop stands after k of its steps: the first k pages are mapped,
\* or a request has failed.
After(s, k, v, t, L, P, S) ==
    /\ s.ok \in BOOLEAN
    /\ ~s.ok => Failed(t.m, s.m) /\ \E Q : Holds(s.m, L, P, S, Q, {})
    /\ s.ok => Quiet(t.m, s.m) /\ \E Q : Holds(s.m, L \cup (v .. v + k - 1), P, S, Q, {})

\* The step of the loop keeps it so.
LEMMA HeapLoopStep ==
    ASSUME NEW s, NEW k \in Nat, NEW n \in Nat, k < n, NEW v, NEW t, NEW L, NEW P, NEW S,
           Room(v, n, L), After(s, k, v, t, L, P, S)
    PROVE  After(HeapPageStep(s, v + k), k + 1, v, t, L, P, S)
<1> DEFINE u == HeapPageStep(s, v + k)
           K == L \cup (v .. v + k - 1)
<1>1. CASE ~s.ok
  <2>1. u = s
    BY <1>1 DEF HeapPageStep
  <2> HIDE DEF u
  <2>2. QED BY <1>1, <2>1 DEF After, u
<1>2. CASE s.ok
  <2>1. PICK R : Holds(s.m, K, P, S, R, {})
    BY <1>2 DEF After
  <2>2. s.ok = TRUE /\ Quiet(t.m, s.m)
    BY <1>2 DEF After
  <2>3. v \in Nat /\ v + n <= Dirs * Entries /\ v >= HeapBase
    BY DEF Room
  <2>4. v + k \in Reach /\ v + k >= HeapBase
    <3>1. Dirs * Entries \in Nat /\ HeapBase \in Nat
      BY Sizes
    <3>2. QED BY <2>3, <3>1 DEF Reach
  <2>5. v + k \notin K
    <3>1. v + k \notin v .. v + k - 1
      BY <2>3
    <3>2. v + k \notin L
      BY <2>3 DEF Room
    <3>3. QED BY <3>1, <3>2
  <2> HIDE DEF K
  <2>6. /\ u.ok \in BOOLEAN
        /\ ~u.ok => Failed(s.m, u.m) /\ \E Q : Holds(u.m, K, P, S, Q, {})
        /\ u.ok => Steady(s.m, u.m) /\ \E Q : Holds(u.m, K \cup {v + k}, P, S, Q, {})
    BY <2>1, <2>2, <2>4, <2>5, OneHeapPage
  <2> HIDE DEF u
  <2>7. CASE ~u.ok
    <3>1. PICK Q : Holds(u.m, K, P, S, Q, {})
      BY <2>6, <2>7
    <3>2. Failed(t.m, u.m) /\ u.m.failed
      BY <2>2, <2>6, <2>7 DEF Failed, Quiet
    <3>3. L \subseteq K
      BY DEF K
    <3>4. Holds(u.m, L, P, S, Q, {})
      BY <3>1, <3>2, <3>3, Lifted
    <3>5. After(u, k + 1, v, t, L, P, S)
      BY <2>6, <2>7, <3>2, <3>4 DEF After
    <3>6. QED BY <3>5 DEF u
  <2>8. CASE u.ok
    <3>1. K \cup {v + k} = L \cup (v .. v + (k + 1) - 1)
      <4>1. v .. v + (k + 1) - 1 = (v .. v + k - 1) \cup {v + k}
        BY <2>3
      <4>2. QED BY <4>1 DEF K
    <3>2. Quiet(t.m, u.m)
      BY <2>2, <2>6, <2>8 DEF Quiet, Steady
    <3>3. After(u, k + 1, v, t, L, P, S)
      BY <2>6, <2>8, <3>1, <3>2 DEF After
    <3>4. QED BY <3>3 DEF u
  <2>9. QED BY <2>6, <2>7, <2>8
<1>3. s.ok \in BOOLEAN
  BY DEF After
<1>4. QED BY <1>1, <1>2, <1>3

\* allocate_kernel_heap_pages maps all pages, or fails; what it had mapped by
\* then is lost, and is not anyone's page.
LEMMA HeapPagesAllocated ==
    ASSUME Within, NEW m, NEW L, NEW P, NEW S, NEW R, Holds(m, L, P, S, R, {}), Counters(m, L),
           NEW n \in Nat
    PROVE  LET r == AllocateHeapPages(m, n)
           IN  /\ r.ok \in BOOLEAN
               /\ ~r.ok => Counters(r.m, L) /\ \E Q : Holds(r.m, L, P, S, Q, {})
               /\ r.ok => /\ Counters(r.m, L \cup (r.v .. r.v + n - 1))
                          /\ \E Q : Holds(r.m, L \cup (r.v .. r.v + n - 1), P, S, Q, {})
<1> DEFINE t == TakePages(m, n)
           g == CHOOSE g : g = [i \in 0 .. n |-> IF i = 0 THEN t ELSE HeapPageStep(g[i - 1], t.v + i - 1)]
           r == AllocateHeapPages(m, n)
<1>1. /\ t.ok \in BOOLEAN /\ Holds(t.m, L, P, S, R, {}) /\ Counters(t.m, L)
      /\ t.ok => Room(t.v, n, L) /\ Counters(t.m, L \cup (t.v .. t.v + n - 1))
  BY PagesTaken
<1>2. r = IF ~t.ok THEN t ELSE [g[n] EXCEPT !.v = t.v]
  BY DEF AllocateHeapPages
<1> HIDE DEF t, r
<1>3. g = [i \in 0 .. n |-> IF i = 0 THEN t ELSE HeapPageStep(g[i - 1], t.v + i - 1)]
  <2>1. \E h : h = [i \in 0 .. n |-> IF i = 0 THEN t ELSE HeapPageStep(h[i - 1], t.v + i - 1)]
    BY HeapLoopExists DEF HeapLoop
  <2>2. QED BY <2>1
<1> HIDE DEF g
<1>4. CASE ~t.ok
  BY <1>1, <1>2, <1>4 DEF r
<1>5. CASE t.ok
  <2> DEFINE T == {k \in Nat : k <= n => After(g[k], k, t.v, t, L, P, S)}
  <2>1. 0 \in T
    <3>1. g[0] = t
      BY <1>3
    <3>2. t.v .. t.v + 0 - 1 = {}
      BY <1>1, <1>5 DEF Room
    <3>3. L \cup (t.v .. t.v + 0 - 1) = L
      BY <3>2
    <3>4. Quiet(t.m, t.m)
      BY DEF Quiet
    <3>5. After(t, 0, t.v, t, L, P, S)
      BY <1>1, <1>5, <3>3, <3>4 DEF After
    <3>6. QED BY <3>1, <3>5
  <2>2. ASSUME NEW k \in Nat, k \in T PROVE k + 1 \in T
    <3> SUFFICES ASSUME k + 1 <= n PROVE After(g[k + 1], k + 1, t.v, t, L, P, S)
      OBVIOUS
    <3>1. After(g[k], k, t.v, t, L, P, S) /\ k < n
      BY <2>2
    <3>2. g[k + 1] = HeapPageStep(g[(k + 1) - 1], t.v + (k + 1) - 1)
      BY <1>3
    <3>3. (k + 1) - 1 = k /\ t.v + (k + 1) - 1 = t.v + k
      BY <1>1, <1>5 DEF Room
    <3>4. After(HeapPageStep(g[k], t.v + k), k + 1, t.v, t, L, P, S)
      BY <1>1, <1>5, <3>1, HeapLoopStep
    <3>5. QED BY <3>2, <3>3, <3>4
  <2>3. n \in T
    <3> HIDE DEF T
    <3>1. QED BY <2>1, <2>2, Induct
  <2>4. After(g[n], n, t.v, t, L, P, S)
    BY <2>3
  <2>5. r.ok = g[n].ok /\ r.m = g[n].m /\ r.v = t.v
    BY <1>2, <1>5
  <2>6. QED BY <1>1, <1>5, <2>4, <2>5 DEF r, After, Failed, Quiet, Counters
<1>6. QED BY <1>1, <1>4, <1>5

\* allocate_kernel_heap_page maps one page; when it fails after the frame was
\* taken, the frame is lost.
LEMMA HeapPageAllocated ==
    ASSUME Within, NEW m, NEW L, NEW P, NEW S, NEW R, Holds(m, L, P, S, R, {}), Counters(m, L)
    PROVE  LET r == AllocateHeapPage(m)
           IN  /\ r.ok \in BOOLEAN
               /\ ~r.ok => Counters(r.m, L) /\ \E Q : Holds(r.m, L, P, S, Q, {})
               /\ r.ok => Counters(r.m, L \cup {r.v}) /\ \E Q : Holds(r.m, L \cup {r.v}, P, S, Q, {})
<1> DEFINE p == AllocatePhysicalPage(m)
           A == Give(R, p.v, "lost", 0, 0)
           t == TakePages(p.m, 1)
           k == MapKernelPage(t.m, p.v, t.v)
           r == AllocateHeapPage(m)
<1>1. /\ p.ok \in BOOLEAN
      /\ ~p.ok => Failed(m, p.m) /\ Holds(p.m, L, P, S, R, {})
      /\ p.ok => /\ p.v \in Frames /\ Steady(m, p.m)
                 /\ Holds(p.m, L, P, S, A, {} \cup {p.v}) /\ Is(A, p.v, "lost")
  BY PhysicalPage
<1>2. r = IF ~p.ok THEN p ELSE IF ~t.ok THEN t ELSE k
  BY DEF AllocateHeapPage
<1> HIDE DEF r, p, A
<1>3. CASE ~p.ok
  <2>1. Counters(p.m, L)
    BY <1>1, <1>3 DEF Counters, Failed
  <2>2. QED BY <1>1, <1>2, <1>3, <2>1 DEF r
<1>4. CASE p.ok
  <2>1. Counters(p.m, L)
    BY <1>1, <1>4 DEF Counters, Steady
  <2>2. /\ t.ok \in BOOLEAN /\ Holds(t.m, L, P, S, A, {} \cup {p.v}) /\ Counters(t.m, L)
        /\ ~t.ok => Failed(t.m, t.m)
        /\ t.ok => Room(t.v, 1, L) /\ Counters(t.m, L \cup (t.v .. t.v + 1 - 1))
    BY <1>1, <1>4, <2>1, PagesTaken
  <2> HIDE DEF t
  <2>3. CASE ~t.ok
    <3>1. t.m.failed
      BY <2>2, <2>3 DEF Failed
    <3>2. Holds(t.m, L, P, S, A, {})
      BY <2>2, <3>1, Lifted
    <3>3. QED BY <1>2, <1>4, <2>2, <2>3, <3>2 DEF r
  <2>4. CASE t.ok
    <3>1. t.v \in Nat /\ t.v .. t.v + 1 - 1 = {t.v} /\ t.v >= HeapBase /\ t.v \notin L
      BY <2>2, <2>4 DEF Room
    <3>2. t.v \in Reach
      <4>1. Dirs * Entries \in Nat
        BY Sizes
      <4>2. QED BY <2>2, <2>4, <4>1 DEF Room, Reach
    <3>3. /\ k.ok \in BOOLEAN
          /\ ~k.ok => Failed(t.m, k.m) /\ \E Q : Holds(k.m, L, P, S, Q, {} \cup {p.v})
          /\ k.ok => /\ k.v = t.v /\ Steady(t.m, k.m)
                     /\ \E Q : Holds(k.m, L \cup {t.v}, P, S, Q, ({} \cup {p.v}) \ {p.v})
      BY <1>1, <1>4, <2>2, <3>1, <3>2, KernelPage
    <3> HIDE DEF k
    <3>4. CASE ~k.ok
      <4>1. PICK Q : Holds(k.m, L, P, S, Q, {} \cup {p.v})
        BY <3>3, <3>4
      <4>2. k.m.failed /\ Counters(k.m, L)
        BY <2>2, <3>3, <3>4 DEF Failed, Counters
      <4>3. Holds(k.m, L, P, S, Q, {})
        BY <4>1, <4>2, Lifted
      <4>4. QED BY <1>2, <1>4, <2>4, <3>3, <3>4, <4>2, <4>3 DEF r
    <3>5. CASE k.ok
      <4>1. PICK Q : Holds(k.m, L \cup {t.v}, P, S, Q, ({} \cup {p.v}) \ {p.v})
        BY <3>3, <3>5
      <4>2. Holds(k.m, L \cup {t.v}, P, S, Q, {})
        BY <4>1, Wider
      <4>3. Counters(k.m, L \cup {t.v})
        BY <2>2, <2>4, <3>1, <3>3, <3>5 DEF Counters, Steady
      <4>4. QED BY <1>2, <1>4, <2>4, <3>3, <3>5, <4>2, <4>3 DEF r
    <3>6. QED BY <3>3, <3>4, <3>5
  <2>5. QED BY <2>2, <2>3, <2>4
<1>5. QED BY <1>1, <1>3, <1>4

\* create_user_mode_directory makes a pdpt with a page directory; when only
\* the second frame is missing, the first is lost.
LEMMA DirectoryCreated ==
    ASSUME NEW m, NEW L, NEW P, NEW S, NEW R, Holds(m, L, P, S, R, {}), Counters(m, L)
    PROVE  LET r == CreateDirectory(m)
           IN  /\ r.ok \in BOOLEAN /\ Counters(r.m, L)
               /\ ~r.ok => \E Q : Holds(r.m, L, P, S, Q, {})
               /\ r.ok => \E Q : Holds(r.m, L, P \cup {r.v}, S, Q, {})
<1> DEFINE a == AllocatePhysicalPage(m)
           A == Give(R, a.v, "lost", 0, 0)
           b == AllocatePhysicalPage(a.m)
           B == Give(A, b.v, "lost", 0, 0)
           n == [b.m EXCEPT !.mem[a.v][0] = Pte(b.v)]
           r == CreateDirectory(m)
<1>1. /\ a.ok \in BOOLEAN
      /\ ~a.ok => Failed(m, a.m) /\ Holds(a.m, L, P, S, R, {})
      /\ a.ok => /\ a.v \in Frames /\ Steady(m, a.m)
                 /\ Holds(a.m, L, P, S, A, {} \cup {a.v}) /\ Is(A, a.v, "lost")
  BY PhysicalPage
<1>2. r = IF ~a.ok THEN a ELSE IF ~b.ok THEN b ELSE [m |-> n, ok |-> TRUE, v |-> a.v]
  BY DEF CreateDirectory, Done
<1>3. Written(b.m, n, a.v, 0, Pte(b.v))
  BY DEF Written
<1> HIDE DEF r, a, A, n
<1>4. CASE ~a.ok
  <2>1. Counters(a.m, L)
    BY <1>1, <1>4 DEF Counters, Failed
  <2>2. QED BY <1>1, <1>2, <1>4, <2>1 DEF r
<1>5. CASE a.ok
  <2>1. Counters(a.m, L)
    BY <1>1, <1>5 DEF Counters, Steady
  <2>2. /\ b.ok \in BOOLEAN
        /\ ~b.ok => Failed(a.m, b.m) /\ Holds(b.m, L, P, S, A, {} \cup {a.v})
        /\ b.ok => /\ b.v \in Frames /\ Steady(a.m, b.m) /\ Blank(b.m, b.v) /\ Is(A, b.v, "free")
                   /\ Holds(b.m, L, P, S, B, ({} \cup {a.v}) \cup {b.v}) /\ Is(B, b.v, "lost")
                   /\ RolesKept(A, B, b.v)
    BY <1>1, <1>5, PhysicalPage
  <2> HIDE DEF b, B
  <2>3. CASE ~b.ok
    <3>1. b.m.failed /\ Counters(b.m, L)
      BY <2>1, <2>2, <2>3 DEF Failed, Counters
    <3>2. Holds(b.m, L, P, S, A, {})
      BY <2>2, <2>3, <3>1, Lifted
    <3>3. QED BY <1>2, <1>5, <2>2, <2>3, <3>1, <3>2 DEF r
  <2>4. CASE b.ok
    <3>1. a.v # b.v /\ Is(B, a.v, "lost")
      BY <1>1, <1>5, <2>2, <2>4 DEF Is, RolesKept
    <3>2. Steady(b.m, n) /\ \E Q : Holds(n, L, P \cup {a.v}, S, Q, (({} \cup {a.v}) \cup {b.v}) \ {a.v, b.v})
      <4>1. a.v \in Frames /\ b.v \in Frames /\ Is(B, b.v, "lost") /\ Blank(b.m, b.v)
            /\ Holds(b.m, L, P, S, B, ({} \cup {a.v}) \cup {b.v})
        BY <1>1, <1>5, <2>2, <2>4
      <4> DEFINE N == ({} \cup {a.v}) \cup {b.v}
      <4> HIDE DEF N
      <4>2. Holds(b.m, L, P, S, B, N)
        BY <4>1 DEF N
      <4>3. Steady(b.m, n) /\ \E Q : Holds(n, L, P \cup {a.v}, S, Q, N \ {a.v, b.v})
        BY <1>3, <3>1, <4>1, <4>2, MakeDirectory
      <4>4. QED BY <4>3 DEF N
    <3>3. PICK Q : Holds(n, L, P \cup {a.v}, S, Q, (({} \cup {a.v}) \cup {b.v}) \ {a.v, b.v})
      BY <3>2
    <3>4. Holds(n, L, P \cup {a.v}, S, Q, {})
      BY <3>3, Wider
    <3>5. Counters(n, L)
      BY <2>1, <2>2, <2>4, <3>2 DEF Steady, Counters
    <3>6. r.m = n /\ r.ok = TRUE /\ r.v = a.v
      BY <1>2, <1>5, <2>4
    <3>7. QED BY <3>4, <3>5, <3>6 DEF r
  <2>5. QED BY <2>2, <2>3, <2>4
<1>6. QED BY <1>1, <1>4, <1>5

-----------------------------------------------------------------------------
(* User pages.                                                             *)

\* Entry d of the page directory of p points to the table t.
Leads(m, p, d, t) == m.mem[m.mem[p][0].to][d] = Pte(t)

\* No loaded segment is in the frame f.
Apart(m, S, f) == \A l \in S : UEntry(m, l.pdpt, FirstPage(l.seg)).to # f

\* A frame on its way is not the page of a segment, nor is it after tables
\* have gained entries.
LEMMA LostApart ==
    ASSUME NEW m, NEW L, NEW P, NEW S, NEW R, NEW N, Holds(m, L, P, S, R, N), ~m.failed,
           NEW f, Is(R, f, "lost"), NEW m2, Grows(m, m2, R)
    PROVE  Apart(m2, S, f)
<1>1. m \in Memory /\ UserSide(m, P, R) /\ Present(m, P, S)
  BY DEF Holds, Good
<1>2. Found(m, m2, R, S)
  BY <1>1, PresentKept
<1>3. QED BY <1>2 DEF Found, Apart, Is

\* The tables of an address space, from the top.
LEMMA Directory ==
    ASSUME NEW m, NEW P, NEW R, UserSide(m, P, R), NEW p \in P
    PROVE  LET pd == m.mem[p][0].to
           IN  p \in Frames /\ Is(R, p, "pdpt") /\ pd \in Frames /\ Is(R, pd, "pd")
BY DEF UserSide, Child, IsA, Is

\* The frame f becomes the page of v, whose table is t.
LEMMA UserLinked ==
    ASSUME NEW m, NEW L, NEW P, NEW S, NEW R, NEW N, Holds(m, L, P, S, R, N),
           NEW p \in P, NEW s \in Segments, NEW t \in Frames, Is(R, t, "utab"),
           Leads(m, p, UserDirIndex(FirstPage(s)), t), Vacant(m, t, TableIndex(FirstPage(s))),
           NEW f \in Frames, Is(R, f, "lost"),
           NEW m2, Written(m, m2, t, TableIndex(FirstPage(s)), Pte(f))
    PROVE  /\ Steady(m, m2) /\ UEntry(m2, p, FirstPage(s)) = Pte(f)
           /\ ~m.failed => Apart(m2, S, f)
           /\ \E Q : Holds(m2, L, P, S, Q, N \ {f}) /\ Is(Q, f, "user")
<1> DEFINE i == TableIndex(FirstPage(s))
           d == UserDirIndex(FirstPage(s))
           Q == Give(R, f, "user", t, i)
<1>1. m \in Memory /\ UserSide(m, P, R)
  BY DEF Holds, Good
<1>2. i \in Indexes /\ d \in Indexes
  BY SegmentIndices
<1>3. Fits(m, R, t, f, "user")
  BY DEF Fits, Is
<1>4. /\ Steady(m, m2) /\ Holds(m2, L, P, S, Q, N \ {f}) /\ Grows(m, m2, R) /\ OthersKept(m, m2, t)
      /\ IsA(Q, f, "user", t, i)
  <2> HIDE DEF i
  <2>1. Vacant(m, t, i) /\ Written(m, m2, t, i, Pte(f))
    BY DEF i
  <2>2. QED BY <1>2, <1>3, <2>1, LinkChild
<1> HIDE DEF Q
<1>5. Is(Q, f, "user")
  BY <1>4 DEF IsA, Is
<1>6. ~m.failed => Apart(m2, S, f)
  BY <1>4, LostApart
<1>7. m2.mem[t][i] = Pte(f)
  <2>1. Pte(f) \in Entry
    BY FramesAreNumbers, Entries2
  <2>2. QED BY <1>1, <1>2, <2>1, Writing
<1>8. UEntry(m2, p, FirstPage(s)) = Pte(f)
  <2> DEFINE pd == m.mem[p][0].to
  <2>1. p \in Frames /\ pd \in Frames /\ p # t /\ pd # t
    BY <1>1, Directory DEF Is
  <2>2. m2.mem[p] = m.mem[p] /\ m2.mem[pd] = m.mem[pd]
    BY <1>4, <2>1 DEF OthersKept
  <2>3. m.mem[pd][d] = Pte(t) /\ Pte(t).kind = "pte" /\ Pte(t).to = t
    BY Entries2, FramesAreNumbers DEF Leads
  <2> HIDE DEF d
  <2>4. m2.mem[m2.mem[p][0].to][d] = Pte(t)
    BY <2>2, <2>3
  <2>5. QED BY <1>7, <2>3, <2>4 DEF UEntry, d
<1>9. QED BY <1>4, <1>5, <1>6, <1>8

\* An entry is written again with what it holds.
LEMMA WrittenAgain ==
    ASSUME NEW m \in Memory, NEW t \in Frames, NEW i \in Indexes, NEW e, m.mem[t][i] = e,
           NEW m2, Written(m, m2, t, i, e)
    PROVE  m2 = m
<1> DEFINE q == [m.mem[t] EXCEPT ![i] = e]
           n == [m.mem EXCEPT ![t] = q]
<1>1. m2 = [m EXCEPT !.mem = n]
  BY DEF Written
<1>2. m.mem \in [Frames -> Page] /\ m.mem[t] \in [Indexes -> Entry]
  BY DEF Memory, Page
<1>3. q = m.mem[t]
  BY <1>2
<1> HIDE DEF q
<1>4. n = m.mem
  BY <1>2, <1>3
<1> HIDE DEF n
<1>5. QED BY <1>1, <1>4 DEF Memory

\* map_user_page gives the page of a segment the frame f.  It fails when a
\* page table cannot be made, and does not return (v is None) when the page is
\* present.
LEMMA UserMapped ==
    ASSUME NEW m, NEW L, NEW P, NEW S, NEW R, NEW N, Holds(m, L, P, S, R, N),
           NEW p \in P, NEW s \in Segments, NEW f \in Frames, Is(R, f, "lost")
    PROVE  LET r == MapUserPage(m, p, f, FirstPage(s))
           IN  /\ r.ok \in BOOLEAN
               /\ ~r.ok => Failed(m, r.m) /\ Holds(r.m, L, P, S, R, N)
               /\ (r.ok /\ r.v = None) => r.m = m
               /\ (r.ok /\ r.v # None) =>
                    /\ Steady(m, r.m) /\ UEntry(r.m, p, FirstPage(s)) = Pte(f)
                    /\ ~m.failed => Apart(r.m, S, f)
                    /\ \E Q : Holds(r.m, L, P, S, Q, N \ {f}) /\ Is(Q, f, "user")
<1> DEFINE pd == m.mem[p][0].to
           d == UserDirIndex(FirstPage(s))
           i == TableIndex(FirstPage(s))
           a == IF m.mem[pd][d].kind # "zero" THEN [m |-> m, ok |-> TRUE, v |-> m.mem[pd][d].to]
                ELSE AllocatePhysicalPage(m)
           m1 == [a.m EXCEPT !.mem[pd][d] = Pte(a.v)]
           m2 == [m1 EXCEPT !.mem[a.v][i] = Pte(f)]
           r == MapUserPage(m, p, f, FirstPage(s))
<1>1. m \in Memory /\ UserSide(m, P, R)
  BY DEF Holds, Good
<1>2. d \in Indexes /\ i \in Indexes /\ FirstPage(s) \in Nat
  BY SegmentIndices
<1>3. p \in Frames /\ pd \in Frames /\ Is(R, pd, "pd")
  BY <1>1, Directory
<1>4. r = IF ~a.ok THEN a
          ELSE IF a.m.mem[a.v][i].kind # "zero" THEN [m |-> a.m, ok |-> TRUE, v |-> None]
          ELSE [m |-> m2, ok |-> TRUE, v |-> FirstPage(s)]
  BY DEF MapUserPage, Done
<1>5. Written(a.m, m1, pd, d, Pte(a.v))
  BY DEF Written
<1>6. Written(m1, m2, a.v, i, Pte(f))
  BY DEF Written
<1> HIDE DEF r, m2, m1
<1>7. m.mem[pd][d] \in Entry
  BY <1>1, <1>2, <1>3 DEF Memory, Page
<1>8. CASE m.mem[pd][d].kind # "zero"
  <2>1. a.m = m /\ a.ok = TRUE /\ a.v = m.mem[pd][d].to
    BY <1>8
  <2> HIDE DEF a
  <2>2. Child(m, R, pd, d, "utab")
    <3>1. m.mem[pd][d] # Zero
      BY <1>8, Entries2
    <3> HIDE DEF pd, d
    <3>2. QED BY <1>1, <1>2, <1>3, <3>1 DEF UserSide, Is
  <2>3. a.v \in Frames /\ Is(R, a.v, "utab") /\ m.mem[pd][d] = Pte(a.v)
    <3>1. m.mem[pd][d].kind = "pte" /\ a.v \in Frames /\ Is(R, a.v, "utab")
      BY <2>1, <2>2 DEF Child, IsA, Is
    <3> HIDE DEF pd, d
    <3>2. QED BY <1>7, <2>1, <3>1, Entries2
  <2>4. m1 = m
    <3> HIDE DEF pd, d
    <3>1. Written(m, m1, pd, d, Pte(a.v))
      BY <1>5, <2>1
    <3>2. QED BY <1>1, <1>2, <1>3, <2>3, <3>1, WrittenAgain
  <2>5. CASE m.mem[a.v][i].kind # "zero"
    <3>1. r.ok = TRUE /\ r.v = None /\ r.m = m
      BY <1>4, <2>1, <2>5
    <3>2. QED BY <3>1 DEF r
  <2>6. CASE m.mem[a.v][i].kind = "zero"
    <3>1. r.ok = TRUE /\ r.v = FirstPage(s) /\ r.m = m2
      BY <1>4, <2>1, <2>6
    <3>2. Vacant(m, a.v, i)
      <4>1. m.mem[a.v][i] \in Entry
        BY <1>1, <1>2, <2>3 DEF Memory, Page
      <4>2. QED BY <2>6, <4>1, Entries2 DEF Vacant
    <3>3. Leads(m, p, d, a.v) /\ Written(m, m2, a.v, i, Pte(f))
      BY <1>6, <2>3, <2>4 DEF Leads
    <3>4. /\ Steady(m, m2) /\ UEntry(m2, p, FirstPage(s)) = Pte(f)
          /\ ~m.failed => Apart(m2, S, f)
          /\ \E Q : Holds(m2, L, P, S, Q, N \ {f}) /\ Is(Q, f, "user")
      BY <2>3, <3>2, <3>3, UserLinked
    <3>5. FirstPage(s) # None
      BY <1>2, FramesAreNumbers
    <3>6. QED BY <3>1, <3>4, <3>5 DEF r
  <2>7. QED BY <2>5, <2>6
<1>9. CASE m.mem[pd][d].kind = "zero"
  <2> DEFINE A == Give(R, a.v, "lost", 0, 0)
             B == Give(A, a.v, "utab", pd, d)
  <2>1. a = AllocatePhysicalPage(m)
    BY <1>9
  <2> HIDE DEF a
  <2>2. /\ a.ok \in BOOLEAN
        /\ ~a.ok => Failed(m, a.m) /\ Holds(a.m, L, P, S, R, N)
        /\ a.ok => /\ a.v \in Frames /\ Blank(a.m, a.v) /\ Is(R, a.v, "free")
                   /\ Steady(m, a.m) /\ OthersKept(m, a.m, a.v)
                   /\ Holds(a.m, L, P, S, A, N \cup {a.v}) /\ Is(A, a.v, "lost") /\ RolesKept(R, A, a.v)
    BY <2>1, PhysicalPage
  <2> HIDE DEF A
  <2>3. CASE ~a.ok
    <3>1. r = a
      BY <1>4, <2>3
    <3>2. QED BY <2>2, <2>3, <3>1 DEF r
  <2>4. CASE a.ok
    <3>1. a.v # pd /\ a.v # f /\ a.v # p /\ Is(A, pd, "pd") /\ Is(A, f, "lost")
      <4>1. Is(R, p, "pdpt")
        BY <1>1, Directory
      <4>2. QED BY <1>3, <2>2, <2>4, <4>1 DEF Is, RolesKept
    <3>2. a.m.mem[a.v][i] = Zero
      BY <1>2, <2>2, <2>4, Entries2 DEF Blank
    <3>3. r.ok = TRUE /\ r.v = FirstPage(s) /\ r.m = m2
      <4>1. ~(a.m.mem[a.v][i].kind # "zero")
        BY <3>2, Entries2
      <4>2. QED BY <1>4, <2>4, <4>1
    <3>4. Vacant(a.m, pd, d) /\ a.m.mem[p] = m.mem[p]
      <4>1. m.mem[pd][d] = Zero
        BY <1>7, <1>9, Entries2
      <4>2. a.m.mem[pd] = m.mem[pd] /\ a.m.mem[p] = m.mem[p]
        BY <1>3, <2>2, <2>4, <3>1 DEF OthersKept
      <4>3. QED BY <4>1, <4>2 DEF Vacant
    <3>5. Fits(a.m, A, pd, a.v, "utab")
      BY <2>2, <2>4, <3>1 DEF Fits, Is, Blank
    <3>6. m1.mem[pd][d] = Pte(a.v) /\ m1.mem[p] = a.m.mem[p] /\ m1.mem[a.v] = a.m.mem[a.v]
      <4>1. a.m \in Memory /\ Pte(a.v) \in Entry
        BY <2>2, <2>4, FramesAreNumbers, Entries2 DEF Holds, Good
      <4>2. p # pd
        BY <1>1, Directory DEF Is
      <4> HIDE DEF pd, d
      <4>3. m1.mem[pd][d] = Pte(a.v) /\ \A g \in Frames : g # pd => m1.mem[g] = a.m.mem[g]
        BY <1>2, <1>3, <1>5, <4>1, Writing
      <4>4. QED BY <1>3, <2>2, <2>4, <3>1, <4>2, <4>3
    <3>7. Leads(m1, p, d, a.v) /\ Vacant(m1, a.v, i)
      BY <3>2, <3>4, <3>6 DEF Leads, Vacant
    <3> HIDE DEF pd, d
    <3>8. /\ Steady(a.m, m1) /\ Holds(m1, L, P, S, B, (N \cup {a.v}) \ {a.v})
          /\ IsA(B, a.v, "utab", pd, d) /\ RolesKept(A, B, a.v)
      BY <1>2, <1>3, <1>5, <2>2, <2>4, <3>1, <3>4, <3>5, LinkChild
    <3> HIDE DEF B
    <3>9. Is(B, a.v, "utab") /\ Is(B, f, "lost")
      BY <3>1, <3>8 DEF IsA, Is, RolesKept
    <3>10. Holds(m1, L, P, S, B, N)
      BY <3>8, Wider
    <3>11. /\ Steady(m1, m2) /\ UEntry(m2, p, FirstPage(s)) = Pte(f)
           /\ ~m1.failed => Apart(m2, S, f)
           /\ \E Q : Holds(m2, L, P, S, Q, N \ {f}) /\ Is(Q, f, "user")
      <4>1. a.v \in Frames /\ Leads(m1, p, UserDirIndex(FirstPage(s)), a.v)
        BY <2>2, <2>4, <3>7 DEF d
      <4>2. QED BY <1>6, <3>7, <3>9, <3>10, <4>1, UserLinked
    <3>12. Steady(m, m2) /\ m1.failed = m.failed
      BY <2>2, <2>4, <3>8, <3>11 DEF Steady
    <3>13. FirstPage(s) # None
      BY <1>2, FramesAreNumbers
    <3>14. QED BY <3>3, <3>11, <3>12, <3>13 DEF r
  <2>5. QED BY <2>2, <2>3, <2>4
<1>10. QED BY <1>8, <1>9

\* The frame f gets the contents c.
Filled(m, m2, f, c) == m2 = [m EXCEPT !.mem = [g \in Frames |-> IF g = f THEN c ELSE m.mem[g]]]

\* What is found for the pages of segments.
SameUserEntries(m, m2, P) ==
    \A p \in P, s \in Segments : UEntry(m2, p, FirstPage(s)) = UEntry(m, p, FirstPage(s))

\* A frame that is no table is filled.
LEMMA FillPage ==
    ASSUME NEW m, NEW L, NEW P, NEW S, NEW R, NEW N, Holds(m, L, P, S, R, N),
           NEW f \in Frames, Is(R, f, "user") \/ Is(R, f, "lost"),
           m.failed \/ Apart(m, S, f), NEW c \in Page, NEW m2, Filled(m, m2, f, c)
    PROVE  /\ Steady(m, m2) /\ m2.mem[f] = c /\ SameUserEntries(m, m2, P)
           /\ Holds(m2, L, P, S, R, N)
<1>1. m \in Memory /\ R \in Roles /\ Parts(m, R) /\ KernelSide(m, L, R) /\ UserSide(m, P, R)
  BY DEF Holds, Good
<1> DEFINE n == [g \in Frames |-> IF g = f THEN c ELSE m.mem[g]]
<1>2. m2 = [m EXCEPT !.mem = n]
  BY DEF Filled
<1>3. n \in [Frames -> Page] /\ n[f] = c /\ \A g \in Frames : g # f => n[g] = m.mem[g]
  BY <1>1 DEF Memory
<1> HIDE DEF n
<1>4. /\ m2 \in Memory /\ m2.free = m.free /\ m2.kpd = m.kpd /\ m2.mem = n
      /\ m2.next = m.next /\ m2.left = m.left /\ m2.failed = m.failed
  BY <1>1, <1>2, <1>3 DEF Memory
<1>5. \A g \in Frames : R[g].kind \in {"ktab", "pdpt", "pd", "utab"} => m2.mem[g] = m.mem[g]
  BY <1>3, <1>4 DEF Is
<1>6. Parts(m2, R)
  BY <1>1, <1>4 DEF Parts
<1>7. KernelSide(m2, L, R) /\ \A v \in Reach : KEntry(m2, v) = KEntry(m, v)
  <2>1. SameKernel(m, m2, R, R)
    BY <1>4, <1>5 DEF SameKernel
  <2>2. QED BY <1>1, <1>4, <2>1, KernelKept
<1>8. UserSide(m2, P, R)
  <2>1. SameUser(m, m2, R, R)
    BY <1>5 DEF SameUser
  <2>2. QED BY <1>1, <2>1, UserKept
<1>9. ASSUME NEW p \in P, NEW s \in Segments PROVE UEntry(m2, p, FirstPage(s)) = UEntry(m, p, FirstPage(s))
  <2> DEFINE pd == m.mem[p][0].to
             d == UserDirIndex(FirstPage(s))
             t == m.mem[pd][d].to
  <2>1. p \in Frames /\ Is(R, p, "pdpt") /\ pd \in Frames /\ Is(R, pd, "pd")
    BY <1>1, Directory
  <2>2. m2.mem[p] = m.mem[p] /\ m2.mem[pd] = m.mem[pd]
    BY <1>5, <2>1 DEF Is
  <2>3. ASSUME m.mem[pd][d].kind = "pte" PROVE t \in Frames /\ R[t].kind = "utab"
    <3>1. m.mem[pd][d] # Zero /\ d \in Indexes
      BY <2>3, Entries2, SegmentIndices
    <3>2. Child(m, R, pd, d, "utab")
      <4> HIDE DEF pd, d
      <4>1. QED BY <1>1, <2>1, <3>1 DEF UserSide, Is
    <3>3. QED BY <3>2 DEF Child, IsA
  <2>4. m.mem[pd][d].kind = "pte" => m2.mem[t] = m.mem[t]
    BY <1>5, <2>3
  <2>5. QED BY <2>2, <2>4 DEF UEntry
<1>10. ASSUME ~m.failed PROVE Backed(m2, L, P, R, N) /\ Present(m2, P, S)
  <2>1. Backed(m, L, P, R, N) /\ Present(m, P, S) /\ Apart(m, S, f)
    BY <1>10 DEF Holds
  <2>2. ASSUME NEW l \in S
        PROVE  /\ l.pdpt \in P /\ l.seg \in Segments
               /\ UEntry(m2, l.pdpt, FirstPage(l.seg)).kind = "pte"
               /\ m2.mem[UEntry(m2, l.pdpt, FirstPage(l.seg)).to] = Content(l.seg)
    <3> DEFINE u == UEntry(m, l.pdpt, FirstPage(l.seg)).to
    <3>1. /\ l.pdpt \in P /\ l.seg \in Segments /\ UEntry(m, l.pdpt, FirstPage(l.seg)).kind = "pte"
          /\ m.mem[u] = Content(l.seg) /\ u # f
      BY <2>1 DEF Present, Apart
    <3>2. u \in Frames
      <4>1. Grows(m, m, R)
        BY DEF Grows
      <4>2. Found(m, m, R, S)
        BY <1>1, <2>1, <4>1, PresentKept
      <4>3. QED BY <4>2 DEF Found
    <3>3. UEntry(m2, l.pdpt, FirstPage(l.seg)) = UEntry(m, l.pdpt, FirstPage(l.seg))
      BY <1>9, <3>1
    <3>4. QED BY <1>3, <1>4, <3>1, <3>2, <3>3
  <2>3. Present(m2, P, S)
    BY <2>2 DEF Present
  <2>4. \A g \in Frames : R[g].kind = "heap" => R[g].a \in Reach
    BY <1>1, <2>1 DEF Backed, KernelSide
  <2>5. \A p \in P : p \in Frames /\ R[p].kind = "pdpt"
    BY <1>1 DEF UserSide
  <2>6. Backed(m2, L, P, R, N)
    BY <1>4, <1>5, <1>7, <2>1, <2>4, <2>5 DEF Backed
  <2>7. QED BY <2>3, <2>6
<1>11. SameUserEntries(m, m2, P)
  BY <1>9 DEF SameUserEntries
<1>12. QED BY <1>1, <1>3, <1>4, <1>6, <1>7, <1>8, <1>10, <1>11 DEF Holds, Good, Steady

\* A segment of at most a page takes one page.
LEMMA OnePage ==
    ASSUME Within, NEW s \in Segments
    PROVE  LoadPages(s) = 1
<1>1. s.memsz \in Nat /\ 1 <= s.memsz /\ s.memsz <= Entries /\ Entries \in Nat \ {0}
  BY LayoutAssumption DEF Within
<1> DEFINE k == s.memsz + Entries - 1
<1>2. k \in Nat /\ Entries <= k /\ k < 2 * Entries
  BY <1>1
<1> HIDE DEF k
<1>3. k \div Entries \in Nat /\ k = Entries * (k \div Entries) + (k % Entries) /\ k % Entries \in 0 .. Entries - 1
  BY <1>1, <1>2, DivMod
<1> DEFINE q == k \div Entries
<1> HIDE DEF q
<1>4. q \in Nat /\ k - Entries * q < Entries /\ Entries * q <= k
  <2>1. q \in Nat /\ Entries * q \in Nat /\ k = Entries * q + (k % Entries) /\ k % Entries \in Nat /\ k % Entries < Entries
    BY <1>1, <1>2, <1>3 DEF q
  <2>2. QED BY <1>1, <1>2, <2>1
<1>5. q # 0
  BY <1>1, <1>2, <1>4
<1>6. q < 2
  <2>1. ASSUME q >= 2 PROVE FALSE
    <3>1. Entries * 2 <= Entries * q
      BY <1>1, <1>4, <2>1
    <3>2. QED BY <1>1, <1>2, <1>4, <3>1
  <2>2. QED BY <1>4, <2>1
<1>7. q = 1
  BY <1>4, <1>5, <1>6
<1>8. QED BY <1>7 DEF q, k, LoadPages

\* What Fill writes to word i of the frame g.
Word(m, f, s, g, i) ==
    LET off == (g - f) * Entries + i
    IN  IF g < f THEN m.mem[g][i]
        ELSE IF off < s.filesz THEN Data(s.id + off)
        ELSE IF g < f + LoadPages(s) THEN Zero
        ELSE m.mem[g][i]

\* Fill of a segment of one page.
LEMMA FillOne ==
    ASSUME Within, NEW m \in Memory, NEW f \in Frames, NEW s \in Segments
    PROVE  Filled(m, Fill(m, f, s), f, Content(s)) /\ Content(s) \in Page
<1>1. s.id \in Nat /\ s.filesz \in Nat /\ s.filesz <= Entries /\ f \in Nat /\ LoadPages(s) = 1 /\ Entries \in Nat \ {0}
  BY LayoutAssumption, FramesAreNumbers, OnePage DEF Within
<1>2. Content(s) \in Page
  BY <1>1, Entries2 DEF Content, Data, Page, Entry, Indexes
<1> DEFINE n1 == [g \in Frames |-> [i \in Indexes |-> Word(m, f, s, g, i)]]
           n2 == [g \in Frames |-> IF g = f THEN Content(s) ELSE m.mem[g]]
<1>3. Fill(m, f, s) = [m EXCEPT !.mem = n1]
  BY DEF Fill, Word, Indexes
<1>4. ASSUME NEW g \in Frames PROVE n1[g] = n2[g]
  <2>1. g \in Nat /\ m.mem[g] \in [Indexes -> Entry]
    BY FramesAreNumbers DEF Memory, Page
  <2>2. CASE g = f
    <3>1. ASSUME NEW i \in Indexes
          PROVE  Word(m, f, s, g, i) = IF i < s.filesz THEN Data(s.id + i) ELSE Zero
      <4>1. (g - f) * Entries + i = i /\ ~(g < f) /\ g < f + LoadPages(s)
        BY <1>1, <2>2 DEF Indexes
      <4>2. QED BY <4>1 DEF Word
    <3>2. [i \in Indexes |-> Word(m, f, s, g, i)] = Content(s)
      BY <3>1 DEF Content
    <3>3. QED BY <2>2, <3>2
  <2>3. CASE g # f
    <3>1. ASSUME NEW i \in Indexes PROVE Word(m, f, s, g, i) = m.mem[g][i]
      <4>1. CASE g < f
        BY <4>1 DEF Word
      <4>2. CASE g > f
        <5>1. (g - f) * Entries >= Entries
          <6> DEFINE k == g - f
          <6>1. k \in Nat \ {0}
            BY <1>1, <2>1, <4>2
          <6> HIDE DEF k
          <6>2. k * Entries >= Entries
            BY <1>1, <6>1
          <6>3. QED BY <6>2 DEF k
        <5>2. (g - f) * Entries \in Int /\ i \in Nat
          BY <1>1, <2>1 DEF Indexes
        <5>3. ~((g - f) * Entries + i < s.filesz) /\ ~(g < f) /\ ~(g < f + LoadPages(s))
          <6> DEFINE k == (g - f) * Entries
          <6>1. k \in Int /\ k >= Entries
            BY <5>1, <5>2
          <6> HIDE DEF k
          <6>2. ~(k + i < s.filesz)
            BY <1>1, <5>2, <6>1
          <6>3. ~(g < f) /\ ~(g < f + LoadPages(s))
            BY <1>1, <2>1, <4>2
          <6>4. QED BY <6>2, <6>3 DEF k
        <5>4. QED BY <5>3 DEF Word
      <4>3. QED BY <1>1, <2>1, <2>3, <4>1, <4>2
    <3>2. [i \in Indexes |-> Word(m, f, s, g, i)] = m.mem[g]
      BY <2>1, <3>1
    <3>3. QED BY <2>3, <3>2
  <2>4. QED BY <2>2, <2>3
<1>5. n1 = n2
  <2> HIDE DEF n1, n2
  <2>1. n1 = [g \in Frames |-> n1[g]] /\ n2 = [g \in Frames |-> n2[g]]
    BY DEF n1, n2
  <2>2. QED BY <1>4, <2>1
<1>6. QED BY <1>2, <1>3, <1>5 DEF Filled

\* allocate_user_pages of one page takes one step.
LEMMA OneUserStep ==
    ASSUME NEW m, NEW p, NEW b \in Nat
    PROVE  AllocateUserPages(m, p, b, 1) =
             UserPageStep([m |-> m, ok |-> TRUE, v |-> None, hung |-> FALSE], p, b)
<1> DEFINE z == [m |-> m, ok |-> TRUE, v |-> None, hung |-> FALSE]
           g == CHOOSE g : g = [i \in 0 .. 1 |-> IF i = 0 THEN z ELSE UserPageStep(g[i - 1], p, b + i - 1)]
           h == [i \in 0 .. 1 |-> IF i = 0 THEN z ELSE UserPageStep(z, p, b + i - 1)]
<1>1. AllocateUserPages(m, p, b, 1) = g[1]
  BY DEF AllocateUserPages
<1> HIDE DEF z
<1>2. \A i \in 0 .. 1 : h[i] = IF i = 0 THEN z ELSE UserPageStep(h[i - 1], p, b + i - 1)
  <2>1. h[0] = z
    OBVIOUS
  <2>2. h[1] = UserPageStep(z, p, b + 1 - 1)
    OBVIOUS
  <2> HIDE DEF h
  <2>3. ASSUME NEW i \in 0 .. 1 PROVE h[i] = IF i = 0 THEN z ELSE UserPageStep(h[i - 1], p, b + i - 1)
    <3>1. CASE i = 0
      BY <2>1, <3>1
    <3>2. CASE i = 1
      <4>1. i - 1 = 0 /\ i # 0
        BY <3>2
      <4>2. QED BY <2>1, <2>2, <3>2, <4>1
    <3>3. QED BY <3>1, <3>2
  <2>4. QED BY <2>3
<1>3. h = [i \in 0 .. 1 |-> IF i = 0 THEN z ELSE UserPageStep(h[i - 1], p, b + i - 1)]
  <2>1. h = [i \in 0 .. 1 |-> h[i]]
    OBVIOUS
  <2> HIDE DEF h
  <2>2. QED BY <1>2, <2>1
<1> HIDE DEF h
<1>4. g = [i \in 0 .. 1 |-> IF i = 0 THEN z ELSE UserPageStep(g[i - 1], p, b + i - 1)]
  <2>1. \E x : x = [i \in 0 .. 1 |-> IF i = 0 THEN z ELSE UserPageStep(x[i - 1], p, b + i - 1)]
    BY <1>3
  <2>2. QED BY <2>1
<1> HIDE DEF g
<1>5. g[0] = z /\ g[1] = UserPageStep(g[1 - 1], p, b + 1 - 1)
  BY <1>4
<1>6. 1 - 1 = 0 /\ b + 1 - 1 = b
  OBVIOUS
<1>7. g[1] = UserPageStep(z, p, b)
  BY <1>5, <1>6
<1>8. QED BY <1>1, <1>7 DEF z

\* One segment of load_elf: its page is mapped and filled, or a request has
\* failed, or the kernel hangs.
LEMMA SegmentTaken ==
    ASSUME Within, NEW m, NEW L, NEW P, NEW S, NEW R, Holds(m, L, P, S, R, {}), Counters(m, L),
           NEW p \in P, NEW s \in Segments
    PROVE  LET r == AllocateUserPages(m, p, FirstPage(s), LoadPages(s))
               l == [pdpt |-> p, seg |-> s]
           IN  /\ r.ok \in BOOLEAN /\ r.hung \in BOOLEAN
               /\ (r.ok /\ ~r.hung) => /\ r.v # None /\ Counters(Fill(r.m, r.v, s), L)
                                       /\ \E Q : Holds(Fill(r.m, r.v, s), L, P, S \cup {l}, Q, {})
               /\ ~(r.ok /\ ~r.hung) => Counters(r.m, L) /\ \E Q : Good(r.m, L, P, Q)
               /\ ~r.ok => \E Q : Holds(r.m, L, P, S, Q, {})
<1> DEFINE z == [m |-> m, ok |-> TRUE, v |-> None, hung |-> FALSE]
           a == AllocatePhysicalPage(m)
           A == Give(R, a.v, "lost", 0, 0)
           u == MapUserPage(a.m, p, a.v, FirstPage(s))
           r == AllocateUserPages(m, p, FirstPage(s), LoadPages(s))
           l == [pdpt |-> p, seg |-> s]
<1>1. LoadPages(s) = 1 /\ FirstPage(s) \in Nat
  BY OnePage, SegmentIndices
<1>2. r = UserPageStep(z, p, FirstPage(s))
  BY <1>1, OneUserStep
<1>3. r = [m |-> IF a.ok THEN u.m ELSE a.m, ok |-> a.ok, v |-> a.v, hung |-> a.ok /\ u.ok /\ u.v = None]
  BY <1>2 DEF UserPageStep
<1>4. /\ a.ok \in BOOLEAN
      /\ ~a.ok => Failed(m, a.m) /\ Holds(a.m, L, P, S, R, {})
      /\ a.ok => /\ a.v \in Frames /\ Steady(m, a.m)
                 /\ Holds(a.m, L, P, S, A, {} \cup {a.v}) /\ Is(A, a.v, "lost")
  BY PhysicalPage
<1> HIDE DEF r, a, A
<1>5. CASE ~a.ok
  <2>1. r.m = a.m /\ r.ok = FALSE /\ r.hung = FALSE
    BY <1>3, <1>4, <1>5
  <2>2. Counters(a.m, L)
    BY <1>4, <1>5 DEF Counters, Failed
  <2>3. QED BY <1>4, <1>5, <2>1, <2>2 DEF r, Holds
<1>6. CASE a.ok
  <2>1. r.m = u.m /\ r.ok = TRUE /\ r.v = a.v /\ r.v # None /\ r.hung = (u.ok /\ u.v = None)
    BY <1>3, <1>4, <1>6, FramesAreNumbers
  <2>2. /\ u.ok \in BOOLEAN
        /\ ~u.ok => Failed(a.m, u.m) /\ Holds(u.m, L, P, S, A, {} \cup {a.v})
        /\ (u.ok /\ u.v = None) => u.m = a.m
        /\ (u.ok /\ u.v # None) =>
             /\ Steady(a.m, u.m) /\ UEntry(u.m, p, FirstPage(s)) = Pte(a.v)
             /\ ~a.m.failed => Apart(u.m, S, a.v)
             /\ \E Q : Holds(u.m, L, P, S, Q, ({} \cup {a.v}) \ {a.v}) /\ Is(Q, a.v, "user")
    BY <1>4, <1>6, UserMapped
  <2> HIDE DEF u
  <2> DEFINE n == Fill(u.m, a.v, s)
  <2>3. CASE u.ok /\ u.v = None
    <3>1. r.hung = TRUE /\ r.m = a.m
      BY <2>1, <2>2, <2>3
    <3>2. Counters(a.m, L) /\ Good(a.m, L, P, A)
      BY <1>4, <1>6 DEF Counters, Steady, Holds
    <3>3. QED BY <2>1, <3>1, <3>2 DEF r
  <2>4. CASE ~u.ok
    <3>1. u.m.failed /\ Holds(u.m, L, P, S, A, {}) /\ u.m \in Memory
      <4>1. u.m.failed
        BY <2>2, <2>4 DEF Failed
      <4>2. Holds(u.m, L, P, S, A, {})
        BY <2>2, <2>4, <4>1, Lifted
      <4>3. QED BY <4>1, <4>2 DEF Holds, Good
    <3>2. Filled(u.m, n, a.v, Content(s)) /\ Content(s) \in Page
      BY <1>4, <1>6, <3>1, FillOne
    <3> HIDE DEF n
    <3>3. Steady(u.m, n) /\ Holds(n, L, P, S, A, {})
      BY <1>4, <1>6, <3>1, <3>2, FillPage
    <3>4. n.failed /\ Counters(n, L)
      BY <1>4, <1>6, <2>2, <2>4, <3>1, <3>3 DEF Counters, Steady, Failed
    <3>5. Holds(n, L, P, S \cup {l}, A, {})
      BY <3>3, <3>4, Lifted
    <3>6. r.hung = FALSE
      BY <2>1, <2>2, <2>4
    <3>7. QED BY <2>1, <3>4, <3>5, <3>6 DEF r, n
  <2>5. CASE u.ok /\ u.v # None
    <3>1. PICK Q : Holds(u.m, L, P, S, Q, ({} \cup {a.v}) \ {a.v}) /\ Is(Q, a.v, "user")
      BY <2>2, <2>5
    <3>2. Holds(u.m, L, P, S, Q, {}) /\ u.m \in Memory
      <4>1. Holds(u.m, L, P, S, Q, {})
        BY <3>1, Wider
      <4>2. QED BY <4>1 DEF Holds, Good
    <3>3. u.m.failed \/ Apart(u.m, S, a.v)
      BY <2>2, <2>5 DEF Steady
    <3>4. Filled(u.m, n, a.v, Content(s)) /\ Content(s) \in Page
      BY <1>4, <1>6, <3>2, FillOne
    <3> HIDE DEF n
    <3>5. /\ Steady(u.m, n) /\ n.mem[a.v] = Content(s) /\ SameUserEntries(u.m, n, P)
          /\ Holds(n, L, P, S, Q, {})
      BY <1>4, <1>6, <3>1, <3>2, <3>3, <3>4, FillPage
    <3>6. Counters(n, L)
      BY <1>4, <1>6, <2>2, <2>5, <3>5 DEF Counters, Steady
    <3>7. UEntry(n, p, FirstPage(s)) = Pte(a.v)
      BY <2>2, <2>5, <3>5 DEF SameUserEntries
    <3>8. Pte(a.v).kind = "pte" /\ Pte(a.v).to = a.v
      BY <1>4, <1>6, FramesAreNumbers, Entries2
    <3>9. Present(n, P, S) => Present(n, P, S \cup {l})
      BY <3>5, <3>7, <3>8 DEF Present
    <3>10. Holds(n, L, P, S \cup {l}, Q, {})
      BY <3>5, <3>9 DEF Holds
    <3>11. r.hung = FALSE
      BY <2>1, <2>2, <2>5
    <3>12. QED BY <2>1, <3>6, <3>10, <3>11 DEF r, n
  <2>6. QED BY <2>2, <2>3, <2>4, <2>5
<1>7. QED BY <1>4, <1>5, <1>6

-----------------------------------------------------------------------------
(* The actions.                                                            *)

\* While the kernel runs, the invariant is what the operations keep.
LEMMA Running ==
    ASSUME status = "running", NEW R
    PROVE  Explained(R) <=> Holds(mm, live, processes, loaded, R, {})
BY DEF Explained, Holds

\* What suffices after a step that leaves the kernel running.
LEMMA RunningNext ==
    ASSUME status' = "running", Counters(mm', live'),
           NEW Q, Holds(mm', live', processes', loaded', Q, {})
    PROVE  IInv'
<1>1. Explained(Q)'
  BY DEF Explained, Holds
<1>2. VerifyPanicExplained'
  BY DEF VerifyPanicExplained
<1>3. QED BY <1>1, <1>2 DEF IInv

\* In the first state the boot loader's frames are in use, one of them as the
\* page table of the image.
LEMMA Initial ==
    ASSUME Init PROVE IInv
<1> DEFINE R == [f \in Frames |-> [kind |-> IF f = BootTable THEN "ktab"
                                           ELSE IF f \in BootFrames THEN "boot" ELSE "free",
                                   a |-> 0, b |-> 0]]
<1>1. R \in Roles
  BY DEF Roles, Kinds
<1>2. \A f \in Frames : /\ R[f].kind = IF f = BootTable THEN "ktab"
                                      ELSE IF f \in BootFrames THEN "boot" ELSE "free"
                        /\ R[f].a = 0 /\ R[f].b = 0
  OBVIOUS
<1> HIDE DEF R
<1>3. /\ mm.free = Frames \ BootFrames /\ mm.next = HeapBase /\ mm.left = HeapPages /\ mm.failed = FALSE
      /\ mm.mem = [f \in Frames |-> [i \in 0 .. Entries - 1 |->
                     IF f = BootTable /\ i < HeapBase THEN Pte(BootTable) ELSE Zero]]
      /\ mm.kpd = [d \in 0 .. Dirs - 1 |-> IF d = 0 THEN BootTable ELSE None]
      /\ status = "running" /\ live = {} /\ processes = {} /\ loaded = {}
  BY DEF Init
<1>4. mm \in Memory
  <2>1. mm.mem \in [Frames -> Page]
    BY <1>3, Entries2, Sizes DEF Page, Indexes
  <2>2. mm.kpd \in [0 .. Dirs - 1 -> Frames \cup {None}]
    BY <1>3, Sizes
  <2>3. mm = [free |-> mm.free, mem |-> mm.mem, kpd |-> mm.kpd, next |-> mm.next, left |-> mm.left,
              failed |-> mm.failed]
    BY DEF Init
  <2>4. mm.free \in SUBSET Frames /\ mm.next \in Nat /\ mm.left \in Nat /\ mm.failed \in BOOLEAN
    <3>1. mm.free \in SUBSET Frames
      BY <1>3
    <3>2. mm.next \in Nat /\ mm.left \in Nat
      BY <1>3, Sizes
    <3>3. mm.failed \in BOOLEAN
      BY <1>3
    <3>4. QED BY <3>1, <3>2, <3>3
  <2>5. QED BY <2>1, <2>2, <2>3, <2>4 DEF Memory
<1>5. Parts(mm, R)
  BY <1>2, <1>3, Sizes DEF Parts
<1>6. \A d \in 0 .. Dirs - 1 : mm.kpd[d] = IF d = 0 THEN BootTable ELSE None
  BY <1>3
<1>7. KernelSide(mm, live, R)
  <2>1. mm.kpd[0] = BootTable
    BY <1>6, Sizes
  <2>2. \A d \in 0 .. Dirs - 1 : mm.kpd[d] # None => IsA(R, mm.kpd[d], "ktab", d, 0)
    BY <1>2, <1>6, Sizes DEF IsA
  <2>3. ASSUME NEW v \in 0 .. HeapBase - 1 PROVE KEntry(mm, v) = Pte(BootTable)
    <3>1. v \in Reach /\ v \in Nat /\ v < Entries /\ v < HeapBase
      BY LowReach, Sizes
    <3>2. v \div Entries = 0 /\ v % Entries = v
      <4>1. v = Entries * 0 + v /\ v \in 0 .. Entries - 1
        BY <3>1, Sizes
      <4>2. QED BY <3>1, <4>1, DivUnique, Sizes
    <3>3. 0 % Dirs = 0
      BY Sizes
    <3>4. DirIndex(v) = 0 /\ TableIndex(v) = v
      BY <3>2, <3>3 DEF DirIndex, TableIndex
    <3>5. KEntry(mm, v) = mm.mem[BootTable][v]
      BY <1>4, <2>1, <3>1, <3>4, Walked, Sizes, FramesAreNumbers
    <3>6. QED BY <1>3, <3>1, <3>5, Sizes
  <2>4. QED BY <1>3, <2>1, <2>2, <2>3 DEF KernelSide
<1>8. UserSide(mm, processes, R)
  BY <1>2, <1>3 DEF UserSide
<1>9. Backed(mm, live, processes, R, {}) /\ Present(mm, processes, loaded)
  BY <1>2, <1>3, <1>6, Sizes DEF Backed, Present
<1>10. Counters(mm, live) /\ VerifyPanicExplained
  BY <1>3, Sizes DEF Counters, VerifyPanicExplained
<1>11. Explained(R)
  BY <1>1, <1>4, <1>5, <1>7, <1>8, <1>9 DEF Explained, Good
<1>12. QED BY <1>3, <1>10, <1>11 DEF IInv

\* allocate_kernel_heap_page keeps the invariant.
LEMMA StepAllocateKernelHeapPage ==
    ASSUME Within, IInv, AllocateKernelHeapPage PROVE IInv'
<1>1. status = "running" /\ status' = "running" /\ processes' = processes /\ loaded' = loaded
  BY DEF AllocateKernelHeapPage
<1>2. PICK R : Holds(mm, live, processes, loaded, R, {})
  BY <1>1, Running DEF IInv
<1> DEFINE r == AllocateHeapPage(mm)
<1>3. /\ r.ok \in BOOLEAN
      /\ ~r.ok => Counters(r.m, live) /\ \E Q : Holds(r.m, live, processes, loaded, Q, {})
      /\ r.ok => /\ Counters(r.m, live \cup {r.v})
                 /\ \E Q : Holds(r.m, live \cup {r.v}, processes, loaded, Q, {})
  BY <1>2, HeapPageAllocated DEF IInv
<1>4. mm' = r.m /\ live' = IF r.ok THEN live \cup {r.v} ELSE live
  BY DEF AllocateKernelHeapPage
<1> HIDE DEF r
<1>5. Counters(mm', live') /\ \E Q : Holds(mm', live', processes', loaded', Q, {})
  BY <1>1, <1>3, <1>4
<1>6. QED BY <1>1, <1>5, RunningNext

\* So does allocate_kernel_heap_pages, for every number of pages,
LEMMA StepAllocateKernelHeapPages ==
    ASSUME Within, IInv, NEW n \in HeapRequests, AllocateKernelHeapPages(n) PROVE IInv'
<1>1. status = "running" /\ status' = "running" /\ processes' = processes /\ loaded' = loaded
  BY DEF AllocateKernelHeapPages
<1>2. PICK R : Holds(mm, live, processes, loaded, R, {})
  BY <1>1, Running DEF IInv
<1>3. n \in Nat
  BY LayoutAssumption
<1> DEFINE r == AllocateHeapPages(mm, n)
<1>4. /\ r.ok \in BOOLEAN
      /\ ~r.ok => Counters(r.m, live) /\ \E Q : Holds(r.m, live, processes, loaded, Q, {})
      /\ r.ok => /\ Counters(r.m, live \cup (r.v .. r.v + n - 1))
                 /\ \E Q : Holds(r.m, live \cup (r.v .. r.v + n - 1), processes, loaded, Q, {})
  BY <1>2, <1>3, HeapPagesAllocated DEF IInv
<1>5. mm' = r.m /\ live' = IF r.ok THEN live \cup (r.v .. r.v + n - 1) ELSE live
  BY DEF AllocateKernelHeapPages
<1> HIDE DEF r
<1>6. Counters(mm', live') /\ \E Q : Holds(mm', live', processes', loaded', Q, {})
  BY <1>1, <1>4, <1>5
<1>7. QED BY <1>1, <1>6, RunningNext

\* create_user_mode_directory,
LEMMA StepCreateUserModeDirectory ==
    ASSUME IInv, CreateUserModeDirectory PROVE IInv'
<1>1. status = "running" /\ status' = "running" /\ live' = live /\ loaded' = loaded
  BY DEF CreateUserModeDirectory
<1>2. PICK R : Holds(mm, live, processes, loaded, R, {})
  BY <1>1, Running DEF IInv
<1> DEFINE r == CreateDirectory(mm)
<1>3. /\ r.ok \in BOOLEAN /\ Counters(r.m, live)
      /\ ~r.ok => \E Q : Holds(r.m, live, processes, loaded, Q, {})
      /\ r.ok => \E Q : Holds(r.m, live, processes \cup {r.v}, loaded, Q, {})
  BY <1>2, DirectoryCreated DEF IInv
<1>4. mm' = r.m /\ processes' = IF r.ok THEN processes \cup {r.v} ELSE processes
  BY DEF CreateUserModeDirectory
<1> HIDE DEF r
<1>5. Counters(mm', live') /\ \E Q : Holds(mm', live', processes', loaded', Q, {})
  BY <1>1, <1>3, <1>4
<1>6. QED BY <1>1, <1>5, RunningNext

\* a segment of load_elf,
LEMMA StepLoadSegment ==
    ASSUME Within, IInv, NEW p \in processes, NEW s \in Segments, LoadSegment(p, s) PROVE IInv'
<1>1. status = "running" /\ live' = live /\ processes' = processes
  BY DEF LoadSegment
<1>2. PICK R : Holds(mm, live, processes, loaded, R, {})
  BY <1>1, Running DEF IInv
<1> DEFINE r == AllocateUserPages(mm, p, FirstPage(s), LoadPages(s))
           l == [pdpt |-> p, seg |-> s]
<1>3. /\ r.ok \in BOOLEAN /\ r.hung \in BOOLEAN
      /\ (r.ok /\ ~r.hung) =>
           /\ r.v # None /\ Counters(Fill(r.m, r.v, s), live)
           /\ \E Q : Holds(Fill(r.m, r.v, s), live, processes, loaded \cup {l}, Q, {})
      /\ ~(r.ok /\ ~r.hung) => Counters(r.m, live) /\ \E Q : Good(r.m, live, processes, Q)
      /\ ~r.ok => \E Q : Holds(r.m, live, processes, loaded, Q, {})
  BY <1>2, SegmentTaken DEF IInv
<1>4. /\ mm' = IF r.ok /\ ~r.hung THEN Fill(r.m, r.v, s) ELSE r.m
      /\ status' = IF r.hung THEN "hung" ELSE status
      /\ loaded' = IF r.ok /\ ~r.hung THEN loaded \cup {l} ELSE loaded
  BY <1>3 DEF LoadSegment
<1> HIDE DEF r, l
<1>5. CASE r.hung
  <2>1. status' = "hung" /\ mm' = r.m /\ Counters(mm', live')
    BY <1>1, <1>3, <1>4, <1>5
  <2>2. PICK Q : Good(r.m, live, processes, Q)
    BY <1>3, <1>5
  <2>3. Explained(Q)'
    BY <1>1, <2>1, <2>2 DEF Explained
  <2>4. VerifyPanicExplained'
    BY <2>1 DEF VerifyPanicExplained
  <2>5. QED BY <2>1, <2>3, <2>4 DEF IInv
<1>6. CASE ~r.hung
  <2>1. status' = "running" /\ Counters(mm', live') /\ \E Q : Holds(mm', live', processes', loaded', Q, {})
    BY <1>1, <1>3, <1>4, <1>6
  <2>2. QED BY <2>1, RunningNext
<1>7. QED BY <1>3, <1>5, <1>6

\* kernel_virtual_to_physical_address of a heap page in use: its frame; a
\* fault, where the table is above the reach of an int; or a panic, only when
\* entry 0 of the table is empty.
LEMMA Translated ==
    ASSUME Within, NEW m, NEW L, NEW P, NEW S, NEW R, NEW N, Holds(m, L, P, S, R, N), NEW v \in L
    PROVE  LET r == Translate(m, v)
           IN  /\ v \in Reach /\ ~HasTable(m, DirIndex(v), None)
               /\ r.status \in {"running", "panic", "fault"}
               /\ r.status = "running" => r.v = KEntry(m, v).to
               /\ r.status = "panic" => KEntry(m, v - TableIndex(v)) = Zero
<1> DEFINE d == m.kpd[DirIndex(v)]
           t == IntFrame(d)
           e == m.mem[t][TableIndex(v)]
           r == Translate(m, v)
<1>1. m \in Memory /\ v \in Reach /\ KEntry(m, v).kind = "pte"
  BY DEF Holds, Good, KernelSide
<1>2. d \in Frames
  <2>1. d # None
    <3>1. d = None => KEntry(m, v) = Zero
      BY <1>1, Walked
    <3>2. QED BY <1>1, <3>1, Entries2
  <2>2. QED BY <1>1, <2>1, Walked
<1>3. d # None /\ KEntry(m, v) = m.mem[d][TableIndex(v)]
  BY <1>1, <1>2, Walked, FramesAreNumbers
<1>4. t = d \/ t = None
  <2> HIDE DEF d
  <2>1. d \in Nat /\ d < 2 * IntFrames /\ IntFrames \in Nat \ {0}
    BY <1>2, Sizes DEF Within, Frames
  <2>2. d % (2 * IntFrames) = d
    BY <2>1
  <2>3. QED BY <2>2 DEF IntFrame
<1>5. r = IF d = None THEN [status |-> "panic", v |-> None]
          ELSE IF t \notin Frames THEN [status |-> "fault", v |-> None]
          ELSE IF m.mem[t][0].kind = "zero" \/ e.kind = "zero"
          THEN [status |-> "panic", v |-> None]
          ELSE [status |-> "running", v |-> e.to]
  BY DEF Translate
<1>6. ~HasTable(m, DirIndex(v), None)
  BY <1>3 DEF HasTable
<1> DEFINE w == v - TableIndex(v)
<1>7. KEntry(m, w) = m.mem[d][0]
  <2>1. w \in Reach /\ DirIndex(w) = DirIndex(v) /\ TableIndex(w) = 0
    BY <1>1, FirstOfTable
  <2> HIDE DEF w
  <2>2. QED BY <1>1, <1>3, <2>1, Walked
<1>8. m.mem[d][0] \in Entry
  BY <1>1, <1>2, Sizes DEF Memory, Page, Indexes
<1> HIDE DEF r, t, d, w
<1>9. CASE t = None
  <2>1. r.status = "fault"
    BY <1>3, <1>5, <1>9, FramesAreNumbers
  <2>2. QED BY <1>1, <1>6, <2>1 DEF r
<1>10. CASE t = d
  <2>1. e = KEntry(m, v) /\ e.kind # "zero"
    BY <1>1, <1>3, <1>10
  <2>2. CASE m.mem[d][0].kind = "zero"
    <3>1. r.status = "panic" /\ KEntry(m, w) = Zero
      BY <1>2, <1>3, <1>5, <1>7, <1>8, <1>10, <2>2, Entries2
    <3>2. QED BY <1>1, <1>6, <3>1 DEF r, w
  <2>3. CASE m.mem[d][0].kind # "zero"
    <3>1. r.status = "running" /\ r.v = KEntry(m, v).to
      BY <1>2, <1>3, <1>5, <1>10, <2>1, <2>3
    <3>2. QED BY <1>1, <1>6, <3>1 DEF r
  <2>4. QED BY <2>2, <2>3
<1>11. QED BY <1>4, <1>9, <1>10

\* and free_kernel_heap_page, which may stop the kernel.
LEMMA StepFreeKernelHeapPage ==
    ASSUME Within, IInv, NEW v \in live, FreeKernelHeapPage(v) PROVE IInv'
<1>1. status = "running" /\ processes' = processes /\ loaded' = loaded
  BY DEF FreeKernelHeapPage
<1>2. PICK R : Holds(mm, live, processes, loaded, R, {})
  BY <1>1, Running DEF IInv
<1> DEFINE r == Translate(mm, v)
           n == [mm EXCEPT !.free = @ \cup {r.v}]
           u == UnmapKernelPage(n, v).m
<1>3. /\ v \in Reach /\ ~HasTable(mm, DirIndex(v), None)
      /\ r.status \in {"running", "panic", "fault"}
      /\ r.status = "running" => r.v = KEntry(mm, v).to
      /\ r.status = "panic" => KEntry(mm, v - TableIndex(v)) = Zero
  BY <1>2, Translated
<1>4. /\ status' = r.status
      /\ \/ r.status = "running" /\ mm' = u /\ live' = live \ {v}
         \/ r.status # "running" /\ mm' = mm /\ live' = live
  BY DEF FreeKernelHeapPage
<1>5. KernelSide(mm, live, R) /\ Counters(mm, live) /\ mm \in Memory
  BY <1>2 DEF Holds, Good, IInv
<1>6. CASE r.status = "running"
  <2>1. Freed(mm, n, v)
    BY <1>3, <1>6 DEF Freed
  <2> HIDE DEF r, n, u
  <2>2. Steady(mm, n) /\ SameDirectory(mm, n) /\ \E Q : Holds(n, live \ {v}, processes, loaded, Q, {})
    BY <1>2, <2>1, ReleaseFrame
  <2>3. PICK Q : Holds(n, live \ {v}, processes, loaded, Q, {})
    BY <2>2
  <2>4. v >= HeapBase /\ ~HasTable(n, DirIndex(v), None)
    BY <1>3, <1>5, <2>2 DEF KernelSide, HasTable, SameDirectory
  <2>5. Steady(n, u) /\ Holds(u, live \ {v}, processes, loaded, Q, {})
    BY <1>3, <2>3, <2>4, UnmappedPage DEF u
  <2>6. Counters(u, live \ {v})
    BY <1>5, <2>2, <2>5 DEF Counters, Steady
  <2>7. status' = "running" /\ mm' = u /\ live' = live \ {v}
    BY <1>4, <1>6
  <2>8. QED BY <1>1, <2>5, <2>6, <2>7, RunningNext
<1>7. CASE r.status # "running"
  <2> DEFINE w == v - TableIndex(v)
  <2>1. status' = r.status /\ mm' = mm /\ live' = live
    BY <1>4, <1>7
  <2> HIDE DEF r
  <2>2. Explained(R)'
    BY <1>1, <1>2, <1>7, <2>1 DEF Explained, Holds
  <2>3. ASSUME r.status = "panic" PROVE VerifyPanicExplained'
    <3>1. KEntry(mm, w) = Zero /\ w \in Reach /\ w <= v
      BY <1>3, <2>3, FirstOfTable
    <3>2. KEntry(mm, v).kind = "pte" /\ v \in Nat /\ v < mm.next /\ mm.next \in Nat /\ HeapBase \in Nat
      BY <1>5, Sizes DEF KernelSide, Counters, Memory
    <3>3. w \notin live
      BY <1>5, <3>1, Entries2 DEF KernelSide
    <3>4. w \in Nat /\ ~(w \in 0 .. HeapBase - 1)
      <4>1. Pte(BootTable) # Zero /\ Dirs * Entries \in Nat
        BY Sizes, Entries2
      <4>2. QED BY <1>5, <3>1, <4>1 DEF KernelSide, Reach
    <3>5. w \in HeapBase .. mm.next - 1
      BY <3>1, <3>2, <3>4
    <3>6. \A x : KernelEntry(x)' = KEntry(mm, x)
      BY <2>1 DEF KernelEntry, KEntry
    <3> HIDE DEF w
    <3>7. KernelEntry(v)'.kind = "pte" /\ KernelEntry(w)' = Zero /\ w \in HeapBase .. mm'.next - 1 /\ w \notin live'
      BY <2>1, <3>1, <3>2, <3>3, <3>5, <3>6
    <3>8. QED BY <2>1, <3>7 DEF VerifyPanicExplained, w
  <2>4. status' # "panic" => VerifyPanicExplained'
    BY DEF VerifyPanicExplained
  <2>5. Counters(mm', live') /\ status' \in {"running", "panic", "fault", "hung"}
    BY <1>3, <1>5, <2>1
  <2>6. QED BY <2>1, <2>2, <2>3, <2>4, <2>5 DEF IInv
<1>8. QED BY <1>6, <1>7

\* Every step keeps the invariant.
LEMMA Inductive ==
    ASSUME Within PROVE IInv /\ [Next]_vars => IInv'
<1> SUFFICES ASSUME IInv, [Next]_vars PROVE IInv'
  OBVIOUS
<1>1. CASE AllocateKernelHeapPage
  BY <1>1, StepAllocateKernelHeapPage
<1>2. ASSUME NEW n \in HeapRequests, AllocateKernelHeapPages(n) PROVE IInv'
  BY <1>2, StepAllocateKernelHeapPages
<1>3. ASSUME NEW v \in live, FreeKernelHeapPage(v) PROVE IInv'
  BY <1>3, StepFreeKernelHeapPage
<1>4. CASE CreateUserModeDirectory
  BY <1>4, StepCreateUserModeDirectory
<1>5. ASSUME NEW p \in processes, NEW s \in Segments, LoadSegment(p, s) PROVE IInv'
  BY <1>5, StepLoadSegment
<1>6. CASE UNCHANGED vars
  <2>1. mm' = mm /\ status' = status /\ live' = live /\ processes' = processes /\ loaded' = loaded
    BY <1>6 DEF vars
  <2>2. VerifyPanicExplained <=> VerifyPanicExplained'
    BY <2>1 DEF VerifyPanicExplained, KernelEntry
  <2>3. \A R : Explained(R) <=> Explained(R)'
    BY <2>1 DEF Explained
  <2>4. QED BY <2>1, <2>2, <2>3 DEF IInv
<1>7. QED BY <1>1, <1>2, <1>3, <1>4, <1>5, <1>6 DEF Next, Stopped

-----------------------------------------------------------------------------
(* What follows from the invariant.                                        *)

\* The roles of all that the properties speak of.
LEMMA RolesOf ==
    ASSUME NEW R, Good(mm, live, processes, R)
    PROVE  /\ \A f \in mm.free : f \in Frames /\ Is(R, f, "free")
           /\ \A f \in KernelTables : f \in Frames /\ Is(R, f, "ktab")
           /\ \A f \in UserTables : f \in Frames /\ R[f].kind \in {"pdpt", "pd", "utab"}
           /\ \A f \in HeapFrames : f \in Frames /\ Is(R, f, "heap")
           /\ \A f \in UserFrames : f \in Frames /\ Is(R, f, "user")
           /\ \A f \in BootFrames : f \in Frames /\ R[f].kind \in {"boot", "ktab"}
<1>1. mm \in Memory /\ Parts(mm, R) /\ KernelSide(mm, live, R) /\ UserSide(mm, processes, R)
  BY DEF Good
<1>2. \A f \in mm.free : f \in Frames /\ Is(R, f, "free")
  BY <1>1 DEF Memory, Parts, Is
<1>3. \A f \in KernelTables : f \in Frames /\ Is(R, f, "ktab")
  <2>1. \A d \in 0 .. Dirs - 1 : mm.kpd[d] # None => mm.kpd[d] \in Frames /\ R[mm.kpd[d]].kind = "ktab"
    <3>1. mm.kpd \in [0 .. Dirs - 1 -> Frames \cup {None}]
      BY <1>1 DEF Memory
    <3>2. \A d \in 0 .. Dirs - 1 : mm.kpd[d] # None => IsA(R, mm.kpd[d], "ktab", d, 0)
      BY <1>1 DEF KernelSide
    <3>3. QED BY <3>1, <3>2 DEF IsA
  <2>2. QED BY <2>1 DEF KernelTables, Is
<1>4. ASSUME NEW p \in processes
      PROVE  /\ p \in Frames /\ R[p].kind = "pdpt"
             /\ mm.mem[p][0].to \in Frames /\ R[mm.mem[p][0].to].kind = "pd"
  BY <1>1, Directory DEF Is
<1>5. ASSUME NEW c \in {"utab", "user"}, NEW t \in Frames, R[t].kind = IF c = "utab" THEN "pd" ELSE "utab",
             NEW f \in PtesOf(t)
      PROVE  f \in Frames /\ R[f].kind = c
  <2>1. PICK i \in Indexes : mm.mem[t][i].kind = "pte" /\ f = mm.mem[t][i].to
    BY DEF PtesOf, Indexes
  <2>2. mm.mem[t][i] # Zero
    BY <2>1, Entries2
  <2>3. Child(mm, R, t, i, c)
    BY <1>1, <1>5, <2>2 DEF UserSide
  <2>4. QED BY <2>1, <2>3 DEF Child, IsA
<1>6. ASSUME NEW f \in UserTables PROVE f \in Frames /\ R[f].kind \in {"pdpt", "pd", "utab"}
  <2>1. PICK p \in processes : f \in {p, mm.mem[p][0].to} \cup PtesOf(mm.mem[p][0].to)
    BY DEF UserTables
  <2>2. CASE f \in PtesOf(mm.mem[p][0].to)
    BY <1>4, <1>5, <2>2
  <2>3. QED BY <1>4, <2>1, <2>2
<1>7. ASSUME NEW f \in UserFrames PROVE f \in Frames /\ Is(R, f, "user")
  <2>1. PICK t \in UNION {PtesOf(mm.mem[p][0].to) : p \in processes} : f \in PtesOf(t)
    BY DEF UserFrames
  <2>2. PICK p \in processes : t \in PtesOf(mm.mem[p][0].to)
    BY <2>1
  <2>3. t \in Frames /\ R[t].kind = "utab"
    BY <1>4, <1>5, <2>2
  <2>4. QED BY <1>5, <2>1, <2>3 DEF Is
<1>8. ASSUME NEW f \in HeapFrames PROVE f \in Frames /\ Is(R, f, "heap")
  <2>1. PICK v \in live : f = KEntry(mm, v).to
    BY DEF HeapFrames, KernelEntry, KEntry
  <2>2. QED BY <1>1, <2>1 DEF KernelSide, IsA, Is
<1>9. \A f \in BootFrames : f \in Frames /\ R[f].kind \in {"boot", "ktab"}
  BY <1>1, BootRole, Sizes
<1>10. QED BY <1>2, <1>3, <1>6, <1>7, <1>8, <1>9

\* The types, from the memory and the counters.
LEMMA Typed ==
    ASSUME IInv PROVE TypeOK
<1>1. PICK R : Explained(R)
  BY DEF IInv
<1>2. mm \in Memory /\ Counters(mm, live) /\ processes \subseteq Frames
  BY <1>1 DEF Explained, Good, UserSide, IInv
<1>3. mm.mem \in [Frames -> [0 .. Entries - 1 -> [kind : {"zero", "pte", "data"}, to : Nat]]]
  <2>1. Entry \subseteq [kind : {"zero", "pte", "data"}, to : Nat]
    BY DEF Entry, Zero
  <2>2. mm.mem \in [Frames -> [Indexes -> Entry]]
    BY <1>2 DEF Memory, Page
  <2>3. QED BY <2>1, <2>2 DEF Indexes
<1>4. mm.free \subseteq Frames /\ mm.kpd \in [0 .. Dirs - 1 -> Frames \cup {None}]
  BY <1>2 DEF Memory
<1>5. mm.failed \in BOOLEAN
  BY <1>2 DEF Memory
<1>6. mm.left \in 0 .. HeapPages /\ live \subseteq HeapBase .. HeapBase + HeapPages - 1
  <2>1. mm.next \in Nat /\ mm.left \in Nat
    BY <1>2 DEF Memory
  <2>2. QED BY <1>2, <2>1, Sizes DEF Counters
<1>7. QED BY <1>2, <1>3, <1>4, <1>5, <1>6 DEF TypeOK, IInv

\* No frame has two roles, so none serves two purposes.
LEMMA Exclusive ==
    ASSUME IInv PROVE FramesExclusive
<1>1. PICK R : Explained(R)
  BY DEF IInv
<1>2. Good(mm, live, processes, R)
  BY <1>1 DEF Explained
<1>3. \A v \in live : KernelEntry(v).kind = "pte" /\ IsA(R, KernelEntry(v).to, "heap", v, 0)
  BY <1>2 DEF Good, KernelSide, KernelEntry, KEntry
<1>4. \A v, w \in live : v # w => KernelEntry(v).to # KernelEntry(w).to
  BY <1>3 DEF IsA
<1>5. HeapFrames \cap (mm.free \cup Tables \cup UserFrames \cup BootFrames) = {}
  BY <1>2, RolesOf DEF Tables, Is
<1>6. (Tables \cup UserFrames) \cap mm.free = {} /\ Tables \cap UserFrames = {}
  BY <1>2, RolesOf DEF Tables, Is
<1>7. QED BY <1>3, <1>4, <1>5, <1>6, Typed DEF FramesExclusive, HeapExclusive, TablesExclusive

\* Every role is backed, so every frame in use is in someone's reach.
LEMMA NoLeak ==
    ASSUME IInv PROVE NoLeakWithoutFailure
<1> SUFFICES ASSUME ~mm.failed, status = "running"
             PROVE  Frames \ mm.free = BootFrames \cup Tables \cup HeapFrames \cup UserFrames
  BY DEF NoLeakWithoutFailure
<1>1. PICK R : Explained(R)
  BY DEF IInv
<1>2. Good(mm, live, processes, R) /\ Backed(mm, live, processes, R, {})
  BY <1>1 DEF Explained
<1>3. BootFrames \cup Tables \cup HeapFrames \cup UserFrames \subseteq Frames \ mm.free
  BY <1>2, RolesOf DEF Tables, Is
<1>4. ASSUME NEW t \in Frames, NEW i \in Indexes, NEW f \in Frames, mm.mem[t][i] = Pte(f)
      PROVE  f \in PtesOf(t)
  <2>1. f \in Nat /\ mm.mem[t][i].kind = "pte" /\ mm.mem[t][i].to = f
    BY <1>4, FramesAreNumbers, Entries2
  <2>2. QED BY <2>1 DEF PtesOf, Indexes
<1>5. ASSUME NEW f \in Frames, R[f].kind = "pd" PROVE \E p \in processes : mm.mem[p][0].to = f
  <2>1. R[f].a \in processes /\ mm.mem[R[f].a][0] = Pte(f)
    BY <1>2, <1>5 DEF Backed
  <2>2. Pte(f).to = f
    BY FramesAreNumbers, Entries2
  <2>3. QED BY <2>1, <2>2
<1>6. ASSUME NEW f \in Frames, R[f].kind = "utab"
      PROVE  \E p \in processes : f \in PtesOf(mm.mem[p][0].to)
  <2>1. /\ R[f].a \in Frames /\ R[R[f].a].kind = "pd"
        /\ R[f].b \in Indexes /\ mm.mem[R[f].a][R[f].b] = Pte(f)
    BY <1>2, <1>6 DEF Backed
  <2>2. f \in PtesOf(R[f].a)
    BY <1>4, <2>1
  <2>3. PICK p \in processes : mm.mem[p][0].to = R[f].a
    BY <1>5, <2>1
  <2>4. QED BY <2>2, <2>3
<1>7. ASSUME NEW f \in Frames, R[f].kind = "user" PROVE f \in UserFrames
  <2>1. /\ R[f].a \in Frames /\ R[R[f].a].kind = "utab"
        /\ R[f].b \in Indexes /\ mm.mem[R[f].a][R[f].b] = Pte(f)
    BY <1>2, <1>7 DEF Backed
  <2>2. f \in PtesOf(R[f].a)
    BY <1>4, <2>1
  <2>3. PICK p \in processes : R[f].a \in PtesOf(mm.mem[p][0].to)
    BY <1>6, <2>1
  <2>4. R[f].a \in UNION {PtesOf(mm.mem[q][0].to) : q \in processes}
    BY <2>3
  <2>5. QED BY <2>2, <2>4 DEF UserFrames
<1>8. ASSUME NEW f \in Frames \ mm.free
      PROVE  f \in BootFrames \cup Tables \cup HeapFrames \cup UserFrames
  <2>1. R[f].kind \in {"boot", "ktab", "heap", "pdpt", "pd", "utab", "user"}
    <3>1. R[f].kind \in Kinds /\ R[f].kind # "free" /\ R[f].kind # "lost"
      BY <1>2 DEF Good, Roles, Parts, Backed
    <3>2. QED BY <3>1 DEF Kinds
  <2>2. CASE R[f].kind = "boot"
    BY <1>2, <2>2 DEF Good, Parts
  <2>3. CASE R[f].kind = "ktab"
    BY <1>2, <2>3, FramesAreNumbers DEF Backed, KernelTables, Tables
  <2>4. CASE R[f].kind = "heap"
    <3>1. R[f].a \in live /\ KernelEntry(R[f].a).to = f
      BY <1>2, <2>4 DEF Backed, KernelEntry, KEntry
    <3>2. QED BY <3>1 DEF HeapFrames
  <2>5. CASE R[f].kind = "pdpt"
    <3>1. f \in processes
      BY <1>2, <2>5 DEF Backed
    <3>2. f \in UserTables
      BY <3>1 DEF UserTables
    <3>3. QED BY <3>2 DEF Tables
  <2>6. CASE R[f].kind = "pd"
    <3>1. PICK p \in processes : mm.mem[p][0].to = f
      BY <1>5, <2>6
    <3>2. f \in UserTables
      BY <3>1 DEF UserTables
    <3>3. QED BY <3>2 DEF Tables
  <2>7. CASE R[f].kind = "utab"
    <3>1. PICK p \in processes : f \in PtesOf(mm.mem[p][0].to)
      BY <1>6, <2>7
    <3>2. f \in UserTables
      BY <3>1 DEF UserTables
    <3>3. QED BY <3>2 DEF Tables
  <2>8. CASE R[f].kind = "user"
    BY <1>7, <2>8
  <2>9. QED BY <2>1, <2>2, <2>3, <2>4, <2>5, <2>6, <2>7, <2>8
<1>9. QED BY <1>3, <1>8

\* The segments that load_elf reported are present: the word at offset i of
\* the segment is word i of its page.
LEMMA Loaded ==
    ASSUME Within, IInv PROVE SegmentsLoaded
<1> SUFFICES ASSUME ~mm.failed, status = "running", NEW l \in loaded,
                    FirstPage(l.seg) < Entries * Entries
             PROVE  FoundAt(l, l.seg.vaddr - (l.seg.vaddr % Entries))
  BY DEF SegmentsLoaded
<1> DEFINE a == l.seg.vaddr - (l.seg.vaddr % Entries)
           q == FirstPage(l.seg)
<1>1. PICK R : Explained(R)
  BY DEF IInv
<1>2. Present(mm, processes, loaded)
  BY <1>1 DEF Explained
<1>3. /\ l.seg \in Segments /\ UEntry(mm, l.pdpt, q).kind = "pte"
      /\ mm.mem[UEntry(mm, l.pdpt, q).to] = Content(l.seg)
  BY <1>2 DEF Present
<1>4. /\ l.seg.vaddr \in Nat /\ l.seg.memsz \in Nat /\ l.seg.memsz <= Entries
      /\ Entries \in Nat \ {0} /\ q \in Nat /\ q < Entries * Entries
  BY <1>3, LayoutAssumption, SegmentIndices DEF Within
<1>5. a = Entries * q /\ a \in Nat
  <2>1. /\ l.seg.vaddr = Entries * (l.seg.vaddr \div Entries) + (l.seg.vaddr % Entries)
        /\ l.seg.vaddr % Entries \in 0 .. Entries - 1
    BY <1>4, DivMod
  <2>2. Entries * q \in Nat
    BY <1>4
  <2>3. l.seg.vaddr = Entries * q + (l.seg.vaddr % Entries)
    BY <2>1 DEF FirstPage
  <2> DEFINE z == Entries * q
             r == l.seg.vaddr % Entries
  <2>4. r \in Nat /\ z \in Nat /\ l.seg.vaddr = z + r
    <3>1. r \in Nat
      BY <1>4, <2>1
    <3>2. QED BY <2>2, <2>3, <3>1
  <2> HIDE DEF z, r
  <2>5. l.seg.vaddr - r = z /\ z \in Nat
    BY <2>4
  <2>6. QED BY <2>5 DEF z, r
<1> HIDE DEF a, q
<1>6. ASSUME NEW i \in 0 .. l.seg.memsz - 1
      PROVE  LET e == UserEntry(l.pdpt, (a + i) \div Entries)
             IN  /\ e.kind = "pte"
                 /\ mm.mem[e.to][(a + i) % Entries] =
                      IF i < l.seg.filesz THEN Data(l.seg.id + i) ELSE Zero
  <2>1. i \in Nat /\ i < Entries
    BY <1>4
  <2>2. (a + i) \div Entries = q /\ (a + i) % Entries = i
    <3> DEFINE w == a + i
    <3>1. w \in Nat /\ w = Entries * q + i /\ i \in 0 .. Entries - 1
      BY <1>4, <1>5, <2>1
    <3>2. Entries \in Nat \ {0} /\ q \in Nat
      BY <1>4
    <3> HIDE DEF w
    <3>3. w \div Entries = q /\ w % Entries = i
      BY ONLY <3>1, <3>2, DivUnique
    <3>4. QED BY <3>3 DEF w
  <2>3. UserEntry(l.pdpt, (a + i) \div Entries) = UEntry(mm, l.pdpt, q)
    BY <1>4, <2>2 DEF UserEntry, UEntry
  <2>4. Content(l.seg)[i] = IF i < l.seg.filesz THEN Data(l.seg.id + i) ELSE Zero
    BY <1>4, <2>1 DEF Content, Indexes
  <2>5. QED BY <1>3, <2>2, <2>3, <2>4
<1>7. FoundAt(l, a)
  BY <1>6 DEF FoundAt
<1>8. QED BY <1>7 DEF a

-----------------------------------------------------------------------------
(* The theorems.                                                           *)

\* The invariant holds in every reachable state: each frame has at most one
\* place that refers to it, and, until a request fails, exactly one.
THEOREM Invariance == ASSUME Within PROVE Spec => []IInv
<1>1. Init => IInv
  BY Initial
<1>2. IInv /\ [Next]_vars => IInv'
  BY Inductive
<1>3. QED BY <1>1, <1>2, PTL DEF Spec

\* A heap page, a page table, a user page, a frame of the boot loader and a
\* free frame are never the same frame, whatever was allocated and freed, in
\* whatever order, and wherever memory ran out (MemoryManager.cpp).
THEOREM FramesServeOnePurpose == ASSUME Within PROVE Spec => []FramesExclusive
<1>1. IInv => FramesExclusive
  BY Exclusive
<1>2. QED BY <1>1, Invariance, PTL

\* No operation of the memory manager changes the mapping of the kernel image.
THEOREM ImageStaysMapped == ASSUME Within PROVE Spec => []KernelImageMapped
<1>1. IInv => KernelImageMapped
  BY DEF IInv, Explained, Good, KernelSide, KernelImageMapped, KernelEntry, KEntry
<1>2. QED BY <1>1, Invariance, PTL

\* The successful paths leak no frame.
THEOREM SuccessLeaksNothing == ASSUME Within PROVE Spec => []NoLeakWithoutFailure
<1>1. IInv => NoLeakWithoutFailure
  BY NoLeak
<1>2. QED BY <1>1, Invariance, PTL

\* A segment of Within that is in the reach of a page directory is found, word
\* for word, from the start of its page on once load_elf has reported it loaded,
\* and stays there as long as no request has failed.
THEOREM SegmentsStayLoaded == ASSUME Within PROVE Spec => []SegmentsLoaded
<1>1. IInv => SegmentsLoaded
  BY Loaded
<1>2. QED BY <1>1, Invariance, PTL

\* The VERIFYs of kernel_virtual_to_physical_address stop a legitimate free
\* only in the one way that VerifyPanicExplained names.
THEOREM PanicsExplained == ASSUME Within PROVE Spec => []VerifyPanicExplained
<1>1. IInv => VerifyPanicExplained
  BY DEF IInv
<1>2. QED BY <1>1, Invariance, PTL

=============================================================================
