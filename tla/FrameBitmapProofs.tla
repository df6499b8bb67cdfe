-------------------------- MODULE FrameBitmapProofs --------------------------
(* Proofs about FrameBitmap, for every size of memory, word and counter.   *)
EXTENDS FrameBitmap, FiniteSetTheorems, WellFoundedInduction, TLAPS

USE SizesAssumption, MapsAssumption

\* Unsigned subtraction and addition stay in the counter's width.
LEMMA WrapType ==
    ASSUME NEW x \in Int, NEW n \in Int
    PROVE  Sub(x, n) \in 0 .. SizeMod - 1 /\ Add(x, n) \in 0 .. SizeMod - 1
BY DEF Sub, Add

\* Any set of pages is finite and no larger than the bitmap.
LEMMA FiniteParts ==
    /\ IsFiniteSet(Pages) /\ Cardinality(Pages) = TotalPages
    /\ \A S \in SUBSET Pages : IsFiniteSet(S) /\ Cardinality(S) \in 0 .. TotalPages
<1>1. IsFiniteSet(Pages) /\ Cardinality(Pages) = TotalPages
  BY FS_Interval DEF Pages
<1>2. ASSUME NEW S \in SUBSET Pages
      PROVE  IsFiniteSet(S) /\ Cardinality(S) \in 0 .. TotalPages
  BY <1>1, <1>2, FS_Subset, FS_CardinalityType
<1>3. QED BY <1>1, <1>2

\* Counts that fit the counter's width do not wrap.
LEMMA NoWrap == \A v \in 0 .. SizeMod - 1 : v % SizeMod = v
OBVIOUS

\* The words of m_storage cover a prefix of the pages.
LEMMA BlockPagesType ==
    BlockCount \in Nat /\ BlockPages \subseteq Pages
<1>1. BlockCount \in Nat /\ BlockCount * PagesPerBlock <= TotalPages
  BY Z3 DEF BlockCount
<1>2. QED BY <1>1 DEF BlockPages, Pages

\* A non-empty set of naturals has a least element, and Least is that element.
LEMMA LeastIn ==
    ASSUME NEW S, S \subseteq Nat, S # {}
    PROVE  Least(S) \in S /\ \A y \in S : Least(S) <= y
<1>1. \E x \in S : \A y \in S : ~ (<<y, x>> \in OpToRel(<, Nat))
  BY NatLessThanWellFounded, WFMin
<1>2. PICK x \in S : \A y \in S : ~ (<<y, x>> \in OpToRel(<, Nat))
  BY <1>1
<1>3. \A y \in S : x <= y
  <2> SUFFICES ASSUME NEW y \in S, ~(x <= y) PROVE FALSE
    OBVIOUS
  <2>1. x \in Nat /\ y \in Nat /\ y < x
    OBVIOUS
  <2>2. <<y, x>> \in Nat \X Nat /\ <<y, x>>[1] = y /\ <<y, x>>[2] = x
    BY <2>1
  <2>3. <<y, x>> \in OpToRel(<, Nat)
    BY <2>1, <2>2 DEF OpToRel
  <2>4. QED BY <1>2, <2>3
<1>4. QED BY <1>3 DEF Least

\* allocate returns a page of a word whose bit is clear.
LEMMA FirstFreeType ==
    ASSUME NEW s, FreeBlockPages(s) # {}
    PROVE  LET p == Least(FreeBlockPages(s))
           IN  p \in Pages /\ p \in BlockPages /\ p \notin s
<1>1. FreeBlockPages(s) \subseteq Nat
  <2>1. Pages \subseteq Nat
    BY DEF Pages
  <2>2. QED BY <2>1, BlockPagesType DEF FreeBlockPages
<1>2. Least(FreeBlockPages(s)) \in FreeBlockPages(s)
  BY <1>1, LeastIn
<1>3. QED BY <1>2, BlockPagesType DEF FreeBlockPages

\* A mask of a block's word covers pages of that block only.
LEMMA MaskInBlock ==
    ASSUME NEW b \in 0 .. BlockCount - 1, NEW n \in Nat, NEW i \in Nat
    PROVE  MaskPages(b, n, i) \subseteq BlockPages
<1>1. ASSUME NEW k \in 0 .. PagesPerBlock - 1
      PROVE  b * PagesPerBlock + k \in BlockPages
  <2>1. b * PagesPerBlock + PagesPerBlock <= BlockCount * PagesPerBlock
    <3>1. BlockCount \in Nat /\ b \in Nat /\ b + 1 <= BlockCount
      BY BlockPagesType
    <3>2. QED BY <3>1, Z3
  <2>2. b * PagesPerBlock \in Nat
    BY BlockPagesType, Z3
  <2>3. BlockCount * PagesPerBlock \in Nat
    BY BlockPagesType, Z3
  <2>4. QED BY <2>1, <2>2, <2>3 DEF BlockPages
<1>2. QED BY <1>1 DEF MaskPages

\* allocate_contiguous finds a block and an offset in it.
LEMMA FitType ==
    ASSUME NEW s, NEW n \in Nat, FitBlocks(s, n) # {}
    PROVE  LET b == Least(FitBlocks(s, n))
               i == FindNFree(s, b, n)
           IN  b \in 0 .. BlockCount - 1 /\ i \in FitOffsets(s, b, n) /\ i \in 0 .. PagesPerBlock
<1> DEFINE b == Least(FitBlocks(s, n))
           i == FindNFree(s, b, n)
<1>0. FitBlocks(s, n) \subseteq Nat
  BY BlockPagesType DEF FitBlocks
<1>1. b \in FitBlocks(s, n)
  BY <1>0, LeastIn
<1>2. b \in 0 .. BlockCount - 1 /\ FitOffsets(s, b, n) # {}
  BY <1>1 DEF FitBlocks
<1>3. FitOffsets(s, b, n) \subseteq 0 .. PagesPerBlock
  BY DEF FitOffsets, TriedOffsets
<1>4. FitOffsets(s, b, n) \subseteq Nat
  BY <1>3
<1>5. i \in FitOffsets(s, b, n)
  BY <1>2, <1>4, LeastIn DEF FindNFree
<1>6. QED BY <1>2, <1>3, <1>5

\* A mask's length is a number.
LEMMA MaskLengthType == \A n \in Nat : MaskLength(n) \in Nat
BY DEF MaskLength

\* Whatever is asked for, the bits set_n_allocated sets are bits of pages.
LEMMA SetBitsType ==
    ASSUME NEW b \in 0 .. BlockCount - 1, NEW n \in Nat, NEW i \in 0 .. PagesPerBlock,
           NEW bits \in SetBits(b, n, i)
    PROVE  bits \subseteq Pages
BY MaskInBlock, MaskLengthType, BlockPagesType DEF SetBits

-----------------------------------------------------------------------------

\* The bitmap and its counters start as numbers of pages.
LEMMA InitType == Init => TypeOK
<1> SUFFICES ASSUME Init PROVE TypeOK
  OBVIOUS
<1>1. map \in Seq(Descriptor) /\ free_pages \in 0 .. SizeMod - 1
  BY DEF Init
<1>2. grants \in [Pages -> Nat] /\ overlap \in Nat /\ storage \subseteq Pages /\ blocked \subseteq Pages
  BY DEF Init
<1>3. result \in Result /\ phase \in {"map", "low", "running"}
  BY DEF Init, Result
<1>4. QED BY <1>1, <1>2, <1>3 DEF TypeOK

\* set_n_allocated keeps the bits, the marks and the counter in range.
LEMMA SetAllocatedType ==
    ASSUME TypeOK, NEW S \in SUBSET Pages, SetAllocated(S)
    PROVE  /\ storage' \subseteq Pages /\ blocked' \subseteq Pages
           /\ free_pages' \in 0 .. SizeMod - 1 /\ overlap' \in Nat
<1>1. Cardinality(S) \in Nat /\ Cardinality(S \cap storage) \in Nat
  BY FiniteParts DEF TypeOK
<1>2. free_pages' \in 0 .. SizeMod - 1
  <2>1. free_pages \in Int /\ Cardinality(S) \in Int
    BY <1>1 DEF TypeOK
  <2>2. Sub(free_pages, Cardinality(S)) \in 0 .. SizeMod - 1
    BY <2>1, WrapType
  <2>3. QED BY <2>2 DEF SetAllocated
<1>3. QED BY <1>1, <1>2 DEF TypeOK, SetAllocated

\* A grant is counted.
LEMMA GrantType ==
    ASSUME TypeOK, NEW S, Grant(S)
    PROVE  grants' \in [Pages -> Nat]
BY DEF TypeOK, Grant

\* Every operation keeps the types.
LEMMA NextType == TypeOK /\ [Next]_vars => TypeOK'
<1> SUFFICES ASSUME TypeOK, [Next]_vars PROVE TypeOK'
  OBVIOUS
<1>1. CASE ParseDescriptor
  <2>1. Head(map) \in Descriptor /\ Tail(map) \in Seq(Descriptor)
    BY <1>1 DEF ParseDescriptor, TypeOK
  <2>2. Head(map).pages \in SUBSET Pages
    BY <2>1 DEF Descriptor
  <2>3. CASE SetAllocated(Head(map).pages)
    BY <1>1, <2>1, <2>2, <2>3, SetAllocatedType DEF ParseDescriptor, TypeOK
  <2>4. CASE UNCHANGED <<storage, free_pages, blocked, overlap>>
    BY <1>1, <2>1, <2>4 DEF ParseDescriptor, TypeOK
  <2>5. QED BY <1>1, <2>3, <2>4 DEF ParseDescriptor
<1>2. CASE MapParsed
  BY <1>2 DEF MapParsed, TypeOK
<1>3. CASE ReserveLow
  <2>1. 0 .. LowPages - 1 \in SUBSET Pages
    BY DEF Pages
  <2>2. QED BY <1>3, <2>1, SetAllocatedType DEF ReserveLow, TypeOK
<1>4. CASE AllocatePage
  <2>1. Least(FreeBlockPages(storage)) \in Pages
    BY <1>4, FirstFreeType DEF AllocatePage
  <2>2. grants' \in [Pages -> Nat]
    BY <1>4, GrantType DEF AllocatePage
  <2>3. free_pages' \in 0 .. SizeMod - 1
    <3>1. Sub(free_pages, 1) \in 0 .. SizeMod - 1
      <4>1. free_pages \in Int
        BY DEF TypeOK
      <4>2. QED BY <4>1, WrapType
    <3>2. QED BY <1>4, <3>1 DEF AllocatePage
  <2>4. QED BY <1>4, <2>1, <2>2, <2>3 DEF AllocatePage, TypeOK, Return, Result, Errors
<1>5. CASE AllocateRefused
  BY <1>5 DEF AllocateRefused, TypeOK, Return, Result, Errors
<1>6. ASSUME NEW n \in Requests, AllocateContiguous(n)
      PROVE  TypeOK'
  <2> DEFINE m == n % U8
             b == Least(FitBlocks(storage, m))
             i == FindNFree(storage, b, m)
  <2>1. m \in Nat
    OBVIOUS
  <2> HIDE DEF m
  <2>2. b \in 0 .. BlockCount - 1 /\ i \in 0 .. PagesPerBlock
    BY <1>6, <2>1, FitType DEF AllocateContiguous, m
  <2>3. storage' \subseteq Pages
    <3>1. PICK bits \in SetBits(b, m, i) : storage' = storage \cup bits
      BY <1>6 DEF AllocateContiguous, m
    <3>2. bits \subseteq Pages
      BY <2>1, <2>2, SetBitsType
    <3>3. QED BY <3>1, <3>2 DEF TypeOK
  <2>4. grants' \in [Pages -> Nat]
    BY <1>6, GrantType DEF AllocateContiguous
  <2>5. free_pages' \in 0 .. SizeMod - 1
    <3>1. Sub(free_pages, m) \in 0 .. SizeMod - 1
      <4>1. free_pages \in Int /\ m \in Int
        BY <2>1 DEF TypeOK
      <4>2. QED BY <4>1, WrapType
    <3>2. QED BY <1>6, <3>1 DEF AllocateContiguous, m
  <2>6. QED BY <1>6, <2>3, <2>4, <2>5 DEF AllocateContiguous, TypeOK, Return, Result, Errors
<1>7. ASSUME NEW n \in Requests, ContiguousRefused(n)
      PROVE  TypeOK'
  BY <1>7 DEF ContiguousRefused, TypeOK, Return, Result, Errors
<1>8. ASSUME NEW p \in Pages, Free(p)
      PROVE  TypeOK'
  <2>1. free_pages' \in 0 .. SizeMod - 1
    BY <1>8, WrapType DEF Free, TypeOK
  <2>2. grants' \in [Pages -> Nat]
    BY <1>8 DEF Free, TypeOK
  <2>3. QED BY <1>8, <2>1, <2>2 DEF Free, TypeOK, Return, Result, Errors
<1>9. ASSUME NEW p \in Pages, FreeRefused(p)
      PROVE  TypeOK'
  BY <1>9 DEF FreeRefused, TypeOK, Return, Result, Errors
<1>10. CASE UNCHANGED vars
  BY <1>10 DEF vars, TypeOK
<1>11. QED
  BY <1>1, <1>2, <1>3, <1>4, <1>5, <1>6, <1>7, <1>8, <1>9, <1>10 DEF Next

\* Every reachable state of the bitmap is well typed: in particular neither
\* scan ever sets a bit outside the pages, whatever the callers ask for.
THEOREM TypeCorrect == Spec => []TypeOK
BY InitType, NextType, PTL DEF Spec
-----------------------------------------------------------------------------
(* Exclusive ownership.  NoDoubleGrant is not inductive by itself: that a  *)
(* clear bit is a page nobody holds (NoLostPage) is what makes a grant     *)
(* safe, and that nothing is granted before MemoryManager::init is done is *)
(* what makes blocking out safe.                                           *)

BootQuiet == phase # "running" => \A p \in Pages : grants[p] = 0

Ownership == TypeOK /\ NoDoubleGrant /\ NoLostPage /\ BootQuiet

\* A request that fits a word gets a run of clear bits of one word, and
\* exactly that run is marked.
LEMMA ContiguousRun ==
    ASSUME RequestsFit, NEW n \in Requests, NEW s, FitBlocks(s, n % U8) # {}
    PROVE  LET b == Least(FitBlocks(s, n % U8))
               i == FindNFree(s, b, n % U8)
               run == b * PagesPerBlock + i .. b * PagesPerBlock + i + n - 1
           IN  /\ n % U8 = n
               /\ SetBits(b, n % U8, i) = {run}
               /\ run \subseteq BlockPages
               /\ run \cap s = {}
               /\ Cardinality(run) = n
<1> DEFINE m == n % U8
           b == Least(FitBlocks(s, m))
           i == FindNFree(s, b, m)
           run == b * PagesPerBlock + i .. b * PagesPerBlock + i + n - 1
<1>1. n \in Nat /\ 1 <= n /\ n <= PagesPerBlock + 1
  BY DEF RequestsFit
<1>2. n % U8 = n
  BY <1>1
<1>3. b \in 0 .. BlockCount - 1 /\ i \in FitOffsets(s, b, n) /\ i \in Nat
  BY <1>1, <1>2, FitType
<1> HIDE DEF b, i
<1>4. i \in 0 .. PagesPerBlock - n /\ MaskPages(b, MaskLength(n), i) \cap s = {}
  BY <1>1, <1>3 DEF FitOffsets, TriedOffsets
<1>5. i + n <= PagesPerBlock /\ i # PagesPerBlock /\ MaskLength(n) = n
  BY <1>1, <1>3, <1>4 DEF MaskLength
<1>6. b * PagesPerBlock \in Nat
  <2>1. b \in Nat
    BY <1>3, BlockPagesType
  <2>2. QED BY <2>1, Z3
<1>7. MaskPages(b, n, i) = run
  <2>1. {k \in i .. i + n - 1 : k < PagesPerBlock} = i .. i + n - 1
    BY <1>1, <1>3, <1>5
  <2>2. MaskPages(b, n, i) = {b * PagesPerBlock + k : k \in i .. i + n - 1}
    BY <2>1 DEF MaskPages
  <2>3. ASSUME NEW q \in run PROVE q \in MaskPages(b, n, i)
    <3> DEFINE base == b * PagesPerBlock
    <3>1. base \in Nat
      BY <1>6
    <3> HIDE DEF base
    <3>2. q - base \in i .. i + n - 1 /\ q = base + (q - base)
      BY <1>1, <1>3, <3>1 DEF base
    <3>3. QED BY <2>2, <3>2 DEF base
  <2>4. ASSUME NEW q \in MaskPages(b, n, i) PROVE q \in run
    <3>1. PICK k \in i .. i + n - 1 : q = b * PagesPerBlock + k
      BY <2>2
    <3> DEFINE base == b * PagesPerBlock
    <3>2. base \in Nat
      BY <1>6
    <3> HIDE DEF base
    <3>3. q \in base + i .. base + i + n - 1
      BY <1>1, <1>3, <3>1, <3>2 DEF base
    <3>4. QED BY <3>3 DEF base
  <2>5. QED BY <2>3, <2>4
<1>8. SetBits(b, n, i) = {run} /\ run \cap s = {}
  BY <1>4, <1>5, <1>7 DEF SetBits
<1>9. run \subseteq BlockPages
  BY <1>1, <1>3, <1>7, MaskInBlock
<1>10. Cardinality(run) = n
  <2> DEFINE base == b * PagesPerBlock
  <2>1. base \in Nat
    BY <1>6
  <2> HIDE DEF base
  <2>2. base + i \in Int /\ base + i + n - 1 \in Int /\ ~(base + i > base + i + n - 1)
        /\ (base + i + n - 1) - (base + i) + 1 = n
    BY <1>1, <1>3, <2>1
  <2>3. Cardinality(base + i .. base + i + n - 1) = n
    BY <2>2, FS_Interval
  <2>4. QED BY <2>3 DEF base
<1>11. QED BY <1>2, <1>8, <1>9, <1>10 DEF b, i

\* Blocking pages out during boot keeps ownership exclusive.
LEMMA SetAllocatedOwnership ==
    ASSUME Ownership, NEW S \in SUBSET Pages, SetAllocated(S),
           phase # "running", UNCHANGED grants
    PROVE  NoDoubleGrant' /\ NoLostPage'
<1>1. \A p \in Pages : grants[p] = 0
  BY DEF Ownership, BootQuiet
<1>2. {p \in Pages : grants[p] > 0} = {}
  BY <1>1
<1>3. storage' = storage \cup S /\ blocked' = blocked \cup S /\ grants' = grants
  BY DEF SetAllocated
<1>4. NoLostPage'
  BY <1>2, <1>3 DEF Ownership, NoLostPage
<1>5. NoDoubleGrant'
  BY <1>1, <1>3 DEF NoDoubleGrant
<1>6. QED BY <1>4, <1>5

\* Granting pages whose bits are clear, and setting those bits, does too.
LEMMA GrantOwnership ==
    ASSUME Ownership, NEW S \in SUBSET Pages, S \cap storage = {},
           Grant(S), storage' = storage \cup S, UNCHANGED blocked
    PROVE  NoDoubleGrant' /\ NoLostPage'
<1>1. \A p \in Pages : grants[p] \in Nat
  BY DEF Ownership, TypeOK
<1>2. \A p \in Pages : p \notin storage => grants[p] = 0 /\ p \notin blocked
  BY <1>1 DEF Ownership, NoLostPage
<1>3. \A p \in Pages : grants'[p] = grants[p] + IF p \in S THEN 1 ELSE 0
  BY DEF Grant
<1>4. NoDoubleGrant'
  BY <1>1, <1>2, <1>3 DEF Ownership, NoDoubleGrant
<1>5. {p \in Pages : grants'[p] > 0} = {p \in Pages : grants[p] > 0} \cup S
  BY <1>1, <1>3
<1>6. QED BY <1>4, <1>5 DEF Ownership, NoLostPage

\* At first nothing is granted.
LEMMA InitOwnership == Init => Ownership
<1> SUFFICES ASSUME Init PROVE Ownership
  OBVIOUS
<1>1. TypeOK
  BY InitType
<1>2. \A p \in Pages : grants[p] = 0
  BY DEF Init
<1>3. {p \in Pages : grants[p] > 0} = {}
  BY <1>2
<1>4. NoLostPage
  BY <1>3 DEF NoLostPage, Init
<1>5. QED BY <1>1, <1>2, <1>4 DEF Ownership, NoDoubleGrant, BootQuiet

\* Every operation keeps free, granted and blocked pages apart.
LEMMA NextOwnership ==
    ASSUME RequestsFit
    PROVE  Ownership /\ [Next]_vars => Ownership'
<1> SUFFICES ASSUME Ownership, [Next]_vars PROVE Ownership'
  OBVIOUS
<1>0. TypeOK /\ TypeOK'
  BY NextType DEF Ownership
<1>1. CASE ParseDescriptor
  <2>1. Head(map) \in Descriptor
    BY <1>0, <1>1 DEF ParseDescriptor, TypeOK
  <2>2. Head(map).pages \in SUBSET Pages
    BY <2>1 DEF Descriptor
  <2>3. phase # "running" /\ UNCHANGED <<phase, grants>>
    BY <1>1 DEF ParseDescriptor
  <2>4. BootQuiet'
    BY <2>3 DEF Ownership, BootQuiet
  <2>5. CASE SetAllocated(Head(map).pages)
    BY <1>0, <2>2, <2>3, <2>4, <2>5, SetAllocatedOwnership DEF Ownership
  <2>6. CASE UNCHANGED <<storage, free_pages, blocked, overlap>>
    BY <1>0, <2>3, <2>4, <2>6 DEF Ownership, NoDoubleGrant, NoLostPage
  <2>7. QED BY <1>1, <2>5, <2>6 DEF ParseDescriptor
<1>2. CASE MapParsed
  BY <1>0, <1>2 DEF MapParsed, Ownership, NoDoubleGrant, NoLostPage, BootQuiet
<1>3. CASE ReserveLow
  <2>1. 0 .. LowPages - 1 \in SUBSET Pages
    BY DEF Pages
  <2>2. NoDoubleGrant' /\ NoLostPage'
    BY <1>3, <2>1, SetAllocatedOwnership DEF ReserveLow
  <2>3. QED BY <1>0, <1>3, <2>2 DEF ReserveLow, Ownership, BootQuiet
<1>4. CASE AllocatePage
  <2> DEFINE p == Least(FreeBlockPages(storage))
  <2>1. p \in Pages /\ p \notin storage
    BY <1>4, FirstFreeType DEF AllocatePage
  <2>2. {p} \in SUBSET Pages /\ {p} \cap storage = {} /\ Grant({p})
        /\ storage' = storage \cup {p} /\ UNCHANGED blocked
    BY <1>4, <2>1 DEF AllocatePage
  <2>3. NoDoubleGrant' /\ NoLostPage'
    BY <2>2, GrantOwnership
  <2>4. QED BY <1>0, <1>4, <2>3 DEF AllocatePage, Ownership, BootQuiet
<1>5. CASE AllocateRefused
  BY <1>0, <1>5 DEF AllocateRefused, Ownership, NoDoubleGrant, NoLostPage, BootQuiet
<1>6. ASSUME NEW n \in Requests, AllocateContiguous(n)
      PROVE  Ownership'
  <2> DEFINE b == Least(FitBlocks(storage, n % U8))
             i == FindNFree(storage, b, n % U8)
             run == b * PagesPerBlock + i .. b * PagesPerBlock + i + n - 1
  <2>1. SetBits(b, n % U8, i) = {run} /\ run \subseteq BlockPages /\ run \cap storage = {}
    BY <1>6, ContiguousRun DEF AllocateContiguous
  <2>2. storage' = storage \cup run /\ Grant(run) /\ UNCHANGED blocked
    BY <1>6, <2>1 DEF AllocateContiguous
  <2> HIDE DEF run
  <2>3. run \in SUBSET Pages
    BY <2>1, BlockPagesType
  <2>4. NoDoubleGrant' /\ NoLostPage'
    BY <2>1, <2>2, <2>3, GrantOwnership
  <2>5. QED BY <1>0, <1>6, <2>4 DEF AllocateContiguous, Ownership, BootQuiet
<1>7. ASSUME NEW n \in Requests, ContiguousRefused(n)
      PROVE  Ownership'
  BY <1>0, <1>7 DEF ContiguousRefused, Ownership, NoDoubleGrant, NoLostPage, BootQuiet
<1>8. ASSUME NEW p \in Pages, Free(p)
      PROVE  Ownership'
  <2>1. grants \in [Pages -> Nat] /\ grants[p] = 1 /\ p \notin blocked
    BY <1>0, <1>8 DEF Free, Ownership, NoDoubleGrant, TypeOK
  <2>2. grants'[p] = 0 /\ \A q \in Pages \ {p} : grants'[q] = grants[q]
    BY <1>8, <2>1 DEF Free
  <2>3. NoDoubleGrant'
    BY <1>8, <2>2 DEF Free, Ownership, NoDoubleGrant
  <2>4. {q \in Pages : grants'[q] > 0} = {q \in Pages : grants[q] > 0} \ {p}
    BY <2>1, <2>2
  <2>5. NoLostPage'
    BY <1>8, <2>1, <2>4 DEF Free, Ownership, NoLostPage
  <2>6. QED BY <1>0, <1>8, <2>3, <2>5 DEF Free, Ownership, BootQuiet
<1>9. ASSUME NEW p \in Pages, FreeRefused(p)
      PROVE  Ownership'
  BY <1>0, <1>9 DEF FreeRefused, Ownership, NoDoubleGrant, NoLostPage, BootQuiet
<1>10. CASE UNCHANGED vars
  BY <1>0, <1>10 DEF vars, Ownership, NoDoubleGrant, NoLostPage, BootQuiet
<1>11. QED
  BY <1>1, <1>2, <1>3, <1>4, <1>5, <1>6, <1>7, <1>8, <1>9, <1>10 DEF Next

\* allocate and allocate_contiguous never hand out a page twice, nor a page
\* that MemoryManager::init blocked out, provided no caller asks for more
\* than one page over the word size in one run.
THEOREM ExclusiveGrants ==
    ASSUME RequestsFit
    PROVE  Spec => []NoDoubleGrant
<1>1. Ownership => NoDoubleGrant
  BY DEF Ownership
<1>2. QED BY <1>1, InitOwnership, NextOwnership, PTL DEF Spec

\* Under the same condition every page whose bit is set is blocked out or
\* held: Bitmap::free gives a page back and nothing is lost.
THEOREM NothingLost ==
    ASSUME RequestsFit
    PROVE  Spec => []NoLostPage
<1>1. Ownership => NoLostPage
  BY DEF Ownership
<1>2. QED BY <1>1, InitOwnership, NextOwnership, PTL DEF Spec
-----------------------------------------------------------------------------
(* Accounting.  As long as no set_allocated hit a bit already set, the     *)
(* counter is exact and never wraps, so a refusal means a full bitmap.     *)

Exact == overlap = 0 => free_pages = TotalPages - Cardinality(storage)

BootResult == phase # "running" => result.op = "init"

Counted == Ownership /\ Exact /\ BootResult /\ RefusedOnlyWhenFull

\* Taking n pages whose bits are clear from an exact counter leaves it exact.
LEMMA TakeExact ==
    ASSUME TypeOK, Exact, NEW S \in SUBSET Pages, S \cap storage = {}, overlap = 0,
           storage' = storage \cup S, free_pages' = Sub(free_pages, Cardinality(S))
    PROVE  free_pages' = TotalPages - Cardinality(storage')
<1>1. IsFiniteSet(S) /\ IsFiniteSet(storage) /\ IsFiniteSet(S \cap storage)
  BY FiniteParts DEF TypeOK
<1>2. Cardinality(storage \cap S) = 0
  BY FS_EmptySet
<1>3. Cardinality(S) \in Nat /\ Cardinality(storage) \in Nat
  BY FiniteParts DEF TypeOK
<1>4. Cardinality(storage') = Cardinality(storage) + Cardinality(S)
  <2>1. Cardinality(storage \cup S)
          = Cardinality(storage) + Cardinality(S) - Cardinality(storage \cap S)
    BY <1>1, FS_Union
  <2>2. QED BY <1>2, <1>3, <2>1
<1>5. storage' \in SUBSET Pages
  BY DEF TypeOK
<1>6. Cardinality(storage') \in 0 .. TotalPages
  BY <1>5, FiniteParts
<1>7. free_pages - Cardinality(S) = TotalPages - Cardinality(storage')
  BY <1>3, <1>4 DEF Exact
<1>8. TotalPages - Cardinality(storage') \in 0 .. SizeMod - 1
  BY <1>6
<1>9. QED BY <1>7, <1>8, NoWrap DEF Sub

\* set_n_allocated keeps the counter exact as long as no bit was set twice.
LEMMA SetAllocatedExact ==
    ASSUME TypeOK, Exact, NEW S \in SUBSET Pages, SetAllocated(S)
    PROVE  Exact'
<1> SUFFICES ASSUME overlap' = 0 PROVE free_pages' = TotalPages - Cardinality(storage')
  BY DEF Exact
<1>1. S \cap storage \in SUBSET Pages
  OBVIOUS
<1>2. IsFiniteSet(S \cap storage) /\ Cardinality(S \cap storage) \in Nat
  BY <1>1, FiniteParts
<1>3. overlap = 0 /\ Cardinality(S \cap storage) = 0
  BY <1>2 DEF SetAllocated, TypeOK
<1>4. S \cap storage = {}
  BY <1>2, <1>3, FS_EmptySet
<1>5. QED BY <1>3, <1>4, TakeExact DEF SetAllocated

\* At first every page is counted free.
LEMMA InitCounted == Init => Counted
<1> SUFFICES ASSUME Init PROVE Counted
  OBVIOUS
<1>1. Cardinality(storage) = 0
  BY FS_EmptySet DEF Init
<1>2. result.op = "init"
  BY DEF Init
<1>3. QED BY <1>1, <1>2, InitOwnership DEF Init, Counted, Exact, BootResult, RefusedOnlyWhenFull

\* Every operation keeps the count and the refusals right.
LEMMA NextCounted ==
    ASSUME RequestsFit
    PROVE  Counted /\ [Next]_vars => Counted'
<1> SUFFICES ASSUME Counted, [Next]_vars PROVE Counted'
  OBVIOUS
<1>0. TypeOK /\ Ownership /\ Ownership'
  BY NextOwnership DEF Counted, Ownership
<1>1. CASE ParseDescriptor
  <2>1. Head(map) \in Descriptor
    BY <1>0, <1>1 DEF ParseDescriptor, TypeOK
  <2>2. Head(map).pages \in SUBSET Pages
    BY <2>1 DEF Descriptor
  <2>3. result.op = "init" /\ UNCHANGED <<phase, result>>
    BY <1>1 DEF ParseDescriptor, Counted, BootResult
  <2>4. CASE SetAllocated(Head(map).pages)
    BY <1>0, <2>2, <2>3, <2>4, SetAllocatedExact
      DEF Counted, BootResult, RefusedOnlyWhenFull
  <2>5. CASE UNCHANGED <<storage, free_pages, blocked, overlap>>
    BY <1>0, <2>3, <2>5 DEF Counted, Exact, BootResult, RefusedOnlyWhenFull
  <2>6. QED BY <1>1, <2>4, <2>5 DEF ParseDescriptor
<1>2. CASE MapParsed
  BY <1>0, <1>2 DEF MapParsed, Counted, Exact, BootResult, RefusedOnlyWhenFull
<1>3. CASE ReserveLow
  <2>1. 0 .. LowPages - 1 \in SUBSET Pages
    BY DEF Pages
  <2>2. result'.op = "init"
    BY <1>3 DEF ReserveLow, Counted, BootResult
  <2>3. Exact'
    BY <1>0, <1>3, <2>1, SetAllocatedExact DEF ReserveLow, Counted
  <2>4. QED BY <1>0, <2>2, <2>3 DEF Counted, BootResult, RefusedOnlyWhenFull
<1>4. CASE AllocatePage
  <2> DEFINE p == Least(FreeBlockPages(storage))
  <2>1. p \in Pages /\ p \notin storage
    BY <1>4, FirstFreeType DEF AllocatePage
  <2>2. Cardinality({p}) = 1
    BY FS_Singleton
  <2>3. {p} \in SUBSET Pages /\ {p} \cap storage = {} /\ storage' = storage \cup {p}
        /\ free_pages' = Sub(free_pages, 1) /\ UNCHANGED overlap
    BY <1>4, <2>1 DEF AllocatePage
  <2> HIDE DEF p
  <2>4. Exact'
    BY <1>0, <2>2, <2>3, TakeExact DEF Counted, Exact
  <2>5. result'.error = "none"
    BY <1>4 DEF AllocatePage, Return
  <2>6. QED BY <1>0, <1>4, <2>4, <2>5 DEF AllocatePage, Counted, BootResult, RefusedOnlyWhenFull
<1>5. CASE AllocateRefused
  <2>1. Exact' /\ BootResult'
    BY <1>5 DEF AllocateRefused, Counted, Exact, BootResult
  <2>2. ASSUME overlap = 0, free_pages = 0
        PROVE  FreeBlockPages(storage) = {}
    <3>1. Cardinality(storage) = TotalPages
      <4>1. Cardinality(storage) \in Nat
        BY <1>0, FiniteParts DEF TypeOK
      <4>2. QED BY <2>2, <4>1 DEF Counted, Exact
    <3>2. storage = Pages
      BY <1>0, <3>1, FiniteParts, FS_Subset DEF TypeOK
    <3>3. QED BY <3>2, BlockPagesType DEF FreeBlockPages
  <2>3. RefusedOnlyWhenFull'
    BY <1>5, <2>2 DEF AllocateRefused, RefusedOnlyWhenFull, FreeBlockPages
  <2>4. QED BY <1>0, <2>1, <2>3 DEF Counted
<1>6. ASSUME NEW n \in Requests, AllocateContiguous(n)
      PROVE  Counted'
  <2> DEFINE b == Least(FitBlocks(storage, n % U8))
             i == FindNFree(storage, b, n % U8)
             run == b * PagesPerBlock + i .. b * PagesPerBlock + i + n - 1
  <2>1. /\ n % U8 = n /\ SetBits(b, n % U8, i) = {run} /\ run \subseteq BlockPages
        /\ run \cap storage = {} /\ Cardinality(run) = n
    BY <1>6, ContiguousRun DEF AllocateContiguous
  <2>2. storage' = storage \cup run /\ free_pages' = Sub(free_pages, n) /\ UNCHANGED overlap
    BY <1>6, <2>1 DEF AllocateContiguous
  <2> HIDE DEF run
  <2>3. run \in SUBSET Pages
    BY <2>1, BlockPagesType
  <2>4. Exact'
    BY <1>0, <2>1, <2>2, <2>3, TakeExact DEF Counted, Exact
  <2>5. result'.op = "allocate_contiguous"
    BY <1>6 DEF AllocateContiguous, Return
  <2>6. QED BY <1>0, <1>6, <2>4, <2>5
          DEF AllocateContiguous, Counted, BootResult, RefusedOnlyWhenFull
<1>7. ASSUME NEW n \in Requests, ContiguousRefused(n)
      PROVE  Counted'
  BY <1>0, <1>7 DEF ContiguousRefused, Return, Counted, Exact, BootResult, RefusedOnlyWhenFull
<1>8. ASSUME NEW p \in Pages, Free(p)
      PROVE  Counted'
  <2>1. result'.op = "free" /\ phase = "running" /\ UNCHANGED <<phase, overlap>>
    BY <1>8 DEF Free, Return
  <2>2. ASSUME overlap = 0 PROVE free_pages' = TotalPages - Cardinality(storage')
    <3>1. IsFiniteSet(storage) /\ Cardinality(storage) \in Nat
      BY <1>0, FiniteParts DEF TypeOK
    <3>2. Cardinality(storage') = Cardinality(storage) - 1
      BY <1>8, <3>1, FS_RemoveElement DEF Free
    <3>3. storage' \in SUBSET Pages
      BY <1>0, <1>8 DEF Free, TypeOK
    <3>4. Cardinality(storage') \in 0 .. TotalPages
      BY <3>3, FiniteParts
    <3>5. free_pages + 1 = TotalPages - Cardinality(storage')
      BY <2>2, <3>1, <3>2 DEF Counted, Exact
    <3>6. TotalPages - Cardinality(storage') \in 0 .. SizeMod - 1
      BY <3>4
    <3>7. QED BY <1>8, <3>5, <3>6, NoWrap DEF Free, Add
  <2>3. QED BY <1>0, <2>1, <2>2 DEF Counted, Exact, BootResult, RefusedOnlyWhenFull
<1>9. ASSUME NEW p \in Pages, FreeRefused(p)
      PROVE  Counted'
  BY <1>0, <1>9 DEF FreeRefused, Return, Counted, Exact, BootResult, RefusedOnlyWhenFull
<1>10. CASE UNCHANGED vars
  BY <1>0, <1>10 DEF vars, Counted, Exact, BootResult, RefusedOnlyWhenFull, FreeBlockPages
<1>11. QED
  BY <1>1, <1>2, <1>3, <1>4, <1>5, <1>6, <1>7, <1>8, <1>9, <1>10 DEF Next

\* Unless MemoryManager::init set a bit twice, Bitmap::allocate refuses only
\* when no page of the bitmap's words is left.
THEOREM HonestRefusal ==
    ASSUME RequestsFit
    PROVE  Spec => []RefusedOnlyWhenFull
<1>1. Counted => RefusedOnlyWhenFull
  BY DEF Counted
<1>2. QED BY <1>1, InitCounted, NextCounted, PTL DEF Spec
-----------------------------------------------------------------------------
(* The counter in every case.  When MemoryManager::init did set bits       *)
(* twice, m_free_pages is low by that many for good, and may even have     *)
(* wrapped: it still is one number modulo the width of size_t.             *)

\* A remainder is what is left over a multiple.
LEMMA Remainder ==
    ASSUME NEW M \in Nat \ {0}, NEW q \in Int, NEW r \in 0 .. M - 1
    PROVE  (M * q + r) % M = r
<1> DEFINE v == M * q + r
           p == v \div M
           s == v % M
<1>1. v \in Int
  BY Z3
<1> HIDE DEF v
<1>2. p \in Int /\ s \in 0 .. M - 1 /\ v = M * p + s
  BY <1>1, Z3
<1> HIDE DEF p, s
<1>3. M * q + r = M * p + s
  BY <1>2 DEF v
<1>4. ASSUME q > p PROVE FALSE
  <2>1. M * q >= M * p + M
    <3>1. q >= p + 1
      BY <1>2, <1>4
    <3>2. QED BY <1>2, <3>1, Z3
  <2>2. QED BY <1>2, <1>3, <2>1, Z3
<1>5. ASSUME q < p PROVE FALSE
  <2>1. M * p >= M * q + M
    <3>1. p >= q + 1
      BY <1>2, <1>5
    <3>2. QED BY <1>2, <3>1, Z3
  <2>2. QED BY <1>2, <1>3, <2>1, Z3
<1>6. p = q
  BY <1>2, <1>4, <1>5
<1>7. s = r
  BY <1>2, <1>3, <1>6, Z3
<1>8. QED BY <1>7 DEF s, v

\* Reducing to the width first changes no later sum.
LEMMA ReduceFirst ==
    ASSUME NEW M \in Nat \ {0}, NEW a \in Int, NEW k \in Int
    PROVE  ((a % M) + k) % M = (a + k) % M
<1> DEFINE q == a \div M
           b == a % M
           p == (b + k) \div M
           r == (b + k) % M
<1>1. q \in Int /\ b \in Int /\ a = M * q + b
  BY Z3
<1> HIDE DEF q, b
<1>2. p \in Int /\ r \in 0 .. M - 1 /\ b + k = M * p + r
  <2>1. b + k \in Int
    BY <1>1
  <2>2. QED BY <2>1, Z3
<1> HIDE DEF p, r
<1>3. a + k = M * (q + p) + r
  BY <1>1, <1>2, Z3
<1>4. (a + k) % M = r
  <2>1. q + p \in Int
    BY <1>1, <1>2
  <2>2. (M * (q + p) + r) % M = r
    BY <1>2, <2>1, Remainder
  <2>3. QED BY <1>3, <2>2
<1>5. QED BY <1>4 DEF r, b

\* Taking pages from the counter, whether or not their bits were set before.
LEMMA TakeCounted ==
    ASSUME TypeOK, Accounting, NEW S \in SUBSET Pages,
           storage' = storage \cup S, free_pages' = Sub(free_pages, Cardinality(S)),
           overlap' = overlap + Cardinality(S \cap storage)
    PROVE  Accounting'
<1> DEFINE c == Cardinality(storage)
           d == Cardinality(S)
           e == Cardinality(S \cap storage)
           a == TotalPages - c - overlap
<1>1. IsFiniteSet(S) /\ IsFiniteSet(storage) /\ c \in Int /\ d \in Int /\ e \in Int
  BY FiniteParts DEF TypeOK
<1>2. Cardinality(storage') = c + d - e
  BY <1>1, FS_Union
<1> HIDE DEF c, d, e
<1>3. overlap \in Int /\ overlap' = overlap + e
  BY DEF TypeOK, e
<1>4. a \in Int /\ a + (-d) = TotalPages - Cardinality(storage') - overlap'
  BY <1>1, <1>2, <1>3
<1>5. free_pages = a % SizeMod
  BY DEF Accounting, c
<1> HIDE DEF a
<1>6. free_pages' = ((a % SizeMod) + (-d)) % SizeMod
  <2>1. a % SizeMod \in Int
    BY <1>4
  <2>2. (a % SizeMod) - d = (a % SizeMod) + (-d)
    BY <1>1, <2>1
  <2>3. QED BY <1>5, <2>2 DEF Sub, d
<1>7. ((a % SizeMod) + (-d)) % SizeMod = (a + (-d)) % SizeMod
  <2>1. SizeMod \in Nat \ {0} /\ -d \in Int
    BY <1>1
  <2>2. QED BY <1>4, <2>1, ReduceFirst
<1>8. QED BY <1>4, <1>6, <1>7 DEF Accounting

\* At first nothing was counted twice.
LEMMA InitExplained == Init => Accounting
<1> SUFFICES ASSUME Init PROVE Accounting
  OBVIOUS
<1>1. Cardinality(storage) = 0 /\ overlap = 0
  BY FS_EmptySet DEF Init
<1>2. TotalPages - Cardinality(storage) - overlap = TotalPages /\ TotalPages \in 0 .. SizeMod - 1
  BY <1>1
<1>3. QED BY <1>2, NoWrap DEF Init, Accounting

\* Every operation moves the counter by the bits it set and by its overlap.
LEMMA NextExplained ==
    ASSUME RequestsFit, TypeOK, Accounting, [Next]_vars
    PROVE  Accounting'
<1>1. ASSUME UNCHANGED <<storage, free_pages, overlap>> PROVE Accounting'
  BY <1>1 DEF Accounting
<1>2. CASE ParseDescriptor
  <2>1. Head(map) \in Descriptor
    BY <1>2 DEF ParseDescriptor, TypeOK
  <2>2. Head(map).pages \in SUBSET Pages
    BY <2>1 DEF Descriptor
  <2>3. QED BY <1>1, <1>2, <2>2, TakeCounted DEF ParseDescriptor, SetAllocated
<1>3. CASE ReserveLow
  <2>1. 0 .. LowPages - 1 \in SUBSET Pages
    BY DEF Pages
  <2>2. QED BY <1>3, <2>1, TakeCounted DEF ReserveLow, SetAllocated
<1>4. ASSUME NEW S \in SUBSET Pages, S \cap storage = {}, storage' = storage \cup S,
             free_pages' = Sub(free_pages, Cardinality(S)), UNCHANGED overlap
      PROVE  Accounting'
  <2>1. Cardinality(S \cap storage) = 0
    BY <1>4, FS_EmptySet
  <2>2. overlap' = overlap + Cardinality(S \cap storage)
    BY <1>4, <2>1 DEF TypeOK
  <2>3. QED BY <1>4, <2>2, TakeCounted
<1>5. CASE AllocatePage
  <2> DEFINE p == Least(FreeBlockPages(storage))
  <2>1. p \in Pages /\ p \notin storage
    BY <1>5, FirstFreeType DEF AllocatePage
  <2>2. storage' = storage \cup {p} /\ free_pages' = Sub(free_pages, 1) /\ UNCHANGED overlap
    BY <1>5 DEF AllocatePage
  <2> HIDE DEF p
  <2>3. {p} \in SUBSET Pages /\ {p} \cap storage = {} /\ Cardinality({p}) = 1
    BY <2>1, FS_Singleton
  <2>4. QED BY <1>4, <2>2, <2>3
<1>6. ASSUME NEW n \in Requests, AllocateContiguous(n)
      PROVE  Accounting'
  <2> DEFINE b == Least(FitBlocks(storage, n % U8))
             i == FindNFree(storage, b, n % U8)
             run == b * PagesPerBlock + i .. b * PagesPerBlock + i + n - 1
  <2>1. /\ n % U8 = n /\ SetBits(b, n % U8, i) = {run} /\ run \subseteq BlockPages
        /\ run \cap storage = {} /\ Cardinality(run) = n
    BY <1>6, ContiguousRun DEF AllocateContiguous
  <2>2. storage' = storage \cup run /\ free_pages' = Sub(free_pages, n) /\ UNCHANGED overlap
    BY <1>6, <2>1 DEF AllocateContiguous
  <2> HIDE DEF run
  <2>3. run \in SUBSET Pages
    BY <2>1, BlockPagesType
  <2>4. QED BY <1>4, <2>1, <2>2, <2>3
<1>7. ASSUME NEW p \in Pages, Free(p)
      PROVE  Accounting'
  <2> DEFINE a == TotalPages - Cardinality(storage) - overlap
  <2>1. IsFiniteSet(storage) /\ Cardinality(storage) \in Int /\ overlap \in Int
    BY FiniteParts DEF TypeOK
  <2>2. Cardinality(storage') = Cardinality(storage) - 1 /\ UNCHANGED overlap
    BY <1>7, <2>1, FS_RemoveElement DEF Free
  <2>3. a \in Int /\ a + 1 = TotalPages - Cardinality(storage') - overlap'
    BY <2>1, <2>2
  <2>4. free_pages' = ((a % SizeMod) + 1) % SizeMod
    BY <1>7 DEF Free, Add, Accounting
  <2> HIDE DEF a
  <2>5. ((a % SizeMod) + 1) % SizeMod = (a + 1) % SizeMod
    <3>1. SizeMod \in Nat \ {0} /\ 1 \in Int
      OBVIOUS
    <3>2. QED BY <2>3, <3>1, ReduceFirst
  <2>6. QED BY <2>3, <2>4, <2>5 DEF Accounting
<1>8. CASE MapParsed \/ AllocateRefused \/ UNCHANGED vars
  BY <1>1, <1>8 DEF MapParsed, AllocateRefused, vars
<1>9. ASSUME NEW n \in Requests, ContiguousRefused(n)
      PROVE  Accounting'
  BY <1>1, <1>9 DEF ContiguousRefused
<1>10. ASSUME NEW p \in Pages, FreeRefused(p)
       PROVE  Accounting'
  BY <1>1, <1>10 DEF FreeRefused
<1>11. QED BY <1>2, <1>3, <1>5, <1>6, <1>7, <1>8, <1>9, <1>10 DEF Next

\* m_free_pages is always explained by the bits that are set and by the bits
\* MemoryManager::init set twice, whether or not the counter wrapped, as long
\* as no caller asks for more than one page over the word size in one run.
THEOREM CounterExplained ==
    ASSUME RequestsFit
    PROVE  Spec => []Accounting
<1>1. TypeOK /\ Accounting /\ [Next]_vars => Accounting'
  BY NextExplained
<1>2. QED BY <1>1, InitExplained, TypeCorrect, PTL DEF Spec
-----------------------------------------------------------------------------
(* Refinement: under the mapping of FrameBitmap!Abs every step of the      *)
(* bitmap withholds, grants or releases frames, or leaves them alone.      *)

\* Only pages of the bitmap's words are ever held.
HeldInBlocks == \A p \in Pages : grants[p] > 0 => p \in BlockPages

Mapped == Ownership /\ HeldInBlocks

\* Taking the frames of S, whose bits are clear, is an abstract grant.
LEMMA GrantMaps ==
    ASSUME Mapped, NEW S \in SUBSET BlockPages, S \cap storage = {},
           Grant(S), storage' = storage \cup S
    PROVE  HeldInBlocks' /\ Abs!Next
<1>1. \A p \in Pages : grants[p] \in Nat
  BY DEF Mapped, Ownership, TypeOK
<1>2. \A p \in Pages : grants'[p] = grants[p] + IF p \in S THEN 1 ELSE 0
  BY DEF Grant
<1>3. S \subseteq Pages
  BY BlockPagesType
<1>4. {p \in Pages : grants'[p] > 0} = {p \in Pages : grants[p] > 0} \cup S
  BY <1>1, <1>2, <1>3
<1>5. FreeBlockPages(storage)' = FreeBlockPages(storage) \ S /\ S \subseteq FreeBlockPages(storage)
  BY DEF FreeBlockPages
<1>6. HeldInBlocks'
  BY <1>1, <1>2 DEF Mapped, HeldInBlocks
<1>7. Abs!Grant(S)
  BY <1>4, <1>5 DEF Abs!Grant
<1>8. QED BY <1>3, <1>6, <1>7 DEF Abs!Next

\* The initial states are initial states of the allocator.
LEMMA InitMaps == Init => Mapped /\ Abs!Init
<1> SUFFICES ASSUME Init PROVE Mapped /\ Abs!Init
  OBVIOUS
<1>1. \A p \in Pages : grants[p] = 0
  BY DEF Init
<1>2. {p \in Pages : grants[p] > 0} = {}
  BY <1>1
<1>3. FreeBlockPages(storage) \in SUBSET Pages
  BY BlockPagesType DEF FreeBlockPages
<1>4. QED BY <1>1, <1>2, <1>3, InitOwnership DEF Mapped, HeldInBlocks, Abs!Init

\* Every operation is one of the allocator or changes neither of its sets.
LEMMA NextMaps ==
    ASSUME RequestsFit
    PROVE  Mapped /\ [Next]_vars
             => HeldInBlocks' /\ [Abs!Next]_<<FreeBlockPages(storage), {p \in Pages : grants[p] > 0}>>
<1> SUFFICES ASSUME Mapped, [Next]_vars
             PROVE  /\ HeldInBlocks'
                    /\ Abs!Next \/ UNCHANGED <<FreeBlockPages(storage), {p \in Pages : grants[p] > 0}>>
  OBVIOUS
<1>0. TypeOK
  BY DEF Mapped, Ownership
<1>1. ASSUME NEW S \in SUBSET Pages, SetAllocated(S), UNCHANGED grants
      PROVE  HeldInBlocks' /\ Abs!Next
  <2>1. HeldInBlocks'
    BY <1>1 DEF Mapped, HeldInBlocks
  <2>2. Abs!Withhold(S)
    BY <1>1 DEF Abs!Withhold, SetAllocated, FreeBlockPages
  <2>3. QED BY <2>1, <2>2 DEF Abs!Next
<1>2. ASSUME UNCHANGED <<storage, grants>>
      PROVE  HeldInBlocks' /\ UNCHANGED <<FreeBlockPages(storage), {p \in Pages : grants[p] > 0}>>
  BY <1>2 DEF Mapped, HeldInBlocks, FreeBlockPages
<1>3. CASE ParseDescriptor
  <2>1. Head(map) \in Descriptor
    BY <1>0, <1>3 DEF ParseDescriptor, TypeOK
  <2>2. Head(map).pages \in SUBSET Pages
    BY <2>1 DEF Descriptor
  <2>3. QED BY <1>1, <1>2, <1>3, <2>2 DEF ParseDescriptor
<1>4. CASE ReserveLow
  <2>1. 0 .. LowPages - 1 \in SUBSET Pages
    BY DEF Pages
  <2>2. QED BY <1>1, <1>4, <2>1 DEF ReserveLow
<1>5. CASE MapParsed \/ AllocateRefused \/ UNCHANGED vars
  BY <1>2, <1>5 DEF MapParsed, AllocateRefused, vars
<1>6. CASE AllocatePage
  <2> DEFINE p == Least(FreeBlockPages(storage))
  <2>1. p \in BlockPages /\ p \notin storage
    BY <1>6, FirstFreeType DEF AllocatePage
  <2>2. Grant({p}) /\ storage' = storage \cup {p}
    BY <1>6 DEF AllocatePage
  <2> HIDE DEF p
  <2>3. {p} \in SUBSET BlockPages /\ {p} \cap storage = {}
    BY <2>1
  <2>4. QED BY <2>2, <2>3, GrantMaps
<1>7. ASSUME NEW n \in Requests, AllocateContiguous(n)
      PROVE  HeldInBlocks' /\ Abs!Next
  <2> DEFINE b == Least(FitBlocks(storage, n % U8))
             i == FindNFree(storage, b, n % U8)
             run == b * PagesPerBlock + i .. b * PagesPerBlock + i + n - 1
  <2>1. SetBits(b, n % U8, i) = {run} /\ run \subseteq BlockPages /\ run \cap storage = {}
    BY <1>7, ContiguousRun DEF AllocateContiguous
  <2>2. storage' = storage \cup run /\ Grant(run)
    BY <1>7, <2>1 DEF AllocateContiguous
  <2> HIDE DEF run
  <2>3. QED BY <2>1, <2>2, GrantMaps
<1>8. ASSUME NEW n \in Requests, ContiguousRefused(n)
      PROVE  HeldInBlocks' /\ UNCHANGED <<FreeBlockPages(storage), {p \in Pages : grants[p] > 0}>>
  BY <1>2, <1>8 DEF ContiguousRefused
<1>9. ASSUME NEW q \in Pages, Free(q)
      PROVE  HeldInBlocks' /\ Abs!Next
  <2>1. grants \in [Pages -> Nat] /\ grants[q] = 1 /\ q \in BlockPages
    BY <1>0, <1>9 DEF Free, Mapped, HeldInBlocks, Ownership, NoDoubleGrant, TypeOK
  <2>2. grants'[q] = 0 /\ \A p \in Pages \ {q} : grants'[p] = grants[p]
    BY <1>9, <2>1 DEF Free
  <2>3. HeldInBlocks'
    BY <2>2 DEF Mapped, HeldInBlocks
  <2>4. {p \in Pages : grants'[p] > 0} = {p \in Pages : grants[p] > 0} \ {q}
    BY <2>1, <2>2
  <2>5. FreeBlockPages(storage)' = FreeBlockPages(storage) \cup {q}
    BY <1>9, <2>1 DEF Free, FreeBlockPages
  <2>6. Abs!Release({q})
    BY <2>1, <2>4, <2>5 DEF Abs!Release
  <2>7. QED BY <2>3, <2>6 DEF Abs!Next
<1>10. ASSUME NEW q \in Pages, FreeRefused(q)
       PROVE  HeldInBlocks' /\ UNCHANGED <<FreeBlockPages(storage), {p \in Pages : grants[p] > 0}>>
  BY <1>2, <1>10 DEF FreeRefused
<1>11. QED
  BY <1>3, <1>4, <1>5, <1>6, <1>7, <1>8, <1>9, <1>10 DEF Next

\* The bitmap implements the abstract frame allocator, as long as no caller
\* asks for more than one page over the word size in one run.
THEOREM Refinement ==
    ASSUME RequestsFit
    PROVE  Spec => ImplementsFrameAllocator
<1>1. Init => Mapped /\ Abs!Init
  BY InitMaps
<1>2. Mapped /\ [Next]_vars => Mapped'
  BY NextMaps, NextOwnership DEF Mapped
<1>3. Mapped /\ [Next]_vars
        => [Abs!Next]_<<FreeBlockPages(storage), {p \in Pages : grants[p] > 0}>>
  BY NextMaps
<1>4. QED BY <1>1, <1>2, <1>3, PTL DEF Spec, ImplementsFrameAllocator, Abs!Spec

\* What Bitmap's callers rely on, in one statement: as long as no caller asks
\* for more than one page over the word size in one run, allocate and
\* allocate_contiguous grant a page to one caller at a time and never one
\* blocked out at boot, and a set bit always has an owner.
THEOREM PagesAreOwned ==
    ASSUME RequestsFit
    PROVE  Spec => []PagesOwned
BY TypeCorrect, ExclusiveGrants, NothingLost, PTL DEF PagesOwned
=============================================================================
