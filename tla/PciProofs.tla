------------------------------ MODULE PciProofs ------------------------------
(***************************************************************************)
(* Proofs about Slab, for every number of slots, page size and set of      *)
(* object sizes; and, from what they show of the slab's actions, proofs    *)
(* about Pci, which takes them for the steps of Device::operator new, for  *)
(* every bus, capacity of the Vector and depth of the stack.               *)
(***************************************************************************)
EXTENDS Pci, FiniteSetTheorems, SequenceTheorems, WellFoundedInduction, TLAPS

-----------------------------------------------------------------------------
(* The slab allocator.                                                     *)

USE SlabAssumption

\* A page has room for at least one object, and for fewer than it has bytes.
LEMMA TotalType == \A z \in Sizes : Total(z) \in Nat /\ Total(z) <= MaxObjects
<1> SUFFICES ASSUME NEW z \in Sizes PROVE Total(z) \in Nat /\ Total(z) <= MaxObjects
  OBVIOUS
<1> DEFINE room == PageSize - HeaderSize
<1>1. room \in Nat /\ z \in Nat \ {0} /\ room <= PageSize
  OBVIOUS
<1> HIDE DEF room
<1>2. room \div z \in Nat /\ room \div z <= room
  BY <1>1, Z3
<1>3. Total(z) = room \div z
  BY DEF Total, room
<1>4. QED BY <1>1, <1>2, <1>3 DEF MaxObjects

\* A non-empty set of slots has a first element: the loops of find_slab and
\* create_slab stop at a slot of the set.
LEMMA FirstSuchIn ==
    ASSUME NEW S, S \subseteq Slabs, S # {}
    PROVE  FirstSuch(S) \in S
<1>0. S \subseteq Nat
  BY DEF Slabs
<1>1. PICK x \in S : \A y \in S : ~ (<<y, x>> \in OpToRel(<, Nat))
  BY <1>0, NatLessThanWellFounded, WFMin
<1>2. \A y \in S : x <= y
  <2> SUFFICES ASSUME NEW y \in S, ~(x <= y) PROVE FALSE
    OBVIOUS
  <2>1. x \in Nat /\ y \in Nat /\ y < x
    BY <1>0
  <2>2. <<y, x>> \in Nat \X Nat /\ <<y, x>>[1] = y /\ <<y, x>>[2] = x
    BY <2>1
  <2>3. <<y, x>> \in OpToRel(<, Nat)
    BY <2>1, <2>2 DEF OpToRel
  <2>4. QED BY <1>1, <2>3
<1>3. QED BY <1>2 DEF FirstSuch

-----------------------------------------------------------------------------
(* The inductive invariant.                                                *)

HeldInPage == \A s \in Slabs : held[s] \subseteq Objects(s)

IInv == TypeOK /\ FreeListSound /\ HeldInPage /\ OneSlabPerSize

\* A walk visits no object twice, so it is no longer than the page.
LEMMA WalkBound ==
    ASSUME NEW n \in Nat, NEW t \in Nat, NEW c \in [1 .. n -> 0 .. t - 1],
           \A j, k \in 1 .. n : c[j] = c[k] => j = k
    PROVE  n <= t
<1>1. c \in Injection(1 .. n, 0 .. t - 1)
  BY DEF Injection, IsInjective
<1>2. IsFiniteSet(0 .. t - 1) /\ Cardinality(0 .. t - 1) = t
  BY FS_Interval
<1>3. Cardinality(1 .. n) = n
  BY FS_Interval
<1>4. QED BY <1>1, <1>2, <1>3, FS_Injection

\* A kernel without slabs satisfies the invariant.
LEMMA InitInv == Init => IInv
<1> SUFFICES ASSUME Init PROVE IInv
  OBVIOUS
<1>1. TypeOK
  <2>1. link \in [Slabs -> [0 .. MaxObjects -> Pointers]] /\ list \in [Slabs -> Pointers]
    BY DEF Init, Null, Pointers
  <2>2. held \in [Slabs -> SUBSET Nat]
    BY DEF Init
  <2>3. panicked \in BOOLEAN
    BY Zenon DEF Init
  <2>4. QED BY <2>1, <2>2, <2>3 DEF Init, TypeOK
<1>2. FreeListSound /\ HeldInPage /\ OneSlabPerSize
  BY DEF Init, FreeListSound, HeldInPage, OneSlabPerSize, Objects
<1>3. QED BY <1>1, <1>2 DEF IInv

\* The objects of a page, as indices into it.
LEMMA ObjectsType ==
    ASSUME NEW s \in mapped, size[s] \in Sizes
    PROVE  /\ Objects(s) = 0 .. Total(size[s]) - 1
           /\ Objects(s) \subseteq 0 .. MaxObjects
           /\ \A i \in Objects(s) : i \in Nat /\ i <= MaxObjects
<1>1. Total(size[s]) \in Nat /\ Total(size[s]) <= MaxObjects /\ MaxObjects \in Nat
  BY TotalType DEF MaxObjects
<1>2. Objects(s) = 0 .. Total(size[s]) - 1
  BY DEF Objects
<1>3. QED BY <1>1, <1>2

\* A slab whose page, list, links and clients a step leaves alone keeps its walk.
LEMMA WalkKept ==
    ASSUME NEW s \in Slabs, s \in mapped, s \in mapped', size[s]' = size[s], free[s]' = free[s],
           list[s]' = list[s], link[s]' = link[s], held[s]' = held[s],
           NEW c, Walk(s, c)
    PROVE  Walk(s, c)'
BY DEF Walk, Objects

\* FreeListSound of the next state, slab by slab.
LEMMA SoundFromWalks ==
    ASSUME \A s \in mapped' : \E c : Walk(s, c)'
    PROVE  FreeListSound'
BY DEF FreeListSound, Walk

\* SlabPage::allocate takes the first object off the walk.
LEMMA AllocateWalk ==
    ASSUME IInv, NEW t \in Slabs, Allocate(t)
    PROVE  /\ list[t] \in Objects(t) \ held[t]
           /\ \E d : Walk(t, d)'
<1> USE DEF IInv
<1>1. t \in mapped /\ free[t] \in Nat /\ free[t] > 0
  BY DEF Allocate, HasFreeObjects, TypeOK
<1>2. PICK c \in [1 .. free[t] -> Objects(t) \ held[t]] : Walk(t, c)
  BY <1>1 DEF FreeListSound
<1>3. c[1] = list[t] /\ list[t] \in Objects(t) \ held[t]
  BY <1>1, <1>2 DEF Walk
<1> DEFINE n == free[t]
           e == [k \in 1 .. n - 1 |-> c[k + 1]]
<1>4. /\ free'[t] = n - 1 /\ held'[t] = held[t] \cup {c[1]}
      /\ list'[t] = link[t][c[1]] /\ link' = link
      /\ Objects(t)' = Objects(t)
  BY <1>1, <1>3 DEF Allocate, TypeOK, Objects
<1>5. /\ n \in Nat /\ n > 0
      /\ \A j, k \in 1 .. n : c[j] = c[k] => j = k
      /\ \A i \in Objects(t) \ held[t] : \E k \in 1 .. n : c[k] = i
      /\ \A k \in 1 .. n - 1 : link[t][c[k]] = c[k + 1]
      /\ c \in [1 .. n -> Objects(t) \ held[t]]
  BY <1>1, <1>2 DEF Walk
<1> HIDE DEF n
<1>6. e \in [1 .. n - 1 -> Objects(t) \ (held[t] \cup {c[1]})]
  <2> SUFFICES ASSUME NEW k \in 1 .. n - 1
               PROVE  c[k + 1] \in Objects(t) \ (held[t] \cup {c[1]})
    OBVIOUS
  <2>1. k + 1 \in 1 .. n /\ 1 \in 1 .. n /\ k + 1 # 1
    BY <1>5
  <2>2. c[k + 1] \in Objects(t) \ held[t] /\ c[k + 1] # c[1]
    BY <2>1, <1>5
  <2>3. QED BY <2>2
<1>7. \A j, k \in 1 .. n - 1 : e[j] = e[k] => j = k
  BY <1>5
<1>8. \A i \in Objects(t) \ (held[t] \cup {c[1]}) : \E k \in 1 .. n - 1 : e[k] = i
  <2> SUFFICES ASSUME NEW i \in Objects(t) \ (held[t] \cup {c[1]})
               PROVE  \E k \in 1 .. n - 1 : e[k] = i
    OBVIOUS
  <2>1. PICK k \in 1 .. n : c[k] = i
    BY <1>5
  <2>2. k - 1 \in 1 .. n - 1 /\ e[k - 1] = i
    BY <2>1, <1>5
  <2>3. QED BY <2>2
<1>9. n - 1 > 0 => e[1] = link[t][c[1]]
  BY <1>5
<1>10. \A k \in 1 .. n - 1 - 1 : link[t][e[k]] = e[k + 1]
  BY <1>5
<1>d. PICK d : d = e
  OBVIOUS
<1> HIDE DEF e
<1>11. Walk(t, d)'
  <2>1. /\ free'[t] = n - 1 /\ (Objects(t) \ held[t])' = Objects(t) \ (held[t] \cup {c[1]})
        /\ list'[t] = link[t][c[1]] /\ link'[t] = link[t]
    BY <1>4
  <2>2. (d \in [1 .. free[t] -> Objects(t) \ held[t]])'
    BY <1>d, <1>6, <2>1
  <2>3. (\A j, k \in 1 .. free[t] : d[j] = d[k] => j = k)'
    BY <1>d, <1>7, <2>1
  <2>4. (\A i \in Objects(t) \ held[t] : \E k \in 1 .. free[t] : d[k] = i)'
    BY <1>d, <1>8, <2>1
  <2>5. (free[t] > 0 => d[1] = list[t])'
    BY <1>d, <1>9, <2>1
  <2>6. (\A k \in 1 .. free[t] - 1 : link[t][d[k]] = d[k + 1])'
    BY <1>d, <1>10, <2>1
  <2>7. QED BY <2>2, <2>3, <2>4, <2>5, <2>6 DEF Walk
<1>12. QED BY <1>3, <1>11

\* SlabPage::free puts the object in front of the walk.
LEMMA FreeWalk ==
    ASSUME IInv, NEW t \in Slabs, NEW i \in held[t], Free(t, i)
    PROVE  /\ t \in mapped
           /\ \E d : Walk(t, d)'
<1> USE DEF IInv
<1>1. t \in mapped /\ free[t] \in Nat /\ i \in Objects(t) /\ i \in Nat /\ i <= MaxObjects
  <2>1. t \in mapped /\ i \in Objects(t)
    BY DEF HeldInPage, Objects
  <2>2. size[t] \in Sizes /\ free[t] \in Nat
    BY <2>1 DEF TypeOK
  <2>3. QED BY <2>1, <2>2, ObjectsType
<1>2. PICK c \in [1 .. free[t] -> Objects(t) \ held[t]] : Walk(t, c)
  BY <1>1 DEF FreeListSound
<1> DEFINE n == free[t]
           O == Objects(t)
           e == [k \in 1 .. n + 1 |-> IF k = 1 THEN i ELSE c[k - 1]]
<1>3. /\ free'[t] = n + 1 /\ held'[t] = held[t] \ {i}
      /\ list'[t] = i
      /\ Objects(t)' = O
  BY <1>1 DEF Free, TypeOK, Objects
<1>4. /\ link'[t][i] = list[t]
      /\ \A k \in O : k # i => link'[t][k] = link[t][k]
  <2>1. link \in [Slabs -> [0 .. MaxObjects -> Pointers]]
    BY DEF TypeOK
  <2>2. link' = [link EXCEPT ![t] = [link[t] EXCEPT ![i] = list[t]]]
    BY DEF Free
  <2>3. O \subseteq 0 .. MaxObjects
    <3>1. size[t] \in Sizes
      BY <1>1 DEF TypeOK
    <3>2. QED BY <3>1, <1>1, ObjectsType
  <2>4. link'[t] = [link[t] EXCEPT ![i] = list[t]]
    BY <2>1, <2>2
  <2>5. QED BY <1>1, <2>1, <2>3, <2>4
<1>5. /\ n \in Nat
      /\ \A j, k \in 1 .. n : c[j] = c[k] => j = k
      /\ \A x \in O \ held[t] : \E k \in 1 .. n : c[k] = x
      /\ \A k \in 1 .. n - 1 : link[t][c[k]] = c[k + 1]
      /\ c \in [1 .. n -> O \ held[t]]
      /\ n > 0 => c[1] = list[t]
  BY <1>1, <1>2 DEF Walk
<1>5a. i \in O
  BY <1>1
<1> HIDE DEF n, O
<1>6. \A k \in 1 .. n : e[k + 1] = c[k] /\ k + 1 # 1
  BY <1>5
<1>6a. e[1] = i
  BY <1>5
<1>7. e \in [1 .. n + 1 -> O \ (held[t] \ {i})]
  <2> SUFFICES ASSUME NEW k \in 1 .. n + 1
               PROVE  (IF k = 1 THEN i ELSE c[k - 1]) \in O \ (held[t] \ {i})
    OBVIOUS
  <2>1. CASE k = 1
    BY <2>1, <1>5a
  <2>2. CASE k # 1
    <3>1. k - 1 \in 1 .. n
      BY <2>2, <1>5
    <3>2. c[k - 1] \in O \ held[t]
      BY <3>1, <1>5
    <3>3. QED BY <2>2, <3>2
  <2>3. QED BY <2>1, <2>2
<1>8. \A j, k \in 1 .. n + 1 : e[j] = e[k] => j = k
  <2> SUFFICES ASSUME NEW j \in 1 .. n + 1, NEW k \in 1 .. n + 1, e[j] = e[k]
               PROVE  j = k
    OBVIOUS
  <2>0. \A m \in 1 .. n : c[m] # i
    <3>1. \A m \in 1 .. n : c[m] \in O \ held[t]
      BY <1>5
    <3>2. QED BY <3>1
  <2>1. j # 1 => j - 1 \in 1 .. n /\ e[j] = c[j - 1]
    BY <1>5
  <2>2. k # 1 => k - 1 \in 1 .. n /\ e[k] = c[k - 1]
    BY <1>5
  <2> HIDE DEF e
  <2>4. CASE j = 1 \/ k = 1
    BY <2>0, <2>1, <2>2, <2>4, <1>6a
  <2>5. CASE j # 1 /\ k # 1
    <3>1. j - 1 = k - 1
      BY <2>1, <2>2, <2>5, <1>5
    <3>2. QED BY <3>1
  <2>6. QED BY <2>4, <2>5
<1>9. \A x \in O \ (held[t] \ {i}) : \E k \in 1 .. n + 1 : e[k] = x
  <2> SUFFICES ASSUME NEW x \in O \ (held[t] \ {i})
               PROVE  \E k \in 1 .. n + 1 : e[k] = x
    OBVIOUS
  <2> HIDE DEF e
  <2>1. CASE x = i
    BY <2>1, <1>5, <1>6a
  <2>2. CASE x # i
    <3>1. PICK k \in 1 .. n : c[k] = x
      BY <2>2, <1>5
    <3>2. k + 1 \in 1 .. n + 1 /\ e[k + 1] = x
      BY <3>1, <1>5, <1>6
    <3>3. QED BY <3>2
  <2>3. QED BY <2>1, <2>2
<1>10. \A k \in 1 .. n + 1 - 1 : link'[t][e[k]] = e[k + 1]
  <2> SUFFICES ASSUME NEW k \in 1 .. n PROVE link'[t][e[k]] = e[k + 1]
    <3>1. n + 1 - 1 = n
      BY <1>5
    <3>2. QED BY <3>1
  <2>1. e[k + 1] = c[k]
    BY <1>6
  <2>2. CASE k = 1
    BY <2>1, <2>2, <1>4, <1>5, <1>6a
  <2>3. CASE k # 1
    <3>1. k - 1 \in 1 .. n - 1 /\ k - 1 \in 1 .. n /\ k - 1 + 1 = k
      BY <2>3, <1>5
    <3>2. e[k] = c[k - 1] /\ c[k - 1] \in O \ held[t]
      BY <3>1, <1>6, <1>5
    <3>3. link[t][c[k - 1]] = c[k]
      BY <3>1, <1>5
    <3> HIDE DEF e
    <3>4. QED BY <3>2, <3>3, <2>1, <1>4
  <2>4. QED BY <2>2, <2>3
<1>d. PICK d : d = e
  OBVIOUS
<1> HIDE DEF e
<1>11. Walk(t, d)'
  <2>1. /\ free'[t] = n + 1 /\ (Objects(t) \ held[t])' = O \ (held[t] \ {i})
        /\ list'[t] = i
    BY <1>3
  <2>2. n + 1 > 0 => d[1] = i
    BY <1>d, <1>6a
  <2>3. (d \in [1 .. free[t] -> Objects(t) \ held[t]])'
    BY <1>d, <1>7, <2>1
  <2>4. (\A j, k \in 1 .. free[t] : d[j] = d[k] => j = k)'
    BY <1>d, <1>8, <2>1
  <2>5. (\A x \in Objects(t) \ held[t] : \E k \in 1 .. free[t] : d[k] = x)'
    BY <1>d, <1>9, <2>1
  <2>6. (free[t] > 0 => d[1] = list[t])'
    BY <2>1, <2>2, <1>6a
  <2>7. (\A k \in 1 .. free[t] - 1 : link[t][d[k]] = d[k + 1])'
    <3>1. \A k \in 1 .. n + 1 - 1 : link'[t][d[k]] = d[k + 1]
      BY <1>d, <1>10
    <3>2. QED BY <3>1, <2>1, <1>5
  <2>8. QED BY <2>3, <2>4, <2>5, <2>6, <2>7 DEF Walk
<1>12. QED BY <1>1, <1>11

\* SlabPage::initialise links the objects of the page in order.
LEMMA InitialWalk ==
    ASSUME NEW s \in Slabs, NEW z \in Sizes, s \in mapped', size'[s] = z, free'[s] = Total(z),
           list'[s] = 0, link'[s] = InitialLinks(z), held'[s] = {}
    PROVE  \E d : Walk(s, d)'
<1> DEFINE n == Total(z)
           d == [k \in 1 .. n |-> k - 1]
<1>1. n \in Nat /\ n <= MaxObjects /\ MaxObjects \in Nat
  BY TotalType DEF MaxObjects
<1>2. Objects(s)' = 0 .. n - 1
  BY DEF Objects
<1>3. \A k \in 0 .. n - 1 : link'[s][k] = k + 1
  BY <1>1 DEF InitialLinks
<1> HIDE DEF n
<1>4. d \in [1 .. n -> 0 .. n - 1] /\ (\A j, k \in 1 .. n : d[j] = d[k] => j = k)
  BY <1>1
<1>5. \A i \in 0 .. n - 1 : \E k \in 1 .. n : d[k] = i
  <2> SUFFICES ASSUME NEW i \in 0 .. n - 1 PROVE \E k \in 1 .. n : d[k] = i
    OBVIOUS
  <2>1. i + 1 \in 1 .. n /\ d[i + 1] = i
    BY <1>1
  <2>2. QED BY <2>1
<1>6. \A k \in 1 .. n - 1 : link'[s][d[k]] = d[k + 1]
  <2> SUFFICES ASSUME NEW k \in 1 .. n - 1 PROVE link'[s][d[k]] = d[k + 1]
    OBVIOUS
  <2>1. d[k] = k - 1 /\ d[k + 1] = k /\ k - 1 \in 0 .. n - 1
    BY <1>1
  <2>2. QED BY <1>1, <1>3, <2>1
<1>7. n > 0 => d[1] = 0
  BY <1>1
<1>8. free'[s] = n
  BY DEF n
<1>9. Walk(s, d)'
  <2> HIDE DEF d
  <2>1. QED BY <1>1, <1>2, <1>4, <1>5, <1>6, <1>7, <1>8 DEF Walk
<1>10. QED BY <1>9

\* What a client writes into an object it holds is not on the walk.
LEMMA UseWalk ==
    ASSUME IInv, NEW t \in Slabs, NEW i \in held[t], Use(t, i), t \in mapped, NEW c, Walk(t, c)
    PROVE  Walk(t, c)'
<1> USE DEF IInv
<1>1. i \in Nat /\ i <= MaxObjects /\ size[t] \in Sizes
  <2>1. i \in Objects(t) /\ size[t] \in Sizes
    BY DEF HeldInPage, TypeOK
  <2>2. QED BY <2>1, ObjectsType
<1>2. \A k \in Objects(t) \ held[t] : link'[t][k] = link[t][k]
  <2>1. link \in [Slabs -> [0 .. MaxObjects -> Pointers]]
    BY DEF TypeOK
  <2>2. link' = [link EXCEPT ![t] = [link[t] EXCEPT ![i] = UserData]]
    BY DEF Use
  <2>3. \A k \in Objects(t) \ held[t] : k # i /\ k \in 0 .. MaxObjects
    BY <1>1, ObjectsType
  <2>4. QED BY <2>1, <2>2, <2>3
<1>3. \A k \in 1 .. free[t] - 1 : c[k] \in Objects(t) \ held[t]
  BY DEF Walk, TypeOK
<1>4. Objects(t)' = Objects(t)
  BY DEF Use, Objects
<1>5. QED BY <1>2, <1>3, <1>4 DEF Walk, Use

-----------------------------------------------------------------------------
(* Every step preserves the invariant.                                     *)

\* Each step keeps the invariant: the search for a slab of an object size,
LEMMA FindSlabInv ==
    ASSUME IInv, NEW z \in Sizes, FindSlab(z)
    PROVE  IInv'
<1> DEFINE S == {s \in Slabs : IsSlabFor(s, z)}
<1>1. S \subseteq Slabs /\ S # {} /\ handles' = handles \cup {FirstSuch(S)}
  BY DEF FindSlab
<1> HIDE DEF S
<1>2. FirstSuch(S) \in Slabs
  BY <1>1, FirstSuchIn
<1>3. UNCHANGED <<initialised, size, mapped, free, list, link, pages, held, panicked>>
  BY DEF FindSlab
<1>4. handles' \subseteq Slabs
  BY <1>1, <1>2 DEF IInv, TypeOK
<1>5. TypeOK'
  BY <1>3, <1>4 DEF IInv, TypeOK
<1>6. FreeListSound' /\ HeldInPage' /\ OneSlabPerSize'
  BY <1>3 DEF IInv, FreeListSound, HeldInPage, OneSlabPerSize, Walk, Objects
<1>7. QED BY <1>5, <1>6 DEF IInv

\* the creation of a slab,
LEMMA CreateSlabInv ==
    ASSUME IInv, NEW z \in Sizes, CreateSlab(z)
    PROVE  IInv'
<1> DEFINE U == Slabs \ initialised
           s == FirstSuch(U)
<1>1. U \subseteq Slabs /\ U # {} /\ (\A t \in Slabs : ~IsSlabFor(t, z))
  BY DEF CreateSlab
<1>2. /\ initialised' = initialised \cup {s} /\ size' = [size EXCEPT ![s] = z]
      /\ held' = held /\ panicked' = panicked
      /\ \/ /\ pages > 0 /\ pages' = pages - 1 /\ mapped' = mapped \cup {s}
            /\ free' = [free EXCEPT ![s] = Total(z)] /\ list' = [list EXCEPT ![s] = 0]
            /\ link' = [link EXCEPT ![s] = InitialLinks(z)] /\ handles' = handles \cup {s}
         \/ UNCHANGED <<mapped, free, list, link, pages, handles>>
  BY DEF CreateSlab
<1>3. s \in U
  <2> HIDE DEF U
  <2>1. QED BY <1>1, FirstSuchIn
<1>4. s \in Slabs /\ s \notin initialised
  BY <1>3
<1> HIDE DEF s, U
<1>5. s \notin mapped /\ held[s] = {}
  BY <1>4 DEF IInv, TypeOK, HeldInPage, Objects
<1>6. Total(z) \in Nat /\ Total(z) <= MaxObjects
  BY TotalType
<1>7. InitialLinks(z) \in [0 .. MaxObjects -> Pointers]
  BY <1>6 DEF InitialLinks, Pointers, Null
<1>8. \A t \in mapped : t # s /\ t \in Slabs /\ size'[t] = size[t]
  BY <1>2, <1>4, <1>5 DEF IInv, TypeOK
<1>9. TypeOK'
  <2>1. /\ initialised' \subseteq Slabs /\ mapped' \subseteq initialised'
        /\ size' \in [Slabs -> Sizes \cup {0}]
    BY <1>2, <1>4 DEF IInv, TypeOK
  <2>2. free' \in [Slabs -> Nat] /\ list' \in [Slabs -> Pointers]
    <3>1. free' = free \/ free' = [free EXCEPT ![s] = Total(z)]
      BY <1>2
    <3>2. list' = list \/ list' = [list EXCEPT ![s] = 0]
      BY <1>2
    <3>3. free' \in [Slabs -> Nat]
      BY <1>4, <1>6, <3>1 DEF IInv, TypeOK
    <3>4. list' \in [Slabs -> Pointers]
      BY <1>4, <3>2 DEF IInv, TypeOK, Pointers
    <3>5. QED BY <3>3, <3>4
  <2>3. link' \in [Slabs -> [0 .. MaxObjects -> Pointers]]
    BY <1>2, <1>4, <1>7 DEF IInv, TypeOK
  <2>4. pages' \in 0 .. HeapPages /\ handles' \subseteq Slabs /\ held' \in [Slabs -> SUBSET Nat]
    BY <1>2, <1>4 DEF IInv, TypeOK
  <2>5. panicked' \in BOOLEAN
    BY <1>2, Zenon DEF IInv, TypeOK
  <2>6. \A t \in mapped' : size'[t] \in Sizes /\ free'[t] <= Total(size'[t])
    BY <1>2, <1>4, <1>6, <1>8 DEF IInv, TypeOK
  <2>7. QED BY <2>1, <2>2, <2>3, <2>4, <2>5, <2>6 DEF TypeOK
<1>10. FreeListSound'
  <2> SUFFICES ASSUME NEW t \in mapped' PROVE \E c : Walk(t, c)'
    BY SoundFromWalks
  <2>1. CASE t \in mapped
    <3>1. PICK c : Walk(t, c)
      BY <2>1 DEF IInv, FreeListSound
    <3>2. /\ size[t]' = size[t] /\ free[t]' = free[t] /\ list[t]' = list[t]
          /\ link[t]' = link[t] /\ held[t]' = held[t] /\ t \in Slabs
      BY <2>1, <1>2, <1>4, <1>8 DEF IInv, TypeOK
    <3>3. QED BY <2>1, <3>1, <3>2, WalkKept
  <2>2. CASE t \notin mapped
    <3>1. t = s
      BY <2>2, <1>2
    <3>2. /\ t \in Slabs /\ size'[t] = z /\ free'[t] = Total(z) /\ list'[t] = 0
          /\ link'[t] = InitialLinks(z) /\ held'[t] = {}
      BY <2>2, <3>1, <1>2, <1>4, <1>5 DEF IInv, TypeOK
    <3>3. QED BY <3>2, InitialWalk
  <2>3. QED BY <2>1, <2>2
<1>11. HeldInPage'
  <2> SUFFICES ASSUME NEW t \in Slabs PROVE (held[t] \subseteq Objects(t))'
    BY DEF HeldInPage
  <2>1. CASE t \in mapped
    BY <2>1, <1>2, <1>8 DEF IInv, HeldInPage, Objects
  <2>2. CASE t \notin mapped
    BY <2>2, <1>2 DEF IInv, HeldInPage, Objects
  <2>3. QED BY <2>1, <2>2
<1>12. OneSlabPerSize'
  <2>1. \A t \in initialised : t # s /\ size'[t] = size[t] /\ size[t] # z
    BY <1>1, <1>2, <1>4 DEF IInv, TypeOK, IsSlabFor
  <2>2. size'[s] = z
    BY <1>2, <1>4 DEF IInv, TypeOK
  <2>3. QED BY <1>2, <2>1, <2>2 DEF IInv, OneSlabPerSize
<1>13. QED BY <1>9, <1>10, <1>11, <1>12 DEF IInv

\* The part of the argument that Allocate, Use and Free share: only slab t
\* changes, and its walk does not leave the page.
LEMMA SlabStepInv ==
    ASSUME IInv, NEW t \in mapped,
           UNCHANGED <<initialised, size, mapped, pages, handles>>,
           panicked' \in BOOLEAN,
           free' \in [Slabs -> Nat], list' \in [Slabs -> Pointers],
           link' \in [Slabs -> [0 .. MaxObjects -> Pointers]],
           held' \in [Slabs -> SUBSET Nat],
           \A s \in Slabs \ {t} : /\ free'[s] = free[s] /\ list'[s] = list[s]
                                  /\ link'[s] = link[s] /\ held'[s] = held[s],
           held'[t] \subseteq Objects(t),
           \E d : Walk(t, d)'
    PROVE  IInv'
<1>1. \A s \in mapped : s \in Slabs /\ size[s] \in Sizes
  BY DEF IInv, TypeOK
<1>2. FreeListSound'
  <2> SUFFICES ASSUME NEW s \in mapped' PROVE \E c : Walk(s, c)'
    BY SoundFromWalks
  <2>1. CASE s = t
    BY <2>1
  <2>2. CASE s # t
    <3>1. s \in Slabs /\ s \in mapped
      BY <1>1
    <3>2. PICK c : Walk(s, c)
      BY <3>1 DEF IInv, FreeListSound
    <3>3. /\ size[s]' = size[s] /\ free[s]' = free[s] /\ list[s]' = list[s]
          /\ link[s]' = link[s] /\ held[s]' = held[s]
      BY <2>2, <3>1
    <3>4. QED BY <3>1, <3>2, <3>3, WalkKept
  <2>3. QED BY <2>1, <2>2
<1>3. \A s \in mapped : free'[s] <= Total(size[s])
  <2> SUFFICES ASSUME NEW s \in mapped PROVE free'[s] <= Total(size[s])
    OBVIOUS
  <2>1. PICK c : Walk(s, c)'
    BY <1>2 DEF FreeListSound
  <2>2. Objects(s)' = 0 .. Total(size[s]) - 1
    BY DEF Objects
  <2>3. free'[s] \in Nat /\ Total(size[s]) \in Nat
    BY <1>1, TotalType
  <2>4. /\ c \in [1 .. free'[s] -> 0 .. Total(size[s]) - 1]
        /\ \A j, k \in 1 .. free'[s] : c[j] = c[k] => j = k
    BY <2>1, <2>2 DEF Walk
  <2>5. QED BY <2>3, <2>4, WalkBound
<1>4. TypeOK'
  <2>1. \A s \in mapped' : size'[s] \in Sizes /\ free'[s] <= Total(size'[s])
    BY <1>1, <1>3
  <2>2. QED BY <2>1 DEF IInv, TypeOK
<1>5. HeldInPage'
  BY DEF IInv, HeldInPage, Objects
<1>6. OneSlabPerSize'
  BY DEF IInv, OneSlabPerSize
<1>7. QED BY <1>2, <1>4, <1>5, <1>6 DEF IInv

\* the allocation from it,
LEMMA AllocateInv ==
    ASSUME IInv, NEW t \in Slabs, Allocate(t)
    PROVE  IInv'
<1>1. t \in mapped /\ size[t] \in Sizes
  BY DEF Allocate, IInv, TypeOK
<1>2. list[t] \in Objects(t) \ held[t] /\ \E d : Walk(t, d)'
  BY AllocateWalk
<1>3. list[t] \in 0 .. MaxObjects /\ free[t] \in Nat /\ free[t] > 0
  BY <1>1, <1>2, ObjectsType DEF Allocate, HasFreeObjects, IInv, TypeOK
<1>4. held[t] \subseteq Objects(t)
  BY DEF IInv, HeldInPage
<1>5. /\ UNCHANGED <<initialised, size, mapped, pages, handles>>
      /\ free' \in [Slabs -> Nat] /\ list' \in [Slabs -> Pointers]
      /\ link' \in [Slabs -> [0 .. MaxObjects -> Pointers]]
      /\ held' \in [Slabs -> SUBSET Nat]
  <2>1. list[t] \in Nat /\ link[t][list[t]] \in Pointers /\ free[t] - 1 \in Nat
    BY <1>3 DEF IInv, TypeOK, MaxObjects
  <2>2. free' \in [Slabs -> Nat] /\ list' \in [Slabs -> Pointers]
    BY <2>1 DEF Allocate, IInv, TypeOK
  <2>3. held' \in [Slabs -> SUBSET Nat]
    BY <2>1 DEF Allocate, IInv, TypeOK
  <2>4. QED BY <2>2, <2>3 DEF Allocate, IInv, TypeOK
<1>6. /\ \A s \in Slabs \ {t} : /\ free'[s] = free[s] /\ list'[s] = list[s]
                                /\ link'[s] = link[s] /\ held'[s] = held[s]
      /\ held'[t] \subseteq Objects(t)
  BY <1>2, <1>4 DEF Allocate, IInv, TypeOK
<1>7. panicked' \in BOOLEAN
  BY Zenon DEF Allocate, IInv, TypeOK
<1>8. QED BY <1>1, <1>2, <1>5, <1>6, <1>7, SlabStepInv

\* the use of an object by its owner,
LEMMA UseInv ==
    ASSUME IInv, NEW t \in Slabs, NEW i \in held[t], Use(t, i)
    PROVE  IInv'
<1>1. t \in mapped /\ i \in Objects(t)
  BY DEF IInv, HeldInPage, Objects
<1>2. size[t] \in Sizes
  BY <1>1 DEF IInv, TypeOK
<1>3. i \in 0 .. MaxObjects
  BY <1>1, <1>2, ObjectsType
<1>4. PICK c : Walk(t, c)
  BY <1>1 DEF IInv, FreeListSound
<1>5. Walk(t, c)'
  BY <1>1, <1>4, UseWalk
<1>6. link' = [link EXCEPT ![t] = [link[t] EXCEPT ![i] = UserData]]
  BY DEF Use
<1>7. UNCHANGED <<initialised, size, mapped, free, list, pages, handles, held, panicked>>
  BY DEF Use
<1>8. /\ link' \in [Slabs -> [0 .. MaxObjects -> Pointers]]
      /\ \A s \in Slabs \ {t} : link'[s] = link[s]
  <2>1. link[t] \in [0 .. MaxObjects -> Pointers] /\ UserData \in Pointers
    BY DEF IInv, TypeOK, Pointers, UserData
  <2>2. [link[t] EXCEPT ![i] = UserData] \in [0 .. MaxObjects -> Pointers]
    BY <2>1
  <2>3. QED BY <1>6, <2>2 DEF IInv, TypeOK
<1>9. panicked' \in BOOLEAN
  BY <1>7, Zenon DEF IInv, TypeOK
<1>10. QED BY <1>1, <1>5, <1>7, <1>8, <1>9, SlabStepInv DEF IInv, TypeOK, HeldInPage

\* and the free.
LEMMA FreeInv ==
    ASSUME IInv, NEW t \in Slabs, NEW i \in held[t], Free(t, i)
    PROVE  IInv'
<1>1. t \in mapped /\ i \in Objects(t)
  BY DEF IInv, HeldInPage, Objects
<1>2. size[t] \in Sizes
  BY <1>1 DEF IInv, TypeOK
<1>3. i \in 0 .. MaxObjects /\ i \in Pointers
  BY <1>1, <1>2, ObjectsType DEF Pointers
<1>4. \E d : Walk(t, d)'
  BY FreeWalk
<1>5. /\ link' = [link EXCEPT ![t] = [link[t] EXCEPT ![i] = list[t]]]
      /\ UNCHANGED <<initialised, size, mapped, pages, handles, panicked>>
  BY DEF Free
<1>6. /\ link' \in [Slabs -> [0 .. MaxObjects -> Pointers]]
      /\ \A s \in Slabs \ {t} : link'[s] = link[s]
  <2>1. link[t] \in [0 .. MaxObjects -> Pointers] /\ list[t] \in Pointers
    BY DEF IInv, TypeOK
  <2>2. [link[t] EXCEPT ![i] = list[t]] \in [0 .. MaxObjects -> Pointers]
    BY <2>1
  <2>3. QED BY <1>5, <2>2 DEF IInv, TypeOK
<1>7. /\ free' \in [Slabs -> Nat] /\ list' \in [Slabs -> Pointers]
      /\ held' \in [Slabs -> SUBSET Nat]
      /\ \A s \in Slabs \ {t} : /\ free'[s] = free[s] /\ list'[s] = list[s]
                                /\ held'[s] = held[s]
      /\ held'[t] \subseteq held[t]
  BY <1>3 DEF Free, IInv, TypeOK
<1>8. panicked' \in BOOLEAN
  BY <1>5, Zenon DEF IInv, TypeOK
<1>9. held'[t] \subseteq Objects(t)
  BY <1>7 DEF IInv, HeldInPage
<1>10. QED BY <1>1, <1>4, <1>5, <1>6, <1>7, <1>8, <1>9, SlabStepInv

\* Steps that change neither slabs nor pages nor clients.
LEMMA IdleInv ==
    ASSUME IInv, panicked' \in BOOLEAN,
           UNCHANGED <<initialised, size, mapped, free, list, link, pages, handles, held>>
    PROVE  IInv'
<1>1. TypeOK'
  BY DEF IInv, TypeOK
<1>2. FreeListSound' /\ HeldInPage' /\ OneSlabPerSize'
  BY DEF IInv, FreeListSound, HeldInPage, OneSlabPerSize, Walk, Objects
<1>3. QED BY <1>1, <1>2 DEF IInv

\* Together: every step does.
LEMMA StepInv == IInv /\ [Next]_vars => IInv'
<1> SUFFICES ASSUME IInv, [Next]_vars PROVE IInv'
  OBVIOUS
<1>1. CASE UNCHANGED vars
  <2>1. panicked' \in BOOLEAN
    BY <1>1, Zenon DEF vars, IInv, TypeOK
  <2>2. QED BY <1>1, <2>1, IdleInv DEF vars
<1>2. ASSUME NEW z \in Sizes, FindSlab(z) PROVE IInv'
  BY <1>2, FindSlabInv
<1>3. ASSUME NEW z \in Sizes, CreateSlab(z) PROVE IInv'
  BY <1>3, CreateSlabInv
<1>4. ASSUME NEW s \in Slabs, Allocate(s) PROVE IInv'
  BY <1>4, AllocateInv
<1>5. ASSUME NEW s \in Slabs, AllocatePanic(s) PROVE IInv'
  <2>1. panicked' \in BOOLEAN
    BY <1>5, Zenon DEF AllocatePanic
  <2>2. QED BY <1>5, <2>1, IdleInv DEF AllocatePanic
<1>6. ASSUME NEW s \in Slabs, NEW i \in held[s], Use(s, i) PROVE IInv'
  BY <1>6, UseInv
<1>7. ASSUME NEW s \in Slabs, NEW i \in held[s], Free(s, i) PROVE IInv'
  BY <1>7, FreeInv
<1>8. CASE Halted
  BY <1>1, <1>8 DEF Halted
<1>9. QED BY <1>1, <1>2, <1>3, <1>4, <1>5, <1>6, <1>7, <1>8 DEF Next

-----------------------------------------------------------------------------
(* Theorems.                                                               *)

\* The invariant holds in every reachable state.
LEMMA Invariance == Spec => []IInv
<1>1. QED BY InitInv, StepInv, PTL DEF Spec

\* For every page and object size, the slab table, the counters (never more
\* free objects than SlabPage::initialise counted) and the links keep their
\* types.
THEOREM TypeCorrect == Spec => []TypeOK
<1>1. IInv => TypeOK
  BY DEF IInv
<1>2. QED BY <1>1, Invariance, PTL

\* The free list of every page links exactly the objects nobody holds, each
\* once, although its last link points past the page and clients overwrite
\* the links of what they hold.
THEOREM FreeListCorrect == Spec => []FreeListSound
<1>1. IInv => FreeListSound
  BY DEF IInv
<1>2. QED BY <1>1, Invariance, PTL

\* Slab::allocate hands out an object of the page that no client has.
THEOREM GrantsAreFree == Spec => []NextGrantIsFree
<1>1. IInv => NextGrantIsFree
  <2> SUFFICES ASSUME IInv, NEW s \in mapped, HasFreeObjects(s)
               PROVE  list[s] \in Objects(s) \ held[s]
    BY DEF NextGrantIsFree
  <2>1. PICK c \in [1 .. free[s] -> Objects(s) \ held[s]] : Walk(s, c)
    BY DEF IInv, FreeListSound
  <2>2. free[s] \in Nat /\ free[s] > 0
    BY DEF IInv, TypeOK, HasFreeObjects
  <2>3. 1 \in 1 .. free[s] /\ c[1] = list[s]
    BY <2>1, <2>2 DEF Walk
  <2>4. QED BY <2>1, <2>3
<1>2. QED BY <1>1, Invariance, PTL

\* Slab::allocate refuses exactly when clients hold every object of the page.
THEOREM HonestRefusal == Spec => []RefusedOnlyWhenFull
<1>1. IInv => RefusedOnlyWhenFull
  <2> SUFFICES ASSUME IInv, NEW s \in mapped, s \in Slabs
               PROVE  free[s] = 0 <=> held[s] = Objects(s)
    BY DEF IInv, HeldInPage, RefusedOnlyWhenFull
  <2>1. PICK c \in [1 .. free[s] -> Objects(s) \ held[s]] : Walk(s, c)
    BY DEF IInv, FreeListSound
  <2>2. free[s] \in Nat /\ held[s] \subseteq Objects(s)
    BY DEF IInv, TypeOK, HeldInPage
  <2>3. ASSUME free[s] = 0 PROVE held[s] = Objects(s)
    <3>1. \A i \in Objects(s) \ held[s] : \E k \in 1 .. 0 : c[k] = i
      BY <2>1, <2>3 DEF Walk
    <3>2. \A k \in 1 .. 0 : FALSE
      OBVIOUS
    <3>3. \A i \in Objects(s) : i \in held[s]
      BY <3>1, <3>2
    <3>4. QED BY <2>2, <3>3
  <2>4. ASSUME held[s] = Objects(s) PROVE free[s] = 0
    <3>1. free[s] # 0 => 1 \in 1 .. free[s]
      BY <2>2
    <3>2. QED BY <2>1, <2>4, <3>1
  <2>5. QED BY <2>3, <2>4
<1>2. QED BY <1>1, Invariance, PTL

\* There is at most one slab per object size.
THEOREM SlabsUnique == Spec => []OneSlabPerSize
<1>1. IInv => OneSlabPerSize
  BY DEF IInv
<1>2. QED BY <1>1, Invariance, PTL

\* What SlabAllocator's clients rely on, in one statement: whatever they write
\* into their objects, the list that allocate and free keep inside the page
\* links the objects nobody holds, and the next grant is one of them.
THEOREM ObjectsCorrect == Spec => []ObjectsSound
BY TypeCorrect, FreeListCorrect, GrantsAreFree, PTL DEF ObjectsSound

HIDE SlabAssumption

-----------------------------------------------------------------------------
(* The scan of the PCI bus.                                                *)

Busy == {"call", "slab", "allocate", "append"}
InCall == Busy \cup {"boot", "loop", "overflow"}
CallFrames == [fn : 0 .. Fns - 1, next : 1 .. Fns]
Room == Total(DevSize)

-----------------------------------------------------------------------------
(* The inductive invariant.                                                *)

\* Function f of the device being read goes through the loop.
Calling(f) == Present(bus[<<dev, f>>]) /\ IsMulti(bus[<<dev, f>>])

\* Every frame but the last is in its loop.
Stack ==
    /\ calls \in Seq(CallFrames) /\ Len(calls) <= MaxDepth
    /\ pc \in InCall =>
        /\ dev \in 0 .. Devs - 1 /\ Len(calls) >= 1 /\ calls[1].fn = 0
        /\ \A k \in 2 .. Len(calls) : calls[k].fn >= 1 /\ Calling(calls[k - 1].fn)
    /\ pc \in {"slab", "allocate", "append"} => Present(Here)
    /\ pc \in {"loop", "overflow"} => Calling(Frame.fn)
    /\ pc = "overflow" => Len(calls) = MaxDepth
    /\ pc = "next" => dev \in 0 .. Devs - 1
    /\ pc = "find" => dev = Devs

Count == Len(devices.items)

\* Entries are the objects of the page in order, then null pointers.
EntriesInOrder ==
    /\ devices \in [items : Seq(Int), capacity : Nat \ {0}] /\ Count <= devices.capacity
    /\ \A k \in 1 .. Count : devices.items[k] = IF mapped # {} /\ k <= Room THEN k - 1 ELSE Null

\* Objects that the slab has given.
Given == IF Count >= Room THEN Room ELSE IF pc = "append" THEN Count + 1 ELSE Count

\* Device::operator new has not been called, has a page, or could not get one.
Unused ==
    /\ initialised = {} /\ mapped = {} /\ handles = {} /\ ~panicked
    /\ pc \notin {"allocate", "append"} /\ Count = 0
Serving ==
    /\ initialised = {1} /\ mapped = {1} /\ handles = {1} /\ ~panicked /\ size[1] = DevSize
    /\ list[1] = Given /\ free[1] = Room - Given
    /\ link[1] = InitialLinks(DevSize) /\ held[1] = 0 .. Given - 1
    /\ pc = "append" => fresh = IF Count < Room THEN Count ELSE Null
Starved ==
    /\ initialised = {1} /\ mapped = {} /\ pages = 0 /\ size[1] = DevSize
    /\ Count = IF pc = "append" THEN 0 ELSE 1
    /\ pc = "append" => fresh = Null
    /\ panicked => pc = "stopped"

\* The constructor's writes, and the object to be listed next.
Described ==
    /\ content \in [0 .. MaxObjects -> Int \X Int]
    /\ (pc = "append" /\ fresh # Null) => content[fresh] = <<dev, Frame.fn>>

NestedAt(p) == Reachable(p) /\ p[2] > 0 /\ IsMulti(bus[p])

\* The list is the one for the first n places, and these have been left.
Matched(n) ==
    /\ n \in 0 .. Devs * Fns /\ Count = Len(Listed[n])
    /\ \A k \in 1 .. Count : (mapped # {} /\ k <= Room) => content[k - 1] = Listed[n][k]
    /\ \A j \in 1 .. n : ~NestedAt(InOrder[j])

\* A frame that has yet to call its own function again.
Trapped ==
    \E k \in 2 .. Len(calls) : Calling(calls[k].fn) /\ calls[k].next <= calls[k].fn

\* Where the scan is.
AtDevice == pc \in Busy \cup {"boot"} /\ Len(calls) = 1 /\ calls[1].next = 1 /\ Matched(dev * Fns)
AtFunction ==
    /\ pc \in Busy /\ Len(calls) = 2 /\ calls[2].next = 1 /\ calls[1].next = calls[2].fn + 1
    /\ Matched(dev * Fns + calls[2].fn)
AtLoop == pc = "loop" /\ Len(calls) = 1 /\ Matched(dev * Fns + calls[1].next)
AtNext == pc = "next" /\ Matched(dev * Fns + Fns)
AtEnd == pc \in {"find", "stopped"} /\ Matched(Devs * Fns)
Lost == pc \in Busy \cup {"loop"} /\ Trapped
Position == AtDevice \/ AtFunction \/ AtLoop \/ AtNext \/ AtEnd \/ Lost \/ panicked \/ pc = "overflow"

PciInv ==
    /\ IInv /\ bus \in [Places -> Kinds] /\ dev \in 0 .. Devs
    /\ pc \in InCall \cup {"next", "find", "stopped"}
    /\ Stack /\ EntriesInOrder /\ Described /\ (Unused \/ Serving \/ Starved)
    /\ Position /\ DriverRight

-----------------------------------------------------------------------------
(* Numbers.                                                                *)

\* A set with 0 and with the successor of each of its numbers has them all.
LEMMA Induct ==
    ASSUME NEW S, 0 \in S, \A n \in Nat : n \in S => n + 1 \in S
    PROVE  \A n \in Nat : n \in S
<1> SUFFICES ASSUME NEW k \in Nat, k \notin S PROVE FALSE
  OBVIOUS
<1> DEFINE R == OpToRel(<, Nat)
           T == {n \in Nat : n \notin S}
<1>1. IsWellFoundedOn(R, Nat)
  BY NatLessThanWellFounded, Zenon
<1>2. \A i, j \in Nat : i < j => <<i, j>> \in R
  BY DEF OpToRel
<1> HIDE DEF R
<1>3. PICK n \in T : \A m \in T : ~ (<<m, n>> \in R)
  BY <1>1, WFMin
<1>4. n \in Nat /\ n # 0 /\ n - 1 \in Nat /\ n - 1 < n /\ (n - 1) + 1 = n
  OBVIOUS
<1>5. n - 1 \in S
  BY <1>2, <1>3, <1>4
<1>6. QED BY <1>4, <1>5

LEMMA Numbers ==
    /\ Devs \in Nat /\ Devs >= 1 /\ Fns \in Nat /\ Fns >= 1
    /\ InitialCapacity \in Nat \ {0} /\ MaxDepth \in Nat /\ MaxDepth > 2
    /\ MaxObjects \in Nat /\ Room \in Nat /\ Room >= 1 /\ Room <= MaxObjects
<1>1. DevSize \in Sizes /\ DevSize \in Nat /\ DevSize >= 1 /\ DevSize < PageSize - HeaderSize
  BY PciAssumption, SlabAssumption
<1>2. Room \in Nat /\ Room <= MaxObjects /\ MaxObjects \in Nat
  BY <1>1, TotalType, SlabAssumption DEF Room, MaxObjects
<1>3. Room >= 1
  <2> DEFINE r == PageSize - HeaderSize
             q == r \div DevSize
  <2>1. r \in Nat /\ r > DevSize
    BY <1>1, SlabAssumption
  <2> HIDE DEF r
  <2>2. q \in Nat /\ r < DevSize * q + DevSize
    BY <1>1, <2>1, Z3
  <2>3. q # 0
    <3> SUFFICES ASSUME q = 0 PROVE FALSE
      OBVIOUS
    <3>1. DevSize * q = 0
      BY <1>1
    <3> HIDE DEF q
    <3>2. QED BY <1>1, <2>1, <2>2, <3>1
  <2>4. Room = q
    BY DEF Room, Total, r
  <2> HIDE DEF q
  <2>5. QED BY <2>2, <2>3, <2>4
<1>4. QED BY <1>2, <1>3, PciAssumption

\* The places come device by device.
LEMMA Index ==
    ASSUME NEW d \in 0 .. Devs - 1, NEW f \in 0 .. Fns - 1
    PROVE  /\ d * Fns + f \in Nat /\ d * Fns + Fns <= Devs * Fns
           /\ d * Fns + f + 1 \in 1 .. Devs * Fns
           /\ InOrder[d * Fns + f + 1] = <<d, f>>
<1> DEFINE x == d * Fns
           N == Devs * Fns
           v == x + f
           p == v \div Fns
           s == v % Fns
<1>1. x \in Nat /\ N \in Nat /\ x + Fns <= N
  <2>1. d + 1 <= Devs /\ d \in Nat
    BY Numbers
  <2>2. (d + 1) * Fns <= Devs * Fns
    BY <2>1, Numbers, Z3
  <2>3. (d + 1) * Fns = d * Fns + Fns /\ d * Fns \in Nat /\ Devs * Fns \in Nat
    BY <2>1, Numbers, Z3
  <2>4. QED BY <2>2, <2>3
<1>2. x = Fns * d
  BY Numbers, Z3
<1> HIDE DEF x, N
<1>3. v \in Nat /\ v + 1 \in 1 .. N
  BY <1>1, Numbers
<1>4. InOrder[v + 1] = <<p, s>>
  <2>1. (v + 1) - 1 = v
    BY <1>3
  <2> HIDE DEF v
  <2>2. QED BY <1>3, <2>1 DEF InOrder, N
<1>5. v = Fns * d + f
  BY <1>2
<1> HIDE DEF v
<1>6. p \in Int /\ s \in 0 .. Fns - 1 /\ v = Fns * p + s
  BY <1>3, Numbers, Z3
<1> HIDE DEF p, s
<1>7. ASSUME d > p PROVE FALSE
  <2>1. Fns * d >= Fns * p + Fns
    <3>1. d >= p + 1
      BY <1>6, <1>7
    <3>2. QED BY <1>6, <3>1, Numbers, Z3
  <2>2. QED BY <1>5, <1>6, <2>1, Numbers, Z3
<1>8. ASSUME d < p PROVE FALSE
  <2>1. Fns * p >= Fns * d + Fns
    <3>1. p >= d + 1
      BY <1>6, <1>8
    <3>2. QED BY <1>6, <3>1, Numbers, Z3
  <2>2. QED BY <1>5, <1>6, <2>1, Numbers, Z3
<1>9. p = d
  BY <1>6, <1>7, <1>8
<1>10. s = f
  BY <1>5, <1>6, <1>9, Numbers, Z3
<1>11. QED BY <1>1, <1>3, <1>4, <1>9, <1>10 DEF v, x, N

\* A member of InOrder is a place.
LEMMA InOrderPlaces ==
    Devs * Fns \in Nat /\ \A n \in 1 .. Devs * Fns : InOrder[n] \in Places
<1>1. Devs * Fns \in Nat
  BY Numbers, Z3
<1> DEFINE N == Devs * Fns
<1>2. ASSUME NEW n \in 1 .. N PROVE InOrder[n] \in Places
  <2> DEFINE v == n - 1
             p == v \div Fns
             s == v % Fns
  <2>1. v \in Nat /\ v < N
    BY <1>1
  <2>2. InOrder[n] = <<p, s>>
    BY DEF InOrder
  <2> HIDE DEF v
  <2>3. p \in Nat /\ s \in 0 .. Fns - 1 /\ v = Fns * p + s
    BY <2>1, Numbers, Z3
  <2> HIDE DEF p, s
  <2>4. p < Devs
    <3> SUFFICES ASSUME p >= Devs PROVE FALSE
      BY <2>3, Numbers
    <3>1. Fns * p >= Fns * Devs
      BY <2>3, Numbers, Z3
    <3>2. Fns * Devs = Devs * Fns
      BY Numbers, Z3
    <3>3. Fns * p \in Nat
      BY <2>3, Numbers, Z3
    <3> DEFINE y == Fns * p
               z == Fns * Devs
    <3>4. y >= z /\ z = N /\ y \in Nat /\ v = y + s /\ N \in Nat
      BY <1>1, <2>3, <3>1, <3>2, <3>3
    <3> HIDE DEF y, z, N
    <3>5. QED BY <2>1, <2>3, <3>4
  <2>5. QED BY <2>2, <2>3, <2>4, Numbers DEF Places
<1>3. QED BY <1>1, <1>2

-----------------------------------------------------------------------------
(* The list that a scan should make.                                       *)

ListStep(g, n) ==
    IF n = 0 THEN <<>>
    ELSE IF Reachable(InOrder[n]) THEN Append(g[n - 1], InOrder[n]) ELSE g[n - 1]
IsListing(g, N) == g = [n \in 0 .. N |-> ListStep(g, n)]

\* The definition of Listed has a solution.
LEMMA ListingExists ==
    ASSUME NEW N \in Nat
    PROVE  \E g : IsListing(g, N)
<1> DEFINE T == {k \in Nat : \E g : IsListing(g, k)}
<1>1. 0 \in T
  <2> DEFINE g == [i \in 0 .. 0 |-> <<>>]
  <2>1. g = [i \in 0 .. 0 |-> ListStep(g, i)]
    BY DEF ListStep
  <2>2. IsListing(g, 0)
    BY <2>1 DEF IsListing
  <2>3. QED BY <2>2
<1>2. ASSUME NEW k \in Nat, k \in T PROVE k + 1 \in T
  <2>1. PICK g : IsListing(g, k)
    BY <1>2
  <2> DEFINE e == [i \in 0 .. k + 1 |-> IF i = k + 1 THEN ListStep(g, k + 1) ELSE g[i]]
  <2>2. \A i \in 0 .. k : e[i] = g[i]
    BY <1>2
  <2>3. \A i \in 0 .. k : g[i] = ListStep(g, i)
    BY <2>1 DEF IsListing
  <2>4. ASSUME NEW i \in 0 .. k + 1 PROVE e[i] = ListStep(e, i)
    <3>1. e[i] = IF i = k + 1 THEN ListStep(g, k + 1) ELSE g[i]
      OBVIOUS
    <3> HIDE DEF e
    <3>2. i = 0 \/ (i - 1 \in 0 .. k /\ i # 0)
      BY <1>2
    <3>3. ListStep(e, i) = ListStep(g, i)
      BY <2>2, <3>2 DEF ListStep
    <3>4. i = k + 1 \/ i \in 0 .. k
      BY <1>2
    <3>5. QED BY <2>3, <3>1, <3>3, <3>4
  <2>5. IsListing(e, k + 1)
    <3>1. e = [i \in 0 .. k + 1 |-> e[i]]
      OBVIOUS
    <3> HIDE DEF e
    <3>2. QED BY <2>4, <3>1 DEF IsListing
  <2>6. QED BY <2>5
<1> HIDE DEF T
<1>3. N \in T
  BY <1>1, <1>2, Induct
<1>4. QED BY <1>3 DEF T

\* What Listed computes.
LEMMA ListedIs == \A n \in 0 .. Devs * Fns : Listed[n] = ListStep(Listed, n)
<1> DEFINE N == Devs * Fns
<1>1. N \in Nat
  BY InOrderPlaces
<1>2. Listed = CHOOSE g : g = [n \in 0 .. N |->
            IF n = 0 THEN <<>>
            ELSE IF Reachable(InOrder[n]) THEN Append(g[n - 1], InOrder[n]) ELSE g[n - 1]]
  BY DEF Listed
<1> HIDE DEF N
<1>3. \E g : g = [n \in 0 .. N |->
            IF n = 0 THEN <<>>
            ELSE IF Reachable(InOrder[n]) THEN Append(g[n - 1], InOrder[n]) ELSE g[n - 1]]
  BY <1>1, ListingExists DEF IsListing, ListStep
<1>4. Listed = [n \in 0 .. N |->
            IF n = 0 THEN <<>>
            ELSE IF Reachable(InOrder[n]) THEN Append(Listed[n - 1], InOrder[n]) ELSE Listed[n - 1]]
  BY <1>2, <1>3
<1>5. QED BY <1>4 DEF ListStep, N

\* Listed depends on the bus only.
LEMMA ListedKept ==
    ASSUME bus' = bus
    PROVE  Listed' = Listed /\ \A p : Reachable(p)' = Reachable(p) /\ NestedAt(p)' = NestedAt(p)
<1>1. \A p : Reachable(p)' = Reachable(p) /\ NestedAt(p)' = NestedAt(p)
  BY DEF Reachable, NestedAt
<1>2. QED BY <1>1 DEF Listed

\* Listed[n] is a sequence of places.
LEMMA ListedType == \A n \in 0 .. Devs * Fns : Listed[n] \in Seq(Places)
<1> DEFINE N == Devs * Fns
           T == {n \in Nat : n <= N => Listed[n] \in Seq(Places)}
<1>1. N \in Nat /\ \A n \in 1 .. N : InOrder[n] \in Places
  BY InOrderPlaces
<1>2. \A n \in 0 .. N : Listed[n] = ListStep(Listed, n)
  BY ListedIs
<1> HIDE DEF N
<1>3. 0 \in T
  <2>1. Listed[0] = <<>>
    BY <1>1, <1>2 DEF ListStep
  <2>2. <<>> \in Seq(Places)
    OBVIOUS
  <2>3. QED BY <2>1, <2>2
<1>4. ASSUME NEW n \in Nat, n \in T PROVE n + 1 \in T
  <2> SUFFICES ASSUME n + 1 <= N PROVE Listed[n + 1] \in Seq(Places)
    OBVIOUS
  <2>1. n \in 0 .. N /\ n + 1 \in 1 .. N /\ n + 1 \in 0 .. N /\ (n + 1) - 1 = n /\ n + 1 # 0
    BY <1>1
  <2>2. Listed[n] \in Seq(Places) /\ InOrder[n + 1] \in Places
    BY <1>1, <1>4, <2>1
  <2>3. Listed[n + 1] = IF Reachable(InOrder[n + 1]) THEN Append(Listed[n], InOrder[n + 1]) ELSE Listed[n]
    BY <1>2, <2>1 DEF ListStep
  <2>4. QED BY <2>2, <2>3
<1>5. \A n \in Nat : n \in T
  <2> HIDE DEF T
  <2>1. QED BY <1>3, <1>4, Induct
<1>6. QED BY <1>1, <1>5 DEF N

\* Places that cannot be reached add nothing.
LEMMA Unlisted ==
    ASSUME NEW a \in 0 .. Devs * Fns, NEW b \in 0 .. Devs * Fns, a <= b,
           \A j \in a + 1 .. b : ~Reachable(InOrder[j])
    PROVE  Listed[b] = Listed[a]
<1> DEFINE N == Devs * Fns
           T == {k \in Nat : a + k <= b => Listed[a + k] = Listed[a]}
<1>1. N \in Nat
  BY InOrderPlaces
<1>2. \A n \in 0 .. N : Listed[n] = ListStep(Listed, n)
  BY ListedIs
<1>3. a \in 0 .. N /\ b \in 0 .. N
  OBVIOUS
<1> HIDE DEF N
<1>4. 0 \in T
  BY <1>1, <1>3
<1>5. ASSUME NEW k \in Nat, k \in T PROVE k + 1 \in T
  <2> SUFFICES ASSUME a + (k + 1) <= b PROVE Listed[a + (k + 1)] = Listed[a]
    OBVIOUS
  <2> DEFINE n == a + k + 1
  <2>1. n \in 0 .. N /\ n \in a + 1 .. b /\ n # 0 /\ n - 1 = a + k /\ a + (k + 1) = n /\ a + k <= b
    BY <1>1, <1>3
  <2>2. Listed[a + k] = Listed[a]
    BY <1>5, <2>1
  <2> HIDE DEF n
  <2>3. Listed[n] = Listed[n - 1]
    BY <1>2, <2>1 DEF ListStep
  <2>4. QED BY <2>1, <2>2, <2>3
<1>6. \A k \in Nat : k \in T
  <2> HIDE DEF T
  <2>1. QED BY <1>4, <1>5, Induct
<1>7. b - a \in Nat /\ a + (b - a) = b
  BY <1>1, <1>3
<1>8. b - a \in T
  BY <1>6, <1>7
<1>9. QED BY <1>7, <1>8

-----------------------------------------------------------------------------
(* How the list keeps up with the scan.                                    *)

\* Steps that neither list anything nor overwrite an object that is listed.
LEMMA MatchedKept ==
    ASSUME NEW n, Matched(n), bus' = bus, devices' = devices, EntriesInOrder,
           mapped' = mapped \/ Count = 0,
           \A k \in 1 .. Count : (mapped # {} /\ k <= Room) => content'[k - 1] = content[k - 1]
    PROVE  Matched(n)'
<1>1. Listed' = Listed /\ \A p : NestedAt(p)' = NestedAt(p)
  BY ListedKept
<1>2. Count' = Count /\ Count \in Nat
  BY DEF Count, EntriesInOrder
<1>3. n \in 0 .. Devs * Fns /\ Count = Len(Listed[n]) /\ \A j \in 1 .. n : ~NestedAt(InOrder[j])
  BY DEF Matched
<1>4. ASSUME NEW k \in 1 .. Count, mapped' # {}, k <= Room PROVE content'[k - 1] = Listed[n][k]
  <2>1. mapped' = mapped
    BY <1>2
  <2>2. content[k - 1] = Listed[n][k]
    BY <1>4, <2>1 DEF Matched
  <2>3. QED BY <1>4, <2>1, <2>2
<1>5. \A k \in 1 .. Count' : (mapped' # {} /\ k <= Room') => content'[k - 1] = Listed'[n][k]
  BY <1>1, <1>2, <1>4 DEF Room
<1>6. \A j \in 1 .. n : ~NestedAt(InOrder[j])'
  BY <1>1, <1>3
<1>7. QED BY <1>1, <1>2, <1>3, <1>5, <1>6 DEF Matched, InOrder

\* Leaving places behind that cannot be reached.
LEMMA MatchedSkips ==
    ASSUME NEW a, NEW b \in 0 .. Devs * Fns, Matched(a), a <= b,
           \A j \in a + 1 .. b : ~Reachable(InOrder[j])
    PROVE  Matched(b)
<1>1. a \in 0 .. Devs * Fns
  BY DEF Matched
<1>2. Listed[b] = Listed[a]
  BY <1>1, Unlisted
<1>3. ASSUME NEW j \in 1 .. b PROVE ~NestedAt(InOrder[j])
  <2>1. j \in 1 .. a \/ j \in a + 1 .. b
    BY <1>1, InOrderPlaces
  <2>2. QED BY <2>1 DEF Matched, NestedAt
<1>4. QED BY <1>2, <1>3 DEF Matched

\* Listing place a + 1, and leaving places behind that cannot be reached.
LEMMA MatchedAppends ==
    ASSUME NEW a, NEW b \in 0 .. Devs * Fns, Matched(a), a + 1 <= b,
           Reachable(InOrder[a + 1]), ~NestedAt(InOrder[a + 1]),
           \A j \in a + 2 .. b : ~Reachable(InOrder[j]),
           EntriesInOrder, bus' = bus, mapped' = mapped, content' = content,
           NEW x, devices'.items = Append(devices.items, x),
           (mapped # {} /\ Count < Room) => content[Count] = InOrder[a + 1]
    PROVE  Matched(b)'
<1>1. Devs * Fns \in Nat /\ a \in 0 .. Devs * Fns
  BY InOrderPlaces DEF Matched
<1> DEFINE c == a + 1
           p == InOrder[c]
<1>2. c \in 0 .. Devs * Fns /\ c \in 1 .. Devs * Fns /\ c # 0 /\ c - 1 = a
  BY <1>1
<1>3. Listed[b] = Listed[c]
  <2>1. \A j \in c + 1 .. b : ~Reachable(InOrder[j])
    BY <1>1
  <2> HIDE DEF c
  <2>2. QED BY <1>2, <2>1, Unlisted DEF c
<1>4. Listed[c] = Append(Listed[a], p)
  <2>1. Listed[c] = ListStep(Listed, c)
    BY <1>2, ListedIs
  <2>2. Reachable(InOrder[c])
    OBVIOUS
  <2> HIDE DEF c
  <2>3. QED BY <1>2, <2>1, <2>2 DEF ListStep
<1>5. Listed[a] \in Seq(Places) /\ p \in Places
  BY <1>1, <1>2, ListedType, InOrderPlaces
<1>6. Listed' = Listed /\ \A q : NestedAt(q)' = NestedAt(q)
  BY ListedKept
<1>7. devices.items \in Seq(Int) /\ Count \in Nat /\ Count' = Count + 1 /\ Count = Len(Listed[a])
  BY DEF Count, EntriesInOrder, Matched
<1> HIDE DEF p
<1>8. Len(Listed[b]) = Count + 1 /\ Listed[b][Count + 1] = p
      /\ \A k \in 1 .. Count : Listed[b][k] = Listed[a][k]
  BY <1>3, <1>4, <1>5, <1>7
<1>9. ASSUME NEW k \in 1 .. Count + 1, mapped # {}, k <= Room PROVE content[k - 1] = Listed[b][k]
  <2>1. CASE k \in 1 .. Count
    BY <1>8, <1>9, <2>1 DEF Matched
  <2>2. CASE k = Count + 1
    <3>1. Count < Room /\ k - 1 = Count
      BY <1>7, <1>9, <2>2, Numbers
    <3>2. QED BY <1>8, <1>9, <2>2, <3>1 DEF p, c
  <2>3. QED BY <1>7, <2>1, <2>2
<1>10. ASSUME NEW j \in 1 .. b PROVE ~NestedAt(InOrder[j])
  <2>1. j \in 1 .. a \/ j = a + 1 \/ j \in a + 2 .. b
    BY <1>1
  <2>2. QED BY <2>1 DEF Matched, NestedAt
<1>11. \A k \in 1 .. Count' : (mapped' # {} /\ k <= Room') => content'[k - 1] = Listed'[b][k]
  BY <1>6, <1>7, <1>9 DEF Room
<1>12. \A j \in 1 .. b : ~NestedAt(InOrder[j])'
  BY <1>6, <1>10
<1>13. QED BY <1>6, <1>7, <1>8, <1>11, <1>12 DEF Matched, InOrder

-----------------------------------------------------------------------------
(* Helpers.                                                                *)

\* FirstSuch is the least member.
LEMMA FirstIs ==
    ASSUME NEW S, S \subseteq Nat, NEW x \in S, \A t \in S : x <= t
    PROVE  FirstSuch(S) = x
<1>1. \E s \in S : \A t \in S : s <= t
  OBVIOUS
<1>2. FirstSuch(S) \in S /\ \A t \in S : FirstSuch(S) <= t
  BY <1>1 DEF FirstSuch
<1> DEFINE y == FirstSuch(S)
<1> HIDE DEF y
<1>3. y \in S /\ y <= x /\ x <= y /\ x \in Nat /\ y \in Nat
  BY <1>2 DEF y
<1>4. QED BY <1>3 DEF y

\* The first slab is the first that is created.
LEMMA FirstSlab == 1 \in Slabs /\ Slabs \subseteq Nat /\ FirstSuch(Slabs) = 1
<1>1. 1 \in Slabs /\ Slabs \subseteq Nat /\ \A t \in Slabs : 1 <= t
  BY SlabAssumption DEF Slabs
<1>2. QED BY <1>1, FirstIs

\* Once there is a slab for Device objects, find_slab finds it.
LEMMA SlabFound ==
    ASSUME initialised = {1}, size[1] = DevSize
    PROVE  {s \in Slabs : IsSlabFor(s, DevSize)} = {1} /\ DeviceSlab = 1
<1>1. {s \in Slabs : IsSlabFor(s, DevSize)} = {1}
  BY FirstSlab DEF IsSlabFor
<1>2. FirstSuch({1}) = 1
  BY FirstIs
<1>3. QED BY <1>1, <1>2 DEF DeviceSlab

\* While the scan goes on the slab has not panicked.
LEMMA NotPanicked ==
    ASSUME Unused \/ Serving \/ Starved, pc # "stopped"
    PROVE  ~panicked
BY DEF Unused, Serving, Starved

\* Steps outside of operator new leave the slab as it is.
LEMMA SlabKept ==
    ASSUME Unused \/ Serving \/ Starved, pc \notin {"append", "stopped"},
           pc' \notin {"append", "allocate"}, devices' = devices,
           UNCHANGED <<initialised, size, mapped, free, list, link, handles, held, panicked>>,
           pages' = pages \/ pages' \in 0 .. pages
    PROVE  Unused' \/ Serving' \/ Starved'
<1>1. Count' = Count /\ Room' = Room /\ ~panicked' /\ ~panicked
  BY NotPanicked DEF Count, Room, Total
<1>2. Given' = Given
  BY <1>1 DEF Given
<1>3. CASE Unused
  BY <1>1, <1>3 DEF Unused
<1>4. CASE Serving
  BY <1>1, <1>2, <1>4 DEF Serving, InitialLinks
<1>5. CASE Starved
  BY <1>1, <1>5 DEF Starved
<1>6. QED BY <1>3, <1>4, <1>5

\* The stack without its last frame.
LEMMA Pops ==
    ASSUME NEW s \in Seq(CallFrames), Len(s) >= 1, NEW t, t = SubSeq(s, 1, Len(s) - 1)
    PROVE  t \in Seq(CallFrames) /\ Len(t) = Len(s) - 1 /\ \A k \in 1 .. Len(s) - 1 : t[k] = s[k]
<1> DEFINE n == Len(s) - 1
<1>1. n \in Nat /\ \A k \in 1 .. n : s[k] \in CallFrames
  OBVIOUS
<1> HIDE DEF n
<1>2. /\ SubSeq(s, 1, n) \in Seq(CallFrames)
      /\ Len(SubSeq(s, 1, n)) = IF 1 <= n THEN n - 1 + 1 ELSE 0
      /\ \A k \in 1 .. n - 1 + 1 : SubSeq(s, 1, n)[k] = s[1 + k - 1]
  BY <1>1, SubSeqProperties
<1> DEFINE u == SubSeq(s, 1, n)
<1>3. u = t
  BY DEF n
<1> HIDE DEF u
<1>4. u \in Seq(CallFrames) /\ Len(u) = n /\ \A k \in 1 .. n : u[k] = s[k]
  BY <1>1, <1>2 DEF u
<1>5. QED BY <1>3, <1>4 DEF n

\* The stack after a call from the loop.
Pushed(s, f) == Append([s EXCEPT ![Len(s)].next = @ + 1], f)

\* The caller's loop has moved on, and the new frame lies on top of it.
LEMMA Pushes ==
    ASSUME NEW s \in Seq(CallFrames), Len(s) >= 1, s[Len(s)].next < Fns,
           NEW f \in CallFrames, NEW t, t = Pushed(s, f)
    PROVE  /\ t \in Seq(CallFrames) /\ Len(t) = Len(s) + 1
           /\ \A k \in 1 .. Len(s) - 1 : t[k] = s[k]
           /\ t[Len(s)].fn = s[Len(s)].fn /\ t[Len(s)].next = s[Len(s)].next + 1
           /\ t[Len(s) + 1] = f
<1> DEFINE n == Len(s)
           g == [s[n] EXCEPT !.next = @ + 1]
           u == [s EXCEPT ![n] = g]
<1>1. n \in Nat /\ n >= 1 /\ n \in 1 .. n /\ s[n] \in CallFrames /\ \A k \in 1 .. n : s[k] \in CallFrames
  OBVIOUS
<1>2. s[n].fn \in 0 .. Fns - 1 /\ s[n].next \in 1 .. Fns
  BY <1>1 DEF CallFrames
<1>3. g \in CallFrames /\ g.fn = s[n].fn /\ g.next = s[n].next + 1
  <2>1. s[n].next + 1 \in 1 .. Fns
    BY <1>2, Numbers
  <2>2. s[n] = [fn |-> s[n].fn, next |-> s[n].next]
    BY <1>1 DEF CallFrames
  <2>3. g = [fn |-> s[n].fn, next |-> s[n].next + 1]
    BY <2>2
  <2>4. QED BY <1>2, <2>1, <2>3 DEF CallFrames
<1>4. t = Append(u, f)
  BY DEF Pushed
<1> HIDE DEF g
<1>5. u \in Seq(CallFrames) /\ Len(u) = n /\ u[n] = g /\ \A k \in 1 .. n - 1 : u[k] = s[k]
  BY <1>1, <1>3
<1> HIDE DEF n, u
<1>6. t \in Seq(CallFrames) /\ Len(t) = n + 1 /\ t[n + 1] = f /\ \A k \in 1 .. n : t[k] = u[k]
  BY <1>1, <1>4, <1>5
<1>7. n \in 1 .. n /\ \A k \in 1 .. n - 1 : k \in 1 .. n
  BY <1>1
<1>8. QED BY <1>3, <1>5, <1>6, <1>7 DEF n

\* A frame that is being read.
LEMMA TopFrame ==
    ASSUME Stack, pc \in InCall
    PROVE  /\ Len(calls) \in Nat /\ Len(calls) >= 1 /\ Frame \in CallFrames /\ Frame = calls[Len(calls)]
           /\ dev \in 0 .. Devs - 1 /\ Frame.fn \in 0 .. Fns - 1 /\ Frame.next \in 1 .. Fns
           /\ \A k \in 1 .. Len(calls) : calls[k] \in CallFrames
           /\ Len(calls) = 1 => Frame.fn = 0
           /\ Len(calls) > 1 => Frame.fn >= 1 /\ Calling(0)
<1>1. calls \in Seq(CallFrames) /\ Len(calls) >= 1 /\ Len(calls) \in Nat /\ dev \in 0 .. Devs - 1
  BY DEF Stack
<1>2. Frame \in CallFrames /\ Frame = calls[Len(calls)] /\ \A k \in 1 .. Len(calls) : calls[k] \in CallFrames
  BY <1>1 DEF Frame
<1>3. Frame.fn \in 0 .. Fns - 1 /\ Frame.next \in 1 .. Fns
  BY <1>2 DEF CallFrames
<1>4. Len(calls) = 1 => Frame.fn = 0
  BY <1>2 DEF Stack
<1>5. ASSUME Len(calls) > 1 PROVE Frame.fn >= 1 /\ Calling(0)
  <2>1. Len(calls) \in 2 .. Len(calls) /\ 2 \in 2 .. Len(calls) /\ 2 - 1 = 1
    BY <1>1, <1>5
  <2>2. calls[Len(calls)].fn >= 1 /\ Calling(calls[1].fn) /\ calls[1].fn = 0
    BY <2>1 DEF Stack
  <2>3. QED BY <1>2, <2>2
<1>6. QED BY <1>1, <1>2, <1>3, <1>4, <1>5

\* A return leaves the stack as it was before the call.
LEMMA ReturnStack ==
    ASSUME Stack, pc \in Busy \cup {"loop"}, Return, dev' = dev, bus' = bus
    PROVE  /\ Stack' /\ Len(calls') = Len(calls) - 1
           /\ \A k \in 1 .. Len(calls) - 1 : calls'[k] = calls[k]
           /\ pc' = IF Len(calls) = 1 THEN "next" ELSE "loop"
<1>1. pc \in InCall
  BY DEF InCall
<1>2. calls \in Seq(CallFrames) /\ Len(calls) >= 1 /\ Len(calls) \in Nat /\ Len(calls) <= MaxDepth
  BY <1>1 DEF Stack
<1>3. /\ calls' \in Seq(CallFrames) /\ Len(calls') = Len(calls) - 1
      /\ \A k \in 1 .. Len(calls) - 1 : calls'[k] = calls[k]
  BY <1>2, Pops DEF Return
<1>4. pc' = IF Len(calls) = 1 THEN "next" ELSE "loop"
  BY DEF Return
<1>5. dev' \in 0 .. Devs - 1 /\ \A f : Calling(f)' = Calling(f)
  BY <1>1 DEF Stack, Calling
<1>6. Len(calls') <= MaxDepth
  BY <1>2, <1>3, Numbers
<1>7. CASE Len(calls) = 1
  BY <1>3, <1>4, <1>5, <1>6, <1>7 DEF Stack, InCall, Busy
<1>8. CASE Len(calls) # 1
  <2> DEFINE n == Len(calls) - 1
  <2>1. n \in Nat /\ n >= 1 /\ n + 1 = Len(calls) /\ 1 \in 1 .. n /\ n \in 1 .. n
    <3> DEFINE l == Len(calls)
    <3>1. l \in Nat /\ l >= 1 /\ l # 1 /\ n = l - 1
      BY <1>2, <1>8
    <3> HIDE DEF n, l
    <3>2. n \in Nat /\ n >= 1 /\ n + 1 = l /\ 1 \in 1 .. n /\ n \in 1 .. n
      BY <3>1
    <3>3. QED BY <3>2 DEF l
  <2>2. calls'[1].fn = 0
    BY <1>1, <1>3, <2>1 DEF Stack
  <2>3. ASSUME NEW k \in 2 .. n PROVE calls'[k].fn >= 1 /\ Calling(calls'[k - 1].fn)
    <3>1. k \in 1 .. n /\ k - 1 \in 1 .. n /\ k \in 2 .. Len(calls)
      BY <2>1
    <3>2. calls'[k] = calls[k] /\ calls'[k - 1] = calls[k - 1]
      BY <1>3, <3>1
    <3>3. calls[k].fn >= 1 /\ Calling(calls[k - 1].fn)
      BY <1>1, <3>1 DEF Stack
    <3>4. QED BY <3>2, <3>3
  <2>4. Frame' = calls[n] /\ Calling(calls[n].fn)
    <3>1. n + 1 \in 2 .. Len(calls) /\ (n + 1) - 1 = n
      BY <2>1
    <3>2. Calling(calls[n].fn)
      BY <1>1, <3>1 DEF Stack
    <3>3. QED BY <1>3, <2>1, <3>2 DEF Frame
  <2>5. pc' = "loop"
    BY <1>4, <1>8
  <2>6. Len(calls') = n
    BY <1>3
  <2> HIDE DEF n
  <2>7. \A k \in 2 .. Len(calls') : calls'[k].fn >= 1 /\ Calling(calls[k - 1].fn)'
    BY <1>5, <2>3, <2>6 DEF Calling
  <2>8. Calling(Frame.fn)'
    BY <1>5, <2>4 DEF Calling
  <2>9. /\ pc' \notin {"slab", "allocate", "append", "next", "find", "overflow"}
        /\ Len(calls') >= 1
    BY <2>1, <2>5, <2>6
  <2>10. /\ (pc \in InCall =>
                /\ dev \in 0 .. Devs - 1 /\ Len(calls) >= 1 /\ calls[1].fn = 0
                /\ \A k \in 2 .. Len(calls) : calls[k].fn >= 1 /\ Calling(calls[k - 1].fn))'
         /\ (pc \in {"loop", "overflow"} => Calling(Frame.fn))'
    BY <1>5, <2>2, <2>7, <2>8, <2>9
  <2>11. QED BY <1>3, <1>4, <1>6, <2>9, <2>10 DEF Stack
<1>9. QED BY <1>3, <1>4, <1>7, <1>8

-----------------------------------------------------------------------------
(* The initial state, and the steps.                                       *)

\* The state in which PCI::initialise is called.
LEMMA InitPci == PciInit => PciInv
<1> SUFFICES ASSUME PciInit PROVE PciInv
  OBVIOUS
<1>1. IInv
  BY InitInv DEF PciInit
<1> DEFINE f == [fn |-> 0, next |-> 1]
<1>2. f \in CallFrames /\ calls = <<f>>
  BY Numbers DEF PciInit, FirstOther, CallFrames
<1>3. calls \in Seq(CallFrames) /\ Len(calls) = 1 /\ calls[1].fn = 0 /\ calls[1].next = 1
  BY <1>2
<1>4. pc = "boot" /\ dev = 0 /\ dev \in 0 .. Devs - 1 /\ dev \in 0 .. Devs /\ bus \in [Places -> Kinds]
  BY Numbers DEF PciInit
<1>5. Stack
  BY <1>3, <1>4, Numbers DEF Stack
<1>6. devices = [items |-> <<>>, capacity |-> InitialCapacity]
  BY DEF PciInit
<1>7. devices.items = <<>> /\ Count = 0 /\ devices \in [items : Seq(Int), capacity : Nat \ {0}]
  <2>1. <<>> \in Seq(Int)
    OBVIOUS
  <2>2. QED BY <1>6, <2>1, Numbers DEF Count
<1>8. EntriesInOrder
  BY <1>6, <1>7, Numbers DEF EntriesInOrder
<1>9. Unused
  BY <1>4, <1>7 DEF PciInit, Init, Unused
<1>10. Described
  BY <1>4 DEF PciInit, Described
<1>11. Matched(dev * Fns)
  <2>1. dev * Fns = 0
    BY <1>4, Numbers
  <2>2. Listed[0] = <<>> /\ 0 \in 0 .. Devs * Fns
    BY ListedIs, InOrderPlaces DEF ListStep
  <2>3. Matched(0)
    BY <1>7, <2>2 DEF Matched
  <2>4. QED BY <2>1, <2>3
<1>12. Position
  BY <1>3, <1>4, <1>11 DEF Position, AtDevice
<1>13. DriverRight /\ pc \in InCall \cup {"next", "find", "stopped"}
  BY <1>4 DEF DriverRight, InCall
<1>14. QED BY <1>1, <1>4, <1>5, <1>8, <1>9, <1>10, <1>12, <1>13 DEF PciInv

\* A step that leaves the list, the objects and the bus alone, and does not
\* touch the stopped driver.
LEMMA QuietStep ==
    ASSUME PciInv, UNCHANGED <<bus, devices>>, mapped' = mapped,
           pc' \notin {"append", "stopped"}, content' = content
    PROVE  /\ EntriesInOrder' /\ Described' /\ DriverRight' /\ bus' \in [Places -> Kinds]
           /\ \A n : Matched(n) => Matched(n)'
<1>1. EntriesInOrder /\ Described /\ bus \in [Places -> Kinds]
  BY DEF PciInv
<1>2. EntriesInOrder'
  BY <1>1 DEF EntriesInOrder, Count, Room
<1>3. Described'
  BY <1>1 DEF Described
<1>4. DriverRight'
  BY DEF DriverRight
<1>5. \A n : Matched(n) => Matched(n)'
  BY <1>1, MatchedKept
<1>6. QED BY <1>1, <1>2, <1>3, <1>4, <1>5

\* Places of this device that are not reached.
LEMMA NotReached ==
    ASSUME dev \in 0 .. Devs - 1
    PROVE  /\ \A f \in 0 .. Fns - 1 : InOrder[dev * Fns + f + 1] = <<dev, f>>
           /\ dev * Fns \in Nat /\ dev * Fns + Fns \in 0 .. Devs * Fns /\ Devs * Fns \in Nat
           /\ ~Present(bus[<<dev, 0>>]) =>
                \A j \in dev * Fns + 1 .. dev * Fns + Fns : ~Reachable(InOrder[j])
           /\ ~Calling(0) =>
                \A j \in dev * Fns + 2 .. dev * Fns + Fns : ~Reachable(InOrder[j])
<1> DEFINE x == dev * Fns
           N == Devs * Fns
<1>1. \A f \in 0 .. Fns - 1 : InOrder[x + f + 1] = <<dev, f>>
  BY Index
<1>2. x \in Nat /\ x + Fns <= N /\ N \in Nat
  <2>1. 0 \in 0 .. Fns - 1
    BY Numbers
  <2>2. x + 0 \in Nat /\ x + Fns <= N
    BY <2>1, Index
  <2>3. dev \in Nat /\ x \in Nat
    BY Numbers, Z3
  <2>4. QED BY <2>2, <2>3, InOrderPlaces
<1> HIDE DEF x, N
<1>3. ASSUME NEW j \in x + 1 .. x + Fns
      PROVE  InOrder[j] = <<dev, j - 1 - x>> /\ j - 1 - x \in 0 .. Fns - 1
  <2> DEFINE f == j - 1 - x
  <2>1. f \in 0 .. Fns - 1 /\ x + f + 1 = j
    BY <1>2, Numbers
  <2> HIDE DEF f
  <2>2. InOrder[j] = <<dev, f>>
    BY <1>1, <2>1
  <2>3. QED BY <2>1, <2>2 DEF f
<1>4. ASSUME ~Present(bus[<<dev, 0>>]), NEW j \in x + 1 .. x + Fns PROVE ~Reachable(InOrder[j])
  <2> DEFINE f == j - 1 - x
  <2>1. InOrder[j] = <<dev, f>>
    BY <1>3
  <2> HIDE DEF f
  <2>2. QED BY <1>4, <2>1 DEF Reachable
<1>5. ASSUME ~Calling(0), NEW j \in x + 2 .. x + Fns PROVE ~Reachable(InOrder[j])
  <2> DEFINE f == j - 1 - x
  <2>1. j \in x + 1 .. x + Fns /\ f # 0
    BY <1>2, Numbers
  <2>2. InOrder[j] = <<dev, f>>
    BY <1>3, <2>1
  <2> HIDE DEF f
  <2>3. QED BY <1>5, <2>1, <2>2 DEF Reachable, Calling
<1>6. x + Fns \in 0 .. N
  BY <1>2, Numbers
<1>7. QED BY <1>1, <1>2, <1>4, <1>5, <1>6 DEF x, N

\* The slab's part of the invariant when nothing happens to the slab.
LEMMA IdleSlab ==
    ASSUME IInv, UNCHANGED vars
    PROVE  IInv'
<1>1. panicked' \in BOOLEAN
  BY Zenon DEF vars, IInv, TypeOK
<1>2. QED BY <1>1, IdleInv DEF vars

\* The kernel's other users take pages before the scan.
LEMMA OthersStep ==
    ASSUME PciInv, OthersTakePages
    PROVE  PciInv'
<1>1. pc = "boot" /\ pc' = "call" /\ pages' \in 0 .. pages
      /\ UNCHANGED <<initialised, size, mapped, free, list, link, handles, held, panicked>>
      /\ UNCHANGED <<bus, dev, calls, fresh, content, devices, driver>>
  BY DEF OthersTakePages
<1>2. IInv'
  <2>1. IInv /\ pages \in 0 .. HeapPages
    BY DEF PciInv, IInv, TypeOK
  <2>2. pages' \in 0 .. HeapPages
    BY <1>1, <2>1, SlabAssumption
  <2>3. TypeOK'
    BY <1>1, <2>1, <2>2 DEF IInv, TypeOK
  <2>4. FreeListSound' /\ HeldInPage' /\ OneSlabPerSize'
    BY <1>1, <2>1 DEF IInv, FreeListSound, HeldInPage, OneSlabPerSize, Walk, Objects
  <2>5. QED BY <2>3, <2>4 DEF IInv
<1>3. /\ EntriesInOrder' /\ Described' /\ DriverRight' /\ bus' \in [Places -> Kinds]
      /\ \A n : Matched(n) => Matched(n)'
  BY <1>1, QuietStep
<1>4. Stack'
  <2>1. Stack /\ pc \in InCall
    BY <1>1 DEF PciInv, InCall
  <2>2. pc' \in InCall
    BY <1>1 DEF InCall, Busy
  <2>3. QED BY <1>1, <2>1, <2>2 DEF Stack, Calling
<1>5. Unused' \/ Serving' \/ Starved'
  BY <1>1, SlabKept DEF PciInv
<1>6. Position'
  <2>1. ~panicked
    BY <1>1, NotPanicked DEF PciInv
  <2>2. Position
    BY DEF PciInv
  <2>3. AtDevice
    BY <1>1, <2>1, <2>2 DEF Position, AtFunction, AtLoop, AtNext, AtEnd, Lost, Busy
  <2>4. AtDevice'
    BY <1>1, <1>3, <2>3 DEF AtDevice, Busy
  <2>5. QED BY <2>4 DEF Position
<1>7. dev' \in 0 .. Devs /\ pc' \in InCall \cup {"next", "find", "stopped"}
  BY <1>1 DEF PciInv, InCall, Busy
<1>8. QED BY <1>2, <1>3, <1>4, <1>5, <1>6, <1>7 DEF PciInv

\* Where a scan that is reading can be.
LEMMA Where ==
    ASSUME PciInv
    PROVE  /\ pc \in Busy => AtDevice \/ AtFunction \/ Lost
           /\ pc = "loop" => AtLoop \/ Lost
           /\ pc = "next" => AtNext
           /\ pc = "find" => AtEnd
           /\ pc # "stopped" => ~panicked
           /\ pc \in Busy \cup {"loop"} => pc \in InCall
<1>1. pc # "stopped" => ~panicked
  BY NotPanicked DEF PciInv
<1>2. pc \in Busy => pc # "stopped"
  BY DEF Busy
<1>3. QED BY <1>1, <1>2 DEF PciInv, Position, AtDevice, AtFunction, AtLoop, AtNext, AtEnd, Lost, Busy, InCall

\* The frame that calls itself stays when another one returns.
LEMMA StaysLost ==
    ASSUME PciInv, Lost, Return, dev' = dev, bus' = bus,
           ~Calling(Frame.fn) \/ Frame.next = Fns
    PROVE  Lost'
<1>1. pc \in Busy \cup {"loop"} /\ Stack /\ pc \in InCall
  BY DEF Lost, PciInv, InCall
<1>2. /\ Len(calls') = Len(calls) - 1
      /\ \A k \in 1 .. Len(calls) - 1 : calls'[k] = calls[k]
      /\ pc' = IF Len(calls) = 1 THEN "next" ELSE "loop"
  BY <1>1, ReturnStack
<1>3. PICK k \in 2 .. Len(calls) : Calling(calls[k].fn) /\ calls[k].next <= calls[k].fn
  BY DEF Lost, Trapped
<1>4. Len(calls) \in Nat /\ Frame = calls[Len(calls)] /\ Frame.fn \in 0 .. Fns - 1
  BY <1>1, TopFrame
<1>5. k # Len(calls)
  <2>1. CASE ~Calling(Frame.fn)
    BY <1>3, <1>4, <2>1
  <2>2. CASE Frame.next = Fns
    <3>1. ~(Frame.next <= Frame.fn)
      BY <1>4, <2>2, Numbers
    <3>2. QED BY <1>3, <1>4, <3>1
  <2>3. QED BY <2>1, <2>2
<1>6. k \in 2 .. Len(calls') /\ k \in 1 .. Len(calls) - 1 /\ Len(calls) # 1
  BY <1>2, <1>4, <1>5
<1>7. calls'[k] = calls[k] /\ pc' = "loop"
  BY <1>2, <1>6
<1>8. Calling(calls[k].fn)'
  BY <1>3, <1>7 DEF Calling
<1>9. QED BY <1>3, <1>6, <1>7, <1>8 DEF Lost, Trapped

\* A function that does not answer.
LEMMA AbsentStep ==
    ASSUME PciInv, ReadAbsent
    PROVE  PciInv'
<1>1. /\ pc = "call" /\ ~Present(Here) /\ Return /\ UNCHANGED vars
      /\ UNCHANGED <<bus, dev, fresh, content, devices, driver>>
  BY DEF ReadAbsent
<1>2. /\ pc \in Busy /\ pc \in Busy \cup {"loop"} /\ pc \in InCall /\ Stack /\ IInv
      /\ AtDevice \/ AtFunction \/ Lost
  BY <1>1, Where DEF PciInv, Busy
<1>3. /\ Stack' /\ Len(calls') = Len(calls) - 1
      /\ \A k \in 1 .. Len(calls) - 1 : calls'[k] = calls[k]
      /\ pc' = IF Len(calls) = 1 THEN "next" ELSE "loop"
  BY <1>1, <1>2, ReturnStack
<1>4. IInv'
  BY <1>1, <1>2, IdleSlab
<1>5. UNCHANGED <<initialised, size, mapped, free, list, link, handles, held, panicked>> /\ pages' = pages
  BY <1>1 DEF vars
<1>6. pc' \in {"next", "loop"}
  BY <1>3
<1>7. /\ EntriesInOrder' /\ Described' /\ DriverRight' /\ bus' \in [Places -> Kinds]
      /\ \A n : Matched(n) => Matched(n)'
  BY <1>1, <1>5, <1>6, QuietStep
<1>8. Unused' \/ Serving' \/ Starved'
  BY <1>1, <1>5, <1>6, SlabKept DEF PciInv
<1>9. Frame = calls[Len(calls)] /\ ~Present(bus[<<dev, Frame.fn>>]) /\ ~Calling(Frame.fn)
  BY <1>1, <1>2, TopFrame DEF Here, Calling
<1>10. dev \in 0 .. Devs - 1 /\ Frame.fn \in 0 .. Fns - 1
  BY <1>2, TopFrame
<1>11. Position'
  <2>1. CASE AtDevice
    <3>1. Len(calls) = 1 /\ Matched(dev * Fns) /\ Frame.fn = 0
      BY <1>2, <2>1, TopFrame DEF AtDevice
    <3>2. /\ dev * Fns \in Nat /\ dev * Fns + Fns \in 0 .. Devs * Fns
          /\ \A j \in dev * Fns + 1 .. dev * Fns + Fns : ~Reachable(InOrder[j])
      BY <1>9, <1>10, <3>1, NotReached
    <3>3. dev * Fns <= dev * Fns + Fns
      BY <3>2, Numbers
    <3>4. Matched(dev * Fns + Fns)
      BY <3>1, <3>2, <3>3, MatchedSkips
    <3>5. AtNext'
      BY <1>1, <1>3, <1>7, <3>1, <3>4 DEF AtNext
    <3>6. QED BY <3>5 DEF Position
  <2>2. CASE AtFunction
    <3> DEFINE f == calls[2].fn
               x == dev * Fns
    <3>1. Len(calls) = 2 /\ Matched(x + f) /\ calls[1].next = f + 1 /\ f = Frame.fn
      BY <1>9, <2>2 DEF AtFunction
    <3>2. x \in Nat /\ x + Fns \in 0 .. Devs * Fns /\ Devs * Fns \in Nat /\ InOrder[x + f + 1] = <<dev, f>>
      BY <1>10, <3>1, NotReached
    <3>3. ~Reachable(InOrder[x + f + 1])
      BY <1>9, <3>1, <3>2 DEF Reachable
    <3> HIDE DEF x, f
    <3>4. f \in 0 .. Fns - 1
      BY <1>10, <3>1
    <3>5. x + (f + 1) \in 0 .. Devs * Fns /\ x + f <= x + (f + 1)
          /\ \A j \in x + f + 1 .. x + (f + 1) : j = x + f + 1
      BY <3>2, <3>4, Numbers
    <3>6. Matched(x + (f + 1))
      BY <3>1, <3>3, <3>5, MatchedSkips
    <3>7. calls'[1] = calls[1] /\ Len(calls') = 1 /\ pc' = "loop"
      BY <1>3, <3>1
    <3>8. PICK v : v = x + (f + 1)
      OBVIOUS
    <3>9. Matched(v)' /\ dev' * Fns + calls'[1].next = v
      BY <1>1, <1>7, <3>1, <3>6, <3>7, <3>8 DEF x
    <3>a. AtLoop'
      BY <3>7, <3>9 DEF AtLoop
    <3>b. QED BY <3>a DEF Position
  <2>3. CASE Lost
    BY <1>1, <1>9, <2>3, StaysLost DEF Position
  <2>4. QED BY <1>2, <2>1, <2>2, <2>3
<1>12. dev' \in 0 .. Devs /\ pc' \in InCall \cup {"next", "find", "stopped"}
  BY <1>1, <1>6 DEF PciInv, InCall
<1>13. QED BY <1>3, <1>4, <1>7, <1>8, <1>11, <1>12 DEF PciInv

\* Steps inside a call of read_device_function keep the position.
LEMMA SamePosition ==
    ASSUME PciInv, pc \in Busy, pc' \in Busy, UNCHANGED <<bus, dev, calls>>,
           \A n : Matched(n) => Matched(n)'
    PROVE  Position'
<1>1. AtDevice \/ AtFunction \/ Lost
  BY Where
<1>2. CASE AtDevice
  BY <1>2 DEF Position, AtDevice
<1>3. CASE AtFunction
  <2>1. AtFunction'
    BY <1>3 DEF AtFunction
  <2>2. QED BY <2>1 DEF Position
<1>4. CASE Lost
  <2>1. Lost'
    BY <1>4 DEF Lost, Trapped, Calling
  <2>2. QED BY <2>1 DEF Position
<1>5. QED BY <1>1, <1>2, <1>3, <1>4

\* And the stack.
LEMMA SameStack ==
    ASSUME Stack, pc \in Busy, pc' \in Busy, UNCHANGED <<bus, dev, calls>>,
           pc' \in {"slab", "allocate", "append"} => Present(Here)
    PROVE  Stack'
<1>1. /\ pc \in InCall /\ pc' \in InCall
      /\ pc' \notin {"loop", "overflow", "next", "find"}
  BY DEF InCall, Busy
<1>2. Here' = Here /\ \A f : Calling(f)' = Calling(f)
  BY DEF Here, Frame, Calling
<1>3. QED BY <1>1, <1>2 DEF Stack, Calling

\* A function that answers.
LEMMA PresentStep ==
    ASSUME PciInv, ReadPresent
    PROVE  PciInv'
<1>1. /\ pc = "call" /\ Present(Here) /\ pc' = "slab" /\ UNCHANGED vars
      /\ UNCHANGED <<bus, dev, calls, fresh, content, devices, driver>>
  BY DEF ReadPresent
<1>2. IInv'
  BY <1>1, IdleSlab DEF PciInv
<1>3. UNCHANGED <<initialised, size, mapped, free, list, link, handles, held, panicked>> /\ pages' = pages
  BY <1>1 DEF vars
<1>4. /\ EntriesInOrder' /\ Described' /\ DriverRight' /\ bus' \in [Places -> Kinds]
      /\ \A n : Matched(n) => Matched(n)'
  BY <1>1, <1>3, QuietStep
<1>5. Unused' \/ Serving' \/ Starved'
  BY <1>1, <1>3, SlabKept DEF PciInv
<1>6. pc \in Busy /\ pc' \in Busy
  BY <1>1 DEF Busy
<1>7. Position'
  BY <1>1, <1>4, <1>6, SamePosition
<1>8. Stack'
  BY <1>1, <1>6, SameStack DEF PciInv
<1>9. dev' \in 0 .. Devs /\ pc' \in InCall \cup {"next", "find", "stopped"}
  BY <1>1 DEF PciInv, InCall, Busy
<1>10. QED BY <1>2, <1>4, <1>5, <1>7, <1>8, <1>9 DEF PciInv

-----------------------------------------------------------------------------
(* Device::operator new.                                                   *)

\* get_or_create_slab finds the slab.
LEMMA FindSlabStep ==
    ASSUME PciInv, pc = "slab", FindSlab(DevSize), pc' = "allocate",
           UNCHANGED <<fresh, bus, dev, calls, content, devices, driver>>
    PROVE  PciInv'
<1>1. DevSize \in Sizes
  BY PciAssumption
<1>2. IInv'
  BY <1>1, FindSlabInv DEF PciInv
<1>3. /\ handles' = handles \cup {FirstSuch({s \in Slabs : IsSlabFor(s, DevSize)})}
      /\ {s \in Slabs : IsSlabFor(s, DevSize)} # {}
      /\ UNCHANGED <<initialised, size, mapped, free, list, link, pages, held, panicked>>
  BY DEF FindSlab
<1>4. /\ EntriesInOrder' /\ Described' /\ DriverRight' /\ bus' \in [Places -> Kinds]
      /\ \A n : Matched(n) => Matched(n)'
  BY <1>3, QuietStep
<1>5. Count' = Count /\ Given' = Given /\ Room' = Room /\ ~panicked'
  <2>1. ~panicked
    BY Where
  <2>2. QED BY <1>3, <2>1 DEF Count, Given, Room, Total
<1>6. Unused' \/ Serving' \/ Starved'
  <2>1. CASE Unused
    BY <1>3, <2>1 DEF Unused, IsSlabFor
  <2>2. CASE Serving
    <3>1. handles' = {1}
      BY <1>3, <2>2, SlabFound, FirstIs DEF Serving
    <3>2. Serving'
      BY <1>3, <1>5, <2>2, <3>1 DEF Serving, InitialLinks
    <3>3. QED BY <3>2
  <2>3. CASE Starved
    BY <1>3, <1>5, <2>3 DEF Starved
  <2>4. QED BY <2>1, <2>2, <2>3 DEF PciInv
<1>7. pc \in Busy /\ pc' \in Busy
  BY DEF Busy
<1>8. Position'
  BY <1>4, <1>7, SamePosition
<1>9. Stack'
  BY <1>7, SameStack DEF PciInv, Stack
<1>10. dev' \in 0 .. Devs /\ pc' \in InCall \cup {"next", "find", "stopped"}
  BY DEF PciInv, InCall, Busy
<1>11. QED BY <1>2, <1>4, <1>6, <1>8, <1>9, <1>10 DEF PciInv

\* get_or_create_slab creates the slab, with or without a page.
LEMMA CreateSlabStep ==
    ASSUME PciInv, pc = "slab", CreateSlab(DevSize), fresh' = Null,
           pc' = IF pages > 0 THEN "allocate" ELSE "append",
           UNCHANGED <<bus, dev, calls, content, devices, driver>>
    PROVE  PciInv'
<1>1. DevSize \in Sizes
  BY PciAssumption
<1>2. IInv' /\ IInv
  BY <1>1, CreateSlabInv DEF PciInv
<1>3. Unused
  <2>1. \A t \in Slabs : ~IsSlabFor(t, DevSize)
    BY DEF CreateSlab
  <2>2. ~Serving /\ ~Starved
    BY <2>1, FirstSlab DEF Serving, Starved, IsSlabFor
  <2>3. QED BY <2>2 DEF PciInv
<1>4. initialised = {} /\ mapped = {} /\ handles = {} /\ ~panicked /\ Count = 0
  BY <1>3 DEF Unused
<1>5. Slabs \ initialised = Slabs /\ FirstSuch(Slabs \ initialised) = 1 /\ 1 \in Slabs
  BY <1>4, FirstSlab
<1>6. /\ initialised' = {1} /\ size' = [size EXCEPT ![1] = DevSize] /\ held' = held /\ panicked' = panicked
      /\ \/ /\ pages > 0 /\ mapped' = {1} /\ handles' = {1}
            /\ free' = [free EXCEPT ![1] = Total(DevSize)]
            /\ list' = [list EXCEPT ![1] = 0]
            /\ link' = [link EXCEPT ![1] = InitialLinks(DevSize)]
         \/ pages = 0 /\ mapped' = mapped /\ pages' = pages
  BY <1>4, <1>5 DEF CreateSlab
<1>7. /\ size \in [Slabs -> Sizes \cup {0}] /\ free \in [Slabs -> Nat] /\ list \in [Slabs -> Pointers]
      /\ link \in [Slabs -> [0 .. MaxObjects -> Pointers]] /\ pages \in 0 .. HeapPages
  BY <1>2 DEF IInv, TypeOK
<1>8. size'[1] = DevSize /\ held[1] = {} /\ Count' = 0
  BY <1>2, <1>4, <1>5, <1>6, <1>7 DEF IInv, HeldInPage, Objects, Count
<1>9. Unused' \/ Serving' \/ Starved'
  <2>1. CASE pages > 0
    <3>1. /\ mapped' = {1} /\ handles' = {1} /\ free'[1] = Room /\ list'[1] = 0
          /\ link'[1] = InitialLinks(DevSize) /\ pc' = "allocate"
      BY <1>5, <1>6, <1>7, <2>1 DEF Room
    <3>2. Given' = 0
      BY <1>8, <3>1, Numbers DEF Given, Room
    <3>3. held'[1] = 0 .. Given' - 1 /\ free'[1] = Room - Given' /\ Room' = Room
      BY <1>6, <1>8, <3>1, <3>2, Numbers DEF Room
    <3>4. Serving'
      BY <1>4, <1>6, <1>8, <3>1, <3>2, <3>3 DEF Serving, InitialLinks
    <3>5. QED BY <3>4
  <2>2. CASE ~(pages > 0)
    <3>1. pages = 0 /\ mapped' = {} /\ pages' = 0 /\ pc' = "append"
      BY <1>4, <1>6, <1>7, <2>2, SlabAssumption
    <3>2. Starved'
      BY <1>4, <1>6, <1>8, <3>1 DEF Starved
    <3>3. QED BY <3>2
  <2>3. QED BY <2>1, <2>2
<1>10. pc' \in {"allocate", "append"} /\ pc \in Busy /\ pc' \in Busy
  BY DEF Busy
<1>11. EntriesInOrder /\ Described
  BY DEF PciInv
<1>12. EntriesInOrder'
  BY <1>8, <1>11 DEF EntriesInOrder, Count
<1>13. Described'
  BY <1>11 DEF Described
<1>14. \A n : Matched(n) => Matched(n)'
  BY <1>4, <1>11, MatchedKept
<1>15. Position'
  BY <1>10, <1>14, SamePosition
<1>16. Stack'
  BY <1>10, SameStack DEF PciInv, Stack
<1>17. DriverRight' /\ bus' \in [Places -> Kinds] /\ dev' \in 0 .. Devs
  BY <1>10 DEF PciInv, DriverRight
<1>18. pc' \in InCall \cup {"next", "find", "stopped"}
  BY <1>10 DEF InCall
<1>19. QED BY <1>2, <1>9, <1>12, <1>13, <1>15, <1>16, <1>17, <1>18 DEF PciInv

\* Slab::allocate gives the next object of the page.
LEMMA NewDeviceStep ==
    ASSUME PciInv, NewDevice
    PROVE  PciInv'
<1>1. /\ pc = "allocate" /\ pc' = "append" /\ Allocate(DeviceSlab)
      /\ fresh' = list[DeviceSlab]
      /\ content' = [content EXCEPT ![list[DeviceSlab]] = <<dev, Frame.fn>>]
      /\ UNCHANGED <<bus, dev, calls, devices, driver>>
  BY DEF NewDevice
<1>2. Serving /\ DeviceSlab = 1 /\ 1 \in Slabs
  <2>1. ~Unused
    BY <1>1 DEF Unused
  <2>2. CASE Starved
    BY <1>1, <2>2 DEF Allocate, Starved
  <2>3. CASE Serving
    BY <2>3, SlabFound, FirstSlab DEF Serving
  <2>4. QED BY <2>1, <2>2, <2>3 DEF PciInv
<1>3. IInv' /\ IInv
  BY <1>1, <1>2, AllocateInv DEF PciInv
<1>4. /\ free[1] > 0 /\ held' = [held EXCEPT ![1] = @ \cup {list[1]}]
      /\ list' = [list EXCEPT ![1] = link[1][list[1]]]
      /\ free' = [free EXCEPT ![1] = @ - 1]
      /\ UNCHANGED <<initialised, size, mapped, link, pages, handles, panicked>>
  BY <1>1, <1>2 DEF Allocate, HasFreeObjects
<1>5. /\ initialised = {1} /\ mapped = {1} /\ handles = {1} /\ ~panicked /\ size[1] = DevSize
      /\ list[1] = Given /\ free[1] = Room - Given
      /\ link[1] = InitialLinks(DevSize) /\ held[1] = 0 .. Given - 1
  BY <1>2 DEF Serving
<1>6. Count \in Nat /\ Count' = Count /\ Room' = Room
  BY <1>1 DEF PciInv, EntriesInOrder, Count, Room, Total
<1>7. Given = Count /\ Count < Room /\ Count \in 0 .. MaxObjects
  BY <1>1, <1>4, <1>5, <1>6, Numbers DEF Given
<1>8. fresh' = Count /\ content' = [content EXCEPT ![Count] = <<dev, Frame.fn>>]
  BY <1>1, <1>2, <1>5, <1>7
<1>9. Serving'
  <2>1. Given' = Count + 1
    BY <1>1, <1>6, <1>7, Numbers DEF Given
  <2>2. link[1][Count] = Count + 1
    BY <1>5, <1>7 DEF InitialLinks, Room
  <2>3. /\ held'[1] = held[1] \cup {Count} /\ list'[1] = Count + 1 /\ free'[1] = free[1] - 1
    BY <1>2, <1>3, <1>4, <1>5, <1>7, <2>2 DEF IInv, TypeOK
  <2>4. held'[1] = 0 .. Given' - 1 /\ free'[1] = Room' - Given' /\ list'[1] = Given'
    BY <1>5, <1>6, <1>7, <2>1, <2>3, Numbers
  <2>5. QED BY <1>4, <1>5, <1>6, <1>7, <1>8, <2>4 DEF Serving, InitialLinks
<1>10. content \in [0 .. MaxObjects -> Int \X Int] /\ EntriesInOrder
  BY DEF PciInv, Described
<1>11. /\ content'[Count] = <<dev, Frame.fn>>
       /\ \A k \in 1 .. Count : content'[k - 1] = content[k - 1]
  <2>1. \A k \in 1 .. Count : k - 1 # Count
    BY <1>6
  <2>2. QED BY <1>7, <1>8, <1>10, <2>1
<1>12. Described'
  <2>1. pc \in InCall
    BY <1>1 DEF InCall, Busy
  <2>2. dev \in Int /\ Frame.fn \in Int
    BY <2>1, TopFrame DEF PciInv
  <2>3. content' \in [0 .. MaxObjects -> Int \X Int]
    BY <1>8, <1>10, <2>2
  <2>4. Frame' = Frame
    BY <1>1 DEF Frame
  <2>5. QED BY <1>1, <1>8, <1>11, <2>3, <2>4 DEF Described, MaxObjects
<1>13. EntriesInOrder'
  BY <1>1, <1>4, <1>6, <1>10 DEF EntriesInOrder
<1>14. \A n : Matched(n) => Matched(n)'
  BY <1>1, <1>4, <1>10, <1>11, MatchedKept
<1>15. pc \in Busy /\ pc' \in Busy
  BY <1>1 DEF Busy
<1>16. Position'
  BY <1>1, <1>14, <1>15, SamePosition
<1>17. Stack'
  BY <1>1, <1>15, SameStack DEF PciInv, Stack
<1>18. DriverRight' /\ bus' \in [Places -> Kinds] /\ dev' \in 0 .. Devs
  BY <1>1 DEF PciInv, DriverRight
<1>19. pc' \in InCall \cup {"next", "find", "stopped"}
  BY <1>15 DEF InCall
<1>20. QED BY <1>3, <1>9, <1>12, <1>13, <1>16, <1>17, <1>18, <1>19 DEF PciInv

\* The page is full, and operator new returns null.
LEMMA RefusedStep ==
    ASSUME PciInv, NewRefused
    PROVE  PciInv'
<1>1. /\ pc = "allocate" /\ pc' = "append" /\ DeviceSlab \in mapped /\ ~HasFreeObjects(DeviceSlab)
      /\ fresh' = Null /\ UNCHANGED vars /\ UNCHANGED <<bus, dev, calls, content, devices, driver>>
  BY DEF NewRefused
<1>2. Serving /\ DeviceSlab = 1
  <2>1. ~Unused /\ ~Starved
    BY <1>1 DEF Unused, Starved
  <2>2. QED BY <2>1, SlabFound DEF PciInv, Serving
<1>3. IInv' /\ IInv
  BY <1>1, IdleSlab DEF PciInv
<1>4. UNCHANGED <<initialised, size, mapped, free, list, link, handles, held, panicked>>
  BY <1>1 DEF vars
<1>5. Count \in Nat /\ Count' = Count /\ Room' = Room /\ EntriesInOrder /\ Described
  BY <1>1 DEF PciInv, EntriesInOrder, Count, Room, Total
<1>6. Count >= Room /\ Given' = Given
  <2>1. free[1] = Room - Given /\ ~(free[1] > 0)
    BY <1>1, <1>2 DEF Serving, HasFreeObjects
  <2>2. Count >= Room
    BY <1>1, <1>5, <2>1, Numbers DEF Given
  <2>3. QED BY <1>5, <2>2 DEF Given
<1>7. Serving'
  BY <1>1, <1>2, <1>4, <1>5, <1>6, Numbers DEF Serving, InitialLinks
<1>8. EntriesInOrder' /\ Described'
  BY <1>1, <1>4, <1>5 DEF EntriesInOrder, Described
<1>9. \A n : Matched(n) => Matched(n)'
  BY <1>1, <1>4, <1>5, MatchedKept
<1>10. pc \in Busy /\ pc' \in Busy
  BY <1>1 DEF Busy
<1>11. Position'
  BY <1>1, <1>9, <1>10, SamePosition
<1>12. Stack'
  BY <1>1, <1>10, SameStack DEF PciInv, Stack
<1>13. DriverRight' /\ bus' \in [Places -> Kinds] /\ dev' \in 0 .. Devs
  BY <1>1 DEF PciInv, DriverRight
<1>14. pc' \in InCall \cup {"next", "find", "stopped"}
  BY <1>10 DEF InCall
<1>15. QED BY <1>3, <1>7, <1>8, <1>11, <1>12, <1>13, <1>14 DEF PciInv

\* VERIFY(m_head != nullptr) stops the kernel.
LEMMA PanicStep ==
    ASSUME PciInv, NewPanics
    PROVE  PciInv'
<1>1. /\ pc = "allocate" /\ pc' = "stopped" /\ AllocatePanic(DeviceSlab)
      /\ UNCHANGED <<bus, dev, calls, fresh, content, devices, driver>>
  BY DEF NewPanics
<1>2. /\ panicked' = TRUE /\ DeviceSlab \in handles \ mapped
      /\ UNCHANGED <<initialised, size, mapped, free, list, link, pages, handles, held>>
  BY <1>1 DEF AllocatePanic
<1>3. panicked' \in BOOLEAN
  BY <1>2, Zenon
<1>4. IInv'
  BY <1>2, <1>3, IdleInv DEF PciInv
<1>5. Starved
  BY <1>1, <1>2 DEF PciInv, Unused, Serving
<1>6. Starved'
  BY <1>1, <1>2, <1>5 DEF Starved, Count
<1>7. Position' /\ DriverRight'
  BY <1>2 DEF Position, DriverRight
<1>8. EntriesInOrder' /\ Described' /\ bus' \in [Places -> Kinds] /\ dev' \in 0 .. Devs
  BY <1>1, <1>2 DEF PciInv, EntriesInOrder, Described, Count, Room
<1>9. Stack'
  <2>1. calls' \in Seq(CallFrames) /\ Len(calls') <= MaxDepth
    BY <1>1 DEF PciInv, Stack
  <2>2. QED BY <1>1, <2>1 DEF Stack, InCall, Busy
<1>10. QED BY <1>1, <1>4, <1>6, <1>7, <1>8, <1>9 DEF PciInv

-----------------------------------------------------------------------------
(* The Vector, and the loop.                                               *)

\* Vector::append adds the new device behind the others.
LEMMA Appends ==
    ASSUME PciInv, pc = "append", devices' = Appended(devices, fresh), pc' # "append", UNCHANGED vars
    PROVE  /\ devices'.items = Append(devices.items, fresh) /\ EntriesInOrder'
           /\ Unused' \/ Serving' \/ Starved'
           /\ (mapped # {} /\ Count < Room) => fresh = Count /\ fresh # Null
<1>1. /\ devices \in [items : Seq(Int), capacity : Nat \ {0}] /\ Count <= devices.capacity
      /\ \A k \in 1 .. Count : devices.items[k] = IF mapped # {} /\ k <= Room THEN k - 1 ELSE Null
  BY DEF PciInv, EntriesInOrder
<1> DEFINE c == devices.capacity
           s == devices.items
<1>2. c \in Nat /\ c >= 1 /\ s \in Seq(Int) /\ Count = Len(s) /\ Count \in Nat /\ Count <= c
  BY <1>1 DEF Count
<1>3. \/ Count = c /\ devices' = [items |-> Append(s, fresh), capacity |-> c * 2]
      \/ Count # c /\ devices' = [items |-> Append(s, fresh), capacity |-> c]
  <2>1. CASE Count = c
    BY <2>1 DEF Appended, GrownItems, Count
  <2>2. CASE Count # c
    <3>1. devices' = [devices EXCEPT !.items = Append(devices.items, fresh)]
      BY <2>2 DEF Appended, Count
    <3>2. devices = [items |-> s, capacity |-> c]
      BY <1>1
    <3>3. QED BY <2>2, <3>1, <3>2
  <2>3. QED BY <2>1, <2>2
<1>4. UNCHANGED <<initialised, size, mapped, free, list, link, handles, held, panicked, pages>> /\ Room' = Room
  BY DEF vars, Room, Total
<1>5. Serving \/ Starved
  BY DEF PciInv, Unused
<1>6. fresh = IF mapped # {} /\ Count < Room THEN Count ELSE Null
  BY <1>5 DEF Serving, Starved
<1>7. fresh \in Int
  BY <1>2, <1>6 DEF Null
<1> HIDE DEF c, s
<1>8. /\ devices'.items = Append(s, fresh) /\ Append(s, fresh) \in Seq(Int)
      /\ devices'.capacity \in Nat \ {0} /\ Count + 1 <= devices'.capacity
      /\ devices' = [items |-> devices'.items, capacity |-> devices'.capacity]
  BY <1>2, <1>3, <1>7
<1>9. Count' = Count + 1
  <2>1. Count' = Len(devices'.items)
    BY DEF Count
  <2>2. QED BY <1>2, <1>7, <1>8, <2>1
<1>10. ASSUME NEW k \in 1 .. Count + 1
       PROVE  devices'.items[k] = IF mapped # {} /\ k <= Room THEN k - 1 ELSE Null
  <2>1. CASE k \in 1 .. Count
    <3>1. devices'.items[k] = s[k]
      BY <1>2, <1>7, <1>8, <2>1
    <3>2. QED BY <1>1, <2>1, <3>1 DEF s
  <2>2. CASE k = Count + 1
    <3>1. devices'.items[k] = fresh
      BY <1>2, <1>7, <1>8, <2>2
    <3>2. k - 1 = Count /\ (k <= Room <=> Count < Room)
      BY <1>2, <2>2, Numbers
    <3>3. QED BY <1>6, <3>1, <3>2
  <2>3. QED BY <1>2, <2>1, <2>2
<1>11. EntriesInOrder'
  <2>1. devices' \in [items : Seq(Int), capacity : Nat \ {0}]
    BY <1>8
  <2>2. QED BY <1>4, <1>8, <1>9, <1>10, <2>1 DEF EntriesInOrder
<1>12. CASE Serving
  <2>1. Given' = Given
    BY <1>2, <1>4, <1>9, Numbers DEF Given
  <2>2. Serving'
    BY <1>4, <1>12, <2>1 DEF Serving, InitialLinks
  <2>3. QED BY <1>2, <1>6, <1>8, <1>11, <2>2 DEF s, Null
<1>13. CASE Starved
  <2>1. Starved'
    BY <1>4, <1>9, <1>13 DEF Starved
  <2>2. QED BY <1>2, <1>6, <1>8, <1>11, <2>1 DEF s, Null
<1>14. QED BY <1>5, <1>12, <1>13

\* The device is listed; if it has more functions the loop begins.
LEMMA AppendStep ==
    ASSUME PciInv, AppendDevice
    PROVE  PciInv'
<1>1. /\ pc = "append" /\ devices' = Appended(devices, fresh) /\ UNCHANGED vars
      /\ UNCHANGED <<bus, dev, fresh, content, driver>>
      /\ \/ IsMulti(Here) /\ pc' = "loop" /\ calls' = calls
         \/ ~IsMulti(Here) /\ Return
  BY DEF AppendDevice
<1>2. /\ pc \in Busy /\ pc \in Busy \cup {"loop"} /\ pc \in InCall /\ Stack /\ IInv
      /\ AtDevice \/ AtFunction \/ Lost
  BY <1>1, Where DEF PciInv, Busy
<1>3. pc' \in {"loop", "next"}
  BY <1>1 DEF Return
<1>4. /\ devices'.items = Append(devices.items, fresh) /\ EntriesInOrder'
      /\ Unused' \/ Serving' \/ Starved'
      /\ (mapped # {} /\ Count < Room) => fresh = Count /\ fresh # Null
  BY <1>1, <1>3, Appends
<1>5. IInv'
  BY <1>1, <1>2, IdleSlab
<1>6. mapped' = mapped
  BY <1>1 DEF vars
<1>7. Described' /\ DriverRight' /\ bus' \in [Places -> Kinds] /\ dev' \in 0 .. Devs
  BY <1>1, <1>3 DEF PciInv, Described, DriverRight
<1>8. pc' \in InCall \cup {"next", "find", "stopped"}
  BY <1>3 DEF InCall
<1>9. /\ Frame = calls[Len(calls)] /\ dev \in 0 .. Devs - 1 /\ Frame.fn \in 0 .. Fns - 1
      /\ Frame.next \in 1 .. Fns /\ Len(calls) \in Nat /\ Len(calls) >= 1
      /\ Len(calls) = 1 => Frame.fn = 0
      /\ Len(calls) > 1 => Frame.fn >= 1 /\ Calling(0)
  BY <1>2, TopFrame
<1>10. Present(bus[<<dev, Frame.fn>>]) /\ (Calling(Frame.fn) <=> IsMulti(Here))
  BY <1>1, <1>2 DEF Stack, Here, Calling
<1> DEFINE x == dev * Fns
           N == Devs * Fns
           f == Frame.fn
<1>11. x \in Nat /\ x + Fns \in 0 .. N /\ N \in Nat /\ InOrder[x + f + 1] = <<dev, f>>
  BY <1>9, NotReached
<1>12. Reachable(<<dev, f>>)
  <2> DEFINE l == Len(calls)
  <2>1. l \in Nat /\ l >= 1 /\ (l = 1 => f = 0) /\ (l > 1 => Calling(0))
    BY <1>9
  <2> HIDE DEF l, f
  <2>2. f = 0 \/ Calling(0)
    BY <2>1
  <2>3. QED BY <1>10, <2>2 DEF Reachable, Calling, f
<1>13. (mapped # {} /\ Count < Room) => content[Count] = <<dev, f>>
  BY <1>1, <1>4 DEF PciInv, Described
<1>14. ASSUME NEW b \in 0 .. N, Matched(x + f), x + f + 1 <= b, ~NestedAt(<<dev, f>>),
              \A j \in x + f + 2 .. b : ~Reachable(InOrder[j])
       PROVE  Matched(b)'
  <2> DEFINE a == x + f
             e == InOrder[a + 1]
  <2>1. e = <<dev, f>>
    BY <1>11
  <2>2. Reachable(e) /\ ~NestedAt(e) /\ ((mapped # {} /\ Count < Room) => content[Count] = e)
    BY <1>12, <1>13, <1>14, <2>1
  <2>3. EntriesInOrder
    BY DEF PciInv
  <2>4. Matched(a) /\ a + 1 <= b /\ \A j \in a + 2 .. b : ~Reachable(InOrder[j])
    BY <1>14
  <2> HIDE DEF a
  <2>5. Reachable(InOrder[a + 1]) /\ ~NestedAt(InOrder[a + 1])
    BY <2>2
  <2>6. (mapped # {} /\ Count < Room) => content[Count] = InOrder[a + 1]
    BY <2>2
  <2> HIDE DEF e
  <2>7. QED BY <1>1, <1>4, <1>6, <1>14, <2>3, <2>4, <2>5, <2>6, MatchedAppends
<1>15. CASE IsMulti(Here) /\ pc' = "loop" /\ calls' = calls
  <2>1. Stack'
    <3>1. Frame' = Frame /\ (\A g : Calling(g)' = Calling(g)) /\ pc' \in InCall
      BY <1>1, <1>15 DEF Frame, Calling, InCall
    <3>2. Calling(Frame.fn)'
      BY <1>10, <1>15, <3>1 DEF Calling
    <3>3. QED BY <1>1, <1>2, <1>15, <3>1, <3>2 DEF Stack, Calling
  <2>2. Position'
    <3>1. CASE AtDevice
      <4>1. f = 0 /\ Matched(x) /\ calls[1].next = 1 /\ Len(calls) = 1
        BY <1>9, <3>1 DEF AtDevice
      <4> HIDE DEF x, N
      <4>2. x + f = x /\ x + 1 \in 0 .. N /\ x + f + 1 <= x + 1 /\ (x + f + 2 .. x + 1) = {}
        BY <1>11, <4>1, Numbers
      <4>3. ~NestedAt(<<dev, f>>)
        BY <4>1 DEF NestedAt
      <4>4. PICK b : b = x + 1
        OBVIOUS
      <4>5. Matched(b)'
        BY <1>14, <4>1, <4>2, <4>3, <4>4
      <4>6. dev' * Fns + calls'[1].next = b
        BY <1>1, <1>15, <4>1, <4>4 DEF x
      <4>7. AtLoop'
        BY <1>15, <4>1, <4>5, <4>6 DEF AtLoop
      <4>8. QED BY <4>7 DEF Position
    <3>2. CASE AtFunction
      <4>1. Len(calls) = 2 /\ calls[2].next = 1 /\ f = calls[2].fn /\ f >= 1
        BY <1>9, <3>2 DEF AtFunction
      <4>2. Calling(calls[2].fn)' /\ calls'[2].next <= calls'[2].fn /\ 2 \in 2 .. Len(calls')
        BY <1>1, <1>10, <1>15, <4>1 DEF Calling
      <4>3. Lost'
        BY <1>15, <4>2 DEF Lost, Trapped
      <4>4. QED BY <4>3 DEF Position
    <3>3. CASE Lost
      <4>1. Lost'
        BY <1>1, <1>15, <3>3 DEF Lost, Trapped, Calling
      <4>2. QED BY <4>1 DEF Position
    <3>4. QED BY <1>2, <3>1, <3>2, <3>3
  <2>3. QED BY <1>4, <1>5, <1>7, <1>8, <2>1, <2>2 DEF PciInv
<1>16. CASE ~IsMulti(Here) /\ Return
  <2>1. /\ Stack' /\ Len(calls') = Len(calls) - 1
        /\ \A k \in 1 .. Len(calls) - 1 : calls'[k] = calls[k]
        /\ pc' = IF Len(calls) = 1 THEN "next" ELSE "loop"
    BY <1>1, <1>2, <1>16, ReturnStack
  <2>2. ~Calling(f) /\ ~NestedAt(<<dev, f>>)
    BY <1>10, <1>16 DEF NestedAt, Here
  <2>3. Position'
    <3>1. CASE AtDevice
      <4>1. f = 0 /\ Matched(x) /\ Len(calls) = 1
        BY <1>9, <3>1 DEF AtDevice
      <4>2. \A j \in x + 2 .. x + Fns : ~Reachable(InOrder[j])
        BY <1>9, <2>2, <4>1, NotReached
      <4> HIDE DEF x, N
      <4>3. x + f = x /\ x + f + 1 <= x + Fns /\ x + f + 2 = x + 2
        BY <1>11, <4>1, Numbers
      <4>4. PICK b : b = x + Fns
        OBVIOUS
      <4>5. Matched(b)'
        BY <1>11, <1>14, <2>2, <4>1, <4>2, <4>3, <4>4
      <4>6. dev' * Fns + Fns = b
        BY <1>1, <4>4 DEF x
      <4>7. AtNext'
        BY <2>1, <4>1, <4>5, <4>6 DEF AtNext
      <4>8. QED BY <4>7 DEF Position
    <3>2. CASE AtFunction
      <4>1. Len(calls) = 2 /\ f = calls[2].fn /\ Matched(x + f) /\ calls[1].next = f + 1
        BY <1>9, <3>2 DEF AtFunction
      <4>2. calls'[1] = calls[1] /\ Len(calls') = 1 /\ pc' = "loop" /\ f \in 0 .. Fns - 1
        BY <1>9, <2>1, <4>1
      <4> HIDE DEF x, N, f
      <4>3. PICK b : b = x + (f + 1)
        OBVIOUS
      <4>4. b \in 0 .. N /\ x + f + 1 <= b /\ (x + f + 2 .. b) = {}
        BY <1>11, <4>2, <4>3, Numbers
      <4>5. Matched(b)'
        BY <1>14, <2>2, <4>1, <4>4
      <4>6. dev' * Fns + calls'[1].next = b
        BY <1>1, <4>1, <4>2, <4>3 DEF x
      <4>7. AtLoop'
        BY <4>2, <4>5, <4>6 DEF AtLoop
      <4>8. QED BY <4>7 DEF Position
    <3>3. CASE Lost
      BY <1>1, <1>16, <2>2, <3>3, StaysLost DEF Position
    <3>4. QED BY <1>2, <3>1, <3>2, <3>3
  <2>4. QED BY <1>4, <1>5, <1>7, <1>8, <2>1, <2>3 DEF PciInv
<1>17. QED BY <1>1, <1>15, <1>16

\* The loop calls read_device_function for the next function.
LEMMA CallStep ==
    ASSUME PciInv, CallFunction
    PROVE  PciInv'
<1>1. /\ pc = "loop" /\ Frame.next < Fns /\ UNCHANGED vars
      /\ UNCHANGED <<bus, dev, fresh, content, devices, driver>>
      /\ \/ /\ Len(calls) < MaxDepth /\ pc' = "call"
            /\ calls' = Append([calls EXCEPT ![Len(calls)].next = @ + 1],
                               [fn |-> Frame.next, next |-> FirstOther])
         \/ Len(calls) = MaxDepth /\ pc' = "overflow" /\ calls' = calls
  BY DEF CallFunction
<1>2. pc \in Busy \cup {"loop"} /\ pc \in InCall /\ Stack /\ IInv /\ (AtLoop \/ Lost)
  BY <1>1, Where DEF PciInv
<1>3. IInv' /\ UNCHANGED <<initialised, size, mapped, free, list, link, handles, held, panicked>> /\ pages' = pages
  BY <1>1, <1>2, IdleSlab DEF vars
<1>4. pc' \in {"call", "overflow"}
  BY <1>1
<1>5. /\ EntriesInOrder' /\ Described' /\ DriverRight' /\ bus' \in [Places -> Kinds]
      /\ \A n : Matched(n) => Matched(n)'
  BY <1>1, <1>3, <1>4, QuietStep
<1>6. Unused' \/ Serving' \/ Starved'
  BY <1>1, <1>3, <1>4, SlabKept DEF PciInv
<1>7. dev' \in 0 .. Devs /\ pc' \in InCall \cup {"next", "find", "stopped"}
  BY <1>1, <1>4 DEF PciInv, InCall, Busy
<1>8. /\ Frame = calls[Len(calls)] /\ dev \in 0 .. Devs - 1 /\ Frame.fn \in 0 .. Fns - 1
      /\ Frame.next \in 1 .. Fns /\ Len(calls) \in Nat /\ Len(calls) >= 1 /\ Calling(Frame.fn)
      /\ calls \in Seq(CallFrames) /\ calls[1].fn = 0
      /\ \A k \in 2 .. Len(calls) : calls[k].fn >= 1 /\ Calling(calls[k - 1].fn)
  BY <1>1, <1>2, TopFrame DEF Stack
<1>9. \A f : Calling(f)' = Calling(f)
  BY <1>1 DEF Calling
<1>10. CASE Len(calls) = MaxDepth /\ pc' = "overflow" /\ calls' = calls
  <2>1. Stack'
    <3>1. Frame' = Frame /\ pc' \in InCall
      BY <1>10 DEF Frame, InCall
    <3>2. Calling(Frame.fn)'
      BY <1>8, <1>9, <3>1 DEF Calling
    <3>3. QED BY <1>1, <1>2, <1>9, <1>10, <3>1, <3>2 DEF Stack, Calling
  <2>2. Position'
    BY <1>10 DEF Position
  <2>3. QED BY <1>3, <1>5, <1>6, <1>7, <2>1, <2>2 DEF PciInv
<1>11. CASE /\ Len(calls) < MaxDepth /\ pc' = "call"
            /\ calls' = Append([calls EXCEPT ![Len(calls)].next = @ + 1],
                               [fn |-> Frame.next, next |-> FirstOther])
  <2> DEFINE n == Len(calls)
             g == [fn |-> Frame.next, next |-> FirstOther]
  <2>1. g \in CallFrames /\ g.fn = Frame.next /\ g.next = 1 /\ g.fn >= 1
    BY <1>1, <1>8, Numbers DEF CallFrames, FirstOther
  <2> HIDE DEF g
  <2>2. /\ calls' \in Seq(CallFrames) /\ Len(calls') = n + 1
        /\ \A k \in 1 .. n - 1 : calls'[k] = calls[k]
        /\ calls'[n].fn = calls[n].fn /\ calls'[n].next = calls[n].next + 1
        /\ calls'[n + 1] = g
    <3>1. calls \in Seq(CallFrames) /\ Len(calls) >= 1 /\ calls[Len(calls)].next < Fns
      BY <1>1, <1>8
    <3>2. calls' = Pushed(calls, g)
      BY <1>11 DEF g, Pushed
    <3>3. QED BY <2>1, <3>1, <3>2, Pushes
  <2>3. n \in Nat /\ n >= 1 /\ n < MaxDepth /\ Frame = calls[n]
    BY <1>8, <1>11
  <2> HIDE DEF n
  <2>4. \A k \in 1 .. n : calls'[k].fn = calls[k].fn
    <3>1. \A k \in 1 .. n : k = n \/ k \in 1 .. n - 1
      BY <2>3
    <3>2. QED BY <2>2, <3>1
  <2>5. Stack'
    <3>1. ASSUME NEW k \in 2 .. n + 1 PROVE calls'[k].fn >= 1 /\ Calling(calls'[k - 1].fn)
      <4>1. CASE k = n + 1
        <5>1. k - 1 = n /\ n \in 1 .. n
          BY <2>3, <4>1
        <5>2. QED BY <1>8, <2>1, <2>2, <2>3, <4>1, <5>1
      <4>2. CASE k # n + 1
        <5>1. k \in 1 .. n /\ k - 1 \in 1 .. n /\ k \in 2 .. n
          BY <2>3, <4>2
        <5>2. QED BY <1>8, <2>4, <5>1 DEF n
      <4>3. QED BY <4>1, <4>2
    <3>2. /\ Len(calls') <= MaxDepth /\ Len(calls') >= 1 /\ calls'[1].fn = 0
      BY <1>8, <2>2, <2>3, <2>4, Numbers
    <3>3. \A k \in 2 .. Len(calls') : calls'[k].fn >= 1 /\ Calling(calls[k - 1].fn)'
      BY <1>9, <2>2, <3>1 DEF Calling
    <3>4. pc' \notin {"slab", "allocate", "append", "next", "find", "overflow", "loop"}
      BY <1>11
    <3>5. dev' \in 0 .. Devs - 1
      BY <1>1, <1>8
    <3>6. QED BY <2>2, <3>2, <3>3, <3>4, <3>5 DEF Stack
  <2>6. CASE AtLoop
    <3>1. n = 1 /\ Matched(dev * Fns + calls[1].next) /\ Frame = calls[1]
      BY <2>3, <2>6 DEF AtLoop, n
    <3>2. PICK v : v = dev * Fns + calls[1].next
      OBVIOUS
    <3>3. Len(calls') = 2 /\ calls'[2] = g /\ calls'[1].next = g.fn + 1
      BY <2>1, <2>2, <3>1
    <3>4. Matched(v)' /\ dev' * Fns + calls'[2].fn = v
      BY <1>1, <1>5, <2>1, <3>1, <3>2, <3>3
    <3>5. pc' \in Busy
      BY <1>11 DEF Busy
    <3>6. AtFunction'
      BY <2>1, <3>3, <3>4, <3>5 DEF AtFunction
    <3>7. Position'
      BY <3>6 DEF Position
    <3>8. QED BY <1>3, <1>5, <1>6, <1>7, <2>5, <3>7 DEF PciInv
  <2>7. CASE Lost
    <3>1. PICK k \in 2 .. n : Calling(calls[k].fn) /\ calls[k].next <= calls[k].fn
      BY <2>7 DEF Lost, Trapped, n
    <3>2. pc' \in Busy
      BY <1>11 DEF Busy
    <3>3. \E j \in 2 .. n + 1 : Calling(calls'[j].fn) /\ calls'[j].next <= calls'[j].fn
      <4>1. CASE k # n
        <5>1. k \in 1 .. n - 1 /\ k \in 2 .. n + 1
          BY <2>3, <4>1
        <5>2. QED BY <2>2, <3>1, <5>1
      <4>2. CASE k = n /\ Frame.next = Frame.fn
        <5>1. n + 1 \in 2 .. n + 1 /\ calls'[n + 1] = g
          BY <2>2, <2>3
        <5>2. Calling(g.fn) /\ g.next <= g.fn
          BY <1>8, <2>1, <4>2
        <5>3. QED BY <5>1, <5>2
      <4>3. CASE k = n /\ Frame.next # Frame.fn
        <5>1. Frame.next + 1 <= Frame.fn /\ n \in 2 .. n + 1
          BY <1>8, <2>3, <3>1, <4>3, Numbers
        <5>2. Calling(calls'[n].fn) /\ calls'[n].next <= calls'[n].fn
          BY <1>8, <2>2, <2>3, <5>1
        <5>3. QED BY <5>1, <5>2
      <4>4. QED BY <4>1, <4>2, <4>3
    <3>4. Trapped'
      BY <1>9, <2>2, <3>3 DEF Trapped, Calling
    <3>5. Position'
      BY <3>2, <3>4 DEF Position, Lost
    <3>6. QED BY <1>3, <1>5, <1>6, <1>7, <2>5, <3>5 DEF PciInv
  <2>8. QED BY <1>2, <2>6, <2>7
<1>12. QED BY <1>1, <1>10, <1>11

\* The loop has called every other function.
LEMMA EndLoopStep ==
    ASSUME PciInv, EndLoop
    PROVE  PciInv'
<1>1. /\ pc = "loop" /\ Frame.next = Fns /\ Return /\ UNCHANGED vars
      /\ UNCHANGED <<bus, dev, fresh, content, devices, driver>>
  BY DEF EndLoop
<1>2. pc \in Busy \cup {"loop"} /\ pc \in InCall /\ Stack /\ IInv /\ (AtLoop \/ Lost)
  BY <1>1, Where DEF PciInv
<1>3. IInv' /\ UNCHANGED <<initialised, size, mapped, free, list, link, handles, held, panicked>> /\ pages' = pages
  BY <1>1, <1>2, IdleSlab DEF vars
<1>4. Stack' /\ pc' = IF Len(calls) = 1 THEN "next" ELSE "loop"
  BY <1>1, <1>2, ReturnStack
<1>5. pc' \in {"next", "loop"}
  BY <1>4
<1>6. /\ EntriesInOrder' /\ Described' /\ DriverRight' /\ bus' \in [Places -> Kinds]
      /\ \A n : Matched(n) => Matched(n)'
  BY <1>1, <1>3, <1>5, QuietStep
<1>7. Unused' \/ Serving' \/ Starved'
  BY <1>1, <1>3, <1>5, SlabKept DEF PciInv
<1>8. dev' \in 0 .. Devs /\ pc' \in InCall \cup {"next", "find", "stopped"}
  BY <1>1, <1>5 DEF PciInv, InCall
<1>9. CASE AtLoop
  <2>1. Len(calls) = 1 /\ Matched(dev * Fns + calls[1].next) /\ calls[1].next = Fns
    BY <1>1, <1>9 DEF AtLoop, Frame
  <2>2. AtNext'
    BY <1>1, <1>4, <1>6, <2>1 DEF AtNext
  <2>3. QED BY <1>3, <1>4, <1>6, <1>7, <1>8, <2>2 DEF PciInv, Position
<1>10. CASE Lost
  <2>1. Lost'
    BY <1>1, <1>10, StaysLost
  <2>2. QED BY <1>3, <1>4, <1>6, <1>7, <1>8, <2>1 DEF PciInv, Position
<1>11. QED BY <1>2, <1>9, <1>10

\* initialise_legacy goes to the next device.
LEMMA NextDeviceStep ==
    ASSUME PciInv, NextDevice
    PROVE  PciInv'
<1>1. /\ pc = "next" /\ dev' = dev + 1 /\ UNCHANGED vars
      /\ UNCHANGED <<bus, fresh, content, devices, driver>>
      /\ \/ dev + 1 < Devs /\ pc' = "call" /\ calls' = <<[fn |-> 0, next |-> 1]>>
         \/ dev + 1 = Devs /\ pc' = "find" /\ calls' = calls
  BY DEF NextDevice, FirstOther
<1>2. Stack /\ IInv /\ AtNext /\ dev \in 0 .. Devs - 1
  BY <1>1, Where DEF PciInv, Stack
<1>3. IInv' /\ UNCHANGED <<initialised, size, mapped, free, list, link, handles, held, panicked>> /\ pages' = pages
  BY <1>1, <1>2, IdleSlab DEF vars
<1>4. pc' \in {"call", "find"}
  BY <1>1
<1>5. /\ EntriesInOrder' /\ Described' /\ DriverRight' /\ bus' \in [Places -> Kinds]
      /\ \A n : Matched(n) => Matched(n)'
  BY <1>1, <1>3, <1>4, QuietStep
<1>6. Unused' \/ Serving' \/ Starved'
  BY <1>1, <1>3, <1>4, SlabKept DEF PciInv
<1>7. dev' \in 0 .. Devs /\ pc' \in InCall \cup {"next", "find", "stopped"} /\ dev \in Nat
  BY <1>1, <1>2, <1>4, Numbers DEF InCall, Busy
<1>8. PICK v : v = dev * Fns + Fns
  OBVIOUS
<1>9. Matched(v)' /\ dev' * Fns = v
  <2>1. (dev + 1) * Fns = dev * Fns + Fns
    BY <1>7, Numbers, Z3
  <2>2. QED BY <1>1, <1>2, <1>5, <1>8, <2>1 DEF AtNext
<1>10. CASE dev + 1 < Devs /\ pc' = "call" /\ calls' = <<[fn |-> 0, next |-> 1]>>
  <2> DEFINE f == [fn |-> 0, next |-> 1]
  <2>1. f \in CallFrames /\ f.fn = 0 /\ f.next = 1
    BY Numbers DEF CallFrames
  <2> HIDE DEF f
  <2>2. calls' = <<f>>
    BY <1>10 DEF f
  <2>3. calls' \in Seq(CallFrames) /\ Len(calls') = 1 /\ calls'[1] = f
    BY <2>1, <2>2
  <2>4. dev' \in 0 .. Devs - 1 /\ Len(calls') <= MaxDepth
    BY <1>1, <1>7, <1>10, <2>3, Numbers
  <2>5. Stack'
    BY <1>10, <2>1, <2>3, <2>4 DEF Stack
  <2>6. pc' \in Busy
    BY <1>10 DEF Busy
  <2>7. AtDevice'
    BY <1>9, <2>1, <2>3, <2>6 DEF AtDevice
  <2>8. QED BY <1>3, <1>5, <1>6, <1>7, <2>5, <2>7 DEF PciInv, Position
<1>11. CASE dev + 1 = Devs /\ pc' = "find" /\ calls' = calls
  <2>1. dev' = Devs
    BY <1>1, <1>11
  <2>2. calls' \in Seq(CallFrames) /\ Len(calls') <= MaxDepth
    BY <1>2, <1>11 DEF Stack
  <2>3. Stack'
    BY <1>11, <2>1, <2>2 DEF Stack, InCall, Busy
  <2>4. AtEnd'
    BY <1>9, <1>11, <2>1 DEF AtEnd
  <2>5. QED BY <1>3, <1>5, <1>6, <1>7, <2>3, <2>4 DEF PciInv, Position
<1>12. QED BY <1>1, <1>10, <1>11

-----------------------------------------------------------------------------
(* find_device.                                                            *)

\* A set of numbers that is not empty has a least member.
LEMMA Least ==
    ASSUME NEW S, S \subseteq Nat, S # {}
    PROVE  FirstSuch(S) \in S /\ \A t \in S : FirstSuch(S) <= t
<1> DEFINE R == OpToRel(<, Nat)
<1>1. IsWellFoundedOn(R, Nat)
  BY NatLessThanWellFounded, Zenon
<1>2. \A i, j \in Nat : i < j => <<i, j>> \in R
  BY DEF OpToRel
<1> HIDE DEF R
<1>3. PICK x \in S : \A m \in S : ~ (<<m, x>> \in R)
  BY <1>1, WFMin
<1>4. x \in Nat /\ \A m \in S : m \in Nat /\ ~(m < x)
  BY <1>2, <1>3
<1>5. \A m \in S : x <= m
  BY <1>4
<1>6. QED BY <1>3, <1>5 DEF FirstSuch

\* The item that find_device returns, when address zero reads as low.
Hits(low) ==
    {k \in DOMAIN devices.items :
        IF devices.items[k] = Null THEN low ELSE Matches(bus[content[devices.items[k]]])}
Found(low) == IF Hits(low) = {} THEN Null ELSE devices.items[FirstSuch(Hits(low))]

\* On a complete list it is the first block device.
LEMMA FoundRight ==
    ASSUME EntriesInOrder, Matched(Devs * Fns), NEW low \in BOOLEAN
    PROVE  LET B == {k \in DOMAIN Expected : bus[Expected[k]][1] = "blk"}
               nulls == {k \in DOMAIN devices.items : devices.items[k] = Null}
           IN  IF Found(low) = Null THEN B = {} \/ nulls # {}
               ELSE B # {} /\ content[Found(low)] = Expected[FirstSuch(B)]
<1> DEFINE s == devices.items
           B == {k \in DOMAIN Expected : bus[Expected[k]][1] = "blk"}
           nulls == {k \in DOMAIN s : s[k] = Null}
           H == Hits(low)
<1>1. s \in Seq(Int) /\ Count = Len(s) /\ Count \in Nat /\ DOMAIN s = 1 .. Count
  BY DEF EntriesInOrder, Count
<1>2. Devs * Fns \in Nat /\ Expected \in Seq(Places) /\ Len(Expected) = Count
  BY ListedType, InOrderPlaces DEF Expected, Matched
<1>3. DOMAIN Expected = 1 .. Count
  BY <1>2
<1>4. \A k \in 1 .. Count : s[k] = IF mapped # {} /\ k <= Room THEN k - 1 ELSE Null
  BY DEF EntriesInOrder
<1>5. \A k \in 1 .. Count : (mapped # {} /\ k <= Room) => content[k - 1] = Expected[k]
  BY DEF Matched, Expected
<1>6. ASSUME NEW k \in 1 .. Count, s[k] # Null
      PROVE  /\ mapped # {} /\ k <= Room /\ s[k] = k - 1 /\ content[s[k]] = Expected[k]
             /\ k \in H <=> k \in B
  <2>1. mapped # {} /\ k <= Room /\ s[k] = k - 1 /\ content[s[k]] = Expected[k]
    BY <1>4, <1>5, <1>6
  <2>2. k \in H <=> Matches(bus[content[s[k]]])
    BY <1>1, <1>6 DEF Hits
  <2>3. k \in B <=> bus[Expected[k]][1] = "blk"
    BY <1>3
  <2>4. QED BY <2>1, <2>2, <2>3 DEF Matches
<1>7. CASE H = {}
  <2>1. Found(low) = Null
    BY <1>7 DEF Found
  <2>2. ASSUME nulls = {}, NEW k \in B PROVE FALSE
    <3>1. k \in 1 .. Count /\ s[k] # Null
      BY <1>1, <1>3, <2>2
    <3>2. QED BY <1>6, <1>7, <2>2, <3>1
  <2>3. QED BY <2>1, <2>2
<1>8. CASE H # {}
  <2> DEFINE m == FirstSuch(H)
  <2>1. H \subseteq 1 .. Count /\ H \subseteq Nat
    BY <1>1 DEF Hits
  <2>2. m \in H /\ \A t \in H : m <= t
    BY <1>8, <2>1, Least
  <2>3. Found(low) = s[m] /\ m \in 1 .. Count
    BY <1>8, <2>1, <2>2 DEF Found
  <2> HIDE DEF m
  <2>4. CASE s[m] = Null
    BY <1>1, <2>3, <2>4
  <2>5. CASE s[m] # Null
    <3>1. mapped # {} /\ m <= Room /\ content[s[m]] = Expected[m] /\ m \in B
      BY <1>6, <2>2, <2>3, <2>5
    <3>2. ASSUME NEW j \in B, ~(m <= j) PROVE FALSE
      <4>1. j \in 1 .. Count /\ j < m /\ j <= Room
        BY <1>1, <1>3, <2>3, <3>1, <3>2, Numbers
      <4>2. s[j] = j - 1 /\ j - 1 # -1
        BY <1>4, <3>1, <4>1
      <4>3. j \in H
        BY <1>6, <3>2, <4>1, <4>2 DEF Null
      <4>4. QED BY <2>2, <3>2, <4>3
    <3>3. B \subseteq Nat
      BY <1>3
    <3> HIDE DEF B
    <3>4. FirstSuch(B) = m
      BY <3>1, <3>2, <3>3, FirstIs
    <3>5. QED BY <2>3, <2>5, <3>1, <3>4 DEF B
  <2>6. QED BY <2>4, <2>5
<1>9. QED BY <1>7, <1>8

\* detect_and_init looks for its device.
LEMMA FindDeviceStep ==
    ASSUME PciInv, FindDevice
    PROVE  PciInv'
<1>1. /\ pc = "find" /\ pc' = "stopped" /\ UNCHANGED vars
      /\ UNCHANGED <<bus, dev, calls, fresh, content, devices>>
  BY DEF FindDevice
<1>2. PICK low \in BOOLEAN : driver' = Found(low)
  BY DEF FindDevice, Found, Hits
<1>3. Stack /\ IInv /\ AtEnd /\ EntriesInOrder /\ Described /\ Matched(Devs * Fns) /\ dev \in 0 .. Devs
  BY <1>1, Where DEF PciInv, AtEnd
<1>4. IInv' /\ UNCHANGED <<initialised, size, mapped, free, list, link, handles, held, panicked>> /\ pages' = pages
  BY <1>1, <1>3, IdleSlab DEF vars
<1>5. EntriesInOrder' /\ Described' /\ bus' \in [Places -> Kinds] /\ dev' \in 0 .. Devs
  BY <1>1, <1>3, <1>4 DEF PciInv, EntriesInOrder, Described, Count, Room
<1>6. Unused' \/ Serving' \/ Starved'
  BY <1>1, <1>4, SlabKept DEF PciInv
<1>7. Stack'
  <2>1. calls' \in Seq(CallFrames) /\ Len(calls') <= MaxDepth
    BY <1>1, <1>3 DEF Stack
  <2>2. QED BY <1>1, <2>1 DEF Stack, InCall, Busy
<1>8. Position'
  <2>1. \A n : Matched(n) => Matched(n)'
    BY <1>1, <1>3, <1>4, MatchedKept
  <2>2. AtEnd'
    BY <1>1, <1>3, <2>1 DEF AtEnd
  <2>3. QED BY <2>2 DEF Position
<1>9. DriverRight'
  <2>1. Expected' = Expected
    BY <1>1, ListedKept DEF Expected
  <2>2. QED BY <1>1, <1>2, <1>3, <2>1, FoundRight DEF DriverRight
<1>10. QED BY <1>1, <1>4, <1>5, <1>6, <1>7, <1>8, <1>9 DEF PciInv

\* Nothing happens.
LEMMA StillStep ==
    ASSUME PciInv, UNCHANGED allVars
    PROVE  PciInv'
<1>1. UNCHANGED vars /\ UNCHANGED <<bus, pc, dev, calls, fresh, content, devices, driver>>
  BY DEF allVars, pvars
<1>2. IInv' /\ UNCHANGED <<initialised, size, mapped, free, list, link, handles, held, panicked>> /\ pages' = pages
  BY <1>1, IdleSlab DEF PciInv, vars
<1>3. EntriesInOrder' /\ Described' /\ bus' \in [Places -> Kinds] /\ dev' \in 0 .. Devs
      /\ pc' \in InCall \cup {"next", "find", "stopped"}
  BY <1>1, <1>2 DEF PciInv, EntriesInOrder, Described, Count, Room, Frame
<1>4. Stack'
  BY <1>1 DEF PciInv, Stack, Calling, Frame, Here
<1>5. Unused' \/ Serving' \/ Starved'
  <2>1. Count' = Count /\ Room' = Room /\ Given' = Given
    BY <1>1 DEF Count, Room, Total, Given
  <2>2. QED BY <1>1, <1>2, <2>1 DEF PciInv, Unused, Serving, Starved, InitialLinks
<1>6. Position'
  <2>1. \A n : Matched(n) => Matched(n)'
    BY <1>1, <1>2, MatchedKept DEF PciInv
  <2>2. AtDevice => AtDevice'
    BY <1>1, <2>1 DEF AtDevice
  <2>3. AtFunction => AtFunction'
    BY <1>1, <2>1 DEF AtFunction
  <2>4. AtLoop => AtLoop'
    BY <1>1, <2>1 DEF AtLoop
  <2>5. AtNext => AtNext'
    BY <1>1, <2>1 DEF AtNext
  <2>6. AtEnd => AtEnd'
    BY <1>1, <2>1 DEF AtEnd
  <2>7. Lost => Lost'
    BY <1>1 DEF Lost, Trapped, Calling
  <2>8. QED BY <1>1, <1>2, <2>2, <2>3, <2>4, <2>5, <2>6, <2>7 DEF PciInv, Position
<1>7. DriverRight'
  <2>1. Expected' = Expected
    BY <1>1, ListedKept DEF Expected
  <2>2. QED BY <1>1, <1>2, <2>1 DEF PciInv, DriverRight
<1>8. QED BY <1>2, <1>3, <1>4, <1>5, <1>6, <1>7 DEF PciInv

-----------------------------------------------------------------------------
(* The theorems.                                                           *)

\* Every step preserves the invariant.
LEMMA PciStepInv == PciInv /\ [PciNext]_allVars => PciInv'
<1> SUFFICES ASSUME PciInv, [PciNext]_allVars PROVE PciInv'
  OBVIOUS
<1>1. CASE OthersTakePages
  BY <1>1, OthersStep
<1>2. CASE ReadAbsent
  BY <1>2, AbsentStep
<1>3. CASE ReadPresent
  BY <1>3, PresentStep
<1>4. CASE GetSlab
  <2>1. pc = "slab" /\ UNCHANGED <<bus, dev, calls, content, devices, driver>>
    BY <1>4 DEF GetSlab
  <2>2. CASE FindSlab(DevSize) /\ pc' = "allocate" /\ UNCHANGED fresh
    BY <2>1, <2>2, FindSlabStep
  <2>3. CASE CreateSlab(DevSize) /\ pc' = (IF pages > 0 THEN "allocate" ELSE "append") /\ fresh' = Null
    BY <2>1, <2>3, CreateSlabStep
  <2>4. QED BY <1>4, <2>2, <2>3 DEF GetSlab
<1>5. CASE NewDevice
  BY <1>5, NewDeviceStep
<1>6. CASE NewRefused
  BY <1>6, RefusedStep
<1>7. CASE NewPanics
  BY <1>7, PanicStep
<1>8. CASE AppendDevice
  BY <1>8, AppendStep
<1>9. CASE CallFunction
  BY <1>9, CallStep
<1>10. CASE EndLoop
  BY <1>10, EndLoopStep
<1>11. CASE NextDevice
  BY <1>11, NextDeviceStep
<1>12. CASE FindDevice
  BY <1>12, FindDeviceStep
<1>13. CASE UNCHANGED allVars
  BY <1>13, StillStep
<1>14. QED
  BY <1>1, <1>2, <1>3, <1>4, <1>5, <1>6, <1>7, <1>8, <1>9, <1>10, <1>11, <1>12, <1>13
  DEF PciNext, PciStep, Ended

\* The scan of read_device_function, with Device::operator new and Vector::append
\* in it, keeps the invariant, on every bus and whatever pages are left.
THEOREM ScanInvariance == PciSpec => []PciInv
<1>1. PciInit => PciInv
  BY InitPci
<1>2. PciInv /\ [PciNext]_allVars => PciInv'
  BY PciStepInv
<1>3. QED BY <1>1, <1>2, PTL DEF PciSpec

\* A scan that has ended has made the whole list.
LEMMA ScannedList ==
    ASSUME PciInv, Scanned
    PROVE  Matched(Devs * Fns)
BY DEF PciInv, Scanned, Position, AtDevice, AtFunction, AtLoop, AtNext, AtEnd, Lost, Busy

\* m_devices is the bus: a finished scan lists each reachable function once and in
\* order, null exactly where the slab's one page is used up, and no object twice.
THEOREM TheListIsTheBus == PciSpec => []ListSound
<1>1. PciInv => ListSound
  <2> SUFFICES ASSUME PciInv PROVE ListSound
    OBVIOUS
  <2> DEFINE s == devices.items
  <2>1. s \in Seq(Int) /\ Count = Len(s) /\ Count \in Nat /\ DOMAIN s = 1 .. Count
    BY DEF PciInv, EntriesInOrder, Count
  <2>2. \A k \in 1 .. Count : s[k] = IF mapped # {} /\ k <= Room THEN k - 1 ELSE Null
    BY DEF PciInv, EntriesInOrder
  <2>3. PciTypeOK
    <3>1. TypeOK /\ dev \in 0 .. Devs /\ Len(calls) <= MaxDepth /\ Len(devices.items) <= devices.capacity
      BY DEF PciInv, IInv, Stack, EntriesInOrder, Count
    <3>2. pc \in {"boot", "call", "slab", "allocate", "append", "loop", "next", "find",
                  "stopped", "overflow"}
      BY DEF PciInv, InCall, Busy
    <3>3. QED BY <3>1, <3>2 DEF PciTypeOK
  <2>4. ScanExact
    <3> SUFFICES ASSUME Scanned
                 PROVE  /\ Len(s) = Len(Expected)
                        /\ \A k \in DOMAIN s :
                            IF k <= Total(DevSize) /\ mapped # {}
                            THEN s[k] # Null /\ content[s[k]] = Expected[k]
                            ELSE s[k] = Null
      BY DEF ScanExact
    <3>1. /\ Count = Len(Expected)
          /\ \A k \in 1 .. Count : (mapped # {} /\ k <= Room) => content[k - 1] = Expected[k]
      BY ScannedList DEF Matched, Expected
    <3>2. ASSUME NEW k \in 1 .. Count
          PROVE  IF k <= Room /\ mapped # {}
                 THEN s[k] # Null /\ content[s[k]] = Expected[k]
                 ELSE s[k] = Null
      BY <2>1, <2>2, <3>1 DEF Null
    <3>3. QED BY <2>1, <3>1, <3>2 DEF Room
  <2>5. DevicesApart
    <3> SUFFICES ASSUME NEW j \in 1 .. Count, NEW k \in 1 .. Count, s[k] # Null
                 PROVE  /\ s[k] \in Objects(DeviceSlab) \cap held[DeviceSlab]
                        /\ s[j] = s[k] => j = k
      BY <2>1 DEF DevicesApart
    <3>1. mapped # {} /\ k <= Room /\ s[k] = k - 1
      BY <2>2
    <3>2. Serving
      BY <3>1 DEF PciInv, Unused, Starved
    <3>3. DeviceSlab = 1 /\ 1 \in mapped /\ size[1] = DevSize /\ held[1] = 0 .. Given - 1
      BY <3>2, SlabFound DEF Serving
    <3>4. Objects(1) = 0 .. Room - 1
      BY <3>3 DEF Objects, Room
    <3>5. Given \in Nat /\ k <= Given
      BY <2>1, <3>1, Numbers DEF Given
    <3>6. k - 1 \in 0 .. Room - 1 /\ k - 1 \in 0 .. Given - 1
      BY <2>1, <3>1, <3>5, Numbers
    <3>7. s[j] = s[k] => j = k
      BY <2>1, <2>2, <3>1 DEF Null
    <3>8. QED BY <3>1, <3>3, <3>4, <3>6, <3>7
  <2>6. QED BY <2>3, <2>4, <2>5 DEF ListSound
<1>2. QED BY <1>1, ScanInvariance, PTL

\* The recursion of read_device_function runs out of stack only where a function
\* other than 0 has the multifunction bit, no scan of such a bus ends, and VERIFY
\* in Slab::allocate fails only when the slab got no page.
THEOREM StopsAreExplained == PciSpec => []StopsExplained
<1>1. PciInv => StopsExplained
  <2> SUFFICES ASSUME PciInv PROVE StopsExplained
    OBVIOUS
  <2>1. ASSUME pc = "overflow" PROVE Nested
    <3>1. Stack /\ pc \in InCall /\ Len(calls) = MaxDepth
      BY <2>1 DEF PciInv, Stack, InCall
    <3>2. 2 \in 2 .. Len(calls) /\ 3 \in 2 .. Len(calls) /\ 2 \in 1 .. Len(calls) /\ 3 - 1 = 2 /\ 2 - 1 = 1
      BY <3>1, Numbers
    <3>3. dev \in 0 .. Devs - 1 /\ calls[2] \in CallFrames
      BY <3>1, <3>2, TopFrame
    <3>4. calls[2].fn >= 1 /\ Calling(calls[2].fn) /\ Calling(calls[1].fn) /\ calls[1].fn = 0
      BY <3>1, <3>2 DEF Stack
    <3> DEFINE p == <<dev, calls[2].fn>>
    <3>5. p \in Places /\ p[1] = dev /\ p[2] = calls[2].fn
      BY <3>3 DEF Places, CallFrames
    <3>6. p[2] > 0
      BY <3>3, <3>4, <3>5 DEF CallFrames
    <3>7. Reachable(p) /\ IsMulti(bus[p])
      BY <3>4, <3>5 DEF Reachable, Calling
    <3>8. QED BY <3>5, <3>6, <3>7 DEF Nested
  <2>2. ASSUME Scanned, Nested PROVE FALSE
    <3>1. PICK p \in Places : Reachable(p) /\ p[2] > 0 /\ IsMulti(bus[p])
      BY <2>2 DEF Nested
    <3>2. PICK d \in 0 .. Devs - 1, f \in 0 .. Fns - 1 : p = <<d, f>>
      BY DEF Places
    <3>3. PICK n : n = d * Fns + f + 1
      OBVIOUS
    <3>4. n \in 1 .. Devs * Fns /\ InOrder[n] = p
      BY <3>2, <3>3, Index
    <3>5. ~NestedAt(InOrder[n])
      BY <2>2, <3>4, ScannedList DEF Matched
    <3>6. QED BY <3>1, <3>4, <3>5 DEF NestedAt
  <2>3. ASSUME panicked PROVE pages = 0 /\ mapped = {} /\ devices.items = <<Null>>
    <3>1. Starved /\ pc = "stopped"
      BY <2>3 DEF PciInv, Unused, Serving, Starved
    <3>2. pages = 0 /\ mapped = {} /\ Count = 1
      BY <3>1 DEF Starved
    <3>3. devices.items \in Seq(Int) /\ Len(devices.items) = 1
      BY <3>2 DEF PciInv, EntriesInOrder, Count
    <3>4. devices.items[1] = Null
      BY <3>2 DEF PciInv, EntriesInOrder
    <3>5. QED BY <3>2, <3>3, <3>4
  <2>4. QED BY <2>1, <2>2, <2>3 DEF StopsExplained, OverflowExplained, PanicExplained
<1>2. QED BY <1>1, ScanInvariance, PTL

\* detect_and_init works with the first block device of the bus, or with a null
\* pointer where there is none or a null entry hides it.
THEOREM DriverIsRight == PciSpec => []DriverRight
<1>1. PciInv => DriverRight
  BY DEF PciInv
<1>2. QED BY <1>1, ScanInvariance, PTL
=============================================================================
