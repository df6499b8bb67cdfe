----------------------------- MODULE BootProofs -----------------------------
(***************************************************************************)
(* Proofs about how the machine starts.                                    *)
(*                                                                         *)
(* ApBoot, for every number of processors, page size and length of         *)
(* ap_stage2: the invariant says where every processor is relative to the  *)
(* one that the boot processor is starting.  Those before it have          *)
(* reported, those after it are off, and the spinlock is up as long as it  *)
(* has not reported itself.  So nobody reads the word with the stack while *)
(* it changes.                                                             *)
(*                                                                         *)
(* BootLayout, for every memory, every kernel that is linked in order and  *)
(* every size: the invariant says which frames are the loader's and that   *)
(* its runs stay apart from the buffer that get_memory_map may release,    *)
(* how the sizes of the runs follow from what was counted, and what each   *)
(* step of init() has left for those after it.                             *)
(***************************************************************************)
EXTENDS ApBoot, BootLayout, FiniteSetTheorems, SequenceTheorems, WellFoundedInduction, TLAPS

-----------------------------------------------------------------------------
(* The other processors: the inductive invariant.                          *)

Pcs == {"off", "wait", "cr3", "main", "rsp", "push", "stage2", "booted", "halted"}

Reported == {"booted", "halted"}
Starting == {"cr3", "main", "rsp", "push", "stage2"}

ApTypes ==
    /\ present \subseteq Ids /\ cpu \in 1 .. Cpus
    /\ bsp \in {"prepare", "stack", "lock", "init", "sipi", "spin", "done"}
    /\ low \in [0 .. Cpus * PageWords - 1 -> Int]
    /\ ap \in [Ids -> [pc : Pcs, rsp : Int, left : 0 .. Accesses]]

Flags == spin \in BOOLEAN /\ mapped \in BOOLEAN /\ reset \in BOOLEAN

\* A stack pointer is 0 or that of the processor.
Stacks ==
    \A i \in Ids :
        /\ ap[i].rsp = 0 \/ ap[i].rsp = StackFor(i)
        /\ ap[i].pc \in {"push", "stage2", "booted", "halted"} => ap[i].rsp = StackFor(i)

\* The variables of the trampoline hold what the processor being started
\* needs.
Words ==
    /\ bsp # "prepare" => low[Cr3Var] = Cr3 /\ low[MainVar] = ApMain
    /\ bsp \in {"lock", "init", "sipi", "spin"} => low[StackVar] = StackFor(cpu)

\* One processor at a time.
Order ==
    /\ \A i \in Ids : i < cpu => ap[i].pc \in Reported
    /\ \A i \in Ids : i > cpu => ap[i].pc = "off"
    /\ cpu \in Ids /\ bsp \in {"prepare", "stack", "lock", "init"} => ap[cpu].pc = "off"
    /\ bsp \in {"lock", "init", "sipi", "spin"} => cpu \in Ids
    /\ bsp = "sipi" => ap[cpu].pc \in {"off", "wait"}
    /\ bsp = "spin" /\ spin => ap[cpu].pc \in {"off"} \cup Starting
    /\ bsp = "spin" /\ ~spin => ap[cpu].pc \in Reported
    /\ bsp \in {"init", "sipi"} => spin
    /\ bsp = "done" => cpu = Cpus

Mapping == (~mapped => bsp = "done") /\ (reset => ~mapped)

IInv == ApTypes /\ Flags /\ Stacks /\ Words /\ Order /\ Mapping

-----------------------------------------------------------------------------

\* The stack of a processor ends above the trampoline's page and starts within
\* the low memory: the pages of ACPI::start_application_processors.
LEMMA StackPlace ==
    ASSUME NEW i \in Ids
    PROVE  /\ i \in Int /\ i >= 1 /\ i < Cpus
           /\ StackFor(i) \in Int
           /\ StackFor(i) >= 2 * PageWords
           /\ StackFor(i) <= Cpus * PageWords
<1>1. /\ i \in Int /\ i >= 1 /\ i <= Cpus - 1
      /\ Cpus \in Int /\ PageWords \in Int /\ PageWords > 6
  BY ApAssumption DEF Ids
<1>2. i * PageWords \in Int /\ i * PageWords >= PageWords
  BY <1>1
<1>3. /\ (i + 1) * PageWords \in Int /\ Cpus * PageWords \in Int
      /\ (i + 1) * PageWords <= Cpus * PageWords
  BY <1>1
<1>4. (i + 1) * PageWords = PageWords + i * PageWords
  BY <1>1
<1> QED
  BY <1>1, <1>2, <1>3, <1>4 DEF StackFor, StackBase

\* The words of the trampoline are distinct and below every stack.
LEMMA VarPlace ==
    /\ StackVar \in 0 .. Cpus * PageWords - 1
    /\ MainVar \in 0 .. Cpus * PageWords - 1
    /\ Cr3Var \in 0 .. Cpus * PageWords - 1
    /\ StackVar # MainVar /\ StackVar # Cr3Var /\ MainVar # Cr3Var
    /\ StackVar < PageWords /\ MainVar < PageWords /\ Cr3Var < PageWords
<1>1. /\ Cpus \in Int /\ PageWords \in Int /\ PageWords > 6 /\ Cpus >= 2
  BY ApAssumption
<1>2. Cpus * PageWords \in Int /\ Cpus * PageWords >= PageWords
  BY <1>1
<1> QED
  BY <1>1, <1>2 DEF StackVar, MainVar, Cr3Var

\* A push to the stack of a processor leaves the trampoline's words alone.
LEMMA PushApart ==
    ASSUME NEW i \in Ids
    PROVE  /\ StackFor(i) - 1 \notin {StackVar, MainVar, Cr3Var}
           /\ StackFor(i) - 2 \notin {StackVar, MainVar, Cr3Var}
<1>1. PageWords \in Int /\ PageWords > 6
  BY ApAssumption
<1> QED
  BY <1>1, StackPlace, VarPlace DEF StackVar, MainVar, Cr3Var

\* Writing words keeps low memory a function of words.
LEMMA Update ==
    ASSUME NEW S, NEW f \in [S -> Int], NEW a, NEW b, NEW v \in Int
    PROVE  /\ [f EXCEPT ![a] = v] \in [S -> Int]
           /\ \A w \in Int : [f EXCEPT ![a] = w, ![b] = v] \in [S -> Int]
  OBVIOUS

\* The constants that stand for contents of words are words.
LEMMA Values == Cr3 \in Int /\ ApMain \in Int /\ Pushed \in Int
  BY DEF Cr3, ApMain, Pushed

\* A processor between SIPI and report is the one that is being started.
LEMMA OneStarts ==
    ASSUME IInv, NEW i \in Ids, ap[i].pc \in Starting
    PROVE  i = cpu /\ bsp = "spin" /\ spin
<1>1. i \in Int /\ cpu \in Int /\ i < Cpus
  BY ApAssumption DEF IInv, ApTypes, Ids
<1>2. ~(i < cpu) /\ ~(i > cpu)
  BY DEF IInv, Order, Reported, Starting
<1>3. i = cpu
  BY <1>1, <1>2
<1>4. bsp \notin {"prepare", "stack", "lock", "init"}
  BY <1>3 DEF IInv, Order, Starting
<1>5. bsp # "sipi"
  BY <1>3 DEF IInv, Order, Starting
<1>6. bsp # "done"
  BY <1>1, <1>3 DEF IInv, Order
<1>7. bsp = "spin"
  BY <1>4, <1>5, <1>6 DEF IInv, ApTypes
<1>8. spin
  BY <1>3, <1>7 DEF IInv, Order, Reported, Starting
<1> QED
  BY <1>3, <1>7, <1>8

\* The invariant holds when start_application_processors is called.
LEMMA Initial == ApInit => IInv
<1> SUFFICES ASSUME ApInit PROVE IInv
  OBVIOUS
<1>1. Cpus \in Nat /\ Cpus >= 2 /\ Accesses \in Nat
  BY ApAssumption
<1>2. ApTypes
  <2>1. present \subseteq Ids /\ cpu \in 1 .. Cpus /\ bsp = "prepare"
    BY <1>1 DEF ApInit
  <2>2. low \in [0 .. Cpus * PageWords - 1 -> Int]
    BY DEF ApInit, Other
  <2>3. ap \in [Ids -> [pc : Pcs, rsp : Int, left : 0 .. Accesses]]
    BY <1>1 DEF ApInit, Pcs
  <2> QED
    BY <2>1, <2>2, <2>3 DEF ApTypes
<1>3. Flags
  BY DEF ApInit, Flags
<1>4. Stacks /\ Words /\ Order /\ Mapping
  BY <1>1 DEF ApInit, Stacks, Words, Order, Mapping, Ids, Reported, Starting
<1> QED
  BY <1>2, <1>3, <1>4 DEF IInv

\* Every step of the boot processor and of the started ones preserves it.
LEMMA Inductive == IInv /\ [ApNext]_apVars => IInv'
<1> SUFFICES ASSUME IInv, [ApNext]_apVars PROVE IInv'
  OBVIOUS
<1> USE DEF IInv
<1>c. Cpus \in Int /\ Cpus >= 2 /\ Accesses \in Nat /\ PageWords \in Int /\ PageWords > 6
  BY ApAssumption
<1>1. CASE Prepare
  <2>1. ApTypes'
    <3>1. low' \in [0 .. Cpus * PageWords - 1 -> Int]
      BY <1>1, Update, Values DEF Prepare, ApTypes
    <3> QED
      BY <3>1, <1>1 DEF Prepare, ApTypes
  <2>2. Flags'
    BY <1>c, VarPlace, <1>1 DEF Prepare, Flags
  <2>3. Stacks'
    BY <1>c, VarPlace, <1>1 DEF Prepare, Stacks, ApTypes, Words, Order, Ids, Pcs, Reported, Starting
  <2>4. Words'
    BY <1>c, VarPlace, <1>1 DEF Prepare, Words, ApTypes, Order, Stacks, Ids
  <2>5. Order'
    BY <1>c, VarPlace, <1>1 DEF Prepare, Order, ApTypes, Flags, Words, Ids, Pcs, Reported, Starting
  <2>6. Mapping'
    BY <1>c, VarPlace, <1>1 DEF Prepare, Mapping, Order, ApTypes, Reported, Starting
  <2> QED
    BY <2>1, <2>2, <2>3, <2>4, <2>5, <2>6
<1>2. CASE WriteStack
  <2>1. ApTypes'
    <3>1. cpu \in Ids
      BY <1>c, <1>2 DEF WriteStack, ApTypes, Ids
    <3>2. low' \in [0 .. Cpus * PageWords - 1 -> Int]
      BY <3>1, StackPlace, <1>2 DEF WriteStack, ApTypes
    <3> QED
      BY <3>2, <1>2 DEF WriteStack, ApTypes
  <2>2. Flags'
    BY <1>c, StackPlace, VarPlace, <1>2 DEF WriteStack, Flags
  <2>3. Stacks'
    BY <1>c, StackPlace, VarPlace, <1>2 DEF WriteStack, Stacks, ApTypes, Words, Order, Ids, Pcs, Reported, Starting
  <2>4. Words'
    BY <1>c, StackPlace, VarPlace, <1>2 DEF WriteStack, Words, ApTypes, Order, Stacks, Ids
  <2>5. Order'
    BY <1>c, StackPlace, VarPlace, <1>2 DEF WriteStack, Order, ApTypes, Flags, Words, Ids, Pcs, Reported, Starting
  <2>6. Mapping'
    BY <1>c, StackPlace, VarPlace, <1>2 DEF WriteStack, Mapping, Order, ApTypes, Reported, Starting
  <2> QED
    BY <2>1, <2>2, <2>3, <2>4, <2>5, <2>6
<1>3. CASE TakeLock
  <2>1. ApTypes'
    BY <1>c, <1>3 DEF TakeLock, ApTypes, Pcs, Ids, Cr3, ApMain, Pushed
  <2>2. Flags'
    BY <1>c, <1>3 DEF TakeLock, Flags
  <2>3. Stacks'
    BY <1>c, <1>3 DEF TakeLock, Stacks, ApTypes, Words, Order, Ids, Pcs, Reported, Starting
  <2>4. Words'
    BY <1>c, <1>3 DEF TakeLock, Words, ApTypes, Order, Stacks, Ids
  <2>5. Order'
    BY <1>c, <1>3 DEF TakeLock, Order, ApTypes, Flags, Words, Ids, Pcs, Reported, Starting
  <2>6. Mapping'
    BY <1>c, <1>3 DEF TakeLock, Mapping, Order, ApTypes, Reported, Starting
  <2> QED
    BY <2>1, <2>2, <2>3, <2>4, <2>5, <2>6
<1>4. CASE SendInit
  <2>1. ApTypes'
    BY <1>c, <1>4 DEF SendInit, ApTypes, Pcs, Ids, Cr3, ApMain, Pushed
  <2>2. Flags'
    BY <1>c, <1>4 DEF SendInit, Flags
  <2>3. Stacks'
    BY <1>c, <1>4 DEF SendInit, Stacks, ApTypes, Words, Order, Ids, Pcs, Reported, Starting
  <2>4. Words'
    BY <1>c, <1>4 DEF SendInit, Words, ApTypes, Order, Stacks, Ids
  <2>5. Order'
    BY <1>c, <1>4 DEF SendInit, Order, ApTypes, Flags, Words, Ids, Pcs, Reported, Starting
  <2>6. Mapping'
    BY <1>c, <1>4 DEF SendInit, Mapping, Order, ApTypes, Reported, Starting
  <2> QED
    BY <2>1, <2>2, <2>3, <2>4, <2>5, <2>6
<1>5. CASE SendSipi
  <2>1. ApTypes'
    BY <1>c, <1>5 DEF SendSipi, ApTypes, Pcs, Ids, Cr3, ApMain, Pushed
  <2>2. Flags'
    BY <1>c, <1>5 DEF SendSipi, Flags
  <2>3. Stacks'
    BY <1>c, <1>5 DEF SendSipi, Stacks, ApTypes, Words, Order, Ids, Pcs, Reported, Starting
  <2>4. Words'
    BY <1>c, <1>5 DEF SendSipi, Words, ApTypes, Order, Stacks, Ids
  <2>5. Order'
    BY <1>c, <1>5 DEF SendSipi, Order, ApTypes, Flags, Words, Ids, Pcs, Reported, Starting
  <2>6. Mapping'
    BY <1>c, <1>5 DEF SendSipi, Mapping, Order, ApTypes, Reported, Starting
  <2> QED
    BY <2>1, <2>2, <2>3, <2>4, <2>5, <2>6
<1>6. CASE WaitBooted
  <2>1. ApTypes'
    <3>1. cpu' \in 1 .. Cpus
      BY <1>c, <1>6 DEF WaitBooted, ApTypes, Order, Ids
    <3> QED
      BY <3>1, <1>6 DEF WaitBooted, ApTypes
  <2>2. Flags'
    BY <1>c, <1>6 DEF WaitBooted, Flags
  <2>3. Stacks'
    BY <1>c, <1>6 DEF WaitBooted, Stacks, ApTypes, Words, Order, Ids, Pcs, Reported, Starting
  <2>4. Words'
    BY <1>c, <1>6 DEF WaitBooted, Words, ApTypes, Order, Stacks, Ids
  <2>5. Order'
    BY <1>c, <1>6 DEF WaitBooted, Order, ApTypes, Flags, Words, Ids, Pcs, Reported, Starting
  <2>6. Mapping'
    BY <1>c, <1>6 DEF WaitBooted, Mapping, Order, ApTypes, Reported, Starting
  <2> QED
    BY <2>1, <2>2, <2>3, <2>4, <2>5, <2>6
<1>7. CASE UnmapIdentityMapping
  <2>1. ApTypes'
    BY <1>c, <1>7 DEF UnmapIdentityMapping, ApTypes, Pcs, Ids, Cr3, ApMain, Pushed
  <2>2. Flags'
    BY <1>c, <1>7 DEF UnmapIdentityMapping, Flags
  <2>3. Stacks'
    BY <1>c, <1>7 DEF UnmapIdentityMapping, Stacks, ApTypes, Words, Order, Ids, Pcs, Reported, Starting
  <2>4. Words'
    BY <1>c, <1>7 DEF UnmapIdentityMapping, Words, ApTypes, Order, Stacks, Ids
  <2>5. Order'
    BY <1>c, <1>7 DEF UnmapIdentityMapping, Order, ApTypes, Flags, Words, Ids, Pcs, Reported, Starting
  <2>6. Mapping'
    BY <1>c, <1>7 DEF UnmapIdentityMapping, Mapping, Order, ApTypes, Reported, Starting
  <2> QED
    BY <2>1, <2>2, <2>3, <2>4, <2>5, <2>6
<1>8. ASSUME NEW i \in Ids, ReadCr3(i) PROVE IInv'
  <2>1. ApTypes'
    <3>1. bsp # "prepare"
      BY <1>8, OneStarts DEF ReadCr3, Starting
    <3>2. ap' = [ap EXCEPT ![i].pc = IF ap[i].pc = "cr3" THEN "main" ELSE "rsp"]
      BY <3>1, <1>8 DEF ReadCr3, Goto, Words
    <3> QED
      BY <3>2, <1>8 DEF ReadCr3, ApTypes, Pcs
  <2>2. Flags'
    BY <1>c, <1>8 DEF Goto, ReadCr3, Flags
  <2>3. Stacks'
    BY <1>c, <1>8 DEF Goto, ReadCr3, Stacks, ApTypes, Words, Order, Ids, Pcs, Reported, Starting
  <2>4. Words'
    BY <1>c, <1>8 DEF Goto, ReadCr3, Words, ApTypes, Order, Stacks, Ids
  <2>5. Order'
    BY <1>c, <1>8 DEF Goto, ReadCr3, Order, ApTypes, Flags, Words, Ids, Pcs, Reported, Starting
  <2>6. Mapping'
    BY <1>c, <1>8 DEF Goto, ReadCr3, Mapping, Order, ApTypes, Reported, Starting
  <2> QED
    BY <2>1, <2>2, <2>3, <2>4, <2>5, <2>6
<1>9. ASSUME NEW i \in Ids, ReadMain(i) PROVE IInv'
  <2>1. ApTypes'
    <3>1. bsp # "prepare"
      BY <1>9, OneStarts DEF ReadMain, Starting
    <3>2. ap' = [ap EXCEPT ![i].pc = IF ap[i].pc = "cr3" THEN "main" ELSE "rsp"]
      BY <3>1, <1>9 DEF ReadMain, Goto, Words
    <3> QED
      BY <3>2, <1>9 DEF ReadMain, ApTypes, Pcs
  <2>2. Flags'
    BY <1>c, <1>9 DEF Goto, ReadMain, Flags
  <2>3. Stacks'
    BY <1>c, <1>9 DEF Goto, ReadMain, Stacks, ApTypes, Words, Order, Ids, Pcs, Reported, Starting
  <2>4. Words'
    BY <1>c, <1>9 DEF Goto, ReadMain, Words, ApTypes, Order, Stacks, Ids
  <2>5. Order'
    BY <1>c, <1>9 DEF Goto, ReadMain, Order, ApTypes, Flags, Words, Ids, Pcs, Reported, Starting
  <2>6. Mapping'
    BY <1>c, <1>9 DEF Goto, ReadMain, Mapping, Order, ApTypes, Reported, Starting
  <2> QED
    BY <2>1, <2>2, <2>3, <2>4, <2>5, <2>6
<1>10. ASSUME NEW i \in Ids, ReadStack(i) PROVE IInv'
  <2>1. ApTypes'
    <3>1. low[StackVar] \in Int
      BY VarPlace DEF ApTypes
    <3> QED
      BY <3>1, <1>10 DEF ReadStack, ApTypes, Pcs
  <2>2. Flags'
    BY <1>c, StackPlace, <1>10 DEF ReadStack, Flags
  <2>3. Stacks'
    <3>1. i = cpu /\ bsp = "spin"
      BY <1>10, OneStarts DEF ReadStack, Starting
    <3>2. low[StackVar] = StackFor(i)
      BY <3>1 DEF Words
    <3>3. ap' = [ap EXCEPT ![i].pc = "push", ![i].rsp = StackFor(i)]
      BY <3>2, <1>10 DEF ReadStack
    <3>4. ap'[i].rsp = StackFor(i)
      BY <3>3 DEF ApTypes
    <3>5. \A j \in Ids : j # i => ap'[j] = ap[j]
      BY <3>3 DEF ApTypes
    <3> QED
      BY <3>4, <3>5 DEF Stacks
  <2>4. Words'
    BY <1>c, StackPlace, <1>10 DEF ReadStack, Words, ApTypes, Order, Stacks, Ids
  <2>5. Order'
    BY <1>c, StackPlace, <1>10 DEF ReadStack, Order, ApTypes, Flags, Words, Ids, Pcs, Reported, Starting
  <2>6. Mapping'
    BY <1>c, StackPlace, <1>10 DEF ReadStack, Mapping, Order, ApTypes, Reported, Starting
  <2> QED
    BY <2>1, <2>2, <2>3, <2>4, <2>5, <2>6
<1>11. ASSUME NEW i \in Ids, EnterStage2(i) PROVE IInv'
  <2>1. ApTypes'
    <3>1. low' \in [0 .. Cpus * PageWords - 1 -> Int]
      BY <1>11, Update, Values DEF EnterStage2, ApTypes
    <3>2. ap' \in [Ids -> [pc : Pcs, rsp : Int, left : 0 .. Accesses]]
      BY <1>c, <1>11 DEF EnterStage2, Goto, ApTypes, Pcs
    <3> QED
      BY <3>1, <3>2, <1>11 DEF EnterStage2, ApTypes
  <2>2. Flags'
    BY <1>c, StackPlace, PushApart, <1>11 DEF Goto, EnterStage2, Flags
  <2>3. Stacks'
    BY <1>c, StackPlace, PushApart, <1>11 DEF Goto, EnterStage2, Stacks, ApTypes, Words, Order, Ids, Pcs, Reported, Starting
  <2>4. Words'
    <3>1. ap[i].rsp = StackFor(i)
      BY <1>11 DEF EnterStage2, Stacks
    <3>2. /\ low'[StackVar] = low[StackVar]
          /\ low'[MainVar] = low[MainVar]
          /\ low'[Cr3Var] = low[Cr3Var]
      BY <3>1, PushApart, VarPlace, <1>11 DEF EnterStage2, ApTypes
    <3> QED
      BY <3>2, <1>11 DEF EnterStage2, Words
  <2>5. Order'
    BY <1>c, StackPlace, PushApart, <1>11 DEF Goto, EnterStage2, Order, ApTypes, Flags, Words, Ids, Pcs, Reported, Starting
  <2>6. Mapping'
    BY <1>c, StackPlace, PushApart, <1>11 DEF Goto, EnterStage2, Mapping, Order, ApTypes, Reported, Starting
  <2> QED
    BY <2>1, <2>2, <2>3, <2>4, <2>5, <2>6
<1>12. ASSUME NEW i \in Ids, SetBooted(i) PROVE IInv'
  <2>1. ApTypes'
    BY <1>c, <1>12 DEF Goto, SetBooted, ApTypes, Pcs, Ids, Cr3, ApMain, Pushed
  <2>2. Flags'
    BY <1>c, <1>12 DEF Goto, SetBooted, Flags
  <2>3. Stacks'
    BY <1>c, <1>12 DEF Goto, SetBooted, Stacks, ApTypes, Words, Order, Ids, Pcs, Reported, Starting
  <2>4. Words'
    BY <1>c, <1>12 DEF Goto, SetBooted, Words, ApTypes, Order, Stacks, Ids
  <2>5. Order'
    <3>1. i = cpu /\ bsp = "spin"
      BY <1>12, OneStarts DEF SetBooted, Starting
    <3>2. ap' = [ap EXCEPT ![i].pc = "booted"] /\ spin' = FALSE /\ bsp' = bsp /\ cpu' = cpu
      BY <1>12 DEF SetBooted, Goto
    <3> QED
      BY <1>c, <3>1, <3>2 DEF Order, ApTypes, Ids, Reported, Starting
  <2>6. Mapping'
    BY <1>c, <1>12 DEF Goto, SetBooted, Mapping, Order, ApTypes, Reported, Starting
  <2> QED
    BY <2>1, <2>2, <2>3, <2>4, <2>5, <2>6
<1>13. ASSUME NEW i \in Ids, UseStack(i) PROVE IInv'
  <2>1. ApTypes'
    <3>1. low' \in [0 .. Cpus * PageWords - 1 -> Int]
      BY <1>13, Update, Values DEF UseStack, ApTypes
    <3>2. ap' \in [Ids -> [pc : Pcs, rsp : Int, left : 0 .. Accesses]]
      BY <1>c, <1>13, SMTT(20) DEF UseStack, ApTypes, Pcs
    <3> QED
      BY <3>1, <3>2, <1>13 DEF UseStack, ApTypes
  <2>2. Flags'
    BY <1>c, StackPlace, PushApart, <1>13 DEF UseStack, Flags
  <2>3. Stacks'
    BY <1>c, StackPlace, PushApart, <1>13 DEF UseStack, Stacks, ApTypes, Words, Order, Ids, Pcs, Reported, Starting
  <2>4. Words'
    <3>1. ap[i].rsp = StackFor(i)
      BY <1>13 DEF UseStack, Stacks
    <3>2. /\ low'[StackVar] = low[StackVar]
          /\ low'[MainVar] = low[MainVar]
          /\ low'[Cr3Var] = low[Cr3Var]
      BY <3>1, PushApart, VarPlace, <1>13 DEF UseStack, ApTypes
    <3> QED
      BY <3>2, <1>13 DEF UseStack, Words
  <2>5. Order'
    BY <1>c, StackPlace, PushApart, <1>13 DEF UseStack, Order, ApTypes, Flags, Words, Ids, Pcs, Reported, Starting
  <2>6. Mapping'
    BY <1>c, StackPlace, PushApart, <1>13 DEF UseStack, Mapping, Order, ApTypes, Reported, Starting
  <2> QED
    BY <2>1, <2>2, <2>3, <2>4, <2>5, <2>6
<1>14. ASSUME NEW i \in Ids, Halt(i) PROVE IInv'
  <2>1. ApTypes'
    <3>1. ap \in [Ids -> [pc : Pcs, rsp : Int, left : 0 .. Accesses]] /\ "halted" \in Pcs
      BY DEF ApTypes, Pcs
    <3>2. ap' \in [Ids -> [pc : Pcs, rsp : Int, left : 0 .. Accesses]]
      BY <1>14, <3>1 DEF Goto, Halt
    <3> QED
      BY <1>14, <3>2 DEF Halt, ApTypes
  <2>2. Flags'
    BY <1>c, <1>14 DEF Goto, Halt, Flags
  <2>3. Stacks'
    BY <1>c, <1>14 DEF Goto, Halt, Stacks, ApTypes, Words, Order, Ids, Pcs, Reported, Starting
  <2>4. Words'
    BY <1>c, <1>14 DEF Goto, Halt, Words, ApTypes, Order, Stacks, Ids
  <2>5. Order'
    BY <1>c, <1>14 DEF Goto, Halt, Order, ApTypes, Flags, Words, Ids, Pcs, Reported, Starting
  <2>6. Mapping'
    BY <1>c, <1>14 DEF Goto, Halt, Mapping, Order, ApTypes, Reported, Starting
  <2> QED
    BY <2>1, <2>2, <2>3, <2>4, <2>5, <2>6
<1>15. ASSUME NEW i \in Ids, Fault(i) PROVE IInv'
  <2>1. ApTypes'
    BY <1>c, <1>15 DEF Fault, UsesLow, ApTypes, Pcs, Ids, Cr3, ApMain, Pushed
  <2>2. Flags'
    BY <1>c, <1>15 DEF Fault, UsesLow, Flags
  <2>3. Stacks'
    BY <1>c, <1>15 DEF Fault, UsesLow, Stacks, ApTypes, Words, Order, Ids, Pcs, Reported, Starting
  <2>4. Words'
    BY <1>c, <1>15 DEF Fault, UsesLow, Words, ApTypes, Order, Stacks, Ids
  <2>5. Order'
    BY <1>c, <1>15 DEF Fault, UsesLow, Order, ApTypes, Flags, Words, Ids, Pcs, Reported, Starting
  <2>6. Mapping'
    BY <1>c, <1>15 DEF Fault, UsesLow, Mapping, Order, ApTypes, Reported, Starting
  <2> QED
    BY <2>1, <2>2, <2>3, <2>4, <2>5, <2>6
<1>16. CASE UNCHANGED apVars
  BY <1>16 DEF apVars, ApTypes, Flags, Stacks, Words, Order, Mapping
<1> QED
  BY <1>1, <1>2, <1>3, <1>4, <1>5, <1>6, <1>7, <1>8, <1>9, <1>10, <1>11, <1>12, <1>13, <1>14, <1>15, <1>16 DEF ApNext, BspStep, Step, Idle

-----------------------------------------------------------------------------

\* start_application_processors, the trampoline and ap_stage2 keep the invariant:
\* one processor is started at a time.
THEOREM Invariance == ApSpec => []IInv
<1> QED
  BY Initial, Inductive, PTL DEF ApSpec

\* Stack pointers stay within the pages set aside for them, and the rest of the
\* state of start_application_processors keeps its type.
THEOREM TypeCorrect == ApSpec => []ApTypeOK
<1>1. ASSUME IInv PROVE ApTypeOK
  <2>1. {spin, mapped, reset} \subseteq BOOLEAN
    BY <1>1 DEF IInv, Flags
  <2>2. ASSUME NEW i \in Ids PROVE ap[i].rsp \in 0 .. Cpus * PageWords
    <3>1. Cpus * PageWords \in Nat
      BY ApAssumption
    <3>2. PageWords \in Nat
      BY ApAssumption
    <3> QED
      BY <1>1, <3>1, <3>2, StackPlace DEF IInv, Stacks
  <2>3. ASSUME NEW i \in Ids PROVE ap[i].pc \in Pcs /\ ap[i].left \in 0 .. Accesses
    BY <1>1 DEF IInv, ApTypes
  <2> QED
    BY <1>1, <2>1, <2>2, <2>3 DEF ApTypeOK, IInv, ApTypes, Pcs
<1> QED
  BY <1>1, Invariance, PTL

\* No two processors share a stack, although ACPI::start_application_processors
\* hands all of them over in the word at 0x8fd0.
THEOREM StacksApart == ApSpec => []OwnStack
<1>1. ASSUME IInv PROVE OwnStack
  BY <1>1 DEF IInv, Stacks, OwnStack, StackFor
<1> QED
  BY <1>1, Invariance, PTL

\* Whatever is pushed to the stacks, every processor finds the page tables and
\* ap_main where the trampoline looks for them.
THEOREM VariablesIntact == ApSpec => []FindsItsWay
<1>1. ASSUME IInv PROVE FindsItsWay
  BY <1>1 DEF IInv, ApTypes, Pcs, FindsItsWay
<1> QED
  BY <1>1, Invariance, PTL

\* unmap_identity_mapping comes after the last report.
THEOREM MappingOutlives == ApSpec => []UnmappedAfterReports
<1>1. ASSUME IInv PROVE UnmappedAfterReports
  <2> SUFFICES ASSUME ~mapped \/ reset, NEW i \in Ids
               PROVE  ap[i].pc \in {"booted", "halted"}
    BY DEF UnmappedAfterReports
  <2>1. bsp = "done"
    BY <1>1 DEF IInv, Mapping
  <2>2. cpu = Cpus
    BY <1>1, <2>1 DEF IInv, Order
  <2>3. i < cpu
    BY <2>2, ApAssumption DEF Ids
  <2> QED
    BY <1>1, <2>3 DEF IInv, Order, Reported
<1> QED
  BY <1>1, Invariance, PTL

-----------------------------------------------------------------------------
(* The loader: the inductive invariant.                                    *)

Run == [start : Nat, pages : Nat]
Desc == [type : Types, start : Nat, pages : Nat]
LayType ==
    [extent : Nat, bitmap : Run, kernelPages : Nat, tables : Nat, kernel : Run, state : Run,
     stack : Run, firstMap : Nat, preserved : Nat]

\* The steps of init() after each of its allocations.
OnPaging == {"paging", "kernel_main", "running"}
AfterLoad == {"map2", "exit"} \cup OnPaging
AfterStack == {"load"} \cup AfterLoad
AfterState == {"stack"} \cup AfterStack
AfterKernel == {"state"} \cup AfterState
AfterBitmap == {"kernel"} \cup AfterKernel
Steps == {"map1", "bitmap", "failed"} \cup AfterBitmap

IsMemory(m) ==
    /\ IsFiniteSet(DOMAIN m) /\ DOMAIN m = 0 .. Cardinality(DOMAIN m) - 1
    /\ m \in [DOMAIN m -> Types]

LayoutTypes ==
    /\ machine \in Machines
    /\ IsMemory(mem) /\ DOMAIN mem = DOMAIN machine.mem
    /\ pc \in Steps
    /\ map \in [descs : Seq(Desc), buf : Run]
    /\ request \in [size : Nat, buf : Run]
    /\ lay \in LayType

\* Allocating and releasing leave holes and unusable memory as they are.
Ground(m, n) == \A f \in DOMAIN m : \A t \in {"hole", "unusable"} : m[f] = t <=> n[f] = t
SameGround == Ground(machine.mem, mem)

\* The runs that init() keeps, and the buffer that get_memory_map may release.
Owned(m, r) == \A f \in RunOf(r) : f \in DOMAIN m /\ m[f] = "loader"
Kept == {lay.bitmap, lay.kernel, lay.state, lay.stack, map.buf}
Ownership ==
    /\ \A r \in Kept : Owned(mem, r) /\ RunOf(r) \cap RunOf(request.buf) = {}
    /\ RunOf(request.buf) \subseteq DOMAIN mem
    /\ pc # "failed" => Owned(mem, request.buf)

\* A buffer has room for the map that was asked for.
BuffersFit ==
    /\ request.buf.pages = CeilDiv(request.size, DescPerPage)
    /\ CeilDiv(Len(map.descs), DescPerPage) <= map.buf.pages

\* What was counted, and what is allocated for it.
CountedPages ==
    lay.kernelPages + CeilDiv(lay.firstMap, DescPerPage) + machine.fb + lay.preserved + 4
Sizes ==
    /\ pc \in AfterBitmap => lay.bitmap.pages = BitmapPages(lay.extent)
    /\ pc \in AfterKernel =>
        /\ lay.kernelPages = KernelPages(machine.segments)
        /\ lay.tables = PageTableSize(CountedPages)
        /\ lay.kernel.pages = CountedPages + lay.tables + BitmapPages(lay.extent) + 2
    /\ pc \in AfterState => lay.state.pages = BootStatePages
    /\ pc \in AfterStack => lay.stack.pages = StackPages

\* Where descriptors are in order and none is left out, the extent is the end of
\* memory.
Plain == machine.sorted /\ \A f \in DOMAIN machine.mem : machine.mem[f] # "unusable"
BelowExtent(m, e) == \A f \in DOMAIN m : m[f] # "hole" => f < e
ExtentRight ==
    Plain => /\ pc = "bitmap" => BelowExtent(machine.mem, Extent(map.descs))
             /\ pc \in AfterBitmap => BelowExtent(machine.mem, lay.extent)

\* The image after the loading of all segments into zeroed pages.
ImageOf(segs, pages) == Loaded([a \in 0 .. pages * PageBytes - 1 |-> 0], segs)[Len(segs)]

\* The regions one after the other with a page between them, and what a page
\* table holds that maps them.
BaseOf(R) ==
    LET p == [i \in 1 .. 7 |-> R[i].pages]
    IN  << 0, p[1] + 1, p[1] + p[2] + 2, p[1] + p[2] + p[3] + 3,
           p[1] + p[2] + p[3] + p[4] + 4, p[1] + p[2] + p[3] + p[4] + p[5] + 5,
           p[1] + p[2] + p[3] + p[4] + p[5] + p[6] + 6 >>
PagesOf(R, i) == BaseOf(R)[i] .. BaseOf(R)[i] + R[i].pages - 1
IsSpace(p, R) ==
    /\ DOMAIN p = UNION {PagesOf(R, i) : i \in 1 .. 7}
    /\ \A i \in 1 .. 7 : \A v \in PagesOf(R, i) : p[v] = R[i].frame + v - BaseOf(R)[i]

MarkedBy(descs) ==
    0 .. LowPages - 1 \cup
    UNION {MarkedRun(descs[i]) : i \in {j \in DOMAIN descs : descs[j].type \in BlockedTypes}}

\* What later steps find unchanged.
Results ==
    /\ pc \in AfterLoad => image = ImageOf(machine.segments, lay.kernel.pages)
    /\ pc \in OnPaging => map.descs = Descriptors(mem, machine.sorted)
    /\ pc \in {"kernel_main", "running"} => IsSpace(ptes, Regions)
    /\ marked = IF pc = "running" THEN MarkedBy(map.descs) ELSE {}

LayoutInv ==
    LayoutTypes /\ SameGround /\ Ownership /\ BuffersFit /\ Sizes /\ ExtentRight /\ Results

-----------------------------------------------------------------------------
(* Numbers.                                                                *)

\* A set with 0 and with the successor of each of its numbers has them all.
LEMMA Induct ==
    ASSUME NEW S, 0 \in S, \A n \in Nat : n \in S => n + 1 \in S
    PROVE  \A n \in Nat : n \in S
<1> SUFFICES ASSUME NEW k \in Nat, k \notin S PROVE FALSE
  OBVIOUS
<1> DEFINE R == OpToRel(<, Nat)
           T == {n \in Nat : n \notin S}
<1>1. IsWellFoundedOn(R, Nat)
  BY NatLessThanWellFounded, Zenon
<1>2. \A i, j \in Nat : i < j => <<i, j>> \in R
  BY DEF OpToRel
<1> HIDE DEF R
<1>3. PICK n \in T : \A m \in T : ~ (<<m, n>> \in R)
  BY <1>1, WFMin
<1>4. n \in Nat /\ n # 0 /\ n - 1 \in Nat /\ n - 1 < n /\ (n - 1) + 1 = n
  OBVIOUS
<1>5. n - 1 \in S
  BY <1>2, <1>3, <1>4
<1>6. QED BY <1>4, <1>5

\* A set of numbers that is not empty has a least member.
LEMMA Least ==
    ASSUME NEW S, S \subseteq Nat, S # {}
    PROVE  Min(S) \in S /\ \A t \in S : Min(S) <= t
<1> DEFINE R == OpToRel(<, Nat)
<1>1. IsWellFoundedOn(R, Nat)
  BY NatLessThanWellFounded, Zenon
<1>2. \A i, j \in Nat : i < j => <<i, j>> \in R
  BY DEF OpToRel
<1> HIDE DEF R
<1>3. PICK x \in S : \A m \in S : ~ (<<m, x>> \in R)
  BY <1>1, WFMin
<1>4. x \in Nat /\ \A m \in S : m \in Nat /\ ~(m < x)
  BY <1>2, <1>3
<1>5. \A m \in S : x <= m
  BY <1>4
<1>6. QED BY <1>3, <1>5 DEF Min

\* A set of numbers that has a bound and is not empty has a greatest member.
LEMMA Greatest ==
    ASSUME NEW S, S \subseteq Nat, S # {}, NEW b \in Nat, \A t \in S : t <= b
    PROVE  Max(S) \in S /\ \A t \in S : t <= Max(S)
<1> DEFINE T == {b - t : t \in S}
<1>1. T \subseteq Nat /\ T # {}
  <2>1. \A t \in S : b - t \in Nat
    OBVIOUS
  <2>2. PICK x \in S : TRUE
    OBVIOUS
  <2>3. b - x \in T
    OBVIOUS
  <2>4. QED BY <2>1, <2>3
<1>2. Min(T) \in T /\ \A u \in T : Min(T) <= u
  BY <1>1, Least
<1>3. PICK x \in S : Min(T) = b - x
  BY <1>2
<1>4. \A t \in S : t <= x
  <2> TAKE t \in S
  <2>1. b - x <= b - t
    BY <1>2, <1>3
  <2>2. QED BY <2>1
<1>5. QED BY <1>4 DEF Max

\* divide_rounded_up: the least number of pieces of b that hold a.
LEMMA CeilDivIs ==
    ASSUME NEW a \in Nat, NEW b \in Nat \ {0}
    PROVE  /\ CeilDiv(a, b) \in Nat
           /\ a <= b * CeilDiv(a, b) /\ b * CeilDiv(a, b) < a + b
<1>1. PICK x : x = a + b - 1
  OBVIOUS
<1>2. x \in Nat
  BY <1>1
<1>3. PICK q : q = x \div b
  OBVIOUS
<1>4. q \in Nat /\ b * q <= x /\ x < b * q + b
  BY <1>2, <1>3, Z3
<1>5. CeilDiv(a, b) = q
  BY <1>1, <1>3 DEF CeilDiv
<1>6. PICK p : p = b * q
  OBVIOUS
<1>7. p \in Nat
  BY <1>4, <1>6
<1>8. QED BY <1>1, <1>4, <1>5, <1>6, <1>7

LEMMA CeilDivMonotone ==
    ASSUME NEW a \in Nat, NEW c \in Nat, a <= c, NEW b \in Nat \ {0}
    PROVE  CeilDiv(a, b) <= CeilDiv(c, b)
<1>1. PICK p, q : p = CeilDiv(a, b) /\ q = CeilDiv(c, b)
  OBVIOUS
<1>2. p \in Nat /\ q \in Nat /\ b * p < a + b /\ c <= b * q
  BY <1>1, CeilDivIs
<1>3. p <= q
  <2> SUFFICES ASSUME p >= q + 1 PROVE FALSE
    BY <1>2
  <2>1. b * p >= b * (q + 1)
    BY <1>2, Z3
  <2>2. b * (q + 1) = b * q + b
    BY <1>2, Z3
  <2>3. b * p \in Nat /\ b * q \in Nat
    BY <1>2
  <2>4. QED BY <1>2, <2>1, <2>2, <2>3
<1>4. QED BY <1>1, <1>3

-----------------------------------------------------------------------------
(* Running totals.                                                         *)

TotalStep(s, g, i) == IF i = 0 THEN 0 ELSE g[i - 1] + s[i]
IsTotals(s, g, n) == g = [i \in 0 .. n |-> TotalStep(s, g, i)]

\* The definition of Totals has a solution.
LEMMA TotalsExist ==
    ASSUME NEW s, NEW N \in Nat
    PROVE  \E g : IsTotals(s, g, N)
<1> DEFINE T == {k \in Nat : \E g : IsTotals(s, g, k)}
<1>1. 0 \in T
  <2> DEFINE g == [i \in 0 .. 0 |-> 0]
  <2>1. g = [i \in 0 .. 0 |-> TotalStep(s, g, i)]
    BY DEF TotalStep
  <2>2. IsTotals(s, g, 0)
    BY <2>1 DEF IsTotals
  <2>3. QED BY <2>2
<1>2. ASSUME NEW k \in Nat, k \in T PROVE k + 1 \in T
  <2>1. PICK g : IsTotals(s, g, k)
    BY <1>2
  <2> DEFINE e == [i \in 0 .. k + 1 |-> IF i = k + 1 THEN TotalStep(s, g, k + 1) ELSE g[i]]
  <2>2. \A i \in 0 .. k : e[i] = g[i]
    BY <1>2
  <2>3. \A i \in 0 .. k : g[i] = TotalStep(s, g, i)
    BY <2>1 DEF IsTotals
  <2>4. ASSUME NEW i \in 0 .. k + 1 PROVE e[i] = TotalStep(s, e, i)
    <3>1. e[i] = IF i = k + 1 THEN TotalStep(s, g, k + 1) ELSE g[i]
      OBVIOUS
    <3> HIDE DEF e
    <3>2. i = 0 \/ (i - 1 \in 0 .. k /\ i # 0)
      BY <1>2
    <3>3. TotalStep(s, e, i) = TotalStep(s, g, i)
      BY <2>2, <3>2 DEF TotalStep
    <3>4. i = k + 1 \/ i \in 0 .. k
      BY <1>2
    <3>5. QED BY <2>3, <3>1, <3>3, <3>4
  <2>5. IsTotals(s, e, k + 1)
    <3>1. e = [i \in 0 .. k + 1 |-> e[i]]
      OBVIOUS
    <3> HIDE DEF e
    <3>2. QED BY <2>4, <3>1 DEF IsTotals
  <2>6. QED BY <2>5
<1> HIDE DEF T
<1>3. N \in T
  BY <1>1, <1>2, Induct
<1>4. QED BY <1>3 DEF T

\* What Totals computes.
LEMMA TotalsAre ==
    ASSUME NEW s \in Seq(Nat)
    PROVE  /\ Totals(s)[0] = 0
           /\ \A i \in 1 .. Len(s) : Totals(s)[i] = Totals(s)[i - 1] + s[i]
           /\ \A i \in 0 .. Len(s) : Totals(s)[i] \in Nat
           /\ \A i \in 0 .. Len(s) : Totals(s)[i] <= Total(s)
           /\ Total(s) \in Nat
<1>1. PICK n : n = Len(s)
  OBVIOUS
<1>2. n \in Nat /\ \A i \in 1 .. n : s[i] \in Nat
  BY <1>1
<1>3. Totals(s) = CHOOSE g : g = [i \in 0 .. n |-> IF i = 0 THEN 0 ELSE g[i - 1] + s[i]]
  BY <1>1 DEF Totals
<1>4. \E g : g = [i \in 0 .. n |-> IF i = 0 THEN 0 ELSE g[i - 1] + s[i]]
  <2>1. PICK g : IsTotals(s, g, n)
    BY <1>2, TotalsExist
  <2>2. g = [i \in 0 .. n |-> IF i = 0 THEN 0 ELSE g[i - 1] + s[i]]
    BY <2>1 DEF IsTotals, TotalStep
  <2>3. QED BY <2>2
<1>5. PICK f : f = Totals(s)
  OBVIOUS
<1>6. f = [i \in 0 .. n |-> IF i = 0 THEN 0 ELSE f[i - 1] + s[i]]
  BY <1>3, <1>4, <1>5
<1>7. f[0] = 0 /\ \A i \in 1 .. n : f[i] = f[i - 1] + s[i]
  BY <1>2, <1>6
<1>8. \A i \in 0 .. n : f[i] \in Nat
  <2> DEFINE T == {k \in Nat : k <= n => f[k] \in Nat}
  <2>1. 0 \in T
    BY <1>7
  <2>2. ASSUME NEW k \in Nat, k \in T PROVE k + 1 \in T
    <3> SUFFICES ASSUME k + 1 <= n PROVE f[k + 1] \in Nat
      OBVIOUS
    <3>1. k + 1 \in 1 .. n /\ (k + 1) - 1 = k /\ k <= n
      BY <1>2
    <3>2. f[k + 1] = f[k] + s[k + 1]
      BY <1>7, <3>1
    <3>3. QED BY <1>2, <2>2, <3>1, <3>2
  <2> HIDE DEF T
  <2>3. \A k \in Nat : k \in T
    BY <2>1, <2>2, Induct
  <2>4. QED BY <1>2, <2>3 DEF T
<1>9. \A i \in 0 .. n : f[i] <= f[n]
  <2> DEFINE T == {k \in Nat : k <= n => f[n - k] <= f[n]}
  <2>1. 0 \in T
    BY <1>2, <1>8
  <2>2. ASSUME NEW k \in Nat, k \in T PROVE k + 1 \in T
    <3> SUFFICES ASSUME k + 1 <= n PROVE f[n - (k + 1)] <= f[n]
      OBVIOUS
    <3>1. n - k \in 1 .. n /\ (n - k) - 1 = n - (k + 1) /\ k <= n /\ n - (k + 1) \in 0 .. n
          /\ n - k \in 0 .. n /\ n \in 0 .. n
      BY <1>2
    <3>2. f[n - k] = f[n - (k + 1)] + s[n - k]
      BY <1>7, <3>1
    <3>3. f[n - k] <= f[n]
      BY <2>2, <3>1
    <3>4. f[n - k] \in Nat /\ f[n - (k + 1)] \in Nat /\ s[n - k] \in Nat /\ f[n] \in Nat
      BY <1>2, <1>8, <3>1
    <3>5. QED BY <3>2, <3>3, <3>4
  <2> HIDE DEF T
  <2>3. \A k \in Nat : k \in T
    BY <2>1, <2>2, Induct
  <2>4. ASSUME NEW i \in 0 .. n PROVE f[i] <= f[n]
    <3>1. n - i \in Nat /\ n - i <= n /\ n - (n - i) = i
      BY <1>2
    <3>2. n - i \in T
      BY <2>3, <3>1
    <3>3. n - i <= n => f[n - (n - i)] <= f[n]
      BY <3>2 DEF T
    <3>4. QED BY <3>1, <3>3
  <2>5. QED BY <2>4
<1>10. n \in 0 .. n
  BY <1>2
<1>11. QED BY <1>1, <1>5, <1>7, <1>8, <1>9, <1>10 DEF Total

\* The pages of the segments, before each of them and all together.
LEMMA SegmentPagesAre ==
    ASSUME NEW s \in Seq(Segment)
    PROVE  /\ SegmentPages(s) \in Seq(Nat) /\ Len(SegmentPages(s)) = Len(s)
           /\ \A i \in 1 .. Len(s) : SegmentPages(s)[i] = CeilDiv(s[i].memsz, PageBytes)
           /\ KernelPages(s) \in Nat
<1>1. PageBytes \in Nat \ {0}
  BY SizesAssumption
<1>2. PICK n : n = Len(s)
  OBVIOUS
<1>3. n \in Nat /\ DOMAIN s = 1 .. n /\ \A i \in 1 .. n : s[i].memsz \in Nat
  <2>1. n \in Nat /\ DOMAIN s = 1 .. n /\ \A i \in 1 .. n : s[i] \in Segment
    BY <1>2
  <2>2. QED BY <2>1 DEF Segment
<1>4. \A i \in 1 .. n : CeilDiv(s[i].memsz, PageBytes) \in Nat
  BY <1>1, <1>3, CeilDivIs
<1>5. SegmentPages(s) = [i \in 1 .. n |-> CeilDiv(s[i].memsz, PageBytes)]
  BY <1>3 DEF SegmentPages
<1>6. SegmentPages(s) \in Seq(Nat) /\ Len(SegmentPages(s)) = n
  BY <1>3, <1>4, <1>5
<1>7. KernelPages(s) \in Nat
  BY <1>6, TotalsAre DEF KernelPages
<1>8. QED BY <1>2, <1>5, <1>6, <1>7

-----------------------------------------------------------------------------
(* The image of the kernel.                                                *)

LoadStep(bytes, segs, g, i) == IF i = 0 THEN bytes ELSE LoadSegment(g[i - 1], segs[i])
IsLoaded(bytes, segs, g, n) == g = [i \in 0 .. n |-> LoadStep(bytes, segs, g, i)]

\* The definition of Loaded has a solution.
LEMMA LoadedExists ==
    ASSUME NEW bytes, NEW segs, NEW N \in Nat
    PROVE  \E g : IsLoaded(bytes, segs, g, N)
<1> DEFINE T == {k \in Nat : \E g : IsLoaded(bytes, segs, g, k)}
<1>1. 0 \in T
  <2> DEFINE g == [i \in 0 .. 0 |-> bytes]
  <2>1. g = [i \in 0 .. 0 |-> LoadStep(bytes, segs, g, i)]
    BY DEF LoadStep
  <2>2. IsLoaded(bytes, segs, g, 0)
    BY <2>1 DEF IsLoaded
  <2>3. QED BY <2>2
<1>2. ASSUME NEW k \in Nat, k \in T PROVE k + 1 \in T
  <2>1. PICK g : IsLoaded(bytes, segs, g, k)
    BY <1>2
  <2> DEFINE e == [i \in 0 .. k + 1 |->
                      IF i = k + 1 THEN LoadStep(bytes, segs, g, k + 1) ELSE g[i]]
  <2>2. \A i \in 0 .. k : e[i] = g[i]
    BY <1>2
  <2>3. \A i \in 0 .. k : g[i] = LoadStep(bytes, segs, g, i)
    BY <2>1 DEF IsLoaded
  <2>4. ASSUME NEW i \in 0 .. k + 1 PROVE e[i] = LoadStep(bytes, segs, e, i)
    <3>1. e[i] = IF i = k + 1 THEN LoadStep(bytes, segs, g, k + 1) ELSE g[i]
      OBVIOUS
    <3> HIDE DEF e
    <3>2. i = 0 \/ (i - 1 \in 0 .. k /\ i # 0)
      BY <1>2
    <3>3. LoadStep(bytes, segs, e, i) = LoadStep(bytes, segs, g, i)
      BY <2>2, <3>2 DEF LoadStep
    <3>4. i = k + 1 \/ i \in 0 .. k
      BY <1>2
    <3>5. QED BY <2>3, <3>1, <3>3, <3>4
  <2>5. IsLoaded(bytes, segs, e, k + 1)
    <3>1. e = [i \in 0 .. k + 1 |-> e[i]]
      OBVIOUS
    <3> HIDE DEF e
    <3>2. QED BY <2>4, <3>1 DEF IsLoaded
  <2>6. QED BY <2>5
<1> HIDE DEF T
<1>3. N \in T
  BY <1>1, <1>2, Induct
<1>4. QED BY <1>3 DEF T

\* What Loaded computes.
LEMMA LoadedIs ==
    ASSUME NEW bytes, NEW segs, Len(segs) \in Nat
    PROVE  /\ Loaded(bytes, segs)[0] = bytes
           /\ \A i \in 1 .. Len(segs) :
                Loaded(bytes, segs)[i] = LoadSegment(Loaded(bytes, segs)[i - 1], segs[i])
<1>1. PICK n : n = Len(segs)
  OBVIOUS
<1>2. n \in Nat
  BY <1>1
<1>3. Loaded(bytes, segs) = CHOOSE g :
            g = [i \in 0 .. n |-> IF i = 0 THEN bytes ELSE LoadSegment(g[i - 1], segs[i])]
  BY <1>1 DEF Loaded
<1>4. \E g : g = [i \in 0 .. n |-> IF i = 0 THEN bytes ELSE LoadSegment(g[i - 1], segs[i])]
  <2>1. PICK g : IsLoaded(bytes, segs, g, n)
    BY <1>2, LoadedExists
  <2>2. g = [i \in 0 .. n |-> IF i = 0 THEN bytes ELSE LoadSegment(g[i - 1], segs[i])]
    BY <2>1 DEF IsLoaded, LoadStep
  <2>3. QED BY <2>2
<1>5. PICK f : f = Loaded(bytes, segs)
  OBVIOUS
<1>6. f = [i \in 0 .. n |-> IF i = 0 THEN bytes ELSE LoadSegment(f[i - 1], segs[i])]
  BY <1>3, <1>4, <1>5
<1>7. f[0] = bytes /\ \A i \in 1 .. n : f[i] = LoadSegment(f[i - 1], segs[i])
  BY <1>2, <1>6
<1>8. QED BY <1>1, <1>5, <1>7

\* What the kernel's code expects of segment s in an image b.
HoldsSegment(b, s) ==
    \A a \in s.vaddr .. s.vaddr + s.memsz - 1 :
        b[a] = IF a < s.vaddr + s.filesz THEN s.id ELSE 0

\* Loading a segment puts it there, and touches nothing below its address.
LEMMA LoadSegmentIs ==
    ASSUME NEW b, NEW s \in Segment, s.filesz <= s.memsz,
           s.vaddr .. s.vaddr + s.memsz - 1 \subseteq DOMAIN b, DOMAIN b \subseteq Nat
    PROVE  /\ DOMAIN LoadSegment(b, s) = DOMAIN b
           /\ HoldsSegment(LoadSegment(b, s), s)
           /\ \A a \in DOMAIN b : a < s.vaddr => LoadSegment(b, s)[a] = b[a]
<1>1. PICK v, m, z : v = s.vaddr /\ m = s.memsz /\ z = s.filesz
  OBVIOUS
<1>2. PICK p : p = CeilDiv(m, PageBytes) * PageBytes
  OBVIOUS
<1>3. v \in Nat /\ m \in Nat /\ z \in Nat /\ z <= m
  BY <1>1 DEF Segment
<1>4. p \in Nat /\ m <= p
  <2>1. PageBytes \in Nat \ {0}
    BY SizesAssumption
  <2>2. PICK c : c = CeilDiv(m, PageBytes)
    OBVIOUS
  <2>3. c \in Nat /\ m <= PageBytes * c
    BY <1>3, <2>1, <2>2, CeilDivIs
  <2>4. c * PageBytes = PageBytes * c /\ PageBytes * c \in Nat
    BY <2>1, <2>3, Z3
  <2>5. QED BY <1>2, <2>2, <2>3, <2>4
<1>5. LoadSegment(b, s) = [a \in DOMAIN b |->
            IF a \in v .. v + z - 1 THEN s.id
            ELSE IF a \in v .. v + p - 1 THEN 0 ELSE b[a]]
  BY <1>1, <1>2 DEF LoadSegment
<1>6. ASSUME NEW a \in v .. v + m - 1
      PROVE  LoadSegment(b, s)[a] = IF a < v + z THEN s.id ELSE 0
  <2>1. a \in DOMAIN b
    BY <1>1
  <2>2. a \in v .. v + p - 1 /\ (a \in v .. v + z - 1 <=> a < v + z)
    BY <1>3, <1>4
  <2>3. QED BY <1>5, <2>1, <2>2
<1>7. ASSUME NEW a \in DOMAIN b, a < v PROVE LoadSegment(b, s)[a] = b[a]
  <2>1. ~ (a \in v .. v + z - 1) /\ ~ (a \in v .. v + p - 1)
    BY <1>3, <1>4, <1>7
  <2>2. QED BY <1>5, <2>1
<1>8. DOMAIN LoadSegment(b, s) = DOMAIN b
  BY <1>5
<1>9. QED BY <1>1, <1>6, <1>7, <1>8 DEF HoldsSegment

\* Segments that are laid out by the linker end within their pages.
LEMMA SegmentsEnd ==
    ASSUME NEW segs, Linked(segs), NEW i \in 1 .. Len(segs)
    PROVE  segs[i].vaddr + segs[i].memsz <= KernelPages(segs) * PageBytes
<1>1. /\ segs \in Seq(Segment) /\ DOMAIN segs = 1 .. Len(segs) /\ Len(segs) \in Nat
      /\ segs[i] \in Segment
  BY DEF Linked
<1>2. segs[i].vaddr <= Totals(SegmentPages(segs))[i - 1] * PageBytes
  BY <1>1 DEF Linked
<1>3. PICK t, u, c, k, P : /\ t = Totals(SegmentPages(segs))[i - 1]
                           /\ u = Totals(SegmentPages(segs))[i]
                           /\ c = CeilDiv(segs[i].memsz, PageBytes)
                           /\ k = KernelPages(segs) /\ P = PageBytes
  OBVIOUS
<1>4. P \in Nat \ {0} /\ segs[i].memsz \in Nat /\ segs[i].vaddr \in Nat
  BY <1>1, <1>3, SizesAssumption DEF Segment
<1>5. /\ SegmentPages(segs) \in Seq(Nat) /\ Len(SegmentPages(segs)) = Len(segs)
      /\ SegmentPages(segs)[i] = c
  BY <1>1, <1>3, SegmentPagesAre
<1>6. i - 1 \in 0 .. Len(segs) /\ i \in 0 .. Len(segs)
  BY <1>1
<1>7. t \in Nat /\ u \in Nat /\ u = t + c /\ u <= k /\ k \in Nat
  BY <1>1, <1>3, <1>5, <1>6, TotalsAre DEF KernelPages
<1>8. c \in Nat /\ segs[i].memsz <= P * c
  BY <1>3, <1>4, CeilDivIs
<1>9. t * P + P * c = u * P /\ u * P <= k * P
  BY <1>4, <1>7, <1>8, Z3
<1>10. t * P \in Nat /\ P * c \in Nat /\ u * P \in Nat /\ k * P \in Nat
  BY <1>4, <1>7, <1>8
<1>11. segs[i].vaddr <= t * P
  BY <1>2, <1>3
<1>12. PICK v, m, x, y, z : /\ v = segs[i].vaddr /\ m = segs[i].memsz
                            /\ x = t * P /\ y = P * c /\ z = k * P
  OBVIOUS
<1>13. v \in Nat /\ m \in Nat /\ x \in Nat /\ y \in Nat /\ z \in Nat
  BY <1>4, <1>10, <1>12
<1>14. x + y <= z /\ v <= x /\ m <= y
  BY <1>8, <1>9, <1>10, <1>11, <1>12
<1>15. v + m <= z
  BY <1>13, <1>14
<1>16. QED BY <1>3, <1>12, <1>15

\* After all segments are loaded, each of them is there.
LEMMA ImageIs ==
    ASSUME NEW segs, Linked(segs), NEW K \in Nat, KernelPages(segs) <= K
    PROVE  \A i \in DOMAIN segs :
                HoldsSegment(Loaded([a \in 0 .. K * PageBytes - 1 |-> 0], segs)[Len(segs)], segs[i])
<1>1. PICK n : n = Len(segs)
  OBVIOUS
<1>2. /\ segs \in Seq(Segment) /\ n \in Nat /\ DOMAIN segs = 1 .. n
      /\ \A i \in 1 .. n : segs[i] \in Segment
  BY <1>1 DEF Linked
<1>3. PICK zeros : zeros = [a \in 0 .. K * PageBytes - 1 |-> 0]
  OBVIOUS
<1>4. PICK f : f = Loaded(zeros, segs)
  OBVIOUS
<1>5. f[0] = zeros /\ \A i \in 1 .. n : f[i] = LoadSegment(f[i - 1], segs[i])
  BY <1>1, <1>2, <1>4, LoadedIs
<1>6. K * PageBytes \in Nat /\ KernelPages(segs) * PageBytes <= K * PageBytes
  <2>1. PageBytes \in Nat /\ KernelPages(segs) \in Nat
    BY <1>2, SizesAssumption, SegmentPagesAre
  <2>2. PICK k : k = KernelPages(segs)
    OBVIOUS
  <2>3. k * PageBytes <= K * PageBytes
    BY <2>1, <2>2, Z3
  <2>4. QED BY <2>1, <2>2, <2>3
<1>7. PICK D : D = 0 .. K * PageBytes - 1
  OBVIOUS
<1>8. DOMAIN zeros = D /\ D \subseteq Nat
  BY <1>3, <1>6, <1>7
<1>9. \A i \in 1 .. n : segs[i].vaddr .. segs[i].vaddr + segs[i].memsz - 1 \subseteq D
  <2> TAKE i \in 1 .. n
  <2>1. segs[i].vaddr \in Nat /\ segs[i].memsz \in Nat
    BY <1>2 DEF Segment
  <2>2. segs[i].vaddr + segs[i].memsz <= KernelPages(segs) * PageBytes
    BY <1>1, SegmentsEnd
  <2>3. KernelPages(segs) * PageBytes \in Nat
    BY <1>2, SizesAssumption, SegmentPagesAre
  <2>4. QED BY <1>6, <1>7, <2>1, <2>2, <2>3
<1> DEFINE Good(k) == DOMAIN f[k] = D /\ \A j \in 1 .. k : HoldsSegment(f[k], segs[j])
           T == {k \in Nat : k <= n => Good(k)}
<1>10. 0 \in T
  BY <1>5, <1>8
<1>11. ASSUME NEW k \in Nat, k \in T PROVE k + 1 \in T
  <2> SUFFICES ASSUME k + 1 <= n PROVE Good(k + 1)
    OBVIOUS
  <2>1. k + 1 \in 1 .. n /\ (k + 1) - 1 = k /\ k <= n
    BY <1>2
  <2>2. PICK s, b : s = segs[k + 1] /\ b = f[k]
    OBVIOUS
  <2>3. f[k + 1] = LoadSegment(b, s)
    BY <1>5, <2>1, <2>2
  <2>4. DOMAIN b = D /\ \A j \in 1 .. k : HoldsSegment(b, segs[j])
    BY <1>11, <2>1, <2>2
  <2>5. /\ s \in Segment /\ s.filesz <= s.memsz
        /\ \A j \in 1 .. k : segs[j].vaddr + segs[j].memsz <= s.vaddr
    <3>1. k + 1 \in DOMAIN segs
      BY <1>2, <2>1
    <3>2. QED BY <1>2, <2>1, <2>2, <3>1 DEF Linked
  <2>6. /\ DOMAIN LoadSegment(b, s) = D /\ HoldsSegment(LoadSegment(b, s), s)
        /\ \A a \in D : a < s.vaddr => LoadSegment(b, s)[a] = b[a]
    BY <1>8, <1>9, <2>1, <2>2, <2>4, <2>5, LoadSegmentIs
  <2>7. ASSUME NEW j \in 1 .. k PROVE HoldsSegment(LoadSegment(b, s), segs[j])
    <3>1. j \in 1 .. n
      BY <1>2, <2>1
    <3>2. segs[j].vaddr \in Nat /\ segs[j].memsz \in Nat /\ s.vaddr \in Nat
      BY <1>2, <2>5, <3>1 DEF Segment
    <3>3. ASSUME NEW a \in segs[j].vaddr .. segs[j].vaddr + segs[j].memsz - 1
          PROVE  LoadSegment(b, s)[a] = b[a]
      <4>1. a \in D
        BY <1>9, <3>1
      <4>2. a < s.vaddr
        BY <2>5, <3>2
      <4>3. QED BY <2>6, <4>1, <4>2
    <3>4. HoldsSegment(b, segs[j])
      BY <2>4
    <3>5. QED BY <3>3, <3>4 DEF HoldsSegment
  <2>8. \A j \in 1 .. k + 1 : j = k + 1 \/ j \in 1 .. k
    OBVIOUS
  <2>9. QED BY <2>2, <2>3, <2>6, <2>7, <2>8
<1> HIDE DEF T
<1>12. n \in T
  BY <1>2, <1>10, <1>11, Induct
<1>13. Good(n)
  BY <1>2, <1>12 DEF T
<1>14. QED BY <1>1, <1>2, <1>3, <1>4, <1>13

-----------------------------------------------------------------------------
(* The firmware's memory map.                                              *)

\* A run ends at the first change of type.
LEMMA RunEndIs ==
    ASSUME NEW m, IsMemory(m), NEW s \in DOMAIN m
    PROVE  /\ RunEnd(m, s) \in s + 1 .. Cardinality(DOMAIN m)
           /\ \A g \in s .. RunEnd(m, s) - 1 : m[g] = m[s]
           /\ RunEnd(m, s) = Cardinality(DOMAIN m) \/ m[RunEnd(m, s) - 1] # m[RunEnd(m, s)]
           /\ \A e \in s + 1 .. Cardinality(DOMAIN m) - 1 : m[e - 1] # m[e] => RunEnd(m, s) <= e
<1>1. PICK n : n = Cardinality(DOMAIN m)
  OBVIOUS
<1>2. n \in Nat /\ DOMAIN m = 0 .. n - 1
  BY <1>1, FS_CardinalityType DEF IsMemory
<1>3. s \in Nat /\ s < n
  BY <1>2
<1> DEFINE C == {e \in s + 1 .. n - 1 : m[e - 1] # m[e]}
<1>4. PICK r : r = RunEnd(m, s)
  OBVIOUS
<1>5. r = Min({n} \cup C)
  BY <1>1, <1>4 DEF RunEnd
<1>6. C \subseteq s + 1 .. n - 1 /\ \A e \in s + 1 .. n - 1 : e \in C <=> m[e - 1] # m[e]
  OBVIOUS
<1> HIDE DEF C
<1>7. {n} \cup C \subseteq Nat /\ {n} \cup C # {}
  BY <1>2, <1>3, <1>6
<1>8. r \in {n} \cup C /\ \A t \in {n} \cup C : r <= t
  BY <1>5, <1>7, Least
<1>9. r \in s + 1 .. n
  BY <1>2, <1>3, <1>6, <1>8
<1>10. r = n \/ m[r - 1] # m[r]
  BY <1>6, <1>8
<1>11. \A e \in s + 1 .. n - 1 : m[e - 1] # m[e] => r <= e
  BY <1>6, <1>8
<1>12. ASSUME NEW g \in s .. r - 1 PROVE m[g] = m[s]
  <2> DEFINE T == {k \in Nat : s + k < r => m[s + k] = m[s]}
  <2>1. 0 \in T
    BY <1>3
  <2>2. ASSUME NEW k \in Nat, k \in T PROVE k + 1 \in T
    <3> SUFFICES ASSUME s + (k + 1) < r PROVE m[s + (k + 1)] = m[s]
      OBVIOUS
    <3>1. s + k < r /\ s + (k + 1) \in s + 1 .. n - 1 /\ (s + (k + 1)) - 1 = s + k
          /\ ~ (r <= s + (k + 1))
      BY <1>2, <1>3, <1>9
    <3>2. m[s + k] = m[s]
      BY <2>2, <3>1
    <3>3. m[s + k] = m[s + (k + 1)]
      BY <1>11, <3>1
    <3>4. QED BY <3>2, <3>3
  <2> HIDE DEF T
  <2>3. g - s \in Nat /\ s + (g - s) = g /\ g < r
    BY <1>3, <1>9
  <2>4. g - s \in T
    BY <2>1, <2>2, <2>3, Induct
  <2>5. s + (g - s) < r => m[s + (g - s)] = m[s]
    BY <2>4 DEF T
  <2>6. QED BY <2>3, <2>5
<1>13. QED BY <1>1, <1>4, <1>9, <1>10, <1>11, <1>12

\* Every frame of memory is in a run.
LEMMA InRun ==
    ASSUME NEW m, IsMemory(m), NEW f \in DOMAIN m, m[f] # "hole"
    PROVE  \E s \in RunStarts(m) : s <= f /\ f < RunEnd(m, s) /\ m[s] = m[f]
<1>1. PICK n : n = Cardinality(DOMAIN m)
  OBVIOUS
<1>2. n \in Nat /\ DOMAIN m = 0 .. n - 1 /\ f \in Nat /\ f < n
  <2>1. n \in Nat /\ DOMAIN m = 0 .. n - 1
    BY <1>1, FS_CardinalityType DEF IsMemory
  <2>2. QED BY <2>1
<1> DEFINE S == {g \in 0 .. f : \A h \in g .. f : m[h] = m[f]}
<1>3. PICK s : s = Min(S)
  OBVIOUS
<1>4. s \in S /\ \A t \in S : s <= t
  <2>1. S \subseteq Nat
    OBVIOUS
  <2>2. f \in S
    <3>1. f \in 0 .. f /\ \A h \in f .. f : h = f
      BY <1>2
    <3>2. QED BY <3>1
  <2> HIDE DEF S
  <2>3. QED BY <1>3, <2>1, <2>2, Least
<1>5. s \in Nat /\ s <= f /\ \A h \in s .. f : m[h] = m[f]
  BY <1>2, <1>4
<1>6. s = 0 \/ m[s - 1] # m[s]
  <2> SUFFICES ASSUME s # 0, m[s - 1] = m[s] PROVE FALSE
    OBVIOUS
  <2>1. s - 1 \in 0 .. f /\ ~ (s <= s - 1) /\ s \in s .. f
        /\ \A h \in s - 1 .. f : h = s - 1 \/ h \in s .. f
    BY <1>2, <1>5
  <2>2. \A h \in s - 1 .. f : m[h] = m[f]
    BY <1>5, <2>1
  <2>3. s - 1 \in S
    BY <2>1, <2>2
  <2>4. QED BY <1>4, <2>1, <2>3
<1>7. s \in DOMAIN m /\ m[s] = m[f]
  <2>1. s \in s .. f /\ s \in 0 .. n - 1
    BY <1>2, <1>5
  <2>2. QED BY <1>2, <1>5, <2>1
<1>8. s \in RunStarts(m)
  BY <1>6, <1>7 DEF RunStarts
<1>9. PICK r : r = RunEnd(m, s)
  OBVIOUS
<1>10. r \in s + 1 .. n /\ (r = n \/ m[r - 1] # m[r])
  BY <1>1, <1>7, <1>9, RunEndIs
<1>11. f < r
  <2> SUFFICES ASSUME r <= f PROVE FALSE
    BY <1>2, <1>5, <1>10
  <2>1. r - 1 \in s .. f /\ r \in s .. f /\ r # n
    BY <1>2, <1>5, <1>10
  <2>2. m[r - 1] = m[f] /\ m[r] = m[f]
    BY <1>5, <2>1
  <2>3. QED BY <1>10, <2>1, <2>2
<1>12. QED BY <1>5, <1>7, <1>8, <1>9, <1>11

Rank(S, x) == Cardinality({y \in S : y < x})

\* Ranks tell the members of a set of numbers apart, and are those below its
\* size.
LEMMA Ranks ==
    ASSUME NEW S, S \subseteq Nat, IsFiniteSet(S)
    PROVE  /\ Cardinality(S) \in Nat
           /\ \A x \in S : Rank(S, x) \in 0 .. Cardinality(S) - 1
           /\ \A x, z \in S : x < z => Rank(S, x) < Rank(S, z)
           /\ \A i \in 0 .. Cardinality(S) - 1 : \E x \in S : Rank(S, x) = i
<1>1. PICK k : k = Cardinality(S)
  OBVIOUS
<1>2. k \in Nat
  BY <1>1, FS_CardinalityType
<1>3. ASSUME NEW x \in S
      PROVE  /\ IsFiniteSet({y \in S : y < x}) /\ Rank(S, x) \in 0 .. k - 1
  <2> DEFINE B == {y \in S : y < x}
  <2>1. B \in SUBSET S /\ x \notin B
    OBVIOUS
  <2>2. B # S
    BY <2>1
  <2>3. Rank(S, x) = Cardinality(B)
    BY DEF Rank
  <2> HIDE DEF B
  <2>4. IsFiniteSet(B) /\ Cardinality(B) <= k /\ (k = Cardinality(B) => S = B)
    BY <1>1, <2>1, FS_Subset
  <2>5. Cardinality(B) \in Nat
    BY <2>4, FS_CardinalityType
  <2>6. QED BY <1>2, <2>2, <2>3, <2>4, <2>5 DEF B
<1>4. ASSUME NEW x \in S, NEW z \in S, x < z PROVE Rank(S, x) < Rank(S, z)
  <2> DEFINE B == {y \in S : y < x}
             C == {y \in S : y < z}
  <2>1. \A y \in S : y < x => y < z
    BY <1>4
  <2>2. B \in SUBSET C
    BY <2>1
  <2>3. x \in C /\ x \notin B
    BY <1>4
  <2>4. Rank(S, x) = Cardinality(B) /\ Rank(S, z) = Cardinality(C)
    BY DEF Rank
  <2>5. IsFiniteSet(B) /\ IsFiniteSet(C)
    BY <1>3
  <2> HIDE DEF B, C
  <2>6. Cardinality(B) <= Cardinality(C) /\ (Cardinality(C) = Cardinality(B) => C = B)
    BY <2>2, <2>5, FS_Subset
  <2>7. Cardinality(B) \in Nat /\ Cardinality(C) \in Nat
    BY <2>5, FS_CardinalityType
  <2>8. QED BY <2>3, <2>4, <2>6, <2>7
<1>5. ASSUME NEW i \in 0 .. k - 1 PROVE \E x \in S : Rank(S, x) = i
  <2> DEFINE f == [x \in S |-> Rank(S, x)]
  <2>1. f \in [S -> 0 .. k - 1]
    BY <1>3
  <2>2. \A x, z \in S : f[x] = f[z] => x = z
    <3> SUFFICES ASSUME NEW x \in S, NEW z \in S, f[x] = f[z], x # z PROVE FALSE
      OBVIOUS
    <3>0. Rank(S, x) \in 0 .. k - 1 /\ Rank(S, z) \in 0 .. k - 1
      BY <1>3
    <3>1. Rank(S, x) = Rank(S, z) /\ Rank(S, x) \in Nat /\ Rank(S, z) \in Nat
      BY <3>0
    <3>2. x < z \/ z < x
      OBVIOUS
    <3>3. Rank(S, x) < Rank(S, z) \/ Rank(S, z) < Rank(S, x)
      BY <1>4, <3>2
    <3>4. QED BY <3>1, <3>3
  <2> HIDE DEF f
  <2>3. f \in Injection(S, 0 .. k - 1)
    BY <2>1, <2>2 DEF Injection, IsInjective
  <2>4. IsFiniteSet(0 .. k - 1) /\ Cardinality(0 .. k - 1) = k
    <3>1. 0 \in Int /\ k - 1 \in Int
      BY <1>2
    <3>2. IsFiniteSet(0 .. k - 1) /\ Cardinality(0 .. k - 1) = IF 0 > k - 1 THEN 0 ELSE k - 1 - 0 + 1
      BY <3>1, FS_Interval
    <3>3. QED BY <1>2, <3>2
  <2>5. f \in Surjection(S, 0 .. k - 1)
    BY <1>1, <2>3, <2>4, FS_Injection
  <2>6. PICK x \in S : f[x] = i
    BY <2>5 DEF Surjection
  <2>7. QED BY <2>6 DEF f
<1>6. QED BY <1>1, <1>2, <1>3, <1>4, <1>5

\* Nth is the inverse of Rank.
LEMMA NthIs ==
    ASSUME NEW S, S \subseteq Nat, IsFiniteSet(S)
    PROVE  /\ \A i \in 1 .. Cardinality(S) : Nth(S, i) \in S /\ Rank(S, Nth(S, i)) = i - 1
           /\ \A x \in S : Nth(S, Rank(S, x) + 1) = x
<1>1. PICK k : k = Cardinality(S)
  OBVIOUS
<1>2. /\ k \in Nat /\ \A x \in S : Rank(S, x) \in 0 .. k - 1
      /\ \A x, z \in S : x < z => Rank(S, x) < Rank(S, z)
      /\ \A i \in 0 .. k - 1 : \E x \in S : Rank(S, x) = i
  BY <1>1, Ranks
<1>3. \A i : Nth(S, i) = CHOOSE x \in S : Rank(S, x) = i - 1
  BY DEF Nth, Rank
<1>4. ASSUME NEW i \in 1 .. k PROVE Nth(S, i) \in S /\ Rank(S, Nth(S, i)) = i - 1
  <2>1. i - 1 \in 0 .. k - 1
    BY <1>2
  <2>2. \E x \in S : Rank(S, x) = i - 1
    BY <1>2, <2>1
  <2>3. QED BY <1>3, <2>2
<1>5. ASSUME NEW x \in S PROVE Nth(S, Rank(S, x) + 1) = x
  <2>1. PICK i : i = Rank(S, x) + 1
    OBVIOUS
  <2>2. i \in 1 .. k /\ i - 1 = Rank(S, x)
    BY <1>2, <2>1
  <2>3. PICK z : z = Nth(S, i)
    OBVIOUS
  <2>4. z \in S /\ Rank(S, z) = Rank(S, x)
    BY <1>4, <2>2, <2>3
  <2>5. x \in Nat /\ z \in Nat /\ Rank(S, x) \in Nat
    BY <1>2, <2>4
  <2>6. ~ (x < z) /\ ~ (z < x)
    <3>1. x < z => Rank(S, x) < Rank(S, z)
      BY <1>2, <2>4
    <3>2. z < x => Rank(S, z) < Rank(S, x)
      BY <1>2, <2>4
    <3>3. QED BY <2>4, <2>5, <3>1, <3>2
  <2>7. QED BY <2>1, <2>3, <2>5, <2>6
<1>6. QED BY <1>1, <1>4, <1>5

\* What the firmware says of the run that starts at frame s.
Described(m, s) == [type |-> m[s], start |-> s, pages |-> RunEnd(m, s) - s]

LEMMA DescribedIs ==
    ASSUME NEW m, IsMemory(m), NEW s \in RunStarts(m)
    PROVE  /\ s \in DOMAIN m /\ s \in Nat /\ m[s] # "hole" /\ (s = 0 \/ m[s - 1] # m[s])
           /\ Described(m, s) \in Desc /\ RunEnd(m, s) \in s + 1 .. Cardinality(DOMAIN m)
           /\ RunOf(Described(m, s)) = s .. RunEnd(m, s) - 1
           /\ \A f \in RunOf(Described(m, s)) : f \in DOMAIN m /\ m[f] = m[s]
<1>1. s \in DOMAIN m /\ m[s] # "hole" /\ (s = 0 \/ m[s - 1] # m[s])
  BY DEF RunStarts
<1>2. PICK n, r : n = Cardinality(DOMAIN m) /\ r = RunEnd(m, s)
  OBVIOUS
<1>3. n \in Nat /\ DOMAIN m = 0 .. n - 1
  BY <1>2, FS_CardinalityType DEF IsMemory
<1>4. s \in Nat /\ m[s] \in Types
  BY <1>1, <1>3 DEF IsMemory
<1>5. r \in s + 1 .. n /\ \A g \in s .. r - 1 : m[g] = m[s]
  BY <1>1, <1>2, RunEndIs
<1>6. Described(m, s) = [type |-> m[s], start |-> s, pages |-> r - s] /\ r - s \in Nat
  BY <1>2, <1>3, <1>4, <1>5 DEF Described
<1>7. Described(m, s) \in Desc
  BY <1>4, <1>6 DEF Desc
<1>8. RunOf(Described(m, s)) = s .. r - 1
  BY <1>3, <1>4, <1>5, <1>6 DEF RunOf
<1>9. \A f \in s .. r - 1 : f \in DOMAIN m
  BY <1>3, <1>4, <1>5
<1>10. QED BY <1>1, <1>2, <1>4, <1>5, <1>7, <1>8, <1>9

\* The descriptors are those of the runs, whichever comes first.
LEMMA DescriptorsAre ==
    ASSUME NEW m, IsMemory(m), NEW sorted \in BOOLEAN
    PROVE  /\ RunStarts(m) \subseteq Nat /\ IsFiniteSet(RunStarts(m))
           /\ Descriptors(m, sorted) \in Seq(Desc)
           /\ Len(Descriptors(m, sorted)) = Cardinality(RunStarts(m))
           /\ \A i \in DOMAIN Descriptors(m, sorted) :
                \E s \in RunStarts(m) : Descriptors(m, sorted)[i] = Described(m, s)
           /\ \A s \in RunStarts(m) :
                \E i \in DOMAIN Descriptors(m, sorted) : Descriptors(m, sorted)[i] = Described(m, s)
           /\ sorted => \A i \in 1 .. Cardinality(RunStarts(m)) :
                            Descriptors(m, sorted)[i] = Described(m, Nth(RunStarts(m), i))
<1>1. PICK S, k, D : /\ S = RunStarts(m) /\ k = Cardinality(S)
                     /\ D = Descriptors(m, sorted)
  OBVIOUS
<1>2. S \subseteq DOMAIN m /\ S \subseteq Nat
  BY <1>1, DescribedIs
<1>3. IsFiniteSet(S)
  BY <1>2, FS_Subset DEF IsMemory
<1>4. k \in Nat /\ \A x \in S : Rank(S, x) \in 0 .. k - 1
  BY <1>1, <1>2, <1>3, Ranks
<1> DEFINE Index(i) == IF sorted THEN i ELSE IF i = 1 THEN k ELSE i - 1
<1>5. D = [i \in 1 .. k |-> Described(m, Nth(S, Index(i)))]
  BY <1>1 DEF Descriptors, Described
<1>6. \A i \in 1 .. k : Index(i) \in 1 .. k
  BY <1>4
<1>7. \A j \in 1 .. k : \E i \in 1 .. k : Index(i) = j
  <2> TAKE j \in 1 .. k
  <2>1. CASE sorted
    BY <2>1
  <2>2. CASE ~sorted /\ j = k
    <3>1. 1 \in 1 .. k /\ Index(1) = j
      BY <1>4, <2>2
    <3>2. QED BY <3>1
  <2>3. CASE ~sorted /\ j # k
    <3>1. j + 1 \in 1 .. k /\ j + 1 # 1 /\ (j + 1) - 1 = j
      BY <1>4, <2>3
    <3>2. Index(j + 1) = j
      BY <2>3, <3>1
    <3>3. QED BY <3>1, <3>2
  <2>4. QED BY <2>1, <2>2, <2>3
<1>8. sorted => \A i \in 1 .. k : Index(i) = i
  OBVIOUS
<1> HIDE DEF Index
<1>9. \A i \in 1 .. k : Nth(S, i) \in S
  BY <1>1, <1>2, <1>3, NthIs
<1>10. \A i \in 1 .. k : Nth(S, Index(i)) \in S /\ D[i] = Described(m, Nth(S, Index(i)))
  BY <1>5, <1>6, <1>9
<1>11. \A s \in S : Described(m, s) \in Desc
  BY <1>1, DescribedIs
<1>12. DOMAIN D = 1 .. k /\ D \in Seq(Desc) /\ Len(D) = k
  <2>1. D \in [1 .. k -> Desc]
    BY <1>5, <1>10, <1>11
  <2>2. QED BY <1>4, <2>1
<1>13. \A i \in DOMAIN D : \E s \in S : D[i] = Described(m, s)
  BY <1>10, <1>12
<1>14. ASSUME NEW s \in S PROVE \E i \in DOMAIN D : D[i] = Described(m, s)
  <2>1. PICK j : j = Rank(S, s) + 1
    OBVIOUS
  <2>2. j \in 1 .. k
    BY <1>4, <2>1
  <2>3. Nth(S, j) = s
    BY <1>2, <1>3, <2>1, NthIs
  <2>4. PICK i \in 1 .. k : Index(i) = j
    BY <1>7, <2>2
  <2>5. D[i] = Described(m, s)
    BY <1>10, <2>3, <2>4
  <2>6. QED BY <1>12, <2>5
<1>15. sorted => \A i \in 1 .. k : D[i] = Described(m, Nth(S, i))
  BY <1>8, <1>10
<1>16. QED BY <1>1, <1>2, <1>3, <1>12, <1>13, <1>14, <1>15

\* A descriptor holds frames of its type, and every frame that is no hole is in
\* one.
LEMMA DescriptorsCover ==
    ASSUME NEW m, IsMemory(m), NEW sorted \in BOOLEAN, NEW D, D = Descriptors(m, sorted)
    PROVE  /\ \A i \in DOMAIN D : \A f \in RunOf(D[i]) :
                f \in DOMAIN m /\ m[f] = D[i].type /\ m[f] # "hole"
           /\ \A f \in DOMAIN m : m[f] # "hole" =>
                \E i \in DOMAIN D : f \in RunOf(D[i]) /\ D[i].type = m[f]
<1>1. /\ \A i \in DOMAIN D : \E s \in RunStarts(m) : D[i] = Described(m, s)
      /\ \A s \in RunStarts(m) : \E i \in DOMAIN D : D[i] = Described(m, s)
  BY DescriptorsAre
<1>2. \A s \in RunStarts(m) : Described(m, s).type = m[s]
  BY DEF Described
<1>3. ASSUME NEW i \in DOMAIN D, NEW f \in RunOf(D[i])
      PROVE  f \in DOMAIN m /\ m[f] = D[i].type /\ m[f] # "hole"
  <2>1. PICK s \in RunStarts(m) : D[i] = Described(m, s)
    BY <1>1
  <2>2. m[s] # "hole" /\ f \in DOMAIN m /\ m[f] = m[s]
    BY <2>1, DescribedIs
  <2>3. QED BY <1>2, <2>1, <2>2
<1>4. ASSUME NEW f \in DOMAIN m, m[f] # "hole"
      PROVE  \E i \in DOMAIN D : f \in RunOf(D[i]) /\ D[i].type = m[f]
  <2>1. PICK s \in RunStarts(m) : s <= f /\ f < RunEnd(m, s) /\ m[s] = m[f]
    BY <1>4, InRun
  <2>2. PICK i \in DOMAIN D : D[i] = Described(m, s)
    BY <1>1
  <2>3. s \in Nat /\ RunOf(D[i]) = s .. RunEnd(m, s) - 1
        /\ RunEnd(m, s) \in s + 1 .. Cardinality(DOMAIN m)
    BY <2>2, DescribedIs
  <2>4. f \in Nat /\ Cardinality(DOMAIN m) \in Nat
    <3>1. Cardinality(DOMAIN m) \in Nat
      BY FS_CardinalityType DEF IsMemory
    <3>2. QED BY <3>1 DEF IsMemory
  <2>5. f \in RunOf(D[i])
    BY <2>1, <2>3, <2>4
  <2>6. QED BY <1>2, <2>1, <2>2, <2>5
<1>5. QED BY <1>3, <1>4

\* get_physical_memory_extent is right where descriptors are in order and none
\* is passed over.
LEMMA ExtentIs ==
    ASSUME NEW m, IsMemory(m), \A f \in DOMAIN m : m[f] # "unusable",
           NEW f \in DOMAIN m, m[f] # "hole"
    PROVE  f < Extent(Descriptors(m, TRUE))
<1>1. PICK S, k, D : /\ S = RunStarts(m) /\ k = Cardinality(S)
                     /\ D = Descriptors(m, TRUE)
  OBVIOUS
<1>2. /\ S \subseteq Nat /\ IsFiniteSet(S) /\ D \in Seq(Desc) /\ Len(D) = k
      /\ \A i \in 1 .. k : D[i] = Described(m, Nth(S, i))
  BY <1>1, DescriptorsAre
<1>3. /\ k \in Nat /\ \A x \in S : Rank(S, x) \in 0 .. k - 1
      /\ \A x, z \in S : x < z => Rank(S, x) < Rank(S, z)
  BY <1>1, <1>2, Ranks
<1>4. PICK s \in S : s <= f /\ f < RunEnd(m, s) /\ m[s] = m[f]
  BY <1>1, InRun
<1>5. k >= 1 /\ DOMAIN D = 1 .. k
  <2>1. Rank(S, s) \in 0 .. k - 1
    BY <1>3
  <2>2. QED BY <1>2, <1>3, <2>1
<1>6. PICK x : x = Nth(S, k)
  OBVIOUS
<1>7. x \in S /\ Rank(S, x) = k - 1
  <2>1. k \in 1 .. k
    BY <1>3, <1>5
  <2>2. QED BY <1>1, <1>2, <1>6, <2>1, NthIs
<1>8. s <= x
  <2>1. s \in Nat /\ x \in Nat
    BY <1>2, <1>7
  <2>2. ~ (x < s)
    <3>1. x < s => Rank(S, x) < Rank(S, s)
      BY <1>3, <1>7
    <3>2. Rank(S, s) \in 0 .. k - 1
      BY <1>3
    <3>3. QED BY <1>3, <1>7, <3>1, <3>2
  <2>3. QED BY <2>1, <2>2
<1>9. {i \in DOMAIN D : D[i].type # "unusable"} = 1 .. k
  <2>1. ASSUME NEW i \in 1 .. k PROVE D[i].type # "unusable"
    <3>1. PICK t \in S : D[i] = Described(m, t)
      BY <1>1, <1>2, NthIs
    <3>2. t \in DOMAIN m
      BY <1>1, DescribedIs
    <3>3. QED BY <3>1, <3>2 DEF Described
  <2>2. QED BY <1>5, <2>1
<1>10. Max(1 .. k) = k
  <2>1. /\ 1 .. k \subseteq Nat /\ 1 .. k # {} /\ \A t \in 1 .. k : t <= k
        /\ k \in 1 .. k
    BY <1>3, <1>5
  <2>2. Max(1 .. k) \in 1 .. k /\ \A t \in 1 .. k : t <= Max(1 .. k)
    BY <1>3, <2>1, Greatest
  <2>3. Max(1 .. k) <= k /\ k <= Max(1 .. k) /\ Max(1 .. k) \in Nat
    BY <2>1, <2>2
  <2>4. QED BY <1>3, <2>3
<1>11. D[k] = Described(m, x) /\ 1 .. k # {}
  <2>1. k \in 1 .. k
    BY <1>3, <1>5
  <2>2. QED BY <1>2, <1>6, <2>1
<1>12. PICK n : n = Cardinality(DOMAIN m)
  OBVIOUS
<1>13. n \in Nat /\ DOMAIN m = 0 .. n - 1 /\ f \in Nat
  <2>1. n \in Nat /\ DOMAIN m = 0 .. n - 1
    BY <1>12, FS_CardinalityType DEF IsMemory
  <2>2. QED BY <2>1
<1>14. PICK r : r = RunEnd(m, x)
  OBVIOUS
<1>15. /\ x \in Nat /\ x \in DOMAIN m /\ (x = 0 \/ m[x - 1] # m[x]) /\ r \in x + 1 .. n
       /\ s \in Nat /\ s \in DOMAIN m
  BY <1>1, <1>7, <1>12, <1>14, DescribedIs
<1>16. Extent(D) = r
  <2>1. Extent(D) = D[k].start + D[k].pages
    BY <1>9, <1>10, <1>11 DEF Extent
  <2>2. D[k].start = x /\ D[k].pages = r - x
    BY <1>11, <1>14 DEF Described
  <2>3. QED BY <1>13, <1>15, <2>1, <2>2
<1>17. f < r
  <2>1. CASE s = x
    BY <1>4, <1>14, <2>1
  <2>2. CASE s # x
    <3>1. x \in s + 1 .. n - 1 /\ x # 0
      BY <1>8, <1>13, <1>15, <2>2
    <3>2. RunEnd(m, s) <= x /\ RunEnd(m, s) \in s + 1 .. n
      BY <1>12, <1>15, <3>1, RunEndIs
    <3>3. QED BY <1>4, <1>13, <1>15, <3>2
  <2>3. QED BY <2>1, <2>2
<1>18. QED BY <1>1, <1>16, <1>17

-----------------------------------------------------------------------------
(* Allocating and releasing.                                               *)

LEMMA SetTypeIs ==
    ASSUME NEW m, IsMemory(m), NEW r, NEW t \in Types
    PROVE  /\ IsMemory(SetType(m, r, t)) /\ DOMAIN SetType(m, r, t) = DOMAIN m
           /\ \A f \in DOMAIN m : SetType(m, r, t)[f] = IF f \in RunOf(r) THEN t ELSE m[f]
<1>1. /\ DOMAIN SetType(m, r, t) = DOMAIN m
      /\ \A f \in DOMAIN m : SetType(m, r, t)[f] = IF f \in RunOf(r) THEN t ELSE m[f]
  BY DEF SetType
<1>2. \A f \in DOMAIN m : m[f] \in Types
  BY DEF IsMemory
<1>3. \A f \in DOMAIN m : (IF f \in RunOf(r) THEN t ELSE m[f]) \in Types
  BY <1>2
<1>4. SetType(m, r, t) \in [DOMAIN m -> Types]
  BY <1>3 DEF SetType
<1>5. QED BY <1>1, <1>4 DEF IsMemory

\* The firmware gives conventional frames, as many as are asked for.
LEMMA FitsAre ==
    ASSUME NEW m, IsMemory(m), NEW n \in Nat, NEW r \in Fits(m, n)
    PROVE  /\ r \in Run /\ r.pages = n
           /\ \A f \in RunOf(r) : f \in DOMAIN m /\ m[f] = "conventional"
<1> DEFINE Good(f) == \A g \in f .. f + n - 1 : g \in DOMAIN m /\ m[g] = "conventional"
           S == {f \in DOMAIN m : Good(f)}
<1>1. S # {} /\ \E f \in {Min(S), Max(S)} : r = [start |-> f, pages |-> n]
  BY DEF Fits
<1>2. PICK c : c = Cardinality(DOMAIN m)
  OBVIOUS
<1>3. c \in Nat /\ DOMAIN m = 0 .. c - 1
  BY <1>2, FS_CardinalityType DEF IsMemory
<1>4. S \subseteq DOMAIN m /\ \A f \in S : Good(f)
  OBVIOUS
<1> HIDE DEF S
<1>5. S \subseteq Nat /\ \A f \in S : f <= c
  BY <1>3, <1>4
<1>6. Min(S) \in S /\ Max(S) \in S
  BY <1>1, <1>3, <1>5, Least, Greatest
<1>7. PICK f \in S : r = [start |-> f, pages |-> n]
  BY <1>1, <1>6
<1>8. f \in Nat /\ Good(f)
  BY <1>4, <1>5
<1>9. r \in Run /\ r.pages = n /\ RunOf(r) = f .. f + n - 1
  BY <1>7, <1>8 DEF Run, RunOf
<1>10. QED BY <1>8, <1>9

\* An allocation takes frames that nobody had.
LEMMA Takes ==
    ASSUME NEW m, IsMemory(m), NEW n \in Nat, NEW r \in Fits(m, n), NEW t \in {"loader", "boot"},
           NEW m2, m2 = SetType(m, r, t)
    PROVE  /\ IsMemory(m2) /\ DOMAIN m2 = DOMAIN m
           /\ r \in Run /\ r.pages = n
           /\ t = "loader" => Owned(m2, r)
           /\ \A x : Owned(m, x) => Owned(m2, x) /\ RunOf(x) \cap RunOf(r) = {}
           /\ \A z : DOMAIN z = DOMAIN m /\ Ground(z, m) => Ground(z, m2)
           /\ RunOf(r) \subseteq DOMAIN m
<1>1. t \in Types
  BY DEF Types, Blocked
<1>2. /\ r \in Run /\ r.pages = n
      /\ \A f \in RunOf(r) : f \in DOMAIN m /\ m[f] = "conventional"
  BY FitsAre
<1>3. /\ IsMemory(m2) /\ DOMAIN m2 = DOMAIN m
      /\ \A f \in DOMAIN m : m2[f] = IF f \in RunOf(r) THEN t ELSE m[f]
  BY <1>1, SetTypeIs
<1>4. t = "loader" => Owned(m2, r)
  BY <1>2, <1>3 DEF Owned
<1>5. ASSUME NEW x, Owned(m, x) PROVE Owned(m2, x) /\ RunOf(x) \cap RunOf(r) = {}
  <2>1. \A f \in RunOf(x) : f \in DOMAIN m /\ m[f] = "loader"
    BY <1>5 DEF Owned
  <2>2. \A f \in RunOf(x) : f \notin RunOf(r)
    BY <1>2, <2>1
  <2>3. QED BY <1>3, <2>1, <2>2 DEF Owned
<1>6. ASSUME NEW z, DOMAIN z = DOMAIN m, Ground(z, m) PROVE Ground(z, m2)
  <2> SUFFICES ASSUME NEW f \in DOMAIN z, NEW u \in {"hole", "unusable"}
               PROVE  z[f] = u <=> m2[f] = u
    BY DEF Ground
  <2>1. z[f] = u <=> m[f] = u
    BY <1>6 DEF Ground
  <2>2. m2[f] = IF f \in RunOf(r) THEN t ELSE m[f]
    BY <1>3, <1>6
  <2>3. f \in RunOf(r) => m[f] = "conventional"
    BY <1>2
  <2>4. QED BY <2>1, <2>2, <2>3
<1>7. QED BY <1>2, <1>3, <1>4, <1>5, <1>6

\* Releasing a run leaves the others alone.
LEMMA Releases ==
    ASSUME NEW m, IsMemory(m), NEW b, Owned(m, b),
           NEW m2, m2 = SetType(m, b, "conventional")
    PROVE  /\ IsMemory(m2) /\ DOMAIN m2 = DOMAIN m
           /\ \A x : Owned(m, x) /\ RunOf(x) \cap RunOf(b) = {} => Owned(m2, x)
           /\ \A z : DOMAIN z = DOMAIN m /\ Ground(z, m) => Ground(z, m2)
<1>1. "conventional" \in Types
  BY DEF Types
<1>2. \A f \in RunOf(b) : f \in DOMAIN m /\ m[f] = "loader"
  BY DEF Owned
<1>3. /\ IsMemory(m2) /\ DOMAIN m2 = DOMAIN m
      /\ \A f \in DOMAIN m : m2[f] = IF f \in RunOf(b) THEN "conventional" ELSE m[f]
  BY <1>1, SetTypeIs
<1>4. ASSUME NEW x, Owned(m, x), RunOf(x) \cap RunOf(b) = {} PROVE Owned(m2, x)
  <2>1. \A f \in RunOf(x) : f \in DOMAIN m /\ m[f] = "loader" /\ f \notin RunOf(b)
    BY <1>4 DEF Owned
  <2>2. QED BY <1>3, <2>1 DEF Owned
<1>5. ASSUME NEW z, DOMAIN z = DOMAIN m, Ground(z, m) PROVE Ground(z, m2)
  <2> SUFFICES ASSUME NEW f \in DOMAIN z, NEW u \in {"hole", "unusable"}
               PROVE  z[f] = u <=> m2[f] = u
    BY DEF Ground
  <2>1. z[f] = u <=> m[f] = u
    BY <1>5 DEF Ground
  <2>2. m2[f] = IF f \in RunOf(b) THEN "conventional" ELSE m[f]
    BY <1>3, <1>5
  <2>3. f \in RunOf(b) => m[f] = "loader"
    BY <1>2
  <2>4. QED BY <2>1, <2>2, <2>3
<1>6. QED BY <1>3, <1>4, <1>5

-----------------------------------------------------------------------------
(* Sizes.                                                                  *)

LEMMA Constants ==
    /\ Entries \in Nat \ {0} /\ Entries >= 2 /\ PageBytes \in Nat \ {0}
    /\ WordBits \in Nat \ {0} /\ DescPerPage \in Nat \ {0} /\ BootStatePages \in Nat \ {0}
    /\ StackPages \in Nat \ {0} /\ LowPages \in Nat \ {0}
<1>1. QED BY SizesAssumption

LEMMA ExtentType ==
    ASSUME NEW descs \in Seq(Desc)
    PROVE  Extent(descs) \in Nat
<1> DEFINE I == {i \in DOMAIN descs : descs[i].type # "unusable"}
<1>1. PICK n : n = Len(descs)
  OBVIOUS
<1>2. n \in Nat /\ DOMAIN descs = 1 .. n /\ \A i \in 1 .. n : descs[i] \in Desc
  BY <1>1
<1>3. Extent(descs) = IF I = {} THEN 0 ELSE descs[Max(I)].start + descs[Max(I)].pages
  BY DEF Extent
<1>4. I \subseteq Nat /\ (\A t \in I : t <= n) /\ I \subseteq 1 .. n
  BY <1>2
<1> HIDE DEF I
<1>5. I # {} => Max(I) \in 1 .. n
  BY <1>2, <1>4, Greatest
<1>6. CASE I = {}
  BY <1>3, <1>6
<1>7. CASE I # {}
  <2>1. PICK i : i = Max(I)
    OBVIOUS
  <2>2. descs[i] \in Desc
    BY <1>2, <1>5, <1>7, <2>1
  <2>3. descs[i].start \in Nat /\ descs[i].pages \in Nat
    BY <2>2 DEF Desc
  <2>4. QED BY <1>3, <1>7, <2>1, <2>3
<1>8. QED BY <1>6, <1>7

LEMMA BitmapPagesType ==
    ASSUME NEW e \in Nat
    PROVE  BitmapPages(e) \in Nat
<1>1. (e * 2) \div 8 \in Nat
  OBVIOUS
<1>2. PICK b : b = (e * 2) \div 8
  OBVIOUS
<1>3. QED BY <1>1, <1>2, Constants, CeilDivIs DEF BitmapPages

LEMMA PreservedPagesType ==
    ASSUME NEW descs \in Seq(Desc)
    PROVE  PreservedPages(descs) \in Nat
<1>1. PICK n : n = Len(descs)
  OBVIOUS
<1>2. n \in Nat /\ DOMAIN descs = 1 .. n /\ \A i \in 1 .. n : descs[i] \in Desc
  BY <1>1
<1>3. \A i \in 1 .. n : descs[i].pages \in Nat
  BY <1>2 DEF Desc
<1>4. PICK s : s = [i \in DOMAIN descs |-> IF descs[i].type \in Preserved THEN descs[i].pages ELSE 0]
  OBVIOUS
<1>5. s \in [1 .. n -> Nat]
  BY <1>2, <1>3, <1>4
<1>6. s \in Seq(Nat)
  BY <1>2, <1>5
<1>7. QED BY <1>4, <1>6, TotalsAre DEF PreservedPages

\* get_pagetable_size: at least five pages and one for each table.
LEMMA PageTableSizeIs ==
    ASSUME NEW p \in Nat
    PROVE  /\ PageTableSize(p) \in Nat
           /\ p > 0 /\ p <= Entries * Entries => PageTableSize(p) = CeilDiv(p, Entries) + 4
<1>1. PICK E : E = Entries
  OBVIOUS
<1>2. E \in Nat \ {0} /\ E >= 2
  BY <1>1, Constants
<1>3. PICK F, G : F = E * E /\ G = E * E * E
  OBVIOUS
<1>4. F \in Nat \ {0} /\ G \in Nat \ {0} /\ F <= G
  <2>1. F \in Nat /\ F >= E
    BY <1>2, <1>3, Z3
  <2>2. G = F * E
    BY <1>3
  <2>3. G \in Nat /\ G >= F
    BY <1>2, <2>1, <2>2, Z3
  <2>4. QED BY <1>2, <2>1, <2>3
<1>5. PICK a, b, c : a = CeilDiv(p, G) /\ b = CeilDiv(p, F) /\ c = CeilDiv(p, E)
  OBVIOUS
<1>6. /\ a \in Nat /\ p <= G * a /\ G * a < p + G
      /\ b \in Nat /\ p <= F * b /\ F * b < p + F
      /\ c \in Nat
  BY <1>2, <1>4, <1>5, CeilDivIs
<1>7. PageTableSize(p) = 1 + (a + 1) + b + c
  BY <1>1, <1>3, <1>5 DEF PageTableSize
<1>8. ASSUME p > 0, p <= F PROVE a = 1 /\ b = 1
  <2>1. \A X \in Nat \ {0} : \A x \in Nat : p <= X /\ p <= X * x /\ X * x < p + X => x = 1
    <3> SUFFICES ASSUME NEW X \in Nat \ {0}, NEW x \in Nat, p <= X, p <= X * x, X * x < p + X, x # 1
                 PROVE  FALSE
      OBVIOUS
    <3>1. x # 0
      <4> SUFFICES ASSUME x = 0 PROVE FALSE
        OBVIOUS
      <4>1. X * x = 0
        OBVIOUS
      <4>2. QED BY <1>8, <4>1
    <3>2. x >= 2
      BY <3>1
    <3>3. X * x >= X * 2
      BY <3>2, Z3
    <3>4. X * x \in Nat
      OBVIOUS
    <3>5. QED BY <3>3, <3>4
  <2>2. p <= G
    BY <1>4, <1>8
  <2>3. QED BY <1>4, <1>6, <1>8, <2>1, <2>2
<1>9. QED BY <1>1, <1>3, <1>5, <1>6, <1>7, <1>8

\* The storage of the bitmap has the word of every page below the extent.
LEMMA WordsInside ==
    ASSUME NEW e \in Nat, e >= 4, NEW p \in Nat, p < e
    PROVE  (p \div WordBits + 1) * (WordBits \div 8) <= BitmapPages(e) * PageBytes
<1>1. PICK b, P, B, W, w : /\ b = (e * 2) \div 8 /\ P = PageBytes /\ B = BitmapPages(e)
                           /\ W = WordBits /\ w = W \div 8
  OBVIOUS
<1>2. P \in Nat \ {0} /\ W \in Nat \ {0} /\ W % 8 = 0 /\ P % w = 0
  BY <1>1, SizesAssumption
<1>3. w \in Nat \ {0} /\ W = 8 * w
  BY <1>1, <1>2
<1>4. b \in Nat /\ b >= 1 /\ e <= 4 * b + 3
  BY <1>1
<1>5. B \in Nat /\ b <= P * B
  BY <1>1, <1>2, <1>4, CeilDivIs DEF BitmapPages
<1>6. PICK q : q = P \div w
  OBVIOUS
<1>7. q \in Nat /\ P = w * q
  BY <1>2, <1>3, <1>6, Z3
<1>8. PICK t : t = q * B
  OBVIOUS
<1>9. t \in Nat
  BY <1>5, <1>7, <1>8
<1>10. P * B = w * t
  <2>1. P * B = (w * q) * B
    BY <1>7
  <2>2. (w * q) * B = w * (q * B)
    BY <1>3, <1>5, <1>7, Z3
  <2>3. QED BY <1>8, <2>1, <2>2
<1>11. PICK N : N = w * t
  OBVIOUS
<1>12. N \in Nat /\ p < 8 * N
  <2>1. N \in Nat
    BY <1>3, <1>9, <1>11
  <2>2. N >= 1 /\ e <= 4 * N + 3
    BY <1>4, <1>5, <1>10, <1>11, <2>1
  <2>3. QED BY <2>1, <2>2
<1>13. 8 * N = W * t
  BY <1>3, <1>9, <1>11, Z3
<1>14. PICK d : d = p \div W
  OBVIOUS
<1>15. d \in Nat /\ W * d <= p
  BY <1>2, <1>14, Z3
<1>16. d + 1 <= t
  <2> SUFFICES ASSUME t <= d PROVE FALSE
    BY <1>9, <1>15
  <2>1. W * t <= W * d
    BY <1>2, <1>9, <1>15, Z3
  <2>2. W * t \in Nat /\ W * d \in Nat
    BY <1>2, <1>9, <1>15
  <2>3. QED BY <1>12, <1>13, <1>15, <2>1, <2>2
<1>17. (d + 1) * w <= w * t
  BY <1>3, <1>9, <1>15, <1>16, Z3
<1>18. P * B = B * P
  BY <1>2, <1>5
<1>19. QED BY <1>1, <1>10, <1>14, <1>17, <1>18

-----------------------------------------------------------------------------
(* The address space.                                                      *)

Region == [frame : Nat, pages : Nat]

LEMMA RegionsType ==
    ASSUME LayoutTypes
    PROVE  Regions \in [1 .. 7 -> Region]
<1>1. machine.fb \in Nat
  BY MachinesAssumption DEF LayoutTypes
<1>2. /\ lay.bitmap \in Run /\ lay.kernel \in Run /\ lay.state \in Run /\ lay.stack \in Run
      /\ lay.kernelPages \in Nat /\ lay.tables \in Nat /\ lay.extent \in Nat
      /\ map.buf \in Run /\ map.descs \in Seq(Desc)
  BY DEF LayoutTypes, LayType
<1>3. /\ lay.bitmap.start \in Nat /\ lay.kernel.start \in Nat /\ lay.state.start \in Nat
      /\ lay.stack.start \in Nat /\ map.buf.start \in Nat
  BY <1>2 DEF Run
<1>4. Len(map.descs) \in Nat
  BY <1>2
<1>5. CeilDiv(Len(map.descs), DescPerPage) \in Nat /\ BitmapPages(lay.extent) \in Nat
  BY <1>2, <1>4, Constants, CeilDivIs, BitmapPagesType
<1>6. lay.kernel.start + lay.kernelPages \in Nat /\ FrameBuffer \in Nat
      /\ BootStatePages \in Nat /\ StackPages \in Nat
  BY <1>2, <1>3, Constants DEF FrameBuffer
<1>7. /\ [frame |-> lay.kernel.start, pages |-> lay.kernelPages] \in Region
      /\ [frame |-> lay.state.start, pages |-> BootStatePages] \in Region
      /\ [frame |-> lay.kernel.start + lay.kernelPages, pages |-> lay.tables] \in Region
      /\ [frame |-> map.buf.start, pages |-> CeilDiv(Len(map.descs), DescPerPage)] \in Region
      /\ [frame |-> FrameBuffer, pages |-> machine.fb] \in Region
      /\ [frame |-> lay.stack.start, pages |-> StackPages] \in Region
      /\ [frame |-> lay.bitmap.start, pages |-> BitmapPages(lay.extent)] \in Region
  BY <1>1, <1>2, <1>3, <1>5, <1>6 DEF Region
<1>8. QED BY <1>7 DEF Regions

\* The bases, one by one.
LEMMA Bases ==
    ASSUME NEW R \in [1 .. 7 -> Region]
    PROVE  /\ \A i \in 1 .. 7 : R[i].frame \in Nat /\ R[i].pages \in Nat
           /\ \A i \in 1 .. 7 : BaseOf(R)[i] \in Nat
           /\ BaseOf(R)[1] = 0
           /\ \A i \in 2 .. 7 : BaseOf(R)[i] = BaseOf(R)[i - 1] + R[i - 1].pages + 1
           /\ \A i, j \in 1 .. 7 : i < j => BaseOf(R)[i] + R[i].pages + 1 <= BaseOf(R)[j]
<1>1. \A i \in 1 .. 7 : R[i] \in Region
  OBVIOUS
<1>2. \A i \in 1 .. 7 : R[i].frame \in Nat /\ R[i].pages \in Nat
  BY <1>1 DEF Region
<1>3. PICK p : p = [i \in 1 .. 7 |-> R[i].pages]
  OBVIOUS
<1>4. PICK B : B = BaseOf(R)
  OBVIOUS
<1>5. B = << 0, p[1] + 1, p[1] + p[2] + 2, p[1] + p[2] + p[3] + 3,
           p[1] + p[2] + p[3] + p[4] + 4, p[1] + p[2] + p[3] + p[4] + p[5] + 5,
           p[1] + p[2] + p[3] + p[4] + p[5] + p[6] + 6 >>
  BY <1>3, <1>4 DEF BaseOf
<1>6. p[1] \in Nat /\ p[2] \in Nat /\ p[3] \in Nat /\ p[4] \in Nat /\ p[5] \in Nat /\ p[6] \in Nat
      /\ p[7] \in Nat
  BY <1>2, <1>3
<1>7. /\ B[1] = 0 /\ B[2] = B[1] + p[1] + 1 /\ B[3] = B[2] + p[2] + 1 /\ B[4] = B[3] + p[3] + 1
      /\ B[5] = B[4] + p[4] + 1 /\ B[6] = B[5] + p[5] + 1 /\ B[7] = B[6] + p[6] + 1
  BY <1>5, <1>6
<1>8. /\ B[1] \in Nat /\ B[2] \in Nat /\ B[3] \in Nat /\ B[4] \in Nat /\ B[5] \in Nat
      /\ B[6] \in Nat /\ B[7] \in Nat
  BY <1>6, <1>7
<1>9. \A i \in 1 .. 7 : i = 1 \/ i = 2 \/ i = 3 \/ i = 4 \/ i = 5 \/ i = 6 \/ i = 7
  OBVIOUS
<1>10. \A i \in 1 .. 7 : B[i] \in Nat /\ p[i] = R[i].pages
  BY <1>3, <1>8, <1>9
<1>11. \A i \in 2 .. 7 : i = 2 \/ i = 3 \/ i = 4 \/ i = 5 \/ i = 6 \/ i = 7
  OBVIOUS
<1>12. \A i \in 2 .. 7 : B[i] = B[i - 1] + p[i - 1] + 1
  BY <1>7, <1>11
<1>13. \A i \in 2 .. 7 : i - 1 \in 1 .. 7
  OBVIOUS
<1>14. \A i, j \in 1 .. 7 : i < j => B[i] + p[i] + 1 <= B[j]
  BY <1>6, <1>7, <1>8, <1>9
<1>15. QED BY <1>2, <1>4, <1>7, <1>10, <1>12, <1>13, <1>14

\* The virtual addresses that init() computes.
LEMMA BaseIs ==
    ASSUME LayoutTypes, NEW i \in 1 .. 7
    PROVE  Base[i] = BaseOf(Regions)[i]
<1>1. PICK R, B : R = Regions /\ B = BaseOf(Regions)
  OBVIOUS
<1>2. /\ R \in [1 .. 7 -> Region] /\ B[1] = 0
      /\ \A j \in 2 .. 7 : B[j] = B[j - 1] + R[j - 1].pages + 1
  BY <1>1, RegionsType, Bases
<1> DEFINE Rule(g) == g = [j \in 1 .. 7 |->
                            IF j = 1 THEN 0 ELSE NextMapping(g[j - 1], R[j - 1].pages)]
<1>3. Base = CHOOSE g : Rule(g)
  BY <1>1 DEF Base
<1>4. \E g : Rule(g)
  <2> DEFINE g == [j \in 1 .. 7 |-> B[j]]
  <2>1. ASSUME NEW j \in 1 .. 7
        PROVE  g[j] = IF j = 1 THEN 0 ELSE NextMapping(g[j - 1], R[j - 1].pages)
    <3>1. j = 1 \/ (j \in 2 .. 7 /\ j - 1 \in 1 .. 7)
      OBVIOUS
    <3>2. QED BY <1>2, <3>1 DEF NextMapping
  <2>2. g = [j \in 1 .. 7 |-> g[j]]
    OBVIOUS
  <2> HIDE DEF g
  <2>3. Rule(g)
    BY <2>1, <2>2
  <2>4. QED BY <2>3
<1>5. Rule(Base)
  BY <1>3, <1>4
<1>6. /\ Base[1] = 0
      /\ \A j \in 2 .. 7 : Base[j] = Base[j - 1] + R[j - 1].pages + 1
  <2>1. \A j \in 1 .. 7 : Base[j] = IF j = 1 THEN 0 ELSE NextMapping(Base[j - 1], R[j - 1].pages)
    BY <1>5
  <2>2. \A j \in 2 .. 7 : j \in 1 .. 7 /\ j # 1
    OBVIOUS
  <2>3. QED BY <2>1, <2>2 DEF NextMapping
<1> HIDE DEF Rule
<1>7. Base[1] = B[1]
  BY <1>2, <1>6
<1>8. Base[2] = B[2]
  BY <1>2, <1>6, <1>7
<1>9. Base[3] = B[3]
  BY <1>2, <1>6, <1>8
<1>10. Base[4] = B[4]
  BY <1>2, <1>6, <1>9
<1>11. Base[5] = B[5]
  BY <1>2, <1>6, <1>10
<1>12. Base[6] = B[6]
  BY <1>2, <1>6, <1>11
<1>13. Base[7] = B[7]
  BY <1>2, <1>6, <1>12
<1>14. i = 1 \/ i = 2 \/ i = 3 \/ i = 4 \/ i = 5 \/ i = 6 \/ i = 7
  OBVIOUS
<1>15. QED BY <1>1, <1>7, <1>8, <1>9, <1>10, <1>11, <1>12, <1>13, <1>14

\* No two regions share a page, nor is the page after a region in one.
LEMMA RegionsApart ==
    ASSUME NEW R \in [1 .. 7 -> Region], NEW i \in 1 .. 7, NEW j \in 1 .. 7
    PROVE  /\ \A v \in PagesOf(R, i) : v \in PagesOf(R, j) => i = j
           /\ BaseOf(R)[i] + R[i].pages \notin PagesOf(R, j)
<1>1. PICK x, y, a, b : /\ x = BaseOf(R)[i] /\ y = BaseOf(R)[j]
                        /\ a = R[i].pages /\ b = R[j].pages
  OBVIOUS
<1>2. /\ a \in Nat /\ b \in Nat /\ x \in Nat /\ y \in Nat
      /\ (i < j => x + a + 1 <= y)
      /\ (j < i => y + b + 1 <= x)
  BY <1>1, Bases
<1>3. PagesOf(R, i) = x .. x + a - 1 /\ PagesOf(R, j) = y .. y + b - 1
  BY <1>1 DEF PagesOf
<1>4. i < j \/ j < i \/ i = j
  OBVIOUS
<1>5. \A v \in PagesOf(R, i) : v \in PagesOf(R, j) => i = j
  BY <1>2, <1>3, <1>4
<1>6. x + a \notin PagesOf(R, j)
  <2>1. CASE i = j
    <3>1. a = b /\ x = y
      BY <1>1, <2>1
    <3>2. QED BY <1>2, <1>3, <3>1
  <2>2. CASE i < j
    BY <1>2, <1>3, <2>2
  <2>3. CASE j < i
    BY <1>2, <1>3, <2>3
  <2>4. QED BY <1>4, <2>1, <2>2, <2>3
<1>7. QED BY <1>1, <1>5, <1>6

\* map_address_space maps the regions.
LEMMA SpaceIs ==
    ASSUME LayoutTypes
    PROVE  IsSpace(MapAddressSpace, Regions)
<1>1. PICK R, M : R = Regions /\ M = MapAddressSpace
  OBVIOUS
<1>2. R \in [1 .. 7 -> Region]
  BY <1>1, RegionsType
<1>3. \A i \in 1 .. 7 : Base[i] = BaseOf(R)[i] /\ RegionPages(i) = PagesOf(R, i)
  BY <1>1, BaseIs DEF RegionPages, PagesOf
<1>4. UNION {RegionPages(i) : i \in 1 .. 7} = UNION {PagesOf(R, i) : i \in 1 .. 7}
  BY <1>3
<1>5. M = [v \in UNION {RegionPages(i) : i \in 1 .. 7} |->
            R[CHOOSE j \in 1 .. 7 : v \in RegionPages(j)].frame + v
            - Base[CHOOSE j \in 1 .. 7 : v \in RegionPages(j)]]
  BY <1>1 DEF MapAddressSpace
<1>6. DOMAIN M = UNION {PagesOf(R, i) : i \in 1 .. 7}
  BY <1>4, <1>5
<1>7. ASSUME NEW i \in 1 .. 7, NEW v \in PagesOf(R, i)
      PROVE  M[v] = R[i].frame + v - BaseOf(R)[i]
  <2>1. PICK c : c = CHOOSE j \in 1 .. 7 : v \in RegionPages(j)
    OBVIOUS
  <2>2. v \in RegionPages(i)
    BY <1>3
  <2>3. c \in 1 .. 7 /\ v \in RegionPages(c)
    BY <2>1, <2>2
  <2>4. v \in PagesOf(R, c)
    BY <1>3, <2>3
  <2>5. c = i
    BY <1>2, <2>3, <2>4, RegionsApart
  <2>6. v \in UNION {RegionPages(k) : k \in 1 .. 7}
    BY <2>2
  <2>7. M[v] = R[c].frame + v - Base[c]
    BY <1>5, <2>1, <2>6
  <2>8. QED BY <1>3, <2>5, <2>7
<1>8. IsSpace(M, R)
  BY <1>6, <1>7 DEF IsSpace
<1>9. QED BY <1>1, <1>8

-----------------------------------------------------------------------------
(* The invariant is inductive.                                             *)

USE DEF OnPaging, AfterLoad, AfterStack, AfterState, AfterKernel, AfterBitmap, Steps

LEMMA MachineIs ==
    ASSUME LayoutTypes
    PROVE  /\ machine.sorted \in BOOLEAN /\ machine.fb \in Nat
           /\ Linked(machine.segments) /\ machine.segments \in Seq(Segment)
           /\ KernelPages(machine.segments) \in Nat
           /\ IsMemory(machine.mem)
           /\ \E f \in DOMAIN machine.mem : f >= LowPages /\ machine.mem[f] # "hole"
<1>1. machine \in Machines
  BY DEF LayoutTypes
<1>2. /\ machine.sorted \in BOOLEAN /\ machine.fb \in Nat /\ Linked(machine.segments)
      /\ IsMemory(machine.mem)
      /\ \E f \in DOMAIN machine.mem : f >= LowPages /\ machine.mem[f] # "hole"
  BY <1>1, MachinesAssumption DEF IsMemory
<1>3. machine.segments \in Seq(Segment)
  BY <1>2 DEF Linked
<1>4. QED BY <1>2, <1>3, SegmentPagesAre

LEMMA NoRunIs ==
    /\ NoRun \in Run /\ RunOf(NoRun) = {} /\ NoRun.pages = 0
    /\ \A m : Owned(m, NoRun)
<1>1. NoRun \in Run /\ RunOf(NoRun) = {} /\ NoRun.pages = 0
  BY DEF NoRun, Run, RunOf
<1>2. QED BY <1>1 DEF Owned

LEMMA NoPages == CeilDiv(0, DescPerPage) = 0
<1>1. PICK c, d : c = CeilDiv(0, DescPerPage) /\ d = DescPerPage
  OBVIOUS
<1>2. d \in Nat \ {0} /\ c \in Nat /\ d * c < 0 + d
  BY <1>1, Constants, CeilDivIs
<1>3. c = 0
  <2> SUFFICES ASSUME c >= 1 PROVE FALSE
    BY <1>2
  <2>1. d * c >= d
    BY <1>2, Z3
  <2>2. d * c \in Nat
    BY <1>2
  <2>3. QED BY <1>2, <2>1, <2>2
<1>4. QED BY <1>1, <1>3

\* Where init() starts.
LEMMA LayoutInitially == Init => LayoutInv
<1> SUFFICES ASSUME Init PROVE LayoutInv
  OBVIOUS
<1>1. /\ machine \in Machines /\ mem = machine.mem /\ pc = "map1"
      /\ map = [descs |-> <<>>, buf |-> NoRun] /\ request = [size |-> 0, buf |-> NoRun]
      /\ lay = [extent |-> 0, bitmap |-> NoRun, kernelPages |-> 0, tables |-> 0,
                kernel |-> NoRun, state |-> NoRun, stack |-> NoRun, firstMap |-> 0,
                preserved |-> 0]
      /\ marked = {}
  BY DEF Init
<1>2. NoRun \in Run /\ RunOf(NoRun) = {} /\ NoRun.pages = 0 /\ \A m : Owned(m, NoRun)
  BY NoRunIs
<1>3. IsMemory(mem)
  BY <1>1, MachinesAssumption DEF IsMemory
<1>4. LayoutTypes
  BY <1>1, <1>2, <1>3 DEF LayoutTypes, LayType
<1>5. SameGround
  BY <1>1 DEF SameGround, Ground
<1>6. Ownership
  BY <1>1, <1>2 DEF Ownership, Kept
<1>7. BuffersFit
  BY <1>1, <1>2, NoPages DEF BuffersFit
<1>8. Sizes /\ ExtentRight /\ Results
  BY <1>1 DEF Sizes, ExtentRight, Results
<1>9. QED BY <1>4, <1>5, <1>6, <1>7, <1>8 DEF LayoutInv

\* Giving up leaves everything as it is.
LEMMA GivesUp ==
    ASSUME LayoutInv, pc' = "failed", pc # "running",
           UNCHANGED <<machine, mem, map, request, lay, image, ptes, marked>>
    PROVE  LayoutInv'
<1>1. LayoutTypes' /\ SameGround' /\ BuffersFit'
  BY DEF LayoutInv, LayoutTypes, SameGround, BuffersFit
<1>2. Ownership'
  BY DEF LayoutInv, Ownership, Kept
<1>3. Sizes' /\ ExtentRight' /\ Results'
  BY DEF LayoutInv, Sizes, ExtentRight, Results
<1>4. QED BY <1>1, <1>2, <1>3 DEF LayoutInv

LEMMA GrowMapBufferKeeps ==
    ASSUME LayoutInv, GrowMapBuffer
    PROVE  LayoutInv'
<1>1. /\ pc \in {"map1", "map2"}
      /\ machine' = machine /\ map' = map /\ lay' = lay /\ image' = image /\ ptes' = ptes
      /\ marked' = marked
  BY DEF GrowMapBuffer
<1>2. PICK size, m :
        /\ size = Required /\ m = SetType(mem, request.buf, "conventional")
        /\ \/ \E r \in Fits(m, CeilDiv(size, DescPerPage)) :
                mem' = SetType(m, r, "loader") /\ request' = Reply(size, r) /\ pc' = pc
           \/ mem' = m /\ pc' = "failed" /\ request' = request
  BY DEF GrowMapBuffer
<1>3. /\ LayoutTypes /\ SameGround /\ Ownership /\ BuffersFit /\ Sizes /\ ExtentRight /\ Results
      /\ IsMemory(mem) /\ DOMAIN mem = DOMAIN machine.mem
  BY DEF LayoutInv, LayoutTypes
<1>4. Owned(mem, request.buf) /\ \A x \in Kept : Owned(mem, x) /\ RunOf(x) \cap RunOf(request.buf) = {}
  BY <1>1, <1>3 DEF Ownership
<1>5. /\ IsMemory(m) /\ DOMAIN m = DOMAIN mem /\ (\A x \in Kept : Owned(m, x))
      /\ Ground(machine.mem, m)
  BY <1>2, <1>3, <1>4, Releases DEF SameGround
<1>6. Kept' = Kept
  BY <1>1 DEF Kept
<1>7. size \in Nat
  <2>1. machine.sorted \in BOOLEAN
    BY <1>3, MachineIs
  <2>2. /\ Descriptors(mem, machine.sorted) \in Seq(Desc)
        /\ Len(Descriptors(mem, machine.sorted)) = Required
    BY <1>3, <2>1, DescriptorsAre DEF Required
  <2>3. QED BY <1>2, <2>2
<1>8. CASE mem' = m /\ pc' = "failed" /\ request' = request
  <2>1. LayoutTypes' /\ SameGround' /\ BuffersFit'
    BY <1>1, <1>3, <1>5, <1>8 DEF LayoutTypes, SameGround, BuffersFit
  <2>2. Ownership'
    BY <1>3, <1>4, <1>5, <1>6, <1>8 DEF Ownership
  <2>3. Sizes' /\ ExtentRight' /\ Results'
    BY <1>1, <1>3, <1>8 DEF Sizes, ExtentRight, Results
  <2>4. QED BY <2>1, <2>2, <2>3 DEF LayoutInv
<1>9. ASSUME NEW r \in Fits(m, CeilDiv(size, DescPerPage)),
             mem' = SetType(m, r, "loader"), request' = Reply(size, r), pc' = pc
      PROVE  LayoutInv'
  <2>1. CeilDiv(size, DescPerPage) \in Nat
    BY <1>7, Constants, CeilDivIs
  <2>2. /\ IsMemory(mem') /\ DOMAIN mem' = DOMAIN m /\ r \in Run
        /\ r.pages = CeilDiv(size, DescPerPage) /\ Owned(mem', r)
        /\ (\A x \in Kept : Owned(mem', x) /\ RunOf(x) \cap RunOf(r) = {})
        /\ Ground(machine.mem, mem') /\ RunOf(r) \subseteq DOMAIN m
    BY <1>3, <1>5, <1>9, <2>1, Takes
  <2>3. request'.size = size /\ request'.buf = r /\ request' \in [size : Nat, buf : Run]
    BY <1>7, <1>9, <2>2 DEF Reply
  <2>4. LayoutTypes' /\ SameGround' /\ BuffersFit'
    BY <1>1, <1>3, <1>5, <1>9, <2>2, <2>3 DEF LayoutTypes, SameGround, BuffersFit
  <2>5. Ownership'
    BY <1>5, <1>6, <2>2, <2>3 DEF Ownership
  <2>6. Sizes' /\ ExtentRight' /\ Results'
    BY <1>1, <1>3, <1>9 DEF Sizes, CountedPages, ExtentRight, Plain, Results
  <2>7. QED BY <2>4, <2>5, <2>6 DEF LayoutInv
<1>10. QED BY <1>2, <1>8, <1>9

LEMMA TakeMapKeeps ==
    ASSUME LayoutInv, TakeMap
    PROVE  LayoutInv'
<1>1. /\ pc \in {"map1", "map2"} /\ Required <= request.size
      /\ map' = [descs |-> Descriptors(mem, machine.sorted), buf |-> request.buf]
      /\ request' = [size |-> 0, buf |-> NoRun]
      /\ pc' = IF pc = "map1" THEN "bitmap" ELSE "exit"
      /\ machine' = machine /\ mem' = mem /\ lay' = lay /\ image' = image /\ ptes' = ptes
      /\ marked' = marked
  BY DEF TakeMap
<1>2. /\ LayoutTypes /\ SameGround /\ Ownership /\ BuffersFit /\ Sizes /\ ExtentRight /\ Results
      /\ IsMemory(mem) /\ DOMAIN mem = DOMAIN machine.mem /\ machine.sorted \in BOOLEAN
  BY MachineIs DEF LayoutInv, LayoutTypes
<1>3. PICK D : D = Descriptors(mem, machine.sorted)
  OBVIOUS
<1>4. D \in Seq(Desc) /\ Len(D) \in Nat /\ Len(D) <= request.size /\ request.size \in Nat
      /\ request.buf \in Run
  <2>1. D \in Seq(Desc) /\ Len(D) = Required
    BY <1>2, <1>3, DescriptorsAre DEF Required
  <2>2. request.size \in Nat /\ request.buf \in Run
    BY <1>2 DEF LayoutTypes
  <2>3. QED BY <1>1, <2>1, <2>2
<1>5. /\ map'.descs = D /\ map'.buf = request.buf /\ map' \in [descs : Seq(Desc), buf : Run]
      /\ request'.size = 0 /\ request'.buf = NoRun /\ request' \in [size : Nat, buf : Run]
  BY <1>1, <1>3, <1>4, NoRunIs
<1>6. LayoutTypes' /\ SameGround'
  BY <1>1, <1>2, <1>5 DEF LayoutTypes, SameGround
<1>7. BuffersFit'
  <2>1. CeilDiv(Len(D), DescPerPage) <= CeilDiv(request.size, DescPerPage)
    BY <1>4, Constants, CeilDivMonotone
  <2>2. request.buf.pages = CeilDiv(request.size, DescPerPage)
    BY <1>2 DEF BuffersFit
  <2>3. QED BY <1>5, <2>1, <2>2, NoPages, NoRunIs DEF BuffersFit
<1>8. Ownership'
  <2>1. \A x \in Kept' : x \in Kept \/ x = request.buf
    BY <1>1, <1>5 DEF Kept
  <2>2. \A x \in Kept' : Owned(mem, x)
    BY <1>1, <1>2, <2>1 DEF Ownership
  <2>3. QED BY <1>1, <1>5, <2>2, NoRunIs DEF Ownership
<1>9. Sizes'
  BY <1>1, <1>2 DEF Sizes, CountedPages
<1>10. ExtentRight'
  <2>1. CASE pc = "map1"
    <3> SUFFICES ASSUME machine.sorted, \A f \in DOMAIN machine.mem : machine.mem[f] # "unusable",
                        NEW f \in DOMAIN machine.mem, machine.mem[f] # "hole"
                 PROVE  f < Extent(D)
      BY <1>1, <1>5, <2>1 DEF ExtentRight, Plain, BelowExtent
    <3>1. /\ \A g \in DOMAIN mem : mem[g] # "unusable"
          /\ mem[f] # "hole" /\ f \in DOMAIN mem
      BY <1>2 DEF SameGround, Ground
    <3>2. D = Descriptors(mem, TRUE)
      <4>1. machine.sorted = TRUE
        BY <1>2
      <4>2. QED BY <1>3, <4>1
    <3>3. QED BY <1>2, <3>1, <3>2, ExtentIs
  <2>2. CASE pc = "map2"
    BY <1>1, <1>2, <2>2 DEF ExtentRight, Plain
  <2>3. QED BY <1>1, <2>1, <2>2
<1>11. Results'
  BY <1>1, <1>2 DEF Results
<1>12. QED BY <1>6, <1>7, <1>8, <1>9, <1>10, <1>11 DEF LayoutInv

\* What an allocation of init()'s leaves true, whatever it is for.
LEMMA Allocates ==
    ASSUME LayoutInv, NEW n \in Nat, NEW r \in Fits(mem, n), pc # "failed", pc' \in Steps,
           mem' = SetType(mem, r, "loader"), lay' \in LayType,
           lay'.bitmap \in {lay.bitmap, r}, lay'.kernel \in {lay.kernel, r},
           lay'.state \in {lay.state, r}, lay'.stack \in {lay.stack, r},
           UNCHANGED <<machine, map, request>>
    PROVE  LayoutTypes' /\ SameGround' /\ Ownership' /\ BuffersFit'
<1>1. /\ LayoutTypes /\ SameGround /\ Ownership /\ BuffersFit
      /\ IsMemory(mem) /\ DOMAIN mem = DOMAIN machine.mem
  BY DEF LayoutInv, LayoutTypes
<1>2. /\ IsMemory(mem') /\ DOMAIN mem' = DOMAIN mem /\ Owned(mem', r)
      /\ (\A x : Owned(mem, x) => Owned(mem', x) /\ RunOf(x) \cap RunOf(r) = {})
      /\ Ground(machine.mem, mem')
  BY <1>1, Takes DEF SameGround
<1>3. LayoutTypes' /\ SameGround' /\ BuffersFit'
  BY <1>1, <1>2 DEF LayoutTypes, SameGround, BuffersFit
<1>4. \A x \in Kept' : x \in Kept \/ x = r
  BY DEF Kept
<1>5. Owned(mem, request.buf) /\ \A x \in Kept : Owned(mem, x) /\ RunOf(x) \cap RunOf(request.buf) = {}
  BY <1>1 DEF Ownership
<1>6. \A x \in Kept' : Owned(mem', x) /\ RunOf(x) \cap RunOf(request.buf) = {}
  BY <1>2, <1>4, <1>5
<1>7. Owned(mem', request.buf) /\ RunOf(request.buf) \subseteq DOMAIN mem'
  BY <1>2, <1>5 DEF Owned
<1>8. Ownership'
  BY <1>6, <1>7 DEF Ownership
<1>9. QED BY <1>3, <1>8

LEMMA AllocateBitmapKeeps ==
    ASSUME LayoutInv, AllocateBitmap
    PROVE  LayoutInv'
<1>1. PICK e : e = Extent(map.descs)
  OBVIOUS
<1>2. /\ pc = "bitmap" /\ machine' = machine /\ map' = map /\ request' = request
      /\ image' = image /\ ptes' = ptes /\ marked' = marked
      /\ \/ \E r \in Fits(mem, BitmapPages(e)) :
                /\ mem' = SetType(mem, r, "loader") /\ pc' = "kernel"
                /\ lay' = [lay EXCEPT !.extent = e, !.bitmap = r]
         \/ pc' = "failed" /\ mem' = mem /\ lay' = lay
  BY <1>1 DEF AllocateBitmap, AllocateRun
<1>3. /\ LayoutTypes /\ ExtentRight /\ Results /\ IsMemory(mem) /\ lay \in LayType
      /\ map.descs \in Seq(Desc)
  BY DEF LayoutInv, LayoutTypes
<1>4. e \in Nat /\ BitmapPages(e) \in Nat
  BY <1>1, <1>3, ExtentType, BitmapPagesType
<1>5. CASE pc' = "failed" /\ mem' = mem /\ lay' = lay
  BY <1>2, <1>5, GivesUp
<1>6. ASSUME NEW r \in Fits(mem, BitmapPages(e)), mem' = SetType(mem, r, "loader"), pc' = "kernel",
             lay' = [lay EXCEPT !.extent = e, !.bitmap = r]
      PROVE  LayoutInv'
  <2>1. r \in Run /\ r.pages = BitmapPages(e)
    BY <1>3, <1>4, FitsAre
  <2>2. /\ lay' \in LayType /\ lay'.extent = e /\ lay'.bitmap = r /\ lay'.kernel = lay.kernel
        /\ lay'.state = lay.state /\ lay'.stack = lay.stack
    BY <1>3, <1>4, <1>6, <2>1 DEF LayType
  <2>3. LayoutTypes' /\ SameGround' /\ Ownership' /\ BuffersFit'
    <3>1. pc # "failed" /\ pc' \in Steps
      BY <1>2, <1>6
    <3>2. QED BY <1>2, <1>4, <1>6, <2>2, <3>1, Allocates
  <2>4. Sizes' /\ Results'
    BY <1>2, <1>3, <1>6, <2>1, <2>2 DEF Sizes, Results
  <2>5. ExtentRight'
    BY <1>1, <1>2, <1>3, <1>6, <2>2 DEF ExtentRight, Plain
  <2>6. QED BY <2>3, <2>4, <2>5 DEF LayoutInv
<1>7. QED BY <1>2, <1>5, <1>6

LEMMA AllocateKernelKeeps ==
    ASSUME LayoutInv, AllocateKernel
    PROVE  LayoutInv'
<1>1. PICK k, d, p : /\ k = KernelPages(machine.segments) /\ d = Len(map.descs)
                     /\ p = PreservedPages(map.descs)
  OBVIOUS
<1>2. /\ pc = "kernel" /\ machine' = machine /\ map' = map /\ request' = request
      /\ image' = image /\ ptes' = ptes /\ marked' = marked
      /\ \/ \E r \in Fits(mem, Pages) :
                /\ mem' = SetType(mem, r, "loader") /\ pc' = "state"
                /\ lay' = [lay EXCEPT !.kernel = r, !.kernelPages = k,
                                      !.tables = PageTableSize(MappedPages),
                                      !.firstMap = d, !.preserved = p]
         \/ pc' = "failed" /\ mem' = mem /\ lay' = lay
  BY <1>1 DEF AllocateKernel, AllocateRun
<1>3. /\ LayoutTypes /\ ExtentRight /\ Results /\ Sizes /\ IsMemory(mem) /\ lay \in LayType
      /\ map.descs \in Seq(Desc)
  BY DEF LayoutInv, LayoutTypes
<1>4. PICK c, M, b, T, f : /\ c = CeilDiv(d, DescPerPage) /\ M = MappedPages
                           /\ b = BitmapPages(lay.extent) /\ T = PageTableSize(M)
                           /\ f = machine.fb
  OBVIOUS
<1>5. k \in Nat /\ d \in Nat /\ p \in Nat /\ f \in Nat
  BY <1>1, <1>3, <1>4, MachineIs, PreservedPagesType
<1>6. c \in Nat /\ b \in Nat
  <2>1. lay.extent \in Nat
    BY <1>3 DEF LayType
  <2>2. QED BY <1>4, <1>5, <2>1, Constants, CeilDivIs, BitmapPagesType
<1>7. M = k + c + f + p + 4 /\ M \in Nat
  <2>1. M = k + 1 + c + 1 + f + 1 + p + 1
    BY <1>1, <1>4 DEF MappedPages, Guard
  <2>2. QED BY <1>5, <1>6, <2>1
<1>8. T \in Nat
  BY <1>4, <1>7, PageTableSizeIs
<1>9. Pages = M + T + b + 2 /\ Pages \in Nat
  BY <1>4, <1>6, <1>7, <1>8 DEF Pages, Guard
<1>10. CASE pc' = "failed" /\ mem' = mem /\ lay' = lay
  BY <1>2, <1>10, GivesUp
<1>11. ASSUME NEW r \in Fits(mem, Pages), mem' = SetType(mem, r, "loader"), pc' = "state",
              lay' = [lay EXCEPT !.kernel = r, !.kernelPages = k, !.tables = T,
                                 !.firstMap = d, !.preserved = p]
       PROVE  LayoutInv'
  <2>1. r \in Run /\ r.pages = Pages
    BY <1>3, <1>9, FitsAre
  <2>2. /\ lay' \in LayType /\ lay'.extent = lay.extent /\ lay'.bitmap = lay.bitmap
        /\ lay'.kernel = r /\ lay'.state = lay.state /\ lay'.stack = lay.stack
        /\ lay'.kernelPages = k /\ lay'.tables = T /\ lay'.firstMap = d /\ lay'.preserved = p
    BY <1>3, <1>5, <1>8, <1>11, <2>1 DEF LayType
  <2>3. LayoutTypes' /\ SameGround' /\ Ownership' /\ BuffersFit'
    <3>1. pc # "failed" /\ pc' \in Steps
      BY <1>2, <1>11
    <3>2. QED BY <1>2, <1>9, <1>11, <2>2, <3>1, Allocates
  <2>4. CountedPages' = M
    BY <1>2, <1>4, <1>5, <1>6, <1>7, <2>2 DEF CountedPages
  <2>5. Sizes'
    <3>1. lay'.bitmap.pages = BitmapPages(lay'.extent)
      BY <1>2, <1>3, <2>2 DEF Sizes
    <3>2. lay'.kernelPages = KernelPages(machine'.segments)
      BY <1>1, <1>2, <2>2
    <3>3. lay'.tables = PageTableSize(CountedPages')
      BY <1>4, <2>2, <2>4
    <3>4. lay'.kernel.pages = CountedPages' + lay'.tables + BitmapPages(lay'.extent) + 2
      BY <1>4, <1>9, <2>1, <2>2, <2>4
    <3>5. QED BY <1>11, <3>1, <3>2, <3>3, <3>4 DEF Sizes
  <2>6. Results'
    BY <1>2, <1>3, <1>11 DEF Results
  <2>7. ExtentRight'
    BY <1>2, <1>3, <1>11, <2>2 DEF ExtentRight, Plain
  <2>8. QED BY <2>3, <2>5, <2>6, <2>7 DEF LayoutInv
<1>12. QED BY <1>2, <1>4, <1>10, <1>11

LEMMA AllocateBootStateKeeps ==
    ASSUME LayoutInv, AllocateBootState
    PROVE  LayoutInv'
<1>1. /\ pc = "state" /\ machine' = machine /\ map' = map /\ request' = request
      /\ image' = image /\ ptes' = ptes /\ marked' = marked
      /\ \/ \E r \in Fits(mem, BootStatePages) :
                /\ mem' = SetType(mem, r, "loader") /\ pc' = "stack"
                /\ lay' = [lay EXCEPT !.state = r]
         \/ pc' = "failed" /\ mem' = mem /\ lay' = lay
  BY DEF AllocateBootState, AllocateRun
<1>2. LayoutTypes /\ ExtentRight /\ Results /\ Sizes /\ IsMemory(mem) /\ lay \in LayType
  BY DEF LayoutInv, LayoutTypes
<1>3. CASE pc' = "failed" /\ mem' = mem /\ lay' = lay
  BY <1>1, <1>3, GivesUp
<1>4. ASSUME NEW r \in Fits(mem, BootStatePages), mem' = SetType(mem, r, "loader"), pc' = "stack",
             lay' = [lay EXCEPT !.state = r]
      PROVE  LayoutInv'
  <2>0. BootStatePages \in Nat
    BY Constants
  <2>1. r \in Run /\ r.pages = BootStatePages
    BY <1>2, <2>0, FitsAre
  <2>2. /\ lay' \in LayType /\ lay'.extent = lay.extent /\ lay'.bitmap = lay.bitmap
        /\ lay'.kernel = lay.kernel /\ lay'.state = r /\ lay'.stack = lay.stack
        /\ lay'.kernelPages = lay.kernelPages /\ lay'.tables = lay.tables
        /\ lay'.firstMap = lay.firstMap /\ lay'.preserved = lay.preserved
    BY <1>2, <1>4, <2>1 DEF LayType
  <2>3. LayoutTypes' /\ SameGround' /\ Ownership' /\ BuffersFit'
    <3>1. pc # "failed" /\ pc' \in Steps
      BY <1>1, <1>4
    <3>2. QED BY <1>1, <1>4, <2>0, <2>2, <3>1, Allocates
  <2>4. Sizes'
    BY <1>1, <1>2, <1>4, <2>1, <2>2 DEF Sizes, CountedPages
  <2>5. ExtentRight' /\ Results'
    BY <1>1, <1>2, <1>4, <2>2 DEF ExtentRight, Plain, Results
  <2>6. QED BY <2>3, <2>4, <2>5 DEF LayoutInv
<1>5. QED BY <1>1, <1>3, <1>4

LEMMA AllocateStackKeeps ==
    ASSUME LayoutInv, AllocateStack
    PROVE  LayoutInv'
<1>1. /\ pc = "stack" /\ machine' = machine /\ map' = map /\ request' = request
      /\ image' = image /\ ptes' = ptes /\ marked' = marked
      /\ \/ \E r \in Fits(mem, StackPages) :
                /\ mem' = SetType(mem, r, "loader") /\ pc' = "load"
                /\ lay' = [lay EXCEPT !.stack = r]
         \/ pc' = "failed" /\ mem' = mem /\ lay' = lay
  BY DEF AllocateStack, AllocateRun
<1>2. LayoutTypes /\ ExtentRight /\ Results /\ Sizes /\ IsMemory(mem) /\ lay \in LayType
  BY DEF LayoutInv, LayoutTypes
<1>3. CASE pc' = "failed" /\ mem' = mem /\ lay' = lay
  BY <1>1, <1>3, GivesUp
<1>4. ASSUME NEW r \in Fits(mem, StackPages), mem' = SetType(mem, r, "loader"), pc' = "load",
             lay' = [lay EXCEPT !.stack = r]
      PROVE  LayoutInv'
  <2>0. StackPages \in Nat
    BY Constants
  <2>1. r \in Run /\ r.pages = StackPages
    BY <1>2, <2>0, FitsAre
  <2>2. /\ lay' \in LayType /\ lay'.extent = lay.extent /\ lay'.bitmap = lay.bitmap
        /\ lay'.kernel = lay.kernel /\ lay'.state = lay.state /\ lay'.stack = r
        /\ lay'.kernelPages = lay.kernelPages /\ lay'.tables = lay.tables
        /\ lay'.firstMap = lay.firstMap /\ lay'.preserved = lay.preserved
    BY <1>2, <1>4, <2>1 DEF LayType
  <2>3. LayoutTypes' /\ SameGround' /\ Ownership' /\ BuffersFit'
    <3>1. pc # "failed" /\ pc' \in Steps
      BY <1>1, <1>4
    <3>2. QED BY <1>1, <1>4, <2>0, <2>2, <3>1, Allocates
  <2>4. Sizes'
    BY <1>1, <1>2, <1>4, <2>1, <2>2 DEF Sizes, CountedPages
  <2>5. ExtentRight' /\ Results'
    BY <1>1, <1>2, <1>4, <2>2 DEF ExtentRight, Plain, Results
  <2>6. QED BY <2>3, <2>4, <2>5 DEF LayoutInv
<1>5. QED BY <1>1, <1>3, <1>4

\* A step that allocates nothing.
LEMMA NothingAllocated ==
    ASSUME LayoutInv, pc # "failed", pc' \in Steps,
           UNCHANGED <<machine, mem, map, request, lay>>
    PROVE  LayoutTypes' /\ SameGround' /\ Ownership' /\ BuffersFit'
<1>1. LayoutTypes' /\ SameGround' /\ BuffersFit'
  BY DEF LayoutInv, LayoutTypes, SameGround, BuffersFit
<1>2. Ownership'
  BY DEF LayoutInv, Ownership, Kept
<1>3. QED BY <1>1, <1>2

LEMMA LoadSegmentsKeeps ==
    ASSUME LayoutInv, LoadSegments
    PROVE  LayoutInv'
<1>1. /\ pc = "load" /\ pc' = "map2" /\ image' = ImageOf(machine.segments, lay.kernel.pages)
      /\ UNCHANGED <<machine, mem, map, request, lay, ptes, marked>>
  BY DEF LoadSegments, ImageOf
<1>2. LayoutTypes' /\ SameGround' /\ Ownership' /\ BuffersFit'
  BY <1>1, NothingAllocated
<1>3. Sizes' /\ ExtentRight'
  BY <1>1 DEF LayoutInv, Sizes, CountedPages, ExtentRight, Plain
<1>4. Results'
  BY <1>1 DEF LayoutInv, Results
<1>5. QED BY <1>2, <1>3, <1>4 DEF LayoutInv

LEMMA FirmwareAllocatesKeeps ==
    ASSUME LayoutInv, FirmwareAllocates
    PROVE  LayoutInv'
<1>1. /\ pc \in {"map1", "bitmap", "kernel", "state", "stack", "load", "map2", "exit"}
      /\ UNCHANGED <<machine, pc, map, request, lay, image, ptes, marked>>
  BY DEF FirmwareAllocates
<1>2. PICK r \in Fits(mem, 1) : mem' = SetType(mem, r, "boot")
  BY DEF FirmwareAllocates
<1>3. /\ LayoutTypes /\ SameGround /\ Ownership /\ BuffersFit
      /\ IsMemory(mem) /\ DOMAIN mem = DOMAIN machine.mem
  BY DEF LayoutInv, LayoutTypes
<1>4. /\ IsMemory(mem') /\ DOMAIN mem' = DOMAIN mem
      /\ (\A x : Owned(mem, x) => Owned(mem', x))
      /\ Ground(machine.mem, mem')
  BY <1>2, <1>3, Takes DEF SameGround
<1>5. LayoutTypes' /\ SameGround' /\ BuffersFit'
  BY <1>1, <1>3, <1>4 DEF LayoutTypes, SameGround, BuffersFit
<1>6. Ownership'
  <2>1. Kept' = Kept
    BY <1>1 DEF Kept
  <2>2. QED BY <1>1, <1>3, <1>4, <2>1 DEF Ownership
<1>7. Sizes' /\ ExtentRight'
  BY <1>1 DEF LayoutInv, Sizes, CountedPages, ExtentRight, Plain
<1>8. Results'
  BY <1>1 DEF LayoutInv, Results
<1>9. QED BY <1>5, <1>6, <1>7, <1>8 DEF LayoutInv

LEMMA ExitBootServicesKeeps ==
    ASSUME LayoutInv, ExitBootServices
    PROVE  LayoutInv'
<1>1. /\ pc = "exit" /\ UNCHANGED <<machine, mem, map, request, lay, image, ptes, marked>>
      /\ \/ pc' = "failed"
         \/ pc' = "paging" /\ map.descs = Descriptors(mem, machine.sorted)
  BY DEF ExitBootServices
<1>2. CASE pc' = "failed"
  BY <1>1, <1>2, GivesUp
<1>3. CASE pc' = "paging" /\ map.descs = Descriptors(mem, machine.sorted)
  <2>1. LayoutTypes' /\ SameGround' /\ Ownership' /\ BuffersFit'
    BY <1>1, <1>3, NothingAllocated
  <2>2. Sizes' /\ ExtentRight'
    BY <1>1, <1>3 DEF LayoutInv, Sizes, CountedPages, ExtentRight, Plain
  <2>3. Results'
    BY <1>1, <1>3 DEF LayoutInv, Results
  <2>4. QED BY <2>1, <2>2, <2>3 DEF LayoutInv
<1>4. QED BY <1>1, <1>2, <1>3

LEMMA BuildAddressSpaceKeeps ==
    ASSUME LayoutInv, BuildAddressSpace
    PROVE  LayoutInv'
<1>1. /\ pc = "paging" /\ UNCHANGED <<machine, mem, map, request, lay, image, marked>>
      /\ \/ pc' = "failed" /\ ptes' = ptes
         \/ pc' = "kernel_main" /\ ptes' = MapAddressSpace
  BY DEF BuildAddressSpace
<1>2. CASE pc' = "failed" /\ ptes' = ptes
  BY <1>1, <1>2, GivesUp
<1>3. CASE pc' = "kernel_main" /\ ptes' = MapAddressSpace
  <2>1. LayoutTypes' /\ SameGround' /\ Ownership' /\ BuffersFit'
    BY <1>1, <1>3, NothingAllocated
  <2>2. Sizes' /\ ExtentRight'
    BY <1>1, <1>3 DEF LayoutInv, Sizes, CountedPages, ExtentRight, Plain
  <2>3. IsSpace(ptes', Regions)
    BY <1>3, SpaceIs DEF LayoutInv
  <2>4. Regions' = Regions
    BY <1>1 DEF Regions
  <2>5. Results'
    BY <1>1, <1>3, <2>3, <2>4 DEF LayoutInv, Results
  <2>6. QED BY <2>1, <2>2, <2>5 DEF LayoutInv
<1>4. QED BY <1>1, <1>2, <1>3

LEMMA ReadMemoryMapKeeps ==
    ASSUME LayoutInv, ReadMemoryMap
    PROVE  LayoutInv'
<1>1. /\ pc = "kernel_main" /\ pc' = "running" /\ marked' = MarkedBy(map.descs)
      /\ UNCHANGED <<machine, mem, map, request, lay, image, ptes>>
  BY DEF ReadMemoryMap, MarkedBy
<1>2. LayoutTypes' /\ SameGround' /\ Ownership' /\ BuffersFit'
  BY <1>1, NothingAllocated
<1>3. Sizes' /\ ExtentRight'
  BY <1>1 DEF LayoutInv, Sizes, CountedPages, ExtentRight, Plain
<1>4. Regions' = Regions
  BY <1>1 DEF Regions
<1>5. Results'
  BY <1>1, <1>4 DEF LayoutInv, Results
<1>6. QED BY <1>2, <1>3, <1>5 DEF LayoutInv

LEMMA StandsStill ==
    ASSUME LayoutInv, UNCHANGED vars
    PROVE  LayoutInv'
<1>1. UNCHANGED <<machine, mem, pc, map, request, lay, image, ptes, marked>>
  BY DEF vars
<1>2. LayoutTypes' /\ SameGround' /\ BuffersFit'
  BY <1>1 DEF LayoutInv, LayoutTypes, SameGround, BuffersFit
<1>3. Ownership'
  BY <1>1 DEF LayoutInv, Ownership, Kept
<1>4. Sizes' /\ ExtentRight'
  BY <1>1 DEF LayoutInv, Sizes, CountedPages, ExtentRight, Plain
<1>5. Regions' = Regions
  BY <1>1 DEF Regions
<1>6. Results'
  BY <1>1, <1>5 DEF LayoutInv, Results
<1>7. QED BY <1>2, <1>3, <1>4, <1>6 DEF LayoutInv

LEMMA LayoutInductive == LayoutInv /\ [Next]_vars => LayoutInv'
<1> SUFFICES ASSUME LayoutInv, [Next]_vars PROVE LayoutInv'
  OBVIOUS
<1>1. CASE GrowMapBuffer
  BY <1>1, GrowMapBufferKeeps
<1>2. CASE TakeMap
  BY <1>2, TakeMapKeeps
<1>3. CASE AllocateBitmap
  BY <1>3, AllocateBitmapKeeps
<1>4. CASE AllocateKernel
  BY <1>4, AllocateKernelKeeps
<1>5. CASE AllocateBootState
  BY <1>5, AllocateBootStateKeeps
<1>6. CASE AllocateStack
  BY <1>6, AllocateStackKeeps
<1>7. CASE LoadSegments
  BY <1>7, LoadSegmentsKeeps
<1>8. CASE FirmwareAllocates
  BY <1>8, FirmwareAllocatesKeeps
<1>9. CASE ExitBootServices
  BY <1>9, ExitBootServicesKeeps
<1>10. CASE BuildAddressSpace
  BY <1>10, BuildAddressSpaceKeeps
<1>11. CASE ReadMemoryMap
  BY <1>11, ReadMemoryMapKeeps
<1>12. CASE UNCHANGED vars
  BY <1>12, StandsStill
<1>13. CASE Finished
  BY <1>13, StandsStill DEF Finished
<1>14. QED
  BY <1>1, <1>2, <1>3, <1>4, <1>5, <1>6, <1>7, <1>8, <1>9, <1>10, <1>11, <1>12, <1>13 DEF Next

\* What the loader's runs and sizes are at every moment of init().
THEOREM LayoutHolds == Spec => []LayoutInv
<1>1. QED BY LayoutInitially, LayoutInductive, PTL DEF Spec

-----------------------------------------------------------------------------
(* What the invariant says of the address space.                           *)

\* A frame that belongs to the loader when the kernel reads the map is marked.
LEMMA OwnedMarked ==
    ASSUME LayoutInv, pc = "running", NEW r \in Kept
    PROVE  RunOf(r) \subseteq marked
<1>1. /\ IsMemory(mem) /\ machine.sorted \in BOOLEAN /\ marked = MarkedBy(map.descs)
      /\ map.descs = Descriptors(mem, machine.sorted) /\ Owned(mem, r)
  BY MachineIs DEF LayoutInv, LayoutTypes, Results, Ownership
<1> SUFFICES ASSUME NEW f \in RunOf(r) PROVE f \in marked
  OBVIOUS
<1>2. f \in DOMAIN mem /\ mem[f] = "loader"
  BY <1>1 DEF Owned
<1>3. PICK i \in DOMAIN map.descs : f \in RunOf(map.descs[i]) /\ map.descs[i].type = mem[f]
  BY <1>1, <1>2, DescriptorsCover
<1>4. map.descs[i].type \in BlockedTypes
  BY <1>2, <1>3 DEF BlockedTypes, Blocked
<1>5. f \in MarkedRun(map.descs[i])
  BY <1>3 DEF MarkedRun
<1>6. QED BY <1>1, <1>4, <1>5 DEF MarkedBy

\* The last page that is mapped: what the loader did not count comes on top of
\* its allocation, what it counted in vain makes up for it.
LEMMA SpaceEnds ==
    ASSUME LayoutInv, pc = "running"
    PROVE  /\ Uncounted \in Int /\ lay.kernel.pages \in Nat /\ lay.preserved \in Nat
           /\ \A i \in 1 .. 7 : BaseOf(Regions)[i] + Regions[i].pages
                                    <= lay.kernel.pages + Uncounted - lay.preserved
           /\ \A v \in DOMAIN ptes : v \in Nat /\ v < lay.kernel.pages + Uncounted - lay.preserved
<1>1. PICK R, B : R = Regions /\ B = BaseOf(Regions)
  OBVIOUS
<1>2. PICK k, s, t, d, g, f, b, Q, p : /\ k = lay.kernelPages /\ t = lay.tables
         /\ d = CeilDiv(Len(map.descs), DescPerPage) /\ g = CeilDiv(lay.firstMap, DescPerPage)
         /\ f = machine.fb /\ b = BitmapPages(lay.extent) /\ Q = lay.kernel.pages
         /\ p = lay.preserved /\ s = BootStatePages + StackPages
  OBVIOUS
<1>3. PICK u, w : u = BootStatePages /\ w = StackPages
  OBVIOUS
<1>4. LayoutTypes /\ Sizes /\ Results /\ lay \in LayType
  BY DEF LayoutInv, LayoutTypes
<1>5. R \in [1 .. 7 -> Region]
  BY <1>1, <1>4, RegionsType
<1>6. /\ \A i \in 1 .. 7 : B[i] \in Nat /\ R[i].pages \in Nat
      /\ \A i, j \in 1 .. 7 : i < j => B[i] + R[i].pages + 1 <= B[j]
  BY <1>1, <1>5, Bases
<1>7. /\ R[1].pages = k /\ R[2].pages = u /\ R[3].pages = t /\ R[4].pages = d
      /\ R[5].pages = f /\ R[6].pages = w /\ R[7].pages = b
  BY <1>1, <1>2, <1>3 DEF Regions
<1>8. /\ k \in Nat /\ u \in Nat /\ t \in Nat /\ d \in Nat /\ f \in Nat /\ w \in Nat /\ b \in Nat
      /\ s = u + w
  <2>1. \A i \in 1 .. 7 : R[i].pages \in Nat
    BY <1>6
  <2>2. /\ R[1].pages \in Nat /\ R[2].pages \in Nat /\ R[3].pages \in Nat /\ R[4].pages \in Nat
        /\ R[5].pages \in Nat /\ R[6].pages \in Nat /\ R[7].pages \in Nat
    BY <2>1
  <2>3. QED BY <1>2, <1>3, <1>7, <2>2
<1>9. g \in Nat /\ p \in Nat /\ Q \in Nat
  <2>1. lay.firstMap \in Nat /\ lay.preserved \in Nat /\ lay.kernel \in Run
    BY <1>4 DEF LayType
  <2>2. QED BY <1>2, <2>1, Constants, CeilDivIs DEF Run
<1>10. Q = k + g + f + p + 4 + t + b + 2
  BY <1>2, <1>4 DEF Sizes, CountedPages
<1>11. Uncounted = s + d - g
  BY <1>2 DEF Uncounted
<1>12. B[7] = k + u + t + d + f + w + 6
  <2>1. BaseOf(R)[7] = R[1].pages + R[2].pages + R[3].pages + R[4].pages + R[5].pages
                       + R[6].pages + 6
    BY DEF BaseOf
  <2>2. QED BY <1>1, <1>7, <2>1
<1>13. PICK V : V = B[7] + b
  OBVIOUS
<1>14. V \in Nat /\ V = Q + Uncounted - p /\ Uncounted \in Int
  BY <1>8, <1>9, <1>10, <1>11, <1>12, <1>13
<1>15. ASSUME NEW i \in 1 .. 7 PROVE B[i] + R[i].pages <= V
  <2>1. CASE i = 7
    BY <1>7, <1>8, <1>12, <1>13, <2>1
  <2>2. CASE i # 7
    <3>1. B[i] + R[i].pages + 1 <= B[7] /\ B[i] \in Nat /\ R[i].pages \in Nat /\ B[7] \in Nat
      BY <1>6, <2>2
    <3>2. PICK x, y, z : x = B[i] /\ y = R[i].pages /\ z = B[7]
      OBVIOUS
    <3>3. x + y <= z + b
      BY <1>8, <3>1, <3>2
    <3>4. QED BY <1>13, <3>2, <3>3
  <2>3. QED BY <2>1, <2>2
<1>16. ASSUME NEW v \in DOMAIN ptes PROVE v \in Nat /\ v < V
  <2>1. IsSpace(ptes, R)
    BY <1>1, <1>4 DEF Results
  <2>2. PICK i \in 1 .. 7 : v \in PagesOf(R, i)
    BY <2>1 DEF IsSpace
  <2>3. PICK x, y : x = B[i] /\ y = R[i].pages
    OBVIOUS
  <2>4. v \in x .. x + y - 1
    BY <1>1, <2>2, <2>3 DEF PagesOf
  <2>5. x \in Nat /\ y \in Nat /\ x + y <= V
    BY <1>6, <1>15, <2>3
  <2>6. QED BY <1>14, <2>4, <2>5
<1>17. QED BY <1>1, <1>2, <1>9, <1>14, <1>15, <1>16

\* The page tables that are written fit the loader's allocation when the pages
\* that were not counted need no more than one table.
LEMMA TablesInside ==
    ASSUME LayoutInv, pc = "running", OneDirectory, Uncounted <= Entries,
           NEW v \in DOMAIN ptes
    PROVE  lay.kernel.start + lay.kernelPages + 4 + v \div Entries \in RunOf(lay.kernel)
<1>1. PICK Q, C, T, b, E, k, st : /\ Q = lay.kernel.pages /\ C = CountedPages /\ T = lay.tables
             /\ b = BitmapPages(lay.extent) /\ E = Entries /\ k = lay.kernelPages
             /\ st = lay.kernel.start
  OBVIOUS
<1>2. LayoutTypes /\ Sizes /\ lay \in LayType
  BY DEF LayoutInv, LayoutTypes
<1>3. /\ k \in Nat /\ T \in Nat /\ lay.extent \in Nat /\ lay.kernel \in Run
      /\ lay.firstMap \in Nat /\ lay.preserved \in Nat /\ machine.fb \in Nat
  BY <1>1, <1>2, MachineIs DEF LayType
<1>4. st \in Nat /\ Q \in Nat /\ b \in Nat /\ E \in Nat /\ E >= 2
  BY <1>1, <1>3, BitmapPagesType, Constants DEF Run
<1>5. C \in Nat /\ C >= k + 4
  <2>1. PICK g, f, p : /\ g = CeilDiv(lay.firstMap, DescPerPage) /\ f = machine.fb
                       /\ p = lay.preserved
    OBVIOUS
  <2>2. g \in Nat /\ f \in Nat /\ p \in Nat
    BY <1>3, <2>1, Constants, CeilDivIs
  <2>3. C = k + g + f + p + 4
    BY <1>1, <2>1 DEF CountedPages
  <2>4. QED BY <1>3, <2>2, <2>3
<1>6. Q = C + T + b + 2 /\ T = PageTableSize(C)
  BY <1>1, <1>2 DEF Sizes
<1>7. PICK F : F = E * E
  OBVIOUS
<1>8. F \in Nat /\ Q <= F
  <2>1. Q <= F
    BY <1>1, <1>7 DEF OneDirectory
  <2>2. QED BY <1>4, <1>7, <2>1
<1>9. C <= F /\ C > 0
  BY <1>3, <1>4, <1>5, <1>6, <1>8
<1>10. PICK c : c = CeilDiv(C, E)
  OBVIOUS
<1>11. T = c + 4
  BY <1>1, <1>5, <1>6, <1>7, <1>9, <1>10, PageTableSizeIs
<1>12. c \in Nat /\ C <= E * c /\ E * c < C + E
  <2>1. E \in Nat \ {0}
    BY <1>4
  <2>2. QED BY <1>5, <1>10, <2>1, CeilDivIs
<1>13. c <= E
  <2> SUFFICES ASSUME c >= E + 1 PROVE FALSE
    BY <1>4, <1>12
  <2>1. E * c >= E * (E + 1)
    BY <1>4, <1>12, Z3
  <2>2. E * (E + 1) = F + E
    BY <1>4, <1>7, Z3
  <2>3. E * c \in Nat
    BY <1>4, <1>12
  <2>4. QED BY <1>4, <1>5, <1>8, <1>9, <1>12, <2>1, <2>2, <2>3
<1>14. v \in Nat /\ v < Q + E
  <2>1. /\ Uncounted \in Int /\ lay.preserved \in Nat /\ v \in Nat
        /\ v < lay.kernel.pages + Uncounted - lay.preserved
    BY SpaceEnds
  <2>2. PICK x, y : x = Uncounted /\ y = lay.preserved
    OBVIOUS
  <2>3. x <= E /\ x \in Int /\ y \in Nat /\ v < Q + x - y
    BY <1>1, <2>1, <2>2
  <2>4. QED BY <1>4, <2>1, <2>3
<1>15. PICK q : q = v \div E
  OBVIOUS
<1>16. q \in Nat /\ E * q <= v
  BY <1>4, <1>14, <1>15, Z3
<1>17. q <= c + b + 5
  <2> SUFFICES ASSUME q >= c + b + 6 PROVE FALSE
    BY <1>4, <1>12, <1>16
  <2>1. E * q >= E * (c + b + 6)
    BY <1>4, <1>12, <1>16, Z3
  <2>2. E * (c + b + 6) = E * c + E * b + 6 * E
    BY <1>4, <1>12, Z3
  <2>3. E * b >= b
    BY <1>4, Z3
  <2>4. E * b \in Nat /\ E * c \in Nat /\ E * q \in Nat
    BY <1>4, <1>12, <1>16
  <2>5. PICK x, y, z : x = E * b /\ y = E * c /\ z = E * q
    OBVIOUS
  <2>6. QED BY <1>4, <1>5, <1>6, <1>11, <1>12, <1>13, <1>14, <1>16, <2>1, <2>2, <2>3, <2>4, <2>5
<1>18. k + 4 + q <= Q - 1
  BY <1>3, <1>4, <1>5, <1>6, <1>11, <1>12, <1>16, <1>17
<1>19. st + k + 4 + q \in st .. st + Q - 1
  BY <1>3, <1>4, <1>16, <1>18
<1>20. RunOf(lay.kernel) = st .. st + Q - 1
  BY <1>1 DEF RunOf
<1>21. QED BY <1>1, <1>15, <1>19, <1>20

LEMMA InvMapped == LayoutInv => MappedExactly
<1> SUFFICES ASSUME LayoutInv, pc = "running", Counted, OneDirectory, NEW i \in 1 .. 7
             PROVE  /\ \A k \in 0 .. Regions[i].pages - 1 :
                            Walk(Base[i] + k) = Regions[i].frame + k
                    /\ Walk(Base[i] + Regions[i].pages) = -1
  BY DEF MappedExactly
<1>1. PICK R, x, p, f : R = Regions /\ x = BaseOf(R)[i] /\ p = R[i].pages /\ f = R[i].frame
  OBVIOUS
<1>2. LayoutTypes /\ IsSpace(ptes, R)
  BY <1>1 DEF LayoutInv, Results
<1>3. Base[i] = x
  BY <1>1, <1>2, BaseIs
<1>4. R \in [1 .. 7 -> Region]
  BY <1>1, <1>2, RegionsType
<1>5. x \in Nat /\ p \in Nat /\ f \in Nat
  BY <1>1, <1>4, Bases
<1>6. PICK Q, E : Q = lay.kernel.pages /\ E = Entries
  OBVIOUS
<1>7. x + p <= Q /\ Q \in Nat
  <2>1. /\ Uncounted \in Int /\ Q \in Nat /\ lay.preserved \in Nat
        /\ x + p <= Q + Uncounted - lay.preserved
    BY <1>1, <1>6, SpaceEnds
  <2>2. PICK a, b : a = Uncounted /\ b = lay.preserved
    OBVIOUS
  <2>3. b >= a
    BY <2>2 DEF Counted
  <2>4. QED BY <1>5, <2>1, <2>2, <2>3
<1>8. PICK c : c = CeilDiv(Q, E)
  OBVIOUS
<1>9. E \in Nat /\ E >= 2 /\ c \in Nat /\ Q <= E * c /\ PageTablesCount = c
  BY <1>6, <1>7, <1>8, Constants, CeilDivIs DEF PageTablesCount
<1>10. ASSUME NEW k \in 0 .. p - 1 PROVE Walk(x + k) = f + k
  <2>1. PICK v : v = x + k
    OBVIOUS
  <2>2. v \in Nat /\ v < Q /\ v \in x .. x + p - 1 /\ f + v - x = f + k
    BY <1>5, <1>7, <2>1
  <2>3. v \in PagesOf(R, i)
    BY <1>1, <2>2 DEF PagesOf
  <2>4. v \in DOMAIN ptes /\ ptes[v] = f + v - x
    BY <1>1, <1>2, <2>3 DEF IsSpace
  <2>5. PICK q : q = v \div E
    OBVIOUS
  <2>6. q \in Nat /\ E * q <= v
    BY <1>9, <2>2, <2>5, Z3
  <2>7. q < c
    <3> SUFFICES ASSUME q >= c PROVE FALSE
      BY <1>9, <2>6
    <3>1. E * q >= E * c
      BY <1>9, <2>6, Z3
    <3>2. E * q \in Nat /\ E * c \in Nat
      BY <1>9, <2>6
    <3>3. QED BY <1>7, <1>9, <2>2, <2>6, <3>1, <3>2
  <2>8. Walk(v) = ptes[v]
    BY <1>6, <1>9, <2>4, <2>5, <2>7 DEF Walk
  <2>9. QED BY <2>1, <2>2, <2>4, <2>8
<1>11. Walk(x + p) = -1
  <2>1. \A j \in 1 .. 7 : x + p \notin PagesOf(R, j)
    BY <1>1, <1>4, RegionsApart
  <2>2. x + p \notin DOMAIN ptes
    BY <1>2, <2>1 DEF IsSpace
  <2>3. QED BY <2>2 DEF Walk
<1>12. QED BY <1>1, <1>3, <1>10, <1>11

LEMMA InvReserved == LayoutInv => FramesReserved
<1> SUFFICES ASSUME LayoutInv, pc = "running" PROVE FramesReserved
  BY DEF FramesReserved
<1>1. LayoutTypes /\ Sizes /\ BuffersFit /\ lay \in LayType /\ map \in [descs : Seq(Desc), buf : Run]
  BY DEF LayoutInv, LayoutTypes
<1>2. /\ lay.bitmap \in Run /\ lay.kernel \in Run /\ lay.state \in Run /\ lay.stack \in Run
      /\ map.buf \in Run /\ lay.kernelPages \in Nat /\ lay.tables \in Nat /\ lay.extent \in Nat
  BY <1>1 DEF LayType
<1>3. /\ RunOf(lay.bitmap) \subseteq marked /\ RunOf(lay.kernel) \subseteq marked
      /\ RunOf(lay.state) \subseteq marked /\ RunOf(lay.stack) \subseteq marked
      /\ RunOf(map.buf) \subseteq marked
  BY OwnedMarked DEF Kept
<1>4. PICK R : R = Regions
  OBVIOUS
<1>5. ASSUME NEW r \in Run, NEW a \in Nat, NEW n \in Nat, r.start <= a, a + n <= r.start + r.pages
      PROVE  a .. a + n - 1 \subseteq RunOf(r)
  <2>1. PICK x, y : x = r.start /\ y = r.pages
    OBVIOUS
  <2>2. x \in Nat /\ y \in Nat /\ x <= a /\ a + n <= x + y
    BY <1>5, <2>1 DEF Run
  <2>3. RunOf(r) = x .. x + y - 1
    BY <2>1 DEF RunOf
  <2>4. QED BY <2>2, <2>3
<1>6. /\ lay.bitmap.start \in Nat /\ lay.kernel.start \in Nat /\ lay.state.start \in Nat
      /\ lay.stack.start \in Nat /\ map.buf.start \in Nat /\ map.buf.pages \in Nat
      /\ lay.kernel.pages \in Nat
  BY <1>2 DEF Run
<1>7. lay.kernelPages + lay.tables <= lay.kernel.pages
  <2>1. PICK k, t, C, b, Q : /\ k = lay.kernelPages /\ t = lay.tables /\ C = CountedPages
                             /\ b = BitmapPages(lay.extent) /\ Q = lay.kernel.pages
    OBVIOUS
  <2>2. Q = C + t + b + 2
    BY <1>1, <2>1 DEF Sizes
  <2>3. k \in Nat /\ t \in Nat /\ b \in Nat
    BY <1>2, <2>1, BitmapPagesType
  <2>4. C \in Nat /\ C >= k
    <3>1. PICK g, f, p : /\ g = CeilDiv(lay.firstMap, DescPerPage) /\ f = machine.fb
                         /\ p = lay.preserved
      OBVIOUS
    <3>2. lay.firstMap \in Nat /\ p \in Nat /\ f \in Nat
      BY <1>1, <3>1, MachineIs DEF LayType
    <3>3. g \in Nat
      BY <3>1, <3>2, Constants, CeilDivIs
    <3>4. C = k + g + f + p + 4
      BY <2>1, <3>1 DEF CountedPages
    <3>5. QED BY <2>3, <3>2, <3>3, <3>4
  <2>5. k + t <= Q
    BY <2>2, <2>3, <2>4
  <2>6. QED BY <2>1, <2>5
<1>8. R[1].frame .. R[1].frame + R[1].pages - 1 \subseteq marked
  <2>1. R[1].frame = lay.kernel.start /\ R[1].pages = lay.kernelPages
    BY <1>4 DEF Regions
  <2>2. lay.kernel.start + lay.kernelPages <= lay.kernel.start + lay.kernel.pages
    BY <1>2, <1>6, <1>7
  <2>3. QED BY <1>2, <1>3, <1>5, <1>6, <2>1, <2>2
<1>9. R[2].frame .. R[2].frame + R[2].pages - 1 \subseteq marked
  <2>1. R[2].frame = lay.state.start /\ R[2].pages = lay.state.pages
    BY <1>1, <1>4 DEF Regions, Sizes
  <2>2. QED BY <1>3, <2>1 DEF RunOf
<1>10. R[3].frame .. R[3].frame + R[3].pages - 1 \subseteq marked
  <2>1. R[3].frame = lay.kernel.start + lay.kernelPages /\ R[3].pages = lay.tables
    BY <1>4 DEF Regions
  <2>2. PICK x, y, z, w : x = lay.kernel.start /\ y = lay.kernelPages /\ z = lay.tables
                          /\ w = lay.kernel.pages
    OBVIOUS
  <2>3. x + y \in Nat /\ x <= x + y /\ (x + y) + z <= x + w
    BY <1>2, <1>6, <1>7, <2>2
  <2>4. (x + y) .. (x + y) + z - 1 \subseteq RunOf(lay.kernel)
    BY <1>2, <1>5, <2>2, <2>3
  <2>5. QED BY <1>3, <2>1, <2>2, <2>4
<1>11. R[4].frame .. R[4].frame + R[4].pages - 1 \subseteq marked
  <2>1. PICK n : n = CeilDiv(Len(map.descs), DescPerPage)
    OBVIOUS
  <2>2. n \in Nat /\ n <= map.buf.pages
    <3>1. Len(map.descs) \in Nat
      BY <1>1
    <3>2. QED BY <1>1, <2>1, <3>1, Constants, CeilDivIs DEF BuffersFit
  <2>3. R[4].frame = map.buf.start /\ R[4].pages = n
    BY <1>4, <2>1 DEF Regions
  <2>4. map.buf.start + n <= map.buf.start + map.buf.pages
    BY <1>6, <2>2
  <2>5. QED BY <1>2, <1>3, <1>5, <1>6, <2>2, <2>3, <2>4
<1>12. R[6].frame .. R[6].frame + R[6].pages - 1 \subseteq marked
  <2>1. R[6].frame = lay.stack.start /\ R[6].pages = lay.stack.pages
    BY <1>1, <1>4 DEF Regions, Sizes
  <2>2. QED BY <1>3, <2>1 DEF RunOf
<1>13. R[7].frame .. R[7].frame + R[7].pages - 1 \subseteq marked
  <2>1. R[7].frame = lay.bitmap.start /\ R[7].pages = lay.bitmap.pages
    BY <1>1, <1>4 DEF Regions, Sizes
  <2>2. QED BY <1>3, <2>1 DEF RunOf
<1>14. InUse \subseteq marked
  <2>1. \A i \in (1 .. 7) \ {5} : i = 1 \/ i = 2 \/ i = 3 \/ i = 4 \/ i = 6 \/ i = 7
    OBVIOUS
  <2>2. \A i \in (1 .. 7) \ {5} : R[i].frame .. R[i].frame + R[i].pages - 1 \subseteq marked
    BY <1>8, <1>9, <1>10, <1>11, <1>12, <1>13, <2>1
  <2>3. InUse = UNION {R[i].frame .. R[i].frame + R[i].pages - 1 : i \in (1 .. 7) \ {5}}
    BY <1>4 DEF InUse
  <2>4. QED BY <2>2, <2>3
<1>15. ASSUME OneDirectory, Uncounted <= Entries PROVE TablesWritten \subseteq marked
  <2>1. \A v \in DOMAIN ptes :
            lay.kernel.start + lay.kernelPages + 4 + v \div Entries \in RunOf(lay.kernel)
    BY <1>15, TablesInside
  <2>2. QED BY <1>3, <2>1 DEF TablesWritten
<1>16. QED BY <1>14, <1>15 DEF FramesReserved

LEMMA InvImage == LayoutInv => ImageWhole
<1> SUFFICES ASSUME LayoutInv, pc = "running", NEW i \in DOMAIN machine.segments
             PROVE  LET s == machine.segments[i]
                    IN  /\ s.vaddr + s.memsz <= lay.kernelPages * PageBytes
                        /\ \A a \in s.vaddr .. s.vaddr + s.memsz - 1 :
                                image[a] = IF a < s.vaddr + s.filesz THEN s.id ELSE 0
  BY DEF ImageWhole
<1>1. PICK segs, K : segs = machine.segments /\ K = lay.kernel.pages
  OBVIOUS
<1>2. /\ LayoutTypes /\ Sizes /\ Linked(segs) /\ segs \in Seq(Segment)
      /\ image = ImageOf(segs, K)
  BY <1>1, MachineIs DEF LayoutInv, Results
<1>3. KernelPages(segs) = lay.kernelPages /\ KernelPages(segs) <= K /\ K \in Nat
  <2>1. PICK k, t, C, b : /\ k = lay.kernelPages /\ t = lay.tables /\ C = CountedPages
                          /\ b = BitmapPages(lay.extent)
    OBVIOUS
  <2>2. K = C + t + b + 2 /\ KernelPages(segs) = k
    BY <1>1, <1>2, <2>1 DEF Sizes
  <2>3. /\ k \in Nat /\ t \in Nat /\ lay.extent \in Nat /\ lay.firstMap \in Nat
        /\ lay.preserved \in Nat
    BY <1>2, <2>1 DEF LayoutTypes, LayType
  <2>4. b \in Nat
    BY <2>1, <2>3, BitmapPagesType
  <2>5. C \in Nat /\ C >= k
    <3>1. PICK g, f, p : /\ g = CeilDiv(lay.firstMap, DescPerPage) /\ f = machine.fb
                         /\ p = lay.preserved
      OBVIOUS
    <3>2. g \in Nat /\ f \in Nat /\ p \in Nat
      BY <1>2, <2>3, <3>1, MachineIs, Constants, CeilDivIs
    <3>3. C = k + g + f + p + 4
      BY <2>1, <3>1 DEF CountedPages
    <3>4. QED BY <2>3, <3>2, <3>3
  <2>6. QED BY <2>1, <2>2, <2>3, <2>4, <2>5
<1>4. i \in 1 .. Len(segs)
  BY <1>1, <1>2
<1>5. segs[i].vaddr + segs[i].memsz <= KernelPages(segs) * PageBytes
  BY <1>2, <1>4, SegmentsEnd
<1>6. HoldsSegment(image, segs[i])
  BY <1>1, <1>2, <1>3, ImageIs DEF ImageOf
<1>7. QED BY <1>1, <1>3, <1>5, <1>6 DEF HoldsSegment

LEMMA InvBitmap == LayoutInv => BitmapSound
<1> SUFFICES ASSUME LayoutInv PROVE BitmapSound
  OBVIOUS
<1>1. /\ LayoutTypes /\ SameGround /\ Ownership /\ ExtentRight /\ Results /\ IsMemory(mem)
      /\ DOMAIN mem = DOMAIN machine.mem /\ machine.sorted \in BOOLEAN /\ lay.extent \in Nat
  BY MachineIs DEF LayoutInv, LayoutTypes, LayType
<1>2. PICK h \in DOMAIN machine.mem : h >= LowPages /\ machine.mem[h] # "hole"
  BY <1>1, MachineIs
<1>3. \A f \in DOMAIN mem : f \in Nat /\ (\A g \in 0 .. f : g \in DOMAIN mem)
  <2>1. PICK n : n = Cardinality(DOMAIN mem)
    OBVIOUS
  <2>2. n \in Nat /\ DOMAIN mem = 0 .. n - 1
    BY <1>1, <2>1, FS_CardinalityType DEF IsMemory
  <2>3. QED BY <2>2
<1>4. ASSUME NEW p \in marked
      PROVE  \/ p \in Nat /\ p < h
             \/ p \in DOMAIN mem /\ mem[p] # "hole"
  <2>1. pc = "running" /\ marked = MarkedBy(map.descs)
        /\ map.descs = Descriptors(mem, machine.sorted)
    BY <1>1, <1>4 DEF Results
  <2>2. CASE p \in 0 .. LowPages - 1
    <3>1. h \in Nat /\ LowPages \in Nat
      BY <1>1, <1>2, <1>3, Constants
    <3>2. QED BY <1>2, <2>2, <3>1
  <2>3. CASE p \notin 0 .. LowPages - 1
    <3>1. PICK i \in DOMAIN map.descs : p \in MarkedRun(map.descs[i])
      BY <2>1, <2>3 DEF MarkedBy
    <3>2. p \in RunOf(map.descs[i])
      BY <3>1 DEF MarkedRun
    <3>3. QED BY <1>1, <2>1, <3>1, <3>2, DescriptorsCover
  <2>4. QED BY <2>2, <2>3
<1>5. \A p \in marked : p \in DOMAIN mem /\ p \in Nat
  <2> TAKE p \in marked
  <2>1. CASE p \in Nat /\ p < h
    <3>1. h \in Nat /\ p \in 0 .. h
      BY <1>1, <1>2, <1>3, <2>1
    <3>2. QED BY <1>1, <1>2, <1>3, <3>1
  <2>2. CASE p \in DOMAIN mem /\ mem[p] # "hole"
    BY <1>3, <2>2
  <2>3. QED BY <1>4, <2>1, <2>2
<1>6. TypeOK
  <2>1. mem \in [Frames -> Types]
    BY <1>1 DEF IsMemory, Frames
  <2>2. pc \in Steps /\ request.size \in Nat
    BY <1>1 DEF LayoutTypes
  <2>3. RunOf(request.buf) \subseteq Frames
    BY <1>1 DEF Ownership, Frames
  <2>4. marked \subseteq Frames
    BY <1>5 DEF Frames
  <2>5. QED BY <2>1, <2>2, <2>3, <2>4 DEF TypeOK
<1>7. BitmapHolds
  BY <1>1, <1>5, WordsInside DEF BitmapHolds
<1>8. ExtentCovers
  <2> SUFFICES ASSUME pc = "running", machine.sorted, \A f \in Frames : mem[f] # "unusable",
                      NEW p \in marked
               PROVE  p < lay.extent
    BY DEF ExtentCovers
  <2>1. Plain
    BY <1>1 DEF Plain, SameGround, Ground, Frames
  <2>2. BelowExtent(machine.mem, lay.extent)
    BY <1>1, <2>1 DEF ExtentRight
  <2>3. h < lay.extent /\ h \in Nat
    BY <1>1, <1>2, <1>3, <2>2 DEF BelowExtent
  <2>4. CASE p \in Nat /\ p < h
    BY <1>1, <2>3, <2>4
  <2>5. CASE p \in DOMAIN mem /\ mem[p] # "hole"
    <3>1. p \in DOMAIN machine.mem /\ machine.mem[p] # "hole"
      BY <1>1, <2>5 DEF SameGround, Ground
    <3>2. QED BY <2>2, <3>1 DEF BelowExtent
  <2>6. QED BY <1>4, <2>4, <2>5
<1>9. QED BY <1>6, <1>7, <1>8 DEF BitmapSound

\* Whatever the memory, the kernel and the firmware's choices: if what init()
\* forgets to count is made up for and one page directory is enough, the kernel
\* starts with every page of every region mapped to its frame and a guard page
\* after each region.
THEOREM RegionsMapped == Spec => []MappedExactly
<1>1. QED BY LayoutHolds, InvMapped, PTL

\* MemoryManager::init marks every frame that the loader hands over, and the
\* page tables too as long as they stay inside the allocation.
THEOREM HandedOverReserved == Spec => []FramesReserved
<1>1. QED BY LayoutHolds, InvReserved, PTL

\* The words that MemoryManager::init writes in its bitmap are inside the pages
\* that init() allocated for it.
THEOREM BitmapLarge == Spec => []BitmapSound
<1>1. QED BY LayoutHolds, InvBitmap, PTL

\* A kernel that is linked as linker.ld does it is loaded whole, whatever its
\* segments are.
THEOREM KernelLoaded == Spec => []ImageWhole
<1>1. QED BY LayoutHolds, InvImage, PTL
=============================================================================
