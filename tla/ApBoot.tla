------------------------------- MODULE ApBoot -------------------------------
(***************************************************************************)
(* ACPI::start_application_processors and what a started processor runs:   *)
(* the trampoline of ApInit.S, ap_main and ap_stage2.  (kernel_stage2 has  *)
(* the call commented out.)                                                *)
(*                                                                         *)
(* Low memory is a function of words, from 0x8000 on: the trampoline, its  *)
(* three variables at the end of the page, and a page of stack for each    *)
(* processor.  The processors reach it through the identity mapping, which *)
(* the boot processor removes in the end.  The application processors have *)
(* no interrupt table: a page fault resets the machine.                    *)
(***************************************************************************)
EXTENDS Integers, FiniteSets

CONSTANTS
    Cpus,      \* processors that the loop counts on (4)
    PageWords, \* words of a page (512)
    Accesses   \* uses of the stack from the return of set_booted to the halt

ASSUME ApAssumption ==
    /\ Cpus \in Nat \ {0, 1} /\ Accesses \in Nat
    /\ PageWords \in Nat /\ PageWords > 6

Ids == 1 .. Cpus - 1

StackVar == PageWords - 6 \* 0x8fd0
MainVar == PageWords - 4  \* 0x8fe0
Cr3Var == PageWords - 2   \* 0x8ff0
StackBase == PageWords    \* 0x9000

\* Contents of a word, other than an address in low memory.
Other == -1
Cr3 == -2
ApMain == -3
Pushed == -4

VARIABLES
    present, \* the processors of this machine
    bsp,     \* where the boot processor is
    cpu,     \* i, the processor it is starting
    spin,    \* g_boot_spinlock
    low,     \* the words of low memory
    mapped,  \* the identity mapping is in the page tables
    ap,      \* each processor: where it is, rsp, accesses of the stack to go
    reset    \* a fault has reset the machine

apVars == <<present, bsp, cpu, spin, low, mapped, ap, reset>>

ApInit ==
    /\ present \in SUBSET Ids
    /\ bsp = "prepare" /\ cpu = 1
    /\ spin = FALSE
    /\ low = [a \in 0 .. Cpus * PageWords - 1 |-> Other]
    /\ mapped = TRUE
    /\ ap = [i \in Ids |-> [pc |-> "off", rsp |-> 0, left |-> Accesses]]
    /\ reset = FALSE

-----------------------------------------------------------------------------
(* The boot processor.                                                     *)

Prepare ==
    /\ bsp = "prepare" /\ ~reset
    /\ low' = [low EXCEPT ![Cr3Var] = Cr3, ![MainVar] = ApMain]
    /\ bsp' = "stack"
    /\ UNCHANGED <<present, cpu, spin, mapped, ap, reset>>

\* Mutant: processors are counted from zero, so the first stack ends where
\* the variables do.
StackForFromZero(i) == StackBase + (i - 1) * PageWords

\* The stack of processor i grows down from here.
StackFor(i) == StackBase + i * PageWords

WriteStack ==
    /\ bsp = "stack" /\ cpu < Cpus /\ ~reset
    /\ low' = [low EXCEPT ![StackVar] = StackFor(cpu)]
    /\ bsp' = "lock"
    /\ UNCHANGED <<present, cpu, spin, mapped, ap, reset>>

\* Mutant: the flag is not set for the processor that is started next.
TakeLockNot ==
    /\ bsp = "lock" /\ ~reset
    /\ bsp' = "init"
    /\ UNCHANGED <<present, cpu, spin, low, mapped, ap, reset>>

TakeLock ==
    /\ bsp = "lock" /\ ~reset
    /\ spin' = TRUE
    /\ bsp' = "init"
    /\ UNCHANGED <<present, cpu, low, mapped, ap, reset>>

\* An INIT to a processor that is not there has no effect.
SendInit ==
    /\ bsp = "init" /\ ~reset
    /\ ap' = [ap EXCEPT ![cpu].pc = IF cpu \in present THEN "wait" ELSE @]
    /\ bsp' = "sipi"
    /\ UNCHANGED <<present, cpu, spin, low, mapped, reset>>

\* After the delay; one SIPI is sent.
SendSipi ==
    /\ bsp = "sipi" /\ ~reset
    /\ ap' = [ap EXCEPT ![cpu].pc = IF @ = "wait" THEN "cr3" ELSE @]
    /\ bsp' = "spin"
    /\ UNCHANGED <<present, cpu, spin, low, mapped, reset>>

\* while (g_boot_spinlock) {}
WaitBooted ==
    /\ bsp = "spin" /\ ~spin /\ ~reset
    /\ cpu' = cpu + 1
    /\ bsp' = "stack"
    /\ UNCHANGED <<present, spin, low, mapped, ap, reset>>

UnmapIdentityMapping ==
    /\ bsp = "stack" /\ cpu = Cpus /\ ~reset
    /\ mapped' = FALSE
    /\ bsp' = "done"
    /\ UNCHANGED <<present, cpu, spin, low, ap, reset>>

-----------------------------------------------------------------------------
(* An application processor.                                               *)

Goto(i, pc) == ap' = [ap EXCEPT ![i].pc = pc]

\* Real mode to protected mode to long mode; a wrong table would be the end of it.
\* The far jump lands before longmode, in the padding of .align 2048; the model
\* takes it that the assembler has filled it with instructions without effect.
ReadCr3(i) ==
    /\ ap[i].pc = "cr3" /\ ~reset
    /\ Goto(i, IF low[Cr3Var] = Cr3 THEN "main" ELSE "lost")
    /\ UNCHANGED <<present, bsp, cpu, spin, low, mapped, reset>>

\* mov (0x8fe0), %rax: the jump is made after the stack is loaded.
ReadMain(i) ==
    /\ ap[i].pc = "main" /\ ~reset
    /\ Goto(i, IF low[MainVar] = ApMain THEN "rsp" ELSE "lost")
    /\ UNCHANGED <<present, bsp, cpu, spin, low, mapped, reset>>

\* Mutant: the trampoline reports for the processor.
ReadStackBooted(i) ==
    /\ ap[i].pc = "rsp" /\ ~reset
    /\ ap' = [ap EXCEPT ![i].pc = "push", ![i].rsp = low[StackVar]]
    /\ spin' = FALSE
    /\ UNCHANGED <<present, bsp, cpu, low, mapped, reset>>

ReadStack(i) ==
    /\ ap[i].pc = "rsp" /\ ~reset
    /\ ap' = [ap EXCEPT ![i].pc = "push", ![i].rsp = low[StackVar]]
    /\ UNCHANGED <<present, bsp, cpu, spin, low, mapped, reset>>

\* ap_main pushes the code segment and ap_stage2, and returns to it.
EnterStage2(i) ==
    /\ ap[i].pc = "push" /\ ~reset
    /\ low' = [low EXCEPT ![ap[i].rsp - 1] = Pushed, ![ap[i].rsp - 2] = Pushed]
    /\ Goto(i, "stage2")
    /\ UNCHANGED <<present, bsp, cpu, spin, mapped, reset>>

\* Mutant: the flag stays up.
SetBootedNot(i) ==
    /\ ap[i].pc = "stage2" /\ ~reset
    /\ Goto(i, "booted")
    /\ UNCHANGED <<present, bsp, cpu, spin, low, mapped, reset>>

SetBooted(i) ==
    /\ ap[i].pc = "stage2" /\ ~reset
    /\ spin' = FALSE
    /\ Goto(i, "booted")
    /\ UNCHANGED <<present, bsp, cpu, low, mapped, reset>>

\* The return from set_booted and the calls of local_apic_id and halt.
UseStack(i) ==
    /\ ap[i].pc = "booted" /\ ap[i].left > 0 /\ ~reset
    /\ low' = [low EXCEPT ![ap[i].rsp - 1] = Pushed]
    /\ ap' = [ap EXCEPT ![i].left = @ - 1]
    /\ UNCHANGED <<present, bsp, cpu, spin, mapped, reset>>

Halt(i) ==
    /\ ap[i].pc = "booted" /\ ap[i].left = 0 /\ ~reset
    /\ Goto(i, "halted")
    /\ UNCHANGED <<present, bsp, cpu, spin, low, mapped, reset>>

\* Once the mapping is gone a step through it may still find it in the TLB,
\* or fault.
UsesLow(i) ==
    \/ ap[i].pc \in {"main", "rsp", "push"}
    \/ ap[i].pc = "booted" /\ ap[i].left > 0

Fault(i) ==
    /\ UsesLow(i) /\ ~mapped /\ ~reset
    /\ reset' = TRUE
    /\ UNCHANGED <<present, bsp, cpu, spin, low, mapped, ap>>

Step(i) ==
    \/ ReadCr3(i) \/ ReadMain(i) \/ ReadStack(i) \/ EnterStage2(i)
    \/ SetBooted(i) \/ UseStack(i) \/ Halt(i)

BspStep ==
    \/ Prepare \/ WriteStack \/ TakeLock \/ SendInit \/ SendSipi \/ WaitBooted
    \/ UnmapIdentityMapping

\* Nothing moves: a missing processor is waited for, all is done, or reset.
Idle ==
    /\ \/ reset
       \/ /\ bsp = "done" \/ (bsp = "spin" /\ spin)
          /\ \A i \in Ids : ap[i].pc \in {"off", "wait", "halted", "lost"}
    /\ UNCHANGED apVars

ApNext ==
    \/ BspStep
    \/ \E i \in Ids : Step(i) \/ Fault(i)
    \/ Idle

\* Every processor that runs goes on.
ApSpec ==
    /\ ApInit /\ [][ApNext]_apVars
    /\ WF_apVars(BspStep)
    /\ \A i \in Ids : WF_apVars(Step(i))

-----------------------------------------------------------------------------
(* Properties.                                                             *)

ApTypeOK ==
    /\ present \subseteq Ids /\ cpu \in 1 .. Cpus
    /\ bsp \in {"prepare", "stack", "lock", "init", "sipi", "spin", "done"}
    /\ {spin, mapped, reset} \subseteq BOOLEAN
    /\ \A i \in Ids : /\ ap[i].pc \in {"off", "wait", "cr3", "main", "rsp", "push", "stage2",
                                       "booted", "halted", "lost"}
                      /\ ap[i].rsp \in 0 .. Cpus * PageWords
                      /\ ap[i].left \in 0 .. Accesses

\* A processor that has loaded its stack has the one that was meant for it,
\* although all are handed over in the same word, which the boot processor
\* writes again for the next one: no two processors share a stack.
OwnStack ==
    \A i \in Ids : ap[i].pc \in {"push", "stage2", "booted", "halted"} =>
        ap[i].rsp = StackBase + i * PageWords

\* No stack reaches the words from which the next processor starts: each one
\* finds the page tables and ap_main there.
FindsItsWay == \A i \in Ids : ap[i].pc # "lost"

\* The identity mapping goes only after every processor has left the
\* trampoline and reported, so that only what ap_stage2 does after set_booted
\* can still fault on it.
UnmappedAfterReports ==
    (~mapped \/ reset) => \A i \in Ids : ap[i].pc \in {"booted", "halted"}

\* The boot processor gets through, and every processor it started halts or
\* resets the machine, unless a processor of the four is missing: then it
\* waits for that one for ever.
StartUpEnds ==
    <>[] \/ reset
         \/ /\ \A i \in Ids : ap[i].pc \in {"off", "halted"}
            /\ bsp = "done" \/ (bsp = "spin" /\ cpu \notin present)
=============================================================================
