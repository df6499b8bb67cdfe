-------------------------------- MODULE Pci ---------------------------------
(***************************************************************************)
(* Kernel/Bus/PCI: the scan of bus 0, the Device objects it takes from the *)
(* slab (module Slab, whose steps are taken here in the order in which     *)
(* Device::operator new makes the calls), the Vector that lists them, and  *)
(* find_device as the block driver uses it.                                *)
(*                                                                         *)
(* read_device_function calls itself; calls is the stack of its frames.    *)
(* has_mcfg_table is constantly false: the scan is the one through ports.  *)
(***************************************************************************)
EXTENDS Slab, Sequences

CONSTANTS
    Devs,            \* device numbers of a bus (32)
    Fns,             \* functions of a device (8)
    DevSize,         \* sizeof(Device)
    InitialCapacity, \* of a Vector (8)
    MaxDepth         \* frames of read_device_function that the stack holds

ASSUME PciAssumption ==
    /\ {Devs, Fns, InitialCapacity} \subseteq Nat \ {0}
    /\ DevSize \in Sizes
    /\ MaxDepth \in Nat /\ MaxDepth > 2

Places == (0 .. Devs - 1) \X (0 .. Fns - 1)

\* What a function answers: nothing, or an identity and the multifunction bit.
Kinds == {"none"} \X {FALSE} \cup {"net", "blk"} \X BOOLEAN
Present(k) == k[1] # "none"
IsMulti(k) == k[2]

VARIABLES
    bus,      \* what is plugged in, by place
    pc,       \* where the scan is
    dev,      \* i of initialise_legacy
    calls,    \* frames: [fn, next: i of its loop]
    fresh,    \* what operator new returned
    content,  \* the place whose function an object describes
    devices,  \* m_devices: [items, capacity]
    driver    \* the Device that detect_and_init uses

pvars == <<bus, pc, dev, calls, fresh, content, devices, driver>>
allVars == <<vars, pvars>>

\* Mutant: the other functions are counted from 0.
FirstOtherZero == 0

\* Where the loop over the other functions of a device starts.
FirstOther == 1

PciInit ==
    /\ Init
    /\ bus \in [Places -> Kinds]
    /\ pc = "boot" /\ dev = 0
    /\ calls = <<[fn |-> 0, next |-> FirstOther]>>
    /\ fresh = Null
    /\ content = [i \in 0 .. MaxObjects |-> <<0, 0>>]
    /\ devices = [items |-> <<>>, capacity |-> InitialCapacity]
    /\ driver = Null

\* Before the scan the heap and the console take pages of their own.
OthersTakePages ==
    /\ pc = "boot"
    /\ pages' \in 0 .. pages
    /\ pc' = "call"
    /\ UNCHANGED <<initialised, size, mapped, free, list, link, handles, held, panicked>>
    /\ UNCHANGED <<bus, dev, calls, fresh, content, devices, driver>>

-----------------------------------------------------------------------------
(* read_device_function.                                                   *)

Frame == calls[Len(calls)]
Here == bus[<<dev, Frame.fn>>]

\* The frame returns: to the loop that called it, or to initialise_legacy.
Return ==
    /\ calls' = SubSeq(calls, 1, Len(calls) - 1)
    /\ pc' = IF Len(calls) = 1 THEN "next" ELSE "loop"

\* Mutant: a function that does not answer is asked again.
ReadAbsentAgain ==
    /\ pc = "call" /\ ~Present(Here)
    /\ UNCHANGED allVars

ReadAbsent ==
    /\ pc = "call" /\ ~Present(Here)
    /\ Return
    /\ UNCHANGED <<vars, bus, dev, fresh, content, devices, driver>>

ReadPresent ==
    /\ pc = "call" /\ Present(Here)
    /\ pc' = "slab"
    /\ UNCHANGED <<vars, bus, dev, calls, fresh, content, devices, driver>>

\* get_or_create_slab in operator new; on an error the object is null.
GetSlab ==
    /\ pc = "slab"
    /\ \/ FindSlab(DevSize) /\ pc' = "allocate" /\ UNCHANGED fresh
       \/ /\ CreateSlab(DevSize)
          /\ pc' = IF pages > 0 THEN "allocate" ELSE "append"
          /\ fresh' = Null
    /\ UNCHANGED <<bus, dev, calls, content, devices, driver>>

DeviceSlab == FirstSuch({s \in Slabs : IsSlabFor(s, DevSize)})

\* Slab::allocate, then the constructor.
NewDevice ==
    /\ pc = "allocate" /\ Allocate(DeviceSlab)
    /\ fresh' = list[DeviceSlab]
    /\ content' = [content EXCEPT ![list[DeviceSlab]] = <<dev, Frame.fn>>]
    /\ pc' = "append"
    /\ UNCHANGED <<bus, dev, calls, devices, driver>>

\* No object is free: null, and the constructor is not run.
NewRefused ==
    /\ pc = "allocate" /\ DeviceSlab \in mapped /\ ~HasFreeObjects(DeviceSlab)
    /\ fresh' = Null
    /\ pc' = "append"
    /\ UNCHANGED <<vars, bus, dev, calls, content, devices, driver>>

NewPanics ==
    /\ pc = "allocate" /\ AllocatePanic(DeviceSlab)
    /\ pc' = "stopped"
    /\ UNCHANGED <<bus, dev, calls, fresh, content, devices, driver>>

\* Mutant: the bytes of one item too few are copied to the new storage.
GrownItemsShort(items) == [items EXCEPT ![Len(items)] = Null]

\* memcpy of m_items items.
GrownItems(items) == items

\* Vector::append: the storage doubles when it is full.  That the heap has no
\* room for it (grow does not look) is left out: a bus needs at most 2 KiB.
Appended(v, x) ==
    IF Len(v.items) = v.capacity
    THEN [items |-> Append(GrownItems(v.items), x), capacity |-> v.capacity * 2]
    ELSE [v EXCEPT !.items = Append(@, x)]

AppendDevice ==
    /\ pc = "append"
    /\ devices' = Appended(devices, fresh)
    /\ \/ IsMulti(Here) /\ pc' = "loop" /\ UNCHANGED calls
       \/ ~IsMulti(Here) /\ Return
    /\ UNCHANGED <<vars, bus, dev, fresh, content, driver>>

\* The recursive call, for each other function number; the frames may be more
\* than the stack has room for.
CallFunction ==
    /\ pc = "loop" /\ Frame.next < Fns
    /\ \/ /\ Len(calls) < MaxDepth
          /\ calls' = Append([calls EXCEPT ![Len(calls)].next = @ + 1],
                             [fn |-> Frame.next, next |-> FirstOther])
          /\ pc' = "call"
       \/ Len(calls) = MaxDepth /\ pc' = "overflow" /\ UNCHANGED calls
    /\ UNCHANGED <<vars, bus, dev, fresh, content, devices, driver>>

EndLoop ==
    /\ pc = "loop" /\ Frame.next = Fns
    /\ Return
    /\ UNCHANGED <<vars, bus, dev, fresh, content, devices, driver>>

NextDevice ==
    /\ pc = "next"
    /\ dev' = dev + 1
    /\ \/ dev + 1 < Devs /\ pc' = "call" /\ calls' = <<[fn |-> 0, next |-> FirstOther]>>
       \/ dev + 1 = Devs /\ pc' = "find" /\ UNCHANGED calls
    /\ UNCHANGED <<vars, bus, fresh, content, devices, driver>>

-----------------------------------------------------------------------------
(* VirtioBlockDevice::detect_and_init.                                     *)

\* Mutant: only the vendor is compared.
MatchesVendor(k) == k[1] \in {"blk", "net"}

Matches(k) == k[1] = "blk"

\* find_device: the first item that matches.  A null item is read at address
\* zero, where anything may be (low).  When there is none, the error is built
\* and dropped, and get() of the empty Optional is null.
FindDevice ==
    /\ pc = "find"
    /\ \E low \in BOOLEAN :
        LET Hit(k) == IF devices.items[k] = Null THEN low
                      ELSE Matches(bus[content[devices.items[k]]])
            hits == {k \in DOMAIN devices.items : Hit(k)}
        IN  driver' = IF hits = {} THEN Null ELSE devices.items[FirstSuch(hits)]
    /\ pc' = "stopped"
    /\ UNCHANGED <<vars, bus, dev, calls, fresh, content, devices>>

Ended == pc \in {"stopped", "overflow"} /\ UNCHANGED allVars

PciStep ==
    \/ OthersTakePages \/ ReadAbsent \/ ReadPresent \/ GetSlab \/ NewDevice \/ NewRefused
    \/ NewPanics \/ AppendDevice \/ CallFunction \/ EndLoop \/ NextDevice \/ FindDevice

PciNext == PciStep \/ Ended

\* One processor, which goes on.
PciSpec == PciInit /\ [][PciNext]_allVars /\ WF_allVars(PciStep)

-----------------------------------------------------------------------------
(* Properties.                                                             *)

PciTypeOK ==
    /\ TypeOK
    /\ pc \in {"boot", "call", "slab", "allocate", "append", "loop", "next", "find",
               "stopped", "overflow"}
    /\ dev \in 0 .. Devs /\ Len(calls) <= MaxDepth
    /\ Len(devices.items) <= devices.capacity

\* The functions a scan should list: function 0 of each device, and the others
\* where function 0 says so.
Reachable(p) ==
    /\ Present(bus[p])
    /\ p[2] = 0 \/ (Present(bus[<<p[1], 0>>]) /\ IsMulti(bus[<<p[1], 0>>]))

InOrder == [n \in 1 .. Devs * Fns |-> <<(n - 1) \div Fns, (n - 1) % Fns>>]
Listed[n \in 0 .. Devs * Fns] ==
    IF n = 0 THEN <<>>
    ELSE IF Reachable(InOrder[n]) THEN Append(Listed[n - 1], InOrder[n]) ELSE Listed[n - 1]
Expected == Listed[Devs * Fns]

\* A function other than 0 with the bit set calls itself again and again.
Nested == \E p \in Places : Reachable(p) /\ p[2] > 0 /\ IsMulti(bus[p])

Scanned == pc \in {"find", "stopped"} /\ ~panicked

\* A scan that ends has listed every function once and in order, also when the
\* Vector grew on the way; an entry is null exactly when the slab's one page
\* was full or could not be had, and describes its function otherwise.
ScanExact ==
    Scanned =>
        LET items == devices.items
        IN  /\ Len(items) = Len(Expected)
            /\ \A k \in DOMAIN items :
                IF k <= Total(DevSize) /\ mapped # {}
                THEN items[k] # Null /\ content[items[k]] = Expected[k]
                ELSE items[k] = Null

\* The entries are objects of the slab's page that nobody else is given.
DevicesApart ==
    \A j, k \in DOMAIN devices.items :
        devices.items[k] # Null =>
            /\ devices.items[k] \in Objects(DeviceSlab) \cap held[DeviceSlab]
            /\ devices.items[j] = devices.items[k] => j = k

\* Together: the list of devices is the bus.
ListSound == PciTypeOK /\ ScanExact /\ DevicesApart

\* The recursion leaves the stack only on a machine where a function other
\* than 0 has the multifunction bit, and on such a machine no scan ends.
OverflowExplained ==
    /\ pc = "overflow" => Nested
    /\ Scanned => ~Nested

\* Slab::allocate's VERIFY stops the kernel only when the slab got no page:
\* the first function is then listed as null, the second one panics.
PanicExplained ==
    panicked => pages = 0 /\ mapped = {} /\ devices.items = <<Null>>

\* Together: the two ways in which a scan does not end.
StopsExplained == OverflowExplained /\ PanicExplained

\* The driver works with the first block device of the machine; with a null
\* pointer, whose registers are whatever lies at address zero, only if the
\* machine has none or a null entry hides it.
DriverRight ==
    (pc = "stopped" /\ ~panicked) =>
        LET B == {k \in DOMAIN Expected : bus[Expected[k]][1] = "blk"}
            nulls == {k \in DOMAIN devices.items : devices.items[k] = Null}
        IN  IF driver = Null THEN B = {} \/ nulls # {}
            ELSE B # {} /\ content[driver] = Expected[FirstSuch(B)]

\* The scan comes to an end, or to the end of the stack.
ScanEnds == <>(pc \in {"stopped", "overflow"})
=============================================================================
