----------------------------- MODULE VirtioBlock -----------------------------
(***************************************************************************)
(* Kernel/Devices/VirtioBlockDevice: the driver of a legacy virtio block   *)
(* device, and the device, which works on the same ring and on the         *)
(* caller's memory at the same time.                                       *)
(*                                                                         *)
(* rw is cut where the device can look in between: after the descriptors,  *)
(* the ring entry, the index and the notification are written, and in the  *)
(* polling loop.  The device is not part of the repository: it follows the *)
(* ring as the driver assumes, in steps, may start as soon as the index    *)
(* has moved, and must start once it is notified.  The kernel is built     *)
(* without optimisation, so every access in the source is made in order.   *)
(*                                                                         *)
(* A sector has two halves, and so has the caller's buffer, which may      *)
(* cross the end of a page.  rw asks for the physical address of its first *)
(* byte only: the device takes the second half to be behind the first one  *)
(* in physical memory.  When it is not (split), the device works on what   *)
(* is there instead (beyond).                                              *)
(***************************************************************************)
EXTENDS Integers, FiniteSets

CONSTANTS
    Lbas,       \* sectors asked for; those in Bad are refused by the device
    Bad,
    Values,     \* contents of half a sector
    QueueSizes, \* queue sizes a device may offer (0: there is no queue)
    IdxMod      \* indices are uint16_t: 2^16

ASSUME QueueAssumption ==
    /\ Bad \subseteq Lbas /\ Values # {}
    /\ QueueSizes \subseteq Nat
    /\ IdxMod \in Nat \ {0}
    /\ \A q \in QueueSizes : q <= IdxMod

NoDesc == 65535
Ids == 0 .. IdxMod - 1
Sectors == [head : Values, tail : Values]
NoData == [head |-> "none", tail |-> "none"]

VARIABLES
    phase,   \* progress of init, then "ready"; "panic" if it failed, or rw did
    num,     \* m_q.num
    free,    \* m_q.free, with count entries in use
    count,
    desc,    \* the descriptor table: what an entry points to, and the next
    ring,    \* the available ring
    avail,   \* its index
    used,    \* the index of the used ring
    shadow,  \* m_q.used_idx_shadow
    pc,      \* where rw is
    chain,   \* its d0, d1, d2
    req,     \* the request header: op and lba
    buf,     \* the caller's buffer and the memory behind its first half
    status,  \* the status byte
    answer,  \* what the last rw returned
    dev      \* the device: its step, its own index, notified, the request read

drv == <<phase, num, free, count, desc, ring, avail, shadow, pc, chain, req, answer>>
disk == dev.disk
vars == <<phase, num, free, count, desc, ring, avail, used, shadow, pc, chain, req,
          buf, status, answer, dev>>

NoReq == [op |-> "none", lba |-> "none"]
NoBuffer == [head |-> "none", tail |-> "none", beyond |-> "none", split |-> FALSE]
Blank == [to |-> "none", next |-> 0]
NoAnswer == [ok |-> FALSE, data |-> NoData]

Init ==
    /\ phase = "off" /\ num = 0
    /\ free = [i \in Ids |-> 0] /\ count = 0
    /\ desc = [i \in Ids |-> Blank]
    /\ ring = [i \in Ids |-> 0]
    /\ avail = 0 /\ used = 0 /\ shadow = 0
    /\ pc = "idle" /\ chain = <<NoDesc, NoDesc, NoDesc>>
    /\ req = NoReq /\ buf = NoBuffer /\ status = 255 /\ answer = NoAnswer
    /\ \E s \in [Lbas -> Sectors] :
           dev = [pc |-> "idle", seen |-> 0, kicked |-> FALSE, req |-> NoReq,
                  err |-> FALSE, disk |-> s]

-----------------------------------------------------------------------------
(* init and setup_queue0.  TRY_PANIC stops the kernel when they fail.      *)

\* Reset, ACK, DRIVER and the features; the device may not keep FEATURES_OK.
Negotiate ==
    /\ phase = "off"
    /\ phase' \in {"negotiated", "panic"}
    /\ UNCHANGED <<num, free, count, desc, ring, avail, used, shadow, pc, chain, req, buf,
                   status, answer, dev>>

SetupQueue0(qmax, pagesOk) ==
    /\ phase = "negotiated"
    /\ \/ /\ qmax > 0 /\ pagesOk
          /\ phase' = "queued"
          /\ num' = qmax /\ count' = qmax
          /\ free' = [i \in Ids |-> IF i < qmax THEN qmax - 1 - i ELSE 0]
          /\ used' = 0 /\ shadow' = 0 /\ avail' = 0
       \/ /\ qmax = 0 \/ ~pagesOk
          /\ phase' = "panic"
          /\ UNCHANGED <<num, count, free, used, shadow, avail>>
    /\ UNCHANGED <<desc, ring, pc, chain, req, buf, status, answer, dev>>

DriverOk ==
    /\ phase = "queued"
    /\ phase' = "ready"
    /\ UNCHANGED <<num, free, count, desc, ring, avail, used, shadow, pc, chain, req, buf,
                   status, answer, dev>>

-----------------------------------------------------------------------------
(* rw.                                                                     *)

\* The three pop_free: the top of the stack first.
Popped(i) == IF count > i THEN free[count - 1 - i] ELSE NoDesc

\* A length that is no multiple of a sector, or zero: an error at once.
RwBadLength ==
    /\ phase = "ready" /\ pc = "idle"
    /\ answer' = NoAnswer
    /\ UNCHANGED <<phase, num, free, count, desc, ring, avail, used, shadow, pc, chain, req,
                   buf, status, dev>>

\* rw with too few descriptors: those it popped are gone.
RwNoDescriptors ==
    /\ phase = "ready" /\ pc = "idle" /\ count < 3
    /\ count' = 0
    /\ answer' = NoAnswer
    /\ UNCHANGED <<phase, num, free, desc, ring, avail, used, shadow, pc, chain, req, buf,
                   status, dev>>

\* A VERIFY of kernel_virtual_to_physical_address fails for the header, the
\* buffer or the status byte (KernelMemory says when), and the kernel stops.
RwPanics ==
    /\ phase = "ready" /\ pc = "idle" /\ count >= 3
    /\ count' = count - 3
    /\ phase' = "panic"
    /\ UNCHANGED <<num, free, desc, ring, avail, used, shadow, pc, chain, req, buf, status,
                   answer, dev>>

\* The buffers of a caller: to be read into, or holding what is written.
Buffer(h, t, b, s) == [head |-> h, tail |-> t, beyond |-> b, split |-> s]
ReadBuffers ==
    {NoBuffer} \cup {Buffer("none", "none", b, TRUE) : b \in Values}
WriteBuffers ==
    {Buffer(h, t, b, s) : h, t, b \in Values, s \in BOOLEAN}

RwBegin(op, lba, b) ==
    /\ phase = "ready" /\ pc = "idle" /\ count >= 3
    /\ chain' = <<Popped(0), Popped(1), Popped(2)>>
    /\ count' = count - 3
    /\ req' = [op |-> op, lba |-> lba]
    /\ buf' = b
    /\ status' = 255
    /\ answer' = NoAnswer
    /\ pc' = "begun"
    /\ UNCHANGED <<phase, num, free, desc, ring, avail, used, shadow, dev>>

\* The descriptor of the data holds the address of the buffer's first byte and
\* the length of all of it.
RwDescriptors ==
    /\ pc = "begun"
    /\ desc' = [desc EXCEPT ![chain[1]] = [to |-> "header", next |-> chain[2]],
                            ![chain[2]] = [to |-> "data", next |-> chain[3]],
                            ![chain[3]] = [to |-> "status", next |-> 0]]
    /\ pc' = "filled"
    /\ UNCHANGED <<phase, num, free, count, ring, avail, used, shadow, chain, req, buf,
                   status, answer, dev>>

RwRing ==
    /\ pc = "filled"
    /\ ring' = [ring EXCEPT ![avail % num] = chain[1]]
    /\ pc' = "ringed"
    /\ UNCHANGED <<phase, num, free, count, desc, avail, used, shadow, chain, req, buf,
                   status, answer, dev>>

RwIndex ==
    /\ pc = "ringed"
    /\ avail' = (avail + 1) % IdxMod
    /\ pc' = "published"
    /\ UNCHANGED <<phase, num, free, count, desc, ring, used, shadow, chain, req, buf,
                   status, answer, dev>>

\* Mutant: the device is not told.
RwNotifySilent ==
    /\ pc = "published"
    /\ pc' = "polling"
    /\ UNCHANGED <<phase, num, free, count, desc, ring, avail, used, shadow, chain, req, buf,
                   status, answer, dev>>

RwNotify ==
    /\ pc = "published"
    /\ dev' = [dev EXCEPT !.kicked = TRUE]
    /\ pc' = "polling"
    /\ UNCHANGED <<phase, num, free, count, desc, ring, avail, used, shadow, chain, req, buf,
                   status, answer>>

\* Mutant: the loop does not wait.
CompletedAtOnce == TRUE

\* The loop ends when the used index has left the shadow.
Completed == used # shadow

\* Mutant: d0 is given back three times.
PushedFirst ==
    [free EXCEPT ![count] = chain[1], ![count + 1] = chain[1], ![count + 2] = chain[1]]

\* push_free of d0, d1, d2.
Pushed ==
    [free EXCEPT ![count] = chain[1], ![count + 1] = chain[2], ![count + 2] = chain[3]]

\* Mutant: the status byte is not looked at.
AnswerAlways ==
    [ok |-> TRUE,
     data |-> IF req.op = "read" THEN [head |-> buf.head, tail |-> buf.tail] ELSE NoData]

\* The data of a read are what the caller finds in its buffer.
Answer ==
    IF status = 0
    THEN [ok |-> TRUE,
          data |-> IF req.op = "read" THEN [head |-> buf.head, tail |-> buf.tail] ELSE NoData]
    ELSE NoAnswer

RwReturn ==
    /\ pc = "polling" /\ Completed
    /\ shadow' = (shadow + 1) % IdxMod
    /\ free' = Pushed
    /\ count' = count + 3
    /\ answer' = Answer
    /\ pc' = "idle" /\ req' = NoReq
    /\ UNCHANGED <<phase, num, desc, ring, avail, used, chain, buf, status, dev>>

-----------------------------------------------------------------------------
(* The device (external).                                                  *)

\* It reads the head from the ring and follows the chain to the header.
DevFetch ==
    /\ phase = "ready" /\ dev.pc = "idle" /\ dev.seen # avail
    /\ LET d0 == ring[dev.seen % num]
           d1 == desc[d0].next
           d2 == desc[d1].next
           sound == desc[d0].to = "header" /\ desc[d1].to = "data" /\ desc[d2].to = "status"
       IN  dev' = [dev EXCEPT !.pc = IF sound THEN "fetched" ELSE "broken",
                              !.req = req, !.kicked = FALSE]
    /\ UNCHANGED <<drv, used, buf, status>>

\* A notification that comes when the request has been served already.
DevNothingToDo ==
    /\ dev.pc = "idle" /\ dev.kicked /\ dev.seen = avail
    /\ dev' = [dev EXCEPT !.kicked = FALSE]
    /\ UNCHANGED <<drv, used, buf, status>>

\* The memory that the descriptor names, as a sector, and after it was filled.
Named == [head |-> buf.head, tail |-> IF buf.split THEN buf.beyond ELSE buf.tail]
Filled(s) ==
    IF buf.split THEN [buf EXCEPT !.head = s.head, !.beyond = s.tail]
    ELSE [buf EXCEPT !.head = s.head, !.tail = s.tail]

DevTransfer ==
    /\ dev.pc = "fetched" /\ dev.req.lba \notin Bad
    /\ dev' = [dev EXCEPT !.pc = "moved", !.err = FALSE,
                          !.disk = IF dev.req.op = "write"
                                   THEN [@ EXCEPT ![dev.req.lba] = Named] ELSE @]
    /\ buf' = IF dev.req.op = "read" THEN Filled(disk[dev.req.lba]) ELSE buf
    /\ UNCHANGED <<drv, used, status>>

DevError ==
    /\ dev.pc = "fetched"
    /\ dev' = [dev EXCEPT !.pc = "moved", !.err = TRUE]
    /\ UNCHANGED <<drv, used, buf, status>>

DevStatus ==
    /\ dev.pc = "moved"
    /\ status' = IF dev.err THEN 1 ELSE 0
    /\ dev' = [dev EXCEPT !.pc = "answered"]
    /\ UNCHANGED <<drv, used, buf>>

DevUsed ==
    /\ dev.pc = "answered"
    /\ used' = (used + 1) % IdxMod
    /\ dev' = [dev EXCEPT !.pc = "idle", !.seen = (@ + 1) % IdxMod, !.req = NoReq]
    /\ UNCHANGED <<drv, buf, status>>

Halted == phase = "panic" /\ UNCHANGED vars

-----------------------------------------------------------------------------
Rw ==
    \/ RwBadLength \/ RwNoDescriptors \/ RwPanics
    \/ \E lba \in Lbas, b \in ReadBuffers : RwBegin("read", lba, b)
    \/ \E lba \in Lbas, b \in WriteBuffers : RwBegin("write", lba, b)
    \/ RwDescriptors \/ RwRing \/ RwIndex \/ RwNotify \/ RwReturn

Device == DevFetch \/ DevNothingToDo \/ DevTransfer \/ DevError \/ DevStatus \/ DevUsed

Next ==
    \/ Negotiate
    \/ \E q \in QueueSizes, ok \in BOOLEAN : SetupQueue0(q, ok)
    \/ DriverOk
    \/ Rw \/ Device \/ Halted

\* The processor goes on with a call it has begun; the device finishes what it
\* has fetched and fetches once it is notified.
Fairness ==
    /\ WF_vars(RwDescriptors \/ RwRing \/ RwIndex \/ RwNotify \/ RwReturn)
    /\ WF_vars(DevTransfer \/ DevError \/ DevStatus \/ DevUsed)
    /\ WF_vars(dev.kicked /\ DevFetch)

Spec == Init /\ [][Next]_vars /\ Fairness

-----------------------------------------------------------------------------
(* Properties.                                                             *)

Indices == 0 .. IdxMod - 1

TypeOK ==
    /\ phase \in {"off", "negotiated", "queued", "ready", "panic"}
    /\ num \in QueueSizes \cup {0} /\ count \in 0 .. num
    /\ free \in [Ids -> Ids] /\ ring \in [Ids -> Ids]
    /\ desc \in [Ids -> [to : {"none", "header", "data", "status"}, next : Ids]]
    /\ avail \in Indices /\ used \in Indices /\ shadow \in Indices
    /\ pc \in {"idle", "begun", "filled", "ringed", "published", "polling"}
    /\ status \in {0, 1, 255}
    /\ buf \in [head : Values \cup {"none"}, tail : Values \cup {"none"},
                beyond : Values \cup {"none"}, split : BOOLEAN]
    /\ dev.pc \in {"idle", "fetched", "moved", "answered", "broken"}
    /\ dev.seen \in Indices /\ dev.disk \in [Lbas -> Sectors]

Stack == {free[i] : i \in 0 .. count - 1}
InChain == IF pc = "idle" THEN {} ELSE {chain[1], chain[2], chain[3]}

\* A descriptor is on the free stack, once, or in the chain of the running
\* call, never both; none is lost when the queue has room for a request.
DescriptorsConserved ==
    /\ Cardinality(Stack) = count
    /\ pc # "idle" => Cardinality(InChain) = 3
    /\ Stack \cap InChain = {}
    /\ (num >= 3 /\ phase = "ready") => Stack \cup InChain = 0 .. num - 1

\* When rw has returned, the device is through with its header, buffer and
\* status byte: nothing is written into the stack frame of a finished call.
NoLateDma == pc = "idle" => dev.pc = "idle" /\ dev.seen = avail /\ used = shadow

\* The device never meets a chain that is not complete.
ChainWhole == dev.pc # "broken"

\* Together: whatever order the two sides take, indices, descriptors and chains
\* of the ring are sound.
RingSound == TypeOK /\ DescriptorsConserved /\ ChainWhole

\* Every call that has begun returns.
RwReturns == (pc # "idle") ~> (pc = "idle")

Block == INSTANCE BlockDevice WITH
    store <- disk,
    call <- IF pc = "idle" THEN [op |-> "none"]
            ELSE IF req.op = "read" THEN [op |-> "read", lba |-> req.lba, whole |-> ~buf.split]
            ELSE [op |-> "write", lba |-> req.lba, whole |-> ~buf.split,
                  val |-> [head |-> buf.head, tail |-> buf.tail]],
    effect <- IF pc = "idle" THEN "pending"
              ELSE IF dev.pc \in {"moved", "answered"} \/ used # shadow
              THEN (IF dev.err THEN "failed" ELSE "done") ELSE "pending",
    answer <- answer

\* The driver and the device together are a block device: every call takes
\* effect at most once, before it returns; a read answers what the sector
\* holds, and a write leaves there what the buffer held.  Of a buffer that is
\* not in adjacent frames that is so for the part in its first frame only.
ImplementsBlockDevice == Block!Spec
=============================================================================
