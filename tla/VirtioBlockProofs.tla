------------------------- MODULE VirtioBlockProofs -------------------------
(***************************************************************************)
(* Proofs about VirtioBlock, for every queue size, index width, set of     *)
(* sectors and contents.                                                   *)
(*                                                                         *)
(* The driver and the device share the ring without a lock.  What orders   *)
(* them is the pair of indices: the device works only while avail is one   *)
(* ahead of used, and that is while rw is between its write of the index   *)
(* and its return.  Turns states it; the rest of the invariant says what   *)
(* the side whose turn it is finds.                                        *)
(***************************************************************************)
EXTENDS VirtioBlock, FiniteSetTheorems, TLAPS

Requests == {NoReq} \cup [op : {"read", "write"}, lba : Lbas]

Devices ==
    [pc : {"idle", "fetched", "moved", "answered"}, seen : Indices, kicked : BOOLEAN,
     req : Requests, err : BOOLEAN, disk : [Lbas -> Sectors]]

Buffers ==
    [head : Values \cup {"none"}, tail : Values \cup {"none"},
     beyond : Values \cup {"none"}, split : BOOLEAN]

Descs == [to : {"none", "header", "data", "status"}, next : Ids]

Types ==
    /\ phase \in {"off", "negotiated", "queued", "ready", "panic"}
    /\ num \in QueueSizes \cup {0} /\ count \in 0 .. num
    /\ free \in [Ids -> Ids] /\ ring \in [Ids -> Ids] /\ desc \in [Ids -> Descs]
    /\ avail \in Indices /\ used \in Indices /\ shadow \in Indices
    /\ pc \in {"idle", "begun", "filled", "ringed", "published", "polling"}
    /\ status \in {0, 1, 255} /\ buf \in Buffers
    /\ dev \in Devices

\* Until setup_queue0 has run there is no queue, and until DRIVER_OK no call.
Booting ==
    /\ phase # "ready" => pc = "idle"
    /\ phase \notin {"ready", "panic"} => avail = 0 /\ shadow = 0
    /\ phase \in {"off", "negotiated"} => num = 0
    /\ phase \in {"queued", "ready"} => num > 0

\* The free stack and the chain of the running call share out the descriptors.
Shares ==
    /\ \A i \in 0 .. count - 1 : free[i] \in 0 .. num - 1
    /\ \A i, j \in 0 .. count - 1 : free[i] = free[j] => i = j
    /\ phase \in {"queued", "ready"} /\ num >= 3 =>
            count = IF pc = "idle" THEN num ELSE num - 3
    /\ pc # "idle" =>
            /\ num >= 3
            /\ \A k \in 1 .. 3 : chain[k] \in 0 .. num - 1
            /\ chain[1] # chain[2] /\ chain[1] # chain[3] /\ chain[2] # chain[3]
            /\ \A k \in 1 .. 3, i \in 0 .. count - 1 : chain[k] # free[i]

Covered ==
    num >= 3 /\ phase \in {"queued", "ready"} =>
        \A d \in 0 .. num - 1 : d \in Stack \/ d \in InChain

Busy == {"fetched", "moved", "answered"}
Posted == {"published", "polling"}

\* Whose turn it is.
Turns ==
    /\ dev.seen = used
    /\ pc \in Posted => avail = (shadow + 1) % IdxMod /\ (used = shadow \/ used = avail)
    /\ pc \notin Posted => avail = shadow /\ used = shadow
    /\ dev.pc # "idle" => dev.pc \in Busy /\ pc \in Posted /\ used = shadow /\ dev.req = req

\* The chain, once written, stays as it is until the call returns.
Chained ==
    /\ pc \in {"filled", "ringed", "published", "polling"} =>
            /\ desc[chain[1]] = [to |-> "header", next |-> chain[2]]
            /\ desc[chain[2]] = [to |-> "data", next |-> chain[3]]
            /\ desc[chain[3]] = [to |-> "status", next |-> 0]
    /\ pc \in {"ringed", "published", "polling"} => ring[shadow % num] = chain[1]

\* The device has moved the data of the running call.
Moved == dev.pc \in {"moved", "answered"} \/ used # shadow

\* What the caller's stack frame holds.
Data ==
    /\ pc # "idle" =>
            /\ req \in [op : {"read", "write"}, lba : Lbas]
            /\ req.op = "write" => Named \in Sectors /\ buf.tail \in Values
            /\ Moved /\ ~dev.err /\ req.op = "read" =>
                   /\ buf.head = dev.disk[req.lba].head
                   /\ ~buf.split => buf.tail = dev.disk[req.lba].tail
            /\ dev.pc = "answered" \/ used # shadow => status = IF dev.err THEN 1 ELSE 0

IInv == Types /\ Booting /\ Shares /\ Covered /\ Turns /\ Chained /\ Data
-----------------------------------------------------------------------------
(* Arithmetic of the indices.                                              *)

\* The slot of an index lies in the ring.
LEMMA Slot ==
    ASSUME NEW n \in QueueSizes, n > 0, NEW i \in Indices
    PROVE  i % n \in Ids
<1>1. n \in Nat /\ n <= IdxMod /\ IdxMod \in Nat /\ i \in Nat
  BY QueueAssumption DEF Indices
<1>2. i % n \in 0 .. n - 1
  BY <1>1
<1>3. QED BY <1>1, <1>2 DEF Ids

\* uint16_t wraps, and an index differs from its successor.
LEMMA Successor ==
    ASSUME NEW i \in Indices
    PROVE  (i + 1) % IdxMod \in Indices /\ (IdxMod > 1 => (i + 1) % IdxMod # i)
<1>1. IdxMod \in Nat \ {0} /\ i \in Nat /\ i + 1 <= IdxMod
  BY QueueAssumption DEF Indices
<1>2. (i + 1) % IdxMod = IF i + 1 = IdxMod THEN 0 ELSE i + 1
  <2>1. CASE i + 1 = IdxMod
    BY <1>1, <2>1, Z3
  <2>2. CASE i + 1 < IdxMod
    BY <1>1, <2>2, Z3
  <2>3. QED BY <1>1, <2>1, <2>2
<1>3. QED BY <1>1, <1>2 DEF Indices

\* A queue is no longer than its indices count.
LEMMA NumType == ASSUME Types PROVE num \in Nat /\ num <= IdxMod /\ count \in Nat /\ count <= num
BY QueueAssumption DEF Types

-----------------------------------------------------------------------------
(* The steps of init.                                                      *)

\* Nothing is set up when the kernel starts.
LEMMA Initial == Init => IInv
<1> SUFFICES ASSUME Init PROVE IInv
  OBVIOUS
<1>0. 0 \in Indices /\ 0 \in Ids /\ IdxMod \in Nat
  BY QueueAssumption DEF Indices, Ids
<1>1. Types
  <2>1. dev \in Devices
    <3>1. PICK s \in [Lbas -> Sectors] :
              dev = [pc |-> "idle", seen |-> 0, kicked |-> FALSE, req |-> NoReq,
                     err |-> FALSE, disk |-> s]
      BY DEF Init
    <3>2. QED BY <1>0, <3>1 DEF Devices, Requests
  <2>2. free \in [Ids -> Ids] /\ ring \in [Ids -> Ids] /\ desc \in [Ids -> Descs]
    BY <1>0 DEF Init, Descs, Blank
  <2>3. buf \in Buffers
    BY DEF Init, NoBuffer, Buffers
  <2>4. QED BY <1>0, <2>1, <2>2, <2>3 DEF Init, Types
<1>2. Booting /\ Shares
  BY DEF Init, Booting, Shares
<1>3. Covered
  BY DEF Init, Covered
<1>4. Turns /\ Chained /\ Data
  BY DEF Init, Turns, Chained, Data, Posted
<1>5. QED BY <1>1, <1>2, <1>3, <1>4 DEF IInv

\* initialise negotiates features, or gives up.
LEMMA NegotiateStep == IInv /\ Negotiate => IInv'
<1> SUFFICES ASSUME IInv, Negotiate PROVE IInv'
  OBVIOUS
<1>1. Types' /\ Booting' /\ Shares'
  BY DEF IInv, Types, Booting, Shares, Negotiate
<1>2. Covered'
  BY <1>1 DEF IInv, Booting, Covered, Negotiate
<1>3. Turns' /\ Chained' /\ Data'
  BY DEF IInv, Turns, Chained, Data, Moved, Named, Negotiate
<1>4. QED BY <1>1, <1>2, <1>3 DEF IInv

\* setup_queue0 fills the stack with every descriptor once.
LEMMA SetupStep ==
    ASSUME IInv, NEW q \in QueueSizes, NEW ok \in BOOLEAN, SetupQueue0(q, ok)
    PROVE  IInv'
<1>0. q \in Nat /\ q <= IdxMod /\ IdxMod \in Nat \ {0}
  BY QueueAssumption
<1>1. CASE q > 0 /\ ok
  <2>1. /\ phase' = "queued" /\ num' = q /\ count' = q
        /\ free' = [i \in Ids |-> IF i < q THEN q - 1 - i ELSE 0]
        /\ used' = 0 /\ shadow' = 0 /\ avail' = 0
        /\ UNCHANGED <<desc, ring, pc, chain, req, buf, status, answer, dev>>
    BY <1>1 DEF SetupQueue0
  <2>2. \A i \in 0 .. q - 1 : i \in Ids /\ free'[i] = q - 1 - i
    BY <1>0, <2>1 DEF Ids
  <2>3. free' \in [Ids -> Ids]
    BY <1>0, <2>1 DEF Ids
  <2>4. 0 \in Indices
    BY <1>0 DEF Indices
  <2>5. Types'
    BY <1>0, <2>1, <2>3, <2>4 DEF IInv, Types
  <2>6. phase = "negotiated" /\ pc = "idle" /\ used = 0 /\ dev.seen = 0 /\ dev.pc = "idle"
    BY DEF SetupQueue0, IInv, Booting, Turns, Posted
  <2>7. Booting' /\ Turns' /\ Chained' /\ Data'
    BY <1>1, <2>1, <2>6 DEF Booting, Turns, Chained, Data, Posted
  <2>8. Shares'
    BY <1>0, <2>1, <2>2, <2>6 DEF Shares
  <2>9. Covered'
    <3> SUFFICES ASSUME NEW d \in 0 .. q - 1 PROVE d \in Stack'
      BY <2>1 DEF Covered
    <3>1. q - 1 - d \in 0 .. q - 1 /\ free'[q - 1 - d] = d
      BY <1>0, <2>2
    <3>2. QED BY <2>1, <3>1 DEF Stack
  <2>10. QED BY <2>5, <2>7, <2>8, <2>9 DEF IInv
<1>2. CASE q = 0 \/ ~ok
  <2>1. /\ phase = "negotiated" /\ phase' = "panic"
        /\ UNCHANGED <<num, count, free, used, shadow, avail, desc, ring, pc, chain, req, buf,
                       status, answer, dev>>
    BY <1>0, <1>2 DEF SetupQueue0
  <2>2. Types' /\ Booting' /\ Shares'
    BY <2>1 DEF IInv, Types, Booting, Shares
  <2>3. Covered'
    BY <2>1 DEF Covered
  <2>4. Turns' /\ Chained' /\ Data'
    BY <2>1 DEF IInv, Turns, Chained, Data, Moved, Named
  <2>5. QED BY <2>2, <2>3, <2>4 DEF IInv
<1>3. QED BY <1>0, <1>1, <1>2

\* It sets DRIVER_OK: the device may look at the ring from now on.
LEMMA DriverOkStep == IInv /\ DriverOk => IInv'
<1> SUFFICES ASSUME IInv, DriverOk PROVE IInv'
  OBVIOUS
<1>1. Types' /\ Booting' /\ Shares'
  BY DEF IInv, Types, Booting, Shares, DriverOk
<1>2. Covered'
  BY DEF IInv, Covered, Stack, InChain, DriverOk
<1>3. Turns' /\ Chained' /\ Data'
  BY DEF IInv, Turns, Chained, Data, Moved, Named, DriverOk
<1>4. QED BY <1>1, <1>2, <1>3 DEF IInv

-----------------------------------------------------------------------------
(* The steps of rw.                                                        *)

\* An idle queue with room for a request has all its descriptors, so only a
\* queue that is too short loses the ones it pops in vain.
LEMMA RefusedStep == IInv /\ (RwBadLength \/ RwNoDescriptors) => IInv'
<1> SUFFICES ASSUME IInv, RwBadLength \/ RwNoDescriptors PROVE IInv'
  OBVIOUS
<1>0. num \in Nat /\ count \in Nat
  BY NumType DEF IInv
<1>1. /\ pc = "idle" /\ phase = "ready"
      /\ count' = count \/ (count' = 0 /\ num < 3)
      /\ UNCHANGED <<phase, num, free, desc, ring, avail, used, shadow, pc, chain, req, buf,
                     status, dev>>
  BY <1>0 DEF RwBadLength, RwNoDescriptors, IInv, Shares
<1>2. Types' /\ Booting' /\ Shares'
  BY <1>0, <1>1 DEF IInv, Types, Booting, Shares
<1>3. Covered'
  BY <1>0, <1>1 DEF IInv, Covered, Stack, InChain
<1>4. Turns' /\ Chained' /\ Data'
  BY <1>1 DEF IInv, Turns, Chained, Data, Moved, Named
<1>5. QED BY <1>2, <1>3, <1>4 DEF IInv

\* A kernel that stops in the middle of rw has lost three descriptors and
\* nothing else.
LEMMA PanicStep == IInv /\ RwPanics => IInv'
<1> SUFFICES ASSUME IInv, RwPanics PROVE IInv'
  OBVIOUS
<1>0. num \in Nat /\ count \in Nat /\ count <= num
  BY NumType DEF IInv
<1>1. /\ pc = "idle" /\ phase' = "panic" /\ count >= 3 /\ count' = count - 3
      /\ UNCHANGED <<num, free, desc, ring, avail, used, shadow, pc, chain, req, buf,
                     status, dev>>
  BY DEF RwPanics
<1>2. Types' /\ Booting'
  BY <1>0, <1>1 DEF IInv, Types, Booting
<1>3. Shares' /\ Covered'
  BY <1>0, <1>1 DEF IInv, Shares, Covered
<1>4. Turns' /\ Chained' /\ Data'
  BY <1>1 DEF IInv, Turns, Chained, Data
<1>5. QED BY <1>2, <1>3, <1>4 DEF IInv

\* What rw is given: a buffer of its caller, for a write with data in it.
Given(op, b) ==
    b \in Buffers /\ (op = "write" => b.head \in Values /\ b.tail \in Values /\ b.beyond \in Values)

LEMMA Callers ==
    /\ \A b \in ReadBuffers : Given("read", b)
    /\ \A b \in WriteBuffers : Given("write", b)
<1>1. ASSUME NEW b \in ReadBuffers PROVE Given("read", b)
  <2>1. CASE b = NoBuffer
    BY <2>1 DEF Given, Buffers, NoBuffer
  <2>2. ASSUME NEW v \in Values, b = Buffer("none", "none", v, TRUE) PROVE Given("read", b)
    BY <2>2 DEF Given, Buffers, Buffer
  <2>3. QED BY <2>1, <2>2 DEF ReadBuffers
<1>2. ASSUME NEW b \in WriteBuffers PROVE Given("write", b)
  BY DEF WriteBuffers, Given, Buffers, Buffer
<1>3. QED BY <1>1, <1>2

\* The three descriptors leave the top of the stack for the chain.
LEMMA BeginStep ==
    ASSUME IInv, NEW op \in {"read", "write"}, NEW lba \in Lbas, NEW v,
           Given(op, v), RwBegin(op, lba, v)
    PROVE  IInv'
<1>0. num \in Nat /\ num <= IdxMod /\ count \in Nat /\ count <= num /\ count >= 3 /\ num >= 3
  BY NumType DEF IInv, RwBegin
<1>1. chain' = <<free[count - 1], free[count - 2], free[count - 3]>>
  BY <1>0 DEF RwBegin, Popped
<1>2. /\ phase = "ready" /\ pc = "idle" /\ pc' = "begun" /\ count' = count - 3
      /\ req' = [op |-> op, lba |-> lba] /\ buf' = v /\ status' = 255
      /\ UNCHANGED <<phase, num, free, desc, ring, avail, used, shadow, dev>>
  BY DEF RwBegin
<1>3. Types'
  BY <1>0, <1>2 DEF IInv, Types, Given
<1>4. Booting'
  BY <1>2 DEF IInv, Booting
<1>5. Shares'
  <2>1. /\ \A i \in 0 .. count - 1 : free[i] \in 0 .. num - 1
        /\ \A i, j \in 0 .. count - 1 : free[i] = free[j] => i = j
        /\ count = num
    BY <1>0, <1>2 DEF IInv, Shares
  <2>2. \A k \in 1 .. 3 : chain'[k] = free[count - k] /\ count - k \in 0 .. count - 1
    BY <1>0, <1>1
  <2>3. \A k \in 1 .. 3 : chain'[k] \in 0 .. num - 1
    BY <2>1, <2>2
  <2>4. chain'[1] # chain'[2] /\ chain'[1] # chain'[3] /\ chain'[2] # chain'[3]
    BY <1>0, <2>1, <2>2
  <2>5. \A k \in 1 .. 3, i \in 0 .. count - 4 : chain'[k] # free[i]
    BY <1>0, <2>1, <2>2
  <2>6. QED BY <1>0, <1>2, <2>1, <2>3, <2>4, <2>5 DEF Shares
<1>6. Covered'
  <2> SUFFICES ASSUME NEW d \in 0 .. num - 1 PROVE d \in Stack' \/ d \in InChain'
    BY <1>2 DEF Covered
  <2>1. PICK i \in 0 .. count - 1 : d = free[i]
    BY <1>0, <1>2 DEF IInv, Covered, Stack, InChain
  <2>2. i \in 0 .. count - 4 \/ i = count - 1 \/ i = count - 2 \/ i = count - 3
    BY <1>0
  <2>3. QED BY <1>0, <1>1, <1>2, <2>1, <2>2 DEF Stack, InChain
<1>7. Turns' /\ Chained'
  BY <1>2 DEF IInv, Turns, Chained, Posted
<1>8. Data'
  <2>1. dev.pc = "idle" /\ used = shadow
    BY <1>2 DEF IInv, Turns, Posted
  <2>2. op = "write" => Named' \in Sectors /\ buf'.tail \in Values
    BY <1>2 DEF Given, Named, Sectors, Buffers
  <2>3. QED BY <1>2, <2>1, <2>2 DEF Data, Moved, Named
<1>9. QED BY <1>3, <1>4, <1>5, <1>6, <1>7, <1>8 DEF IInv

\* A running call has a queue with room for it.
LEMMA Running ==
    ASSUME IInv, pc # "idle"
    PROVE  /\ phase = "ready" /\ num \in QueueSizes /\ num >= 3 /\ num <= IdxMod /\ IdxMod > 1
           /\ \A k \in 1 .. 3 : chain[k] \in Ids
<1>1. num \in Nat /\ num <= IdxMod /\ IdxMod \in Nat
  BY NumType, QueueAssumption DEF IInv
<1>2. num >= 3 /\ phase = "ready" /\ \A k \in 1 .. 3 : chain[k] \in 0 .. num - 1
  BY DEF IInv, Shares, Booting
<1>3. num \in QueueSizes
  BY <1>2 DEF IInv, Types
<1>4. \A d \in 0 .. num - 1 : d \in Ids
  BY <1>1 DEF Ids
<1>5. QED BY <1>1, <1>2, <1>3, <1>4

\* read or write fills the three descriptors of a chain.
LEMMA DescriptorsStep == IInv /\ RwDescriptors => IInv'
<1> SUFFICES ASSUME IInv, RwDescriptors PROVE IInv'
  OBVIOUS
<1>0. /\ pc = "begun" /\ pc' = "filled"
      /\ UNCHANGED <<phase, num, free, count, ring, avail, used, shadow, chain, req, buf,
                     status, answer, dev>>
  BY DEF RwDescriptors
<1>1. chain[1] \in Ids /\ chain[2] \in Ids /\ chain[3] \in Ids /\ 0 \in Ids
  BY <1>0, Running, QueueAssumption DEF Ids
<1>2. chain[1] # chain[2] /\ chain[1] # chain[3] /\ chain[2] # chain[3]
  BY <1>0 DEF IInv, Shares
<1>3. desc \in [Ids -> Descs]
  BY DEF IInv, Types
<1>4. /\ desc' \in [Ids -> Descs]
      /\ desc'[chain[1]] = [to |-> "header", next |-> chain[2]]
      /\ desc'[chain[2]] = [to |-> "data", next |-> chain[3]]
      /\ desc'[chain[3]] = [to |-> "status", next |-> 0]
  BY <1>1, <1>2, <1>3 DEF RwDescriptors, Descs
<1>5. Types' /\ Booting' /\ Shares'
  BY <1>0, <1>4 DEF IInv, Types, Booting, Shares
<1>6. Covered'
  BY <1>0 DEF IInv, Covered, Stack, InChain
<1>7. Turns' /\ Data'
  BY <1>0 DEF IInv, Turns, Data, Moved, Named, Posted
<1>8. Chained'
  BY <1>0, <1>4 DEF Chained
<1>9. QED BY <1>5, <1>6, <1>7, <1>8 DEF IInv

\* The head of the chain goes into the available ring.
LEMMA RingStep == IInv /\ RwRing => IInv'
<1> SUFFICES ASSUME IInv, RwRing PROVE IInv'
  OBVIOUS
<1>0. /\ pc = "filled" /\ pc' = "ringed" /\ ring' = [ring EXCEPT ![avail % num] = chain[1]]
      /\ UNCHANGED <<phase, num, free, count, desc, avail, used, shadow, chain, req, buf,
                     status, answer, dev>>
  BY DEF RwRing
<1>1. chain[1] \in Ids /\ avail % num \in Ids /\ avail = shadow
  <2>1. num \in QueueSizes /\ num > 0 /\ chain[1] \in Ids
    BY <1>0, Running, NumType DEF IInv
  <2>2. avail \in Indices /\ avail = shadow
    BY <1>0 DEF IInv, Types, Turns, Posted
  <2>3. QED BY <2>1, <2>2, Slot
<1>2. ring' \in [Ids -> Ids] /\ ring'[shadow % num] = chain[1]
  BY <1>0, <1>1 DEF IInv, Types
<1>3. Types' /\ Booting' /\ Shares'
  BY <1>0, <1>2 DEF IInv, Types, Booting, Shares
<1>4. Covered'
  BY <1>0 DEF IInv, Covered, Stack, InChain
<1>5. Turns' /\ Data'
  BY <1>0 DEF IInv, Turns, Data, Moved, Named, Posted
<1>6. Chained'
  BY <1>0, <1>2 DEF IInv, Chained
<1>7. QED BY <1>3, <1>4, <1>5, <1>6 DEF IInv

\* From here on it is the device's turn.
LEMMA IndexStep == IInv /\ RwIndex => IInv'
<1> SUFFICES ASSUME IInv, RwIndex PROVE IInv'
  OBVIOUS
<1>0. /\ pc = "ringed" /\ pc' = "published" /\ avail' = (avail + 1) % IdxMod
      /\ UNCHANGED <<phase, num, free, count, desc, ring, used, shadow, chain, req, buf,
                     status, answer, dev>>
  BY DEF RwIndex
<1>1. avail' \in Indices
  BY <1>0, Successor DEF IInv, Types
<1>2. Types' /\ Shares'
  BY <1>0, <1>1 DEF IInv, Types, Shares
<1>3. Booting'
  BY <1>0, Running DEF IInv, Booting
<1>4. Covered'
  BY <1>0 DEF IInv, Covered, Stack, InChain
<1>5. Turns' /\ Data'
  BY <1>0 DEF IInv, Turns, Data, Moved, Named, Posted
<1>6. Chained'
  BY <1>0 DEF IInv, Chained
<1>7. QED BY <1>2, <1>3, <1>4, <1>5, <1>6 DEF IInv

\* The index is published and the device is notified.
LEMMA NotifyStep == IInv /\ RwNotify => IInv'
<1> SUFFICES ASSUME IInv, RwNotify PROVE IInv'
  OBVIOUS
<1>0. /\ pc = "published" /\ pc' = "polling" /\ dev' = [dev EXCEPT !.kicked = TRUE]
      /\ UNCHANGED <<phase, num, free, count, desc, ring, avail, used, shadow, chain, req, buf,
                     status, answer>>
  BY DEF RwNotify
<1>1. /\ dev' \in Devices /\ dev'.pc = dev.pc /\ dev'.seen = dev.seen /\ dev'.req = dev.req
      /\ dev'.err = dev.err /\ dev'.disk = dev.disk
  BY <1>0 DEF IInv, Types, Devices
<1>2. Types' /\ Booting' /\ Shares'
  BY <1>0, <1>1 DEF IInv, Types, Booting, Shares
<1>3. Covered'
  BY <1>0 DEF IInv, Covered, Stack, InChain
<1>4. Turns' /\ Data'
  BY <1>0, <1>1 DEF IInv, Turns, Data, Moved, Named, Posted
<1>5. Chained'
  BY <1>0 DEF IInv, Chained
<1>6. QED BY <1>2, <1>3, <1>4, <1>5 DEF IInv

\* The used index has moved on, so the device is through; the chain goes back
\* on the stack.
LEMMA ReturnStep == IInv /\ RwReturn => IInv'
<1> SUFFICES ASSUME IInv, RwReturn PROVE IInv'
  OBVIOUS
<1>0. /\ pc = "polling" /\ pc' = "idle" /\ shadow' = (shadow + 1) % IdxMod
      /\ free' = Pushed /\ count' = count + 3 /\ req' = NoReq
      /\ UNCHANGED <<phase, num, desc, ring, avail, used, chain, buf, status, dev>>
      /\ used # shadow
  BY DEF RwReturn, Completed
<1>1. num \in Nat /\ num <= IdxMod /\ num >= 3 /\ count = num - 3 /\ phase = "ready"
  BY <1>0, NumType, Running DEF IInv, Shares
<1>2. chain[1] \in Ids /\ chain[2] \in Ids /\ chain[3] \in Ids
  BY <1>0, Running
<1>3. count \in Ids /\ count + 1 \in Ids /\ count + 2 \in Ids /\ \A i \in 0 .. num - 1 : i \in Ids
  BY <1>1, QueueAssumption DEF Ids
<1>4. /\ free' \in [Ids -> Ids]
      /\ free'[count] = chain[1] /\ free'[count + 1] = chain[2] /\ free'[count + 2] = chain[3]
      /\ \A i \in 0 .. count - 1 : free'[i] = free[i]
  <2>1. free \in [Ids -> Ids] /\ free' =
            [free EXCEPT ![count] = chain[1], ![count + 1] = chain[2], ![count + 2] = chain[3]]
    BY <1>0 DEF IInv, Types, Pushed
  <2>2. \A i \in 0 .. count - 1 : i \in Ids /\ i # count /\ i # count + 1 /\ i # count + 2
    BY <1>1, <1>3
  <2>3. QED BY <1>1, <1>2, <1>3, <2>1, <2>2
<1>5. Types' /\ Booting'
  <2>1. shadow' \in Indices
    BY <1>0, Successor DEF IInv, Types
  <2>2. QED BY <1>0, <1>1, <1>4, <2>1 DEF IInv, Types, Booting
<1>6. Shares'
  <2>0. /\ \A i \in 0 .. count - 1 : free[i] \in 0 .. num - 1
        /\ \A i, j \in 0 .. count - 1 : free[i] = free[j] => i = j
        /\ chain[1] \in 0 .. num - 1 /\ chain[2] \in 0 .. num - 1 /\ chain[3] \in 0 .. num - 1
        /\ chain[1] # chain[2] /\ chain[1] # chain[3] /\ chain[2] # chain[3]
        /\ \A i \in 0 .. count - 1 : chain[1] # free[i] /\ chain[2] # free[i] /\ chain[3] # free[i]
    BY <1>0 DEF IInv, Shares
  <2>1. \A i \in 0 .. count + 2 :
            i \in 0 .. count - 1 \/ i = count \/ i = count + 1 \/ i = count + 2
    BY <1>1
  <2>2. \A i \in 0 .. count + 2 : free'[i] \in 0 .. num - 1
    BY <1>4, <2>0, <2>1
  <2>3. \A i, j \in 0 .. count + 2 : free'[i] = free'[j] => i = j
    BY <1>4, <2>0, <2>1
  <2>4. QED BY <1>0, <1>1, <2>2, <2>3 DEF Shares
<1>7. Covered'
  <2> SUFFICES ASSUME NEW d \in 0 .. num - 1 PROVE d \in Stack'
    BY <1>0 DEF Covered
  <2>1. Stack' = {free'[i] : i \in 0 .. count + 2}
    BY <1>0, <1>1 DEF Stack
  <2>2. d \in Stack \/ d = chain[1] \/ d = chain[2] \/ d = chain[3]
    BY <1>0, <1>1 DEF IInv, Covered, InChain
  <2>3. CASE d \in Stack
    <3>1. PICK i \in 0 .. count - 1 : d = free[i]
      BY <2>3 DEF Stack
    <3>2. i \in 0 .. count + 2 /\ free'[i] = d
      BY <1>1, <1>4, <3>1
    <3>3. QED BY <2>1, <3>2
  <2>4. count \in 0 .. count + 2 /\ count + 1 \in 0 .. count + 2 /\ count + 2 \in 0 .. count + 2
    BY <1>1
  <2>5. QED BY <1>4, <2>1, <2>2, <2>3, <2>4
<1>8. Turns'
  BY <1>0 DEF IInv, Turns, Posted
<1>9. Chained' /\ Data'
  BY <1>0 DEF Chained, Data
<1>10. QED BY <1>5, <1>6, <1>7, <1>8, <1>9 DEF IInv

-----------------------------------------------------------------------------
(* The steps of the device.                                                *)

\* The device sees a moved index only while rw waits, and then the chain is
\* whole.
LEMMA FetchStep == IInv /\ DevFetch => IInv'
<1> SUFFICES ASSUME IInv, DevFetch PROVE IInv'
  OBVIOUS
<1>0. phase = "ready" /\ dev.pc = "idle" /\ dev.seen # avail /\ UNCHANGED <<drv, used, buf, status>>
  BY DEF DevFetch
<1>1. pc \in Posted /\ used = shadow /\ dev.seen = shadow
  BY <1>0 DEF IInv, Turns
<1>2. /\ desc[chain[1]] = [to |-> "header", next |-> chain[2]]
      /\ desc[chain[2]] = [to |-> "data", next |-> chain[3]]
      /\ desc[chain[3]] = [to |-> "status", next |-> 0]
      /\ ring[shadow % num] = chain[1]
  BY <1>1 DEF IInv, Chained, Posted
<1>3. dev' = [dev EXCEPT !.pc = "fetched", !.req = req, !.kicked = FALSE]
  <2>1. /\ desc[chain[1]].next = chain[2] /\ desc[chain[2]].next = chain[3]
        /\ desc[chain[1]].to = "header" /\ desc[chain[2]].to = "data"
        /\ desc[chain[3]].to = "status" /\ ring[dev.seen % num] = chain[1]
    BY <1>1, <1>2
  <2> DEFINE sound(d) == /\ desc[d].to = "header" /\ desc[desc[d].next].to = "data"
                         /\ desc[desc[desc[d].next].next].to = "status"
  <2>2. sound(ring[dev.seen % num])
    BY <2>1
  <2>3. dev' = [dev EXCEPT !.pc = IF sound(ring[dev.seen % num]) THEN "fetched" ELSE "broken",
                           !.req = req, !.kicked = FALSE]
    BY DEF DevFetch
  <2> HIDE DEF sound
  <2>4. QED BY <2>2, <2>3
<1>4. req \in Requests
  BY <1>1 DEF IInv, Data, Requests, Posted
<1>5. /\ dev' \in Devices /\ dev'.pc = "fetched" /\ dev'.req = req
      /\ dev'.seen = dev.seen /\ dev'.err = dev.err /\ dev'.disk = dev.disk
  BY <1>3, <1>4 DEF IInv, Types, Devices
<1>6. Types' /\ Booting' /\ Shares'
  BY <1>0, <1>5 DEF drv, IInv, Types, Booting, Shares
<1>7. Covered'
  BY <1>0 DEF drv, IInv, Covered, Stack, InChain
<1>8. Turns'
  BY <1>0, <1>1, <1>5 DEF drv, IInv, Turns, Busy
<1>9. Chained' /\ Data'
  BY <1>0, <1>1, <1>5 DEF drv, IInv, Chained, Data, Moved, Named
<1>10. QED BY <1>6, <1>7, <1>8, <1>9 DEF IInv

\* The device finds the ring empty.
LEMMA NothingToDoStep == IInv /\ DevNothingToDo => IInv'
<1> SUFFICES ASSUME IInv, DevNothingToDo PROVE IInv'
  OBVIOUS
<1>0. UNCHANGED <<drv, used, buf, status>>
  BY DEF DevNothingToDo
<1>1. /\ dev' \in Devices /\ dev'.pc = dev.pc /\ dev'.seen = dev.seen /\ dev'.req = dev.req
      /\ dev'.err = dev.err /\ dev'.disk = dev.disk
  BY DEF DevNothingToDo, IInv, Types, Devices
<1>2. Types' /\ Booting' /\ Shares'
  BY <1>0, <1>1 DEF drv, IInv, Types, Booting, Shares
<1>3. Covered'
  BY <1>0 DEF drv, IInv, Covered, Stack, InChain
<1>4. Turns'
  BY <1>0, <1>1 DEF drv, IInv, Turns
<1>5. Chained' /\ Data'
  BY <1>0, <1>1 DEF drv, IInv, Chained, Data, Moved, Named
<1>6. QED BY <1>2, <1>3, <1>4, <1>5 DEF IInv

\* What a device that is at work knows of the call.
LEMMA Working ==
    ASSUME IInv, dev.pc # "idle"
    PROVE  /\ pc \in Posted /\ pc # "idle" /\ used = shadow /\ dev.req = req
           /\ req \in [op : {"read", "write"}, lba : Lbas]
BY DEF IInv, Turns, Data, Posted

\* The device moves the data of the request.
LEMMA TransferStep == IInv /\ DevTransfer => IInv'
<1> SUFFICES ASSUME IInv, DevTransfer PROVE IInv'
  OBVIOUS
<1>0. dev.pc = "fetched" /\ UNCHANGED <<drv, used, status>>
  BY DEF DevTransfer
<1>1. /\ pc \in Posted /\ pc # "idle" /\ used = shadow /\ dev.req = req
      /\ req \in [op : {"read", "write"}, lba : Lbas]
  BY <1>0, Working
<1>2. dev \in Devices /\ dev.disk \in [Lbas -> Sectors] /\ buf \in Buffers
  BY DEF IInv, Types, Devices
<1>3. CASE req.op = "read"
  <2>1. /\ dev' = [dev EXCEPT !.pc = "moved", !.err = FALSE, !.disk = dev.disk]
        /\ buf' = Filled(dev.disk[req.lba])
    BY <1>1, <1>3 DEF DevTransfer, disk
  <2>2. /\ dev' \in Devices /\ dev'.pc = "moved" /\ dev'.err = FALSE /\ dev'.disk = dev.disk
        /\ dev'.seen = dev.seen /\ dev'.req = dev.req
    BY <1>2, <2>1 DEF Devices
  <2>3. /\ buf' \in Buffers /\ buf'.head = dev.disk[req.lba].head
        /\ ~buf'.split => buf'.tail = dev.disk[req.lba].tail
    <3>1. dev.disk[req.lba] \in Sectors
      BY <1>1, <1>2
    <3>2. QED BY <1>2, <2>1, <3>1 DEF Filled, Buffers, Sectors
  <2>4. Types' /\ Booting' /\ Shares'
    BY <1>0, <2>2, <2>3 DEF drv, IInv, Types, Booting, Shares
  <2>5. Turns' /\ Data'
    BY <1>0, <1>1, <1>3, <2>2, <2>3 DEF drv, IInv, Turns, Data, Moved, Named, Busy
  <2>6. QED BY <1>0, <2>4, <2>5 DEF drv, IInv, Covered, Stack, InChain, Chained
<1>4. CASE req.op = "write"
  <2>1. buf' = buf /\ Named \in Sectors /\ Named' = Named /\ buf.tail \in Values
    BY <1>1, <1>4 DEF DevTransfer, IInv, Data, Named
  <2>2. dev' = [dev EXCEPT !.pc = "moved", !.err = FALSE,
                           !.disk = [dev.disk EXCEPT ![req.lba] = Named]]
    BY <1>1, <1>2, <1>4 DEF DevTransfer
  <2>3. [dev.disk EXCEPT ![req.lba] = Named] \in [Lbas -> Sectors]
    BY <1>2, <2>1
  <2>4. /\ dev' \in Devices /\ dev'.pc = "moved" /\ dev'.err = FALSE
        /\ dev'.seen = dev.seen /\ dev'.req = dev.req
    BY <1>2, <2>2, <2>3 DEF Devices
  <2>5. Types' /\ Booting' /\ Shares'
    BY <1>0, <2>1, <2>4 DEF drv, IInv, Types, Booting, Shares
  <2>6. Turns' /\ Data'
    BY <1>0, <1>1, <1>4, <2>1, <2>4 DEF drv, IInv, Turns, Data, Moved, Named, Busy
  <2>7. QED BY <1>0, <2>5, <2>6 DEF drv, IInv, Covered, Stack, InChain, Chained
<1>5. QED BY <1>1, <1>3, <1>4

\* The device fails the request.
LEMMA ErrorStep == IInv /\ DevError => IInv'
<1> SUFFICES ASSUME IInv, DevError PROVE IInv'
  OBVIOUS
<1>0. dev.pc = "fetched" /\ UNCHANGED <<drv, used, buf, status>>
  BY DEF DevError
<1>1. /\ dev' \in Devices /\ dev'.pc = "moved" /\ dev'.err = TRUE /\ dev'.disk = dev.disk
      /\ dev'.seen = dev.seen /\ dev'.req = dev.req
  BY DEF DevError, IInv, Types, Devices
<1>2. pc # "idle" /\ used = shadow
  BY <1>0, Working
<1>3. Types' /\ Booting' /\ Shares'
  BY <1>0, <1>1 DEF drv, IInv, Types, Booting, Shares
<1>4. Turns' /\ Data'
  BY <1>0, <1>1, <1>2 DEF drv, IInv, Turns, Data, Moved, Named, Busy
<1>5. QED BY <1>0, <1>3, <1>4 DEF drv, IInv, Covered, Stack, InChain, Chained

\* The device writes the status byte.
LEMMA StatusStep == IInv /\ DevStatus => IInv'
<1> SUFFICES ASSUME IInv, DevStatus PROVE IInv'
  OBVIOUS
<1>0. /\ dev.pc = "moved" /\ UNCHANGED <<drv, used, buf>>
      /\ status' = IF dev.err THEN 1 ELSE 0
  BY DEF DevStatus
<1>1. /\ dev' \in Devices /\ dev'.pc = "answered" /\ dev'.err = dev.err /\ dev'.disk = dev.disk
      /\ dev'.seen = dev.seen /\ dev'.req = dev.req
  BY DEF DevStatus, IInv, Types, Devices
<1>2. Types' /\ Booting' /\ Shares'
  BY <1>0, <1>1 DEF drv, IInv, Types, Booting, Shares
<1>3. Turns' /\ Data'
  BY <1>0, <1>1, Working DEF drv, IInv, Turns, Data, Moved, Named, Busy
<1>4. QED BY <1>0, <1>2, <1>3 DEF drv, IInv, Covered, Stack, InChain, Chained

\* The device gives the turn back.
LEMMA UsedStep == IInv /\ DevUsed => IInv'
<1> SUFFICES ASSUME IInv, DevUsed PROVE IInv'
  OBVIOUS
<1>0. /\ dev.pc = "answered" /\ UNCHANGED <<drv, buf, status>>
      /\ used' = (used + 1) % IdxMod
      /\ dev' = [dev EXCEPT !.pc = "idle", !.seen = (dev.seen + 1) % IdxMod, !.req = NoReq]
  BY DEF DevUsed, IInv, Types, Devices
<1>1. /\ pc \in Posted /\ pc # "idle" /\ used = shadow /\ dev.seen = shadow
      /\ avail = (shadow + 1) % IdxMod
  BY <1>0, Working DEF IInv, Turns
<1>2. used' \in Indices /\ used' # shadow /\ used' = avail
  BY <1>0, <1>1, Successor, Running DEF IInv, Types
<1>3. /\ dev' \in Devices /\ dev'.pc = "idle" /\ dev'.err = dev.err /\ dev'.disk = dev.disk
      /\ dev'.seen = used'
  BY <1>0, <1>1, <1>2 DEF IInv, Types, Devices, Requests
<1>4. Types' /\ Booting' /\ Shares'
  BY <1>0, <1>2, <1>3 DEF drv, IInv, Types, Booting, Shares
<1>5. Turns'
  BY <1>0, <1>1, <1>2, <1>3 DEF drv, Turns
<1>6. Data'
  BY <1>0, <1>1, <1>3 DEF drv, IInv, Data, Moved, Named
<1>7. QED BY <1>0, <1>4, <1>5, <1>6 DEF drv, IInv, Covered, Stack, InChain, Chained

-----------------------------------------------------------------------------

\* Every step of either side keeps the invariant.
LEMMA Inductive == IInv /\ [Next]_vars => IInv'
<1> SUFFICES ASSUME IInv, [Next]_vars PROVE IInv'
  OBVIOUS
<1>1. ASSUME NEW q \in QueueSizes, NEW ok \in BOOLEAN, SetupQueue0(q, ok) PROVE IInv'
  BY <1>1, SetupStep
<1>2. CASE Rw
  <2>1. ASSUME NEW lba \in Lbas, NEW b \in ReadBuffers, RwBegin("read", lba, b) PROVE IInv'
    BY <2>1, BeginStep, Callers
  <2>2. ASSUME NEW lba \in Lbas, NEW b \in WriteBuffers, RwBegin("write", lba, b) PROVE IInv'
    BY <2>2, BeginStep, Callers
  <2>3. QED
    BY <1>2, <2>1, <2>2, RefusedStep, PanicStep, DescriptorsStep, RingStep, IndexStep, NotifyStep,
       ReturnStep DEF Rw
<1>3. CASE Device
  BY <1>3, FetchStep, NothingToDoStep, TransferStep, ErrorStep, StatusStep, UsedStep DEF Device
<1>4. CASE UNCHANGED vars
  <2>1. Types' /\ Booting' /\ Shares'
    BY <1>4 DEF vars, IInv, Types, Booting, Shares
  <2>2. Turns' /\ Chained' /\ Data'
    BY <1>4 DEF vars, IInv, Turns, Chained, Data, Moved, Named
  <2>3. QED BY <1>4, <2>1, <2>2 DEF vars, IInv, Covered, Stack, InChain
<1>5. QED
  BY <1>1, <1>2, <1>3, <1>4, NegotiateStep, DriverOkStep DEF Next, Halted

\* The invariant holds in every state of the driver and the device.
THEOREM Invariance == Spec => []IInv
BY Initial, Inductive, PTL DEF Spec

\* When rw has returned, the device is through with the header, the buffer and
\* the status byte on its stack.
THEOREM NoDmaAfterReturn == Spec => []NoLateDma
<1>1. IInv => NoLateDma
  BY DEF IInv, Turns, NoLateDma, Posted
<1>2. QED BY <1>1, Invariance, PTL

\* The stack holds as many descriptors as it is high.
LEMMA StackSize == ASSUME IInv PROVE IsFiniteSet(Stack) /\ Cardinality(Stack) = count
<1>1. count \in Nat
  BY NumType DEF IInv
<1>2. \A i, j \in 0 .. count - 1 : free[i] = free[j] => i = j
  BY DEF IInv, Shares
<1> DEFINE f == [i \in 0 .. count - 1 |-> free[i]]
<1>3. f \in Bijection(0 .. count - 1, Stack)
  <2>1. f \in [0 .. count - 1 -> Stack]
    BY DEF Stack
  <2>2. \A i, j \in 0 .. count - 1 : f[i] = f[j] => i = j
    BY <1>2
  <2>3. \A d \in Stack : \E i \in 0 .. count - 1 : f[i] = d
    BY DEF Stack
  <2> HIDE DEF f
  <2>4. QED BY <2>1, <2>2, <2>3 DEF Bijection, Injection, Surjection, IsInjective
<1>4. IsFiniteSet(0 .. count - 1) /\ Cardinality(0 .. count - 1) = count
  BY <1>1, FS_Interval
<1>5. ExistsBijection(0 .. count - 1, Stack)
  BY <1>3 DEF ExistsBijection
<1>6. QED BY <1>4, <1>5, FS_Bijection

\* The chain of a running call has three descriptors.
LEMMA ChainSize == ASSUME IInv, pc # "idle" PROVE Cardinality(InChain) = 3
<1>1. chain[1] # chain[2] /\ chain[1] # chain[3] /\ chain[2] # chain[3]
  BY DEF IInv, Shares
<1>2. InChain = ({chain[1]} \cup {chain[2]}) \cup {chain[3]}
  BY DEF InChain
<1>3. IsFiniteSet({chain[1]}) /\ Cardinality({chain[1]}) = 1
  BY FS_Singleton
<1>4. IsFiniteSet({chain[1]} \cup {chain[2]}) /\ Cardinality({chain[1]} \cup {chain[2]}) = 2
  <2>1. chain[2] \notin {chain[1]}
    BY <1>1
  <2>2. QED BY <1>3, <2>1, FS_AddElement
<1>5. Cardinality(({chain[1]} \cup {chain[2]}) \cup {chain[3]}) = 3
  <2>1. chain[3] \notin {chain[1]} \cup {chain[2]}
    BY <1>1
  <2>2. QED BY <1>4, <2>1, FS_AddElement
<1>6. QED BY <1>2, <1>5

\* Whatever order driver and device take, a descriptor is on the free stack or
\* in the running call's chain, once, none is lost, and the device never meets
\* a chain of rw's that is not whole.
THEOREM RingIsSound == Spec => []RingSound
<1>1. ASSUME IInv PROVE TypeOK /\ ChainWhole
  BY <1>1 DEF IInv, Types, Devices, Descs, Buffers, TypeOK, ChainWhole
<1>2. ASSUME IInv PROVE DescriptorsConserved
  <2>1. Stack \cap InChain = {}
    <3> SUFFICES ASSUME NEW d \in Stack, d \in InChain PROVE FALSE
      OBVIOUS
    <3>1. PICK i \in 0 .. count - 1 : d = free[i]
      BY DEF Stack
    <3>2. pc # "idle" /\ \E k \in 1 .. 3 : d = chain[k]
      BY DEF InChain
    <3>3. QED BY <1>2, <3>1, <3>2 DEF IInv, Shares
  <2>2. ASSUME num >= 3, phase = "ready" PROVE Stack \cup InChain = 0 .. num - 1
    <3>1. Stack \subseteq 0 .. num - 1
      BY <1>2 DEF IInv, Shares, Stack
    <3>2. InChain \subseteq 0 .. num - 1
      BY <1>2 DEF IInv, Shares, InChain
    <3>3. 0 .. num - 1 \subseteq Stack \cup InChain
      BY <1>2, <2>2 DEF IInv, Covered
    <3>4. QED BY <3>1, <3>2, <3>3
  <2>3. QED BY <1>2, <2>1, <2>2, StackSize, ChainSize DEF DescriptorsConserved
<1>3. QED BY <1>1, <1>2, Invariance, PTL DEF RingSound

-----------------------------------------------------------------------------
(* Refinement.                                                             *)

\* The call, its effect and its answer, as BlockDevice sees them.
AbsCall ==
    IF pc = "idle" THEN [op |-> "none"]
    ELSE IF req.op = "read" THEN [op |-> "read", lba |-> req.lba, whole |-> ~buf.split]
    ELSE [op |-> "write", lba |-> req.lba, whole |-> ~buf.split,
          val |-> [head |-> buf.head, tail |-> buf.tail]]

AbsEffect ==
    IF pc = "idle" THEN "pending"
    ELSE IF dev.pc \in {"moved", "answered"} \/ used # shadow
    THEN (IF dev.err THEN "failed" ELSE "done") ELSE "pending"

AbsVars == <<dev.disk, AbsCall, AbsEffect, answer>>

\* A step that changes neither the sectors nor the call is a stutter.
LEMMA Stutters ==
    ASSUME dev'.disk = dev.disk, AbsCall' = AbsCall, AbsEffect' = AbsEffect, answer' = answer
    PROVE  [Block!Next]_AbsVars
BY DEF AbsVars

\* Init of the driver and the device maps to Init of the block device.
LEMMA InitMaps == Init => Block!Init
<1> SUFFICES ASSUME Init PROVE Block!Init
  OBVIOUS
<1>1. dev.disk \in [Lbas -> Sectors]
  <2>1. PICK s \in [Lbas -> Sectors] :
            dev = [pc |-> "idle", seen |-> 0, kicked |-> FALSE, req |-> NoReq,
                   err |-> FALSE, disk |-> s]
    BY DEF Init
  <2>2. QED BY <2>1
<1>2. QED
  BY <1>1 DEF Init, Block!Init, Block!NoCall, Block!NoAnswer, Block!NoData, Block!Sectors, NoAnswer,
             NoData, Sectors, disk

\* RwBegin starts the call.
LEMMA BeginMaps ==
    ASSUME IInv, NEW op \in {"read", "write"}, NEW lba \in Lbas, NEW v,
           Given(op, v), RwBegin(op, lba, v)
    PROVE  Block!Next
<1>0. /\ pc = "idle" /\ pc' = "begun" /\ req' = [op |-> op, lba |-> lba] /\ buf' = v
      /\ answer' = NoAnswer /\ UNCHANGED <<used, shadow, dev>>
  BY DEF RwBegin
<1>1. used = shadow /\ dev.pc = "idle"
  BY <1>0 DEF IInv, Turns, Posted
<1>2. AbsEffect' = "pending" /\ AbsCall = [op |-> "none"]
  BY <1>0, <1>1 DEF AbsEffect, AbsCall
<1>3. AbsCall' \in Block!Calls
  <2>1. CASE op = "read"
    BY <1>0, <2>1 DEF AbsCall, Block!Calls, Given, Buffers
  <2>2. CASE op = "write"
    BY <1>0, <2>2 DEF AbsCall, Block!Calls, Block!Sectors, Given, Buffers
  <2>3. QED BY <2>1, <2>2
<1>4. Block!Start(AbsCall')
  BY <1>0, <1>2, <1>3 DEF AbsCall, AbsEffect, Block!Start, Block!NoCall, Block!NoAnswer,
                         Block!NoData, NoAnswer, NoData, disk
<1>5. QED BY <1>3, <1>4 DEF Block!Next

\* A call in progress is one of the block device's calls.
LEMMA CallRuns == ASSUME IInv, pc # "idle" PROVE AbsCall # [op |-> "none"]
<1>1. req \in [op : {"read", "write"}, lba : Lbas]
  BY DEF IInv, Data
<1>2. AbsCall.op \in {"read", "write"}
  BY <1>1 DEF AbsCall
<1>3. QED BY <1>2

\* The transfer and the error of the device are where the call takes effect.
LEMMA PerformMaps == IInv /\ (DevTransfer \/ DevError) => Block!Next
<1> SUFFICES ASSUME IInv, DevTransfer \/ DevError PROVE Block!Next
  OBVIOUS
<1>0. dev.pc = "fetched" /\ UNCHANGED <<drv, used, status>>
  BY DEF DevTransfer, DevError
<1>1. /\ pc # "idle" /\ used = shadow /\ dev.req = req
      /\ req \in [op : {"read", "write"}, lba : Lbas]
  BY <1>0, Working
<1>2. dev \in Devices /\ dev.disk \in [Lbas -> Sectors] /\ buf \in Buffers
  BY DEF IInv, Types, Devices
<1>3. AbsEffect = "pending" /\ AbsCall # [op |-> "none"]
  BY <1>0, <1>1, CallRuns DEF AbsEffect
<1>4. dev'.pc = "moved" /\ pc' # "idle"
  BY <1>0, <1>1, <1>2 DEF DevTransfer, DevError, Devices, drv
<1>5. AbsEffect' = IF dev'.err THEN "failed" ELSE "done"
  BY <1>4 DEF AbsEffect
<1>6. answer' = answer
  BY <1>0 DEF drv
<1>7. CASE DevError
  <2>1. dev'.err = TRUE /\ dev'.disk = dev.disk /\ buf' = buf
    BY <1>2, <1>7 DEF DevError, Devices
  <2>2. AbsCall' = AbsCall /\ AbsEffect' = "failed"
    BY <1>0, <1>5, <2>1 DEF drv, AbsCall
  <2>3. Block!Perform
    BY <1>3, <1>6, <2>1, <2>2 DEF Block!Perform, Block!NoCall, AbsCall, AbsEffect, disk
  <2>4. QED BY <2>3 DEF Block!Next
<1>8. CASE DevTransfer
  <2>1. dev'.err = FALSE
    BY <1>2, <1>8 DEF DevTransfer, Devices
  <2>2. AbsEffect' = "done"
    BY <1>5, <2>1
  <2>3. CASE req.op = "read"
    <3>1. dev'.disk = dev.disk
      BY <1>1, <1>2, <1>8, <2>3 DEF DevTransfer, Devices
    <3>2. AbsCall' = AbsCall /\ AbsCall.op = "read"
      <4>1. buf'.split = buf.split
        BY <1>1, <1>2, <1>8, <2>3 DEF DevTransfer, Filled, Buffers
      <4>2. QED BY <1>0, <1>1, <2>3, <4>1 DEF drv, AbsCall
    <3>3. Block!Perform
      BY <1>3, <1>6, <2>2, <3>1, <3>2 DEF Block!Perform, Block!NoCall, AbsCall, AbsEffect, disk
    <3>4. QED BY <3>3 DEF Block!Next
  <2>4. CASE req.op = "write"
    <3>1. dev'.disk = [dev.disk EXCEPT ![req.lba] = Named] /\ buf' = buf
      BY <1>1, <1>2, <1>8, <2>4 DEF DevTransfer, Devices
    <3>2. /\ AbsCall' = AbsCall
          /\ AbsCall.op = "write" /\ AbsCall.lba = req.lba /\ AbsCall.whole = ~buf.split
          /\ AbsCall.val.head = buf.head /\ AbsCall.val.tail = buf.tail
      BY <1>0, <1>1, <2>4, <3>1 DEF drv, AbsCall
    <3>3. Named \in Sectors /\ Named.head = buf.head /\ (~buf.split => Named.tail = buf.tail)
      BY <1>1, <2>4 DEF IInv, Data, Named
    <3>4. Block!Agrees(Named, AbsCall.val) /\ Named \in Block!Sectors
      BY <3>2, <3>3 DEF Block!Agrees, AbsCall, Block!Sectors, Sectors
    <3>5. Block!Perform
      BY <1>3, <1>6, <2>2, <3>1, <3>2, <3>4
      DEF Block!Perform, Block!NoCall, AbsCall, AbsEffect, disk
    <3>6. QED BY <3>5 DEF Block!Next
  <2>5. QED BY <1>1, <2>3, <2>4
<1>9. QED BY <1>7, <1>8

\* RwReturn answers with the effect, and with what the sector holds.
LEMMA ReturnMaps == IInv /\ RwReturn => Block!Next
<1> SUFFICES ASSUME IInv, RwReturn PROVE Block!Next
  OBVIOUS
<1>0. /\ pc = "polling" /\ pc' = "idle" /\ used # shadow /\ answer' = Answer /\ dev' = dev
  BY DEF RwReturn, Completed
<1>1. /\ req \in [op : {"read", "write"}, lba : Lbas]
      /\ ~dev.err /\ req.op = "read" =>
             /\ buf.head = dev.disk[req.lba].head
             /\ ~buf.split => buf.tail = dev.disk[req.lba].tail
      /\ status = IF dev.err THEN 1 ELSE 0
  BY <1>0 DEF IInv, Data, Moved, Named
<1>2. /\ AbsEffect = IF dev.err THEN "failed" ELSE "done"
      /\ AbsEffect' = "pending" /\ AbsCall' = [op |-> "none"] /\ AbsCall # [op |-> "none"]
  BY <1>0, CallRuns DEF AbsEffect, AbsCall
<1>3. AbsCall.op = req.op /\ AbsCall.lba = req.lba /\ AbsCall.whole = ~buf.split
  BY <1>0, <1>1 DEF AbsCall
<1>4. CASE dev.err
  <2>1. answer' = NoAnswer
    BY <1>0, <1>1, <1>4 DEF Answer
  <2>2. Block!Return
    BY <1>0, <1>2, <1>4, <2>1
    DEF Block!Return, Block!NoCall, Block!NoAnswer, Block!NoData, NoAnswer, NoData, AbsCall,
        AbsEffect, disk
  <2>3. QED BY <2>2 DEF Block!Next
<1>5. CASE ~dev.err /\ req.op = "read"
  <2> DEFINE d == [head |-> buf.head, tail |-> buf.tail]
  <2>1. answer' = [ok |-> TRUE, data |-> d]
    BY <1>0, <1>1, <1>5 DEF Answer
  <2>2. d \in [head : Values, tail : Values \cup {"none"}]
    <3>1. dev.disk[req.lba] \in Sectors /\ buf \in Buffers
      BY <1>1 DEF IInv, Types, Devices
    <3>2. QED BY <1>1, <1>5, <3>1 DEF Sectors, Buffers
  <2>3. Block!Agrees(d, dev.disk[AbsCall.lba])
    BY <1>1, <1>3, <1>5 DEF Block!Agrees, AbsCall
  <2> HIDE DEF d
  <2>4. Block!Return
    BY <1>0, <1>2, <1>3, <1>5, <2>1, <2>2, <2>3
    DEF Block!Return, Block!NoCall, AbsCall, AbsEffect, disk
  <2>5. QED BY <2>4 DEF Block!Next
<1>6. CASE ~dev.err /\ req.op = "write"
  <2>1. answer' = [ok |-> TRUE, data |-> NoData]
    BY <1>0, <1>1, <1>6 DEF Answer
  <2>2. Block!Return
    BY <1>0, <1>2, <1>3, <1>6, <2>1
    DEF Block!Return, Block!NoCall, Block!NoData, NoData, AbsCall, AbsEffect, disk
  <2>3. QED BY <2>2 DEF Block!Next
<1>7. QED BY <1>1, <1>4, <1>5, <1>6

\* The steps of init, and those of rw and of the device that only prepare or
\* report, are invisible to the caller.
LEMMA HiddenMaps ==
    ASSUME IInv,
           \/ Negotiate \/ (\E q \in QueueSizes, ok \in BOOLEAN : SetupQueue0(q, ok)) \/ DriverOk
           \/ RwPanics \/ RwDescriptors \/ RwRing \/ RwIndex \/ RwNotify
           \/ DevFetch \/ DevNothingToDo \/ DevStatus \/ DevUsed
           \/ UNCHANGED vars
    PROVE  [Block!Next]_AbsVars
<1>0. dev \in Devices
  BY DEF IInv, Types
<1>1. CASE Negotiate \/ DriverOk \/ RwPanics \/ RwDescriptors \/ RwRing \/ RwIndex \/ UNCHANGED vars
  <2>1. /\ UNCHANGED <<used, shadow, req, buf, answer, dev>>
        /\ pc' = pc \/ (pc # "idle" /\ pc' # "idle")
    BY <1>1 DEF Negotiate, DriverOk, RwPanics, RwDescriptors, RwRing, RwIndex, vars
  <2>2. AbsCall' = AbsCall /\ AbsEffect' = AbsEffect
    BY <2>1 DEF AbsCall, AbsEffect
  <2>3. QED BY <2>1, <2>2, Stutters
<1>2. CASE \E q \in QueueSizes, ok \in BOOLEAN : SetupQueue0(q, ok)
  <2>1. UNCHANGED <<pc, req, buf, answer, dev>> /\ pc = "idle"
    BY <1>2 DEF SetupQueue0, IInv, Booting
  <2>2. AbsCall' = AbsCall /\ AbsEffect' = AbsEffect
    BY <2>1 DEF AbsCall, AbsEffect
  <2>3. QED BY <2>1, <2>2, Stutters
<1>3. CASE RwNotify
  <2>1. /\ pc # "idle" /\ pc' # "idle" /\ UNCHANGED <<used, shadow, req, buf, answer>>
        /\ dev'.pc = dev.pc /\ dev'.err = dev.err /\ dev'.disk = dev.disk
    BY <1>0, <1>3 DEF RwNotify, Devices
  <2>2. AbsCall' = AbsCall /\ AbsEffect' = AbsEffect
    BY <2>1 DEF AbsCall, AbsEffect
  <2>3. QED BY <2>1, <2>2, Stutters
<1>4. CASE DevFetch \/ DevNothingToDo \/ DevStatus
  <2>1. /\ UNCHANGED <<pc, used, shadow, req, buf, answer>>
        /\ dev'.err = dev.err /\ dev'.disk = dev.disk
        /\ dev'.pc \in {"moved", "answered"} <=> dev.pc \in {"moved", "answered"}
    BY <1>0, <1>4 DEF DevFetch, DevNothingToDo, DevStatus, Devices, drv
  <2>2. AbsCall' = AbsCall /\ AbsEffect' = AbsEffect
    BY <2>1 DEF AbsCall, AbsEffect
  <2>3. QED BY <2>1, <2>2, Stutters
<1>5. CASE DevUsed
  <2>1. /\ dev.pc = "answered" /\ UNCHANGED <<pc, shadow, req, buf, answer>>
        /\ dev'.err = dev.err /\ dev'.disk = dev.disk /\ used' = (used + 1) % IdxMod
    BY <1>0, <1>5 DEF DevUsed, Devices, drv
  <2>2. used = shadow /\ pc # "idle"
    BY <2>1, Working
  <2>3. used' # shadow'
    BY <2>1, <2>2, Successor, Running DEF IInv, Types
  <2>4. AbsCall' = AbsCall /\ AbsEffect' = AbsEffect
    BY <2>1, <2>2, <2>3 DEF AbsCall, AbsEffect
  <2>5. QED BY <2>1, <2>4, Stutters
<1>6. QED BY <1>1, <1>2, <1>3, <1>4, <1>5

\* A call that rw refuses at once.
LEMMA RefuseMaps == RwBadLength \/ RwNoDescriptors => Block!Next
<1> SUFFICES ASSUME RwBadLength \/ RwNoDescriptors PROVE Block!Next
  OBVIOUS
<1>1. /\ pc = "idle" /\ answer' = NoAnswer
      /\ UNCHANGED <<used, shadow, pc, req, buf, dev>>
  BY DEF RwBadLength, RwNoDescriptors
<1>2. Block!Refuse
  BY <1>1 DEF Block!Refuse, Block!NoCall, Block!NoAnswer, Block!NoData, NoAnswer, NoData, disk
<1>3. QED BY <1>2 DEF Block!Next

\* Every step is a step of the block device or none.
LEMMA NextMaps == IInv /\ [Next]_vars => [Block!Next]_AbsVars
<1> SUFFICES ASSUME IInv, [Next]_vars PROVE [Block!Next]_AbsVars
  OBVIOUS
<1>1. CASE Rw
  <2>1. ASSUME NEW lba \in Lbas, NEW b \in ReadBuffers, RwBegin("read", lba, b) PROVE Block!Next
    BY <2>1, BeginMaps, Callers
  <2>2. ASSUME NEW lba \in Lbas, NEW b \in WriteBuffers, RwBegin("write", lba, b) PROVE Block!Next
    BY <2>2, BeginMaps, Callers
  <2>3. QED BY <1>1, <2>1, <2>2, RefuseMaps, ReturnMaps, HiddenMaps DEF Rw
<1>2. CASE Device
  BY <1>2, PerformMaps, HiddenMaps DEF Device
<1>3. QED BY <1>1, <1>2, HiddenMaps DEF Next, Halted

\* The driver and the device together implement the block device that the file
\* system reads through: each call of rw takes effect once, between its start
\* and its return, and a read answers what the sector holds; of a buffer in two
\* frames that are not adjacent, this is so for the part in the first one.
THEOREM Refinement == Spec => ImplementsBlockDevice
<1>1. Init => Block!Init
  BY InitMaps
<1>2. IInv /\ [Next]_vars => [Block!Next]_Block!blockVars
  BY NextMaps DEF AbsVars, AbsCall, AbsEffect, Block!blockVars, disk
<1>3. QED BY <1>1, <1>2, Invariance, PTL DEF Spec, ImplementsBlockDevice, Block!Spec
=============================================================================
