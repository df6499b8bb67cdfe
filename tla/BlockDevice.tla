----------------------------- MODULE BlockDevice -----------------------------
(* What the kernel expects of a block device (Kernel/Devices/BlockDevice.h): *)
(* one call at a time, each of which takes effect on the store once, between *)
(* its start and its return, or returns an error.                            *)
(*                                                                           *)
(* A sector has two halves.  The buffer of a call is whole, in memory that   *)
(* the device can reach by one address, or it is not; then nothing is        *)
(* promised of the second half: neither what a read leaves in the buffer nor *)
(* what a write leaves in the sector.                                        *)
EXTENDS Integers

CONSTANTS Lbas, Values

Sectors == [head : Values, tail : Values]
NoCall == [op |-> "none"]
Calls ==
    [op : {"read"}, lba : Lbas, whole : BOOLEAN]
        \cup [op : {"write"}, lba : Lbas, whole : BOOLEAN, val : Sectors]

VARIABLES
    store,  \* the sectors
    call,   \* the call in progress
    effect, \* "pending", "done" or "failed"
    answer  \* what the last call returned: ok, and the data of a read

blockVars == <<store, call, effect, answer>>

NoData == [head |-> "none", tail |-> "none"]
NoAnswer == [ok |-> FALSE, data |-> NoData]

Init ==
    /\ store \in [Lbas -> Sectors]
    /\ call = NoCall /\ effect = "pending"
    /\ answer = NoAnswer

Start(c) ==
    /\ call = NoCall /\ c \in Calls
    /\ call' = c /\ effect' = "pending" /\ answer' = NoAnswer
    /\ UNCHANGED store

\* A call that is refused at once.
Refuse ==
    /\ call = NoCall
    /\ answer' = NoAnswer
    /\ UNCHANGED <<store, call, effect>>

\* A sector that agrees with s as far as the call promises it.
Agrees(t, s) == t.head = s.head /\ (call.whole => t.tail = s.tail)

Perform ==
    /\ call # NoCall /\ effect = "pending"
    /\ effect' \in {"done", "failed"}
    /\ IF effect' = "done" /\ call.op = "write"
       THEN \E s \in Sectors : Agrees(s, call.val) /\ store' = [store EXCEPT ![call.lba] = s]
       ELSE store' = store
    /\ UNCHANGED <<call, answer>>

\* The answer to a successful read is what the sector holds.
Return ==
    /\ call # NoCall
    /\ \/ /\ effect = "done" /\ call.op = "read"
          /\ \E d \in [head : Values, tail : Values \cup {"none"}] :
                Agrees(d, store[call.lba]) /\ answer' = [ok |-> TRUE, data |-> d]
       \/ /\ effect = "done" /\ call.op = "write"
          /\ answer' = [ok |-> TRUE, data |-> NoData]
       \/ /\ effect # "done"
          /\ answer' = NoAnswer
    /\ call' = NoCall /\ effect' = "pending"
    /\ UNCHANGED store

Next == (\E c \in Calls : Start(c)) \/ Refuse \/ Perform \/ Return

Spec == Init /\ [][Next]_blockVars
=============================================================================
