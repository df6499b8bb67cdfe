--------------------------- MODULE FrameAllocator ---------------------------
(***************************************************************************)
(* What the physical frame allocator promises its callers, independently   *)
(* of the bitmap that implements it: a frame is either available, owned by *)
(* exactly one caller, or neither (withheld at boot); a grant moves frames *)
(* from available to owned, a release moves them back.                     *)
(***************************************************************************)
CONSTANT Frames

VARIABLES avail, owned

Init == avail \in SUBSET Frames /\ owned = {}

\* The firmware or the application processors keep the frames of S.
Withhold(S) == avail' = avail \ S /\ UNCHANGED owned

\* A successful allocation of the frames of S.
Grant(S) == /\ S \subseteq avail
            /\ avail' = avail \ S
            /\ owned' = owned \cup S

\* The owner of S gives it back.
Release(S) == /\ S \subseteq owned
              /\ owned' = owned \ S
              /\ avail' = avail \cup S

Next == \E S \in SUBSET Frames : Withhold(S) \/ Grant(S) \/ Release(S)

Spec == Init /\ [][Next]_<<avail, owned>>
=============================================================================
