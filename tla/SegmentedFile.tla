--------------------------- MODULE SegmentedFile ---------------------------
(***************************************************************************)
(* What the files gateway promises about one file: segments are added, one *)
(* per index and within the allocation, until the file is completed; what  *)
(* is completed is contiguous and frame-aligned, and never changes again.  *)
(***************************************************************************)
EXTENDS Integers, Functions

CONSTANTS
  Segment, Index, Size,
  Payload       \* plaintext bytes of a full frame

VARIABLES
  allocation,   \* the bytes the file may hold, -1 before it is created
  attached,     \* [subset of Index -> [id: Segment, size: Size]]
  sealed        \* the file is completed

Bytes(segments) == SumFunction([i \in DOMAIN segments |-> segments[i].size])

Contiguous(segments) == \A i \in DOMAIN segments : \A j \in 0..i : j \in DOMAIN segments

Aligned(segments) ==
  \A i \in DOMAIN segments : i + 1 \in DOMAIN segments => segments[i].size % Payload = 0

Init ==
  /\ allocation = -1
  /\ attached = <<>>
  /\ ~ sealed

Allocate ==
  /\ allocation = -1
  /\ allocation' \in Nat
  /\ UNCHANGED <<attached, sealed>>

Add ==
  /\ allocation # -1 /\ ~ sealed
  /\ \E i \in Index \ DOMAIN attached, id \in Segment, size \in Size :
       /\ \A j \in DOMAIN attached : attached[j].id # id
       /\ attached' = [j \in DOMAIN attached \cup {i} |->
                         IF j = i THEN [id |-> id, size |-> size] ELSE attached[j]]
  /\ Bytes(attached') <= allocation
  /\ UNCHANGED <<allocation, sealed>>

Seal ==
  /\ allocation # -1 /\ ~ sealed
  /\ Contiguous(attached) /\ Aligned(attached)
  /\ sealed'
  /\ UNCHANGED <<allocation, attached>>

Next == Allocate \/ Add \/ Seal

Spec == Init /\ [][Next]_<<allocation, attached, sealed>>
============================================================================
