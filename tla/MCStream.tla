------------------------------ MODULE MCStream ------------------------------
(* Two sessions on a budget that cannot give both of them their window.     *)
EXTENDS StreamSession

CONSTANTS s1, s2

JobOf(objects, start, end, windows) ==
  [objects |-> objects, start |-> start, end |-> end, windows |-> windows]

(* s1 reads across two objects, from inside the first one; s2 meets an       *)
(* object without frames, or its source ends too early, or its window        *)
(* changes while it reads.                                                   *)
MCJobs ==
  [s \in Session |->
     IF s = s1 THEN {JobOf(<<2, 1>>, 1, 3, {2})}
     ELSE {JobOf(<<2>>, 0, 2, {2, 1}), JobOf(<<1, 0>>, 0, 2, {1}),
           JobOf(<<1>>, 0, 2, {1})}]

(* s1 reads two objects of a frame each; s2 blocks behind its one frame.     *)
MCBlockedJobs ==
  [s \in Session |->
     IF s = s1 THEN {JobOf(<<1, 1>>, 0, 2, {2})}
     ELSE {JobOf(<<1>>, 0, 1, {2})}]

MCPrefetch == [n \in 1..Capacity |-> 1]
============================================================================
