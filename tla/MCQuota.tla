------------------------------ MODULE MCQuota ------------------------------
(***************************************************************************)
(* QuotaEngine with a pool of two lanes and a pool of one egress, the      *)
(* shape discord-store builds.  The egress carries no bucket of its own:   *)
(* the token every request takes is in the shared bucket, which the engine *)
(* supports and discord-store leaves empty.                                *)
(***************************************************************************)
EXTENDS QuotaEngine, TLC

CONSTANTS t1, t2, t3, lane1, lane2, egress

MCResource == {lane1, lane2, egress}
MCBucket == {"shared", "lane1", "lane2"}
MCPools == <<<<lane1, lane2>>, <<egress>>>>
MCBucketsOf == (lane1 :> {"lane1"}) @@ (lane2 :> {"lane2"}) @@ (egress :> {})
MCInterval == [b \in MCBucket |-> IF b \in {"lane1", "lane2"} THEN 2 ELSE 1]
MCCapacity == [b \in MCBucket |-> 2]
MCSafety == [b \in MCBucket |-> 0]
MCDemands == {<<Free, Free>>, <<lane1, Free>>}
MCHeaders == {<<0, 3>>, <<2, 1>>}

MCSymmetry == Permutations(Task)
============================================================================
