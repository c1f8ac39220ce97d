-------------------------------- MODULE MCS3 --------------------------------
(* Three requests on two keys, and one multipart upload of two parts; and,   *)
(* for the bucket and its listings, three on three keys, 2 and 3 of which    *)
(* have a common prefix.                                                     *)
EXTENDS S3Gateway

CONSTANTS r1, r2, r3, u1, owner, guest

By(a, j) == j @@ [by |-> a]

Put(k, n)       == By(owner, [op |-> "put", key |-> k, n |-> n])
Part(i, n)      == By(owner, [op |-> "part", key |-> 1, upload |-> u1, number |-> i, n |-> n])
Copy(k, from)   == By(owner, [op |-> "copy", key |-> k, from |-> from])
CompleteOf(ns)  == By(owner, [op |-> "complete", key |-> 1, upload |-> u1, numbers |-> ns])
Abort           == By(owner, [op |-> "abort", key |-> 1, upload |-> u1])
Erase(ks)       == By(owner, [op |-> "delete", keys |-> ks])
Fetch(a, k)     == By(a, [op |-> "get", from |-> k])
Make(a)         == By(a, [op |-> "make"])
Drop            == By(owner, [op |-> "drop"])

Folded(k) == IF k > 1 THEN 9 ELSE k
Listing(a, max, under, folder) ==
  By(a, [op |-> "list", max |-> max, under |-> under, folder |-> folder])

MCJobs ==
  (r1 :> {Put(1, 2), Part(1, 1), Part(1, 2)}) @@
  (r2 :> {Put(1, 1), Part(1, 1), Part(2, 1), Copy(2, 1)}) @@
  (r3 :> {Erase(<<1>>), Copy(1, 2), CompleteOf(<<1>>), CompleteOf(<<1, 2>>), CompleteOf(<<2, 1>>),
          Abort, Put(2, 0), Fetch(owner, 1)})

BucketJobs ==
  (r1 :> {Put(1, 1), Part(1, 1), Erase(<<1, 2>>), Drop}) @@
  (r2 :> {Put(3, 0), Erase(<<1, 2, 3>>), Make(guest), Fetch(guest, 1)}) @@
  (r3 :> {Listing(owner, 1, {1, 2, 3}, [k \in Key |-> k]),
          Listing(guest, 2, {1, 2, 3}, [k \in Key |-> Folded(k)]), Drop, Abort})

BucketGrants == {<<guest, "read">>}
=============================================================================
