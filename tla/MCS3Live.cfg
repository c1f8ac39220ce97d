SPECIFICATION FairSpec
CONSTANTS
  r1 = r1
  r2 = r2
  r3 = r3
  u1 = u1
  owner = owner
  guest = guest
  Request = {r1, r2, r3}
  Access = {owner, guest}
  Owner = owner
  Grants <- BucketGrants
  Revocable = {guest}
  Key = {1, 2, 3}
  Given = {1, 2}
  Upload = {u1}
  Jobs <- BucketJobs
  MaxBody = 2
  Grace = 1
  Faults = {}
INVARIANTS
  GoneIsEmpty
  ListedOnce
PROPERTY
  Collected
CHECK_DEADLOCK FALSE
