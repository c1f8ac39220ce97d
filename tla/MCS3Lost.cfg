SPECIFICATION Spec
CONSTANTS
  r1 = r1
  r2 = r2
  r3 = r3
  u1 = u1
  owner = owner
  guest = guest
  Request = {r1, r2, r3}
  Access = {owner}
  Owner = owner
  Grants = {}
  Revocable = {}
  Key = {1, 2}
  Given = {}
  Upload = {u1}
  Jobs <- MCJobs
  MaxBody = 2
  Grace = 1
  Faults = {}
INVARIANT
  LiveStored
CHECK_DEADLOCK FALSE
