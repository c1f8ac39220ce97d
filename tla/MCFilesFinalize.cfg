SPECIFICATION Spec
CONSTANTS
  r1 = r1
  r2 = r2
  r3 = r3
  Request = {r1, r2, r3}
  Index = {0, 1}
  Size = {1, 2}
  Allocations = {2}
  MaxFileSize = 2
  Payload = 2
  Faults = {}
PROPERTY
  NoFinalizeDuringUpload
CHECK_DEADLOCK FALSE
