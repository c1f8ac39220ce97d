SPECIFICATION FairService
CONSTANTS
  r00 = r00
  r01 = r01
  r10 = r10
  r11 = r11
  Request = {r00, r01, r10, r11}
  BlockOf <- MCBlockOf
  AttemptOf <- MCAttemptOf
  Index = {0, 1}
  Size = {1, 2}
  Allocations = {3, 4}
  MaxFileSize = 3
  Payload = 2
  Faults = {"upload", "database", "drop", "crash"}
  Input <- MCInput
  Parallel = 2
  Retries = 1
  Mishaps = {"input", "link"}
  Reader = {d1, d2}
  Margin = 2
  Fresh = {3, 4}
INVARIANTS
  PrintedWhole
  FailsForCause
  HeldValid
PROPERTY
  UploadEnds
CHECK_DEADLOCK FALSE
