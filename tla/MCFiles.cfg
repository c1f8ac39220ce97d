SPECIFICATION FairSpec
CONSTANTS
  r1 = r1
  r2 = r2
  r3 = r3
  Request = {r1, r2, r3}
  Index = {0, 1, 2}
  Size = {1, 2}
  Allocations = {3, 4}
  MaxFileSize = 3
  Payload = 2
  Faults = {"upload", "delete", "database", "drop", "crash"}
INVARIANTS
  TypeOK
  AnswersHold
  AttachedStored
  NoOrphans
  DownloadsAgree
PROPERTIES
  ImplementsFile
  ReservationSettles
CHECK_DEADLOCK FALSE
