SPECIFICATION Spec
CONSTANTS
  Payload = 2
  Tag = 1
  MaxFrames = 2
  Top = 15
  Jobs <- MCJobs
  Headers <- MCHeaders
  MaxChunk = 4
  Faults = {"body", "fetch", "cut", "whole"}
INVARIANTS
  SegmentsFaithful
  NoIdleFrame
PROPERTY
  ServesRange
CHECK_DEADLOCK FALSE
