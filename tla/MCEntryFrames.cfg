SPECIFICATION EFSpec
CONSTANTS
  Procs = {p1, p2}
  Vectors <- MCVectors
  BootCs = {8, 16}
  TssEntry <- MCTssEntry
  Stub <- MCStub
INVARIANTS
  ProcessSegments
  LoopResumes
  FrameFits
PROPERTIES
  ResumesAsInterrupted
CHECK_DEADLOCK FALSE
