CONSTANTS
  IntComplete = 1
  IntSeek = 4
  PhaseCount = 3
  CmdCount = 1
  ShortCdb = 2
  LongCdb = 3
  DataLen = 1
  BufMax = 4
  Attached = {0}
  Opcodes = {"SEEK", "READ", "FORMAT"}
  Modes <- SomeModes
  Jobs <- SomeJobs
SPECIFICATION FairHostSpec
INVARIANTS
  IrqInv
  ExecutedOnce
  FailureReported
  NoLostWakeup
PROPERTIES
  CommandEnds
  IrqSpec
