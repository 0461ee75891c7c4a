CONSTANTS
  SegCount = 2
  Half = 2
  RamPages = 3
  BaseWords <- Words
  LimitWords <- Limits
SPECIFICATION Spec
INVARIANTS
  MachineInv
PROPERTIES
  Isolation
  DirtyTracked
CHECK_DEADLOCK FALSE
