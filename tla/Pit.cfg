CONSTANTS
  Byte = 2
  CounterWrap = 16
SPECIFICATION FairSpec
INVARIANTS
  IInv
PROPERTIES
  PeriodExact
  KeepsTicking
