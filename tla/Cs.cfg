CONSTANTS
  Halves = {0, 1}
  Capacity = 1
  Places <- SomePlaces
  MaxFiles = 3
  Iopbs <- SomeIopbs
  Blocks <- SomeBlocks
  Tapes <- SomeTapes
  DataA = DataA
  DataB = DataB
SPECIFICATION HostSpec
INVARIANTS
  OnItsIopb
  AddressInv
  Counted
PROPERTIES
  ImplementsTape
CHECK_DEADLOCK FALSE
