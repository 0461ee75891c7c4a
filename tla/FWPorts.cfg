CONSTANTS
  NBoards = 1
  NPorts = 2
  MaxQueue = 1
  Stamps = 3
  HostCommands = {"STAT", "EIGHTN"}
  NoChar = NoChar
  NoInt = NoInt
  Chars <- Stamped
SPECIFICATION FairHostSpec
INVARIANTS
  ReadsInOrder
PROPERTIES
  ServedInTurn
  ImplementsLines
