CONSTANTS
  NBoards = 2
  NPorts = 1
  MaxQueue = 1
  Stamps = 3
  HostCommands = {"SET"}
  NoChar = NoChar
  NoInt = NoInt
  Chars <- Stamped
SPECIFICATION FairHostSpec
INVARIANTS
  IInv
  OnlyOwnedVectors
  FullIsAnnounced
  CompletionAccounted
PROPERTIES
  QueueDrains
  RegisterFreed
