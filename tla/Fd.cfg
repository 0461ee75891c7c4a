CONSTANTS
  RegMax = 1
  SectorsPerTrack = 1
  Blocks = 2
  ExecCount = 1
  Values = {a, b}
  Blank = a
  OptionValues <- SomeOptions
  Controls <- SomeControls
  Settable = {"data"}
  Issued <- SomeCommands
  ForceFlags <- SomeFlags
  Watched <- SideOne
SPECIFICATION FairHostSpec
INVARIANTS
  FdInv
  InterruptMeansDone
PROPERTIES
  ReadsLastWrite
  AcceptedAnswered
