CONSTANTS
  c1 = c1
  NoChar = NoChar
  Chars <- OneChar
  Regs <- SomeRegs
  MaxFile = 0
SPECIFICATION FairHostSpec
INVARIANTS
  IInv
  LineIsWanted
  SleepsOnInterrupt
  HandlerFindsSource
PROPERTIES
  ByteAnswered
  CharacterRead
