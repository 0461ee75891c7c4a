CONSTANTS
  Ports <- TwoPorts
  Size = 4
  Chars <- Stamped
  NoChar = NoChar
  FillsUnlocked = FALSE
  Typists = {1}
  Packets <- Sends
  Stamps = 8
  MaxUnderWay = 3
SPECIFICATION FairSockSpec
INVARIANTS
  RingInv
  OwnCharacters
PROPERTIES
  ImplementsFifo
  InputTaken
CHECK_DEADLOCK FALSE
