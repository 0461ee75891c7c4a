CONSTANTS
  Ports <- TwoPorts
  Size = 4
  Chars <- Stamped
  NoChar = NoChar
  FillsUnlocked = TRUE
  Typists = {1}
  Packets <- Pasting
  Stamps = 8
  MaxUnderWay = 4
SPECIFICATION SockSpec
PROPERTIES
  OneAtATime
CHECK_DEADLOCK FALSE
