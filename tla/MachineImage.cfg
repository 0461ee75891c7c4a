CONSTANTS
  SegCount = 2
  Half = 2
  RamPages = 3
  BaseWords <- Words
  LimitWords <- Limits
SPECIFICATION ImageSpec
PROPERTIES
  LoadRestores
CHECK_DEADLOCK FALSE
