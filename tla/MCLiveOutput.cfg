SPECIFICATION FairPipeSpec
CONSTANTS
  Pieces = {"mid", "end"}
  Limits = {FALSE}
  Capacity = 3
  MaxWritten = 4
PROPERTIES
  LiveOutputKeepsUp
CHECK_DEADLOCK FALSE
