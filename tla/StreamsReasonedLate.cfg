SPECIFICATION StreamsSpec
CONSTANTS
  MaxLines = 3
  MaxBlocks = 3
  MaxDeltas = 1
INVARIANT ItemsOwnTheirIndex
CHECK_DEADLOCK FALSE
