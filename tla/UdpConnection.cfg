SPECIFICATION FairSpec
CONSTANTS
  Radix = 2
  Capacity = 8
  Datagrams <- MCDatagrams
  Pushes = 5
  Spurious = TRUE
INVARIANT
  TypeOK
PROPERTIES
  PreservesBoundaries
  Drains
CHECK_DEADLOCK FALSE
