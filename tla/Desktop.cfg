SPECIFICATION FairSpec
CONSTANTS
  Starts = {"start"}
  Stops = {"stop"}
  Procs = {1, 2}
  MaxLines = 1
  MaxStarts = 2
  MaxFaults = 1
\* The program quits.
CHECK_DEADLOCK FALSE
INVARIANT StopIsQuiet
PROPERTIES
  Quits
  Restores
