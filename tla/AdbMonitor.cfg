SPECIFICATION FairSpec
CONSTANTS
  Devices = {1, 2}
  HEADER = 2
  BUFFER_SIZE = 4
  MaxChanges = 2
  MaxFaults = 1
  Preinstalled = {2}
\* The monitor and the threads may all wait for the devices.
CHECK_DEADLOCK FALSE
INVARIANT
  InStep
PROPERTIES
  Follows
  Autostarts
