SPECIFICATION OutputSpec
CONSTANTS
  Base = 4
  Version4 = 2
  Packets <- MCPackets
  BUFSIZE = 16
  MaxPackets = 4
  MaxTunnels = 1
INVARIANT WritesWholePackets
\* The relay may have nothing more to send.
CHECK_DEADLOCK FALSE
