SPECIFICATION FairSpec
CONSTANTS
  Tunnels = {1, 2, 3, 4}
  None = None
\* The workers end when the client stops.
CHECK_DEADLOCK FALSE
INVARIANTS
  TypeOK
  OneTunnel
  ListenerAgrees
PROPERTIES
  ClosesOnlyBroken
  Stops
  Reconnects
