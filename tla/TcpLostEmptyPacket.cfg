SPECIFICATION FairSpec
CONSTANTS
  SeqSpace = 8
  Headers = 1
  MaxPayload = 2
  StreamCapacity = 3
  ClientCapacity = 3
  MaxWindow = 2
  DeviceIsn = 6
  RelayIsns = {6}
  DeviceBytes = 0
  ServerBytes = 0
  InFlight = 1
  Spurious = FALSE
  HandshakeFin = FALSE
PROPERTY
  SynIsAnswered
CHECK_DEADLOCK FALSE
