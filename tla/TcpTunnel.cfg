SPECIFICATION Spec
CONSTANTS
  SeqSpace = 8
  Headers = 1
  MaxPayload = 2
  StreamCapacity = 3
  ClientCapacity = 3
  MaxWindow = 2
  DeviceIsn = 6
  RelayIsns = {6}
  DeviceBytes = 2
  ServerBytes = 2
  InFlight = 1
  Spurious = TRUE
  HandshakeFin = FALSE
INVARIANTS
  TypeOK
  NoPendingOverrun
  NoLostWakeup
  RegisteredWhilePending
  AckIsWritten
  WrittenInOrder
  AckedIsWritten
  WithinWindow
  SegmentsMatch
  WindowRespected
CHECK_DEADLOCK FALSE
