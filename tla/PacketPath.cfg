SPECIFICATION Spec
CONSTANTS
  Streams <- MCStreams
  Payloads <- MCPayloads
  Numbers <- MCNumbers
  Flags <- MCFlags
  MAX_PACKET_LENGTH = 45
INVARIANTS
  TypeOK
  DeliversWhatWasSent
  DataMatchesRaw
  ChecksumsVerify
  AnswersTheReference
CHECK_DEADLOCK FALSE
