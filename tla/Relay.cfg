SPECIFICATION Spec
CONSTANTS
  Clients = {0, 1}
  Conns = {k1, k2}
  Tokens = {t1, t2, t3, t4}
  TcpIds = {tcp}
  UdpIds = {udp1, udp2}
  ID_LENGTH = 2
  PartialId = TRUE
  None = None
SYMMETRY Symmetry
INVARIANTS
  TypeOK
  DispatchesToOwner
  LookupsSucceed
  RegisteredIsRouted
  NothingKeptAlive
  BytesAreWatched
PROPERTY CleansTheIdle
CHECK_DEADLOCK FALSE
