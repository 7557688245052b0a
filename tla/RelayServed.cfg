SPECIFICATION FairSpec
CONSTANTS
  Clients = {0, 1}
  Conns = {k1}
  Tokens = {t1, t2, t3}
  TcpIds = {}
  UdpIds = {udp}
  ID_LENGTH = 1
  PartialId = FALSE
  None = None
PROPERTY ConnectedIsServed
CHECK_DEADLOCK FALSE
