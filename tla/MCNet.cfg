SPECIFICATION NetSpec
CONSTANTS
  ROOT_TCP_MAX_CONNECTIONS = 2
  ARP_TABLE_SIZE = 2
  PORT_FIRST = 1
  PORT_LAST = 2
  ATTEMPTS_SYN = 2
  Hosts = {"r", "s"}
  Hop <- MC_Hop
  Neighbours = {"g", "s", "x"}
  Macs <- MC_Macs
  MaxWork = 8
  ROOT_UDP_MAX_BINDINGS = 2
  ROOT_DNS_CACHE_SIZE = 2
  EPHEMERAL_FIRST = 1
  EPHEMERAL_LAST = 3
  U32 = 8
  SECOND = 1
  MAX_TTL = 3
  DNS_ATTEMPTS = 2
  HostNames = {"a","b","c"}
  Ids = {1}
  Ttls = {0, 5}
  PacketBytes = {0, 1, 2, 64, 192, 193}
  PacketMax = 6
  MaxClock = 10
  MaxLookups = 3
  Servers = {1, 2}
  Faulty = {2}
  Options = {"server", "router"}
  ATTEMPTS = 2
  WAIT = 1
  RX_MAX = 2
  MaxTransactions = 2
INVARIANTS
  EstablishedWasAsked
  PeerNotMisled
  AnswerToQuestion
  CacheIsFresh
  ParserInBounds
PROPERTIES
  ResetStays
  TcpCallsReturn
  LeaseGranted
  NoLateLease
  AcquireReturns
