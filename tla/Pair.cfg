\* Two endpoints that both connect; Bind may fail.
CONSTANTS
  a = a  b = b  c = c  h1 = h1  h2 = h2  None = None
  Endpoint = {a, b}
  Host = {h1, h2}
  HostOf <- PairHosts
  NumSlots = 1
  ClientPort = {p1}
  ConnId = {k1, k2}
  Retry = 1
  ShortStop = 1
  LongStop = 2
  RefMod = 8
  Wants <- PairWants
  BusySets <- NoneBusy
  BindMayFail = TRUE
SPECIFICATION FairSpec
INVARIANT TypeOK
PROPERTY HandshakeEnds
CHECK_DEADLOCK FALSE
