\* Two endpoints of one host connect to a third, which has two slots.
CONSTANTS
  a = a  b = b  c = c  h1 = h1  h2 = h2  None = None
  Endpoint = {a, b, c}
  Host = {h1, h2}
  HostOf <- SharedHosts
  NumSlots = 2
  ClientPort = {p1, p2}
  ConnId = {k1}
  Retry = 1
  ShortStop = 1
  LongStop = 1
  RefMod = 8
  Wants <- FanWants
  BusySets <- NoneBusy
  BindMayFail = FALSE
SPECIFICATION Spec
INVARIANT GenuinePorts
INVARIANT RightPeer
PROPERTY EstablishedStays
PROPERTY TableSpec
PROPERTY ReservesFree
SYMMETRY Symmetry
CHECK_DEADLOCK FALSE
