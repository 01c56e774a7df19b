\* A context whose connections are closed still counts references.
CONSTANTS
  a = a  b = b  c = c  h1 = h1  h2 = h2  None = None
  Endpoint = {a, b}
  Host = {h1, h2}
  HostOf <- PairHosts
  NumSlots = 1
  ClientPort = {p1, p2}
  ConnId = {k1, k2}
  Retry = 1
  ShortStop = 1
  LongStop = 2
  RefMod = 8
  Wants <- OneWant
  BusySets <- NoneBusy
  BindMayFail = FALSE
SPECIFICATION Spec
INVARIANT BothClosedMeansClean
SYMMETRY Symmetry
CHECK_DEADLOCK FALSE
