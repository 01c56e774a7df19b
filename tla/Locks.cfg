\* Two remotes, packets and calls of ConnectTo in any mixture, on one context.
CONSTANTS
  r1 = r1  r2 = r2
  c1 = c1  c2 = c2
  Remote = {r1, r2}
  ConnId = {c1, c2}
  Nobody = Nobody
  RefMod = 4
  NumRequests = 2
  NumDatagrams = 1
  CallsBack <- None
  MayLoop = TRUE
  ConfigMayFail = FALSE
SPECIFICATION FairSpec
INVARIANT TypeOK
INVARIANT ContextHoldsOnlyOpen
INVARIANT WaitsEnd
PROPERTY NotGivenAway
PROPERTY NoThreadStuck
PROPERTY HandshakeEnds
CHECK_DEADLOCK FALSE
