\* A reliable packet whose sends succeed, one whose sends may fail, and a
\* datagram that may fail or be cancelled.
CONSTANTS
  r = r  u = u  v = v
  Packet = {r, u, v}
  Reliable = {r, v}
  Failing = {u, v}
  Cancelable = {u}
SPECIFICATION FairSpec
INVARIANT TypeOK
INVARIANT NoUseAfterFree
INVARIANT FreedOnce
INVARIANT DoneMeansFreed
PROPERTY FreedUnlessLeaked
CHECK_DEADLOCK FALSE
