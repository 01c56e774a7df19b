\* Packets arrive while the destructor runs; wait_for wakes up spuriously.
CONSTANTS
  c1 = c1  c2 = c2  c3 = c3
  NumSlots = 2
  ConnId = {c1, c2, c3}
  RefMod = 8
  LatePackets = TRUE
  SpuriousWakeups = TRUE
  StartMayFail = TRUE
  CloseWakes = TRUE
SPECIFICATION FairSpec
INVARIANT TypeOK
INVARIANT CountIsExact
PROPERTY PastJoinEnds
CHECK_DEADLOCK FALSE
