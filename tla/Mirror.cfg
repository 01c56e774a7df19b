\* The peer's stream becomes known sooner or later, either stream may be lost, and
\* the receiver may disconnect at any time.
CONSTANTS
  t1 = t1  t2 = t2
  Sender = {t1}
  NumMessages = 3
  Size <- SmallSizes
  HeaderLen = 2
  GarbledLength = {0, 3}
  KnownAtStart = {"self"}
  SplitMessages = TRUE
  MayDisconnect = TRUE
SPECIFICATION FairSpec
INVARIANT TypeOK
INVARIANT TooLateOnlyAfterReset
INVARIANT OffsetStands
INVARIANT NothingHeldBack
PROPERTY ChannelWhileMirrored
PROPERTY DeliveredUnlessLooping
CHECK_DEADLOCK FALSE
