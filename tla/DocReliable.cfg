\* The second stream becomes known after sending has begun.
CONSTANTS
  t1 = t1  t2 = t2
  Sender = {t1}
  NumMessages = 2
  Size <- TwoSizes
  HeaderLen = 2
  GarbledLength = {0, 3}
  KnownAtStart = {"self"}
  SplitMessages = FALSE
  MayDisconnect = FALSE
SPECIFICATION Spec
INVARIANT InOrder
CHECK_DEADLOCK FALSE
