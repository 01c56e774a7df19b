\* A RECEIVE event may end inside a message.
CONSTANTS
  t1 = t1  t2 = t2
  Sender = {t1}
  NumMessages = 1
  Size <- OneSize
  HeaderLen = 2
  GarbledLength = {0, 3}
  KnownAtStart = {"peer", "self"}
  SplitMessages = TRUE
  MayDisconnect = FALSE
SPECIFICATION FairSpec
PROPERTY AllDelivered
CHECK_DEADLOCK FALSE
