\* One sending thread; a Disconnect; the last packet makes the sender's number wrap around.
CONSTANTS
  t1 = t1  t2 = t2
  Sender = {t1}
  NumPackets = 5
  NumMod = 4
  MaxSendLength = 10
  Length <- FiveLengths
  MayFail = TRUE
  MayDisconnect = TRUE
SPECIFICATION Spec
INVARIANT TypeOK
PROPERTY ChannelUntilReset
CHECK_DEADLOCK FALSE
