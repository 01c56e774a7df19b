\* Any of the streams may fail to open; a Reset at either end at any time.
CONSTANTS
  NumChannels = 2
  NumSends = 2
  OpenMayFail = TRUE
  MayLose = TRUE
SPECIFICATION FairSpec
INVARIANT TypeOK
INVARIANT OwnChannel
INVARIANT OpenWhileBothUse
PROPERTY AllClosed
CHECK_DEADLOCK FALSE
