\* One batch per lap: BATCH_NUM = 1 is a power of two.
CONSTANTS
  N_ = 4
  BATCH_NUM = 1
  BatchBuf = 2
  MsgNum = 6
SPECIFICATION FairSpec
PROPERTIES Completes
CHECK_DEADLOCK FALSE
