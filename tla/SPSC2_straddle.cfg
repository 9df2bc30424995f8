\* A copy of two messages that starts in the last slot runs over the end of the ring.
CONSTANTS
  N_ = 4
  BATCH_NUM = 2
  BatchBuf = 2
  MsgNum = 5
SPECIFICATION Spec
INVARIANT LastValueArrives
\* Both loops return, and then nothing runs; Completes covers early stops.
CHECK_DEADLOCK FALSE
