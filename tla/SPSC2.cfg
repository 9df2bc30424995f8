\* Copies of three messages from a ring of eight, mixed with messages read in place, none over the end.
CONSTANTS
  N_ = 8
  BATCH_NUM = 2
  BatchBuf = 3
  MsgNum = 20
SPECIFICATION InsideSpec
INVARIANTS InOrder
PROPERTIES ImplementsFifo
\* Both loops return, and then nothing runs; where the next copy would run over the end of the
\* ring, the execution stops.
CHECK_DEADLOCK FALSE
