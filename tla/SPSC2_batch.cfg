\* Copies of three messages from a ring of eight, mixed with messages read in place.
CONSTANTS
  N_ = 8
  BATCH_NUM = 2
  BatchBuf = 3
  MsgNum = 20
SPECIFICATION FairSpec
INVARIANTS TypeOK NoDataRace NoOverwrite NoStaleMessage ConsumerLag NoMutualWait
PROPERTIES ImplementsMendedFifo Completes
\* Both loops return, and then nothing runs; Completes covers early stops.
CHECK_DEADLOCK FALSE
