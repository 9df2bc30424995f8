\* A ring of four slots and enough messages for two laps and a half.
CONSTANTS
  N_ = 4
  MsgNum = 10
SPECIFICATION FairSpec
INVARIANTS TypeOK NoDataRace InOrder
PROPERTIES NoOverwrite ImplementsFifo Completes
\* Both loops return, and then nothing runs; Completes covers early stops.
CHECK_DEADLOCK FALSE
