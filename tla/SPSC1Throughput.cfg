\* A ring of four slots, and messages for two laps and a half.
CONSTANTS
  N_ = 4
  MsgNum = 10
SPECIFICATION FairSpec
INVARIANTS LastValueStored
PROPERTIES ImplementsThroughput
\* Every thread ends, and then nothing runs.
CHECK_DEADLOCK FALSE
