\* Two threads on each side, two round trips each, queues of one message.
CONSTANTS
  P = 2
  T = 2
  N = 5
  Capacity = 1
SPECIFICATION FairSpec
INVARIANTS TypeOK OneBall JoinedBeforeBall RoundTripsAddUp
PROPERTIES ImplementsRun
\* Every thread ends, and then nothing runs.
CHECK_DEADLOCK FALSE
