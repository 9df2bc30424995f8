\* Three producers and two consumers, multicast or anycast, a queue that fills
\* up; as anycast consumers they leave one message unread.
CONSTANTS
  P = 3
  C = 2
  N = 9
  Capacity = 3
  Vendor = "mgark"
  MaxFailures = 1
SPECIFICATION FairSpec
INVARIANTS TypeOK JoinedBeforeMessages NoFalseAlarm TotalsAddUp
PROPERTIES ImplementsRun
\* Every thread ends, and then nothing runs.
CHECK_DEADLOCK FALSE
