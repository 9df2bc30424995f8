\* One producer, two anycast consumers, on a correct queue.
CONSTANTS
  P = 1
  C = 2
  N = 4
  Capacity = 2
  Vendor = "atomic_queue"
  MaxFailures = 0
SPECIFICATION Spec
INVARIANT NoFalseAlarm
\* Every thread ends, and then nothing runs.
CHECK_DEADLOCK FALSE
