\* Fewer messages than anycast consumers.
CONSTANTS
  P = 1
  C = 2
  N = 1
  Capacity = 2
  Vendor = "mgark"
  MaxFailures = 0
SPECIFICATION FairSpec
PROPERTIES Completes
\* Every thread ends, and then nothing runs.
CHECK_DEADLOCK FALSE
