\* Two latency benchmarks of one suite that differ in the threads that play alone.
CONSTANTS
  Creators <- OneOrTwoThreads
  iteration_num_ = 2
  MinIterations = 2
  Calls <- OneCall
  Figures = {3}
  Parts = 2
  to_string <- Decimal
SPECIFICATION Spec
INVARIANTS NoQueueBlamed
\* The program ends after the last call, or with an exception.
CHECK_DEADLOCK FALSE
