\* Two benchmarks, three rounds; go called twice for as many messages, and then for more.
CONSTANTS
  Creators <- Crowded
  iteration_num_ = 3
  MinIterations = 2
  Calls <- ThreeCalls
  Figures = {3, 4}
  Parts = 2
  to_string <- Decimal
SPECIFICATION Spec
INVARIANTS TypeOK Balanced EveryRunFiled PercentilesRight RowsDescribeRuns
\* The program ends after the last call, or with an exception.
CHECK_DEADLOCK FALSE
