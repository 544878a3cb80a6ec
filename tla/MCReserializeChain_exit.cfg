CONSTANTS
  StartBlock = 1
  ParallelismArgs = {1, 2}
  MaxHeight = 5
SPECIFICATION Spec
INVARIANT ExitAfterAllChecked
