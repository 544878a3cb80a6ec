CONSTANTS
  StartBlock = 1
  ParallelismArgs = {0, 1, 2}
  MaxHeight = 5
SPECIFICATION Spec
INVARIANT TypeOK
INVARIANT ParallelismBounded
PROPERTY MainTerminates
