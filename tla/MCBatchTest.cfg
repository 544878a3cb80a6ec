CONSTANTS
  none = none
  None = none
  COORDINATORS = 5
  THRESHOLD = 3
SPECIFICATION Spec
INVARIANT TypeOK
INVARIANT AssertionsHold
INVARIANT LinksDrainedBetweenBatches
PROPERTY TestCompletes
CHECK_DEADLOCK FALSE
