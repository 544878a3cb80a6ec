CONSTANTS
  v1 = v1
  v2 = v2
  v3 = v3
  Robins <- MCRobins
  MaxBlock = 6
  MaxRound = 6
SPECIFICATION Spec
INVARIANT TypeOK
INVARIANT EveryValidatorProposesAtStuckHeight
