CONSTANTS
  p1 = p1
  p2 = p2
  b0 = b0
  f0 = f0
  none = none
  PubKeys = {p1, p2}
  BadKey = b0
  Foreign = f0
  None = none
  Amounts = {0, 1}
  MaxOutputs = 2
  MaxExtraKeys = 2
SPECIFICATION Spec
INVARIANT TypeOK
INVARIANT ScanMatchesReference
