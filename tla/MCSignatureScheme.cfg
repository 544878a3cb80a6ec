CONSTANTS
  g1 = g1
  g2 = g2
  k1 = k1
  k2 = k2
  kb = kb
  m1 = m1
  m2 = m2
  m3 = m3
  n1 = n1
  Unparseable = Unparseable
  Chains = {g1, g2}
  Keys = {k1, k2, kb}
  Byzantine = {kb}
  Msgs = {m1, m2, m3}
  AdvNonces = {n1}
  Members <- MCMembers
SPECIFICATION Spec
INVARIANT NoKeyExtraction
INVARIANT Unforgeable
