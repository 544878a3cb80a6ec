CONSTANTS
  v1 = v1
  v2 = v2
  v3 = v3
  v4 = v4
  bA = bA
  bB = bB
  bBad = bBad
  bHdr = bHdr
  bBody = bBody
  t1 = t1
  NoBlock = NoBlock
  Validators = {v1, v2, v3, v4}
  Byzantine = {v4}
  Weight <- MCWeight
  Robin <- MCRobin
  Height = 3
  MaxRound = 2
  Blocks = {bA, bB, bBad, bHdr, bBody}
  HeaderMalformed = {bHdr}
  BodyMalformed = {bBody}
  LedgerInvalid = {bBad}
  Txs = {t1}
  Needs <- MCNeeds
SPECIFICATION Spec
INVARIANT MalformedProposalRejected
