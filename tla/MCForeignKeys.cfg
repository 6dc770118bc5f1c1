SPECIFICATION FairSpec
CONSTANTS
  a = a
  b = b
  z = z
  p = p
  c = c
  d = d
  lost = lost
  Identity <- MCIdentity
  Target = a
  SplitName <- MCSplitName
  Key <- MCKey
  Malformed <- MCMalformed
  Request <- MCRequest
  MaxParams = 3
  MaxChanges = 2
CHECK_DEADLOCK FALSE
INVARIANT ClosureProof
INVARIANT UnindexedNeedsChange
INVARIANT VerdictGiven
PROPERTY CallReturns
PROPERTY PromiseKept
