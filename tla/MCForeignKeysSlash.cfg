SPECIFICATION Spec
CONSTANTS
  a = a
  b = b
  z = z
  p = p
  c = c
  d = d
  lost = lost
  Identity <- SlashIdentity
  Target = z
  SplitName <- SlashSplitName
  Key <- SlashKey
  Malformed = {}
  Request <- SlashRequest
  MaxParams = 3
  MaxChanges = 0
CHECK_DEADLOCK FALSE
INVARIANT CompleteIsRegistry
