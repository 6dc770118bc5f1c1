SPECIFICATION GroupSpec
CONSTANTS
  Member = {self, peer}
  Self = self
  Anonymous = anonymous
  MaxChanges = 3
CHECK_DEADLOCK FALSE
INVARIANT PassedProves
INVARIANT QuietVerdictExact
INVARIANT NameProvesMoment
