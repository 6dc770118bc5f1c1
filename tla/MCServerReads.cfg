SPECIFICATION ReadSpec
CONSTANTS
  Wide = 16
  Half = 8
  Quarter = 4
  Platform = 8
  Null = Null
  Version = {"8.0", "8.2", "8.4"}
  MaxPosition = 2
  NoRow = NoRow
  Reply <- MCReply
  PositionCell <- MCPositionCell
  FitCell <- MCFitCell
  Bound <- MCBound
CHECK_DEADLOCK FALSE
INVARIANT AnswersProve
INVARIANT ErrorHasCause
INVARIANT FactFaithful
INVARIANT FailureNamesRow
INVARIANT BoundsExact
