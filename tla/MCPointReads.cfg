SPECIFICATION Spec
CONSTANTS
  items = items
  Items = Items
  supplementary = supplementary
  id = id
  ID = ID
  note = note
  NoColumn = NoColumn
  Absent = Absent
  EmptyName = EmptyName
  Name <- MCName
  Folded <- Exact
  Unrepresentable = {supplementary}
  Option <- MCOption
  Request <- MCRequest
  Expected <- MCExpected
  ColumnFold <- MCColumnFold
  Event = "DELETE"
  ByteRank <- MCByteRank
  ServerRank <- MCServerRank
  MaxPointLookup = 1
  MaxChanges = 2
CHECK_DEADLOCK FALSE
INVARIANT ShapeNeverDecides
INVARIANT ClearedMeansFit
INVARIANT ClearedWhenRead
INVARIANT CaseIsOneFinding
INVARIANT TriggerOrdersAgree
