SPECIFICATION Spec
CONSTANTS
  id = id
  Id = Id
  qty = qty
  ix = ix
  IX = IX
  none = none
  noDefault = noDefault
  empty = empty
  now = now
  Fold <- MCFold
  NoName = none
  NoDefault = noDefault
  ComparedSpec <- SharedSpec
INVARIANT EmptyMeansSame
