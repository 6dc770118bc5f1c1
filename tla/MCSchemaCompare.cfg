SPECIFICATION CompareSpec
CONSTANTS
  items = items
  Items = Items
  id = id
  name = name
  full = full
  PRIMARY = PRIMARY
  ix = ix
  chk = chk
  fk = fk
  other = other
  none = none
  noDefault = noDefault
  now = now
  Requested = items
  Variant = Items
  Definition <- MCDefinition
  Neighbour <- MCNeighbour
  Loose = TRUE
  Rank <- MCRank
  MaxDdl = 2
  DestinationDefinition <- MCDestinationDefinition
  DestinationMaxDdl = 1
  Fold <- MCFold
  NoName = none
  NoDefault = noDefault
CHECK_DEADLOCK FALSE
INVARIANT RowsFaithful
INVARIANT QuietSpecExact
INVARIANT SectionsInOrder
INVARIANT AgreementExact
INVARIANT AgreementOfMoments
