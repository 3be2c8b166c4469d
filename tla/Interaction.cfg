SPECIFICATION FairSpec
CONSTANTS
  Attrs <- MCAttrs
  Lists <- MCLists
  Value <- MCValue
  HiddenSets <- MCHiddenSets
  Item = "off"
  Ops <- MCOps
  MaxDups = 1
  MaxPrefix = 2
  None = None
INVARIANT ReadExact
INVARIANT Truthful
INVARIANT TransportsAgree
PROPERTY CommandEnds
CHECK_DEADLOCK FALSE
