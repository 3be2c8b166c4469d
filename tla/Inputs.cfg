CONSTANTS
  ByteBits = 2
  Revisions <- MCRevisions
  IntValues <- MCIntValues
  UintValues <- MCUintValues
  Lengths <- MCLengths
  RawElements <- MCRawElements
  Unknown <- MCUnknown
  MaxCounter = 8
  W = 3
  Fabric <- MCFabric
  Specs <- MCSpecs
  Globals <- MCGlobals
  Advertised <- MCAdvertised
  Values <- MCValues
  TypedLines <- MCTypedLines
  ReplLines <- MCReplLines
  Environments <- MCEnvironments
  MaxLine = 5
  MaxRuns = 3
  MaxTabRuns = 2
INIT InputsInit
NEXT InputsNext
CHECK_DEADLOCK FALSE
INVARIANTS RoundTrip CutNotInvented OfferedIsAccepted RightTarget PayloadHonest
PROPERTY IsFilter
