SPECIFICATION Spec
CONSTANTS
  MaxULong = 255
  MaxInt = 127
  Words <- Letters
  Components = {}
  Simulators <- Sources
  Lines <- AllLines
  Dumps <- TheDumps
  TypesToFilter <- DroppedTypes
  BlacklistFunctions <- DroppedFunctions
  lower <- LowerText
  upper <- UpperText
INVARIANTS
  LinesUnderstood
  ReadBackExact
  EqualIsIdentity
