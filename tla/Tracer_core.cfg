SPECIFICATION Spec
CONSTANTS
  a = a
  b = b
  Spanners = {a, b}
  MaxSpans = 4
  MaxContexts = 1
  NoSpanner = NoSpanner
  Nothing = Nothing
SYMMETRY Symmetry
INVARIANTS
  TypeOK
  NeverTerminates
  WaitsForParent
  AllExported
  NoTraceLeaks
  TracesAreTrees
CHECK_DEADLOCK FALSE
