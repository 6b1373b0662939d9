SPECIFICATION Spec
CONSTANTS
  a = a
  b = b
  Spanners = {a, b}
  MaxSpans = 4
  MaxContexts = 2
  NoSpanner = NoSpanner
  Nothing = Nothing
SYMMETRY Symmetry
INVARIANT
  InTraceOfParent
CHECK_DEADLOCK FALSE
