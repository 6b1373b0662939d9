\* All operations, from three callers, on a channel of two slots.
SPECIFICATION Spec
CONSTANTS
  a = a
  b = b
  c = c
  Procs = {a, b, c}
  Values = {v1, v2}
  Usage <- AnyUsage
  Capacity = 2
  Free = Free
  NoOp = NoOp
  NoValue = NoValue
  Pending = Pending
  Accepted = Accepted
  Refused = Refused
  Done = Done
SYMMETRY Symmetry
INVARIANTS
  TypeOK
  RingConsistent
  NoLostWakeup
PROPERTY
  ImplementsFifo
