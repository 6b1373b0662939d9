\* All operations, from three callers, on a list of at most two values.
SPECIFICATION FairSpec
CONSTANTS
  a = a
  b = b
  c = c
  MaxSize = 2
  Procs = {a, b, c}
  Values = {v1, v2}
  Usage <- AnyUsage
  Free = Free
  NoOp = NoOp
  NoValue = NoValue
  Pending = Pending
  Accepted = Accepted
  Refused = Refused
  Done = Done
INVARIANTS
  NoLostWakeup
PROPERTIES
  ImplementsFifo
  PopIsServed
