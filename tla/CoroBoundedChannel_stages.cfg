\* A pushing stage, a popping stage, and a runner that ends the channel.
SPECIFICATION FairSpec
CONSTANTS
  a = a
  b = b
  c = c
  Procs = {a, b, c}
  Values = {v1, v2}
  Usage <- StageUsage
  Capacity = 2
  Free = Free
  NoOp = NoOp
  NoValue = NoValue
  Pending = Pending
  Accepted = Accepted
  Refused = Refused
  Done = Done
PROPERTIES
  EndReleasesAll
  StagesNeverStuck
