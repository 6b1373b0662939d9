\* Logs that begin in the middle of a dma.
SPECIFICATION Spec
CONSTANTS
  Machines = {1}
  None = None
  NoWire = NoWire
  Wires = {"up", "down"}
  Window = TRUE
  Scripts <- CutScripts
INVARIANTS
  RightParent
CHECK_DEADLOCK FALSE
