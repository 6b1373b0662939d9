\* Logs from any point of the simulation on.
SPECIFICATION Spec
CONSTANTS
  Machines = {1}
  None = None
  NoWire = NoWire
  Wires = {"up", "down"}
  Window = TRUE
  Scripts <- WindowScripts
INVARIANTS
  TypeOK
  ParentFits
CHECK_DEADLOCK FALSE
