\* Logs from the beginning of the simulation, up to any point.
SPECIFICATION Spec
CONSTANTS
  Machines = {1}
  None = None
  NoWire = NoWire
  Wires = {"up", "down"}
  Window = FALSE
  Scripts <- MachineScripts
INVARIANTS
  OneOperation
  RightParent
  NeverTerminates
  EndsInStep
  PacketsInOrder
PROPERTIES
  EveryEventHandled
CHECK_DEADLOCK FALSE
