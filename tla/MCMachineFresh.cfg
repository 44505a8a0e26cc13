SPECIFICATION Spec
CONSTANTS
    Nodes = {n1, n2}
    ControlPlane = {n2}
    Hardware = {h1, h2}
    None = None
    Neighbour = Neighbour
    Stranger = Stranger
    StaleReads = FALSE
    MaxFaults = 2
    Outsiders = FALSE
\* every object may be gone
CHECK_DEADLOCK FALSE
INVARIANTS IInv RecordedMachineFreed ServerLostToDeletion
PROPERTIES KeepsContract
