SPECIFICATION Spec
CONSTANTS
    Nodes = {n1}
    ControlPlane = {}
    Hardware = {h1, h2}
    None = None
    Neighbour = Neighbour
    Stranger = Stranger
    StaleReads = FALSE
    MaxFaults = 1
    Outsiders = FALSE
\* every object may be gone
CHECK_DEADLOCK FALSE
INVARIANTS NoMachineLeak
