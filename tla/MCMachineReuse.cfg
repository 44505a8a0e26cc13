SPECIFICATION Spec
CONSTANTS
    Nodes = {n1, n2}
    ControlPlane = {n1}
    Hardware = {h1}
    None = None
    Neighbour = Neighbour
    Stranger = Stranger
    StaleReads = FALSE
    MaxFaults = 0
    Outsiders = FALSE
PROPERTIES FreesOwnMachine
