SPECIFICATION FairSpec
CONSTANTS
    Nodes = {n1}
    ControlPlane = {n1}
    Hardware = {h1, h2}
    None = None
    Neighbour = Neighbour
    Stranger = Stranger
    StaleReads = TRUE
    MaxFaults = 1
    Outsiders = TRUE
INVARIANTS TypeOK IInv ReadyImpliesProviderID
PROPERTIES ProviderIDStable DeletionHangsOnlyWhenReused ExternalDeletionNoticed
