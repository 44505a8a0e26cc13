SPECIFICATION Spec
CONSTANTS
    Nodes = {n1}
    MachineServers = {s1}
    FirewallServers = {f1}
    Networks = {k1, k2}
    UserHost = UserHost
    None = None
    StaleReads = FALSE
    MaxFaults = 1
\* everything may be gone
CHECK_DEADLOCK FALSE
SYMMETRY NetworkSymmetry
CONSTRAINT AtMostOneFault
INVARIANTS IInv NetworkOutlivesServers
PROPERTIES ClusterAsAssumed FirewallAsAssumed MachineAsAssumed ClusterGoesLast
