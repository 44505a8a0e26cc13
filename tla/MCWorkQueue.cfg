SPECIFICATION Spec
CONSTANTS
    Nodes = {n1}
    ControlPlane = {n1}
INVARIANTS IInv MachinesAreWoken FirewallIsWoken ClusterIsWoken
