SPECIFICATION Spec
CONSTANTS
    Nodes = {n1}
    ControlPlane = {n1}
INVARIANTS SleepsOnlyForFirewall
