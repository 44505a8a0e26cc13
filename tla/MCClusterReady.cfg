SPECIFICATION Spec
CONSTANTS
    Networks = {n1}
    IPs = {i1}
    StaticIPs = {}
    UserHost = UserHost
    None = None
    StaleReads = FALSE
    MaxFaults = 1
\* the object may be gone
CHECK_DEADLOCK FALSE
INVARIANTS ReadyImpliesNetwork
