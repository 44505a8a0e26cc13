SPECIFICATION Spec
CONSTANTS
    Networks = {n1}
    IPs = {i1, i2}
    StaticIPs = {i2}
    UserHost = UserHost
    None = None
    StaleReads = FALSE
    MaxFaults = 0
\* the object may be gone
CHECK_DEADLOCK FALSE
INVARIANTS NoIPLeak
