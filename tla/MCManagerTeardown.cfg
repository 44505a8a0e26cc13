SPECIFICATION FairSpec
CONSTANTS
    Nodes = {n1}
    MachineServers = {s1}
    FirewallServers = {f1}
    Networks = {k1}
    UserHost = UserHost
    None = None
    StaleReads = FALSE
    MaxFaults = 1
\* everything may be gone
CHECK_DEADLOCK FALSE
CONSTRAINTS AtMostTwoFaults NotStuck
PROPERTIES TeardownHangsOnlyWhenBlocked
