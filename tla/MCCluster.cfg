SPECIFICATION FairSpec
CONSTANTS
    Networks = {n1, n2}
    IPs = {i1, i2, i3}
    StaticIPs = {i3}
    UserHost = UserHost
    None = None
    StaleReads = TRUE
    MaxFaults = 1
\* the object may be gone
CHECK_DEADLOCK FALSE
INVARIANTS TypeOK IInv NetworkIsAllocated NoNetworkLeak ReadyImpliesNetworkUnlessLost ReadyImpliesAdopted
PROPERTIES StaticIPsKept ReleaseOrder IdentityStable BecomesReady DeletionHangsOnlyWhenBlocked
