SPECIFICATION FairSpec
CONSTANTS
    Hardware = {h1, h2, h3}
    Networks = {n1}
    None = None
    MaxFaults = 3
INVARIANTS TypeOK IInv FirewallsFreedBeforeRemoval ReferenceIsAllocated SingleFirewall
PROPERTIES KeepsContract FirewallComesUp DeletionHangsOnlyWhenBlocked
