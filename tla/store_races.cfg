CONSTANTS
    c1 = c1
    c2 = c2
    a1 = a1
    a2 = a2
    h1 = h1
    k1 = k1
    NoApp = NoApp
    NoHost = NoHost
    Keep = Keep
    NoRow = NoRow
    Clients <- TwoClients
    AppNames <- TwoApps
    Hosts <- OneHost
    Keys <- NoKeys
    MaxDeployments = 1
    Kinds <- AllKinds
    Faults <- AllFaults
SPECIFICATION StoreSpec
INVARIANTS StoreTypeOK HostnamesUnique NoOrphans LogBeginsPending
SYMMETRY Symmetry
