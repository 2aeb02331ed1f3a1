CONSTANTS
    c1 = c1
    c2 = c2
    a1 = a1
    a2 = a2
    h1 = h1
    k1 = k1
    NoApp = NoApp
    NoHost = NoHost
    Keep = Keep
    NoRow = NoRow
    Clients <- TwoClients
    AppNames <- OneApp
    Hosts <- NoHosts
    Keys <- NoKeys
    MaxDeployments = 1
    Kinds <- DeployKinds
    Faults <- NoFaults
SPECIFICATION StoreSpec
PROPERTY FinalStays
