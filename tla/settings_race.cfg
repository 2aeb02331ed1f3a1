CONSTANTS
    c1 = c1
    c2 = c2
    Clients <- TwoClients
    Ports <- SomePorts
    NoValue = NoValue
    Faults <- NoFaults
SPECIFICATION SettingsSpec
INVARIANT StoredPortsDiffer
