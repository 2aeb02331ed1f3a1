CONSTANTS
    c1 = c1
    c2 = c2
    Clients <- OneClient
    Ports <- SomePorts
    NoValue = NoValue
    Faults <- AllFaults
SPECIFICATION SettingsSpec
INVARIANT StoredPortsDiffer
