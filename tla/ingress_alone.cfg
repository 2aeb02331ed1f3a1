CONSTANTS
    c1 = c1
    c2 = c2
    Clients <- OneClient
    Ports <- SomePorts
    NoValue = NoValue
    Faults <- NoFaults
    Requests <- SomeRequests
    MaxRetries = 1
    NoCaddy = NoCaddy
    Outages <- NoOutages
SPECIFICATION IngressSpec
INVARIANT PortsSettle
