CONSTANTS
    c1 = c1
    c2 = c2
    Clients <- TwoClients
    Ports <- SomePorts
    NoValue = NoValue
    Faults <- AllFaults
    Requests <- SomeRequests
    MaxRetries = 1
    NoCaddy = NoCaddy
    Outages <- AllOutages
SPECIFICATION IngressFairSpec
INVARIANT IngressTypeOK UpDelivers
PROPERTY AllOrNothing UpKeepsCaddy UpEnds
