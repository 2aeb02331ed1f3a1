CONSTANTS
    p1 = p1
    p2 = p2
    a1 = a1
    a2 = a2
    Procs <- TwoProcs
    AppNames <- OneApp
    NoApp = NoApp
    MaxDeployments = 3
    Faults <- RecordFaults
SPECIFICATION Spec
SYMMETRY Symmetry
INVARIANTS TypeOK RunningHasContainer
PROPERTIES StatusPath HandsOff ImplementsLife
