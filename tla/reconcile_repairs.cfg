CONSTANTS
    p1 = p1
    p2 = p2
    a1 = a1
    a2 = a2
    Procs <- TwoProcs
    Janitors <- Janitor
    AppNames <- OneApp
    NoApp = NoApp
    MaxDeployments = 2
    Faults <- WreckFaults
    Options <- BothOptions
SPECIFICATION ReconcileSpec
INVARIANTS ReconcileTypeOK Repairs
PROPERTIES TouchesOnlyBroken RedeploysOnlyWhenDown ImplementsEngine
