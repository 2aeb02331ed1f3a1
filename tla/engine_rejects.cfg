CONSTANTS
    p1 = p1
    p2 = p2
    a1 = a1
    a2 = a2
    Procs <- OneProc
    AppNames <- OneApp
    NoApp = NoApp
    MaxDeployments = 2
    Faults <- MarkOnly
SPECIFICATION Spec
INVARIANT RejectsOnlyAsDocumented
