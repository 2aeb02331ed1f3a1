CONSTANTS
    p1 = p1
    p2 = p2
    p3 = p3
    NoProc = NoProc
    NoSocket = NoSocket
    Procs <- AllProcs
    Migrations <- TheMigrations
    Knows <- OldAndNew
    Explicit <- TheVariables
    Defaults <- TheDefaults
    MaxFaults = 1
SPECIFICATION FairStartup
INVARIANTS StartupTypeOK SchemaWhole OpenIsCurrent OldKeepsOut ExplicitIsFinal
PROPERTY SchemaReached
