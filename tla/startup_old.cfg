CONSTANTS
    p1 = p1
    p2 = p2
    p3 = p3
    NoProc = NoProc
    NoSocket = NoSocket
    Procs <- AllProcs
    Migrations <- TheMigrations
    Knows <- OldAndNew
    Explicit <- NoSockets
    Defaults <- NoSockets
    MaxFaults = 0
SPECIFICATION StartupSpec
INVARIANT OldNeverOnNewer
