\* Three callers (c1 tracks an RLL pool-state), command channel 2, event channel 1,
\* shutdown available.
CONSTANTS
    c1 = c1
    c2 = c2
    c3 = c3
    Clients <- MC_Clients
    RllClients <- MC_OneRll
    CmdCap = 2
    EventCap = 1
    ShutdownCaller = TRUE
SPECIFICATION Spec
\* The manager legitimately blocks on recv() forever once callers are done.
CHECK_DEADLOCK FALSE
INVARIANT TypeOK NoLeakedTask NoSwapGap
PROPERTY ImplementsService
