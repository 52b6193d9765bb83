\* Three requests issued in the order c1, c2, c3, none tracking an RLL
\* pool-state, no shutdown.
CONSTANTS
    c1 = c1
    c2 = c2
    c3 = c3
    Clients <- MC_Clients
    RllClients <- MC_NoRll
    CmdCap = 2
    EventCap = 1
    ShutdownCaller = FALSE
SPECIFICATION Spec
\* The manager legitimately blocks on recv() forever once callers are done.
CHECK_DEADLOCK FALSE
INVARIANT LatestRequestInstalled
