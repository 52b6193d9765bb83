\* c1 tracks an RLL pool-state whose account snapshot may be short.
CONSTANTS
    c1 = c1
    c2 = c2
    c3 = c3
    Clients <- MC_Clients
    RllClients <- MC_OneRll
    CmdCap = 2
    EventCap = 2
    ShutdownCaller = TRUE
SPECIFICATION Spec
\* The manager legitimately blocks on recv() forever once callers are done.
CHECK_DEADLOCK FALSE
INVARIANT NoBlindGap
