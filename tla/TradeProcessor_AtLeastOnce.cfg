\* Same bounds; checks that a crash never skips an unhandled message.
CONSTANTS
    m1 = m1
    m2 = m2
    Mints <- MC_Mints
    LogLen = 3
    MaxCrashes = 1
    SchemaHasDecimalColumn = TRUE
SYMMETRY MC_Symmetry
SPECIFICATION Spec
\* The consumer waits in recv() forever once the log is consumed.
CHECK_DEADLOCK FALSE
INVARIANT NoLostMessage
