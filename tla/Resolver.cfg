\* Two sockets, a request channel of one slot, Redis commands that may fail.
SPECIFICATION Spec
CONSTANTS
    c1 = c1
    c2 = c2
    Clients <- MC_Clients
    ReqCap = 1
    RedisCanFail = TRUE
INVARIANT TypeOK
PROPERTY RequestsEventuallyHandled
\* The loop waits on req_handler forever once the sockets are done.
CHECK_DEADLOCK FALSE
