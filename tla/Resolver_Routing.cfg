\* Two sockets, Redis healthy: checks where the price requests are sent.
SPECIFICATION Spec
CONSTANTS
    c1 = c1
    c2 = c2
    Clients <- MC_Clients
    ReqCap = 1
    RedisCanFail = FALSE
INVARIANT PriceReqRoutable
\* The loop waits on req_handler forever once the sockets are done.
CHECK_DEADLOCK FALSE
