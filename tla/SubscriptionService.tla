------------------------- MODULE SubscriptionService -------------------------
(***************************************************************************)
(* What the account-subscription service promises its callers, at the     *)
(* level of SubscriptionManagerHandle (spec §4.3): there is at most one    *)
(* live subscription, `sub`, the account set of some caller.  An Update    *)
(* either replaces it atomically by the caller's set and answers Ok, or    *)
(* leaves it as it was and answers Err; Shutdown leaves no subscription,   *)
(* after which every call fails.  Every waiting caller is answered.        *)
(* SubscriptionManager refines this specification.                        *)
(***************************************************************************)
CONSTANTS
    Clients,    \* tasks that call update_subscription
    NoClient    \* no subscription installed

VARIABLES
    cstate,     \* caller: "start" | "waiting" | "done"
    result,     \* what its update_subscription returned
    sub,        \* whose account set the live subscription streams
    stopped     \* whether the manager has shut down

avars == <<cstate, result, sub, stopped>>

Answer(c, r) ==
    /\ cstate[c] = "waiting"
    /\ cstate' = [cstate EXCEPT ![c] = "done"]
    /\ result' = [result EXCEPT ![c] = r]

\* The command is queued (cmd_tx.send succeeds).
Call(c) ==
    /\ cstate[c] = "start"
    /\ ~stopped
    /\ cstate' = [cstate EXCEPT ![c] = "waiting"]
    /\ UNCHANGED <<result, sub, stopped>>

\* "Manager disconnected".
CallFails(c) ==
    /\ cstate[c] = "start"
    /\ stopped
    /\ cstate' = [cstate EXCEPT ![c] = "done"]
    /\ result' = [result EXCEPT ![c] = "err"]
    /\ UNCHANGED <<sub, stopped>>

\* The new subscription became stable: swap and answer Ok(()).
Install(c) ==
    /\ ~stopped
    /\ Answer(c, "ok")
    /\ sub' = c
    /\ UNCHANGED stopped

\* "Failed to reach stability": the prior subscription continues.
Reject(c) ==
    /\ ~stopped
    /\ Answer(c, "err")
    /\ UNCHANGED <<sub, stopped>>

\* Shutdown: the current subscription is torn down.
Stop ==
    /\ ~stopped
    /\ sub' = NoClient
    /\ stopped' = TRUE
    /\ UNCHANGED <<cstate, result>>

\* "Response channel closed": a call queued when the manager stopped.
Drop(c) ==
    /\ stopped
    /\ Answer(c, "err")
    /\ UNCHANGED <<sub, stopped>>

Init ==
    /\ cstate = [c \in Clients |-> "start"]
    /\ result = [c \in Clients |-> "none"]
    /\ sub = NoClient
    /\ stopped = FALSE

Next ==
    \/ \E c \in Clients : Call(c) \/ CallFails(c) \/ Install(c) \/ Reject(c)
                          \/ Drop(c)
    \/ Stop

\* A waiting caller is eventually answered, one way or another.
Spec ==
    /\ Init /\ [][Next]_avars
    /\ \A c \in Clients :
         WF_avars(Install(c) \/ Reject(c) \/ Drop(c))

=============================================================================
