----------------------- MODULE MC_SubscriptionManager -----------------------
(* Instantiation of SubscriptionManager for TLC.                           *)
EXTENDS SubscriptionManager, TLC

CONSTANTS c1, c2, c3

MC_Clients == {c1, c2, c3}
\* No tracked RLL pool-state: the decoders used cannot panic.
MC_NoRll == {}
\* c1 tracks an RLL pool-state (as a price_req for an RLL token would).
MC_OneRll == {c1}

\* The order in which the callers' requests were issued: main's initial
\* update, then the price_req messages in the order the consumer read them.
MC_IssueOrder == <<c1, c2, c3>>

(***************************************************************************)
(* LatestRequestInstalled (spec §4.6: a price request tells the           *)
(* subscription manager to start tracking its market): once every        *)
(* request has been answered and the manager is idle, the installed      *)
(* account set is that of the latest-issued request answered Ok.  main   *)
(* and handle_message (kafka_consumer.rs:74) each tokio::spawn the call  *)
(* to update_subscription, so the Updates reach the command channel in   *)
(* whatever order the tasks run.                                          *)
(***************************************************************************)
LatestRequestInstalled ==
    LET oks == {i \in DOMAIN MC_IssueOrder : result[MC_IssueOrder[i]] = "ok"}
    IN  (/\ \A c \in Clients : cstate[c] = "done"
         /\ mstate = "recv" /\ oks # {})
        => accts[current] = MC_IssueOrder[CHOOSE i \in oks : \A j \in oks : j <= i]

=============================================================================
