------------------------------ MODULE Resolver ------------------------------
(***************************************************************************)
(* The token resolver and the price socket that asks it:                   *)
(*   - pub_api ws_price: publish [identifier, channel_id] on req_handler,  *)
(*     then open a pub/sub connection, subscribe to channel_id and wait    *)
(*     for the first message;                                              *)
(*   - handle_price_req, one request at a time: the sismember checks,     *)
(*     resolve_token (resolve_address under a 3 s timeout: up to three    *)
(*     spawned RPC racers awaited in spawn order), then on success the    *)
(*     reply on channel_id, cache_token, cache_stream,                    *)
(*     send_token_for_price_stream and send_token_for_fulfill;            *)
(*   - the Kafka producer that sends each request to its type's topic.    *)
(* Redis pub/sub is fire-and-forget: a message reaches only the           *)
(* connections subscribed when it is published.                            *)
(***************************************************************************)
EXTENDS Integers, Sequences, FiniteSets

CONSTANTS
    Clients,        \* the price sockets (model values)
    ReqCap,         \* capacity of the request channel (10 000 in main.rs)
    RedisCanFail    \* whether a Redis command may fail

NoClient == "none"
Racers == 1..3      \* direct address, bonding-curve PDA, pool PDA
\* What a racer may find: the market kind sets which secondary of
\* EnrichedResolvedToken is Some.
Kinds == {"bc", "pool", "poolState"}
\* resolve_by_bonding_curve: the account's owner makes it a PumpFun bonding
\* curve or a LaunchLab pool state.
FindsByBondingCurve == {"bc", "poolState"}
\* resolve_by_pool: a PumpSwap pool.
FindsByPool == {"pool"}
\* The direct racer tries both lookups in turn; each PDA racer tries one.
FindsOf(k) == CASE k = 1 -> FindsByBondingCurve \cup FindsByPool
                [] k = 2 -> FindsByBondingCurve
                [] OTHER -> FindsByPool
\* "panic": an unwrap() inside the racer; its JoinHandle yields Err.
RacerStates == {"absent", "running", "none", "panic"} \cup Kinds
Results == {"none", "timeout"} \cup Kinds

\* The request types of KReqType and the producer's topic for each.
ReqTypes == {"PriceReqBondingCurve", "PriceReqPool", "PriceReqPoolState",
             "TokenReqFulfill"}
PriceReqOf(kind) == CASE kind = "bc"   -> "PriceReqBondingCurve"
                      [] kind = "pool" -> "PriceReqPool"
                      [] OTHER         -> "PriceReqPoolState"
ReqTopicOf(t) == CASE t = "PriceReqBondingCurve" -> "pumpfun_price_req"
                   [] t = "PriceReqPool"         -> "pumpswap_price_req"
                   [] t = "PriceReqPoolState"    -> "raydium_launchlab_price_req"
                   [] OTHER                      -> "fulfill_req"
\* The topics the account subscriber consumes (kafka_consumer.rs TOPICS).
SubscriberTopics == {"price_req"}
PriceReqTypes == ReqTypes \ {"TokenReqFulfill"}
KindOfReq(t) == CHOOSE k \in Kinds : PriceReqOf(k) = t

VARIABLES
    cl,         \* client -> "idle", "published", "waiting", "got"
    mailbox,    \* client -> a reply is buffered on its pub/sub connection
    inbox,      \* the resolver's req_handler messages, in order
    rstate,     \* handle_price_req's program point
    req,        \* the request being handled
    racer,      \* racer -> its state
    awaiting,   \* the racer resolve_address awaits
    result,     \* resolve_token's outcome for this request
    replied,    \* history: clients a reply was published to
    cached,     \* <<kind, token>>: the tokens:by_<kind> keys
    streams,    \* <<kind, token>>: the subscriptions:by_<kind> keys
    reqq,       \* the request channel to the producer
    produced,   \* history: [topic, type] of the requests sent to Kafka
    latest      \* kind -> the accounts of the last price request of it

vars == <<cl, mailbox, inbox, rstate, req, racer, awaiting,
          result, replied, cached, streams, reqq, produced, latest>>
sinks == <<replied, cached, streams, reqq, produced, latest>>
resolver == <<inbox, rstate, req, racer, awaiting, result>>

Init ==
    /\ cl = [c \in Clients |-> "idle"]
    /\ mailbox = [c \in Clients |-> FALSE]
    /\ inbox = <<>>
    /\ rstate = "init" /\ req = NoClient
    /\ racer = [k \in Racers |-> "absent"] /\ awaiting = 1
    /\ result = "none"
    /\ replied = {} /\ cached = {} /\ streams = {}
    /\ reqq = <<>> /\ produced = {} /\ latest = [k \in Kinds |-> {}]

-----------------------------------------------------------------------------
(* pub_api ws_price.                                                       *)

\* publish_identifier: PUBLISH on req_handler reaches the resolver only if
\* it is subscribed.  Each socket asks for its own token.
PublishIdentifier(c) ==
    /\ cl[c] = "idle"
    /\ cl' = [cl EXCEPT ![c] = "published"]
    /\ inbox' = IF rstate = "init" THEN inbox ELSE Append(inbox, c)
    /\ UNCHANGED <<mailbox, rstate, req, racer, awaiting, result,
                   sinks>>

\* subscribe_for_price: a new connection subscribes to channel_id.
SubscribeForPrice(c) ==
    /\ cl[c] = "published"
    /\ cl' = [cl EXCEPT ![c] = "waiting"]
    /\ UNCHANGED <<mailbox, resolver, sinks>>

\* The first message on channel_id: send_init_price, then the ws:<mint>
\* subscription.
ReceiveInitToken(c) ==
    /\ cl[c] = "waiting" /\ mailbox[c]
    /\ cl' = [cl EXCEPT ![c] = "got"]
    /\ UNCHANGED <<mailbox, resolver, sinks>>

-----------------------------------------------------------------------------
(* handle_price_req.                                                       *)

Goto(p) == rstate' = p

ResolverSubscribed ==
    /\ rstate = "init" /\ Goto("recv")
    /\ UNCHANGED <<cl, mailbox, inbox, req, racer, awaiting,
                   result, sinks>>

Recv ==
    /\ rstate = "recv" /\ inbox # <<>>
    /\ req' = Head(inbox) /\ inbox' = Tail(inbox)
    /\ Goto("check")
    /\ UNCHANGED <<cl, mailbox, racer, awaiting, result, sinks>>

\* The two sismember calls (results unused); a Redis error panics the loop.
Sismember ==
    /\ rstate = "check"
    /\ \/ Goto("resolve")
       \/ RedisCanFail /\ Goto("dead")
    /\ UNCHANGED <<cl, mailbox, inbox, req, racer, awaiting,
                   result, sinks>>

\* resolve_address: the cache and db reads (their results are not used),
\* then the direct racer and, when the input parses as a pubkey, the two
\* PDA racers.
ResolveAddress ==
    /\ rstate = "resolve"
    /\ \E n \in {1, 3} :
        racer' = [k \in Racers |-> IF k <= n THEN "running" ELSE "absent"]
    /\ awaiting' = 1
    /\ Goto("await")
    /\ UNCHANGED <<cl, mailbox, inbox, req, result, sinks>>

\* A racer's RPC lookups end.  Racers are detached tasks: they run on after
\* the deadline, and nothing bounds how long an RPC call takes.
RacerDone(k) ==
    /\ racer[k] = "running"
    /\ \E out \in FindsOf(k) \cup {"none", "panic"} :
        racer' = [racer EXCEPT ![k] = out]
    /\ UNCHANGED <<cl, mailbox, inbox, rstate, req, awaiting, result, sinks>>

\* `for task in rpc_checks { if let Ok(Some(t)) = task.await ... }`: the
\* first racer in spawn order with a token wins; Ok(None) when none has.
AwaitRacer ==
    /\ rstate = "await" /\ racer[awaiting] \notin {"running", "absent"}
    /\ LET k == awaiting
           last == \A j \in k + 1..3 : racer[j] = "absent"
       IN \/ /\ racer[k] \in Kinds
             /\ result' = racer[k] /\ Goto("reply")
             /\ UNCHANGED awaiting
          \/ /\ racer[k] \notin Kinds /\ ~last
             /\ awaiting' = k + 1
             /\ UNCHANGED <<rstate, result>>
          \/ /\ racer[k] \notin Kinds /\ last
             /\ result' = "none" /\ Goto("recv")
             /\ UNCHANGED awaiting
    /\ UNCHANGED <<cl, mailbox, inbox, req, racer, sinks>>

\* Mutant: resolve_token without its deadline.
Deadline_Never == FALSE /\ UNCHANGED vars

\* timeout(3 s, ...) fires: ResolveError::Timeout is logged.
Deadline ==
    /\ rstate \in {"resolve", "await"}
    /\ result' = "timeout" /\ Goto("recv")
    /\ UNCHANGED <<cl, mailbox, inbox, req, racer, awaiting,
                   sinks>>

\* publish_init_token_data: reaches the socket only if it is subscribed
\* now; a failed PUBLISH is logged.
PublishInitTokenData ==
    /\ rstate = "reply"
    /\ \/ mailbox' = [mailbox EXCEPT ![req] = (cl[req] = "waiting")]
       \/ RedisCanFail /\ UNCHANGED mailbox
    /\ replied' = replied \cup {req}
    /\ Goto("cacheToken")
    /\ UNCHANGED <<cl, inbox, req, racer, awaiting, result,
                   cached, streams, reqq, produced, latest>>

\* cache_token, then cache_stream: SET EX of the token's keys; an error
\* panics the loop (unwrap).
CacheToken ==
    /\ rstate = "cacheToken"
    /\ \/ cached' = cached \cup {<<result, req>>} /\ Goto("cacheStream")
       \/ RedisCanFail /\ Goto("dead") /\ UNCHANGED cached
    /\ UNCHANGED <<cl, mailbox, inbox, req, racer, awaiting,
                   result, replied, streams, reqq, produced, latest>>

CacheStream ==
    /\ rstate = "cacheStream"
    /\ \/ streams' = streams \cup {<<result, req>>} /\ Goto("priceReq")
       \/ RedisCanFail /\ Goto("dead") /\ UNCHANGED streams
    /\ UNCHANGED <<cl, mailbox, inbox, req, racer, awaiting,
                   result, replied, cached, reqq, produced, latest>>

\* get_identifiers: KEYS tokens:by_<kind>:*, the prefix stripped.
GetIdentifiers(kind) == {t \in Clients : <<kind, t>> \in cached}

\* send_token_for_price_stream: every cached identifier of the token's kind
\* plus its own (a KEYS error is logged and nothing is sent), then
\* req_tx.send, which waits for a slot.
SendTokenForPriceStream ==
    /\ rstate = "priceReq" /\ Len(reqq) < ReqCap
    /\ \/ reqq' = Append(reqq, [type |-> PriceReqOf(result), token |-> req,
                               tracked |-> GetIdentifiers(result) \cup {req}])
       \/ RedisCanFail /\ UNCHANGED reqq
    /\ Goto("fulfill")
    /\ UNCHANGED <<cl, mailbox, inbox, req, racer, awaiting,
                   result, replied, cached, streams, produced, latest>>

\* Mutant: the send does not wait for a free slot in the channel.
SendTokenForFulfill_NoWait ==
    /\ rstate = "fulfill"
    /\ reqq' = Append(reqq, [type |-> "TokenReqFulfill", token |-> req,
                             tracked |-> {}])
    /\ Goto("recv")
    /\ UNCHANGED <<cl, mailbox, inbox, req, racer, awaiting, result, replied,
                   cached, streams, produced, latest>>

\* send_token_for_fulfill.
SendTokenForFulfill ==
    /\ rstate = "fulfill" /\ Len(reqq) < ReqCap
    /\ reqq' = Append(reqq, [type |-> "TokenReqFulfill", token |-> req,
                             tracked |-> {}])
    /\ Goto("recv")
    /\ UNCHANGED <<cl, mailbox, inbox, req, racer, awaiting,
                   result, replied, cached, streams, produced, latest>>

\* The producer task: each request to its type's topic (a failed send is
\* logged).
ProduceReq ==
    /\ reqq # <<>>
    /\ LET r == Head(reqq)
       IN /\ produced' = produced \cup {[topic |-> ReqTopicOf(r.type),
                                         type |-> r.type]}
          /\ latest' = IF r.type \in PriceReqTypes
                       THEN [latest EXCEPT ![KindOfReq(r.type)] = r.tracked]
                       ELSE latest
    /\ reqq' = Tail(reqq)
    /\ UNCHANGED <<cl, mailbox, resolver, replied, cached, streams>>

-----------------------------------------------------------------------------

ResolverStep ==
    \/ ResolverSubscribed \/ Recv \/ Sismember \/ ResolveAddress
    \/ AwaitRacer \/ Deadline \/ PublishInitTokenData \/ CacheToken
    \/ CacheStream \/ SendTokenForPriceStream \/ SendTokenForFulfill

Next ==
    \/ \E c \in Clients :
        PublishIdentifier(c) \/ SubscribeForPrice(c) \/ ReceiveInitToken(c)
    \/ ResolverStep
    \/ \E k \in Racers : RacerDone(k)
    \/ ProduceReq

\* The resolver loop with its timer, the producer and the sockets' own
\* steps are fair.  Publishing is the user's choice, and an RPC call may
\* hang: racers are not fair.
Spec ==
    /\ Init /\ [][Next]_vars
    /\ WF_vars(ResolverStep) /\ WF_vars(ProduceReq)
    /\ \A c \in Clients : WF_vars(SubscribeForPrice(c) \/ ReceiveInitToken(c))

-----------------------------------------------------------------------------

Req == [type : ReqTypes, token : Clients, tracked : SUBSET Clients]

TypeOK ==
    /\ cl \in [Clients -> {"idle", "published", "waiting", "got"}]
    /\ mailbox \in [Clients -> BOOLEAN]
    /\ inbox \in Seq(Clients)
    /\ rstate \in {"init", "recv", "check", "resolve", "await", "reply",
                   "cacheToken", "cacheStream", "priceReq", "fulfill", "dead"}
    /\ req \in Clients \cup {NoClient}
    /\ racer \in [Racers -> RacerStates] /\ awaiting \in Racers
    /\ result \in Results
    /\ replied \subseteq Clients
    /\ cached \subseteq Kinds \X Clients /\ streams \subseteq Kinds \X Clients
    /\ reqq \in Seq(Req) /\ Len(reqq) <= ReqCap
    /\ produced \subseteq [topic : {ReqTopicOf(t) : t \in ReqTypes},
                           type : ReqTypes]
    /\ latest \in [Kinds -> SUBSET Clients]

(***************************************************************************)
(* RequestsEventuallyHandled: a request the resolver has received is      *)
(* eventually finished, or the loop has died on a Redis error, whatever  *)
(* the RPC racers do: the 3 s timeout around resolve_address frees the    *)
(* loop from a racer that never returns.                                  *)
(***************************************************************************)
RequestsEventuallyHandled ==
    \A c \in Clients :
        (\E i \in 1..Len(inbox) : inbox[i] = c)
            ~> (req = c /\ rstate = "recv") \/ rstate = "dead"

(***************************************************************************)
(* PriceReqRoutable (spec 4.6: the price request tells "the subscription  *)
(* manager to start tracking this market"): every price request is sent   *)
(* to a topic the account subscriber consumes.                            *)
(***************************************************************************)
PriceReqRoutable ==
    \A r \in produced : r.type \in PriceReqTypes => r.topic \in SubscriberTopics

====
