----------------------------- MODULE EventRouter -----------------------------
(***************************************************************************)
(* The transaction pipeline of dex-indexer, end to end:                    *)
(*   - geyser_tx_streamer: TxConsumer::start, the reconnect loop over one  *)
(*     Geyser transaction subscription; handle_tx, which classifies a     *)
(*     transaction to a platform and asks that platform's handler for at  *)
(*     most one event; the bounded event channel; the Kafka producer task *)
(*     that sends each event to the topic its type names;                 *)
(*   - data_processor: the consumer of the subscribed topics and          *)
(*     handle_message, its dispatch by topic and event type.              *)
(* A transaction is a record of what the classification and the handlers *)
(* look at: the program of the first instruction, of the first account   *)
(* key and of the first inner instruction, the programs named in the log *)
(* lines, the instruction markers in the log lines, the programs among   *)
(* its account keys (the subscription filter), and whether its trade     *)
(* payload decodes.  The chain is a fixed sequence of such transactions. *)
(***************************************************************************)
EXTENDS Integers, Sequences, SequencesExt, FiniteSets

CONSTANTS
    TxKinds,        \* the transactions the chain may contain
    ChainLen,       \* number of transactions the chain emits
    ChanCap,        \* capacity of the event channel (10 000 in main.rs)
    MaxReconnects,  \* bound on the reconnect loop's iterations
    SendCanFail,    \* whether a Kafka send may fail (message.timeout.ms)
    ProducerCanFail \* whether creating the FutureProducer may fail

Programs == {"PF", "PS", "RLL"}
Unknown == "unknown"            \* a program id none of the three
Markers == {"trade", "create", "migrate"}
MaxBackoff == 30                \* MAX_BACKOFF, seconds
Idx == 1..ChainLen

EventTypes == {"PfChTradeOccurred", "PfTradeOccurred", "PfTokenCreated",
               "PfTokenMigrated", "PsTradeOccurred", "RllTradeOccurred",
               "RllTokenCreated", "RllTokenMigrated"}

\* A transaction as the code inspects it.
Txs == [ix : Programs \cup {Unknown}, logs : SUBSET Programs,
        key0 : Programs \cup {Unknown}, inner : Programs \cup {Unknown},
        markers : SUBSET Markers, accounts : SUBSET Programs,
        decodes : BOOLEAN]

-----------------------------------------------------------------------------
(* handle_tx and the platform handlers.                                    *)

\* The result of handle_tx: Ok(Some(event)), Ok(None) or Err.
Emit(type) == [kind |-> "event", type |-> type]
NoEvent == [kind |-> "none", type |-> "none"]
Err == [kind |-> "err", type |-> "none"]

\* get_platform_from_logs tries the program ids in this order.
LogTargets == <<"PS", "PF", "RLL">>

\* The first known program of a sequence of candidates (Option::or_else).
FirstKnown(s) ==
    LET i == SelectInSeq(s, LAMBDA p : p \in Programs)
    IN IF i = 0 THEN Unknown ELSE s[i]

PlatformFromLogs(tx) ==
    FirstKnown(SelectSeq(LogTargets, LAMBDA p : p \in tx.logs))

\* get_platform: first instruction, logs, first account key, first inner
\* instruction, in this order.
GetPlatform(tx) ==
    FirstKnown(<<tx.ix, PlatformFromLogs(tx), tx.key0, tx.inner>>)

\* A trade handler's outcome: the event, or Err when the payload does not
\* decode.
Decoded(tx, type) == IF tx.decodes THEN Emit(type) ELSE Err

\* handle_pf_tx: trades are decoded; create and migrate return Ok(None)
\* (their handlers are commented out).
HandlePfTx(tx) ==
    IF "trade" \in tx.markers THEN Decoded(tx, "PfChTradeOccurred")
    ELSE NoEvent

HandlePsTx(tx) ==
    IF "trade" \in tx.markers THEN Decoded(tx, "PsTradeOccurred")
    ELSE NoEvent

\* handle_rll_tx tags its events with the PF event types.
HandleRllTx(tx) ==
    IF "trade" \in tx.markers THEN Decoded(tx, "PfTradeOccurred")
    ELSE IF "create" \in tx.markers THEN Decoded(tx, "PfTokenCreated")
    ELSE IF "migrate" \in tx.markers THEN Decoded(tx, "PfTokenMigrated")
    ELSE NoEvent

HandleTx(tx) ==
    CASE GetPlatform(tx) = "PF"  -> HandlePfTx(tx)
      [] GetPlatform(tx) = "PS"  -> HandlePsTx(tx)
      [] GetPlatform(tx) = "RLL" -> HandleRllTx(tx)
      [] OTHER                   -> Err

\* The subscription's filter: account_include = [PUMPFUN_PROGRAM_ID].
PassesFilter(tx) == "PF" \in tx.accounts

-----------------------------------------------------------------------------
(* Routing: the producer's topic table and data_processor's dispatch.      *)

\* Mutant: a trade event sent to the create topic.
TopicOf_Swapped ==
    [t \in EventTypes |->
        CASE t \in {"PfChTradeOccurred", "PfTradeOccurred"} -> "pf_create_event"
          [] t = "PfTokenCreated"   -> "pf_trade_event"
          [] t = "PfTokenMigrated"  -> "pf_migrate_event"
          [] t = "PsTradeOccurred"  -> "ps_trade_event"
          [] t = "RllTradeOccurred" -> "raydium_launchlab_trade_event"
          [] t = "RllTokenCreated"  -> "rll_create_event"
          [] OTHER                  -> "raydium_launchlab_migrate_event"]

\* start_kafka_producer's match on the event type.
TopicOf ==
    [t \in EventTypes |->
        CASE t \in {"PfChTradeOccurred", "PfTradeOccurred"} -> "pf_trade_event"
          [] t = "PfTokenCreated"   -> "pf_create_event"
          [] t = "PfTokenMigrated"  -> "pf_migrate_event"
          [] t = "PsTradeOccurred"  -> "ps_trade_event"
          [] t = "RllTradeOccurred" -> "raydium_launchlab_trade_event"
          [] t = "RllTokenCreated"  -> "rll_create_event"
          [] OTHER                  -> "raydium_launchlab_migrate_event"]

\* data_processor's TOPICS.
DpTopics == {"pf_trade_event", "pf_price_update_event", "pf_create_event",
             "pf_migrate_event", "ps_trade_event", "ps_price_update_event",
             "ps_create_event", "rll_trade_event", "rll_price_update_event",
             "rll_create_event", "rll_migrate_event", "fulfill_req"}

Topics == {TopicOf[t] : t \in EventTypes} \cup DpTopics

\* handle_message: only PfChTradeOccurred on pf_trade_event reaches a
\* handler; any other type there is "Invalid event type", any other topic
\* "Unknown topic".
Dispatches(topic, type) ==
    topic = "pf_trade_event" /\ type = "PfChTradeOccurred"

-----------------------------------------------------------------------------

VARIABLES
    chain,      \* the transactions the chain will emit, in order
    head,       \* how many of them the chain has emitted
    cstate,     \* TxConsumer: "connect", "stream", "send", "sleep", "dead"
    backoff,    \* the reconnect delay, seconds
    reconnects, \* iterations of the reconnect loop so far
    seen,       \* the last chain position the current session has passed
    started,    \* history: whether the service has ever subscribed
    pending,    \* the event TxConsumer is sending
    streamed,   \* history: the transactions handed to handle_tx
    decoded,    \* history: the events handle_tx produced
    chan,       \* the event channel
    pstate,     \* the producer task: "init", "run", "dead"
    topics,     \* topic -> the events written to it, in order
    read,       \* topic -> data_processor's position in it
    handled,    \* transactions whose event reached handle_pf_trade
    dropped     \* transactions whose event handle_message rejected

streamer == <<head, cstate, backoff, reconnects, seen, started, pending,
             streamed, decoded>>
consumer == <<read, handled, dropped>>
vars == <<chain, streamer, chan, pstate, topics, consumer>>

Event == [tx : Idx, type : EventTypes]
NoPending == [tx |-> 0, type |-> "none"]

Init ==
    /\ chain \in [Idx -> TxKinds]
    /\ head = 0
    /\ cstate = "connect" /\ backoff = 1 /\ reconnects = 0
    /\ seen = 0 /\ started = FALSE /\ pending = NoPending
    /\ streamed = {} /\ decoded = {}
    /\ chan = <<>> /\ pstate = "init"
    /\ topics = [t \in Topics |-> <<>>]
    /\ read = [t \in Topics |-> 0]
    /\ handled = {} /\ dropped = {}

-----------------------------------------------------------------------------
(* The chain.                                                              *)

\* The next transaction lands on chain; a session streams it only if it is
\* subscribed.  The chain starts once the service has first subscribed:
\* what precedes the service's start is not its to index.
ChainEmit ==
    /\ head < ChainLen
    /\ started
    /\ head' = head + 1
    /\ UNCHANGED <<chain, cstate, backoff, reconnects, seen, started, pending,
                   streamed, decoded, chan, pstate, topics, consumer>>

(* TxConsumer::start.                                                      *)

StreamerUnchanged == UNCHANGED <<chain, head, chan, pstate, topics, consumer>>

\* build_from_shared, x_token or connect fails: log, then sleep.
ConnectFailed ==
    /\ cstate = "connect" /\ reconnects < MaxReconnects
    /\ cstate' = "sleep"
    /\ UNCHANGED <<backoff, reconnects, seen, started, pending, streamed, decoded>>
    /\ StreamerUnchanged

\* Connected (backoff reset), then subscribe_once fails: sleep.
SubscribeFailed ==
    /\ cstate = "connect" /\ reconnects < MaxReconnects
    /\ cstate' = "sleep" /\ backoff' = 1
    /\ UNCHANGED <<reconnects, seen, started, pending, streamed, decoded>>
    /\ StreamerUnchanged

\* Connected and subscribed: the session streams from the chain's current
\* position; what was emitted before is not replayed.
Subscribed ==
    /\ cstate = "connect"
    /\ cstate' = "stream" /\ backoff' = 1 /\ seen' = head /\ started' = TRUE
    /\ UNCHANGED <<reconnects, pending, streamed, decoded>>
    /\ StreamerUnchanged

\* stream.next() yields the next transaction; the server's filter passes
\* only those naming the PF program, and handle_tx runs on each that
\* passes.  An event is sent; Ok(None) and Err are logged.
Receive ==
    /\ cstate = "stream" /\ seen < head
    /\ LET i == seen + 1
           tx == chain[i]
           res == HandleTx(tx)
       IN /\ seen' = i
          /\ IF PassesFilter(tx)
             THEN /\ streamed' = streamed \cup {i}
                  /\ IF res.kind = "event"
                     THEN /\ pending' = [tx |-> i, type |-> res.type]
                          /\ decoded' = decoded \cup {pending'}
                          /\ cstate' = "send"
                     ELSE UNCHANGED <<pending, decoded, cstate>>
             ELSE UNCHANGED <<streamed, pending, decoded, cstate>>
    /\ UNCHANGED <<backoff, reconnects, started>>
    /\ StreamerUnchanged

\* A stream error breaks the loop; the stream's end leaves it: sleep.
StreamClosed ==
    /\ cstate = "stream" /\ reconnects < MaxReconnects
    /\ cstate' = "sleep"
    /\ UNCHANGED <<backoff, reconnects, seen, started, pending, streamed, decoded>>
    /\ StreamerUnchanged

\* event_tx.send(ke).await.unwrap(): waits for a free slot; panics when the
\* producer task has dropped the receiver.
SendEvent ==
    /\ cstate = "send"
    /\ \/ /\ pstate # "dead" /\ Len(chan) < ChanCap
          /\ chan' = Append(chan, pending)
          /\ cstate' = "stream"
       \/ /\ pstate = "dead"
          /\ cstate' = "dead" /\ UNCHANGED chan
    /\ pending' = NoPending
    /\ UNCHANGED <<chain, head, backoff, reconnects, seen, started, streamed, decoded,
                   pstate, topics, consumer>>

\* Mutant: the backoff doubles without the MAX_BACKOFF cap.
Sleep_NoCap ==
    /\ cstate = "sleep"
    /\ cstate' = "connect"
    /\ backoff' = 2 * backoff
    /\ reconnects' = reconnects + 1
    /\ UNCHANGED <<seen, started, pending, streamed, decoded>>
    /\ StreamerUnchanged

\* tokio::time::sleep(backoff), then backoff = (backoff * 2).min(30).
Sleep ==
    /\ cstate = "sleep"
    /\ cstate' = "connect"
    /\ backoff' = IF 2 * backoff < MaxBackoff THEN 2 * backoff ELSE MaxBackoff
    /\ reconnects' = reconnects + 1
    /\ UNCHANGED <<seen, started, pending, streamed, decoded>>
    /\ StreamerUnchanged

-----------------------------------------------------------------------------
(* start_kafka_producer and its spawned task.                              *)

ProducerStarted ==
    /\ pstate = "init"
    /\ pstate' = "run"
    /\ UNCHANGED <<chain, streamer, chan, topics, consumer>>

\* ClientConfig::create() fails: `expect` panics the spawned task and the
\* receiver is dropped with it.
ProducerInitFails ==
    /\ ProducerCanFail /\ pstate = "init"
    /\ pstate' = "dead"
    /\ UNCHANGED <<chain, streamer, chan, topics, consumer>>

\* Mutant: the task takes any buffered event, as if each broadcast were
\* spawned on its own.
Broadcast_AnySlot ==
    /\ pstate = "run" /\ chan # <<>>
    /\ \E k \in 1..Len(chan) :
        LET ev == chan[k]
        IN /\ chan' = RemoveAt(chan, k)
           /\ \/ topics' = [topics EXCEPT ![TopicOf[ev.type]] = Append(@, ev)]
              \/ SendCanFail /\ UNCHANGED topics
    /\ UNCHANGED <<chain, streamer, pstate, consumer>>

\* event_rx.recv(), then broadcast_event to the event type's topic: a send
\* that fails (delivery timeout) is logged and the event is gone.
Broadcast ==
    /\ pstate = "run" /\ chan # <<>>
    /\ LET ev == Head(chan)
       IN /\ chan' = Tail(chan)
          /\ \/ topics' = [topics EXCEPT ![TopicOf[ev.type]] = Append(@, ev)]
             \/ SendCanFail /\ UNCHANGED topics
    /\ UNCHANGED <<chain, streamer, pstate, consumer>>

(* data_processor: start_kafka_consumer and handle_message.                *)

\* recv() returns the next message of a subscribed topic; handle_message
\* hands a PfChTradeOccurred on pf_trade_event to handle_pf_trade and
\* rejects everything else.
Dispatch(t) ==
    /\ t \in DpTopics /\ read[t] < Len(topics[t])
    /\ LET ev == topics[t][read[t] + 1]
       IN /\ read' = [read EXCEPT ![t] = @ + 1]
          /\ IF Dispatches(t, ev.type)
             THEN handled' = handled \cup {ev.tx} /\ UNCHANGED dropped
             ELSE dropped' = dropped \cup {ev.tx} /\ UNCHANGED handled
    /\ UNCHANGED <<chain, streamer, chan, pstate, topics>>

-----------------------------------------------------------------------------

TxConsumerStep ==
    ConnectFailed \/ SubscribeFailed \/ Subscribed \/ Receive \/ StreamClosed
    \/ SendEvent \/ Sleep

Next ==
    \/ ChainEmit \/ TxConsumerStep
    \/ ProducerStarted \/ ProducerInitFails \/ Broadcast
    \/ \E t \in Topics : Dispatch(t)

\* The streamer's, the producer's and the consumer's own steps are fair;
\* the chain, connection and send outcomes are the environment.  librdkafka
\* fetches from every assigned partition, so each topic is served.
Fairness ==
    /\ WF_vars(Receive) /\ WF_vars(SendEvent) /\ WF_vars(Sleep)
    /\ WF_vars(ProducerStarted \/ ProducerInitFails) /\ WF_vars(Broadcast)
    /\ \A t \in Topics : WF_vars(Dispatch(t))

Spec == Init /\ [][Next]_vars /\ Fairness

-----------------------------------------------------------------------------

TypeOK ==
    /\ chain \in [Idx -> Txs]
    /\ head \in 0..ChainLen /\ seen \in 0..head /\ started \in BOOLEAN
    /\ cstate \in {"connect", "stream", "send", "sleep", "dead"}
    /\ backoff \in 1..MaxBackoff
    /\ reconnects \in 0..MaxReconnects
    /\ pending \in Event \cup {NoPending}
    /\ streamed \subseteq Idx /\ decoded \subseteq Event
    /\ chan \in Seq(Event) /\ Len(chan) <= ChanCap
    /\ pstate \in {"init", "run", "dead"}
    /\ topics \in [Topics -> Seq(Event)]
    /\ read \in [Topics -> Nat]
    /\ handled \subseteq Idx /\ dropped \subseteq Idx

(***************************************************************************)
(* TopicOrder (spec §5): within a topic, events appear in the order their *)
(* transactions were streamed, across reconnects, channel back-pressure   *)
(* and failed sends: the producer drains the channel in FIFO order and    *)
(* awaits each send before the next.                                       *)
(***************************************************************************)
TopicOrder ==
    \A t \in Topics :
        IsSorted([k \in 1..Len(topics[t]) |-> topics[t][k].tx], <)

\* An event that left the channel and is on no topic: its send failed.
SendLost(i) ==
    /\ pending.tx # i /\ \A k \in 1..Len(chan) : chan[k].tx # i
    /\ \A t \in Topics : \A k \in 1..Len(topics[t]) : topics[t][k].tx # i

(***************************************************************************)
(* PfTradeReachesHandler: every PF trade that handle_tx decodes is        *)
(* eventually handed to handle_pf_trade, unless its Kafka send failed or  *)
(* the producer task died at start (the buffered events go with its       *)
(* receiver): back-pressure, reconnects and the other topics' traffic     *)
(* never strand it.                                                        *)
(***************************************************************************)
PfTradeReachesHandler ==
    \A i \in Idx :
        [tx |-> i, type |-> "PfChTradeOccurred"] \in decoded
            ~> i \in handled \/ SendLost(i) \/ pstate = "dead"

(***************************************************************************)
(* EveryEventHandled (spec §4.4 dispatch): every event the decoders       *)
(* produce is eventually routed to a handler of its topic.                *)
(***************************************************************************)
EveryEventHandled ==
    \A e \in Event : e \in decoded ~> e.tx \in handled

(***************************************************************************)
(* NoMissedTransaction (spec §1, at-least-once): while a session is       *)
(* subscribed, every transaction the filter passes that landed since the  *)
(* service first subscribed has been handed to handle_tx, or lies ahead   *)
(* of the session's position, so the session will still stream it.  A    *)
(* resubscription that resumed where the previous session stopped keeps  *)
(* this; one that starts at the chain's head skips what landed during the *)
(* backoff.                                                                *)
(***************************************************************************)
NoMissedTransaction ==
    cstate \in {"stream", "send"} =>
        \A i \in 1..head :
            PassesFilter(chain[i]) => i \in streamed \/ i > seen

====
