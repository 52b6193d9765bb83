# TLA+ models of dex-indexer

This directory holds TLA+ specifications of the concurrent and failure-prone
parts of dex-indexer, with the TLC configurations that check them.
`PROJECT.json` lists, for every definition, the source lines it models, and
for every run, the properties checked.

## 1. The system

dex-indexer is six Rust services that communicate over Kafka and share
Redis, Postgres and ClickHouse.

| Service | What it does | State it keeps |
|---|---|---|
| `geyser_tx_streamer` | Streams Solana transactions from a Geyser gRPC endpoint. It classifies each transaction to PumpFun (PF), PumpSwap (PS) or Raydium LaunchLab (RLL), decodes trades, creates and migrations, and sends typed events through a bounded channel (10 000) to a Kafka producer task. | reconnect backoff; the event channel |
| `geyser_account_subscriber` | Holds one Geyser *account* subscription for a set of tracked accounts. A `SubscriptionManager` task swaps subscriptions on request. Each subscription is an `AccountConsumer` task that decodes account snapshots into price events. The events go through a bounded channel (1000) to a Kafka producer. Requests arrive on the `price_req` topic. | `current_task` (JoinHandle + CancellationToken); the command channel (32); per task: backoff, stability one-shot; the event channel |
| `data_processor` | Consumes the event topics. For each `pf_trade_event` it derives the price and bonding-curve progress, then writes a ClickHouse row, a Postgres price and progress upsert, and a Redis merge-upsert. | Kafka consumer offsets (auto-commit); the three stores |
| `gap_filler` / `historian` (the *resolver*) | Listens on the Redis pub/sub channel `req_handler` for an identifier. It resolves the identifier by racing RPC lookups under a 3 s deadline, replies on the caller's channel, caches the token under `tokens:by_*` and `subscriptions:by_*`, and publishes price and fulfil requests to Kafka. | Redis keys; a request channel (10 000) to its producer |
| `pub_api` | An HTTP/WebSocket front end. A price socket publishes the identifier to `req_handler`, then subscribes to its own reply channel. | none beyond Redis |

How the parts interact:

- Account and transaction events flow tx_streamer / account_subscriber → Kafka → data_processor → stores.
- Resolution requests flow pub_api → Redis pub/sub → resolver → Redis reply and Kafka requests. The Kafka requests go to the account subscriber (`price_req`) and to the data_processor (`fulfill_req`).

### Hard behaviours

- **Subscription swap** (`subscription_manager.rs:70-110`):
  1. Spawn a new consumer.
  2. Wait 10 s for its first successful subscribe.
  3. On Ok, cancel and join the old consumer, then install the new one.
  4. On timeout, cancel and join the new one.

  Cancellation is cooperative: `AccountConsumer::run` observes it at the loop head, in the stream `select!`, and after each attempt. It does *not* observe it while blocked sending into the full event channel.
- **Offsets vs. handling** (`data_processor/src/kafka.rs`): auto-commit with the automatic offset store commits a message once `recv()` has returned it, whether or not its handler has finished.
- **Three-store write** (`pf_trade_occurred_handler.rs`): a chain of `?`. The first failing store ends the handler, and the error is only logged.
- **Cache merge** (`pf_redis_prices.rs`): a read-modify-write that must keep metadata the incoming projection lacks.
- **Trade extraction** (`pf_ch_trade_occurred_handler.rs`): some thirty extractors each rescan the whole transaction on their own (first matching log line, first `Program data:` line, first inner group), joined by `?`. A validator may cut the log short.
- **Resolver**:
  - candidate RPC tasks are spawned, then awaited in spawn order under a 3 s deadline that does not abort them;
  - replies go over fire-and-forget pub/sub.

### Properties per component

| Component | What makes it correct |
|---|---|
| subscription manager | At rest only `current_task` runs (no leaked consumer). While a subscription is installed, a live, subscribed consumer exists (no blind gap, spec §8). Every caller is eventually answered. |
| data_processor | A projection never exists without its columnar row (spec §5). Cache metadata is never erased (spec §4.5, §8). Every message is handled at least once (spec §1). |
| derivation | `price = vsol·10^dec / vtok` in u128, and `progress_bps ∈ [0, 10000]` with `is_migrated ⇔ bps = 10000` (spec §8). |
| transaction decoders | Every byte read is bounds-checked; a short payload is a decode failure, never a panic (spec §4.1, §7). Fields are read at the layout's offsets. A trade is published exactly when every field of spec §4.1's three sources is present; a missing get_fees key is a decode failure. Its instruction name and SOL amount are the ones the transaction ran and moved. |
| router | Every produced topic is consumed, and every event type matches its topic (spec §4.4). |
| resolver | Every received request is finished within the deadline. A price request lists exactly the cached markets of its kind and reaches the account subscriber. The first racer to succeed wins (spec §4.6). A reply is never lost. |

## 2. Modules

| Module | Models | State (variables) | Actions |
|---|---|---|---|
| `SubscriptionService` | The promise of spec §4.3 at the level of `SubscriptionManagerHandle`, the abstract specification `SubscriptionManager` refines | `cstate`, `result` (the callers), `sub` (whose account set the live subscription streams), `stopped` | `Call`, `CallFails`, `Install` (atomic swap, Ok), `Reject` (Err, prior subscription kept), `Stop`, `Drop`; weak fairness on answering each waiting caller |
| `SubscriptionManager` | `SubscriptionManager::run`, `update_subscription`, `shutdown`, `SubscriptionManagerHandle`, `AccountConsumer::run`, the Kafka producer task that drains the event channel | callers' states and results; `cmdq` (command channel); `mstate`/`mclient`/`newTask`/`current` (where `run` is suspended and `current_task`); per task `tstate` (program point), `cancelled` (token), `stab` (stability sent), `accts` (whose `tracked_accounts` it streams); `events` (event channel) | `ClientSend`, `ClientSendFails`, `SendShutdown`, `DropQueued`; `RecvUpdate`, `StableOk`, `JoinOld`, `Timeout`, `JoinNew`, `RecvShutdown`, `JoinShutdown`; per task `LoopHead`, `Subscribed`, `ConnectFailed`, `StreamCancelled`, `StreamUpdate`, `StreamPanic`, `StreamEnded`, `SendEvent`, `RetryCheck`, `Wake`; `ProduceEvent` |
| `EventRouter` | `TxConsumer::start`, `handle_tx` with `get_platform` and the three platform handlers, the event channel, `start_kafka_producer`'s task and topic table (geyser_tx_streamer); `start_kafka_consumer` and `handle_message` (data_processor) | `chain`/`head` (the chain's transactions and how many have landed); `cstate`, `backoff`, `reconnects`, `seen` (the streamer's program point, delay, loop count and session position), `pending`; history `started` (whether the service has ever subscribed); `chan`; `pstate` (producer task); `topics` (each topic's log); `read`, `handled`, `dropped` (the consumer); history `streamed`, `decoded` | `ChainEmit`; `ConnectFailed`, `SubscribeFailed`, `Subscribed`, `Receive`, `StreamClosed`, `SendEvent`, `Sleep`; `ProducerStarted`, `ProducerInitFails`, `Broadcast`; `Dispatch(topic)` |
| `Derivation` | `build_pf_pgsql_price`, `build_pf_pgsql_bonding_curve_progress` (data_processor) and `get_price_from_pool_state` (historian), as pure operators | `last` (which derivation ran), `trade`/`pool` (the last input), `price`, `progress`, `poolPrice` (the builders' results) | `DeriveTrade` (both builders on one trade, as `handle_pf_trade` calls them), `DerivePool` (the resolver pricing a pool) |
| `AccountDecoder` | The account path of geyser_account_subscriber: `handle_price_update` with `get_platform`, `parse_bonding_curve`, `parse_pool`, `extract_price_data` and the event type each handler tags, and `start_kafka_producer`'s topic per type, as operators | `snapAcct`, `snapLen` (the last update's account and data length), `snapOut` (`ok` with the event and its reads, `err` or `panic`), `snapTopic` | `DecodeSnapshot` (`AccountConsumer::run` handling one account update) |
| `HistorianRpc` | What each `resolve_address` racer gets from the chain (historian `rpc_handler.rs`, `req_handler.rs`, `models/rpc.rs`): `get_account_by_address`'s loop over program ids with its borsh decodes, `parse_pool_state`, `get_pool`, `get_token_account_balance`, `get_mint_decimals`, `get_pool_price`, and the unwraps of `resolve_by_bonding_curve` and `resolve_by_pool`, as operators over an account's owner and data length | `rk` (which racer), `racc` (the account at its address), `rout` (`none`, `panic` or the market resolved) | `RunRacer` (one racer to its end) |
| `TxDecoder` | The eleven TradeEvent payload reads of `handle_pf_ch_trade` (geyser_tx_streamer `pf_ch_trade_occurred_handler.rs`): the layout walks `extract_pumpfun_creator`, `extract_pumpfun_fee_recipient`, `trade_event_offsets_1` and `volume_tracking_base_offset`, each extractor's length check and read, and the `?` chain, as operators | `bufLen` (the decoded payload length of the last transaction), `outcome` (`ok`, `err` or `panic`) | `DecodeTx` (`handle_pf_tx` calling `handle_pf_ch_trade`) |
| `PfChTrade` | The whole of `handle_pf_ch_trade` behind `handle_pf_tx`'s `is_pf_trade` test: every extractor of its `?` chain in call order (`Steps`, `Step`, `HandleTrade`). These are the signature and blockhash length checks, `account_keys.first()`, the token-balance extractors, the first-line log scans (`pf_ix_name`, `extract_is_pump_pool`, the get_fees u64 extractors, the four `Program data:` fetchers), `pf_token_amount` over the first inner group, and `pf_sol_amount`'s arithmetic. The payload reads are `TxDecoder`'s `Extract` on the fetched payload | `ptx` (the last transaction), `pout` (`ignored`, `ok`, `err` or `panic`, with `ix_name`, `is_buy`, `sol_amount`) | `DecodeTrade` (`handle_pf_tx`) |
| `Resolver` | `handle_price_req` with `resolve_token`/`resolve_address` and the fan-out helpers (gap_filler `cache_handler.rs`, historian `req_handler.rs`), the request producer (historian `kafka.rs`), and pub_api's `ws_price` | per socket `cl` (program point) and `mailbox` (a reply buffered on its channel); `inbox` (the `req_handler` messages); `rstate`, `req`, `result` (the loop's program point, request and outcome); `racer`, `awaiting` (the spawned lookups and the one awaited); `cached`, `streams` (`tokens:by_*`, `subscriptions:by_*`); `reqq` (request channel); `produced`, `latest`, `replied` (history) | `PublishIdentifier`, `SubscribeForPrice`, `ReceiveInitToken`; `ResolverSubscribed`, `Recv`, `Sismember`, `ResolveAddress`, `RacerDone(k)`, `AwaitRacer`, `Deadline`, `PublishInitTokenData`, `CacheToken`, `CacheStream`, `SendTokenForPriceStream`, `SendTokenForFulfill`; `ProduceReq` |
| `TradeProcessor` | `start_kafka_consumer`, `handle_message`, `handle_pf_trade` and its five store calls | `log` (the topic); `position`, `stored`, `committed` (fetch, stored and committed offsets); `pc`/`cur` (handler step and message); `chRows`, `pgPrice`, `redisPrice`, `redisProg`, `pgProg` (which message last wrote each cell; the redis price also records metadata); `processed` (history); `crashes` | `Recv`, `AutoCommit`, `Crash`, `InsertCh`, `InsertChFailed`, `PgPriceUpsert`, `RedisPriceUpsert`, `RedisProgUpsert`, `PgProgUpsert` |

`MC_*` modules fix model values for TLC. `MC_Decoders` checks `Derivation`, `TxDecoder`, `PfChTrade`, `AccountDecoder` and `HistorianRpc` in one run: they share no variable, and a behaviour is one service (derive, decode a transaction, parse an account update, or run a racer). `HistorianRpc` is the detail behind `Resolver`'s `RacerDone(k)`: every result `Racer(k, ...)` can return is in `FindsOf(k)` or is `none` or `panic`, the choices `RacerDone` makes.

### Abstractions

**SubscriptionManager**
- An account set is reduced to whether it contains an RLL pool-state. Only the RLL decoder can panic: it reads `data[18]` and `data[19]` unchecked.
- Stream items are a nondeterministic choice. Items that only log (stream errors, non-account updates, decode errors) change no state and are left out.
- Backoff durations are not modelled. A sleep simply ends.
- Each Update spawns a task with a fresh id. `Tasks` has one id per caller.

**TradeProcessor**
- A message is its index in the log, with a mint and the outcome of the two DTO builders:
  - both Ok;
  - price only (total tokens zero);
  - progress only (i128 overflow of the price product);
  - neither (zero virtual token reserves, or negative/oversized decimals).
- Other topics and undecodable envelopes form one kind each.
- A store cell holds the index of the message that wrote it.
- Every store call can fail. `upsert_pf_pgsql_price` can succeed only if the schema has the column `decimal` that its ON CONFLICT clause names (constant `SchemaHasDecimalColumn`).

**EventRouter**
- A transaction is a record of what the code inspects:
  - the programs of the first instruction, the first account key and the first inner instruction;
  - the programs named in the log lines;
  - the instruction markers (`trade`, `create`, `migrate`);
  - the programs among its account keys (the subscription's `account_include` filter);
  - whether its payload decodes.

  `MC_EventRouter` names five representative kinds: a PF trade, one whose payload fails to decode, a PumpSwap-only transaction the filter drops, and a PumpSwap and a LaunchLab trade that reach the PF-filtered stream because their account keys include the PF program. A create (`Ok(None)`) and an unclassified transaction (`Err`) end `Receive` exactly as the failed decode does, so they are not separate kinds.
- The byte decoders behind a handler are their outcome (`decodes`). The event is its transaction index and type.
- Stream sessions read the chain from the position at which they subscribed (no replay). The chain starts emitting once the service has first subscribed.
- The producer's `recv` and send are one step. The send's outcome is success or loss.

**Derivation**
- Widths are scaled: a 64-bit integer is 8 bits (`W = 8`), a 128-bit one 16 bits. The checked operations (`checked_pow`, `checked_mul`, `checked_add`) fail at the scaled bounds, and `as` casts keep the low bits (`AsSigned`, `AsUnsigned`). At these widths the largest decimals whose powers fit any u64 reserve in i128 is 2 (`MaxDecimals`), which stands for the 18 of real widths.
- The resolver's fixed scale `10^9` is `10^RllScaleExp` with `RllScaleExp = 1`.
- The reference definition `SpecRllPrice` is the formula of spec §4.6, in unbounded integers.

**TxDecoder**
- A transaction is the length of its first `Program data:` payload: the reads checked here depend on nothing else. The byte values, the base64 decoding and the extractors that read log text or balances are left out.
- A read the code makes with `buf[o..o + n]` past the end of the payload is a panic. `read_u64_1` uses `get`, so it returns an error instead.
- The reference `Layout` is the field list of the spec (§4.1, "Program data"). `LayoutOffset` sums the sizes before a field with `FoldLeft`.

**PfChTrade**
- A transaction is what the extractors test: the signature and blockhash lengths, the count of account keys and of balances, the token balances (a count for `post_token_balances`, whether `ui_token_amount` is present for `pre_token_balances`), the log lines, the inner-instruction groups, and the fee payer's balances and fee. Its addresses and amounts are left out.
- A log line is its kind: an instruction line, a get_fees line with its key and whether its value parses, a `Program data:` line with whether it decodes and its decoded length, or any other line. An instruction name is a sequence of words, so that `contains` is `IsPrefix`: `BuyExactSolIn` is `<<"Buy", "ExactSolIn">>` and begins with `<<"Buy">>`.
- An inner instruction is its first data byte and its data length.
- `moved` is the lamports the trade moved in or out of the fee payer, the transaction fee left out. It is not a field of the transaction: `MC_Txs` derives `post` from it, and `SolAmountIsTradeLamports` compares `sol_amount` with it.

**Resolver**
- A socket asks for its own token: the token is the socket's model value, and its market kind (`bc`, `pool`, `poolState`) is what the racer that finds it returns.
- A racer is its outcome: a kind it can find (`resolve_by_bonding_curve` finds a bonding curve or a LaunchLab pool state, `resolve_by_pool` a PumpSwap pool), nothing, or a panic (its `unwrap`s). The PDA racers exist together, when the input parses as a pubkey. Racers are never aborted; a new request's spawn replaces them in the model, since nothing reads a dropped handle.
- The cache and db reads at the top of `resolve_address`, whose results are unused, and the TTLs are left out. `sismember`'s result is unused; only its failure matters.
- Redis pub/sub is a delivery to whoever is subscribed at publish time: `mailbox[c]` is set only if the socket has subscribed.
- A request in the channel keeps its type, token and tracked set; a fulfil request's payload is not modelled.

## 3. Runs

| Run | Config | Checks | Shows |
|---|---|---|---|
| `subscription_swap` | `SubscriptionManager.cfg` | `TypeOK`, `NoLeakedTask`, `NoSwapGap`, `ImplementsService` | Three callers (c1 tracks an RLL pool-state whose decoder may panic) race Updates with a Shutdown through a 2-slot command channel and a 1-slot event channel. Every swap, timeout and panic leaves only `current_task` running. Until shutdown, some stable task keeps an uncancelled token: the manager never cancels the old task before the new one is stable. A task that ended in a decoder panic counts here; `rll_decoder_panic` shows that case. The manager implements `SubscriptionService` under the mapping `sub = accts[current]`, `stopped = (mstate = "stopped")`: each Ok is one atomic swap to the caller's set, each Err leaves the subscription as it was, and every waiting caller is answered. |
| `rll_decoder_panic` | `SubscriptionManager_RllPanic.cfg` | `NoBlindGap` (violation) | One caller tracks an RLL pool-state. After it is installed, a short snapshot panics the consumer, and `current_task` is a dead task (finding). |
| `subscription_order` | `SubscriptionManager_Order.cfg` | `LatestRequestInstalled` (violation) | Requests issued in the order c1, c2, c3 reach the command channel in another order. An older request's set is installed last, and the newer market is dropped (finding). |
| `router` | `EventRouter.cfg` | `TypeOK`, `TopicOrder`, `PfTradeReachesHandler` | Over every 3-transaction chain of the five kinds, with failed connects, subscribes and streams, a failed producer start (the streamer then panics in `send().unwrap()`) and failed Kafka sends, each topic holds its events in stream order, and every decoded PF trade reaches `handle_pf_trade` unless its own send failed or the producer died at start. |
| `router_dispatch` | `EventRouter_Dispatch.cfg` | `EveryEventHandled` (violation) | A LaunchLab trade is produced as `PfTradeOccurred` to `pf_trade_event`, and `handle_message` rejects it (finding). |
| `router_missed` | `EventRouter_Missed.cfg` | `NoMissedTransaction` (violation) | A PF trade lands while a session is subscribed but before its update is received; the stream closes, the service sleeps and resubscribes with no `from_slot`, and the trade is never streamed (finding). A `from_slot` replay from the last received position would satisfy the invariant. |
| `derivation` | `MC_Decoders`, `Derivation.cfg` | `TypeOK`, `ValidTradesDerive`, `ProgressLifecycle`, `DecodeNeverPanics`, `DecodedFieldsAtLayout`, `SnapshotDecodedAtLayout`, `TradeExtractedIffComplete`, `IxNameMatchesInstruction`, `SolAmountIsTradeLamports` | Over reserves {0, 1, small, max} and decimals −1..5, a trade meeting spec §4's invariants is never rejected by either builder, and `is_migrated`/`is_tradeable`/`is_pre_migration` agree with `progress_bps ∈ [0, 10000]`. Over payload lengths at every field boundary, `handle_pf_ch_trade` returns Err on a short payload and never panics, succeeds exactly on a full event, and reads each field at the spec's offset: the three separate layout walks agree. Over account lengths at every read boundary, an update of a tracked bonding curve or PumpSwap pool never panics the stream; it yields an event exactly when every reserve of spec §4.2 is present, reads the reserves at the spec's offsets in order, and goes to that platform's topic. Over PF trade transactions, the whole of `handle_pf_ch_trade` never panics. It publishes a trade exactly when the transaction carries every field the spec lists, with the name of the instruction the transaction ran, and a `sol_amount` equal to the lamports the trade moved, for buys and sells. The transactions include logs cut short at every line, older TradeEvent layouts, and a token-account creation ahead of the PumpFun inner group. |
| `derivation_rll_price` | `Derivation_RllPrice.cfg` | `RllPriceMatchesSpec` (violation) | A pool with base decimals below quote decimals is priced 0 (finding). |
| `trade_upsert` | `TradeProcessor.cfg` | `TypeOK`, `ProjectionAfterColumnar`, `MetadataPreserved` | Over every 3-message log on two mints, with any store failing and one crash, no pg/redis projection exists without its ClickHouse row, and metadata already in the cache is never removed. |
| `resolver` | `Resolver.cfg` | `TypeOK`, `RequestsEventuallyHandled` | Two sockets, RPC racers that may hang or panic, Redis commands that may fail: every request the loop receives is finished (or the loop has died). |
| `resolver_routing` | `Resolver_Routing.cfg` | `PriceReqRoutable` (violation) | The first resolved token's price request is produced to `pumpfun_price_req`, a topic the account subscriber does not consume (finding). |
| `trade_at_least_once` | `TradeProcessor_AtLeastOnce.cfg` | `NoLostMessage` (violation) | `Recv`, then `AutoCommit`, then `Crash`: the consumer restarts past a message it never handled (finding). |

Every property has a mutant in `PROJECT.json`: a plausible bug in the modelled code, and TLC must find that mutant violating the property. For example:

- the swap not cancelling the old task;
- the stability wait skipped;
- `select!` continuing after cancellation;
- the cache merge replacing the entry;
- the ClickHouse error logged instead of returned.

### Bounds

**SubscriptionManager**
- 3 callers: enough for an Update to queue behind a swap in progress, and for a Shutdown to arrive while Updates are queued.
- A command channel of 2 makes the full-channel case reachable.
- An event channel of 1 (2 in `rll_decoder_panic`) lets a cancelled consumer block in `send` while another fills the channel.

**EventRouter**
- 3 transactions are enough for one to land between two sessions, one to be reordered behind another in a 2-slot channel, and one to follow a dropped send.
- Five reconnects take the backoff through 1, 2, 4, 8, 16 to the 30 s cap.
- Five kinds keep the liveness check of `router` near two and a half minutes; they cover two topics, the filter, a failed decode and the mis-tagged LaunchLab trade.

**Resolver**
- Two sockets: enough for a second request to find the first token in the cache and to queue behind the first.
- A request channel of one slot makes `SendTokenForFulfill` wait on the producer.
- Three racers, as in the code.

**Derivation**
- Each input field ranges over 0, 1, a middle value and the maximum of its scaled width; decimals also take −1 (the `as u32` wrap) and values past `MaxDecimals` (overflow of `checked_pow` and of the product).
- Two pool decimal values, 0 and 1, give base < quote, base = quote and base > quote.

**TxDecoder**
- `MC_BufLens` contains: the empty payload; the full event (258 bytes); and, for every field, the lengths one byte short of its end and exactly at its end. Every length check changes its answer between two of these lengths, so an off-by-one in any check or walk is reached.

**PfChTrade**
- `MC_Txs` is the log of a PF trade cut short by "Log truncated" after every one of its 11 lines, and that log in full with TradeEvents of 177 (up to `fee`), 225 (up to `creator_fee`) and 258 bytes. The trade is Buy, BuyExactSolIn or Sell, with `is_pump_pool` true or false. There is also one transaction with only a `SwapEvent` line.
- Inner instructions are none, the PumpFun group, or an associated-token-account group ahead of it.
- Trades of 1 and 3 lamports, with a fee of 2: a sell smaller than the fee makes `(pre - post) - fee` negative.
- Every extractor changes its answer within these transactions. Signature, blockhash, keys and balances take only the values a validator produces; their guards are modelled but never fail here.

**AccountDecoder**
- One account per platform and one the map does not hold.
- Lengths 0, 8, 18–20, 23–24, 31–32 and 39–40: one byte either side of the end of every read of the three parsers.

**HistorianRpc**
- Every owner program the code names, at lengths 7, 8 and 8 + each record's borsh size (150, 151, 301, 429). Borsh decodes only an exact size, so these are the lengths at which a decoder's answer changes.
- Vaults of either token program (165 bytes), and one 71 bytes long, one short of the `[64..72]` read. Mints of 82, 45 and 44 bytes, around the `data[44]` read.
- The five ways a bonding curve's enrichment can end, and a metadata fetch that fails or not.

**TradeProcessor**
- 3 messages on 2 mints give two writes to the same key and a third message to be lost or replayed.
- One crash suffices for loss and replay.
- Redis may start with an entry that carries metadata.

### Fairness

**SubscriptionManager**
- The manager, the producer and the consumers' control steps run on the tokio runtime. They are weakly fair, and so is the 10 s timer.
- `StreamCancelled` is strongly fair: `tokio::select!` picks at random among ready branches, so a cancelled token is eventually seen even while items keep arriving.
- `SendEvent` is strongly fair: tokio's bounded channel grants permits in FIFO order.
- Connect outcomes, stream items and callers are the environment and get no fairness.
- Deadlock checking is off: once the callers are done, the manager legitimately blocks on `recv()` forever.
- `SubscriptionService` asks only that a waiting caller is eventually answered: weak fairness on `Install(c) \/ Reject(c) \/ Drop(c)`. The manager's fairness above must imply it, and `ImplementsService` checks that it does.

**TradeProcessor**
- The recv loop and the commit timer are weakly fair.
- Crashes are the environment.

**EventRouter**
- These steps are weakly fair; all run on the tokio runtime:
  - the streamer's `Receive`, `SendEvent` and `Sleep`;
  - the producer's start and `Broadcast`;
  - data_processor's `Dispatch` for each topic (librdkafka fetches every assigned partition).
- Connect, subscribe and stream outcomes, the chain, and send failures are the environment.
- Deadlock checking is off: with the chain quiet, the streamer waits on `stream.next()` forever.

**Resolver**
- The loop's steps, including the 3 s timer, are weakly fair; so are the producer and each socket's subscribe and receive.
- Racers get no fairness: an RPC call may hang. Publishing a request is the user's choice.
- Deadlock checking is off: once the sockets are done, the loop waits on `req_handler` forever.

**Derivation**, **TxDecoder** and **PfChTrade** have no fairness and no liveness property: their properties are about each derivation's or decode's result. Deadlock checking stays on, since a new input can always be derived.

## 4. Findings

1. `rll_price_update_handler.rs:40`: the unchecked index panics the installed consumer. The spec says decoders never panic.
2. `data_processor/src/kafka.rs:34`: auto-commit with offsets stored at `recv()` loses messages on a crash. The spec says delivery is at-least-once.

3. `historian/.../rpc_handler.rs:502`: `get_price_from_pool_state` divides `10^base / 10^quote` in integers, so every pool with fewer base than quote decimals (a 6-decimal token against 9-decimal SOL) is priced 0.

4. `rll_tx_handler.rs:18`: LaunchLab trades, creates and migrations are tagged with the PF event types. A LaunchLab trade goes to `pf_trade_event`, where `handle_message` drops it as an invalid event type. PumpSwap trades reach `ps_trade_event`, which `handle_message` treats as an unknown topic.
5. `tx_consumer.rs:53`: the resubscription after a reconnect sets no starting slot, so transactions landing during the backoff sleep are lost. The spec says delivery is at-least-once.

6. `historian/src/kafka.rs:23`: price requests go to `pumpfun_price_req`, `pumpswap_price_req` and `raydium_launchlab_price_req`, while the account subscriber consumes only `price_req`. No resolved market is ever tracked.

7. `geyser_account_subscriber/src/kafka_consumer.rs:74`: each `price_req` and `main`'s initial update call `update_subscription` from a task of their own. Their Updates reach the command channel in scheduling order, and every Update replaces the whole account set. An older request can be installed last, so the newer request's market is not tracked. Spec §4.6 says the request starts tracking that market. (Today finding 6 keeps every request from arriving at all.)

Found while modelling, recorded as hazards in `PROJECT.json`, and planned for later modules:

- The pg price upsert names a `decimal` column.
- `handle_pf_trade` stops at the first failing store. Spec §4.5 says the other stores are still attempted.
- The RLL account events are tagged `PfPriceUpdated` (`AccountDecoder`'s `Dispatch`), so the producer sends them to `pf_price_update_event` rather than `rll_price_update_event`; and the RLL trade/migrate topics differ from the names data_processor subscribes to.
- `pf_pgsql_dto.rs:73`: the i128 price is stored `as i64` and wraps for extreme trades (token reserves 1, high decimals); `TypeOK` of `derivation` guards the wrap's range.
- `req_handler.rs:130`: `resolve_address` awaits its racers in spawn order, so a token found by racer 2 waits behind racer 1's RPC call, and the deadline yields Timeout. Spec §4.6 says the first racer to return wins. In the model: `ResolveAddress`, `RacerDone(2)` with a kind, `Deadline`.
- `ws_price_stream_handler.rs:21`: the socket publishes its request before it subscribes to its reply channel; a resolver that answers first publishes to nobody, and the socket waits forever. In the model: `PublishInitTokenData` before `SubscribeForPrice`.
- `cache_handler.rs:63`: `unwrap` on `sismember`, `cache_token` and `cache_stream` panics the loop that `main` awaits, so the resolver exits on one Redis error. Spec §7 says the event loop never panics on IO failure.
- The resolver sends `pool = bonding_curve` in fulfil requests.
- The resolver ignores cache and DB hits.
- `rpc_handler.rs:84`: `get_account_by_address` decodes a bonding curve only when the owner is `PUMPSWAP`, `SPL_TOKEN` or `TOKEN_2022`, but `resolve_by_bonding_curve` passes `PUMPFUN` first. An account owned by the PumpFun program falls to the `_` arm. `parse_pool_state` then fails on the 142/143-byte record, and the call returns None. In `HistorianRpc`, `AccountByAddress` of a PumpFun-owned account of either bonding-curve size is `none`. Spec §4.6 says an owner that is the PF program or a token program decodes the bonding curve. The program-id values (historian `models/consts`) are not in the repository, so this reading rests on the constants' names.
- `req_handler.rs:374`: `resolve_by_pool` unwraps the price. `get_pool_price` reads the base vault only as a Token-2022 account, so a pool of an SPL-token base panics its racer and never resolves.
- `pf_ch_trade_occurred_handler.rs:199` and `:326`: `pf_user` and `pf_bonding_curve` both take the owner of the largest post-token balance, so `user` and `bonding_curve` are always the same account. Spec §4.1 takes the user from account key 0 and the bonding curve from index 2. (`PfChTrade` keeps only whether the list is empty: `PfUser` and `PfBondingCurve`.)
- `pf_ch_trade_occurred_handler.rs:389`: `pf_token_amount` searches only the first inner-instruction group. A buy that creates the buyer's token account first has the associated-token-account CPIs in group 0, so the trade is dropped. `MC_Txs` holds such buys; `TradeExtractedIffComplete` follows the code's reading, since the spec's "first inner instruction" names no group.
- Spec §4.1 cross-checks `sol_amount` against `|pre − post| − fee`. That is right for buys only: for a sell it gives the amount less twice the fee. The code's `|(pre − post) − fee|` is right for both (`SolAmountIsTradeLamports`; its mutant is the spec's formula).
- `rpc_handler.rs:87` and `:497`: `&account.data[8..]` panics the racer on an owned account shorter than 8 bytes (`Racer` returns `panic`).

## 5. Plan for the remaining modules (in order)

Done: **Derivation** (section 2).

Done: **EventRouter** (section 2), for the transaction pipeline.

Done: **Resolver** (section 2), with pub_api's price socket.

Done: **TxDecoder** (section 2), for the TradeEvent payload reads, and **PfChTrade** for the rest of `handle_pf_ch_trade`.

Done: **AccountDecoder** and **HistorianRpc** (section 2): the account-snapshot parsers and the resolver racers' account reads.

Done: **SubscriptionService** (section 2), the abstract specification that `SubscriptionManager` refines (`ImplementsService`); and the request order of `kafka_consumer.rs:74` (`subscription_order`).

1. **Resolver races with runs of their own**: the spawn-order await (`req_handler.rs:130`), the reply published before the socket subscribes (`ws_price_stream_handler.rs:21`) and the Redis `unwrap`s (`cache_handler.rs:63`). `Resolver` already has the actions for all three; each needs a violation run.
2. **PfChTrade, further**: which program emitted the first `Program data:` event (`pf_ch_trade_occurred_handler.rs:648`). This needs payload bytes, a discriminator at least, in place of a length. With a free run slot, a violation run could check the spec's reading of `pf_token_amount` (any inner group).

## 6. Not modelled

- The token-created and token-migrated decoders (`pf_token_created_handler.rs`, `pf_token_migrated_handler.rs`): `handle_pf_tx` has their calls commented out and returns `Ok(None)`, so they are dead code. The same holds for `pf_trade_occurred_handler.rs`, which nothing calls.
- The PumpSwap decoder `handle_ps_trade` reads protobuf fields and log text with `get`/`first` and length checks; it has no state and no control flow that a property could tell apart beyond accept/reject, which `EventRouter` models.
- Byte values of the decoded payloads, and the values of addresses, amounts and log fields (`TxDecoder` and `PfChTrade` keep lengths, counts and line kinds).
- HTTP routing, configuration, logging and client construction (pure I/O).
- Metadata fetching over HTTP.
- The exact backoff durations.
- In `HistorianRpc`, token amounts, reserves and prices (the f64 PumpFun and PumpSwap price formulas of `get_bonding_curve_price` and `get_pool_price`). An account is its owner and length. The token-account lookup and JSON extraction of a bonding curve's enrichment are outcomes. `get_pool_price_with_rpc` is not called anywhere.
