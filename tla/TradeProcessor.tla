--------------------------- MODULE TradeProcessor ---------------------------
(***************************************************************************)
(* data_processor: one rdkafka StreamConsumer (enable.auto.commit, auto   *)
(* offset store) reads the bus and, for pf_trade_event, handle_pf_trade   *)
(* writes three projections one after the other:                          *)
(*   ClickHouse append -> [pg price upsert -> redis price merge]           *)
(*                     -> [redis progress merge -> pg progress upsert]     *)
(* every call ending in `?`, so the first failure ends the handler and   *)
(* handle_message's error is only logged.  The process may crash and     *)
(* restart; the consumer then resumes at the last committed offset.       *)
(* A message is its index in the log; a store cell remembers the index of *)
(* the message that last wrote it (0: a value written before the log).    *)
(***************************************************************************)
EXTENDS Naturals, Sequences, FiniteSets

CONSTANTS
    Mints,          \* token mints (bonding curves are 1:1 with mints)
    LogLen,         \* number of messages on the bus
    MaxCrashes,     \* bound on process crashes
    SchemaHasDecimalColumn \* pf_prices has the column named in ON CONFLICT

ASSUME LogLen \in Nat \ {0} /\ MaxCrashes \in Nat
ASSUME SchemaHasDecimalColumn \in BOOLEAN

Idx == 1..LogLen
\* Outcome of build_pf_pgsql_price / build_pf_pgsql_bonding_curve_progress:
\* vtok = 0 or negative decimals fail both; total_tokens = 0 fails only the
\* progress; a product in [2^127, 2^128) fails only the i128 price.
Derivations == {"both", "priceOnly", "progOnly", "none"}
Message ==
    [kind : {"trade"}, mint : Mints, derive : Derivations]
    \cup [kind : {"invalid", "other"}]
Absent == [src |-> 0, meta |-> FALSE, present |-> FALSE]
Entry == [src : 0..LogLen, meta : BOOLEAN, present : BOOLEAN]

VARIABLES
    log,        \* the topic, fixed for the run
    position,   \* the consumer's next fetch offset
    stored,     \* offset stored by the auto offset store
    committed,  \* offset committed for the group
    pc,         \* where the consumer loop is
    cur,        \* the message being handled
    chRows,     \* pf_ch_trades: number of rows appended per message
    pgPrice,    \* pf_prices (pg) per mint
    redisPrice, \* pf_prices hash (redis) per mint
    redisProg,  \* pf_bonding_curve_progress hash (redis) per mint
    pgProg,     \* pf_bonding_curve_progress (pg) per mint
    processed,  \* history: handle_message has returned for the message
    crashes

vars == <<log, position, stored, committed, pc, cur, chRows, pgPrice,
          redisPrice, redisProg, pgProg, processed, crashes>>
stores == <<chRows, pgPrice, redisPrice, redisProg, pgProg>>

Msg == log[cur]
PriceBuilds(m) == m.derive \in {"both", "priceOnly"}
ProgBuilds(m) == m.derive \in {"both", "progOnly"}

\* Move the handler on; reaching "recv" is handle_message returning.
Goto(p) ==
    /\ pc' = p
    /\ processed' = IF p = "recv" THEN [processed EXCEPT ![cur] = TRUE]
                                   ELSE processed

\* The step after the price pair: `if let Ok(bcp) = ...` for the progress.
AfterPrice == IF ProgBuilds(Msg) THEN "redisProg" ELSE "recv"
\* The step after the ClickHouse insert: `if let Ok(p) = ...` for the price.
AfterColumnar == IF PriceBuilds(Msg) THEN "pgPrice" ELSE AfterPrice

-----------------------------------------------------------------------------
(* start_kafka_consumer: the recv loop and handle_message                 *)

\* consumer.recv() returns the next message; the offset store records
\* position+1 before the handler runs.  Other topics only log a warning;
\* an undecodable payload or a wrong event_type is an error that is logged.
Recv ==
    /\ pc = "recv"
    /\ position <= LogLen
    /\ cur' = position
    /\ position' = position + 1
    /\ stored' = position + 1
    /\ IF log[position].kind = "trade"
         THEN pc' = "ch" /\ UNCHANGED processed
         ELSE pc' = "recv" /\ processed' = [processed EXCEPT ![position] = TRUE]
    /\ UNCHANGED <<log, committed, stores, crashes>>

\* Mutant: the committed offset is the stored offset plus one (the stored
\* offset is already the next one to read).
AutoCommit_OffByOne ==
    /\ committed < stored
    /\ committed' = stored + 1
    /\ UNCHANGED <<log, position, stored, pc, cur, stores, processed, crashes>>

\* The auto-commit timer commits the stored offset.
AutoCommit ==
    /\ committed < stored
    /\ committed' = stored
    /\ UNCHANGED <<log, position, stored, pc, cur, stores, processed, crashes>>

\* The process dies and restarts: the group resumes at the committed offset.
Crash ==
    /\ crashes < MaxCrashes
    /\ crashes' = crashes + 1
    /\ pc' = "recv"
    /\ position' = committed
    /\ stored' = committed
    /\ UNCHANGED <<log, committed, cur, stores, processed>>

-----------------------------------------------------------------------------
(* handle_pf_trade                                                         *)

HandlerUnchanged == UNCHANGED <<log, position, stored, committed, cur, crashes>>

\* insert_pf_ch_trade(...).await? succeeds.
InsertCh ==
    /\ pc = "ch"
    /\ chRows' = [chRows EXCEPT ![cur] = @ + 1]
    /\ Goto(AfterColumnar)
    /\ HandlerUnchanged /\ UNCHANGED <<pgPrice, redisPrice, redisProg, pgProg>>

\* Mutant: the ClickHouse error is logged and the projections still run.
InsertChFailed_Continue ==
    /\ pc = "ch"
    /\ Goto(AfterColumnar)
    /\ HandlerUnchanged /\ UNCHANGED stores

\* insert_pf_ch_trade fails: `?` ends the handler.
InsertChFailed ==
    /\ pc = "ch"
    /\ Goto("recv")
    /\ HandlerUnchanged /\ UNCHANGED stores

\* upsert_pf_pgsql_price: INSERT ... ON CONFLICT (mint, bonding_curve).
\* The SET list names `decimal`; without such a column every call fails.
PgPriceUpsert ==
    /\ pc = "pgPrice"
    /\ \/ /\ SchemaHasDecimalColumn
          /\ pgPrice' = [pgPrice EXCEPT ![Msg.mint] = cur]
          /\ Goto("redisPrice")
       \/ /\ Goto("recv")
          /\ UNCHANGED pgPrice
    /\ HandlerUnchanged /\ UNCHANGED <<chRows, redisPrice, redisProg, pgProg>>

\* Mutant: the merge stores the incoming projection over an existing entry.
MergePrice_Replace(existing, incoming) == incoming

\* upsert_pf_redis_price's merge: trade-derived fields are overwritten, each
\* metadata field only when the incoming one is Some.
MergePrice(existing, incoming) ==
    IF existing.present
      THEN [existing EXCEPT !.src = incoming.src,
                            !.meta = existing.meta \/ incoming.meta]
      ELSE incoming

\* upsert_pf_redis_price: hget, merge, hset.  PfRedisPrice::from sets every
\* metadata field to None.  An hget/deserialize/hset error ends the handler.
RedisPriceUpsert ==
    /\ pc = "redisPrice"
    /\ \/ /\ redisPrice' = [redisPrice EXCEPT ![Msg.mint] =
                 MergePrice(@, [src |-> cur, meta |-> FALSE, present |-> TRUE])]
          /\ Goto(AfterPrice)
       \/ /\ Goto("recv")
          /\ UNCHANGED redisPrice
    /\ HandlerUnchanged /\ UNCHANGED <<chRows, pgPrice, redisProg, pgProg>>

\* upsert_pf_redis_bonding_curve_progress: hget, overwrite every field, hset.
RedisProgUpsert ==
    /\ pc = "redisProg"
    /\ \/ /\ redisProg' = [redisProg EXCEPT ![Msg.mint] = cur]
          /\ Goto("pgProg")
       \/ /\ Goto("recv")
          /\ UNCHANGED redisProg
    /\ HandlerUnchanged /\ UNCHANGED <<chRows, pgPrice, redisPrice, pgProg>>

\* upsert_pf_pgsql_bonding_curve_progress: ON CONFLICT (bonding_curve).
PgProgUpsert ==
    /\ pc = "pgProg"
    /\ \/ pgProg' = [pgProg EXCEPT ![Msg.mint] = cur]
       \/ UNCHANGED pgProg
    /\ Goto("recv")
    /\ HandlerUnchanged /\ UNCHANGED <<chRows, pgPrice, redisPrice, redisProg>>

-----------------------------------------------------------------------------

\* Redis may already hold an entry written before this log, with or without
\* metadata (the enrichment the cache merge is meant to protect).
Init ==
    /\ log \in [Idx -> Message]
    /\ position = 1
    /\ stored = 1
    /\ committed = 1
    /\ pc = "recv"
    /\ cur = 1
    /\ chRows = [i \in Idx |-> 0]
    /\ pgPrice = [m \in Mints |-> 0]
    /\ redisPrice \in [Mints -> {Absent, [src |-> 0, meta |-> TRUE, present |-> TRUE]}]
    /\ redisProg = [m \in Mints |-> 0]
    /\ pgProg = [m \in Mints |-> 0]
    /\ processed = [i \in Idx |-> FALSE]
    /\ crashes = 0

HandlerStep ==
    \/ InsertCh \/ InsertChFailed \/ PgPriceUpsert \/ RedisPriceUpsert
    \/ RedisProgUpsert \/ PgProgUpsert

Next == Recv \/ AutoCommit \/ Crash \/ HandlerStep

\* The consumer loop and the commit timer are scheduled by tokio/librdkafka;
\* crashes are the environment.
Spec == Init /\ [][Next]_vars /\ WF_vars(Recv \/ HandlerStep) /\ WF_vars(AutoCommit)

-----------------------------------------------------------------------------

TypeOK ==
    /\ log \in [Idx -> Message]
    /\ position \in 1..LogLen + 1 /\ stored \in 1..LogLen + 1
    /\ committed \in 1..LogLen + 1
    /\ pc \in {"recv", "ch", "pgPrice", "redisPrice", "redisProg", "pgProg"}
    /\ cur \in Idx
    /\ chRows \in [Idx -> 0..MaxCrashes + 1]
    /\ pgPrice \in [Mints -> 0..LogLen]
    /\ redisPrice \in [Mints -> Entry]
    /\ redisProg \in [Mints -> 0..LogLen]
    /\ pgProg \in [Mints -> 0..LogLen]
    /\ processed \in [Idx -> BOOLEAN]
    /\ crashes \in 0..MaxCrashes


(***************************************************************************)
(* MetadataPreserved: a step never removes metadata from a pf_prices      *)
(* cache entry.  upsert_pf_redis_price receives projections whose         *)
(* metadata PfRedisPrice::from always sets to None, so only its           *)
(* field-by-field merge keeps an enriched entry's name, symbol, uri, ...   *)
(***************************************************************************)
MetadataPreserved ==
    [][\A m \in Mints : redisPrice[m].meta => redisPrice'[m].meta]_vars

(***************************************************************************)
(* ProjectionAfterColumnar: every pg or redis projection of a trade comes *)
(* from a trade whose pf_ch_trades row was appended: handle_pf_trade only *)
(* reaches the upserts after insert_pf_ch_trade succeeded, across crash   *)
(* replays included.                                                       *)
(***************************************************************************)
FromAppendedTrade(i) == i = 0 \/ chRows[i] > 0
ProjectionAfterColumnar ==
    \A m \in Mints :
        /\ FromAppendedTrade(pgPrice[m])
        /\ FromAppendedTrade(redisPrice[m].src)
        /\ FromAppendedTrade(redisProg[m])
        /\ FromAppendedTrade(pgProg[m])

(***************************************************************************)
(* NoLostMessage (at-least-once): every message before the consumer's     *)
(* fetch position has been handled, or is being handled now.  The offset  *)
(* is stored when recv() returns and committed by the timer while the     *)
(* handler may still be running; a crash then resumes past it.            *)
(***************************************************************************)
NoLostMessage ==
    \A i \in Idx : i < position => processed[i] \/ (pc # "recv" /\ cur = i)

=============================================================================
