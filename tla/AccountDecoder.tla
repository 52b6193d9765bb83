---------------------------- MODULE AccountDecoder ----------------------------
(***************************************************************************)
(* The account path of geyser_account_subscriber: account_consumer hands   *)
(* every account update to handle_price_update, which looks the pubkey up  *)
(* in the subscription's tracked_accounts and runs the platform's parser;  *)
(* an Ok event is sent to the producer task, which picks the topic by the *)
(* event's type.  Only the data's length matters to the parsers, so an    *)
(* update is its account and its length.  A parser's result is the list  *)
(* of its reads, each a field at a byte offset; an index past the end is  *)
(* a panic, as in TxDecoder.  The reference is spec §4.2.                  *)
(***************************************************************************)
EXTENDS Integers, Sequences

CONSTANTS
    Accounts,   \* pubkeys the node may send an update for
    Tracked,    \* tracked_accounts: Accounts -> Platforms \cup {NoPlatform}
    AcctLens    \* account data lengths to try

Platforms == {"PumpFun", "PumpSwap", "RaydiumLaunchLab"}
NoPlatform == "none"

\* A read of size bytes at off, named by the field it fills.
Rd(f, o, n) == [f |-> f, off |-> o, size |-> n]
Parsed(rs) == [ok |-> TRUE, reads |-> rs]
NotParsed == [ok |-> FALSE, reads |-> <<>>]

\* Mutant: the length guard stops at the third reserve.
ParseBondingCurve_Short(len) ==
    IF len < 32 THEN NotParsed
    ELSE Parsed(<<Rd("virtual_token", 8, 8), Rd("virtual_sol", 16, 8),
                  Rd("real_token", 24, 8), Rd("real_sol", 32, 8)>>)

\* parse_bonding_curve: `if data.len() < 40 { return None }`, then four
\* u64::from_le_bytes over data[8..16], [16..24], [24..32], [32..40].
ParseBondingCurve(len) ==
    IF len < 40 THEN NotParsed
    ELSE Parsed(<<Rd("virtual_token", 8, 8), Rd("virtual_sol", 16, 8),
                  Rd("real_token", 24, 8), Rd("real_sol", 32, 8)>>)

\* parse_pool: `if data.len() < 24 { return None }`, then [8..16], [16..24].
ParsePool(len) ==
    IF len < 24 THEN NotParsed
    ELSE Parsed(<<Rd("token_a", 8, 8), Rd("token_b", 16, 8)>>)

\* extract_price_data: data[18] and data[19] with no length check; the
\* reserves are the constant 1_000_000, so they read nothing.
ExtractPriceData(len) ==
    Parsed(<<Rd("base_decimals", 18, 1), Rd("quote_decimals", 19, 1)>>)

\* handle_price_update: get_platform, then the platform's handler.  The
\* PF and PS handlers turn a None into Err (`ok_or(..)?`); the RLL handler
\* always builds its event, tagged KEventType::PfPriceUpdated.
Dispatch(p, len) ==
    CASE p = "PumpFun" ->
            [r |-> ParseBondingCurve(len), event |-> "PfPriceUpdated"]
      [] p = "PumpSwap" ->
            [r |-> ParsePool(len), event |-> "PsPriceUpdated"]
      [] p = "RaydiumLaunchLab" ->
            [r |-> ExtractPriceData(len), event |-> "PfPriceUpdated"]
      [] OTHER -> [r |-> NotParsed, event |-> "none"]

InBounds(rs, len) == \A i \in DOMAIN rs : rs[i].off + rs[i].size <= len

\* The handler's result on a snapshot of length len.
HandlePriceUpdate(p, len) ==
    LET d == Dispatch(p, len)
    IN IF ~d.r.ok THEN [kind |-> "err", event |-> "none", reads |-> <<>>]
       ELSE IF ~InBounds(d.r.reads, len)
            THEN [kind |-> "panic", event |-> "none", reads |-> <<>>]
       ELSE [kind |-> "ok", event |-> d.event, reads |-> d.r.reads]

\* start_kafka_producer: the topic list of each event type.
TopicOf(ev) ==
    CASE ev = "PfPriceUpdated"  -> "pf_price_update_event"
      [] ev = "PsPriceUpdated"  -> "ps_price_update_event"
      [] ev = "RllPriceUpdated" -> "rll_price_update_event"

-----------------------------------------------------------------------------

VARIABLES
    snapAcct,   \* the account of the last update
    snapLen,    \* its data length
    snapOut,    \* handle_price_update's result: kind, event, reads
    snapTopic   \* the topic the producer sent the event to

snapVars == <<snapAcct, snapLen, snapOut, snapTopic>>

NoAccount == "none"      \* no update received yet
NoSnapshot == [kind |-> "none", event |-> "none", reads |-> <<>>]

SnapInit ==
    /\ snapAcct = NoAccount
    /\ snapLen = 0
    /\ snapOut = NoSnapshot
    /\ snapTopic = "none"

\* account_consumer receives one account update and handles it; an Ok
\* event goes through event_tx to the producer, which sends it to its topic.
DecodeSnapshot ==
    \E a \in Accounts, len \in AcctLens :
        LET res == HandlePriceUpdate(Tracked[a], len)
        IN /\ snapAcct' = a
           /\ snapLen' = len
           /\ snapOut' = res
           /\ snapTopic' = IF res.kind = "ok" THEN TopicOf(res.event)
                                              ELSE "none"

SnapTypeOK ==
    /\ snapAcct \in Accounts \cup {NoAccount}
    /\ snapLen \in AcctLens \cup {0}
    /\ snapOut.kind \in {"none", "ok", "err", "panic"}
    /\ snapTopic \in {"none", "pf_price_update_event",
                      "ps_price_update_event", "rll_price_update_event"}

\* Spec §4.2: after the 8-byte discriminator, the platform's u64 reserves
\* in this order; the event is tagged with, and published for, the platform.
SpecReserves == [PumpFun |-> <<"virtual_token", "virtual_sol",
                               "real_token", "real_sol">>,
                 PumpSwap |-> <<"token_a", "token_b">>]
SpecMinLen(p) == 8 + 8 * Len(SpecReserves[p])
SpecReads(p) ==
    [i \in DOMAIN SpecReserves[p] |-> Rd(SpecReserves[p][i], 8 + 8 * (i - 1), 8)]
PlatformTopic == [PumpFun |-> "pf_price_update_event",
                  PumpSwap |-> "ps_price_update_event"]

(***************************************************************************)
(* SnapshotDecodedAtLayout: an update of a tracked bonding curve or        *)
(* PumpSwap pool never panics the stream; it yields an event exactly when  *)
(* the data holds every reserve the spec lists, the event's reserves are   *)
(* read at the spec's offsets in the spec's order, and the producer sends  *)
(* it to that platform's topic.  parse_bonding_curve and parse_pool each   *)
(* guard their fixed-offset reads with a length check written on its own, *)
(* and the topic is chosen from the event type, not the platform.  (The   *)
(* RaydiumLaunchLab parser has no length check and tags its event          *)
(* PfPriceUpdated: finding 1 and the hazard at rll_price_update_handler.)  *)
(***************************************************************************)
SnapshotDecodedAtLayout ==
    LET p == Tracked[snapAcct]
    IN (snapOut.kind # "none" /\ p \in DOMAIN SpecReserves) =>
         /\ snapOut.kind # "panic"
         /\ (snapOut.kind = "ok" <=> snapLen >= SpecMinLen(p))
         /\ snapOut.kind = "ok" =>
              /\ snapOut.reads = SpecReads(p)
              /\ snapTopic = PlatformTopic[p]

=============================================================================
