------------------------------ MODULE TxDecoder ------------------------------
(***************************************************************************)
(* The Anchor TradeEvent reads of handle_pf_ch_trade (geyser_tx_streamer, *)
(* pf_ch_trade_occurred_handler.rs).  Eleven extractors each fetch the    *)
(* first "Program data: " payload, walk the layout to their field on their *)
(* own, check the length and read.  Only the payload's length matters to  *)
(* these reads, so a transaction is its decoded length; the extractors    *)
(* that read log text or balances are left out.  A read past the end of  *)
(* the payload, where the code indexes `buf[o..o + n]`, is a panic.       *)
(* The reference is the field layout of the specification (§ Program     *)
(* data).                                                                  *)
(***************************************************************************)
EXTENDS Integers, Sequences
LOCAL INSTANCE SequencesExt

CONSTANT BufLens    \* decoded payload lengths to try

DISC == 8
PUBKEY == 32
U64 == 8
BOOL == 1

\* The specification's TradeEvent layout after the 8-byte discriminator.
Layout == << [f |-> "mint", n |-> 32], [f |-> "sol_amount", n |-> 8],
             [f |-> "token_amount", n |-> 8], [f |-> "is_buy", n |-> 1],
             [f |-> "user", n |-> 32], [f |-> "timestamp", n |-> 8],
             [f |-> "virtual_sol", n |-> 8], [f |-> "virtual_token", n |-> 8],
             [f |-> "real_sol", n |-> 8], [f |-> "real_token", n |-> 8],
             [f |-> "fee_recipient", n |-> 32], [f |-> "fee_bps", n |-> 8],
             [f |-> "fee", n |-> 8], [f |-> "creator", n |-> 32],
             [f |-> "creator_fee_bps", n |-> 8], [f |-> "creator_fee", n |-> 8],
             [f |-> "track_volume", n |-> 1], [f |-> "total_unclaimed", n |-> 8],
             [f |-> "total_claimed", n |-> 8],
             [f |-> "current_sol_volume", n |-> 8],
             [f |-> "last_update_ts", n |-> 8] >>
LayoutIndex(fld) == CHOOSE i \in DOMAIN Layout : Layout[i].f = fld
LayoutOffset(fld) ==
    DISC + FoldLeft(LAMBDA acc, e : acc + e.n, 0,
                    SubSeq(Layout, 1, LayoutIndex(fld) - 1))
LayoutSize(fld) == Layout[LayoutIndex(fld)].n
LayoutEnd == LayoutOffset("last_update_ts") + U64

-----------------------------------------------------------------------------
(* The code's three walks of the layout.                                   *)

\* extract_pumpfun_fee_recipient: up to fee_recipient.
FeeRecipientOffset ==
    DISC + PUBKEY + U64 + U64 + BOOL + PUBKEY + U64 + U64 * 4

\* extract_pumpfun_creator: up to creator.
CreatorOffset ==
    DISC + PUBKEY + U64 + U64 + BOOL + PUBKEY + U64 + U64 * 4
         + PUBKEY + U64 + U64

\* Mutant: the walk forgets the 1-byte is_buy.
TradeEventOffsets_NoIsBuy ==
    LET vsol == DISC + PUBKEY + U64 + U64 + PUBKEY + U64
    IN <<vsol, vsol + U64, vsol + 2 * U64, vsol + 3 * U64>>

\* trade_event_offsets_1: virtual_sol, virtual_token, real_sol, real_token.
TradeEventOffsets ==
    LET vsol == DISC + PUBKEY + U64 + U64 + BOOL + PUBKEY + U64
    IN <<vsol, vsol + U64, vsol + 2 * U64, vsol + 3 * U64>>

\* volume_tracking_base_offset: the end of creator_fee.
VolumeTrackingBaseOffset ==
    CreatorOffset + PUBKEY + U64 + U64

-----------------------------------------------------------------------------
(* One extractor on a payload of length len: Err, or a read of size bytes *)
(* at off.  A read is made only past the extractor's length check.        *)

Err == [ok |-> FALSE, off |-> 0, size |-> 0]
Read(o, n) == [ok |-> TRUE, off |-> o, size |-> n]

\* extract_pumpfun_creator / _fee_recipient: `if buf.len() < o + PUBKEY`.
ExtractPubkey(o, len) == IF len < o + PUBKEY THEN Err ELSE Read(o, PUBKEY)

\* read_u64_1: `buf.get(offset..offset + 8)`, None past the end.
ReadU64(o, len) == IF o + 8 > len THEN Err ELSE Read(o, U64)

\* Mutant: the length check admits a payload ending at the flag.
ExtractTrackVolume_Lt(len) ==
    LET o == VolumeTrackingBaseOffset
    IN IF len < o THEN Err ELSE Read(o, BOOL)

\* extract_track_volume: `if buf.len() <= o`, then `buf[o]`.
ExtractTrackVolume(len) ==
    LET o == VolumeTrackingBaseOffset
    IN IF len <= o THEN Err ELSE Read(o, BOOL)

\* extract_total_unclaimed_tokens and the three after it: the field k
\* u64s past the flag, `if buf.len() < o + 8`, then `buf[o..o + 8]`.
ExtractVolumeU64(k, len) ==
    LET o == VolumeTrackingBaseOffset + 1 + 8 * k
    IN IF len < o + 8 THEN Err ELSE Read(o, 8)

\* handle_pf_ch_trade's buffer reads, in the order it makes them.
HandleOrder == <<"creator", "fee_recipient", "virtual_sol", "virtual_token",
                 "real_sol", "real_token", "track_volume", "total_unclaimed",
                 "total_claimed", "current_sol_volume", "last_update_ts">>

Extract(fld, len) ==
    CASE fld = "creator"            -> ExtractPubkey(CreatorOffset, len)
      [] fld = "fee_recipient"      -> ExtractPubkey(FeeRecipientOffset, len)
      [] fld = "virtual_sol"        -> ReadU64(TradeEventOffsets[1], len)
      [] fld = "virtual_token"      -> ReadU64(TradeEventOffsets[2], len)
      [] fld = "real_sol"           -> ReadU64(TradeEventOffsets[3], len)
      [] fld = "real_token"         -> ReadU64(TradeEventOffsets[4], len)
      [] fld = "track_volume"       -> ExtractTrackVolume(len)
      [] fld = "total_unclaimed"    -> ExtractVolumeU64(0, len)
      [] fld = "total_claimed"      -> ExtractVolumeU64(1, len)
      [] fld = "current_sol_volume" -> ExtractVolumeU64(2, len)
      [] fld = "last_update_ts"     -> ExtractVolumeU64(3, len)

\* The `?` chain: the first Err ends the handler, an out-of-bounds index
\* panics it, and it returns Ok when every read succeeds.
RECURSIVE Chain(_, _)
Chain(len, i) ==
    IF i > Len(HandleOrder) THEN "ok"
    ELSE LET r == Extract(HandleOrder[i], len)
         IN IF ~r.ok THEN "err"
            ELSE IF r.off + r.size > len THEN "panic"
            ELSE Chain(len, i + 1)
HandlePfChTrade(len) == Chain(len, 1)

-----------------------------------------------------------------------------

VARIABLES
    bufLen,     \* the decoded length of the last transaction's payload
    outcome     \* handle_pf_ch_trade's result: "none", "ok", "err", "panic"

txVars == <<bufLen, outcome>>

TxInit == bufLen = 0 /\ outcome = "none"

\* The streamer decodes one PF transaction.
DecodeTx ==
    \E len \in BufLens :
        /\ bufLen' = len
        /\ outcome' = HandlePfChTrade(len)

TxSpec == TxInit /\ [][DecodeTx]_txVars

TxTypeOK ==
    /\ bufLen \in BufLens \cup {0}
    /\ outcome \in {"none", "ok", "err", "panic"}

(***************************************************************************)
(* DecodeNeverPanics (spec: every byte read is bounds-checked; a short    *)
(* buffer is a decode failure): for every payload length, each extractor's *)
(* length check precedes an in-bounds `buf[..]`, so handle_pf_ch_trade     *)
(* returns Err on a short payload and never panics the streamer.          *)
(***************************************************************************)
DecodeNeverPanics ==
    /\ outcome # "panic"
    /\ outcome = "ok" <=> bufLen >= LayoutEnd

(***************************************************************************)
(* DecodedFieldsAtLayout: when the handler succeeds, each of its eleven   *)
(* reads takes the field's bytes at the specification's offset: the three *)
(* separate layout walks agree with the layout and with each other.        *)
(***************************************************************************)
DecodedFieldsAtLayout ==
    outcome = "ok" =>
        \A i \in DOMAIN HandleOrder :
            LET fld == HandleOrder[i]
            IN /\ Extract(fld, bufLen).off = LayoutOffset(fld)
               /\ Extract(fld, bufLen).size = LayoutSize(fld)

=============================================================================
