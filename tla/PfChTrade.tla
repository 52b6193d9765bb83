------------------------------ MODULE PfChTrade ------------------------------
(***************************************************************************)
(* The whole of handle_pf_ch_trade (geyser_tx_streamer,                    *)
(* pf_ch_trade_occurred_handler.rs): thirty-odd extractors, each run on    *)
(* the transaction on its own and joined by `?`, so the first Err ends the *)
(* handler and an index out of bounds panics it.  TxDecoder models the     *)
(* reads of the event payload; this module adds the extractors that read   *)
(* the account keys, the balances, the log lines and the inner             *)
(* instructions.  A transaction is abstracted to what those extractors    *)
(* test: lengths and counts, each log line as its kind, and each inner     *)
(* instruction as its opcode and data length.                              *)
(***************************************************************************)
EXTENDS Integers, TxDecoder
LOCAL INSTANCE SequencesExt

CONSTANT Txs    \* the transactions the streamer may receive

(* A log line.  "ix": "Program log: Instruction: <name>", the name a       *)
(* sequence of words so that one name can begin with another; "fees":     *)
(* "Program log: Pump Fees Program: get_fees <key>=<val>"; "data":         *)
(* "Program data: <base64>", b64 whether it decodes, len the decoded       *)
(* length; "other": any other line, "Log truncated" among them.            *)
FeeKeys == {"trade_size_lamports", "fee_lamports", "fee_basis_points",
            "creator_fee_lamports", "creator_fee_basis_points",
            "market_cap_lamports"}

\* pf_ix_name: the markers in the order it tests them on each line, and
\* the name it returns for each.
Markers == << <<"Buy", "ExactSolIn">>, <<"Buy">>, <<"Sell">> >>
IxNames == << "buy_exact_sol_in", "buy", "sell" >>

\* l.contains("Instruction: <m>") on "Program log: Instruction: <name>".
HasMarker(l, m) == l.k = "ix" /\ IsPrefix(m, l.name)

\* Mutant: Buy is tested before BuyExactSolIn.
PfIxName_BuyFirst(logs) ==
    LET ms == << Markers[2], Markers[1], Markers[3] >>
        ns == << IxNames[2], IxNames[1], IxNames[3] >>
        MarkerOf(l) == SelectInSeq(ms, LAMBDA m : HasMarker(l, m))
        i == SelectInSeq(logs, LAMBDA l : MarkerOf(l) # 0)
    IN IF i = 0 THEN "none" ELSE ns[MarkerOf(logs[i])]

\* pf_ix_name: on the first line holding any marker, the first marker it
\* holds; "none" is the Err "ix name not found".
PfIxName(logs) ==
    LET MarkerOf(l) == SelectInSeq(Markers, LAMBDA m : HasMarker(l, m))
        i == SelectInSeq(logs, LAMBDA l : MarkerOf(l) # 0)
    IN IF i = 0 THEN "none" ELSE IxNames[MarkerOf(logs[i])]

\* pf_is_buy: `pf_ix_name(tx)?.starts_with("buy")`.
PfIsBuy(logs) == PfIxName(logs) \in {"buy", "buy_exact_sol_in"}

\* The payload fetch of extract_pumpfun_creator, _fee_recipient,
\* pf_anchor_event_bytes_1 and pf_anchor_trade_event_bytes: the first
\* "Program data: " line, Err if it does not decode or there is none.
FirstProgramData(logs) ==
    LET i == SelectInSeq(logs, LAMBDA l : l.k = "data")
    IN IF i = 0 \/ ~logs[i].b64 THEN [ok |-> FALSE, len |-> 0]
       ELSE [ok |-> TRUE, len |-> logs[i].len]

\* A payload read of TxDecoder on the fetched payload.
PayloadRead(fld, logs) ==
    LET p == FirstProgramData(logs)
        r == Extract(fld, p.len)
    IN CASE ~p.ok \/ ~r.ok -> "err"
         [] r.off + r.size > p.len -> "panic"
         [] OTHER -> "ok"

\* Mutant: only "true" is accepted.
ExtractIsPumpPool_TrueOnly(logs) ==
    LET i == SelectInSeq(logs, LAMBDA l : l.k = "fees" /\ l.key = "is_pump_pool")
    IN i # 0 /\ logs[i].val = "true"

\* extract_is_pump_pool: the first is_pump_pool line decides; a value
\* other than "true" or "false" is an Err, not a reason to read on.
ExtractIsPumpPool(logs) ==
    LET i == SelectInSeq(logs, LAMBDA l : l.k = "fees" /\ l.key = "is_pump_pool")
    IN i # 0 /\ logs[i].val \in {"true", "false"}

\* extract_trade_size_lamports and the get_fees u64 extractors: the first
\* line with the key whose value parses as u64.
ExtractFeeU64(logs, key) ==
    SelectInSeq(logs, LAMBDA l : l.k = "fees" /\ l.key = key /\ l.val = "u64")
        # 0

\* pf_token_amount: the first instruction of the FIRST inner group whose
\* data starts with 12; `data.get(1..9)` must exist.
PfTokenAmount(inner) ==
    /\ inner # << >>
    /\ LET g == inner[1]
           j == SelectInSeq(g, LAMBDA ix : ix.op = 12)
       IN j # 0 /\ g[j].len >= 9

\* pf_user and pf_bonding_curve: max_by_key over post_token_balances,
\* None only when the list is empty.  Both take the same entry's owner.
PfUser(tx) == tx.postTok > 0
PfBondingCurve(tx) == tx.postTok > 0

\* pf_mint: the mint of pre_token_balances.first().
PfMint(tx) == Len(tx.preTok) > 0

\* extract_token_decimals: pre_token_balances.first(), then its
\* ui_token_amount, Err when either is missing.
ExtractTokenDecimals(tx) == Len(tx.preTok) > 0 /\ tx.preTok[1].ui

AbsInt(x) == IF x < 0 THEN -x ELSE x

\* Mutant: the spec's |pre - post| - fee.
PfSolAmount_Spec(tx) == AbsInt(tx.pre - tx.post) - tx.fee

\* pf_sol_amount: ((pre as i64 - post as i64) - fee as i64).abs() as u64;
\* lamport balances are far below 2^63, so the casts change nothing.
PfSolAmount(tx) == AbsInt((tx.pre - tx.post) - tx.fee)

\* handle_pf_ch_trade's extractors in the order it calls them.
Steps == << "signature", "blockhash", "signer", "fee_payer", "user",
            "creator", "fee_recipient", "mint", "bonding_curve",
            "is_pump_pool", "ix_name", "is_buy", "sol_amount",
            "token_amount", "trade_size_lamports", "transaction_fee",
            "fee_lamports", "fee_basis_points", "creator_fee_lamports",
            "creator_fee_basis_points", "event_bytes", "decimals",
            "virtual_sol", "virtual_token", "real_sol", "real_token",
            "market_cap_lamports", "track_volume", "total_unclaimed",
            "total_claimed", "current_sol_volume", "last_update_ts" >>

OkIf(c) == IF c THEN "ok" ELSE "err"

\* One extractor on tx: "ok", "err" or "panic".  extract_pf_signature and
\* extract_blockhash check the byte lengths; pf_signer and pf_fee_payer
\* take account_keys.first(); pf_sol_amount indexes the balances.
Step(s, tx) ==
    CASE s = "signature" -> OkIf(tx.sigLen = 64)
      [] s = "blockhash" -> OkIf(tx.hashLen = 32)
      [] s \in {"signer", "fee_payer"} -> OkIf(tx.keys > 0)
      [] s = "user" -> OkIf(PfUser(tx))
      [] s = "bonding_curve" -> OkIf(PfBondingCurve(tx))
      [] s = "mint" -> OkIf(PfMint(tx))
      [] s = "is_pump_pool" -> OkIf(ExtractIsPumpPool(tx.logs))
      [] s \in {"ix_name", "is_buy"} -> OkIf(PfIxName(tx.logs) # "none")
      [] s = "sol_amount" ->
            IF tx.preBal = 0 \/ tx.postBal = 0 THEN "panic" ELSE "ok"
      [] s = "token_amount" -> OkIf(PfTokenAmount(tx.inner))
      [] s \in FeeKeys -> OkIf(ExtractFeeU64(tx.logs, s))
      [] s = "transaction_fee" -> "ok"
      [] s = "event_bytes" -> OkIf(FirstProgramData(tx.logs).ok)
      [] s = "decimals" -> OkIf(ExtractTokenDecimals(tx))
      [] OTHER -> PayloadRead(s, tx.logs)

\* The `?` chain: the result of the first extractor that is not Ok.
HandleTrade(tx) ==
    LET rs == [i \in DOMAIN Steps |-> Step(Steps[i], tx)]
        j == SelectInSeq(rs, LAMBDA r : r # "ok")
    IN IF j = 0
       THEN [kind |-> "ok", ix |-> PfIxName(tx.logs),
             isBuy |-> PfIsBuy(tx.logs), sol |-> PfSolAmount(tx)]
       ELSE [kind |-> rs[j], ix |-> "none", isBuy |-> FALSE, sol |-> 0]


-----------------------------------------------------------------------------

VARIABLES
    ptx,    \* the last PF transaction the streamer handled
    pout    \* handle_pf_ch_trade's result: kind, ix_name, is_buy, sol_amount

pfVars == <<ptx, pout>>

NoTrade == [kind |-> "none", ix |-> "none", isBuy |-> FALSE, sol |-> 0]

PfInit ==
    /\ ptx = CHOOSE tx \in Txs : TRUE
    /\ pout = NoTrade

\* is_pf_trade: a line starting "Program log: SwapEvent" or containing
\* "Program log: Instruction: Buy" or "...: Sell".
IsPfTrade(logs) ==
    \E i \in DOMAIN logs :
        logs[i].k = "swapEvent" \/ HasMarker(logs[i], Markers[2])
                                \/ HasMarker(logs[i], Markers[3])

\* handle_pf_tx: a transaction is_pf_trade accepts goes to
\* handle_pf_ch_trade; any other is Ok(None), no event.
DecodeTrade ==
    \E tx \in Txs :
        /\ ptx' = tx
        /\ pout' = IF IsPfTrade(tx.logs) THEN HandleTrade(tx)
                   ELSE [NoTrade EXCEPT !.kind = "ignored"]

PfTypeOK ==
    /\ ptx \in Txs
    /\ pout.kind \in {"none", "ignored", "ok", "err", "panic"}
    /\ pout.ix \in {"none", "buy", "sell", "buy_exact_sol_in"}

(* The specification's trade extraction: the account-key table; every     *)
(* get_fees key once, is_pump_pool a boolean; the payload of the Program  *)
(* data line holding the whole TradeEvent; decimals from the first         *)
(* pre-token balance; the token amount from the TransferChecked inner      *)
(* instruction (taken, as the code does, in the first inner group).        *)
HasFeeKey(logs, key, vals) ==
    \E i \in DOMAIN logs :
        logs[i].k = "fees" /\ logs[i].key = key /\ logs[i].val \in vals
SpecComplete(tx) ==
    /\ tx.sigLen = 64 /\ tx.hashLen = 32 /\ tx.keys > 0
    /\ tx.postTok > 0 /\ Len(tx.preTok) > 0 /\ tx.preTok[1].ui
    /\ HasFeeKey(tx.logs, "is_pump_pool", {"true", "false"})
    /\ \A key \in FeeKeys : HasFeeKey(tx.logs, key, {"u64"})
    /\ \E i \in DOMAIN tx.logs : tx.logs[i].k = "data"
    /\ FirstProgramData(tx.logs).ok /\ FirstProgramData(tx.logs).len >= LayoutEnd
    /\ \E i \in DOMAIN tx.logs, n \in DOMAIN Markers :
           HasMarker(tx.logs[i], Markers[n])
    /\ PfTokenAmount(tx.inner)

(***************************************************************************)
(* TradeExtractedIffComplete: on any transaction a validator produces,     *)
(* handle_pf_ch_trade never panics the streamer, and it returns a trade    *)
(* exactly when the transaction carries every field the specification     *)
(* lists.  Thirty-two extractors each scan the transaction on their own;  *)
(* one that is stricter than the rest (a get_fees value it rejects, a      *)
(* payload read past the TradeEvent) drops the trade, one that is looser  *)
(* publishes a record with a default in it.  Truncated logs ("Log          *)
(* truncated") and older, shorter TradeEvents are the inputs that lose     *)
(* fields.                                                                 *)
(***************************************************************************)
TradeExtractedIffComplete ==
    pout.kind # "none" =>
        /\ pout.kind # "panic"
        /\ (pout.kind = "ok" <=> SpecComplete(ptx))

\* Spec §4.1: the instruction a trade line names, matched whole.
SpecIxName == [n \in DOMAIN Markers |-> IxNames[n]]
SpecIx(logs) ==
    LET IsTrade(l) == \E n \in DOMAIN Markers : l.k = "ix" /\ l.name = Markers[n]
        i == SelectInSeq(logs, IsTrade)
    IN SpecIxName[CHOOSE n \in DOMAIN Markers : logs[i].name = Markers[n]]

(***************************************************************************)
(* IxNameMatchesInstruction: a published trade carries the name of the    *)
(* PumpFun instruction the transaction ran, and is_buy holds exactly for   *)
(* Buy and BuyExactSolIn.  pf_ix_name matches by substring, and            *)
(* "Instruction: BuyExactSolIn" contains "Instruction: Buy": only the     *)
(* order of its three tests on each line keeps a BuyExactSolIn trade from *)
(* being named "buy".                                                      *)
(***************************************************************************)
IxNameMatchesInstruction ==
    pout.kind = "ok" =>
        /\ pout.ix = SpecIx(ptx.logs)
        /\ pout.isBuy <=> pout.ix # "sell"

(***************************************************************************)
(* SolAmountIsTradeLamports: the sol_amount of a published trade is the    *)
(* lamports the trade moved in or out of the fee payer (account key 0),   *)
(* the transaction fee left out, for buys and sells alike, and also for a  *)
(* sell smaller than the fee.  A buy lowers the payer's balance by the     *)
(* amount and the fee, a sell raises it by the amount less the fee, so     *)
(* the sign of pre - post differs by side; the spec's |pre - post| - fee  *)
(* is right for buys only.                                                 *)
(***************************************************************************)
SolAmountIsTradeLamports ==
    pout.kind = "ok" => pout.sol = ptx.moved

=============================================================================
