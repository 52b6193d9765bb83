----------------------------- MODULE MC_Decoders -----------------------------
(* The pure parts of the pipeline checked together: the integer           *)
(* derivations of MC_Derivation and the TradeEvent reads of TxDecoder.    *)
(* the account-snapshot parsers of AccountDecoder and the resolver's      *)
(* account reads of HistorianRpc, and PfChTrade's whole trade handler.   *)
(* They share no variable.  As in          *)
(* Derivation, a behaviour is one service: the streamer decodes, the      *)
(* account subscriber parses, a resolver racer runs, or consumers derive.  *)
EXTENDS MC_Derivation, TxDecoder, AccountDecoder, HistorianRpc, PfChTrade

\* Payload lengths one byte either side of the end of every field read,
\* the empty payload, and the full event.
MC_BufLens ==
    {0, LayoutEnd} \cup
    {LayoutOffset(Layout[i].f) + Layout[i].n + d :
        i \in DOMAIN Layout, d \in {-1, 0}}

CONSTANTS aPf, aPs, aRll, aOther

\* One tracked account of each platform and one the map does not hold.
MC_Accounts == {aPf, aPs, aRll, aOther}
MC_Tracked == [a \in MC_Accounts |->
                 CASE a = aPf  -> "PumpFun"
                   [] a = aPs  -> "PumpSwap"
                   [] a = aRll -> "RaydiumLaunchLab"
                   [] OTHER    -> NoPlatform]
\* The empty account, the discriminator, and one byte either side of the
\* end of every read of the three parsers.
MC_AcctLens == {0, 8, 18, 19, 20, 23, 24, 31, 32, 39, 40}

\* Every owner program at every length a decoder tells apart: shorter than
\* the discriminator, the discriminator alone, and each record's size.
MC_MarketShapes == [owner : Programs,
                    len : {7, 8, 8 + BondingCurveSplSize,
                           8 + BondingCurveToken2022Size,
                           8 + PoolAccountSize, 8 + PoolStateSize}]
\* Vaults and mints of either token program, and one byte short of a read.
MC_VaultShapes == {[owner |-> "Token2022", len |-> 165],
                   [owner |-> "SplToken", len |-> 165],
                   [owner |-> "Token2022", len |-> 71]}
MC_MintShapes == {[owner |-> "SplToken", len |-> 82],
                  [owner |-> "Token2022", len |-> 45],
                  [owner |-> "Token2022", len |-> 44]}

(* PF trade transactions as the node sends them: a top-level instruction   *)
(* line, the Pump Fees get_fees lines, the token program's TransferChecked *)
(* and the TradeEvent's Program data line; that log cut short at every     *)
(* line by "Log truncated"; TradeEvents of the older layouts that end at   *)
(* fee and at creator_fee; inner instructions with and without an          *)
(* associated-token-account creation ahead of the PumpFun group; buys and  *)
(* sells of more and of fewer lamports than the fee.                       *)
Other == [k |-> "other"]
IxLine(n) == [k |-> "ix", name |-> n]
FeeLine(key, v) == [k |-> "fees", key |-> key, val |-> v]
DataLine(n) == [k |-> "data", b64 |-> TRUE, len |-> n]
FullLog(name, isPool, n) ==
    << Other, IxLine(name), FeeLine("is_pump_pool", isPool),
       FeeLine("trade_size_lamports", "u64"), FeeLine("fee_lamports", "u64"),
       FeeLine("fee_basis_points", "u64"), FeeLine("creator_fee_lamports", "u64"),
       FeeLine("creator_fee_basis_points", "u64"),
       FeeLine("market_cap_lamports", "u64"), IxLine(<<"TransferChecked">>),
       DataLine(n) >>
MC_Logs ==
    UNION {
      {FullLog(name, isPool, n) : n \in {CreatorOffset,
                                        VolumeTrackingBaseOffset, LayoutEnd}}
      \cup {SubSeq(FullLog(name, isPool, LayoutEnd), 1, t) \o <<Other>> :
              t \in 0..10}
      \cup {<< Other, [k |-> "swapEvent"] >>}
      : name \in {Markers[1], Markers[2], Markers[3]}, isPool \in {"true", "false"}}
PfGroup == << [op |-> 2, len |-> 12], [op |-> 12, len |-> 10] >>
AtaGroup == << [op |-> 0, len |-> 52], [op |-> 21, len |-> 1],
               [op |-> 22, len |-> 1], [op |-> 18, len |-> 33] >>
MC_Txs ==
    LET pre == 10  fee == 2
    IN {[sigLen |-> 64, hashLen |-> 32, keys |-> 5, preBal |-> 5, postBal |-> 5,
         postTok |-> 2, preTok |-> <<[ui |-> TRUE]>>, logs |-> logs,
         inner |-> inner, pre |-> pre, fee |-> fee, moved |-> m,
         post |-> IF PfIsBuy(logs) THEN pre - m - fee ELSE pre + m - fee] :
          logs \in MC_Logs, inner \in {<< >>, <<PfGroup>>, <<AtaGroup, PfGroup>>},
          m \in {1, 3}}

MC_Next ==
    \/ (outcome = "none" /\ snapOut.kind = "none" /\ rout = "idle"
        /\ pout.kind = "none") /\ Next
       /\ UNCHANGED <<txVars, snapVars, racerVars, pfVars>>
    \/ (last = "none" /\ snapOut.kind = "none" /\ rout = "idle"
        /\ pout.kind = "none") /\ DecodeTx
       /\ UNCHANGED <<vars, snapVars, racerVars, pfVars>>
    \/ (last = "none" /\ outcome = "none" /\ rout = "idle"
        /\ pout.kind = "none") /\ DecodeSnapshot
       /\ UNCHANGED <<vars, txVars, racerVars, pfVars>>
    \/ (last = "none" /\ outcome = "none" /\ snapOut.kind = "none"
        /\ pout.kind = "none") /\ RunRacer
       /\ UNCHANGED <<vars, txVars, snapVars, pfVars>>
    \/ (last = "none" /\ outcome = "none" /\ snapOut.kind = "none"
        /\ rout = "idle") /\ DecodeTrade
       /\ UNCHANGED <<vars, txVars, snapVars, racerVars>>

MC_Init == Init /\ TxInit /\ SnapInit /\ RacerInit /\ PfInit

MC_Spec ==
    MC_Init /\ [][MC_Next]_<<vars, txVars, snapVars, racerVars, pfVars>>

=============================================================================
