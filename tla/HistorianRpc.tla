----------------------------- MODULE HistorianRpc -----------------------------
(***************************************************************************)
(* The account reads behind resolve_address's RPC racers (historian,       *)
(* rpc_handler.rs and req_handler.rs): each racer fetches the account at   *)
(* its address, checks the owner program, skips the 8-byte discriminator  *)
(* and borsh-decodes the rest, then enriches: a bonding curve through its *)
(* token account, a PumpSwap pool through its two vaults and its mint.    *)
(* An account is its owner and its data length; the enrichment RPCs are  *)
(* their outcomes.  A slice past the end, or an unwrap() of None/Err, is   *)
(* a panic of the racer's task.                                            *)
(***************************************************************************)
EXTENDS Integers, Sequences

CONSTANTS
    MarketShapes,   \* [owner, len] of the account at the racer's address
    VaultShapes,    \* [owner, len] of a pool vault token account
    MintShapes      \* [owner, len] of a pool's base mint

\* The owner programs the code names (models/consts).
Programs == {"PumpFun", "PumpSwap", "LaunchLab", "SplToken", "Token2022",
             "System"}

\* Borsh sizes of the models/rpc.rs records (u64 8, bool/u8 1, Pubkey 32).
BondingCurveToken2022Size == 5 * 8 + 1 + 32 + 1 + 69
BondingCurveSplSize == 5 * 8 + 1 + 32 + 1 + 68
PoolAccountSize == 1 + 2 + 6 * 32 + 8 + 32 + 1 + 57
PoolStateSize == 8 + 5 * 1 + 10 * 8 + 40 + 7 * 32 + 1 + 63

\* T::try_from_slice(&data[8..]): Ok only when the record uses every byte.
TryFromSlice(len, size) == len - 8 = size

\* get_account_by_address: the first program id equal to the owner picks
\* the decoder.  PUMPSWAP | SPL_TOKEN | TOKEN_2022 try both bonding-curve
\* records over `&account.data[8..]`; a miss goes on with the next id.  Any
\* other id returns parse_pool_state(&account.data), `&data[8..]` again.
RECURSIVE AccountByAddress(_, _)
AccountByAddress(acc, pids) ==
    IF pids = <<>> THEN "none"
    ELSE LET p == Head(pids)
         IN IF acc.owner # p THEN AccountByAddress(acc, Tail(pids))
            ELSE IF acc.len < 8 THEN "panic"
            ELSE IF p \in {"PumpSwap", "SplToken", "Token2022"}
                 THEN IF TryFromSlice(acc.len, BondingCurveToken2022Size)
                        THEN "PumpFunToken2022"
                      ELSE IF TryFromSlice(acc.len, BondingCurveSplSize)
                        THEN "PumpFunSpl"
                      ELSE AccountByAddress(acc, Tail(pids))
            ELSE IF TryFromSlice(acc.len, PoolStateSize)
                 THEN "RaydiumLaunchLab" ELSE "none"

\* How a bonding curve's enrichment ends: get_account_by_bonding_curve
\* finds no token account (None), or the first unwrap() that fails:
\* extract_decimals_from_account, get_bonding_curve_price (zero virtual
\* token reserves), extract_mint_from_account.
Enrichments == {"ok", "noTokenAccount", "noDecimals", "zeroVtok", "noMint"}

\* resolve_by_bonding_curve.
ResolveByBondingCurve(acc, enrich) ==
    LET a == AccountByAddress(acc, <<"PumpFun", "LaunchLab", "Token2022",
                                     "SplToken">>)
    IN CASE a \in {"PumpFunToken2022", "PumpFunSpl"} ->
              CASE enrich = "ok" -> "bc"
                [] enrich = "noTokenAccount" -> "none"
                [] OTHER -> "panic"
         [] a = "RaydiumLaunchLab" -> "poolState"
         [] OTHER -> a

\* get_pool: owner PUMPSWAP, `len < 8` checked, then the PoolAccount record.
GetPool(acc) ==
    /\ acc.owner = "PumpSwap"
    /\ acc.len >= 8
    /\ TryFromSlice(acc.len, PoolAccountSize)

\* get_token_account_balance: owner check, `len < 72`, then data[64..72].
HasBalance(v, prog) == v.owner = prog /\ v.len >= 72

\* get_mint_decimals: an SPL or Token-2022 mint, `len < 45`, then data[44].
HasDecimals(m) == m.owner \in {"SplToken", "Token2022"} /\ m.len >= 45

\* resolve_by_pool: get_pool, get_mint_decimals, get_pool_price (the base
\* vault read as a TOKEN_2022 account, the quote vault as SPL, then
\* get_token_metadata(..).unwrap()), and `.unwrap().unwrap()` on the price.
\* ~metaOk over-approximates that unwrap: it adds no outcome the vault
\* reads do not already give.
ResolveByPool(acc, base, quote, mint, metaOk) ==
    IF ~GetPool(acc) THEN "none"
    ELSE IF ~metaOk THEN "panic"
    ELSE IF HasBalance(base, "Token2022") /\ HasBalance(quote, "SplToken")
            /\ HasDecimals(mint)
         THEN "pool" ELSE "panic"

Markets == {"bc", "pool", "poolState"}

\* The racers of resolve_address: 1 the input itself (bonding curve, then
\* pool), 2 its bonding-curve PDA, 3 its pool PDA.  A panic ends the task.
Racer(k, acc, enrich, base, quote, mint, metaOk) ==
    LET bc == ResolveByBondingCurve(acc, enrich)
        pool == ResolveByPool(acc, base, quote, mint, metaOk)
    IN CASE k = 1 -> IF bc \in Markets \cup {"panic"} THEN bc ELSE pool
         [] k = 2 -> bc
         [] k = 3 -> pool

-----------------------------------------------------------------------------

VARIABLES
    rk,     \* which racer ran last
    racc,   \* the account at its address
    rout    \* its result: "none", "panic" or the market it resolved

racerVars == <<rk, racc, rout>>

NoMarket == [owner |-> "System", len |-> 0]

RacerInit == rk = 1 /\ racc = NoMarket /\ rout = "idle"

\* One racer runs to its end against one state of the chain.
RunRacer ==
    \E k \in 1..3, acc \in MarketShapes, enrich \in Enrichments,
       base, quote \in VaultShapes, mint \in MintShapes, metaOk \in BOOLEAN :
        /\ rk' = k
        /\ racc' = acc
        /\ rout' = Racer(k, acc, enrich, base, quote, mint, metaOk)

=============================================================================
