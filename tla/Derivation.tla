----------------------------- MODULE Derivation -----------------------------
(***************************************************************************)
(* The integer derivations of dex-indexer, as pure operators:              *)
(*   - build_pf_pgsql_price and build_pf_pgsql_bonding_curve_progress     *)
(*     (data_processor), run on every PF trade;                            *)
(*   - get_price_from_pool_state (historian), run when the resolver        *)
(*     prices a Raydium LaunchLab pool.                                    *)
(* Widths are scaled: a 64-bit integer of the code is W bits here, a      *)
(* 128-bit one 2W bits, so that checked_pow / checked_mul / checked_add   *)
(* overflow and `as` truncation happen on TLC-sized numbers.  The        *)
(* reference definitions are the formulas of the specification.           *)
(* Each step derives one input, as handle_pf_trade and the LaunchLab arm *)
(* of resolve_by_bonding_curve do per message; the variables hold the    *)
(* last input and its results.                                            *)
(***************************************************************************)
EXTENDS Integers

CONSTANTS
    W,              \* bits standing for 64
    Dec,            \* 10, the decimal base
    RllScaleExp,    \* the exponent of `scale = 10_i64.pow(9)`, scaled
    VSol, VTok,     \* virtual reserves drawn from these (u64)
    Decimals,       \* trade decimals (i16)
    Claimed, RealTok, \* total_claimed_tokens, real_token_reserves (u64)
    PoolReserves,   \* virtual_base / virtual_quote (u64)
    PoolDecimals    \* base_decimals / quote_decimals (u8)

U64Max == 2^W - 1
I64Max == 2^(W - 1) - 1
U128Max == 2^(2 * W) - 1
I128Max == 2^(2 * W - 1) - 1
\* The largest decimals the spec admits: 10^decimals times any u64 fits in
\* a signed 128-bit integer (18 at real widths).
MaxDecimals == CHOOSE d \in 0..2 * W : /\ U64Max * Dec^d <= I128Max
                                       /\ U64Max * Dec^(d + 1) > I128Max
\* A result: ok = FALSE is the builder's Err.
Fail == [ok |-> FALSE, val |-> 0]
Ok(v) == [ok |-> TRUE, val |-> v]
NoPow == -1   \* checked_pow returned None

\* Mutant: the `as i64` keeps the full value, as if the column were i128.
AsSigned_Keep(x, n) == x

\* `x as iN` / `x as uN`: keep the low n bits (two's complement).
AsSigned(x, n) == ((x + 2^(n - 1)) % 2^n) - 2^(n - 1)
AsUnsigned(x, n) == x % 2^n
\* Rust's integer division truncates toward zero.
TruncDiv(a, b) == IF a >= 0 THEN a \div b ELSE -((-a) \div b)
\* `d as u32` for an i16 d: d, or 2^32 + d for a negative d.  Only whether it
\* exceeds 2W matters below, so 2^16 stands in for 2^32 (TLC integers end at
\* 2^31).
AsU32(d) == IF d >= 0 THEN d ELSE 2^16 + d

\* `base.checked_pow(e)` against the bound `lim`; past 2W the power exceeds
\* every bound used here, so the recursion stops there.
RECURSIVE PowUpTo(_, _, _)
PowUpTo(b, e, lim) ==
    IF e = 0 THEN 1
    ELSE LET r == PowUpTo(b, e - 1, lim)
         IN IF r = NoPow \/ r * b > lim THEN NoPow ELSE r * b
CheckedPow(b, e, lim) == IF e > 2 * W THEN NoPow ELSE PowUpTo(b, e, lim)

Trades == [vsol : VSol, vtok : VTok, dec : Decimals,
           claimed : Claimed, real : RealTok]
Pools == [vbase : PoolReserves, vquote : PoolReserves,
          bdec : PoolDecimals, qdec : PoolDecimals]

-----------------------------------------------------------------------------
(* build_pf_pgsql_price: i128 arithmetic, result stored `as i64`.          *)

\* Mutant: the scale and the product are computed in i64.
BuildPrice_I64(t) ==
    IF t.vtok = 0 THEN Fail
    ELSE LET scale == CheckedPow(Dec, AsU32(t.dec), I64Max)
         IN IF scale = NoPow \/ t.vsol * scale > I64Max THEN Fail
            ELSE Ok(AsSigned((t.vsol * scale) \div t.vtok, W))

BuildPrice(t) ==
    IF t.vtok = 0 THEN Fail
    ELSE LET scale == CheckedPow(Dec, AsU32(t.dec), I128Max)
         IN IF scale = NoPow \/ t.vsol * scale > I128Max THEN Fail
            ELSE Ok(AsSigned((t.vsol * scale) \div t.vtok, W))

(* build_pf_pgsql_bonding_curve_progress: u128 price stored `as u64`,     *)
(* checked u64 token sum, basis points `as u16`, lifecycle flags.         *)

\* Mutant: migration is detected only strictly past 10 000 bps.
IsMigrated_Strict(bps) == bps > 10000

IsMigrated(bps) == bps >= 10000

NoProgress == [ok |-> FALSE, price_lamports |-> 0, progress_bps |-> 0,
               is_migrated |-> FALSE, is_pre_migration |-> FALSE,
               is_tradeable |-> FALSE]

BuildProgress(t) ==
    IF t.vtok = 0 THEN NoProgress
    ELSE LET scale == CheckedPow(Dec, AsU32(t.dec), U128Max)
             total == t.claimed + t.real
         IN IF \/ scale = NoPow
               \/ t.vsol * scale > U128Max
               \/ total > U64Max
               \/ total = 0
            THEN NoProgress
            ELSE LET bps == AsUnsigned((t.claimed * 10000) \div total, 16)
                 IN [ok |-> TRUE,
                     price_lamports |-> AsUnsigned((t.vsol * scale) \div t.vtok, W),
                     progress_bps |-> bps,
                     is_migrated |-> IsMigrated(bps),
                     is_pre_migration |-> ~IsMigrated(bps),
                     is_tradeable |-> ~IsMigrated(bps)]

(* get_price_from_pool_state: i64 powers, an unchecked i128 product       *)
(* (wrapping in a release build), `as i64`.                               *)
PoolStatePrice(p) ==
    LET scale == Dec^RllScaleExp
        adj == (Dec^p.bdec) \div (Dec^p.qdec)
        prod == AsSigned(p.vquote * scale * adj, 2 * W)
    IN AsSigned(TruncDiv(prod, p.vbase), W)

-----------------------------------------------------------------------------
(* The specification's formulas (§4, §8), in unbounded integers.          *)

SpecRllPrice(p) ==
    ((p.vquote * Dec^RllScaleExp * Dec^p.bdec) \div Dec^p.qdec) \div p.vbase
\* The trade invariants of spec §4: reserves > 0, a token total > 0 that is
\* a u64, decimals in the range whose powers fit.
ValidTrade(t) ==
    /\ t.vtok > 0
    /\ t.dec \in 0..MaxDecimals
    /\ 0 < t.claimed + t.real /\ t.claimed + t.real <= U64Max

-----------------------------------------------------------------------------

VARIABLES
    last,       \* which derivation ran last: "none", "trade" or "pool"
    trade,      \* the last trade derived
    pool,       \* the last pool state priced
    price,      \* build_pf_pgsql_price's result
    progress,   \* build_pf_pgsql_bonding_curve_progress's result
    poolPrice   \* get_price_from_pool_state's result

vars == <<last, trade, pool, price, progress, poolPrice>>

Init ==
    /\ last = "none"
    \* trade and pool are not read until the first derivation.
    /\ trade = CHOOSE t \in Trades : TRUE
    /\ pool = CHOOSE p \in Pools : TRUE
    /\ price = Fail /\ progress = NoProgress /\ poolPrice = 0

\* handle_pf_trade derives both projections of a trade.  A behaviour is one
\* service: data_processor derives trades, the resolver prices pools.
DeriveTrade ==
    /\ last \in {"none", "trade"}
    /\ \E t \in Trades :
        /\ last' = "trade" /\ trade' = t
        /\ price' = BuildPrice(t)
        /\ progress' = BuildProgress(t)
        /\ UNCHANGED <<pool, poolPrice>>

\* resolve_by_bonding_curve's LaunchLab arm prices a pool state
\* (virtual_base = 0 panics the task).
DerivePool ==
    /\ last \in {"none", "pool"}
    /\ \E p \in Pools :
        /\ p.vbase # 0
        /\ last' = "pool" /\ pool' = p
        /\ poolPrice' = PoolStatePrice(p)
        /\ UNCHANGED <<trade, price, progress>>

Next == DeriveTrade \/ DerivePool

Spec == Init /\ [][Next]_vars

-----------------------------------------------------------------------------

TypeOK ==
    /\ last \in {"none", "trade", "pool"}
    /\ trade \in Trades /\ pool \in Pools
    /\ price \in [ok : BOOLEAN, val : -(I64Max + 1)..I64Max]
    /\ poolPrice \in -(I64Max + 1)..I64Max
    /\ progress \in [ok : BOOLEAN, price_lamports : 0..U64Max,
                     progress_bps : 0..2^16 - 1, is_migrated : BOOLEAN,
                     is_pre_migration : BOOLEAN, is_tradeable : BOOLEAN]

(***************************************************************************)
(* ValidTradesDerive: a trade meeting the spec's invariants is never      *)
(* dropped as an InvariantError by either builder: the 10^decimals scale  *)
(* and the reserves product fit their intermediates.                      *)
(***************************************************************************)
ValidTradesDerive ==
    last = "trade" /\ ValidTrade(trade) => price.ok /\ progress.ok

(***************************************************************************)
(* ProgressLifecycle (spec §8): progress_bps lies in [0, 10000], and a    *)
(* curve is migrated exactly at 10000 bps, tradeable and pre-migration    *)
(* exactly when not migrated.                                              *)
(***************************************************************************)
ProgressLifecycle ==
    progress.ok =>
        /\ progress.progress_bps \in 0..10000
        /\ progress.is_migrated <=> progress.progress_bps = 10000
        /\ progress.is_tradeable <=> ~progress.is_migrated
        /\ progress.is_pre_migration <=> ~progress.is_migrated

(***************************************************************************)
(* RllPriceMatchesSpec (spec §4.6 price math): the pool price equals      *)
(* (virtual_quote * 10^9 * 10^base / 10^quote) / virtual_base.            *)
(***************************************************************************)
RllPriceMatchesSpec ==
    last = "pool" => poolPrice = SpecRllPrice(pool)

=============================================================================
