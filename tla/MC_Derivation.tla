---------------------------- MODULE MC_Derivation ----------------------------
(* Derivation at 8-bit "u64": u64 values 0..255, i128 values below 2^15.  *)
(* Inputs include zero divisors, negative and oversized decimals, a token *)
(* total that overflows, fully-claimed curves and both decimal orders.    *)
EXTENDS Derivation

MC_VSol == {0, 1, 7, 255}
MC_VTok == {0, 1, 3, 255}
MC_Decimals == {-1, 0, 1, 2, 3, 5}
MC_Claimed == {0, 1, 100, 255}
MC_RealTok == {0, 1, 200}
MC_PoolReserves == {0, 1, 7, 255}
MC_PoolDecimals == {0, 1}

=============================================================================
