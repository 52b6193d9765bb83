\* Same inputs; checks the RLL pool price against the spec formula.
CONSTANTS
    W = 8
    Dec = 10
    RllScaleExp = 1
    VSol <- MC_VSol
    VTok <- MC_VTok
    Decimals <- MC_Decimals
    Claimed <- MC_Claimed
    RealTok <- MC_RealTok
    PoolReserves <- MC_PoolReserves
    PoolDecimals <- MC_PoolDecimals
SPECIFICATION Spec
INVARIANT RllPriceMatchesSpec
