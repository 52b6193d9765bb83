\* 8-bit scaled widths; every input combination of the MC sets; payload
\* lengths at every field boundary of the TradeEvent; one account per
\* platform and account lengths at every read boundary of the parsers;
\* every owner program at every record size for the resolver racers.
CONSTANTS
    W = 8
    Dec = 10
    RllScaleExp = 1
    VSol <- MC_VSol
    VTok <- MC_VTok
    Decimals <- MC_Decimals
    Claimed <- MC_Claimed
    RealTok <- MC_RealTok
    PoolReserves <- MC_PoolReserves
    PoolDecimals <- MC_PoolDecimals
    BufLens <- MC_BufLens
    aPf = aPf
    aPs = aPs
    aRll = aRll
    aOther = aOther
    Accounts <- MC_Accounts
    Tracked <- MC_Tracked
    AcctLens <- MC_AcctLens
    MarketShapes <- MC_MarketShapes
    VaultShapes <- MC_VaultShapes
    MintShapes <- MC_MintShapes
    Txs <- MC_Txs
SPECIFICATION MC_Spec
INVARIANT TypeOK ValidTradesDerive ProgressLifecycle
          DecodeNeverPanics DecodedFieldsAtLayout SnapshotDecodedAtLayout
          TradeExtractedIffComplete
          IxNameMatchesInstruction SolAmountIsTradeLamports
