CONSTANTS
    t1 = t1
    t2 = t2
    t3 = t3
    s1 = s1
    s2 = s2
    Txids = {t1, t2, t3}
    ScriptHashes = {s1, s2}
    Vouts = {0, 1}
    Vins = {0, 1}
    HeightMod = 2
    FundedScript <- MCFundedScript
    Prevout <- MCPrevoutDoubleSpend
    TrackSpends = TRUE
    FullerViewOnly = TRUE
SPECIFICATION Spec
INVARIANT
    PurgeSpendAssertHolds
