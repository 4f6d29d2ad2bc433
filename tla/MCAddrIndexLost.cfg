CONSTANTS
    t1 = t1
    t2 = t2
    s1 = s1
    s2 = s2
    Txids = {t1, t2}
    ScriptHashes = {s1, s2}
    Confirmations <- MCConfirmations
    HeightMod = 3
    MaxTip = 1
SPECIFICATION Spec
INVARIANT
    HistoryComplete
