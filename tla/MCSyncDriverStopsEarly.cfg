CONSTANTS
    t1 = t1
    t2 = t2
    t3 = t3
    s1 = s1
    s2 = s2
    None = None
    Txids = {t1, t2, t3}
    ScriptHashes = {s1, s2}
    TxAddr <- MCTxAddr
    TxHasFee <- MCTxHasFee
    InitPerPage = 2
    StartHeight = 0
    RpcIntMax = 4
    MaxBlocks = 2
    HeightMod = 4
    NodeFaults = TRUE
SPECIFICATION Spec
INVARIANT
    SyncComplete
