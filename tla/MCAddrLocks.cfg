CONSTANTS
    q1 = q1
    q2 = q2
    NoThread = NoThread
    Queriers = {q1, q2}
    ReadPolicy = "reader"
    MaxRounds = 2
    MaxCalls = 2
    MaxBlocks = 2
SPECIFICATION Spec
INVARIANTS
    UnspentFromListTip
PROPERTIES
    AllCallsReturn
