CONSTANTS
    q1 = q1
    q2 = q2
    NoThread = NoThread
    Queriers = {q1}
    ReadPolicy = "writer"
    MaxRounds = 2
    MaxCalls = 1
    MaxBlocks = 1
SPECIFICATION Spec
INVARIANT
    DeadlockFree
