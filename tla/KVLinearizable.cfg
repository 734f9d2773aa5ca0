SPECIFICATION Spec
CONSTANTS
    N = 2
    Clerk = {c1, c2}
    None = None
    OpType = {"Append", "Get"}
    MaxRequests = 1
    MaxCalls = 2
    MaxTerm = 2
    MaxKills = 0
    MaxSnapshot = 0
    Ordered = TRUE
SYMMETRY Symmetry
VIEW View
CHECK_DEADLOCK FALSE
INVARIANTS
    NotifyNeverBlocks
PROPERTIES
    Linearizable
