SPECIFICATION Spec
CONSTANTS
    N = 2
    Clerk = {c1}
    None = None
    OpType = {"Put", "Append", "Get"}
    MaxRequests = 2
    MaxCalls = 2
    MaxTerm = 2
    MaxKills = 1
    MaxSnapshot = 1
    Ordered = TRUE
VIEW View
CHECK_DEADLOCK FALSE
INVARIANTS
    TypeOK AppliesTheLog
PROPERTIES
    Linearizable
