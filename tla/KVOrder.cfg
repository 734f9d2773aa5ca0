SPECIFICATION Spec
CONSTANTS
    N = 2
    Clerk = {c1}
    None = None
    OpType = {"Append", "Get"}
    MaxRequests = 2
    MaxCalls = 2
    MaxTerm = 2
    MaxKills = 0
    MaxSnapshot = 1
    Ordered = FALSE
VIEW View
CHECK_DEADLOCK FALSE
INVARIANT AppliesTheLog
