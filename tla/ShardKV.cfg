SPECIFICATION Spec
CONSTANTS
    Gid = {1, 2}
    Shard = {0, 1}
    Clerk = {c1}
    Used = {0}
    OpType = {"Append", "Get"}
    Lagging = {1}
    Plans <- ThereAndBack
    MaxRequests = 2
    MaxEvents = 4
CHECK_DEADLOCK FALSE
INVARIANTS
    TypeOK OneOwner ServesTheValue OldOwnerKeeps
PROPERTIES
    Linearizable  
