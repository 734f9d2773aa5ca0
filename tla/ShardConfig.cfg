SPECIFICATION Spec
CONSTANTS
    NShards = 5
    Gid = {1, 2, 3}
    Clerk = {c1, c2}
    Request <- Requests
    MaxRequests = 3
CHECK_DEADLOCK FALSE
INVARIANTS
    TypeOK  Balanced ReplicasAgree MovesFewest
PROPERTIES
     RequestsReturn
