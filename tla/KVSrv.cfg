SPECIFICATION TestSpec
CONSTANTS
    Clerk = {c1, c2}
    MaxCalls = 3
    WordSize = 2
CHECK_DEADLOCK FALSE
INVARIANTS
    TypeOK RequestsAreForgotten AppendAnswersOldValue VerdictIsRight
PROPERTIES
    Linearizable OperationsReturn
