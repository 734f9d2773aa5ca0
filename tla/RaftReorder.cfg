SPECIFICATION LaterSpec
CONSTANTS
    s1 = s1
    s2 = s2
    s3 = s3
    Server = {s1, s2, s3}
    c1 = c1
    Command = {c1}
    None = None
    MaxElections = 2
    MaxIndex = 1
    MaxSnapshot = 0
    MaxKills = 1
    MaxFlight = 2
    Copies = FALSE
SYMMETRY Symmetry
VIEW View
CHECK_DEADLOCK FALSE
INVARIANTS
    StateMachineSafety LeaderCompleteness
PROPERTIES
    CommittedIsStable
