SPECIFICATION LaterSpec
CONSTANTS
    s1 = s1
    s2 = s2
    s3 = s3
    Server = {s1, s2, s3}
    c1 = c1
    Command = {c1}
    None = None
    MaxElections = 2
    MaxIndex = 2
    MaxSnapshot = 1
    MaxKills = 0
    MaxFlight = 1
    Copies = TRUE
SYMMETRY Symmetry
VIEW View
CHECK_DEADLOCK FALSE
INVARIANTS
    SnapshotsAgree IndexesInRange MatchIndexIsTrue 
