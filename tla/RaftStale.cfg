SPECIFICATION StaleSpec
CONSTANTS
    s1 = s1
    s2 = s2
    s3 = s3
    s4 = s4
    s5 = s5
    x = x
    y = y
    Server = {s1, s2, s3, s4, s5}
    Command = {x, y}
    None = None
    MaxElections = 3
    MaxIndex = 1
    MaxSnapshot = 0
    MaxKills = 0
    MaxFlight = 3
    Copies = FALSE
CHECK_DEADLOCK FALSE
INVARIANT StateMachineSafety
