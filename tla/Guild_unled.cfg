SPECIFICATION Spec
CONSTANTS
    a1 = a1  a2 = a2  a3 = a3  g1 = g1  g2 = g2
    leader = leader  fellow = fellow
    Account <- MCAccount
    Guild <- MCGuildIds
    Rank <- MCRank
    Founder = leader
    Lowest = fellow
    May <- MCMay
    MoveFounders = TRUE
    MaxCalls = 2
    None = None
SYMMETRY MCSymmetry
CHECK_DEADLOCK FALSE
INVARIANTS Led
