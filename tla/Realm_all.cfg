SPECIFICATION MCSpec
CONSTANTS
    a1 = a1  a2 = a2  a3 = a3  g1 = g1  g2 = g2
    leader = leader  fellow = fellow  pair = pair  trio = trio
    Account <- MCAccount
    Guild <- MCGuildIds
    Rank <- MCRank
    Founder = leader
    Lowest = fellow
    May <- MCMay
    MoveFounders = FALSE
    MaxCalls = 2
    Character <- MCAccount
    Party <- MCGuildIds
    Type <- MCType
    Cap <- MCCap
    MaxWaiting = 2
    None = None
SYMMETRY MCSymmetry
CHECK_DEADLOCK FALSE
INVARIANTS
    Led
    ChatFollowsRoster
    PartiesHaveTwo
PROPERTIES
    DissolvesAlone
