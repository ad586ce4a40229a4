SPECIFICATION MCSpec
CONSTANTS
    c1 = c1  c2 = c2  z1 = z1  z2 = z2  pub = pub
    nothing = nothing  gem = gem  t1 = t1  t2 = t2
    Entity <- MCEntity
    Offer <- MCOffer
    Nothing = nothing
    Session <- MCSession
    Client <- MCEntity
    AccountOf <- MCAccountOf
    Zone <- MCZone
    Name <- MCName
    AutoKey = auto
    MaxAlike = 2
    MaxMessages = 1
    None = None
    Gone = Gone
SYMMETRY Names
CHECK_DEADLOCK FALSE
INVARIANT ExecutesOnlyConfirmed
