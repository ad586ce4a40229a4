SPECIFICATION MCSpec
CONSTANTS
    alice = alice  bob = bob
    openRealm = openRealm  boundA = boundA  boundB = boundB
    s1 = s1  s2 = s2  s3 = s3  s4 = s4
    c1 = c1  c2 = c2  c3 = c3  c4 = c4  c5 = c5
    None = None
    Character = {alice, bob}
    Realm = {openRealm, boundA, boundB}
    OpenRealm = {openRealm}
    Server = {s1, s2, s3, s4}
    RealmOf <- MCRealmOf
    FirstHome <- MCHome
    Connection = {c1, c2, c3, c4, c5}
    ServerOf <- MCServerOf
    Ttl = 2
    Punctual = TRUE
    Traveller = {alice}
    Place = {boundA, boundB}
    Attempt = {c1, c2}
    Home <- MCOrigin
    Mode <- MCMode
    Gated <- MCGated
    Verdict = {TRUE, FALSE}
    Declared <- Hp
    Default = 0
    Stored <- MCStored
    Value = {1}
    PoolSize = 2
    MaxTickets = 1
    MaxMeddling = 1
INVARIANTS
    OneSession
    LeaseCoversSession
    LookupFindsSession
    TransferIsolated
    TransfersAreWhole
PROPERTIES
    ImplementsExclusiveLogin
    NothingBarsForEver
