SPECIFICATION FairSpec
CONSTANTS
    e1 = e1  e2 = e2  z1 = z1  z2 = z2
    Entity <- MCEntity
    Zone <- MCZone
    HomeZone <- MCHome
    Links <- MCLinks
    Fellows <- MCFellows
    Threshold = 1
    MaxLayers = 4
    MaxUnread = 2
    Walkers = {e1}
    Hoppers = {e2}
    None = None
CHECK_DEADLOCK FALSE
INVARIANTS OneLayerAtATime SettledInPlace
PROPERTIES ImplementsPlacement CrossingsComplete
