CONSTANTS
    z1 = z1
    z2 = z2
    p1 = p1
    p2 = p2
    Nowhere = Nowhere
    Zones = {z1, z2}
    Players = {p1, p2}
    Home <- MCHome
    LoadOrder <- MCLoadOrder
    Type = 1000
    HOST_API_VERSION = 16
    PLUGIN_MESSAGE_TYPE_FLOOR = 1000
    EmptyCommand = ""
    Slashed = {"/wave"}
    Calls = {"grant-item", "plugin-state-set", "spawn-npc", "report-death"}
    Acts = {"on-message"}
    Coming = {{p1}, {p1, p2}}
    MaxRequests <- MCAlone
    MaxSent = 1
    Default = Default
    Other = Other
    Malformed = Malformed
    SlashCommand = SlashCommand
    None = None
    Walkers = {"p1", "p2"}
    Npcs = {"n1"}
    Bounds <- MCBounds
    NavMesh <- MCNavMesh
    Links <- MCDoors
    Tables <- MCTables
    Routes <- MCRoutes
    NoRoute = "none"
    CellSize = 3
    MaxStep = 4
    CollisionRadius = 1
    HeightTolerance = 1
    Targets <- MCTargets
    SpawnPoints <- MCSpawnPoints
    Floor <- MCFloor
    SeqCap <- MCSeqCap
    QueueCap = 2
SPECIFICATION MCSpec
INVARIANTS
    WithinReach
CHECK_DEADLOCK FALSE
