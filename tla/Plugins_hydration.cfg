CONSTANTS
    z1 = z1
    z2 = z2
    p1 = p1
    p2 = p2
    Nowhere = Nowhere
    Zones = {z1, z2}
    Players = {p1, p2}
    Home <- MCHome
    LoadOrder <- MCLoadOrder
    Type = 1000
    HOST_API_VERSION = 16
    PLUGIN_MESSAGE_TYPE_FLOOR = 1000
    EmptyCommand = ""
    Slashed = {"/wave"}
    Calls = {"grant-item", "plugin-state-set", "spawn-npc", "report-death"}
    Acts = {"on-message"}
    Coming = {{p1, p2}}
    MaxRequests <- MCTwo
    MaxSent = 1
SPECIFICATION Spec
INVARIANTS
    HydratedFirst
CHECK_DEADLOCK FALSE
