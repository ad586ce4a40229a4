SPECIFICATION MCSpec
CONSTANTS
    blade = blade  axe = axe  helm = helm  ore = ore
    hand = hand  head = head  attack = attack  speed = speed
    ann = ann  ben = ben  gem = gem  hide = hide  gold = gold
    p1 = p1  p2 = p2  p3 = p3
    ItemType <- MCItemType
    Stat <- MCStat
    EquipSlot <- MCEquipSlot
    Position <- MCPosition
    Declared <- Equippable
    MinValue <- MCMinValue
    MaxValue <- MCMaxValue
    MaxItemTypes = 3
    Carried <- MCCarried
    Worn <- MCWorn
    Initial <- MCInitial
    PlayerCall <- Requests
    Effect <- Effects
    MaxQuantity = 1
    MaxFaults = 1
    Player = Player  Plugin = Plugin
    None = None
    Character <- MCCharacter
    Ware <- MCWare
    Currency <- MCCurrency
    MaxWares = 1
    Operation <- CapCalls
    Process = {p1, p2}
    Endowment <- CapStart
CHECK_DEADLOCK FALSE
PROPERTIES TradesRespectCap
