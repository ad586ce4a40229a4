SPECIFICATION MCSpec
CONSTANTS
    c1 = c1
    c2 = c2
    a1 = a1
    a2 = a2
    r1 = r1
    r2 = r2
    i1 = i1
    i2 = i2
    Conn <- MCConn
    Account <- MCAccount
    Remote <- MCRemote
    Instance <- MCInstance
    MaxCharacters = 1
    MaxTokens = 2
    MaxRows = 3
    MaxFaults = 1
    MaxEvents = 3
    Item <- MCItem
    ConfigDir <- MCConfigDir
    OnLoad <- MCOnLoad
    HookEntry <- MCHookEntry
    CliEntry <- MCCliEntry
    DropSource <- MCDropSource
    AssetRef <- MCAssetRef
    Roll <- MCRoll
    HeightTolerance = 0
    None = None
    Blank = Blank
    MaxQueue = 2
    MaxHooks = 2
    MaxCli = 1
    MaxStarts = 2
    MaxFails = 1
    MaxDrops = 1
INVARIANTS MapsHoldWhoPlays HeardUnlessShared CapUnlessRacing
           WatcherMissesNobody CatalogHolds
PROPERTIES WhatLoadsWorks
CHECK_DEADLOCK FALSE
SYMMETRY Sym
