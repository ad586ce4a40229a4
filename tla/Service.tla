------------------------------- MODULE Service -------------------------------
(***************************************************************************)
(* What stands between players and the world: the connections of one       *)
(* server process, the registry in which server instances find one         *)
(* another, and the start of a process over the files of its game and the  *)
(* item catalog.  The three share no state.                                *)
(***************************************************************************)
EXTENDS Connection

CONSTANTS Instance,
          MaxEvents     \* bound: events the watcher has not read yet

\* Of the start of a process: see Catalog and Declarations.
CONSTANTS Item, ConfigDir, OnLoad, HookEntry, CliEntry, DropSource,
          AssetRef, Roll, Blank, HeightTolerance,
          MaxQueue, MaxHooks, MaxCli, MaxStarts, MaxFails, MaxDrops

VARIABLES instance, keys, lapsed, watcher, scanned, view, events
VARIABLES files, table, drops, stage, loaded, cache, queue, draining, meddled, strayed, count

R == INSTANCE Registry
K == INSTANCE Catalog WITH phase <- stage

ASSUME CatalogIsDeclared == K!CatalogAssumption

\* The registry's property: see Registry.
WatcherMissesNobody == R!WatcherMissesNobody

\* The catalog's: see Catalog.
CatalogHolds == K!CatalogHolds
WhatLoadsWorks == K!WhatLoadsWorks
RegistrationsReachTheTable == K!RegistrationsReachTheTable
==============================================================================
