------------------------------- MODULE Ticks --------------------------------
(***************************************************************************)
(* A zone of World beside the modules that use the same names: its players *)
(* are Walkers here, its queued moves `requests`, and the numbers the      *)
(* players have used `asked`.                                              *)
(***************************************************************************)
CONSTANTS
    Walkers, Npcs, Bounds, NavMesh, Links, Tables, Routes, NoRoute, CellSize, MaxStep,
    CollisionRadius, HeightTolerance, Targets, SpawnPoints, Floor, SeqCap, QueueCap

VARIABLES
    entities, positions, cells, npc_routes, entity_types, requests, teleports, batch,
    phase, start, steps, placed, asked, owed, answered

W == INSTANCE World WITH Players <- Walkers, moves <- requests, sent <- asked

ASSUME WorldIsDeclared == W!WorldAssumption

\* Moving brings nobody within the collision radius of another (Zone::tick).
KeepsApart == W!KeepsApart

\* What has walked stands on the level's floor (validate_movement).
WalkersOnFloor == W!WalkersOnFloor

\* Each request of a player still there is answered once, in order (Zone::tick).
Answered == W!Answered

\* The comment on MovementRejection::TooFast: no tick moves anything further
\* than max speed allows in dt.
WithinReach == W!WithinReach

=============================================================================
