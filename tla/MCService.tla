------------------------------ MODULE MCService ------------------------------
(* Three parts, each on its own: two connections of two accounts and two UDP *)
(* addresses; two service instances with a watcher; and a server process     *)
(* started twice on the games of MCGames, with two plugins.                  *)
EXTENDS Service, TLC
CONSTANTS c1, c2, a1, a2, r1, r2, i1, i2

VARIABLE part       \* "connections", "registry" or "catalog"

registry == <<instance, keys, lapsed, watcher, scanned, view, events>>
catalog == <<files, table, drops, stage, loaded, cache, queue, draining, meddled, strayed, count>>

G == INSTANCE MCGames
MCItem == G!MCItem
MCConfigDir == G!MCConfigDir
MCOnLoad == G!MCOnLoad
MCHookEntry == G!MCHookEntry
MCCliEntry == G!MCCliEntry
MCDropSource == {"wolves"}
MCAssetRef == {"mesh", "lost"}
MCRoll == 0..100

MCConn    == {c1, c2}
MCAccount == {a1, a2}
MCRemote  == {r1, r2}
MCInstance == {i1, i2}
Sym == Permutations(MCConn) \cup Permutations(MCAccount) \cup Permutations(MCRemote)

\* Only the part that runs needs its initial states; no game is loaded for the
\* others.
MCInit ==
    /\ Init /\ R!Init
    /\ \/ part = "connections" /\ K!InitWith({None})
       \/ part = "registry" /\ open /\ K!InitWith({None})
       \/ part = "catalog" /\ open /\ K!Init
MCNext ==
    \/ part = "connections" /\ Next /\ UNCHANGED <<part, registry, catalog>>
    \/ part = "registry" /\ R!Next /\ UNCHANGED <<open, part, vars, catalog>>
    \/ part = "catalog" /\ K!Next /\ UNCHANGED <<open, part, vars, registry>>
MCSpec == MCInit /\ [][MCNext]_<<open, part, vars, registry, catalog>>
==============================================================================
