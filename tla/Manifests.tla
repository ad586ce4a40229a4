----------------------------- MODULE Manifests -----------------------------
(***************************************************************************)
(* What a plugin declares of itself (plugin-host/src/manifest.rs), the     *)
(* checks the server makes before it loads any plugin, and the capability  *)
(* each host function asks for (plugin-host/src/runtime.rs).               *)
(*                                                                         *)
(* A manifest is a record of the parsed plugin.toml: [host_api_version,    *)
(* capabilities, message_types, chat_commands, hooks], the last four       *)
(* sequences.  A check returns the name of the first rule it finds broken. *)
(***************************************************************************)
EXTENDS Naturals, SequencesExt

CONSTANTS HOST_API_VERSION,           \* the version this build implements
          PLUGIN_MESSAGE_TYPE_FLOOR,  \* message types below it are the core's
          EmptyCommand,               \* the empty command name
          Slashed                     \* command names with a leading '/'

KNOWN_CAPABILITIES ==
    {"spawning", "movement", "combat", "economy", "messaging", "admin"}

KNOWN_HOOKS ==
    {"on-load", "on-unload", "on-zone-loaded", "on-character-create",
     "on-entity-spawn", "on-player-join-zone", "on-player-leave-zone",
     "on-interact", "on-message", "on-damage-calc", "on-death", "on-respawn",
     "on-tick", "on-npc-tick", "on-npc-interact", "on-chat-command",
     "on-item-acquire", "on-item-use", "on-craft-complete", "on-item-drop"}

-----------------------------------------------------------------------------
(***************************************************************************)
(* One plugin.  Each list is read in order and the first offending entry   *)
(* decides: an entry is either wrong by itself or a repeat of an earlier   *)
(* one.                                                                    *)
(***************************************************************************)
Wrong(list, Bad(_), bad, repeated) ==
    LET offends(i) == Bad(list[i]) \/ \E j \in 1..(i - 1) : list[j] = list[i]
        i == SelectInSeq([k \in DOMAIN list |-> offends(k)], LAMBDA b : b)
    IN  IF i = 0 THEN "ok" ELSE IF Bad(list[i]) THEN bad ELSE repeated

CheckMessageTypes(m) ==
    Wrong(m.message_types, LAMBDA t : t < PLUGIN_MESSAGE_TYPE_FLOOR,
          "reserved message type", "repeated message type")

CheckChatCommands(m) ==
    Wrong(m.chat_commands, LAMBDA c : c = EmptyCommand \/ c \in Slashed,
          "malformed command", "repeated command")

CheckCapabilities(m) ==
    Wrong(m.capabilities, LAMBDA c : c \notin KNOWN_CAPABILITIES,
          "unknown capability", "repeated capability")

CheckHooks(m) ==
    Wrong(m.hooks, LAMBDA h : h \notin KNOWN_HOOKS,
          "unknown hook", "repeated hook")

CheckCompatible(m) ==
    LET verdicts == <<IF m.host_api_version # HOST_API_VERSION
                        THEN "other host api" ELSE "ok",
                      CheckMessageTypes(m), CheckChatCommands(m),
                      CheckCapabilities(m), CheckHooks(m)>>
        i == SelectInSeq(verdicts, LAMBDA v : v # "ok")
    IN  IF i = 0 THEN "ok" ELSE verdicts[i]

-----------------------------------------------------------------------------
(***************************************************************************)
(* All plugins together: every declared type and command goes into a map   *)
(* from it to its owner, and the first that is there already is refused.   *)
(***************************************************************************)
All(list, Declared(_)) == FlattenSeq([i \in DOMAIN list |-> Declared(list[i])])

\* The mutant that looks at message types only.
CommandsUnchecked(list) == ~IsInjective(All(list, LAMBDA m : m.message_types))

Collides(list) ==
    \/ ~IsInjective(All(list, LAMBDA m : m.message_types))
    \/ ~IsInjective(All(list, LAMBDA m : m.chat_commands))

\* The server starts with a set of plugins only if every one of them passes.
discover_plugins(list) ==
    /\ \A i \in DOMAIN list : CheckCompatible(list[i]) = "ok"
    /\ ~Collides(list)

\* The index of the first plugin that declared the message type, 0 for none:
\* the one whose on-message is called.
OwnerOf(list, type) ==
    SelectInSeq(list, LAMBDA m : type \in Range(m.message_types))

-----------------------------------------------------------------------------
(***************************************************************************)
(* The capability a host function is gated by; a plugin that lacks it gets *)
(* an error and nothing is recorded.                                       *)
(***************************************************************************)
required_capability ==
    [f \in {"spawn-npc"} |-> "spawning"]
    @@ [f \in {"send-message", "block-zone-channel"} |-> "messaging"]
    @@ [f \in {"move-entity"} |-> "movement"]
    @@ [f \in {"teleport-entity"} |-> "admin"]
    @@ [f \in {"apply-stat-delta", "apply-stat-delta-for-character",
               "report-death", "report-respawn"} |-> "combat"]
    @@ [f \in {"grant-item", "remove-item", "modify-currency",
               "register-item-type"} |-> "economy"]

\* The mutant that gates nothing.
Ungated(m, function) == TRUE

MayCall(m, function) ==
    function \in DOMAIN required_capability
        => required_capability[function] \in Range(m.capabilities)
=============================================================================
