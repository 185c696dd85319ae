------------------------- MODULE CatalogProperties -------------------------
(***************************************************************************)
(* What a start makes of the user's configuration and of the plugins.      *)
(***************************************************************************)
EXTENDS Catalog

(* PLUGIN_AUTHORS.md: "if project and global plugins export the same tool  *)
(* name, the project plugin wins".  Whatever was accepted before or after  *)
(* it, an enabled tool of an accepted plugin is served by that plugin, or  *)
(* by a plugin of the project when its own is a global one.                *)
ProjectWins ==
    \A plugin \in ToSet(accepted) : \A name \in EnabledNames(plugin) :
        LET tool == registry.tools[name]
        IN  \/ tool = Registration(plugin, name)
            \/ plugin.scope = "global" /\ tool.source = "project"

(* The model is told of each tool once, and what it is told of is what     *)
(* runs and what the gate judges: one list comes from the other map.  A    *)
(* tool runs unasked only if a plugin that is served says so, a tool that  *)
(* was served answers while no component changes, the agent explore is     *)
(* offered the three reading tools whatever plugins there are, and a       *)
(* project's plugin wins over a global one.                                *)
AdvertisedIsServed ==
    phase = "ready" =>
        /\ ProjectWins
        /\ \A entry \in registry.advertised : registry.tools[entry.name] = entry.from
        /\ Cardinality(registry.advertised) = Cardinality(DOMAIN registry.tools)
        /\ \A name \in DOMAIN registry.tools :
            /\ \E entry \in registry.advertised : entry.name = name
            /\ edits = 0 => Answers(name)
            /\ PolicyOf(name).default = "allow" =>
                  \E plugin \in ToSet(accepted) : \E tool \in Enabled(plugin) :
                      tool.name = name /\ ~tool.asks
        /\ {entry.name : entry \in OfferedTo(ExploreRules)} = {<<"read">>, <<"glob">>, <<"grep">>}

(* A plugin fails alone, as long as no component changes meanwhile.  It is *)
(* disabled for a reason of its own, or for a plugin of its scope that is  *)
(* served: never because of one that was disabled, and never for one of    *)
(* the other scope.  And no plugin keeps the program from starting: a      *)
(* start fails only for the user's own configuration.                      *)
PluginsFailAlone ==
    ~changed =>
        /\ \A plugin \in refused :
            \/ ~Executable(plugin)
            \/ ReservesBuiltIn(plugin)
            \/ \E other \in ToSet(accepted) :
                   /\ other.scope = plugin.scope
                   /\ \/ other.manifest.id = plugin.manifest.id
                      \/ EnabledNames(other) \cap EnabledNames(plugin) # {}
        /\ phase = "failed" => config = Nothing

(* What the user wrote is what the program goes by.  The task tool offers  *)
(* the model exactly the agents a call of it may name, however their names *)
(* were written, each of them once.  What a configuration leaves open      *)
(* follows what it says: a log, the global plugins and the sessions'       *)
(* defaults come from the data directory and the model it sets, not from   *)
(* the built-in ones.                                                      *)
ConfigurationIsFollowed ==
    phase # "off" /\ config # Nothing =>
        /\ \A agent \in TaskOffers : TaskAccepts(agent, Written("look"))
        /\ Cardinality({agent.text : agent \in TaskOffers}) = Len(agents)
        /\ LET raw == IF files.root # Nothing THEN files.root ELSE files.inDataDir
           IN  raw # Nothing =>
                /\ raw.plugins = Nothing => IsPrefix(config.dataDir, config.plugins.globalDir)
                /\ raw.log = Nothing => IsPrefix(config.dataDir, config.log)
                /\ raw.acp = Nothing => /\ config.acp.prompt = config.model.prompt
                                        /\ config.acp.effort = config.model.effort
=============================================================================
