------------------------------ MODULE Catalog ------------------------------
(***************************************************************************)
(* One start of the program up to the tools it serves: the configuration   *)
(* is read, plugins are looked for in two directories, accepted one by     *)
(* one, and the registry of tools is built.  The files may change at any   *)
(* moment, also while the plugins are being accepted: every candidate      *)
(* reads the components of all accepted plugins again, the registry once   *)
(* more, and every call of a tool once more.                               *)
(*                                                                         *)
(* A path is a sequence of names, absolute when it starts with "/".  A     *)
(* tool name is the sequence of its parts between underscores.  A string   *)
(* a user wrote is [text, padded]: trimming it drops the padding.          *)
(***************************************************************************)
EXTENDS Integers, Sequences, FiniteSets, SequencesExt, FiniteSetsExt

CONSTANTS
    ConfigFiles,   \* what the two configuration files may say: [root, inDataDir]
    Nothing,       \* a field that is not given, a file that is not there
    Manifests,     \* what a plugin.toml may say
    Slots,         \* the names of plugin directories, numbers in their order
    WellFormed,    \* the ids, names and checksums the manifest's regexes accept
    AppVersion,    \* CARGO_PKG_VERSION
    MaxEdits       \* bound: changes of a component file while the program runs

\* The sections and keys the two kinds of file have.
ConfigFields == {"dataDir", "log", "agents", "plugins", "provider", "effort", "prompt", "acp"}
ToolFields == {"name", "schema", "enabled", "asks", "timeout", "maxOutput", "capabilities"}
ManifestFields == {"version", "api", "id", "name", "sha256", "runtime", "capabilities", "host", "tools"}

\* A list of the file: its elements in their order.
IsList(list) == list \in Seq(ToSet(list))

ASSUME CatalogAssumption ==
    /\ Slots \subseteq Nat /\ IsFiniteSet(Slots) /\ MaxEdits \in Nat
    /\ \A found \in ConfigFiles :
           \A raw \in {found.root, found.inDataDir} \ {Nothing} :
               /\ DOMAIN raw = ConfigFields
               /\ raw.dataDir # Nothing => IsList(raw.dataDir)
               /\ raw.agents # Nothing => IsList(raw.agents)
    /\ \A manifest \in Manifests :
           /\ DOMAIN manifest = ManifestFields
           /\ IsList(manifest.tools)
           /\ \A tool \in ToSet(manifest.tools) : DOMAIN tool = ToolFields

VARIABLES
    disk,       \* plugin root -> slot -> [manifest, component] or Nothing
    files,      \* the two configuration files, Nothing where there is none
    phase,      \* "off", "configured", "discovered", "ready" or "failed"
    config,     \* the Config
    agents,     \* the names in the AgentRegistry
    queue,      \* discovered plugins not yet considered
    accepted,   \* discovered plugins accepted, in order
    refused,    \* discovered plugins that were disabled with a warning
    registry,   \* the ToolRegistry: [tools, advertised]
    changed,    \* has a component changed since the plugins were discovered?
    edits

vars == <<disk, files, phase, config, agents, queue, accepted, refused,
          registry, changed, edits>>

OrElse(value, default) == IF value = Nothing THEN default ELSE value

-----------------------------------------------------------------------------
(* Configuration.                                                          *)

CurrentDir == <<"/", "work">>
Resolve(base, path) == IF path[1] = "/" THEN path ELSE base \o path

DefaultDataDir == CurrentDir \o <<".fluent-code">>
DefaultModel == [provider |-> "mock", effort |-> Nothing, prompt |-> "default"]
Efforts == {"none", "minimal", "low", "medium", "high", "xhigh"}

PluginDefaults(dataDir) ==
    [project |-> TRUE, global |-> TRUE,
     projectDir |-> CurrentDir \o <<".fluent-code", "plugins">>,
     globalDir |-> dataDir \o <<"plugins">>]

\* mutant: The defaults of the plugins are those of the default data directory.
PluginsFromDefaults(raw, dataDir) ==
    LET default == PluginDefaults(DefaultDataDir)
    IN  IF raw = Nothing THEN default ELSE [default EXCEPT !.project = OrElse(raw.project, TRUE)]

PluginsFrom(raw, dataDir) ==
    LET default == PluginDefaults(dataDir)
    IN  IF raw = Nothing THEN default
        ELSE [project |-> OrElse(raw.project, default.project),
              global |-> OrElse(raw.global, default.global),
              projectDir |-> IF raw.projectDir = Nothing THEN default.projectDir
                             ELSE Resolve(CurrentDir, raw.projectDir),
              globalDir |-> IF raw.globalDir = Nothing THEN default.globalDir
                            ELSE Resolve(dataDir, raw.globalDir)]

LogPath(raw, dataDir) ==
    IF raw = Nothing THEN dataDir \o <<"fluent-code.log">> ELSE Resolve(dataDir, raw)

\* Efforts are trimmed and lowered before they are compared: raw ones stand for that.
AcpFrom(raw, model) ==
    IF raw = Nothing THEN [prompt |-> model.prompt, effort |-> model.effort]
    ELSE [prompt |-> OrElse(raw.prompt, model.prompt),
          effort |-> OrElse(raw.effort, model.effort)]

\* A configuration the program refuses to start with.
Refuses(raw) ==
    \/ raw.effort # Nothing /\ raw.effort \notin Efforts
    \/ /\ raw.acp # Nothing
       /\ \/ raw.acp.version \notin {Nothing, 1}
          \/ raw.acp.effort # Nothing /\ raw.acp.effort \notin Efforts
          \/ \E method \in raw.acp.methods : method.id = "" \/ method.name = ""

FromToml(raw) ==
    LET dataDir == IF raw.dataDir = Nothing THEN DefaultDataDir
                   ELSE Resolve(CurrentDir, raw.dataDir)
        model == [provider |-> OrElse(raw.provider, DefaultModel.provider),
                  effort |-> raw.effort,
                  prompt |-> OrElse(raw.prompt, DefaultModel.prompt)]
    IN  [dataDir |-> dataDir,
         log |-> LogPath(raw.log, dataDir),
         agents |-> raw.agents,
         plugins |-> PluginsFrom(raw.plugins, dataDir),
         model |-> model,
         acp |-> AcpFrom(raw.acp, model)]

DefaultConfig ==
    [dataDir |-> DefaultDataDir, log |-> LogPath(Nothing, DefaultDataDir),
     agents |-> Nothing, plugins |-> PluginDefaults(DefaultDataDir),
     model |-> DefaultModel, acp |-> AcpFrom(Nothing, DefaultModel)]

-----------------------------------------------------------------------------
(* Agents: those configured, or the two built in.                          *)

Written(text) == [text |-> text, padded |-> FALSE]
Trim(string) == Written(string.text)
BuiltInAgents == <<Written("explore"), Written("librarian")>>

NamesOf(rawAgents) ==
    IF rawAgents = Nothing THEN BuiltInAgents
    ELSE [i \in DOMAIN rawAgents |-> Trim(rawAgents[i].name)]

AgentsRefused(rawAgents) ==
    /\ rawAgents # Nothing
    /\ \/ \E i \in DOMAIN rawAgents :
              "" \in {rawAgents[i].name.text, rawAgents[i].description.text, rawAgents[i].prompt.text}
       \/ ~IsInjective(NamesOf(rawAgents))

\* The task tool names the agents; a call of it is accepted when it asks for one.
TaskOffers == ToSet(agents)
TaskAccepts(agent, prompt) == /\ "" \notin {agent.text, prompt.text}
                              /\ Trim(agent) \in ToSet(agents)

\* A pattern is [kind, name]: everything, a name and what starts with it, a name.
Matches(pattern, tool) ==
    CASE pattern.kind = "all"   -> TRUE
      [] pattern.kind = "under" -> IsPrefix(pattern.name, tool)
      [] pattern.kind = "exact" -> tool = pattern.name

ExploreRules == [allowed |-> {[kind |-> "exact", name |-> <<tool>>] : tool \in {"read", "glob", "grep"}},
                 denied |-> {[kind |-> "exact", name |-> <<"task">>]}]

Permitted(rules, tool) ==
    /\ ~\E pattern \in rules.denied : Matches(pattern, tool)
    /\ rules.allowed = {} \/ \E pattern \in rules.allowed : Matches(pattern, tool)

-----------------------------------------------------------------------------
(* Manifests.                                                              *)

\* compare_semverish: the three numbers, whatever follows them.
Older(left, right) ==
    \E i \in 1..3 : left.core[i] < right.core[i] /\ \A j \in 1..(i - 1) : left.core[j] = right.core[j]

HostServes(host) ==
    /\ host.min # Nothing => ~Older(AppVersion, host.min)
    /\ host.max # Nothing => ~Older(host.max, AppVersion)
    /\ host.platforms = {} \/ "macos-aarch64" \in host.platforms

NoCapabilities == [filesystem |-> "none", network |-> FALSE, process |-> FALSE, environment |-> {}]

\* A tool inherits what it does not state, and may not ask for more than its plugin.
ToolCapabilities(own, plugin) ==
    [filesystem |-> OrElse(own.filesystem, plugin.filesystem),
     network |-> OrElse(own.network, plugin.network),
     process |-> OrElse(own.process, plugin.process),
     environment |-> IF own.environment = {} THEN plugin.environment ELSE own.environment]

Within(caps, plugin) ==
    /\ caps.filesystem = "workspace_read" => plugin.filesystem = "workspace_read"
    /\ caps.network => plugin.network
    /\ caps.process => plugin.process
    /\ caps.environment \subseteq plugin.environment

\* What the regexes and the length checks of the manifest's own fields accept.
WellFormedTexts(manifest) ==
    /\ {manifest.id, manifest.name} \subseteq WellFormed
    /\ manifest.sha256 # Nothing => manifest.sha256 \in WellFormed
    /\ \A tool \in ToSet(manifest.tools) : ToSet(tool.name) \subseteq WellFormed

\* A schema that is not an object, or whose required fields are not distinct strings, is "other".
IsObjectSchema(tool) == tool.schema = "object"

SupportedRuntime == [abi |-> "wasm-component", world |-> "plugin", wasi |-> "p2"]

WithinLimits(tool) == tool.timeout \in 1..300000 /\ tool.maxOutput \in 256..1048576

\* PluginManifest::from_raw: a manifest that fails this is not a discovered plugin.
WellFormedManifest(manifest) ==
    /\ manifest.version = 1
    /\ manifest.api = "0.1.0"
    /\ WellFormedTexts(manifest)
    /\ manifest.runtime = SupportedRuntime
    /\ HostServes(manifest.host)
    /\ manifest.tools # <<>>
    /\ IsInjective([i \in DOMAIN manifest.tools |-> manifest.tools[i].name])
    /\ \A tool \in ToSet(manifest.tools) :
        /\ Within(ToolCapabilities(tool.capabilities, manifest.capabilities), manifest.capabilities)
        /\ IsObjectSchema(tool)
        /\ WithinLimits(tool)

-----------------------------------------------------------------------------
(* Discovery: the global directory, then the project's.                    *)

Below(slots, slot) == Cardinality({other \in slots : other < slot})
InOrder(slots) == [i \in 1..Cardinality(slots) |-> CHOOSE slot \in slots : Below(slots, slot) = i - 1]

FoundIn(root, scope) ==
    LET found == {slot \in Slots : /\ root \in DOMAIN disk
                                   /\ disk[root][slot] # Nothing
                                   /\ WellFormedManifest(disk[root][slot].manifest)}
        order == InOrder(found)
    IN  [i \in DOMAIN order |-> [scope |-> scope, root |-> root, slot |-> order[i],
                                 manifest |-> disk[root][order[i]].manifest]]

Discovered ==
    (IF config.plugins.global THEN FoundIn(config.plugins.globalDir, "global") ELSE <<>>)
    \o (IF config.plugins.project THEN FoundIn(config.plugins.projectDir, "project") ELSE <<>>)

-----------------------------------------------------------------------------
(* The registry built from a list of plugins.                              *)

BuiltIns == {<<"uppercase", "text">>, <<"read">>, <<"glob">>, <<"grep">>, <<"task">>}

Component(plugin) == disk[plugin.root][plugin.slot].component

\* The executor reads the component's file and compiles it.
Loads(plugin) == Component(plugin) \in {"shipped", "rebuilt"}

Executable(plugin) ==
    /\ plugin.manifest.capabilities = NoCapabilities
    /\ \A tool \in ToSet(plugin.manifest.tools) :
           ToolCapabilities(tool.capabilities, plugin.manifest.capabilities) = NoCapabilities
    /\ plugin.manifest.sha256 # Nothing => Component(plugin) = plugin.manifest.sha256
    /\ Loads(plugin)

Enabled(plugin) == {tool \in ToSet(plugin.manifest.tools) : tool.enabled}
EnabledNames(plugin) == {tool.name : tool \in Enabled(plugin)}
ReservesBuiltIn(plugin) == \E tool \in ToSet(plugin.manifest.tools) : tool.name \in BuiltIns

Collide(first, second) ==
    /\ first.scope = second.scope
    /\ \/ first.manifest.id = second.manifest.id
       \/ EnabledNames(first) \cap EnabledNames(second) # {}

\* from_discovered_with_executor succeeds.
Builds(plugins) ==
    /\ \A i \in DOMAIN plugins : Executable(plugins[i]) /\ ~ReservesBuiltIn(plugins[i])
    /\ \A i, j \in DOMAIN plugins : i < j => ~Collide(plugins[i], plugins[j])

\* mutant: Inserting a tool keeps the registration that is there.
FirstWith(plugins, name) ==
    plugins[Min({i \in DOMAIN plugins : name \in EnabledNames(plugins[i])})]

\* Each enabled tool is inserted over what has its name already.
LastWith(plugins, name) ==
    plugins[Max({i \in DOMAIN plugins : name \in EnabledNames(plugins[i])})]

Registration(plugin, name) ==
    [source |-> plugin.scope, id |-> plugin.manifest.id, root |-> plugin.root, slot |-> plugin.slot,
     asks |-> \E tool \in Enabled(plugin) : tool.name = name /\ tool.asks]

BuiltIn == [source |-> "built_in"]

ToolsOf(plugins) ==
    [name \in BuiltIns \union UNION {EnabledNames(plugins[i]) : i \in DOMAIN plugins} |->
        IF name \in BuiltIns THEN BuiltIn ELSE Registration(LastWith(plugins, name), name)]

\* provider_tools: each enabled tool is pushed after those of its name are removed.
Advertised(plugins) ==
    {[name |-> name, from |-> BuiltIn] : name \in BuiltIns}
    \union {[name |-> name, from |-> Registration(LastWith(plugins, name), name)] :
                name \in UNION {EnabledNames(plugins[i]) : i \in DOMAIN plugins}}

RegistryOf(plugins) == [tools |-> ToolsOf(plugins), advertised |-> Advertised(plugins)]
NoRegistry == [tools |-> <<>>, advertised |-> {}]

\* The tools a delegated run is offered, and what the gate is told of a tool.
OfferedTo(rules) == {tool \in registry.advertised : Permitted(rules, tool.name)}
PolicyOf(name) ==
    LET tool == registry.tools[name]
    IN  IF tool = BuiltIn THEN [default |-> "ask", rememberable |-> name # <<"task">>]
        ELSE [default |-> IF tool.asks THEN "ask" ELSE "allow", rememberable |-> TRUE]

-----------------------------------------------------------------------------
(* Actions.                                                                *)

Off == /\ phase' = "off" /\ config' = Nothing /\ agents' = <<>>
       /\ queue' = <<>> /\ accepted' = <<>> /\ refused' = {}
       /\ registry' = NoRegistry /\ changed' = FALSE

\* The agents of the configuration are registered before the plugins are looked for.
Configured(loaded) ==
    IF AgentsRefused(loaded.agents)
    THEN phase' = "failed" /\ UNCHANGED <<config, agents>>
    ELSE phase' = "configured" /\ config' = loaded /\ agents' = NamesOf(loaded.agents)

\* Config::load: the file beside the project, else the one in .fluent-code, else defaults.
Configure ==
    LET raw == IF files.root # Nothing THEN files.root ELSE files.inDataDir
    IN  /\ phase = "off"
        /\ IF raw = Nothing THEN Configured(DefaultConfig)
           ELSE IF Refuses(raw) THEN phase' = "failed" /\ UNCHANGED <<config, agents>>
           ELSE Configured(FromToml(raw))
        /\ UNCHANGED <<disk, files, queue, accepted, refused, registry, changed, edits>>

Discover ==
    /\ phase = "configured"
    /\ phase' = "discovered"
    /\ queue' = Discovered
    /\ UNCHANGED <<disk, files, config, agents, accepted, refused, registry, changed, edits>>

\* mutant: A candidate is validated alone, not with the accepted plugins.
ConsiderAlone ==
    /\ phase = "discovered"
    /\ queue # <<>>
    /\ IF Builds(<<Head(queue)>>)
       THEN accepted' = Append(accepted, Head(queue)) /\ UNCHANGED refused
       ELSE refused' = refused \union {Head(queue)} /\ UNCHANGED accepted
    /\ queue' = Tail(queue)
    /\ UNCHANGED <<disk, files, phase, config, agents, registry, changed, edits>>

\* A candidate is accepted when the registry of all accepted plugins and it can be built.
Consider ==
    /\ phase = "discovered"
    /\ queue # <<>>
    /\ LET candidates == Append(accepted, Head(queue))
       IN  IF Builds(candidates)
           THEN accepted' = candidates /\ UNCHANGED refused
           ELSE refused' = refused \union {Head(queue)} /\ UNCHANGED accepted
    /\ queue' = Tail(queue)
    /\ UNCHANGED <<disk, files, phase, config, agents, registry, changed, edits>>

\* The registry is built once more for good; an error here ends the start.
Build ==
    /\ phase = "discovered"
    /\ queue = <<>>
    /\ IF Builds(accepted)
       THEN phase' = "ready" /\ registry' = RegistryOf(accepted)
       ELSE phase' = "failed" /\ UNCHANGED registry
    /\ UNCHANGED <<disk, files, config, agents, queue, accepted, refused, changed, edits>>

Stop ==
    /\ phase \in {"ready", "failed"}
    /\ Off
    /\ UNCHANGED <<disk, files, edits>>

\* External: a component is rebuilt, damaged or put back.
Edit(root, slot) ==
    /\ edits < MaxEdits
    /\ disk[root][slot] # Nothing
    /\ \E component \in {"shipped", "rebuilt", "damaged"} \ {disk[root][slot].component} :
           disk' = [disk EXCEPT ![root][slot].component = component]
    /\ edits' = edits + 1
    /\ changed' = (phase \notin {"off", "configured"} \/ changed)
    /\ UNCHANGED <<files, phase, config, agents, queue, accepted, refused, registry>>

\* WasmPluginExecutor::execute reads the component again, without its checksum.
Answers(name) ==
    /\ name \in DOMAIN registry.tools
    /\ registry.tools[name] # BuiltIn =>
           LET tool == registry.tools[name]
           IN  disk[tool.root][tool.slot].component \in {"shipped", "rebuilt"}

Init ==
    /\ files \in ConfigFiles
    /\ LET roots == {DefaultDataDir \o <<"plugins">>, CurrentDir \o <<"data", "plugins">>}
           plugins == {[manifest |-> manifest, component |-> "shipped"] : manifest \in Manifests}
       IN  disk \in [roots -> [Slots -> plugins \union {Nothing}]]
    /\ phase = "off" /\ config = Nothing /\ agents = <<>>
    /\ queue = <<>> /\ accepted = <<>> /\ refused = {}
    /\ registry = NoRegistry /\ changed = FALSE /\ edits = 0

Next ==
    \/ Configure \/ Discover \/ Consider \/ Build \/ Stop
    \/ \E root \in DOMAIN disk, slot \in Slots : Edit(root, slot)

Spec == Init /\ [][Next]_vars
=============================================================================
