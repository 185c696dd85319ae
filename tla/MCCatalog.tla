----------------------------- MODULE MCCatalog -----------------------------
EXTENDS CatalogProperties

Plain == [dataDir |-> Nothing, log |-> Nothing, agents |-> Nothing, plugins |-> Nothing,
          provider |-> Nothing, effort |-> Nothing, prompt |-> Nothing, acp |-> Nothing]
Agent(name, padded) ==
    [name |-> [text |-> name, padded |-> padded], description |-> [text |-> "d", padded |-> FALSE],
     prompt |-> [text |-> "p", padded |-> FALSE]]

Apart == [Plain EXCEPT !.dataDir = <<"data">>, !.prompt = "mine", !.effort = "high",
                       !.agents = <<Agent("scout", TRUE), Agent("judge", FALSE)>>]
GlobalOnly == [Plain EXCEPT !.plugins = [project |-> FALSE, global |-> Nothing,
                                         projectDir |-> Nothing, globalDir |-> Nothing],
                            !.acp = [version |-> 1, methods |-> {}, prompt |-> Nothing, effort |-> "low"]]
Placed == [Plain EXCEPT !.dataDir = <<"/", "work", "data">>, !.log = <<"log">>,
                        !.plugins = [project |-> Nothing, global |-> TRUE,
                                     projectDir |-> <<"data", "plugins">>,
                                     globalDir |-> <<"/", "work", ".fluent-code", "plugins">>]]
TwoScouts == [Plain EXCEPT !.agents = <<Agent("scout", TRUE), Agent("scout", FALSE)>>]
WrongEffort == [Plain EXCEPT !.effort = "most"]

MCConfigFiles ==
    {[root |-> root, inDataDir |-> Nothing] : root \in {Apart, GlobalOnly, Placed}}
    \union {[root |-> Nothing, inDataDir |-> Nothing], [root |-> Nothing, inDataDir |-> TwoScouts],
            [root |-> WrongEffort, inDataDir |-> Apart]}

MCVersion == [core |-> <<0, 1, 0>>]
Unstated == [filesystem |-> Nothing, network |-> Nothing, process |-> Nothing, environment |-> {}]
Tool(name, enabled, asks) ==
    [name |-> name, enabled |-> enabled, asks |-> asks, schema |-> "object",
     timeout |-> 30000, maxOutput |-> 65536, capabilities |-> Unstated]
Manifest(id, tools) ==
    [version |-> 1, api |-> "0.1.0", id |-> id, name |-> "name", sha256 |-> Nothing,
     runtime |-> [abi |-> "wasm-component", world |-> "plugin", wasi |-> "p2"],
     host |-> [min |-> [core |-> <<0, 1, 0>>], max |-> Nothing, platforms |-> {}],
     capabilities |-> NoCapabilities, tools |-> tools]

Echo == [Manifest("echo", <<Tool(<<"echo">>, TRUE, TRUE)>>) EXCEPT !.sha256 = "shipped"]
Chatty == Manifest("chatty", <<Tool(<<"echo">>, TRUE, FALSE), Tool(<<"echo", "all">>, TRUE, TRUE)>>)
Again == Manifest("echo", <<Tool(<<"echo">>, FALSE, TRUE), Tool(<<"find">>, TRUE, TRUE)>>)
Reserved == Manifest("reserved", <<Tool(<<"read">>, FALSE, TRUE)>>)
Networked == [Manifest("net", <<Tool(<<"find">>, TRUE, TRUE)>>)
                  EXCEPT !.capabilities = [NoCapabilities EXCEPT !.network = TRUE]]
Broader == Manifest("broad", <<[Tool(<<"find">>, TRUE, TRUE)
                                    EXCEPT !.capabilities = [Unstated EXCEPT !.process = TRUE]]>>)
Newer == [Manifest("newer", <<Tool(<<"find">>, TRUE, TRUE)>>)
              EXCEPT !.host = [min |-> [core |-> <<0, 2, 0>>], max |-> Nothing, platforms |-> {}]]

MCManifests == {Echo, Chatty, Again, Reserved, Networked, Broader, Newer}
MCWellFormed == {"echo", "all", "find", "read", "chatty", "reserved", "net", "broad", "newer",
                 "name", "shipped"}
=============================================================================
