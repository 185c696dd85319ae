--------------------------- MODULE CatalogProofs ---------------------------
(***************************************************************************)
(* For any configurations, manifests, directories and number of changes:   *)
(* a plugin fails alone, since the accepted plugins always build a         *)
(* registry together as long as no component changes; the configuration    *)
(* that was read is the one that is followed; and the tools the model is   *)
(* told of are the tools that run.                                         *)
(***************************************************************************)
EXTENDS CatalogProperties, FiniteSetTheorems, SequenceTheorems,
        WellFoundedInduction, TLAPS

\* Why a plugin is refused beside the accepted ones.
Clashes(plugin, plugins) ==
    \E other \in ToSet(plugins) :
        /\ other.scope = plugin.scope
        /\ \/ other.manifest.id = plugin.manifest.id
           \/ EnabledNames(other) \cap EnabledNames(plugin) # {}
Reason(plugin, plugins) == ~Executable(plugin) \/ ReservesBuiltIn(plugin) \/ Clashes(plugin, plugins)

Early == phase \in {"off", "configured"}

IInv ==
    /\ accepted \in Seq(ToSet(accepted))
    /\ Early => accepted = <<>> /\ refused = {}
    /\ phase = "off" => config = Nothing
    /\ ~changed => /\ Builds(accepted)
                   /\ \A plugin \in refused : Reason(plugin, accepted)
                   /\ phase = "failed" => config = Nothing

-----------------------------------------------------------------------------
LEMMA EmptyBuilds == <<>> \in Seq(ToSet(<<>>)) /\ Builds(<<>>)
  BY DEF Builds, ToSet

LEMMA EmptyBuildsThen == Builds(<<>>)'
  BY DEF Builds

\* The registry is built of what is on the disk.
LEMMA SameDisk ==
    ASSUME UNCHANGED disk
    PROVE  /\ \A plugins : Builds(plugins)' <=> Builds(plugins)
           /\ \A plugin, plugins : Reason(plugin, plugins)' <=> Reason(plugin, plugins)
  <1>1. \A plugin : Executable(plugin)' <=> Executable(plugin)
    BY DEF Executable, Loads, Component
  <1> QED
    BY <1>1 DEF Builds, Reason, Clashes

\* The plugins accepted so far, and one more.
LEMMA AppendedPlugins ==
    ASSUME NEW plugins, plugins \in Seq(ToSet(plugins)), NEW plugin,
           NEW more, more = Append(plugins, plugin)
    PROVE  /\ more \in Seq(ToSet(more))
           /\ \A i \in DOMAIN more : (i \in DOMAIN plugins /\ more[i] = plugins[i])
                                   \/ (i = Len(plugins) + 1 /\ more[i] = plugin)
           /\ DOMAIN plugins = 1..Len(plugins) /\ Len(plugins) \in Nat
           /\ ToSet(plugins) \subseteq ToSet(more)
  <1> DEFINE all == ToSet(plugins) \cup {plugin}
  <1>1. plugins \in Seq(all)
    <2>1. \A i \in 1..Len(plugins) : plugins[i] \in all
      BY DEF ToSet
    <2> QED BY <2>1
  <1>2. /\ more \in Seq(all) /\ Len(more) = Len(plugins) + 1
        /\ \A i \in 1..Len(plugins) : more[i] = plugins[i]
        /\ more[Len(plugins) + 1] = plugin
    BY <1>1
  <1>3. DOMAIN more = 1..Len(plugins) + 1 /\ DOMAIN plugins = 1..Len(plugins)
    BY <1>1, <1>2
  <1>4. Len(plugins) \in Nat
    BY <1>1
  <1>5. \A i \in DOMAIN more : more[i] \in ToSet(more)
    BY DEF ToSet
  <1>6. more \in Seq(ToSet(more))
    BY <1>2, <1>3, <1>4, <1>5
  <1>7. ToSet(plugins) \subseteq ToSet(more)
    BY <1>2, <1>3, <1>4 DEF ToSet
  <1>8. \A i \in DOMAIN more : (i \in DOMAIN plugins /\ more[i] = plugins[i])
                                   \/ (i = Len(plugins) + 1 /\ more[i] = plugin)
    BY <1>2, <1>3, <1>4
  <1> QED
    BY <1>3, <1>4, <1>6, <1>7, <1>8

\* One more plugin is refused for itself or for one that is accepted.
LEMMA RefusedForAReason ==
    ASSUME NEW plugins, plugins \in Seq(ToSet(plugins)), NEW plugin,
           Builds(plugins), ~Builds(Append(plugins, plugin))
    PROVE  Reason(plugin, plugins)
  <1> DEFINE more == Append(plugins, plugin)
  <1>1. /\ \A i \in DOMAIN more : (i \in DOMAIN plugins /\ more[i] = plugins[i])
                                   \/ (i = Len(plugins) + 1 /\ more[i] = plugin)
        /\ DOMAIN plugins = 1..Len(plugins) /\ Len(plugins) \in Nat
    BY AppendedPlugins
  <1>2. ~Builds(more)
    OBVIOUS
  <1> HIDE DEF more
  <1>3. CASE \E i \in DOMAIN more : ~Executable(more[i]) \/ ReservesBuiltIn(more[i])
    BY <1>1, <1>3 DEF Builds, Reason
  <1>4. CASE \E i, j \in DOMAIN more : i < j /\ Collide(more[i], more[j])
    <2>1. PICK i \in DOMAIN more, j \in DOMAIN more : i < j /\ Collide(more[i], more[j])
      BY <1>4
    <2>2. i \in DOMAIN plugins /\ more[i] = plugins[i]
      BY <1>1, <2>1
    <2>3. more[j] = plugin
      BY <1>1, <2>1, <2>2 DEF Builds
    <2>4. Collide(plugins[i], plugin) /\ plugins[i] \in ToSet(plugins)
      BY <2>1, <2>2, <2>3 DEF ToSet
    <2> QED BY <2>4 DEF Collide, Reason, Clashes
  <1> QED
    BY <1>2, <1>3, <1>4 DEF Builds

-----------------------------------------------------------------------------
LEMMA InitInv == Init => IInv
  BY EmptyBuilds DEF Init, IInv

LEMMA ConfigurePreserves == ASSUME IInv, Configure PROVE IInv'
  <1>1. /\ UNCHANGED <<disk, accepted, refused, changed>> /\ phase = "off"
        /\ phase' \in {"configured", "failed"}
        /\ phase' = "failed" => config' = config
    BY DEF Configure, Configured
  <1> QED
    BY <1>1, SameDisk DEF IInv, Early

LEMMA DiscoverPreserves == ASSUME IInv, Discover PROVE IInv'
  <1>1. /\ UNCHANGED <<disk, accepted, refused, changed>> /\ phase' = "discovered"
    BY DEF Discover
  <1> QED
    BY <1>1, SameDisk DEF IInv, Early

LEMMA ConsiderPreserves == ASSUME IInv, Consider PROVE IInv'
  <1> DEFINE plugin == Head(queue)
             more == Append(accepted, plugin)
  <1>1. /\ UNCHANGED <<disk, config, changed, phase>> /\ phase = "discovered"
        /\ IF Builds(more) THEN accepted' = more /\ UNCHANGED refused
           ELSE refused' = refused \cup {plugin} /\ UNCHANGED accepted
    BY DEF Consider
  <1>2. /\ more \in Seq(ToSet(more)) /\ ToSet(accepted) \subseteq ToSet(more)
    BY AppendedPlugins DEF IInv
  <1>3. ASSUME Builds(accepted), ~Builds(more) PROVE Reason(plugin, accepted)
    BY <1>3, RefusedForAReason DEF IInv
  <1>4. \A other : Reason(other, accepted) => Reason(other, more)
    BY <1>2 DEF Reason, Clashes
  <1> HIDE DEF plugin, more
  <1>5. CASE Builds(more)
    BY <1>5, <1>1, <1>2, <1>4, SameDisk DEF IInv, Early
  <1>6. CASE ~Builds(more)
    BY <1>6, <1>1, <1>3, SameDisk DEF IInv, Early
  <1> QED
    BY <1>5, <1>6

\* As long as no component changes the accepted plugins build: the start goes on.
LEMMA BuildPreserves == ASSUME IInv, Build PROVE IInv'
  <1>1. /\ UNCHANGED <<disk, config, accepted, refused, changed>> /\ phase = "discovered"
        /\ phase' \in {"ready", "failed"}
        /\ Builds(accepted) => phase' = "ready"
    BY DEF Build
  <1> QED
    BY <1>1, SameDisk DEF IInv, Early

LEMMA StopPreserves == ASSUME IInv, Stop PROVE IInv'
  <1>1. /\ UNCHANGED disk /\ phase' = "off" /\ config' = Nothing
        /\ accepted' = <<>> /\ refused' = {}
    BY DEF Stop, Off
  <1> QED
    BY <1>1, SameDisk, EmptyBuilds DEF IInv, Early

LEMMA EditPreserves ==
    ASSUME IInv, NEW root, NEW slot, Edit(root, slot) PROVE IInv'
  <1>1. /\ UNCHANGED <<phase, config, accepted, refused>>
        /\ changed' = (~Early \/ changed)
    BY DEF Edit, Early
  <1>2. CASE Early
    BY <1>1, <1>2, EmptyBuildsThen, EmptyBuilds DEF IInv, Early
  <1>3. CASE ~Early
    BY <1>1, <1>3 DEF IInv, Early
  <1> QED
    BY <1>2, <1>3

LEMMA NextPreserves == IInv /\ [Next]_vars => IInv'
  <1> SUFFICES ASSUME IInv, [Next]_vars PROVE IInv'
    OBVIOUS
  <1>1. CASE Next
    BY <1>1, ConfigurePreserves, DiscoverPreserves, ConsiderPreserves, BuildPreserves,
       StopPreserves, EditPreserves DEF Next
  <1>2. CASE UNCHANGED vars
    <2>1. UNCHANGED <<disk, phase, config, accepted, refused, changed>>
      BY <1>2 DEF vars
    <2> QED
      BY <2>1, SameDisk DEF IInv, Early
  <1> QED
    BY <1>1, <1>2

\* A plugin is disabled for a reason of its own or for one that is served, never
\* because of one that was disabled; and a start fails only for the configuration
\* (load_tool_registry in fluent-code-app/src/plugin/mod.rs), whatever is installed,
\* unless a component changes between its two reads.
THEOREM AFailureStaysAlone == Spec => []PluginsFailAlone
  <1>1. Init => IInv
    BY InitInv
  <1>2. IInv /\ [Next]_vars => IInv'
    BY NextPreserves
  <1>3. IInv => PluginsFailAlone
    BY DEF IInv, PluginsFailAlone, Reason, Clashes
  <1> QED
    BY <1>1, <1>2, <1>3, PTL DEF Spec
-----------------------------------------------------------------------------
(* Smallest and largest numbers, and the rank of a number in a finite set:  *)
(* the natural numbers are well founded.                                     *)

LEMMA MinOf ==
    ASSUME NEW S, S \subseteq Nat, S # {}
    PROVE  \E x \in S : \A y \in S : x <= y
  <1> DEFINE less == OpToRel(<, Nat)
  <1>1. \A y, x \in Nat : <<y, x>> \in less <=> y < x
    BY DEF OpToRel
  <1>2. IsWellFoundedOn(less, Nat)
    BY NatLessThanWellFounded
  <1> HIDE DEF less
  <1>3. PICK x \in S : \A y \in S : ~(<<y, x>> \in less)
    BY <1>2, WFMin
  <1>4. \A y \in S : ~(y < x)
    BY <1>1, <1>3, Zenon
  <1> QED
    BY <1>3, <1>4

LEMMA MaxOf ==
    ASSUME NEW n \in Nat, NEW S, S \subseteq 1..n, S # {}
    PROVE  Max(S) \in S /\ \A i \in S : i <= Max(S)
  <1> DEFINE T == {k \in Nat : n - k \in S}
  <1>1. \A i \in S : i \in Nat /\ n - i \in Nat /\ n - (n - i) = i
    OBVIOUS
  <1>2. T \subseteq Nat /\ \A i \in S : n - i \in T
    BY <1>1
  <1>3. PICK x \in T : \A y \in T : x <= y
    <2> HIDE DEF T
    <2>1. T # {}
      BY <1>2
    <2> QED BY <1>2, <2>1, MinOf
  <1>4. n - x \in S /\ x \in Nat
    OBVIOUS
  <1>5. \A i \in S : n - x >= i
    <2> TAKE i \in S
    <2>1. x <= n - i
      BY <1>2, <1>3
    <2> HIDE DEF T
    <2> QED BY <1>1, <1>4, <2>1
  <1> QED
    BY <1>4, <1>5 DEF Max

\* Every rank below the number of elements is somebody's.
LEMMA RankExists ==
    ASSUME NEW S, S \subseteq Nat, IsFiniteSet(S), NEW k \in Nat, k < Cardinality(S)
    PROVE  \E s \in S : Below(S, s) = k
  <1> DEFINE Missing == {m \in Nat : m < Cardinality(S) /\ ~\E s \in S : Below(S, s) = m}
  <1> SUFFICES ASSUME Missing # {} PROVE FALSE
    OBVIOUS
  <1>1. PICK m \in Missing : \A y \in Missing : m <= y
    <2>1. Missing \subseteq Nat
      OBVIOUS
    <2> HIDE DEF Missing
    <2> QED BY <2>1, MinOf
  <1>2. m \in Nat /\ m < Cardinality(S) /\ ~\E s \in S : Below(S, s) = m
    OBVIOUS
  <1>3. Cardinality(S) \in Nat
    BY FS_CardinalityType
  <1>4. CASE m = 0
    <2>1. S # {}
      BY <1>2, <1>3, <1>4, FS_EmptySet
    <2>2. PICK s \in S : \A y \in S : s <= y
      BY <2>1, MinOf
    <2>3. {other \in S : other < s} = {}
      <3>1. \A other \in S : ~(other < s)
        BY <2>2
      <3> QED BY <3>1
    <2>4. Below(S, s) = 0
      BY <2>3, FS_EmptySet DEF Below
    <2> QED BY <1>2, <1>4, <2>4
  <1>5. CASE m # 0
    <2>1. m - 1 \in Nat /\ m - 1 \notin Missing
      BY <1>1, <1>2, <1>5
    <2>2. PICK s \in S : Below(S, s) = m - 1
      BY <1>2, <1>3, <2>1
    <2> DEFINE low == {other \in S : other < s}
               high == {other \in S : other > s}
    <2>3. Cardinality(low) = m - 1 /\ IsFiniteSet(low)
      <3>1. IsFiniteSet(low)
        BY FS_Subset
      <3> QED BY <2>2, <3>1 DEF Below
    <2>4. s \notin low /\ Cardinality(low \cup {s}) = m /\ IsFiniteSet(low \cup {s})
      <3>1. s \notin low
        OBVIOUS
      <3> HIDE DEF low
      <3>2. IsFiniteSet(low \cup {s}) /\ Cardinality(low \cup {s}) = Cardinality(low) + 1
        BY <2>3, <3>1, FS_AddElement
      <3> QED BY <1>2, <2>3, <3>1, <3>2
    <2>5. high # {}
      <3>1. S = (low \cup {s}) \cup high
        <4>1. \A other \in S : other < s \/ other = s \/ other > s
          OBVIOUS
        <4> QED BY <4>1
      <3> HIDE DEF low, high
      <3> QED BY <1>2, <2>4, <3>1
    <2>6. PICK t \in high : \A y \in high : t <= y
      <3>1. high \subseteq Nat
        OBVIOUS
      <3> HIDE DEF high
      <3> QED BY <2>5, <3>1, MinOf
    <2>7. {other \in S : other < t} = low \cup {s}
      <3>1. t \in S /\ t > s
        OBVIOUS
      <3>2. \A other \in S : other < t <=> (other < s \/ other = s)
        <4> TAKE other \in S
        <4>1. other > s => t <= other
          BY <2>6
        <4> QED BY <3>1, <4>1
      <3> QED BY <3>2
    <2>8. t \in S /\ Below(S, t) = m
      BY <2>4, <2>6, <2>7 DEF Below
    <2> QED BY <1>2, <2>8
  <1> QED
    BY <1>4, <1>5

LEMMA InOrderLists ==
    ASSUME NEW S, S \subseteq Nat, IsFiniteSet(S)
    PROVE  InOrder(S) \in Seq(S)
  <1> DEFINE n == Cardinality(S)
             at(i) == CHOOSE s \in S : Below(S, s) = i - 1
  <1>1. n \in Nat
    BY FS_CardinalityType
  <1>2. \A i \in 1..n : at(i) \in S
    <2> TAKE i \in 1..n
    <2>1. i - 1 \in Nat /\ i - 1 < n
      BY <1>1
    <2>2. \E s \in S : Below(S, s) = i - 1
      BY <2>1, RankExists
    <2> QED BY <2>2
  <1>3. InOrder(S) = [i \in 1..n |-> at(i)]
    BY DEF InOrder
  <1> HIDE DEF n, at
  <1> QED
    BY <1>1, <1>2, <1>3

\* The members of a list are finitely many.
LEMMA ListIsFinite ==
    ASSUME NEW n \in Nat, NEW f, DOMAIN f = 1..n
    PROVE  IsFiniteSet({f[i] : i \in 1..n})
  <1> DEFINE T == {f[i] : i \in 1..n}
             g == [i \in 1..n |-> f[i]]
  <1>1. g \in Surjection(1..n, T)
    BY DEF Surjection
  <1>2. IsFiniteSet(1..n)
    BY FS_Interval
  <1> HIDE DEF T, g
  <1>3. IsFiniteSet(T)
    BY <1>1, <1>2, FS_Surjection
  <1> QED
    BY <1>3 DEF T

-----------------------------------------------------------------------------
(* The configuration is read once, from the file there is.                   *)

Raw == IF files.root # Nothing THEN files.root ELSE files.inDataDir
Read == IF Raw = Nothing THEN DefaultConfig ELSE FromToml(Raw)

ConfInv ==
    /\ files \in ConfigFiles
    /\ phase = "off" => config = Nothing
    /\ phase # "off" /\ config # Nothing =>
           /\ config = Read
           /\ agents = NamesOf(config.agents)
           /\ ~AgentsRefused(config.agents)

LEMMA InitConf == Init => ConfInv
  BY DEF Init, ConfInv

LEMMA NextKeepsConf == ConfInv /\ [Next]_vars => ConfInv'
  <1> SUFFICES ASSUME ConfInv, [Next]_vars PROVE ConfInv'
    OBVIOUS
  <1>1. CASE Configure
    <2>1. files' = files /\ phase = "off" /\ config = Nothing
      BY <1>1 DEF Configure, ConfInv
    <2>2. \/ phase' = "failed" /\ config' = config
          \/ Configured(Read)
      BY <1>1 DEF Configure, Raw, Read
    <2>3. CASE phase' = "failed" /\ config' = config
      BY <2>1, <2>3 DEF ConfInv
    <2>4. CASE Configured(Read)
      <3>1. CASE AgentsRefused(Read.agents)
        BY <2>1, <2>4, <3>1 DEF ConfInv, Configured
      <3>2. CASE ~AgentsRefused(Read.agents)
        <4>1. config' = Read /\ agents' = NamesOf(Read.agents) /\ phase' = "configured"
          BY <2>4, <3>2 DEF Configured
        <4>2. Read' = Read
          BY <2>1 DEF Read, Raw
        <4>3. files' \in ConfigFiles
          BY <2>1 DEF ConfInv
        <4> HIDE DEF Read
        <4>4. ~AgentsRefused(config.agents)' /\ (agents = NamesOf(config.agents))'
          BY <3>2, <4>1
        <4> QED BY <4>1, <4>2, <4>3, <4>4 DEF ConfInv
      <3> QED BY <3>1, <3>2
    <2> QED BY <2>2, <2>3, <2>4
  <1>2. CASE Stop
    BY <1>2 DEF Stop, Off, ConfInv
  <1>3. CASE Discover \/ Consider \/ Build
    <2>1. UNCHANGED <<files, config, agents>> /\ phase # "off" /\ phase' # "off"
      BY <1>3 DEF Discover, Consider, Build
    <2> QED BY <2>1 DEF ConfInv, Read, Raw
  <1>4. CASE UNCHANGED vars \/ \E root \in DOMAIN disk, slot \in Slots : Edit(root, slot)
    <2>1. UNCHANGED <<files, config, agents, phase>>
      BY <1>4 DEF Edit, vars
    <2> QED BY <2>1 DEF ConfInv, Read, Raw
  <1> QED
    BY <1>1, <1>2, <1>3, <1>4 DEF Next

\* The names that are registered are trimmed, not empty and distinct.
LEMMA NamesAreGood ==
    ASSUME NEW raw, raw # Nothing => IsList(raw), ~AgentsRefused(raw),
           NEW names, names = NamesOf(raw)
    PROVE  /\ \E n \in Nat : DOMAIN names = 1..n /\ Len(names) = n
           /\ \A i \in DOMAIN names : names[i].text # "" /\ Trim(names[i]) = names[i]
           /\ \A i, j \in DOMAIN names : names[i].text = names[j].text => i = j
  <1>1. CASE raw = Nothing
    <2>1. names = <<Written("explore"), Written("librarian")>>
      BY <1>1 DEF NamesOf, BuiltInAgents
    <2> DEFINE a == Written("explore")
               b == Written("librarian")
    <2>2. a.text = "explore" /\ b.text = "librarian" /\ Trim(a) = a /\ Trim(b) = b
      BY DEF Written, Trim
    <2> HIDE DEF a, b
    <2>3. DOMAIN names = 1..2 /\ Len(names) = 2 /\ names[1] = a /\ names[2] = b
      BY <2>1 DEF a, b
    <2>4. \A i \in DOMAIN names : i = 1 \/ i = 2
      BY <2>3
    <2>5. a.text # "" /\ b.text # "" /\ a.text # b.text
      BY <2>2
    <2> QED BY <2>2, <2>3, <2>4, <2>5
  <1>2. CASE raw # Nothing
    <2>1. names = [i \in DOMAIN raw |-> Trim(raw[i].name)]
      BY <1>2 DEF NamesOf
    <2>2. Len(raw) \in Nat /\ DOMAIN raw = 1..Len(raw)
      BY <1>2 DEF IsList
    <2>3. DOMAIN names = 1..Len(raw) /\ Len(names) = Len(raw)
      <3> DEFINE n == Len(raw)
                 at(i) == Trim(raw[i].name)
      <3>1. names = [i \in 1..n |-> at(i)] /\ n \in Nat
        BY <2>1, <2>2
      <3> HIDE DEF n, at
      <3>2. DOMAIN names = 1..n /\ Len(names) = n
        BY <3>1
      <3> QED BY <3>2 DEF n
    <2>4. \A i \in DOMAIN names : raw[i].name.text # "" /\ names[i] = Written(raw[i].name.text)
      BY <1>2, <2>1 DEF AgentsRefused, Trim
    <2>5. \A text : Written(text).text = text /\ Trim(Written(text)) = Written(text)
      BY DEF Trim, Written
    <2>6. \A i \in DOMAIN names : names[i].text = raw[i].name.text /\ Trim(names[i]) = names[i]
      <3> TAKE i \in DOMAIN names
      <3> DEFINE text == raw[i].name.text
      <3>1. names[i] = Written(text)
        BY <2>4
      <3>2. Written(text).text = text /\ Trim(Written(text)) = Written(text)
        BY <2>5
      <3> HIDE DEF text
      <3>3. names[i].text = text /\ Trim(names[i]) = names[i]
        BY <3>1, <3>2
      <3> QED BY <3>3 DEF text
    <2>7. IsInjective(names)
      BY <1>2 DEF AgentsRefused
    <2>8. \A i, j \in DOMAIN names : names[i].text = names[j].text => names[i] = names[j]
      <3> TAKE i, j \in DOMAIN names
      <3>1. names[i] = Written(names[i].text) /\ names[j] = Written(names[j].text)
        BY <2>6 DEF Trim
      <3> QED BY <3>1, Zenon
    <2>9. \A i, j \in DOMAIN names : names[i].text = names[j].text => i = j
      BY <2>7, <2>8 DEF IsInjective
    <2>10. \A i \in DOMAIN names : names[i].text # ""
      BY <2>4, <2>6
    <2> QED BY <2>2, <2>3, <2>6, <2>9, <2>10
  <1> QED
    BY <1>1, <1>2

\* As many names as agents.
LEMMA NamesAreCounted ==
    ASSUME NEW names, NEW n \in Nat, DOMAIN names = 1..n,
           \A i, j \in DOMAIN names : names[i].text = names[j].text => i = j
    PROVE  Cardinality({agent.text : agent \in ToSet(names)}) = n
  <1> DEFINE T == {agent.text : agent \in ToSet(names)}
             f == [i \in 1..n |-> names[i].text]
  <1>1. \A i \in 1..n : names[i].text \in T
    BY DEF ToSet
  <1>2. \A x \in T : \E i \in 1..n : x = names[i].text
    BY DEF ToSet
  <1>3. f \in Bijection(1..n, T)
    <2>1. f \in [1..n -> T]
      BY <1>1
    <2> HIDE DEF T
    <2> QED BY <1>2, <2>1 DEF Bijection, Injection, Surjection, IsInjective
  <1>4. IsFiniteSet(1..n) /\ Cardinality(1..n) = n
    BY FS_Interval
  <1> HIDE DEF T, f
  <1>5. Cardinality(T) = n
    BY <1>3, <1>4, FS_Bijection DEF ExistsBijection
  <1> QED
    BY <1>5 DEF T

LEMMA SmallerSeq ==
    ASSUME NEW S, NEW T, NEW s \in Seq(S)
    PROVE  s \in Seq(S \cup T) /\ s \in Seq(T \cup S)
  OBVIOUS

LEMMA JoinedList ==
    ASSUME NEW s, IsList(s), NEW t, IsList(t)
    PROVE  IsList(s \o t) /\ (t # <<>> => IsPrefix(s, s \o t))
  <1> DEFINE S == ToSet(s) \cup ToSet(t)
             u == s \o t
  <1>1. /\ Len(s) \in Nat /\ DOMAIN s = 1..Len(s)
        /\ Len(t) \in Nat /\ DOMAIN t = 1..Len(t)
    BY DEF IsList
  <1>2. s \in Seq(S) /\ t \in Seq(S)
    BY SmallerSeq DEF IsList
  <1> HIDE DEF S
  <1>3. /\ u \in Seq(S) /\ Len(u) = Len(s) + Len(t)
        /\ \A i \in 1..Len(s) + Len(t) : u[i] = IF i <= Len(s) THEN s[i] ELSE t[i - Len(s)]
    BY <1>2, ConcatProperties
  <1> HIDE DEF u
  <1>4. IsList(u)
    <2>1. DOMAIN u = 1..Len(u) /\ Len(u) \in Nat
      BY <1>3
    <2>2. \A i \in 1..Len(u) : u[i] \in ToSet(u)
      BY <2>1 DEF ToSet
    <2> QED BY <1>3, <2>1, <2>2 DEF IsList
  <1>5. Len(s) <= Len(u) /\ \A i \in 1..Len(s) : u[i] = s[i]
    BY <1>1, <1>3
  <1>6. SubSeq(s, 1, Len(s)) = SubSeq(u, 1, Len(s))
    BY <1>1, <1>2, <1>3, <1>5
  <1> QED
    BY <1>4, <1>5, <1>6 DEF IsPrefix, u

LEMMA Singleton == \A x : IsList(<<x>>) /\ <<x>> # <<>>
  BY DEF IsList, ToSet

LEMMA DefaultPaths == IsList(CurrentDir) /\ IsList(DefaultDataDir)
  <1>1. IsList(CurrentDir)
    BY DEF CurrentDir, IsList, ToSet
  <1> QED
    BY <1>1, Singleton, JoinedList DEF DefaultDataDir

\* What the user wrote is what the program goes by, for any configuration files
\* (Config::load, AgentRegistry and the task tool's schema): the names on offer are
\* the trimmed, distinct names that were registered, and what is left open is
\* filled in from the data directory and the model that were set.
THEOREM UserIsFollowed == Spec => []ConfigurationIsFollowed
  <1>1. ConfInv => ConfigurationIsFollowed
    <2> SUFFICES ASSUME ConfInv, phase # "off", config # Nothing
                 PROVE  /\ \A agent \in TaskOffers : TaskAccepts(agent, Written("look"))
                        /\ Cardinality({agent.text : agent \in TaskOffers}) = Len(agents)
                        /\ Raw # Nothing =>
                             /\ Raw.plugins = Nothing => IsPrefix(config.dataDir, config.plugins.globalDir)
                             /\ Raw.log = Nothing => IsPrefix(config.dataDir, config.log)
                             /\ Raw.acp = Nothing => /\ config.acp.prompt = config.model.prompt
                                                     /\ config.acp.effort = config.model.effort
      BY DEF ConfigurationIsFollowed, Raw
    <2>1. config = Read /\ agents = NamesOf(config.agents) /\ ~AgentsRefused(config.agents)
      BY DEF ConfInv
    <2>2. Raw # Nothing => /\ Raw.dataDir # Nothing => IsList(Raw.dataDir)
                           /\ Raw.agents # Nothing => IsList(Raw.agents)
      <3>1. Raw # Nothing => Raw \in {files.root, files.inDataDir} \ {Nothing}
        BY DEF Raw
      <3> QED BY <3>1, CatalogAssumption DEF ConfInv
    <2>3. config.agents # Nothing => IsList(config.agents)
      <3>1. CASE Raw = Nothing
        BY <2>1, <3>1 DEF Read, DefaultConfig
      <3>2. CASE Raw # Nothing
        BY <2>1, <2>2, <3>2 DEF Read, FromToml
      <3> QED BY <3>1, <3>2
    <2>4. /\ \E n \in Nat : DOMAIN agents = 1..n /\ Len(agents) = n
          /\ \A i \in DOMAIN agents : agents[i].text # "" /\ Trim(agents[i]) = agents[i]
          /\ \A i, j \in DOMAIN agents : agents[i].text = agents[j].text => i = j
      <3> DEFINE raw == config.agents
      <3>1. (raw # Nothing => IsList(raw)) /\ ~AgentsRefused(raw) /\ agents = NamesOf(raw)
        BY <2>1, <2>3
      <3> HIDE DEF raw
      <3> QED BY ONLY <3>1, NamesAreGood
    <2>5. \A agent \in TaskOffers : TaskAccepts(agent, Written("look"))
      <3>1. Written("look").text # ""
        BY DEF Written
      <3>2. \A agent \in ToSet(agents) : agent.text # "" /\ Trim(agent) \in ToSet(agents)
        BY <2>4 DEF ToSet
      <3> QED BY <3>1, <3>2 DEF TaskOffers, TaskAccepts
    <2>6. Cardinality({agent.text : agent \in TaskOffers}) = Len(agents)
      BY <2>4, NamesAreCounted DEF TaskOffers
    <2>7. ASSUME Raw # Nothing
          PROVE  /\ Raw.plugins = Nothing => IsPrefix(config.dataDir, config.plugins.globalDir)
                 /\ Raw.log = Nothing => IsPrefix(config.dataDir, config.log)
                 /\ Raw.acp = Nothing => /\ config.acp.prompt = config.model.prompt
                                         /\ config.acp.effort = config.model.effort
      <3> DEFINE dir == IF Raw.dataDir = Nothing THEN DefaultDataDir ELSE Resolve(CurrentDir, Raw.dataDir)
                 model == [provider |-> OrElse(Raw.provider, DefaultModel.provider),
                           effort |-> Raw.effort,
                           prompt |-> OrElse(Raw.prompt, DefaultModel.prompt)]
      <3>1. /\ config.dataDir = dir /\ config.log = LogPath(Raw.log, dir)
            /\ config.plugins = PluginsFrom(Raw.plugins, dir)
            /\ config.model = model /\ config.acp = AcpFrom(Raw.acp, model)
        BY <2>1, <2>7 DEF Read, FromToml
      <3>2. IsList(dir)
        BY <2>2, <2>7, DefaultPaths, JoinedList DEF Resolve
      <3> HIDE DEF dir
      <3>3. Raw.plugins = Nothing => config.plugins.globalDir = dir \o <<"plugins">>
        BY <3>1 DEF PluginsFrom, PluginDefaults
      <3>4. Raw.log = Nothing => config.log = dir \o <<"fluent-code.log">>
        BY <3>1 DEF LogPath
      <3>5. Raw.acp = Nothing => /\ config.acp.prompt = model.prompt /\ config.acp.effort = model.effort
        <4> HIDE DEF model
        <4> QED BY <3>1 DEF AcpFrom
      <3> HIDE DEF model
      <3>6. IsPrefix(dir, dir \o <<"plugins">>) /\ IsPrefix(dir, dir \o <<"fluent-code.log">>)
        BY <3>2, Singleton, JoinedList
      <3> QED BY <3>1, <3>3, <3>4, <3>5, <3>6
    <2> QED BY <2>5, <2>6, <2>7
  <1> QED
    BY <1>1, InitConf, NextKeepsConf, PTL DEF Spec

-----------------------------------------------------------------------------
(* The registry that a list of plugins gives, and the list a start arrives   *)
(* at: global plugins before those of the project, none of which reserves a  *)
(* built-in name or collides with another.                                   *)

Place == [manifest: Manifests, component: {"shipped", "rebuilt", "damaged"}]
IsPlugin(plugin) == plugin.scope \in {"global", "project"} /\ plugin.manifest \in Manifests
ArePlugins(list) == IsList(list) /\ \A i \in DOMAIN list : IsPlugin(list[i])
InScopeOrder(list) ==
    \A i, j \in DOMAIN list : i < j /\ list[i].scope = "project" => list[j].scope = "project"
Compatible(list) ==
    /\ \A i \in DOMAIN list : ~ReservesBuiltIn(list[i])
    /\ \A i, j \in DOMAIN list : i < j => ~Collide(list[i], list[j])

ServInv ==
    /\ disk \in [DOMAIN disk -> [Slots -> Place \cup {Nothing}]]
    /\ edits \in Nat /\ (edits = 0 => ~changed)
    /\ ArePlugins(queue) /\ ArePlugins(accepted)
    /\ InScopeOrder(queue) /\ InScopeOrder(accepted)
    /\ \A i \in DOMAIN accepted, j \in DOMAIN queue :
           accepted[i].scope = "project" => queue[j].scope = "project"
    /\ Compatible(accepted)
    /\ phase = "ready" => registry = RegistryOf(accepted)

NamesIn(list) == UNION {EnabledNames(list[i]) : i \in DOMAIN list}

LEMMA ListDomain ==
    ASSUME NEW list, IsList(list)
    PROVE  Len(list) \in Nat /\ DOMAIN list = 1..Len(list)
  BY DEF IsList

\* The last plugin with a tool of that name.
LEMMA LastHasName ==
    ASSUME NEW list, IsList(list), NEW name \in NamesIn(list)
    PROVE  \E m \in DOMAIN list :
              /\ LastWith(list, name) = list[m] /\ name \in EnabledNames(list[m])
              /\ \A i \in DOMAIN list : name \in EnabledNames(list[i]) => i <= m
  <1> DEFINE having == {i \in DOMAIN list : name \in EnabledNames(list[i])}
  <1>1. Len(list) \in Nat /\ having \subseteq 1..Len(list) /\ having # {}
    BY ListDomain DEF NamesIn
  <1>2. Max(having) \in having /\ \A i \in having : i <= Max(having)
    <2> HIDE DEF having
    <2> QED BY <1>1, MaxOf
  <1>3. LastWith(list, name) = list[Max(having)]
    BY DEF LastWith
  <1> QED
    BY <1>2, <1>3

LEMMA NamesNotReserved ==
    ASSUME NEW list, Compatible(list)
    PROVE  NamesIn(list) \cap BuiltIns = {}
  <1>1. ASSUME NEW i \in DOMAIN list, NEW name \in EnabledNames(list[i]) PROVE name \notin BuiltIns
    BY <1>1 DEF Compatible, ReservesBuiltIn, EnabledNames, Enabled
  <1> QED
    BY <1>1 DEF NamesIn

LEMMA RegistryParts ==
    ASSUME NEW list, Compatible(list), NEW reg, reg = RegistryOf(list)
    PROVE  /\ DOMAIN reg.tools = BuiltIns \cup NamesIn(list)
           /\ \A name \in BuiltIns : reg.tools[name] = BuiltIn
           /\ \A name \in NamesIn(list) :
                  reg.tools[name] = Registration(LastWith(list, name), name)
           /\ reg.advertised = {[name |-> name, from |-> reg.tools[name]] : name \in DOMAIN reg.tools}
  <1> DEFINE tools == ToolsOf(list)
             names == NamesIn(list)
  <1>1. reg.tools = tools /\ reg.advertised = Advertised(list)
    BY DEF RegistryOf
  <1>2. tools = [name \in BuiltIns \cup names |->
                    IF name \in BuiltIns THEN BuiltIn ELSE Registration(LastWith(list, name), name)]
    BY DEF ToolsOf, NamesIn
  <1>3. Advertised(list) =
           {[name |-> name, from |-> BuiltIn] : name \in BuiltIns}
           \cup {[name |-> name, from |-> Registration(LastWith(list, name), name)] : name \in names}
    BY DEF Advertised, NamesIn
  <1>4. names \cap BuiltIns = {}
    BY NamesNotReserved
  <1> HIDE DEF tools, names
  <1>5. /\ DOMAIN tools = BuiltIns \cup names
        /\ \A name \in BuiltIns : tools[name] = BuiltIn
        /\ \A name \in names : tools[name] = Registration(LastWith(list, name), name)
    BY <1>2, <1>4
  <1>6. Advertised(list) = {[name |-> name, from |-> tools[name]] : name \in DOMAIN tools}
    BY <1>3, <1>5
  <1> QED
    BY <1>1, <1>5, <1>6 DEF names

LEMMA NamesAreFinite ==
    ASSUME NEW list, ArePlugins(list)
    PROVE  IsFiniteSet(BuiltIns \cup NamesIn(list))
  <1>1. ASSUME NEW i \in DOMAIN list PROVE IsFiniteSet(EnabledNames(list[i]))
    <2> DEFINE its == list[i].manifest.tools
               named == [k \in 1..Len(its) |-> its[k].name]
               all == {named[k] : k \in 1..Len(its)}
    <2>1. list[i].manifest \in Manifests
      BY DEF ArePlugins, IsPlugin
    <2>2. IsList(its)
      BY <2>1, CatalogAssumption
    <2>3. Len(its) \in Nat /\ DOMAIN its = 1..Len(its)
      BY <2>2, ListDomain
    <2>4. EnabledNames(list[i]) \subseteq all
      BY <2>3 DEF EnabledNames, Enabled, ToSet
    <2>5. DOMAIN named = 1..Len(its)
      OBVIOUS
    <2> HIDE DEF its, named
    <2>6. IsFiniteSet(all)
      BY <2>3, <2>5, ListIsFinite
    <2> HIDE DEF all
    <2> QED BY <2>4, <2>6, FS_Subset
  <1> DEFINE n == Len(list)
             each == [i \in 1..n |-> EnabledNames(list[i])]
             families == {each[i] : i \in 1..n}
  <1>2. n \in Nat /\ DOMAIN list = 1..n /\ DOMAIN each = 1..n
    BY ListDomain DEF ArePlugins
  <1>3. NamesIn(list) = UNION families /\ \A family \in families : IsFiniteSet(family)
    BY <1>1, <1>2 DEF NamesIn
  <1> HIDE DEF each, n
  <1>4. IsFiniteSet(families)
    BY <1>2, ListIsFinite
  <1> HIDE DEF families
  <1>5. IsFiniteSet(NamesIn(list))
    BY <1>3, <1>4, FS_UNION
  <1>6. IsFiniteSet(BuiltIns)
    <2>1. \A a, b, c, d, e : IsFiniteSet({a, b, c, d, e})
      <3> TAKE a, b, c, d, e
      <3>1. IsFiniteSet({a})
        BY FS_Singleton
      <3>2. IsFiniteSet({a} \cup {b})
        BY <3>1, FS_AddElement
      <3>3. IsFiniteSet(({a} \cup {b}) \cup {c})
        BY <3>2, FS_AddElement
      <3>4. IsFiniteSet((({a} \cup {b}) \cup {c}) \cup {d})
        BY <3>3, FS_AddElement
      <3>5. IsFiniteSet(((({a} \cup {b}) \cup {c}) \cup {d}) \cup {e})
        BY <3>4, FS_AddElement
      <3>6. {a, b, c, d, e} = ((({a} \cup {b}) \cup {c}) \cup {d}) \cup {e}
        OBVIOUS
      <3> QED BY <3>5, <3>6
    <2> QED BY <2>1 DEF BuiltIns
  <1> QED
    BY <1>5, <1>6, FS_Union

LEMMA OnePerTool ==
    ASSUME NEW tools, IsFiniteSet(DOMAIN tools)
    PROVE  Cardinality({[name |-> name, from |-> tools[name]] : name \in DOMAIN tools})
           = Cardinality(DOMAIN tools)
  <1> DEFINE D == DOMAIN tools
             entry(name) == [name |-> name, from |-> tools[name]]
             T == {entry(name) : name \in D}
             f == [name \in D |-> entry(name)]
  <1>1. \A a, b \in D : entry(a) = entry(b) => a = b
    OBVIOUS
  <1> HIDE DEF D, entry
  <1>2. f \in Bijection(D, T)
    BY <1>1 DEF Bijection, Injection, Surjection, IsInjective
  <1> HIDE DEF T, f
  <1>3. Cardinality(T) = Cardinality(D)
    BY <1>2, FS_Bijection DEF ExistsBijection, D
  <1> QED
    BY <1>3 DEF T, entry, D

\* What the agent explore may use: three built-in tools, whatever else there is.
LEMMA ExploreReads ==
    \A name : Permitted(ExploreRules, name) <=> name \in {<<"read">>, <<"glob">>, <<"grep">>}
  <1> TAKE name
  <1> DEFINE exact(tool) == [kind |-> "exact", name |-> <<tool>>]
  <1>1. \A tool : Matches(exact(tool), name) <=> name = <<tool>>
    <2> TAKE tool
    <2>1. exact(tool).kind = "exact" /\ exact(tool).name = <<tool>>
      OBVIOUS
    <2> HIDE DEF exact
    <2> QED BY <2>1 DEF Matches
  <1>2. /\ ExploreRules.allowed = {exact(tool) : tool \in {"read", "glob", "grep"}}
        /\ ExploreRules.denied = {exact("task")}
    BY DEF ExploreRules
  <1> HIDE DEF exact
  <1>3. Permitted(ExploreRules, name) <=>
           /\ name # <<"task">>
           /\ \E tool \in {"read", "glob", "grep"} : name = <<tool>>
    <2>1. ExploreRules.allowed # {}
      BY <1>2
    <2> QED BY <1>1, <1>2, <2>1 DEF Permitted
  <1>4. <<"read">> # <<"task">> /\ <<"glob">> # <<"task">> /\ <<"grep">> # <<"task">>
    OBVIOUS
  <1> QED
    BY <1>3, <1>4

LEMMA ServedProperty ==
    ASSUME IInv, ServInv, phase = "ready"
    PROVE  AdvertisedIsServed
  <1> DEFINE tools == registry.tools
  <1>1. ArePlugins(accepted) /\ IsList(accepted) /\ Compatible(accepted) /\ InScopeOrder(accepted)
        /\ registry = RegistryOf(accepted)
    BY DEF ServInv, ArePlugins
  <1>2. /\ DOMAIN tools = BuiltIns \cup NamesIn(accepted)
        /\ \A name \in BuiltIns : tools[name] = BuiltIn
        /\ \A name \in NamesIn(accepted) :
               tools[name] = Registration(LastWith(accepted, name), name)
        /\ registry.advertised = {[name |-> name, from |-> tools[name]] : name \in DOMAIN tools}
    BY <1>1, RegistryParts
  <1> HIDE DEF tools
  <1>3. \A i \in DOMAIN accepted : \A name \in EnabledNames(accepted[i]) : name \in NamesIn(accepted)
    BY DEF NamesIn
  <1>4. ASSUME NEW i \in DOMAIN accepted, NEW name \in EnabledNames(accepted[i])
        PROVE  \/ tools[name] = Registration(accepted[i], name)
               \/ accepted[i].scope = "global" /\ tools[name].source = "project"
    <2>1. name \in NamesIn(accepted)
      BY <1>3
    <2>2. PICK m \in DOMAIN accepted :
              /\ LastWith(accepted, name) = accepted[m] /\ name \in EnabledNames(accepted[m])
              /\ \A k \in DOMAIN accepted : name \in EnabledNames(accepted[k]) => k <= m
      BY <1>1, <2>1, LastHasName
    <2>3. tools[name] = Registration(accepted[m], name)
      BY <1>2, <2>1, <2>2
    <2>4. CASE m = i
      BY <2>3, <2>4
    <2>5. CASE m # i
      <3>1. i < m
        BY <1>1, <2>2, <2>5, ListDomain
      <3>2. ~Collide(accepted[i], accepted[m])
        BY <1>1, <3>1 DEF Compatible
      <3>3. accepted[i].scope # accepted[m].scope
        BY <2>2, <3>2 DEF Collide
      <3>4. /\ accepted[i].scope = "project" => accepted[m].scope = "project"
            /\ accepted[i].scope \in {"global", "project"} /\ accepted[m].scope \in {"global", "project"}
        BY <1>1, <3>1 DEF InScopeOrder, ArePlugins, IsPlugin
      <3>5. accepted[i].scope = "global" /\ accepted[m].scope = "project"
        BY <3>3, <3>4
      <3> QED BY <2>3, <3>5 DEF Registration
    <2> QED BY <2>4, <2>5
  <1>5. ProjectWins
    BY <1>4 DEF ProjectWins, ToSet, tools
  <1>6. \A entry \in registry.advertised : tools[entry.name] = entry.from
    BY <1>2
  <1>7. Cardinality(registry.advertised) = Cardinality(DOMAIN tools)
    <2>1. IsFiniteSet(DOMAIN tools)
      BY <1>1, <1>2, NamesAreFinite
    <2> QED BY <1>2, <2>1, OnePerTool
  <1>8. ASSUME NEW name \in DOMAIN tools PROVE \E entry \in registry.advertised : entry.name = name
    <2>1. [name |-> name, from |-> tools[name]] \in registry.advertised
      BY <1>2
    <2> QED BY <2>1
  <1>9. ASSUME NEW name \in NamesIn(accepted)
        PROVE  \E m \in DOMAIN accepted :
                  name \in EnabledNames(accepted[m]) /\ tools[name] = Registration(accepted[m], name)
    BY <1>1, <1>2, <1>9, LastHasName
  <1>10. ASSUME NEW name \in DOMAIN tools, edits = 0 PROVE Answers(name)
    <2>1. Builds(accepted)
      BY <1>10 DEF IInv, ServInv
    <2>2. CASE name \in BuiltIns
      BY <1>2, <2>2 DEF Answers, tools
    <2>3. CASE name \in NamesIn(accepted)
      <3>1. PICK m \in DOMAIN accepted : tools[name] = Registration(accepted[m], name)
        BY <1>9, <2>3
      <3>2. tools[name].root = accepted[m].root /\ tools[name].slot = accepted[m].slot
        BY <3>1 DEF Registration
      <3>3. Loads(accepted[m])
        BY <2>1 DEF Builds, Executable
      <3> QED BY <1>10, <3>2, <3>3 DEF Answers, Loads, Component, tools
    <2> QED BY <1>2, <2>2, <2>3
  <1>11. ASSUME NEW name \in DOMAIN tools, PolicyOf(name).default = "allow"
         PROVE  \E plugin \in ToSet(accepted) : \E tool \in Enabled(plugin) :
                    tool.name = name /\ ~tool.asks
    <2>1. tools[name] # BuiltIn /\ ~tools[name].asks
      BY <1>11 DEF PolicyOf, tools
    <2>2. PICK m \in DOMAIN accepted :
              name \in EnabledNames(accepted[m]) /\ tools[name] = Registration(accepted[m], name)
      BY <1>2, <1>9, <2>1
    <2>3. ~\E tool \in Enabled(accepted[m]) : tool.name = name /\ tool.asks
      BY <2>1, <2>2 DEF Registration
    <2>4. PICK tool \in Enabled(accepted[m]) : tool.name = name
      BY <2>2 DEF EnabledNames
    <2> QED BY <2>3, <2>4 DEF ToSet
  <1>12. {entry.name : entry \in OfferedTo(ExploreRules)} = {<<"read">>, <<"glob">>, <<"grep">>}
    <2> DEFINE three == {<<"read">>, <<"glob">>, <<"grep">>}
               offered == OfferedTo(ExploreRules)
    <2>1. three \subseteq DOMAIN tools
      BY <1>2 DEF BuiltIns
    <2>2. offered = {entry \in registry.advertised : entry.name \in three}
      BY ExploreReads DEF OfferedTo
    <2>3. \A name \in three : \E entry \in registry.advertised : entry.name = name
      BY <1>8, <2>1
    <2> HIDE DEF three, offered
    <2>4. {entry.name : entry \in offered} = three
      BY <2>2, <2>3
    <2> QED BY <2>4 DEF three, offered
  <1> QED
    BY <1>5, <1>6, <1>7, <1>8, <1>10, <1>11, <1>12 DEF AdvertisedIsServed, tools

LEMMA InitServ == Init => ServInv
  <1> SUFFICES ASSUME Init PROVE ServInv
    OBVIOUS
  <1>1. PICK roots : disk \in [roots -> [Slots -> {[manifest |-> manifest, component |-> "shipped"] :
                                                       manifest \in Manifests} \cup {Nothing}]]
    BY DEF Init
  <1>2. {[manifest |-> manifest, component |-> "shipped"] : manifest \in Manifests} \subseteq Place
    BY DEF Place
  <1>3. disk \in [DOMAIN disk -> [Slots -> Place \cup {Nothing}]]
    BY <1>1, <1>2
  <1>4. queue = <<>> /\ accepted = <<>> /\ changed = FALSE /\ edits = 0 /\ phase = "off"
    BY DEF Init
  <1> QED
    BY <1>3, <1>4 DEF ServInv, ArePlugins, IsList, ToSet, InScopeOrder, Compatible

\* A directory gives a list of plugins of its scope.
LEMMA FoundList ==
    ASSUME disk \in [DOMAIN disk -> [Slots -> Place \cup {Nothing}]],
           NEW root, NEW scope \in {"global", "project"}
    PROVE  ArePlugins(FoundIn(root, scope))
           /\ \A i \in DOMAIN FoundIn(root, scope) : FoundIn(root, scope)[i].scope = scope
  <1> DEFINE found == {slot \in Slots : /\ root \in DOMAIN disk
                                        /\ disk[root][slot] # Nothing
                                        /\ WellFormedManifest(disk[root][slot].manifest)}
             order == InOrder(found)
             n == Len(order)
             at(i) == [scope |-> scope, root |-> root, slot |-> order[i],
                       manifest |-> disk[root][order[i]].manifest]
             F == FoundIn(root, scope)
  <1>1. found \subseteq Slots /\ \A slot \in found : disk[root][slot].manifest \in Manifests
    BY DEF Place
  <1>2. order \in Seq(found)
    <2>1. found \subseteq Nat /\ IsFiniteSet(found)
      BY <1>1, CatalogAssumption, FS_Subset
    <2> HIDE DEF found
    <2> QED BY <2>1, InOrderLists
  <1>3. F = [i \in DOMAIN order |-> at(i)]
    BY DEF FoundIn
  <1> HIDE DEF found, order
  <1>4. n \in Nat /\ DOMAIN order = 1..n /\ \A i \in 1..n : order[i] \in found
    BY <1>2
  <1>5. \A i \in 1..n : at(i).scope = scope /\ at(i).manifest \in Manifests
    BY <1>1, <1>4
  <1> HIDE DEF at, F, n
  <1>6. F = [i \in 1..n |-> at(i)] /\ DOMAIN F = 1..n
    BY <1>3, <1>4
  <1>7. IsList(F)
    <2>1. \A i \in 1..n : at(i) \in ToSet(F)
      BY <1>6 DEF ToSet
    <2> QED BY <1>4, <1>6, <2>1 DEF IsList
  <1> QED
    BY <1>5, <1>6, <1>7 DEF ArePlugins, IsPlugin, F

LEMMA JoinedAt ==
    ASSUME NEW s, IsList(s), NEW t, IsList(t)
    PROVE  /\ IsList(s \o t)
           /\ \A i \in DOMAIN (s \o t) :
                 \/ i \in DOMAIN s /\ (s \o t)[i] = s[i]
                 \/ i > Len(s) /\ i - Len(s) \in DOMAIN t /\ (s \o t)[i] = t[i - Len(s)]
  <1> DEFINE S == ToSet(s) \cup ToSet(t)
             u == s \o t
  <1>1. /\ Len(s) \in Nat /\ DOMAIN s = 1..Len(s)
        /\ Len(t) \in Nat /\ DOMAIN t = 1..Len(t)
    BY ListDomain
  <1>2. s \in Seq(S) /\ t \in Seq(S)
    BY SmallerSeq DEF IsList
  <1> HIDE DEF S
  <1>3. /\ u \in Seq(S) /\ Len(u) = Len(s) + Len(t)
        /\ \A i \in 1..Len(s) + Len(t) : u[i] = IF i <= Len(s) THEN s[i] ELSE t[i - Len(s)]
    BY <1>2, ConcatProperties
  <1> HIDE DEF u
  <1>4. IsList(u)
    BY <1>1, JoinedList DEF u
  <1>5. DOMAIN u = 1..(Len(s) + Len(t))
    BY <1>3
  <1>6. \A i \in DOMAIN u : \/ i \in DOMAIN s /\ u[i] = s[i]
                            \/ i > Len(s) /\ i - Len(s) \in DOMAIN t /\ u[i] = t[i - Len(s)]
    BY <1>1, <1>3, <1>5
  <1> QED
    BY <1>4, <1>6 DEF u

LEMMA DiscoveredList ==
    ASSUME disk \in [DOMAIN disk -> [Slots -> Place \cup {Nothing}]]
    PROVE  ArePlugins(Discovered) /\ InScopeOrder(Discovered)
  <1> DEFINE first == IF config.plugins.global THEN FoundIn(config.plugins.globalDir, "global") ELSE <<>>
             second == IF config.plugins.project THEN FoundIn(config.plugins.projectDir, "project") ELSE <<>>
             all == Discovered
  <1>1. ArePlugins(<<>>)
    BY DEF ArePlugins, IsList, ToSet
  <1>2. ArePlugins(first) /\ \A i \in DOMAIN first : first[i].scope = "global"
    BY <1>1, FoundList
  <1>3. ArePlugins(second) /\ \A i \in DOMAIN second : second[i].scope = "project"
    BY <1>1, FoundList
  <1>4. all = first \o second
    BY DEF Discovered
  <1> HIDE DEF first, second, all
  <1>5. /\ IsList(all)
        /\ \A i \in DOMAIN all :
                 \/ i \in DOMAIN first /\ all[i] = first[i]
                 \/ i > Len(first) /\ i - Len(first) \in DOMAIN second /\ all[i] = second[i - Len(first)]
    BY <1>2, <1>3, <1>4, JoinedAt DEF ArePlugins
  <1>6. ArePlugins(all)
    BY <1>2, <1>3, <1>5 DEF ArePlugins
  <1>7. InScopeOrder(all)
    <2> SUFFICES ASSUME NEW i \in DOMAIN all, NEW j \in DOMAIN all, i < j, all[i].scope = "project"
                 PROVE  all[j].scope = "project"
      BY DEF InScopeOrder
    <2>1. i > Len(first)
      BY <1>2, <1>5
    <2>2. j \notin DOMAIN first
      <3>1. DOMAIN first = 1..Len(first) /\ Len(first) \in Nat /\ DOMAIN all = 1..Len(all)
        BY <1>2, <1>5, ListDomain DEF ArePlugins
      <3> QED BY <2>1, <3>1
    <2> QED BY <1>3, <1>5, <2>2
  <1> QED
    BY <1>6, <1>7 DEF all

LEMMA TailList ==
    ASSUME NEW list, IsList(list), list # <<>>
    PROVE  /\ IsList(Tail(list)) /\ 1 \in DOMAIN list /\ Head(list) = list[1]
           /\ \A i \in DOMAIN Tail(list) : i + 1 \in DOMAIN list /\ Tail(list)[i] = list[i + 1] /\ i \in Nat
                                           /\ 1 < i + 1
  <1> DEFINE rest == Tail(list)
  <1>1. /\ Len(list) \in Nat \ {0} /\ DOMAIN list = 1..Len(list)
        /\ rest \in Seq(ToSet(list)) /\ Len(rest) = Len(list) - 1
        /\ \A i \in 1..Len(rest) : rest[i] = list[i + 1]
        /\ Head(list) = list[1]
    BY DEF IsList
  <1> HIDE DEF rest
  <1>2. DOMAIN rest = 1..Len(rest) /\ Len(rest) \in Nat
    BY <1>1
  <1>3. IsList(rest)
    <2>1. \A i \in 1..Len(rest) : rest[i] \in ToSet(rest)
      BY <1>2 DEF ToSet
    <2> QED BY <1>1, <1>2, <2>1 DEF IsList
  <1> QED
    BY <1>1, <1>2, <1>3 DEF rest

\* The registry and what is compatible do not depend on the disk.
LEMMA ConsiderKeepsServ ==
    ASSUME ServInv, Consider
    PROVE  ServInv'
  <1> DEFINE plugin == Head(queue)
             more == Append(accepted, plugin)
  <1>1. /\ UNCHANGED <<disk, phase, registry, changed, edits>> /\ phase = "discovered"
        /\ queue # <<>> /\ queue' = Tail(queue)
        /\ (Builds(more) /\ accepted' = more) \/ UNCHANGED accepted
    BY DEF Consider
  <1>2. /\ IsList(queue') /\ 1 \in DOMAIN queue /\ plugin = queue[1]
        /\ \A i \in DOMAIN queue' : i + 1 \in DOMAIN queue /\ queue'[i] = queue[i + 1] /\ i \in Nat
                                    /\ 1 < i + 1
    BY <1>1, TailList DEF ServInv, ArePlugins
  <1> HIDE DEF plugin
  <1>3. ArePlugins(queue') /\ InScopeOrder(queue')
    <2>1. ArePlugins(queue')
      BY <1>2 DEF ServInv, ArePlugins
    <2>2. ASSUME NEW i \in DOMAIN queue', NEW j \in DOMAIN queue', i < j, queue'[i].scope = "project"
          PROVE  queue'[j].scope = "project"
      <3>1. i + 1 < j + 1 /\ queue[i + 1].scope = "project"
        BY <1>2, <2>2
      <3> QED BY <1>2, <3>1 DEF ServInv, InScopeOrder
    <2> QED BY <2>1, <2>2 DEF InScopeOrder
  <1>4. plugin.scope = "project" => \A j \in DOMAIN queue' : queue'[j].scope = "project"
    BY <1>2 DEF ServInv, InScopeOrder
  <1>5. ASSUME UNCHANGED accepted PROVE ServInv'
    <2>1. \A i \in DOMAIN accepted, j \in DOMAIN queue' :
              accepted[i].scope = "project" => queue'[j].scope = "project"
      BY <1>2 DEF ServInv
    <2>2. /\ (disk \in [DOMAIN disk -> [Slots -> Place \cup {Nothing}]])'
          /\ edits' \in Nat /\ (edits' = 0 => ~changed') /\ phase' # "ready"
      BY <1>1 DEF ServInv
    <2>3. ArePlugins(accepted') /\ InScopeOrder(accepted') /\ Compatible(accepted')
      BY <1>5 DEF ServInv
    <2> QED BY <1>3, <1>5, <2>1, <2>2, <2>3 DEF ServInv
  <1>6. ASSUME Builds(more), accepted' = more PROVE ServInv'
    <2>1. accepted \in Seq(ToSet(accepted))
      BY DEF ServInv, ArePlugins, IsList
    <2>2. /\ more \in Seq(ToSet(more))
          /\ \A i \in DOMAIN more : (i \in DOMAIN accepted /\ more[i] = accepted[i])
                                   \/ (i = Len(accepted) + 1 /\ more[i] = plugin)
          /\ DOMAIN accepted = 1..Len(accepted) /\ Len(accepted) \in Nat
      <3>1. more = Append(accepted, plugin)
        OBVIOUS
      <3> HIDE DEF more
      <3>2. more \in Seq(ToSet(more))
        BY <2>1, <3>1, AppendedPlugins
      <3>3. \A i \in DOMAIN more : (i \in DOMAIN accepted /\ more[i] = accepted[i])
                                   \/ (i = Len(accepted) + 1 /\ more[i] = plugin)
        BY <2>1, <3>1, AppendedPlugins
      <3>4. DOMAIN accepted = 1..Len(accepted) /\ Len(accepted) \in Nat
        BY <2>1, <3>1, AppendedPlugins
      <3> QED BY <3>2, <3>3, <3>4
    <2> HIDE DEF more
    <2>3. ArePlugins(more)
      BY <1>2, <2>2 DEF ServInv, ArePlugins, IsList
    <2>4. InScopeOrder(more)
      <3> SUFFICES ASSUME NEW i \in DOMAIN more, NEW j \in DOMAIN more, i < j, more[i].scope = "project"
                   PROVE  more[j].scope = "project"
        BY DEF InScopeOrder
      <3>1. i \in DOMAIN accepted /\ more[i] = accepted[i]
        BY <2>2
      <3> QED BY <1>2, <2>2, <3>1 DEF ServInv, InScopeOrder
    <2>5. \A i \in DOMAIN more, j \in DOMAIN queue' :
              more[i].scope = "project" => queue'[j].scope = "project"
      BY <1>2, <1>4, <2>2 DEF ServInv
    <2>6. Compatible(more)
      BY <1>6 DEF Builds, Compatible
    <2>7. /\ (disk \in [DOMAIN disk -> [Slots -> Place \cup {Nothing}]])'
          /\ edits' \in Nat /\ (edits' = 0 => ~changed') /\ phase' # "ready"
      BY <1>1 DEF ServInv
    <2>8. Compatible(accepted')
      BY <1>6, <2>6
    <2>9. ArePlugins(accepted') /\ InScopeOrder(accepted')
      BY <1>6, <2>3, <2>4
    <2>10. \A i \in DOMAIN accepted', j \in DOMAIN queue' :
               accepted'[i].scope = "project" => queue'[j].scope = "project"
      BY <1>6, <2>5
    <2> QED BY <1>3, <2>7, <2>8, <2>9, <2>10 DEF ServInv, Compatible, ReservesBuiltIn, Collide, EnabledNames, Enabled
  <1> QED
    BY <1>1, <1>5, <1>6

LEMMA NextKeepsServ ==
    ASSUME IInv, ServInv, [Next]_vars
    PROVE  ServInv'
  <1>1. ASSUME UNCHANGED <<disk, edits, changed, queue, accepted>>,
               phase' = "ready" => registry' = RegistryOf(accepted)
        PROVE  ServInv'
    <2>1. ArePlugins(accepted') /\ InScopeOrder(accepted') /\ Compatible(accepted')
      BY <1>1 DEF ServInv
    <2>2. ArePlugins(queue') /\ InScopeOrder(queue')
      BY <1>1 DEF ServInv
    <2> QED BY <1>1, <2>1, <2>2 DEF ServInv
  <1>2. CASE Configure
    BY <1>1, <1>2 DEF Configure, Configured
  <1>3. CASE Discover
    <2>1. /\ queue' = Discovered /\ accepted = <<>> /\ phase' = "discovered"
          /\ UNCHANGED <<disk, edits, changed, accepted>>
      BY <1>3 DEF Discover, IInv, Early
    <2>2. disk \in [DOMAIN disk -> [Slots -> Place \cup {Nothing}]]
      BY DEF ServInv
    <2>3. ArePlugins(queue') /\ InScopeOrder(queue')
      BY <2>1, <2>2, DiscoveredList
    <2>4. DOMAIN accepted' = {}
      BY <2>1
    <2> QED BY <2>1, <2>3, <2>4 DEF ServInv, Compatible, ReservesBuiltIn, Collide, EnabledNames, Enabled
  <1>4. CASE Consider
    BY <1>4, ConsiderKeepsServ
  <1>5. CASE Build
    BY <1>1, <1>5 DEF Build
  <1>6. CASE Stop
    <2>1. /\ queue' = <<>> /\ accepted' = <<>> /\ phase' = "off" /\ changed' = FALSE
          /\ UNCHANGED <<disk, edits>>
      BY <1>6 DEF Stop, Off
    <2> QED BY <2>1 DEF ServInv, ArePlugins, IsList, ToSet, InScopeOrder, Compatible
  <1>7. ASSUME NEW root \in DOMAIN disk, NEW slot \in Slots, Edit(root, slot) PROVE ServInv'
    <2>1. /\ disk[root][slot] # Nothing
          /\ \E component \in {"shipped", "rebuilt", "damaged"} :
                 disk' = [disk EXCEPT ![root][slot].component = component]
          /\ edits' = edits + 1 /\ UNCHANGED <<phase, queue, accepted, registry>>
      BY <1>7 DEF Edit
    <2>2. PICK component \in {"shipped", "rebuilt", "damaged"} :
              disk' = [disk EXCEPT ![root][slot].component = component]
      BY <2>1
    <2>3. disk[root][slot] \in Place
      BY <2>1 DEF ServInv
    <2> DEFINE new == [disk[root][slot] EXCEPT !.component = component]
               row == [disk[root] EXCEPT ![slot] = new]
    <2>4. new \in Place
      BY <2>3 DEF Place
    <2>5. disk' = [disk EXCEPT ![root] = row]
      BY <2>2
    <2> HIDE DEF new
    <2>6. row \in [Slots -> Place \cup {Nothing}]
      BY <2>4 DEF ServInv
    <2> HIDE DEF row
    <2>7. (disk \in [DOMAIN disk -> [Slots -> Place \cup {Nothing}]])'
      BY <2>5, <2>6 DEF ServInv
    <2>8. edits' \in Nat /\ edits' # 0
      BY <2>1 DEF ServInv
    <2>9. RegistryOf(accepted)' = RegistryOf(accepted)
      BY <2>1 DEF RegistryOf, ToolsOf, Advertised, LastWith, Registration, EnabledNames, Enabled
    <2>10. ArePlugins(accepted') /\ InScopeOrder(accepted') /\ Compatible(accepted')
      BY <2>1 DEF ServInv
    <2>11. ArePlugins(queue') /\ InScopeOrder(queue')
      BY <2>1 DEF ServInv
    <2> QED BY <2>1, <2>7, <2>8, <2>9, <2>10, <2>11 DEF ServInv
  <1>8. CASE UNCHANGED vars
    BY <1>1, <1>8 DEF vars, ServInv
  <1> QED
    BY <1>2, <1>3, <1>4, <1>5, <1>6, <1>7, <1>8 DEF Next

\* For any plugins in any directories, accepted in any order: the tools the model is
\* told of are the tools that run, each once and judged as it is served, a project's
\* plugin wins over a global one (PLUGIN_AUTHORS.md), and what was served answers
\* while no component changes. The invariant is that global plugins come before the
\* project's and that the accepted ones are compatible.
THEOREM ServedAsAdvertised == Spec => []AdvertisedIsServed
  <1>1. Init => IInv /\ ServInv
    BY InitInv, InitServ
  <1>2. IInv /\ ServInv /\ [Next]_vars => IInv' /\ ServInv'
    BY NextPreserves, NextKeepsServ
  <1>3. IInv /\ ServInv => AdvertisedIsServed
    <2>1. phase # "ready" => AdvertisedIsServed
      BY DEF AdvertisedIsServed
    <2> QED BY <2>1, ServedProperty
  <1> QED
    BY <1>1, <1>2, <1>3, PTL DEF Spec
=============================================================================
