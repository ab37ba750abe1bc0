------------------------------- MODULE Plugins -------------------------------
(***************************************************************************)
(* Plugins of the engine: their registry with discovery, dependencies and   *)
(* life cycle (engine/plugin_registry.py, engine/plugin.py), the language   *)
(* model providers that are plugins too (src/plugins/llm_*.py,              *)
(* engine/llm_base.py), and the registry of providers that routes requests  *)
(* (engine/llm_registry.py).  One thread calls it, one call at a time; any  *)
(* hook of a plugin may raise.                                              *)
(***************************************************************************)
EXTENDS Naturals, FiniteSets, SequencesExt, Subsequences

CONSTANTS
  PluginId,    \* ids of plugins
  Provider,    \* the ones that are language model providers
  NoPlugin,
  DepGraphs,   \* the manifests that are considered: sequences of ids, by id and version
  MaxRelease,  \* bound: versions of a plugin
  MaxEdits,    \* bound: changes of the search paths
  MaxHooks     \* bound: registrations of a plugin's hooks that are told apart

ASSUME PluginsAssumption ==
  /\ IsFiniteSet(PluginId) /\ Provider \subseteq PluginId /\ NoPlugin \notin PluginId
  /\ \A g \in DepGraphs : g \in [PluginId -> [1..MaxRelease -> Seq(PluginId)]]
  /\ MaxRelease \in Nat \ {0} /\ MaxEdits \in Nat /\ MaxHooks \in Nat

VARIABLES
  deps,       \* dependencies in the manifests, by id and version
  onDisk,     \* the version of each plugin in the search paths, 0 if there is none
  catalog,    \* the keys of _plugins, in the order of the dictionary
  plug,       \* status and version of a plugin, and whether its instance is set up
  order,      \* _sorted_order
  asOf,       \* the dependencies it was made from
  installed,  \* plugins installed since it was made
  hookCount,  \* how often the hooks of a plugin were registered
  providers,  \* the keys of _providers, in the order of the dictionary
  dflt,       \* _default of the provider registry
  usage,      \* _usage: successes and failures of a provider
  reachable,  \* the providers whose service answers
  edits,
  tried       \* the providers the last complete() tried, and the one that answered

llmVars == <<providers, dflt, usage, reachable, tried>>
orderVars == <<order, asOf, installed>>
pluginVars == <<deps, onDisk, catalog, plug, orderVars, hookCount, edits, llmVars>>

NotThere == [status |-> "disabled", version |-> 0, active |-> FALSE]
NoUse == [ok |-> 0, failed |-> 0]
NothingTried == [by |-> {}, answer |-> NoPlugin]

PluginsInit ==
  /\ deps \in DepGraphs /\ onDisk = [p \in PluginId |-> 1]
  /\ catalog = <<>> /\ plug = [p \in PluginId |-> NotThere]
  /\ order = <<>> /\ asOf = [p \in PluginId |-> <<>>] /\ installed = {}
  /\ hookCount = [p \in PluginId |-> 0] /\ edits = 0
  /\ providers = <<>> /\ dflt = NoPlugin /\ usage = [p \in {} |-> NoUse]
  /\ reachable = {} /\ tried = NothingTried

-----------------------------------------------------------------------------
\* resolve_dependencies: a depth first search from every plugin

\* Variant: a plugin comes before what it depends on.
ResolvedEarly(ids, needs) ==
  LET Early[s \in Seq(PluginId), ps \in Seq(PluginId)] ==
        IF ps = <<>> THEN s
        ELSE LET p == Head(ps)
                 skip == p \in ToSet(s) \/ p \notin ToSet(ids)
             IN  Early[IF skip THEN s ELSE Early[Append(s, p), needs[p]], Tail(ps)]
  IN  Early[<<>>, ids]

\* Visited[s, ps, path] is s after a visit to each of ps: one that is not in s, on the path
\* to it or unknown is visited after what it depends on.
Resolved(ids, needs) ==
  LET Visited[s \in Seq(PluginId), ps \in Seq(PluginId), path \in SUBSET PluginId] ==
        IF ps = <<>> THEN s
        ELSE LET p == Head(ps)
                 skip == p \in ToSet(s) \/ p \in path \/ p \notin ToSet(ids)
             IN  Visited[IF skip THEN s ELSE Append(Visited[s, needs[p], path \cup {p}], p),
                         Tail(ps), path]
  IN  Visited[<<>>, ids, {}]

-----------------------------------------------------------------------------
\* PluginRegistry

Known == ToSet(catalog)
Has(p) == p \in Known

\* _register_class: a new id, or another version of a known one, gets a new instance.
IsNew(p) == onDisk[p] > 0 /\ (Has(p) => plug[p].version # onDisk[p])
\* Variant: the new instance takes over the status of the old one.
RegisteredAsBefore(p) == [status |-> plug[p].status, version |-> onDisk[p], active |-> FALSE]

Registered(p) == [status |-> "disabled", version |-> onDisk[p], active |-> FALSE]

\* The catalogue after the plugins of a sequence were registered
WithNew(ids, ps) == ids \o OnlyIn(ps, PluginId \ ToSet(ids))

\* _resolve, with the manifests there are after the step
Resolves ==
  /\ asOf' = [p \in PluginId |->
       IF p \in ToSet(catalog') THEN deps[p][plug'[p].version] ELSE <<>>]
  /\ order' = Resolved(catalog', asOf') /\ installed' = {}

\* discover: the files are met in any order.
Discover ==
  LET new == {p \in PluginId : IsNew(p)}
  IN  /\ \E ps \in SetToAllKPermutations(new) :
           Len(ps) = Cardinality(new) /\ catalog' = WithNew(catalog, ps)
      /\ plug' = [p \in PluginId |-> IF p \in new THEN Registered(p) ELSE plug[p]]
      /\ Resolves
      /\ UNCHANGED <<deps, onDisk, hookCount, edits, llmVars>>

\* enable: on_enable of a provider is a plain function, whose result cannot be awaited,
\* so that enabling one always ends as an error.
Enable(p) ==
  /\ Has(p) /\ plug[p].status # "enabled"
  /\ \E raises \in BOOLEAN :
       LET fails == raises \/ p \in Provider
       IN  /\ plug' = [plug EXCEPT ![p].status = IF fails THEN "error" ELSE "enabled",
                                   ![p].active = @ \/ ~raises]
           /\ hookCount' = [hookCount EXCEPT ![p] = IF fails \/ @ = MaxHooks THEN @ ELSE @ + 1]
  /\ UNCHANGED <<deps, onDisk, catalog, orderVars, edits, llmVars>>

\* disable: a raise leaves the status; hooks and providers stay registered.
Disabled(f, p, raises) ==
  IF f[p].status = "enabled" /\ ~raises
  THEN [f EXCEPT ![p].status = "disabled", ![p].active = FALSE] ELSE f

Disable(p) ==
  /\ Has(p)
  /\ \E raises \in BOOLEAN : plug' = Disabled(plug, p, raises)
  /\ UNCHANGED <<deps, onDisk, catalog, orderVars, hookCount, edits, llmVars>>

\* install from a source file: registered with the manifest of that version, but not ordered
Install(p) ==
  /\ IsNew(p)
  /\ catalog' = WithNew(catalog, <<p>>) /\ plug' = [plug EXCEPT ![p] = Registered(p)]
  /\ installed' = installed \cup {p}
  /\ UNCHANGED <<deps, onDisk, order, asOf, hookCount, edits, llmVars>>

\* Variant: the order keeps the plugin that was removed.
UninstallKeepsOrder(p) ==
  /\ Has(p)
  /\ catalog' = OnlyIn(catalog, PluginId \ {p})
  /\ plug' = [plug EXCEPT ![p] = NotThere]
  /\ UNCHANGED <<deps, onDisk, orderVars, hookCount, edits, llmVars>>

\* uninstall: disable() swallows its error, on_uninstall may raise and stop it.
Uninstall(p) ==
  /\ Has(p)
  /\ \E raises, stops \in BOOLEAN :
       IF stops
       THEN plug' = Disabled(plug, p, raises) /\ UNCHANGED <<catalog, order>>
       ELSE /\ catalog' = OnlyIn(catalog, PluginId \ {p})
            /\ plug' = [plug EXCEPT ![p] = NotThere]
            /\ order' = OnlyIn(order, PluginId \ {p})
  /\ UNCHANGED <<deps, onDisk, asOf, installed, hookCount, edits, llmVars>>

\* reload: disable, forget, discover again, and enable what was enabled
Reload(p) ==
  LET rest == OnlyIn(catalog, PluginId \ {p})
      new == {q \in PluginId : onDisk[q] > 0 /\ (q = p \/ IsNew(q))}
      was == Has(p) /\ plug[p].status = "enabled"
  IN  \E ps \in SetToAllKPermutations(new), raises \in BOOLEAN :
        /\ Len(ps) = Cardinality(new)
        /\ catalog' = WithNew(rest, ps)
        /\ plug' = [q \in PluginId |->
             IF q = p /\ was /\ onDisk[p] > 0
             THEN [Registered(p) EXCEPT !.status = IF raises \/ p \in Provider THEN "error" ELSE "enabled",
                                        !.active = ~raises]
             ELSE IF q \in new THEN Registered(q)
             ELSE IF q = p THEN NotThere ELSE plug[q]]
        /\ Resolves
        /\ hookCount' = [hookCount EXCEPT ![p] =
             IF plug'[p].status = "enabled" /\ @ < MaxHooks THEN @ + 1 ELSE @]
        /\ UNCHANGED <<deps, onDisk, edits, llmVars>>

\* shutdown: whatever on_disable does, nothing is enabled afterwards.
Shutdown ==
  /\ plug' = [p \in PluginId |->
       IF plug[p].status = "enabled" THEN [plug[p] EXCEPT !.status = "disabled", !.active = FALSE]
       ELSE [plug[p] EXCEPT !.status = "disabled"]]
  /\ UNCHANGED <<deps, onDisk, catalog, orderVars, hookCount, edits, llmVars>>

\* Somebody edits the search paths.
DiskEdited(p) ==
  /\ edits < MaxEdits /\ edits' = edits + 1
  /\ \E v \in 0..MaxRelease : v # onDisk[p] /\ onDisk' = [onDisk EXCEPT ![p] = v]
  /\ UNCHANGED <<deps, catalog, plug, orderVars, hookCount, llmVars>>

-----------------------------------------------------------------------------
\* LLMProviderRegistry

RegisterProvider(p, asDefault) ==
  /\ providers' = WithNew(providers, <<p>>)
  /\ usage' = [q \in DOMAIN usage \cup {p} |-> IF q = p THEN NoUse ELSE usage[q]]
  /\ dflt' = IF asDefault \/ dflt = NoPlugin THEN p ELSE dflt
  /\ UNCHANGED <<deps, onDisk, catalog, plug, orderVars, hookCount, edits, reachable, tried>>

\* Variant: the default is left.
UnregisterKeepsDefault(p) ==
  /\ providers' = OnlyIn(providers, Provider \ {p})
  /\ usage' = [q \in DOMAIN usage \ {p} |-> usage[q]]
  /\ UNCHANGED <<deps, onDisk, catalog, plug, orderVars, hookCount, edits, dflt, reachable, tried>>

UnregisterProvider(p) ==
  /\ providers' = OnlyIn(providers, Provider \ {p})
  /\ usage' = [q \in DOMAIN usage \ {p} |-> usage[q]]
  /\ dflt' = IF dflt # p THEN dflt ELSE IF providers' = <<>> THEN NoPlugin ELSE Head(providers')
  /\ UNCHANGED <<deps, onDisk, catalog, plug, orderVars, hookCount, edits, reachable, tried>>

\* complete of a provider: without a client it raises, and every error of the service
\* becomes an LLMProviderError.
Answers(p) == plug[p].active /\ p \in reachable

Counted(u, n) == [ok |-> IF n.ok /\ u.ok < 1 THEN u.ok + 1 ELSE u.ok,
                  failed |-> IF ~n.ok /\ u.failed < 1 THEN u.failed + 1 ELSE u.failed]

\* complete: the providers in the order of registration, wherever the default is,
\* up to the first that answers
Complete ==
  LET tries == {i \in 1..Len(providers) : \A j \in 1..(i - 1) : ~Answers(providers[j])}
      by == {providers[i] : i \in tries}
  IN  /\ tried' = [by |-> by,
                   answer |-> IF \E p \in by : Answers(p) THEN CHOOSE p \in by : Answers(p)
                              ELSE NoPlugin]
      /\ usage' = [p \in DOMAIN usage |-> IF p \in by THEN Counted(usage[p], [ok |-> Answers(p)])
                                          ELSE usage[p]]
      /\ UNCHANGED <<deps, onDisk, catalog, plug, orderVars, hookCount, edits, providers, dflt, reachable>>

ServiceChanges(p) ==
  /\ reachable' = IF p \in reachable THEN reachable \ {p} ELSE reachable \cup {p}
  /\ UNCHANGED <<deps, onDisk, catalog, plug, orderVars, hookCount, edits, providers, dflt, usage, tried>>

LifeCycleNext ==
  \/ Discover \/ Shutdown
  \/ \E p \in PluginId : \/ Enable(p) \/ Disable(p) \/ Install(p) \/ Uninstall(p) \/ Reload(p)
                         \/ DiskEdited(p)

ProvidersNext ==
  \/ Complete
  \/ \E p \in Provider : \/ UnregisterProvider(p) \/ ServiceChanges(p)
                         \/ \E d \in BOOLEAN : RegisterProvider(p, d)

PluginsNext == LifeCycleNext \/ ProvidersNext

PluginsSpec == PluginsInit /\ [][PluginsNext]_pluginVars

-----------------------------------------------------------------------------
\* Properties

\* The tables keep their types.
PluginsTypeOK ==
  /\ IsInjective(catalog) /\ Known \subseteq PluginId
  /\ \A p \in PluginId : plug[p].status \in {"disabled", "enabled", "error"}
  /\ IsInjective(providers) /\ DOMAIN usage = ToSet(providers)

\* What is reached over the dependencies the order was made from
Reached[S \in SUBSET PluginId] ==
  LET T == S \cup UNION {ToSet(asOf[p]) : p \in S}
  IN  IF T = S THEN S ELSE Reached[T]

\* "Topological sort of plugin dependencies": the order lists known plugins, none twice, and
\* by the manifests it was made from a dependency before its dependent, unless they form a
\* cycle.  Through every sequence of discoveries, edits, removals and reloads these are the
\* manifests of the plugins that are listed; only install() leaves an order that is older
\* than a manifest, so that a dependency of the new version may stand behind it.
LoadOrder ==
  /\ IsInjective(order) /\ ToSet(order) \subseteq Known
  /\ \A i, j \in 1..Len(order) :
       (order[i] \in ToSet(asOf[order[j]]) /\ order[j] \notin Reached[ToSet(asOf[order[i]])]
        /\ order[i] # order[j]) => i < j
  /\ \A p \in ToSet(order) \ installed : deps[p][plug[p].version] = asOf[p]

\* An enabled plugin's instance is set up: a failed on_enable or on_disable, a new version
\* found on disk or a reload never leaves an enabled plugin whose instance is not.
EnabledIsSetUp == \A p \in PluginId : plug[p].status = "enabled" => Has(p) /\ plug[p].active

\* The default provider is a registered one, and there is one as long as any is registered.
DefaultRegistered ==
  IF providers = <<>> THEN dflt = NoPlugin ELSE dflt \in ToSet(providers)
-----------------------------------------------------------------------------
(* The store of installed plugins (src/engine/plugin_repo.py): a directory   *)
(* per plugin and one index file, which is truncated and written again after *)
(* every change. The process may stop, or a write may fail, between any two  *)
(* of these.                                                                 *)

CONSTANTS
  Package,      \* plugins in the remote index and plugins of local directories
  Published,    \* those the remote index has
  Signed,       \* those of them with a checksum
  MaxStops,     \* bound: crashes
  MaxFull       \* bound: writes of the index that fail

ASSUME PluginStoreAssumption ==
  /\ Signed \subseteq Published /\ Published \subseteq Package
  /\ MaxStops \in Nat /\ MaxFull \in Nat

NoDirectory == {"missing"}

\* An index file that cannot be parsed.
Torn == [torn |-> "torn"]

Resting == [step |-> "rest"]

VARIABLES
  unpacked,   \* [Package -> kinds of files in its directory, or NoDirectory]
  records,    \* self._local_records: package -> "repository" or "local"
  indexFile,  \* what the index file holds, or Torn
  installing, \* the call under way and the step it is at
  stops, full

storeVars == <<unpacked, records, indexFile, installing, stops, full>>

AtStep(step) == installing.step = step

Goes(p, source, step) == installing' = [step |-> step, package |-> p, source |-> source]

Plus(f, p, source) == [q \in DOMAIN f \cup {p} |-> IF q = p THEN source ELSE f[q]]

-----------------------------------------------------------------------------
\* install: refused when recorded or unknown to the remote index; a directory
\* that is already there is used as it is.
InstallPackage(p) ==
  /\ AtStep("rest") /\ p \in Published \ DOMAIN records
  /\ unpacked' = [unpacked EXCEPT ![p] = IF @ = NoDirectory THEN {} ELSE @]
  /\ Goes(p, "repository", "download")
  /\ UNCHANGED <<records, indexFile, stops, full>>

\* _download_plugin writes two files, over files of the same name.
DownloadsHalf ==
  /\ AtStep("download") /\ "half" \notin unpacked[installing.package]
  /\ unpacked' = [unpacked EXCEPT ![installing.package] = @ \cup {"half"}]
  /\ UNCHANGED <<records, indexFile, installing, stops, full>>

Downloads(overwritten) ==
  /\ AtStep("download")
  /\ unpacked' = [unpacked EXCEPT ![installing.package] =
                 (@ \ ({"half"} \cup overwritten)) \cup {"published"}]
  /\ Goes(installing.package, "repository", "verify")
  /\ UNCHANGED <<records, indexFile, stops, full>>

\* Variant: the checksum covers only the files that were downloaded.
ChecksumMatchesNew(p) == "published" \in unpacked[p]

\* _compute_checksum reads every file of the directory.
ChecksumMatches(p) == unpacked[p] = {"published"}

VerifyFails ==
  /\ AtStep("verify") /\ installing.package \in Signed
  /\ ~ChecksumMatches(installing.package)
  /\ unpacked' = [unpacked EXCEPT ![installing.package] = NoDirectory]
  /\ installing' = Resting
  /\ UNCHANGED <<records, indexFile, stops, full>>

Verified ==
  /\ AtStep("verify")
  /\ installing.package \in Signed => ChecksumMatches(installing.package)
  /\ Goes(installing.package, "repository", "record")
  /\ UNCHANGED <<unpacked, records, indexFile, stops, full>>

\* install_local: refused when the directory exists, recorded or not; the
\* plugin's files are copied.
InstallLocal(p) ==
  /\ AtStep("rest") /\ unpacked[p] = NoDirectory
  /\ unpacked' = [unpacked EXCEPT ![p] = {"local"}]
  /\ Goes(p, "local", "record")
  /\ UNCHANGED <<records, indexFile, stops, full>>

\* The record is made, then the index file opened for writing.
RecordMade ==
  /\ AtStep("record")
  /\ records' = Plus(records, installing.package, installing.source)
  /\ indexFile' = Torn
  /\ Goes(installing.package, installing.source, "save")
  /\ UNCHANGED <<unpacked, stops, full>>

\* uninstall: the files go first, then the record.
UninstallPackage(p) ==
  /\ AtStep("rest") /\ p \in DOMAIN records
  /\ unpacked' = [unpacked EXCEPT ![p] = NoDirectory]
  /\ Goes(p, "none", "forget")
  /\ UNCHANGED <<records, indexFile, stops, full>>

Forgets ==
  /\ AtStep("forget")
  /\ records' = Restrict(records, DOMAIN records \ {installing.package})
  /\ indexFile' = Torn
  /\ Goes(installing.package, "none", "save")
  /\ UNCHANGED <<unpacked, stops, full>>

IndexSaved ==
  /\ AtStep("save")
  /\ indexFile' = records /\ installing' = Resting
  /\ UNCHANGED <<unpacked, records, stops, full>>

\* The write fails: install and install_local remove the directory again and
\* leave the record in memory, uninstall lets the error out.
SaveFails ==
  /\ AtStep("save") /\ full < MaxFull
  /\ unpacked' = [unpacked EXCEPT ![installing.package] = NoDirectory]
  /\ installing' = Resting /\ full' = full + 1
  /\ UNCHANGED <<records, indexFile, stops>>

\* The process stops; the next one loads the index, an unreadable one as empty.
Stops ==
  /\ stops < MaxStops
  /\ stops' = stops + 1
  /\ records' = IF indexFile = Torn THEN <<>> ELSE indexFile
  /\ installing' = Resting
  /\ UNCHANGED <<unpacked, indexFile, full>>

-----------------------------------------------------------------------------
StoreInit ==
  /\ unpacked = [p \in Package |-> NoDirectory]
  /\ records = <<>> /\ indexFile = <<>> /\ installing = Resting
  /\ stops = 0 /\ full = 0

StoreNext ==
  \/ \E p \in Package : InstallPackage(p) \/ InstallLocal(p) \/ UninstallPackage(p)
  \/ DownloadsHalf \/ VerifyFails \/ Verified \/ RecordMade \/ Forgets
  \/ \E overwritten \in SUBSET {"local"} : Downloads(overwritten)
  \/ IndexSaved \/ SaveFails \/ Stops

-----------------------------------------------------------------------------
\* Directories, records and the index file keep their types.
StoreTypeOK ==
  /\ unpacked \in [Package -> {NoDirectory} \cup SUBSET {"half", "local", "published"}]
  /\ DOMAIN records \subseteq Package /\ Range(records) \subseteq {"repository", "local"}
  /\ indexFile = Torn \/ DOMAIN indexFile \subseteq Package
  /\ stops \in 0..MaxStops /\ full \in 0..MaxFull

\* For as long as a plugin with a checksum is recorded as installed from the repository, its
\* directory never holds the rest of an interrupted download, nor published files among
\* others: not those of a local plugin whose record was lost with a torn index (install
\* works in whatever directory it finds, and sums it up), whatever stops or fails since.
\* What it may hold instead: nothing, after an uninstall that stopped half way or an index
\* that was not written, and then a local plugin, which looks at directories alone.
InstalledIsPublished ==
  \A p \in Signed \cap DOMAIN records : records[p] = "repository" =>
    unpacked[p] \in {{"published"}, {"local"}, NoDirectory}
=============================================================================
