------------------------------ MODULE MCStorage ------------------------------
(* What the engine keeps, in files, caches and lists, one part at a time      *)
(* since they share no state: the runs of a process that crashes, through a   *)
(* change of year (two runs, or a longer history of one), the audit trail,    *)
(* the three memories of agents, alerts, keys and rate limits, profiles and   *)
(* their migration, plugins and providers, the plugin store, the log under    *)
(* the commands of the grid, the calls of a language model, hooks, chaos      *)
(* scenarios, the forge of skills and remediation.                            *)
EXTENDS RunManager, AuditTrail, AgentMemory, Notices, Access, Catalogue, Plugins,
        Console, LlmProviders, Chaos, Emergence

CONSTANTS r1, r2, p1

VARIABLE part    \* the one that runs

MCState == {"draft", "review", "done"}
MCEdges == {<<"draft", "review">>, <<"review", "draft">>, <<"review", "done">>}
AllRuns == [p \in Process |-> Slug]

\* The bounds of the two instances of RunManager: one transition of any run, or as many as
\* MaxVersion allows of r1.
ShortHistories == \A p \in Process : op'[p].todo # <<>> => op'[p].meta.version <= 1
LongHistory == \A p \in Process : op'[p].todo # <<>> => op'[p].slug = r1

\* As text, version 10 comes before version 2.
MCTextRank == [v \in {2, 10} |-> IF v = 10 THEN 0 ELSE 1]

\* What plugins depend on: a chain that the second versions turn round, a cycle of three that
\* they break, one of two beside a plugin that depends on itself.
Always(ids) == <<ids, ids>>
MCGraphs == {[a |-> <<<<"b", "p">>, <<>>>>, b |-> <<<<"p">>, <<"p", "a">>>>, p |-> Always(<<>>)],
             [a |-> Always(<<"b">>), b |-> Always(<<"p">>), p |-> <<<<"a">>, <<>>>>],
             [a |-> Always(<<"a">>), b |-> Always(<<"p", "a">>), p |-> Always(<<"b">>)]}

\* Taken for a connection's timeout; a pause nobody answered; a bad transition.
MCErrors == {{"hitl timeout"}, {"pause state"}, {"invalid state"}}

StorageInit ==
  /\ part \in {"runs", "long", "audit", "facts", "table", "shared", "alerts", "access",
               "registry", "migration", "plugins", "providers", "store", "console", "llm",
               "hooks", "chaos", "emergence", "remediation"}
  /\ Init /\ AuditInit /\ MemoryInit /\ AlertsInit /\ AccessInit /\ CatalogueInit /\ PluginsInit
  /\ StoreInit /\ ConsoleInit /\ LlmInit /\ HooksInit /\ ChaosInit /\ EmergenceInit
  /\ RemediationInit
  /\ part \notin {"plugins", "providers"} => deps["a"][1] = <<"b", "p">>

Rests(p, state) == IF part \in p THEN TRUE ELSE UNCHANGED state

StorageNext ==
  /\ UNCHANGED part
  /\ Rests({"runs", "long"}, vars) /\ Rests({"audit"}, auditVars)
  /\ Rests({"facts", "table", "shared"}, memoryVars) /\ Rests({"alerts"}, alertVars)
  /\ Rests({"access"}, accessVars) /\ Rests({"registry", "migration"}, catalogueVars)
  /\ Rests({"plugins", "providers"}, pluginVars) /\ Rests({"store"}, storeVars)
  /\ Rests({"console"}, consoleVars) /\ Rests({"llm"}, clientVars)
  /\ Rests({"hooks"}, hooksVars) /\ Rests({"chaos"}, chaosVars)
  /\ Rests({"emergence"}, emergenceVars) /\ Rests({"remediation"}, remediationVars)
  /\ \/ part = "runs" /\ Next /\ ShortHistories
     \/ part = "long" /\ Next /\ LongHistory
     \/ part = "audit" /\ AuditNext
     \/ part = "facts" /\ FactsNext
     \/ part = "table" /\ TableNext
     \/ part = "shared" /\ SharedNext
     \/ part = "alerts" /\ AlertsNext
     \/ part = "access" /\ AccessNext
     \/ part = "registry" /\ RegistryNext
     \/ part = "migration" /\ MigrationNext
     \/ part = "plugins" /\ LifeCycleNext
     \/ part = "providers" /\ (ProvidersNext \/ Discover \/ \E p \in Provider : Enable(p))
     \/ part = "store" /\ StoreNext
     \/ part = "console" /\ ConsoleNext
     \/ part = "llm" /\ LlmNext
     \/ part = "hooks" /\ HooksNext
     \/ part = "chaos" /\ ChaosNext
     \/ part = "emergence" /\ EmergenceNext
     \/ part = "remediation" /\ RemediationNext

storageVars ==
  <<part, vars, auditVars, memoryVars, alertVars, accessVars, catalogueVars, pluginVars,
    storeVars, consoleVars, clientVars, hooksVars, chaosVars, emergenceVars, remediationVars>>

StorageSpec == StorageInit /\ [][StorageNext]_storageVars

\* The variables of every part have the types their module gives them.
StorageTypeOK ==
  /\ TypeOK /\ AuditTypeOK /\ MemoryTypeOK /\ AlertsTypeOK /\ AccessTypeOK /\ CatalogueTypeOK
  /\ PluginsTypeOK /\ StoreTypeOK /\ ConsoleTypeOK /\ LlmTypeOK /\ HooksTypeOK /\ ChaosTypeOK
  /\ EmergenceTypeOK /\ RemediationTypeOK

\* What was kept in files is there, and is what it should be, after crashes: runs of one
\* process (MCRunManager has two), also when the recovery itself crashed or comes in another
\* year than the log, plugins, and, next to other processes, audit entries, revocations and
\* submitted tasks.
FilesKept ==
  /\ StorageTypeOK /\ RecoveryAgreesWithRun /\ RecordedIsFound
  /\ RevokedStaysOut /\ InstalledIsPublished /\ KeptAlone

\* What is derived follows what it is derived from: tags and rows the store, registers
\* the writes of all nodes, answers of the cache the profiles, the index the skills.
DerivedAgrees ==
  TagsFollowStore /\ RowsBounded /\ ExchangeAgrees /\ VersionedFresh /\ IndexAgrees

\* What is limited or timed keeps to its times, however threads are scheduled: posts of a
\* channel, requests of a key, and the snapshots of a chaos scenario.
TimesKept == PostsSpaced /\ ChannelHeard /\ BurstBound /\ FaultGoneAtEnd /\ SeenUnderFault

\* No sequence of calls, failing ones among them, leaves plugins half set up, a migrated
\* run without a place, a handler unheard, a caller with an error it does not know, or a
\* skill and a promotion that nothing earned.
SequencesSafe ==
  /\ EnabledIsSetUp /\ DefaultRegistered
  /\ MigrationKeepsRuns /\ OnlyProviderErrors /\ EveryoneHeard
  /\ SkillNeedsRejections /\ PromotionEarned
=============================================================================
