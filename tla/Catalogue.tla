------------------------------ MODULE Catalogue ------------------------------
(***************************************************************************)
(* The profile registry (src/engine/registry.py): profiles kept in         *)
(* directories <source>/<name>/<version>, looked up by priority, with one  *)
(* cache for answers and another for the listing; and the plans that carry *)
(* a run from one version of a profile to the next                         *)
(* (src/engine/migration.py).                                              *)
(***************************************************************************)
EXTENDS Naturals, FiniteSets, Functions, FiniteSetsExt

CONSTANTS
  Profile,       \* profile names
  Version,       \* version numbers, in their numeric order
  TextRank,      \* [Version -> Nat]: their order as directory names
  MaxRevision,   \* bound: how often one profile.yaml is written
  MaxOutside,    \* bound: up to which revision others write it
  OldState,      \* states of the old machine
  NewName,       \* states a new machine may have
  Ended          \* terminal states of the old machine

\* No version asked for (version=None).
AnyVersion == 0

ASSUME CatalogueAssumption ==
  /\ Version \subseteq Nat \ {AnyVersion} /\ IsInjective(TextRank)
  /\ TextRank \in [Version -> Nat]
  /\ MaxRevision \in Nat /\ MaxOutside \in 0..MaxRevision /\ Ended \subseteq OldState

\* The sources with a path, by priority; the remote source has only a URL
\* and is never looked into.
Priority == [builtin |-> 0, user |-> 100, project |-> 200]

Shelf == DOMAIN Priority

VARIABLES
  shelved,    \* [Shelf -> [Profile -> [Version -> revision]]], 0: no file
  answers,    \* self._cache: <<name, version>> -> what was answered
  listing,    \* self._profiles: name -> what was listed
  meddled,    \* names whose files another process wrote (ghost)
  migration   \* the last plan executed and its result

catalogueVars == <<shelved, answers, listing, meddled, migration>>

Metadata(s, n, v) == [shelf |-> s, version |-> v, revision |-> shelved[s][n][v]]

VersionsAt(s, n) == {v \in Version : shelved[s][n][v] > 0}

Numbered == [v \in Version |-> v]

\* The newest version at one source: by number when one name is looked up,
\* by the text of the directory name when all are listed.
Latest(s, n, rank) ==
  CHOOSE v \in VersionsAt(s, n) :
    \A w \in VersionsAt(s, n) : rank[w] <= rank[v]

\* _find_in_source and _load_profile over the sources, highest priority first.
Holding(n, v) ==
  {s \in Shelf : IF v = AnyVersion THEN VersionsAt(s, n) # {}
                                   ELSE shelved[s][n][v] > 0}

First(shelves) == CHOOSE s \in shelves : \A t \in shelves : Priority[t] <= Priority[s]

LookedUp(n, v) ==
  LET s == First(Holding(n, v)) IN
  Metadata(s, n, IF v = AnyVersion THEN Latest(s, n, Numbered) ELSE v)

\* list_profiles: kept as long as it is not empty.
ByText == TextRank

Listed ==
  IF listing # <<>> THEN listing
  ELSE [n \in {m \in Profile : Holding(m, AnyVersion) # {}} |->
          LET s == First(Holding(n, AnyVersion)) IN Metadata(s, n, Latest(s, n, ByText))]

Without(f, x) == Restrict(f, DOMAIN f \ {x})

With(f, x, y) == [z \in DOMAIN f \cup {x} |-> IF z = x THEN y ELSE f[z]]

-----------------------------------------------------------------------------
\* resolve: a name that is nowhere lists everything for its hint.
Resolve(n, v) ==
  /\ <<n, v>> \notin DOMAIN answers
  /\ IF Holding(n, v) = {}
     THEN listing' = Listed /\ UNCHANGED answers
     ELSE answers' = With(answers, <<n, v>>, LookedUp(n, v)) /\ UNCHANGED listing
  /\ UNCHANGED <<shelved, meddled, migration>>

ListProfiles ==
  /\ listing' = Listed
  /\ UNCHANGED <<shelved, answers, meddled, migration>>

\* Variant: the answer for the bare name is dropped instead.
DroppedBareName(n, v) ==
  /\ answers' = Without(answers, <<n, AnyVersion>>)
  /\ listing' = Without(listing, n)

\* register: writes to the user source and drops the answer for exactly this
\* version, and the listed name; the answer for the bare name is kept.
Dropped(n, v) ==
  /\ answers' = Without(answers, <<n, v>>)
  /\ listing' = Without(listing, n)

Register(n, v) ==
  /\ shelved["user"][n][v] < MaxRevision
  /\ shelved' = [shelved EXCEPT !["user"][n][v] = @ + 1]
  /\ Dropped(n, v)
  /\ UNCHANGED <<meddled, migration>>

\* Another process, or a user with an editor, writes a profile.
Meddle(s, n, v) ==
  /\ shelved[s][n][v] < MaxOutside
  /\ shelved' = [shelved EXCEPT ![s][n][v] = @ + 1]
  /\ meddled' = meddled \cup {n}
  /\ UNCHANGED <<answers, listing, migration>>

NewRegistry ==
  /\ answers' = <<>> /\ listing' = <<>> /\ meddled' = {}
  /\ UNCHANGED <<shelved, migration>>

-----------------------------------------------------------------------------
\* The plans and the new machines: new[s] is "absent", "open" or "terminal".
Plan ==
  [stateMap : UNION {[S -> NewName] : S \in SUBSET OldState},
   added : SUBSET (NewName \ OldState), removed : SUBSET OldState,
   new : [NewName -> {"absent", "open", "terminal"}]]

NewStates(p) == {s \in NewName : p.new[s] # "absent"}

Target(p, s) == IF s \in DOMAIN p.stateMap THEN p.stateMap[s] ELSE s

\* Step 1 of execute: the mapped name if the new machine has it, else the
\* old name if the new machine has that.
Migrated(p) ==
  [s \in {t \in OldState : Target(p, t) \in NewStates(p) \/ t \in NewStates(p)} |->
     IF Target(p, s) \in NewStates(p) THEN Target(p, s) ELSE s]

\* Variant: only a state that is missing counts as lost.
ReopenedMissing(p) ==
  {s \in Ended \ p.removed : s \notin DOMAIN Migrated(p)}

\* Steps 2 and 3: what is reported as an error.
Unmapped(p) == OldState \ (DOMAIN Migrated(p) \cup p.removed)

Reopened(p) ==
  {s \in Ended \ p.removed :
     Target(p, s) \notin NewStates(p) \/ p.new[Target(p, s)] # "terminal"}

Succeeds(p) ==
  /\ Unmapped(p) = {}
  /\ p.added \subseteq NewStates(p)
  /\ Reopened(p) = {}

\* A plan is executed once, on the machines it was written for.
Execute(p) ==
  /\ migration = <<>>
  /\ migration' = <<[plan |-> p, states |-> Migrated(p), success |-> Succeeds(p)]>>
  /\ UNCHANGED <<shelved, answers, listing, meddled>>

-----------------------------------------------------------------------------
CatalogueInit ==
  /\ shelved = [s \in Shelf |-> [n \in Profile |-> [v \in Version |-> 0]]]
  /\ answers = <<>> /\ listing = <<>> /\ meddled = {} /\ migration = <<>>

RegistryNext ==
  \/ \E n \in Profile, v \in Version \cup {AnyVersion} : Resolve(n, v)
  \/ ListProfiles
  \/ \E n \in Profile, v \in Version : Register(n, v)
  \/ \E s \in Shelf, n \in Profile, v \in Version : Meddle(s, n, v)
  \/ NewRegistry

MigrationNext == \E p \in Plan : Execute(p)

-----------------------------------------------------------------------------
MetaType == [shelf : Shelf, version : Version, revision : 1..MaxRevision]

\* Shelves, the two caches and the results of migrations keep their types.
CatalogueTypeOK ==
  /\ shelved \in [Shelf -> [Profile -> [Version -> 0..MaxRevision]]]
  /\ DOMAIN answers \subseteq Profile \X (Version \cup {AnyVersion})
  /\ Range(answers) \subseteq MetaType
  /\ DOMAIN listing \subseteq Profile /\ Range(listing) \subseteq MetaType
  /\ meddled \subseteq Profile

\* A profile asked for by version is answered as the files are: the cache
\* never outlives a registration made through this registry (register pops
\* the answer before the next resolve), whatever was asked, listed or
\* registered in between.
VersionedFresh ==
  \A k \in DOMAIN answers :
    k[2] # AnyVersion /\ k[1] \notin meddled => answers[k] = LookedUp(k[1], k[2])

\* A migration that reports success leaves no run behind: every state a run
\* may be in, unless the plan removes it, has a place in the new machine, and
\* a run that had ended is not reopened (execute checks the places and the
\* terminal states in two separate passes, with two ways to pick the target).
MigrationKeepsRuns ==
  \A i \in DOMAIN migration :
    LET m == migration[i] IN
    m.success =>
      \A s \in OldState \ m.plan.removed :
        /\ s \in DOMAIN m.states
        /\ m.states[s] \in NewStates(m.plan)
        /\ s \in Ended => m.plan.new[m.states[s]] = "terminal"

=============================================================================
