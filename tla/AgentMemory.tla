----------------------------- MODULE AgentMemory -----------------------------
(***************************************************************************)
(* The memory of an agent in three tiers: the task's own store with tags   *)
(* and least-recently-used eviction, the table of a node with its periodic *)
(* clean-up (src/engine/agent_runtime/memory.py), and the registers shared *)
(* between nodes, where the last writer wins (global_memory.py).           *)
(***************************************************************************)
EXTENDS Naturals, FiniteSets, Sequences, SequencesExt, Subsequences

CONSTANTS
  Fact,          \* keys of the first tier
  Tag,           \* tags a key may be stored under
  MaxFacts,      \* max_entries of the first tier
  Row,           \* keys of one namespace of the table
  MaxRows,       \* max_entries of the table
  CleanInterval,      \* vacuum_interval: writes between two clean-ups
  MaxHits,       \* bound: access_count of a row
  MemNode,       \* nodes that share registers
  MaxSets,       \* bound: registers written
  MaxStamp       \* bound: readings of the clock

ASSUME AgentMemoryAssumption ==
  /\ {MaxFacts, MaxRows, CleanInterval, MaxStamp} \subseteq Nat \ {0}
  /\ {MaxHits, MaxSets} \subseteq Nat

VARIABLES
  recent,    \* the keys stored, the least recently accessed first
  tagged,    \* [Tag -> keys]: self._tags
  table,     \* rows [key, hits], the least recently updated first
  writes,    \* self._write_count
  opened,    \* rows when the table was opened or a clean-up failed, until one works (ghost)
  register,  \* CRDTEntry objects: sequence of [author, stamp, deleted]
  held,      \* [MemNode -> index into register, 0 for none]
  stamp      \* the clock

factVars == <<recent, tagged>>
tableVars == <<table, writes, opened>>
sharedVars == <<register, held, stamp>>
memoryVars == <<recent, tagged, table, writes, opened, register, held, stamp>>

-----------------------------------------------------------------------------
\* Tier 1. A key that goes is taken off every tag's list.
Untagged(k) == [t \in Tag |-> tagged[t] \ {k}]

\* _evict_one at capacity for a new key; what is left, and its tags.
Evicts(k) == Len(recent) >= MaxFacts /\ ~Contains(recent, k)

AfterEviction(k) == IF Evicts(k) THEN Tail(recent) ELSE OnlyIn(recent, Fact \ {k})

\* Variant: the evicted key stays under its tags.
TagsKeptAtEviction(k) == tagged

TagsAfterEviction(k) == IF Evicts(k) THEN Untagged(Head(recent)) ELSE tagged

Remember(k, tags) ==
  /\ recent' = Append(AfterEviction(k), k)
  /\ tagged' = [t \in Tag |-> TagsAfterEviction(k)[t] \cup (IF t \in tags THEN {k} ELSE {})]
  /\ UNCHANGED <<tableVars, sharedVars>>

Read(k) ==
  /\ Contains(recent, k)
  /\ recent' = Append(OnlyIn(recent, Fact \ {k}), k)
  /\ UNCHANGED <<tagged, tableVars, sharedVars>>

Forget(k) ==
  /\ Contains(recent, k)
  /\ recent' = OnlyIn(recent, Fact \ {k})
  /\ tagged' = Untagged(k)
  /\ UNCHANGED <<tableVars, sharedVars>>

ClearFacts ==
  /\ recent' = <<>> /\ tagged' = [t \in Tag |-> {}]
  /\ UNCHANGED <<tableVars, sharedVars>>

FactsNext ==
  \/ \E k \in Fact : (\E tags \in SUBSET Tag : Remember(k, tags)) \/ Read(k) \/ Forget(k)
  \/ ClearFacts

-----------------------------------------------------------------------------
\* Tier 2. One namespace; rows with the fewest hits go first, the least
\* recently updated among those.
At2(k) == {i \in DOMAIN table : table[i].key = k}

RowsWithout(k) == OnlyIn(table, {r \in ToSet(table) : r.key # k})

Bumped(n) == IF n < MaxHits THEN n + 1 ELSE n

\* INSERT ... ON CONFLICT DO UPDATE.
Upserted(k) ==
  Append(RowsWithout(k),
         [key |-> k, hits |-> IF At2(k) = {} THEN 0
                              ELSE Bumped(table[CHOOSE i \in At2(k) : TRUE].hits)])

\* ORDER BY access_count ASC, updated_at ASC LIMIT excess
Before(rows, i, j) ==
  rows[i].hits < rows[j].hits \/ (rows[i].hits = rows[j].hits /\ i < j)

\* Variant: one row too few is deleted.
SurplusShort(rows) == Len(rows) - MaxRows - 1

Surplus(rows) == Len(rows) - MaxRows

Cleaned(rows) ==
  LET keep == {i \in DOMAIN rows :
                 Cardinality({j \in DOMAIN rows : Before(rows, j, i)}) >= Surplus(rows)}
  IN IF Len(rows) > MaxRows
     THEN OnlyIn(rows, {rows[i] : i \in keep})
     ELSE rows

\* save: the write, its count (modulo the interval, which is all that is read
\* of it), and every CleanInterval writes the clean-up; an error of that is only logged.
SaveRow(k) ==
  LET due == (writes + 1) % CleanInterval = 0 IN
  /\ writes' = (writes + 1) % CleanInterval
  /\ \E fails \in IF due THEN BOOLEAN ELSE {TRUE} :
       /\ table' = IF fails THEN Upserted(k) ELSE Cleaned(Upserted(k))
       /\ opened' = IF ~due THEN opened ELSE IF fails THEN Len(table') ELSE 0
  /\ UNCHANGED <<factVars, sharedVars>>

LoadRow(k) ==
  /\ At2(k) # {}
  /\ table' = [table EXCEPT ![CHOOSE i \in At2(k) : TRUE].hits = Bumped(@)]
  /\ UNCHANGED <<writes, opened, factVars, sharedVars>>

DeleteRow(k) ==
  /\ At2(k) # {}
  /\ table' = RowsWithout(k)
  /\ UNCHANGED <<writes, opened, factVars, sharedVars>>

ClearTable ==
  /\ table' = <<>>
  /\ UNCHANGED <<writes, opened, factVars, sharedVars>>

\* The node restarts: the table is on disk, the count of writes is not.
Reopen ==
  /\ writes' = 0 /\ opened' = Len(table)
  /\ UNCHANGED <<table, factVars, sharedVars>>

TableNext ==
  \/ \E k \in Row : SaveRow(k) \/ LoadRow(k) \/ DeleteRow(k)
  \/ ClearTable
  \/ Reopen

-----------------------------------------------------------------------------
\* Tier 3, one key. Nodes of a process hand each other the entry objects, so
\* two nodes may hold the same one.
LaterOf(i, j) == IF register[j].stamp > register[i].stamp THEN j ELSE i

SetShared(n) ==
  /\ Len(register) < MaxSets
  /\ LET new == [author |-> n, stamp |-> stamp, deleted |-> FALSE]
         kept == held[n] # 0 /\ register[held[n]].stamp >= stamp
     IN IF kept THEN UNCHANGED <<register, held>>
        ELSE /\ register' = Append(register, new)
             /\ held' = [held EXCEPT ![n] = Len(register) + 1]
  /\ UNCHANGED <<stamp, factVars, tableVars>>

\* delete and clear_namespace mark the entry in place and restamp it.
DeleteShared(n) ==
  /\ held[n] # 0
  /\ register' = [register EXCEPT ![held[n]].deleted = TRUE, ![held[n]].stamp = stamp]
  /\ UNCHANGED <<held, stamp, factVars, tableVars>>

\* Variant: a node offers only what it wrote itself.
OfferedOthers(m, n, since) ==
  held[m] # 0 /\ register[held[m]].stamp > since /\ register[held[m]].author = m

\* get_changes_since: everything later that the asking node did not write.
Offered(m, n, since) ==
  held[m] # 0 /\ register[held[m]].stamp > since /\ register[held[m]].author # n

\* merge: an unknown entry is taken over, a known one if it is later.
Merged(m, n, since) ==
  IF ~Offered(m, n, since) THEN held[n]
  ELSE IF held[n] = 0 THEN held[m]
  ELSE LaterOf(held[n], held[m])

Pull(m, n, since) ==
  /\ m # n
  /\ held' = [held EXCEPT ![n] = Merged(m, n, since)]
  /\ UNCHANGED <<register, stamp, factVars, tableVars>>

StampTicks ==
  /\ stamp < MaxStamp
  /\ stamp' = stamp + 1
  /\ UNCHANGED <<register, held, factVars, tableVars>>

SharedNext ==
  \/ \E n \in MemNode : SetShared(n) \/ DeleteShared(n)
  \/ \E m, n \in MemNode, since \in 0..MaxStamp : Pull(m, n, since)
  \/ StampTicks

-----------------------------------------------------------------------------
MemoryInit ==
  /\ recent = <<>> /\ tagged = [t \in Tag |-> {}]
  /\ table = <<>> /\ writes = 0 /\ opened = 0
  /\ register = <<>> /\ held = [n \in MemNode |-> 0] /\ stamp = 1

\* The three tiers keep their types.
MemoryTypeOK ==
  /\ recent \in Seq(Fact) /\ Len(recent) <= MaxFacts
  /\ tagged \in [Tag -> SUBSET Fact]
  /\ table \in Seq([key : Row, hits : 0..MaxHits])
  /\ writes \in 0..(CleanInterval - 1) /\ opened \in Nat
  /\ register \in Seq([author : MemNode, stamp : 0..MaxStamp, deleted : BOOLEAN])
  /\ held \in [MemNode -> 0..Len(register)] /\ stamp \in 0..MaxStamp

\* A key that was evicted or deleted is under no tag: stored again later
\* without tags it is not found under the old ones (store, _evict_one, delete
\* and get_by_tag keep two structures in step).
TagsFollowStore == \A t \in Tag : tagged[t] \subseteq ToSet(recent)

\* Between two clean-ups the table outgrows its limit by the writes since the
\* last one and no more, counted from the rows it had when it was opened or when
\* the last clean-up failed (save counts the writes, _maintenance prunes every
\* vacuum_interval of them and swallows its errors).
RowsBounded == Len(table) <= (IF opened > MaxRows THEN opened ELSE MaxRows) + writes

\* Two nodes that pull everything from each other then hold the same value,
\* unless one deleted it or both wrote at the same clock reading
\* (get_changes_since leaves out what the asking node wrote itself, merge_with
\* compares stamps: together they must not leave the older value anywhere).
ExchangeAgrees ==
  \A m, n \in MemNode :
    LET i == held[m]  j == held[n] IN
    /\ i # 0 /\ j # 0 /\ ~register[i].deleted /\ ~register[j].deleted
    /\ register[i].stamp # register[j].stamp
    => Merged(m, n, 0) = Merged(n, m, 0)

=============================================================================
