------------------------------ MODULE EventStore ------------------------------
(***************************************************************************)
(* The events of one run (engine/event_store.py): one file per event, named *)
(* by its sequence number, and index.json.  Each instance keeps the index   *)
(* and the last sequence number in memory, and changes them under its own   *)
(* lock; a step below is one file operation, so that the process may die    *)
(* between any two of them and instances in several processes interleave.   *)
(***************************************************************************)
EXTENDS Naturals, FiniteSets, Sequences, FiniteSetsExt

CONSTANTS
  Store,       \* instances, each in a process of its own
  BatchSize,   \* COMPACTION_BATCH
  MaxBatch,    \* bound: events in one call of append_many
  MaxEvents,   \* bound: event files written
  MaxCrashes,  \* bound: crashes
  MaxFaults,   \* bound: event files that cannot be written
  MaxArchives  \* bound: times the run is archived

ASSUME EventAssumption ==
  /\ BatchSize \in Nat \ {0} /\ MaxBatch \in Nat \ {0} /\ MaxEvents \in Nat
  /\ MaxCrashes \in Nat /\ MaxFaults \in Nat /\ MaxArchives \in Nat

\* Sequence numbers that may be used: a file cut off by a crash takes one too.
Seq1 == 1..(MaxEvents + MaxCrashes)

VARIABLES
  here,     \* the events directory exists
  file,     \* the event files
  arch,     \* the highest sequence number in the archive
  disk,     \* index.json
  mem,      \* per instance: _last_sequence and _index
  op,       \* per instance: the call in progress
  acked,    \* what callers were told: <<sequence, event>>, until deleted
  writes,   \* event files written, which also tells events apart
  crashes, faults,
  archives  \* times the run was archived, which also tells its lives apart

dirs  == <<here, file, arch, disk>>
count == <<crashes, faults, archives>>
vars  == <<dirs, mem, op, acked, writes, count>>

\* Kinds of events that retention tells apart: VALIDATION_DETAIL expires after
\* 30 days, STATE_TRANSITION and WEEKLY_SUMMARY never do.
Kind    == {"detail", "transition", "summary"}
NoFile  == [kind |-> "none", id |-> 0, old |-> FALSE]
Torn    == [kind |-> "torn", id |-> 0, old |-> FALSE]
Written(k) == [kind |-> k, id |-> writes + 1, old |-> FALSE]
Exists(n)  == file[n].kind # "none"
Files      == {n \in Seq1 : Exists(n)}

Idle == [kind |-> "idle"]
Down == [last |-> 0, index |-> {}, up |-> FALSE]

\* Variant: the last sequence number is taken from the index.
LastByIndex(ix) == Max({0} \cup ix)

\* _load_last_sequence looks at the files, here and in the archive, and not at
\* the index, which may be older than they are.
LastSequence(ix) == Max({0, arch} \cup Files)

\* Variants: an index rebuilt by counting from 0, or not rebuilt at all.
IndexFromZero == IF disk.ok THEN disk.seqs ELSE 0..LastSequence({})
IndexNotRebuilt == disk.seqs

\* _load_index: index.json if it can be read, else the files
LoadIndex == IF disk.ok THEN disk.seqs ELSE Files

Init ==
  /\ here = TRUE /\ file = [n \in Seq1 |-> NoFile] /\ arch = 0
  /\ disk = [ok |-> FALSE, seqs |-> {}]
  /\ mem = [i \in Store |-> Down] /\ op = [i \in Store |-> Idle]
  /\ acked = {} /\ writes = 0 /\ crashes = 0 /\ faults = 0 /\ archives = 0

\* EventStore(): the directory is made, the index read, and saved if rebuilt
Open(i) ==
  /\ ~mem[i].up
  /\ mem' = [mem EXCEPT ![i] = [last |-> LastSequence(LoadIndex),
                                index |-> LoadIndex, up |-> TRUE]]
  /\ here' = TRUE /\ disk' = [ok |-> TRUE, seqs |-> LoadIndex]
  /\ UNCHANGED <<file, arch, op, acked, writes, count>>

Ready(i) == mem[i].up /\ op[i] = Idle
-----------------------------------------------------------------------------
\* append and append_many

\* A call with the kinds of events it still has to write and those it has
\* written; append is append_many of one event.
Writing(todo) == [kind |-> "write", todo |-> todo, done |-> {}, life |-> archives]

AppendEvents(i, ks) ==
  /\ Ready(i) /\ writes + Len(ks) <= MaxEvents
  /\ op' = [op EXCEPT ![i] = Writing(ks)]
  /\ UNCHANGED <<dirs, mem, acked, writes, count>>

NextNumber(i) == mem[i].last + 1 + Cardinality(op[i].done)

WriteEvent(i) ==
  LET n == NextNumber(i) IN
  /\ op[i].kind = "write" /\ here /\ writes < MaxEvents
  /\ file' = [file EXCEPT ![n] = Written(Head(op[i].todo))]
  /\ writes' = writes + 1
  /\ mem' = [mem EXCEPT ![i].index = @ \cup {n},
                        ![i].last = IF Len(op[i].todo) = 1 THEN n ELSE @]
  /\ op' = [op EXCEPT ![i] =
       IF Len(@.todo) = 1
       THEN [kind |-> "save", done |-> @.done \cup {<<n, writes + 1>>}, life |-> @.life]
       ELSE [kind |-> "write", todo |-> Tail(@.todo),
             done |-> @.done \cup {<<n, writes + 1>>}, life |-> @.life]]
  /\ UNCHANGED <<here, arch, disk, acked, count>>

\* The write raises, the directory being gone or the disk full; what append_many
\* has written before stays in the index.
WriteFails(i) ==
  /\ op[i].kind = "write"
  /\ ~here \/ faults < MaxFaults
  /\ faults' = IF here THEN faults + 1 ELSE faults
  /\ file' = IF here
             THEN [file EXCEPT ![NextNumber(i)] = Torn] ELSE file
  /\ op' = [op EXCEPT ![i] = Idle]
  /\ UNCHANGED <<here, arch, disk, mem, acked, writes, crashes, archives>>

\* _save_index, after which the call returns
SaveIndex(i) ==
  /\ op[i].kind = "save" /\ here
  /\ disk' = [ok |-> TRUE, seqs |-> mem[i].index]
  /\ acked' = IF op[i].life = archives THEN acked \cup op[i].done ELSE acked
  /\ op' = [op EXCEPT ![i] = Idle]
  /\ UNCHANGED <<here, file, arch, mem, writes, count>>

SaveFails(i) ==
  /\ op[i].kind = "save" /\ ~here
  /\ op' = [op EXCEPT ![i] = Idle]
  /\ UNCHANGED <<dirs, mem, acked, writes, count>>

-----------------------------------------------------------------------------
\* purge and compact

Expired(n) == file[n].kind = "detail" /\ file[n].old
Delete(S)  == /\ file' = [n \in Seq1 |-> IF n \in S THEN NoFile ELSE file[n]]
              /\ acked' = {a \in acked : a[1] \notin S}

Purge(i) ==
  /\ Ready(i)
  /\ op' = [op EXCEPT ![i] = [kind |-> "purge", todo |-> mem[i].index]]
  /\ UNCHANGED <<dirs, mem, acked, writes, count>>

\* Variant: entries removed from the list the loop runs over, which skips one.
PurgeNextSkips(i) ==
  LET n    == Min(op[i].todo)
      rest == op[i].todo \ {n}
  IN
  /\ op[i].kind = "purge" /\ op[i].todo # {}
  /\ Delete(IF Expired(n) THEN {n} ELSE {})
  /\ op' = [op EXCEPT ![i] = IF file[n].kind = "torn" THEN Idle
                             ELSE [kind |-> "purge",
                                   todo |-> IF Expired(n) /\ rest # {}
                                            THEN rest \ {Min(rest)} ELSE rest]]
  /\ UNCHANGED <<here, arch, disk, mem, writes, count>>

\* The entries of the index in turn.  _parse_event returns None for a file that
\* is cut off, and should_purge then raises what the loop does not catch.
PurgeNext(i) ==
  LET n == Min(op[i].todo) IN
  /\ op[i].kind = "purge" /\ op[i].todo # {}
  /\ Delete(IF Expired(n) THEN {n} ELSE {})
  /\ op' = [op EXCEPT ![i] = IF file[n].kind = "torn" THEN Idle
                             ELSE [kind |-> "purge", todo |-> @.todo \ {n}]]
  /\ UNCHANGED <<here, arch, disk, mem, writes, count>>

\* Entries without a file leave the index, which is saved if there were any.
PurgeEnds(i) ==
  /\ op[i].kind = "purge" /\ op[i].todo = {}
  /\ mem' = [mem EXCEPT ![i].index = @ \cap Files]
  /\ op' = [op EXCEPT ![i] = IF mem[i].index \subseteq Files THEN Idle
                             ELSE [kind |-> "save", done |-> {}, life |-> archives]]
  /\ UNCHANGED <<dirs, acked, writes, count>>

OldEvents(i) == {n \in mem[i].index : Exists(n) /\ file[n].old}
Details(S)   == {n \in S : file[n].kind = "detail"}

\* compact returns if there are too few old events, and raises on a cut-off file.
Compact(i) ==
  /\ Ready(i) /\ writes < MaxEvents
  /\ Cardinality(OldEvents(i)) >= BatchSize
  /\ \A n \in mem[i].index : file[n].kind # "torn"
  /\ op' = [op EXCEPT ![i] = [kind |-> "compact", todo |-> Details(OldEvents(i))]]
  /\ UNCHANGED <<dirs, mem, acked, writes, count>>

CompactNext(i) ==
  LET n == Min(op[i].todo) IN
  /\ op[i].kind = "compact" /\ op[i].todo # {}
  /\ Delete({n})
  /\ mem' = [mem EXCEPT ![i].index = @ \ {n}]
  /\ op' = [op EXCEPT ![i].todo = @ \ {n}]
  /\ UNCHANGED <<here, arch, disk, writes, count>>

\* The summary is appended like any other event.
Summarize(i) ==
  /\ op[i].kind = "compact" /\ op[i].todo = {}
  /\ op' = [op EXCEPT ![i] = Writing(<<"summary">>)]
  /\ UNCHANGED <<dirs, mem, acked, writes, count>>

-----------------------------------------------------------------------------
\* The world around: time, crashes, and run_manager.archive_run

\* More than 30 days pass.
GrowOld ==
  /\ \A i \in Store : op[i] = Idle
  /\ \E n \in Files : ~file[n].old
  /\ file' = [n \in Seq1 |-> IF Exists(n) THEN [file[n] EXCEPT !.old = TRUE] ELSE file[n]]
  /\ UNCHANGED <<here, arch, disk, mem, op, acked, writes, count>>

\* A crash while a file is written leaves part of it.
CutOff(i) ==
  \/ op[i].kind = "write" /\ here
     /\ file' = [file EXCEPT ![NextNumber(i)] = Torn] /\ disk' = disk
  \/ op[i].kind = "save" /\ here
     /\ disk' = [ok |-> FALSE, seqs |-> {}] /\ file' = file

Crash(i) ==
  /\ mem[i].up /\ crashes < MaxCrashes
  /\ crashes' = crashes + 1
  /\ mem' = [mem EXCEPT ![i] = Down] /\ op' = [op EXCEPT ![i] = Idle]
  /\ (file' = file /\ disk' = disk) \/ CutOff(i)
  /\ UNCHANGED <<here, arch, acked, writes, faults, archives>>

\* The run's directory is moved to the archive, over an older one; the engine
\* keeps its instance.
ArchiveRun ==
  /\ here /\ archives < MaxArchives
  /\ archives' = archives + 1 /\ here' = FALSE
  /\ arch' = Max({0} \cup Files)
  /\ file' = [n \in Seq1 |-> NoFile] /\ disk' = [ok |-> FALSE, seqs |-> {}]
  /\ acked' = {}
  /\ UNCHANGED <<mem, op, writes, crashes, faults>>

\* create_run makes the directory of a new run of the same name.
CreateRun ==
  /\ ~here /\ here' = TRUE
  /\ UNCHANGED <<file, arch, disk, mem, op, acked, writes, count>>

Next ==
  \/ \E i \in Store :
       \/ Open(i) \/ WriteEvent(i) \/ WriteFails(i) \/ SaveIndex(i) \/ SaveFails(i)
       \/ Purge(i) \/ PurgeNext(i) \/ PurgeEnds(i)
       \/ Compact(i) \/ CompactNext(i) \/ Summarize(i) \/ Crash(i)
       \/ \E n \in 1..MaxBatch : \E ks \in [1..n -> Kind \ {"summary"}] : AppendEvents(i, ks)
  \/ GrowOld \/ ArchiveRun \/ CreateRun

Spec == Init /\ [][Next]_vars

-----------------------------------------------------------------------------
\* Properties

\* Files, indexes and calls in progress keep their types.
TypeOK ==
  /\ file \in [Seq1 -> [kind : Kind \cup {"none", "torn"}, id : Nat, old : BOOLEAN]]
  /\ here \in BOOLEAN /\ arch \in Nat
  /\ disk \in [ok : BOOLEAN, seqs : SUBSET Seq1]
  /\ mem \in [Store -> [last : {0} \cup Seq1, index : SUBSET Seq1, up : BOOLEAN]]
  /\ \A i \in Store : op[i].kind \in {"idle", "write", "save", "purge", "compact"}
  /\ acked \subseteq Seq1 \X Nat

\* An event whose append returned can be read, as it was appended, by every
\* instance that is open, until retention, compaction or archiving removes it:
\* whatever crashes left of index.json and of later files.
AckedReadable ==
  \A i \in Store : \A a \in acked :
    /\ file[a[1]].id = a[2]
    /\ mem[i].up => a[1] \in mem[i].index

\* A "single, immutable event" of an "append-only log": an event that a file
\* holds is never replaced by another one, as long as no write has failed (an
\* append_many that fails half-way has its numbers used again).
EventsImmutable ==
  [][\A n \in Seq1 : faults = 0 /\ file[n].kind \in Kind /\ file'[n].kind # "none" =>
       file'[n].id = file[n].id]_vars

\* "purge: delete the events whose retention has passed": a purge that ends leaves
\* no such event in its index, unless a file that was cut off stops it.
PurgeRemovesExpired ==
  [][\A i \in Store :
       op[i].kind = "purge" /\ op'[i].kind # "purge" /\ mem'[i].up
         /\ (\A n \in mem[i].index : file[n].kind # "torn") =>
         \A n \in mem[i].index : ~Expired(n)']_vars

\* The store keeps its types, and what was acknowledged can be read after any crash.
StoreInv == TypeOK /\ AckedReadable
=============================================================================
