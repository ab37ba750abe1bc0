------------------------------ MODULE RunManager ------------------------------
(***************************************************************************)
(* Runs on disk (engine/run_manager.py): content-object.md per run, one     *)
(* snapshot file for all runs and one log file per change.  Every step of   *)
(* an operation below reads, writes, renames or removes one file; a process *)
(* may die after any of them, or in the middle of a write, and processes    *)
(* that share the data directory interleave there, since nothing locks it.  *)
(* They share the snapshot and the temporary file it is written to before   *)
(* the rename, which one of them may thus take away from another.           *)
(*                                                                         *)
(* The log is kept as the overlay it puts on the snapshot, one per calendar *)
(* year: the file names and the timestamps that _compact_wal compares are   *)
(* in different formats, and their order is decided by the year alone.      *)
(***************************************************************************)
EXTENDS Naturals, Sequences, FiniteSets

CONSTANTS
  Slug,        \* names of runs
  Process,     \* processes that use the data directory
  MayUse,      \* [Process -> SUBSET Slug]: the runs each of them works on
  State,       \* states of the profile's state machine
  InitialState,
  Edges,       \* transitions can_transition allows
  NoState,     \* no state recorded, or none readable
  MaxVersion,  \* bound: transitions of a run
  MaxCrashes,  \* bound: crashes
  MaxYear      \* bound: new years

ASSUME RunAssumption ==
  /\ MayUse \in [Process -> SUBSET Slug]
  /\ InitialState \in State /\ NoState \notin State
  /\ Edges \subseteq State \X State
  /\ MaxVersion \in Nat /\ MaxCrashes \in Nat /\ MaxYear \in Nat

Year == 0..MaxYear

VARIABLES
  active,   \* content-object.md under runs/active
  archived, \* content-object.md under runs/archive
  snap,     \* runs_state.json
  tmp,      \* runs_state.json.tmp: what it holds, or nothing if there is none
  wal,      \* the log files of each year, as an overlay per run
  year,     \* the calendar year
  op,       \* what each process is doing
  torn,     \* operations cut short, by a death or an exception, and not made up for
            \* since: <<run, kind>>
  crashes

files == <<active, archived, snap, tmp, wal>>
vars  == <<files, year, op, torn, crashes>>

\* RunMeta; "missing" is no run directory, "dir" one without content-object.md,
\* "blank" a file that was cut off while written: _read_meta then returns an
\* empty state and version 0.
Meta == [file : {"missing", "dir", "blank", "whole"}, state : State \cup {NoState},
         version : Nat]
NoMeta    == [file |-> "missing", state |-> NoState, version |-> 0]
DirOnly   == [file |-> "dir", state |-> NoState, version |-> 0]
BlankMeta == [file |-> "blank", state |-> NoState, version |-> 0]
NewMeta   == [file |-> "whole", state |-> InitialState, version |-> 0]

Entry   == [state : State \cup {NoState}, status : {"none", "active", "archived"}]
NoEntry == [state |-> NoState, status |-> "none"]
NoSnap  == [state |-> NoState, status |-> "none", version |-> 0, year |-> 0]
Snap    == [state : State \cup {NoState}, status : {"none", "active", "archived"},
            version : Nat, year : Year]

\* No snapshot, or one that is cut off: _load_snapshot returns {} for both
NoSeen  == [s \in Slug |-> NoSnap]

\* An operation in progress: the file operations it still has to do, the run,
\* the metadata in memory and the snapshot it loaded, until it saves it.
Ready == [kind |-> "ready", todo |-> <<>>]
Down  == [kind |-> "down", todo |-> <<>>]

Init ==
  /\ active = [s \in Slug |-> NoMeta] /\ archived = [s \in Slug |-> NoMeta]
  /\ snap = NoSeen /\ tmp = {}
  /\ wal = [y \in Year |-> [s \in Slug |-> NoEntry]]
  /\ year = 0 /\ crashes = 0 /\ torn = {}
  /\ op = [p \in Process |-> Ready]

-----------------------------------------------------------------------------
\* Operations start with their checks; the file operations follow.

\* Variant: a create that leaves no trace in the log.
CreateUnlogged == <<"mkdir", "meta", "load", "write", "replace">>

CreateSteps == <<"mkdir", "meta", "wal", "load", "write", "replace">>

Create(p, s) ==
  /\ op[p].kind = "ready" /\ s \in MayUse[p]
  /\ active[s].file \in {"missing", "dir"}
  /\ op' = [op EXCEPT ![p] = [kind |-> "create", todo |-> CreateSteps,
                              slug |-> s, meta |-> NewMeta, seen |-> NoSeen]]
  /\ UNCHANGED <<files, year, torn, crashes>>

\* Variant: a transition that relies on the snapshot alone.
UpdateUnlogged == <<"load", "write", "replace", "meta">>

UpdateSteps == <<"wal", "load", "write", "replace", "meta">>

UpdateState(p, s, to) ==
  /\ op[p].kind = "ready" /\ s \in MayUse[p]
  /\ active[s].file \in {"blank", "whole"} /\ active[s].version < MaxVersion
  /\ <<active[s].state, to>> \in Edges
  /\ op' = [op EXCEPT ![p] =
       [kind |-> "transition", todo |-> UpdateSteps, slug |-> s, seen |-> NoSeen,
        meta |-> [file |-> "whole", state |-> to, version |-> active[s].version + 1]]]
  /\ UNCHANGED <<files, year, torn, crashes>>

\* Variant: an archive that is not logged.
ArchiveUnlogged == <<"remove", "move", "load", "write", "replace">>

ArchiveSteps == <<"remove", "move", "load", "write", "replace", "wal">>

Archive(p, s) ==
  /\ op[p].kind = "ready" /\ s \in MayUse[p]
  /\ active[s].file # "missing"
  /\ op' = [op EXCEPT ![p] = [kind |-> "archive", todo |-> ArchiveSteps,
                              slug |-> s, meta |-> active[s], seen |-> NoSeen]]
  /\ UNCHANGED <<files, year, torn, crashes>>

\* One file operation of p is done; with the last one the operation returns.
Doing(p, step) == op[p].todo # <<>> /\ Head(op[p].todo) = step

\* A transition does not log what an interrupted create left out of the log.
MadeUpFor(o) ==
  {t \in torn : t[1] = o.slug /\ (o.kind = "transition" => t[2] # "create")}

Done(p, seen) ==
  /\ op' = [op EXCEPT ![p] =
       IF Len(op[p].todo) = 1 THEN Ready
       ELSE [op[p] EXCEPT !.todo = Tail(op[p].todo), !.seen = seen]]
  /\ torn' = IF Len(op[p].todo) = 1 THEN torn \ MadeUpFor(op[p]) ELSE torn
  /\ UNCHANGED <<year, crashes>>

MakeDirectory(p) ==
  /\ Doing(p, "mkdir")
  /\ active' = [active EXCEPT ![op[p].slug] = IF @.file = "missing" THEN DirOnly ELSE @]
  /\ Done(p, NoSeen)
  /\ UNCHANGED <<archived, snap, tmp, wal>>

\* _write_meta
WriteMeta(p) ==
  /\ Doing(p, "meta") /\ active[op[p].slug].file # "missing"
  /\ active' = [active EXCEPT ![op[p].slug] = op[p].meta]
  /\ Done(p, NoSeen)
  /\ UNCHANGED <<archived, snap, tmp, wal>>

\* _append_wal: what the entry will change when it is replayed
Logged(e, o) ==
  CASE o.kind = "create"     -> [state |-> o.meta.state, status |-> "active"]
    [] o.kind = "transition" -> [e EXCEPT !.state = o.meta.state]
    [] o.kind = "archive"    -> [e EXCEPT !.status = "archived"]

AppendWal(p) ==
  /\ Doing(p, "wal")
  /\ wal' = [wal EXCEPT ![year][op[p].slug] = Logged(@, op[p])]
  /\ Done(p, NoSeen)
  /\ UNCHANGED <<active, archived, snap, tmp>>

\* _update_snapshot reads the file, changes one run in it, writes the whole to the
\* temporary file and renames that: whatever it holds by then, and if it is there.
LoadSnapshot(p) ==
  /\ Doing(p, "load")
  /\ Done(p, snap)
  /\ UNCHANGED files

\* Variant: the version is forgotten in the snapshot of a transition.
SavedNoVersion(r, o) ==
  IF o.kind = "transition"
  THEN [state |-> o.meta.state, status |-> "active", year |-> year]
  ELSE r

Saved(r, o) ==
  CASE o.kind = "create"     -> [r EXCEPT !.state = o.meta.state,
                                          !.status = "active", !.year = year]
    [] o.kind = "transition" -> [state |-> o.meta.state, status |-> "active",
                                 version |-> o.meta.version, year |-> year]
    [] o.kind = "archive"    -> [r EXCEPT !.status = "archived", !.year = year]

WriteSnapshot(p) ==
  /\ Doing(p, "write")
  /\ tmp' = {[op[p].seen EXCEPT ![op[p].slug] = Saved(@, op[p])]}
  /\ Done(p, NoSeen)
  /\ UNCHANGED <<active, archived, snap, wal>>

ReplaceSnapshot(p) ==
  /\ Doing(p, "replace") /\ snap' \in tmp /\ tmp' = {}
  /\ Done(p, NoSeen)
  /\ UNCHANGED <<active, archived, wal>>

\* archive_run: an older archive of the same name is removed first
RemoveOldArchive(p) ==
  /\ Doing(p, "remove")
  /\ archived' = [archived EXCEPT ![op[p].slug] = NoMeta]
  /\ Done(p, NoSeen)
  /\ UNCHANGED <<active, snap, tmp, wal>>

\* shutil.move puts the run inside an archive that appeared in the meantime.
MoveToArchive(p) ==
  /\ Doing(p, "move") /\ active[op[p].slug].file # "missing"
  /\ archived' = [archived EXCEPT ![op[p].slug] =
                    IF @.file = "missing" THEN active[op[p].slug] ELSE @]
  /\ active' = [active EXCEPT ![op[p].slug] = NoMeta]
  /\ Done(p, NoSeen)
  /\ UNCHANGED <<snap, tmp, wal>>

\* What an operation leaves to be made up for when it ends before its last step: a create
\* that has only its snapshot to save has been logged.
CutShort(o) == IF o.kind = "create" /\ Head(o.todo) = "replace" THEN {} ELSE {<<o.slug, o.kind>>}

\* Another process moved the run away, or renamed the temporary file: the write, the
\* move or the rename raises.
Raise(p) ==
  /\ \/ (Doing(p, "meta") \/ Doing(p, "move")) /\ active[op[p].slug].file = "missing"
     \/ Doing(p, "replace") /\ tmp = {}
  /\ op' = [op EXCEPT ![p] = Ready]
  /\ torn' = torn \cup CutShort(op[p])
  /\ UNCHANGED <<files, year, crashes>>

FileStep(p) ==
  \/ MakeDirectory(p) \/ WriteMeta(p) \/ AppendWal(p) \/ LoadSnapshot(p)
  \/ WriteSnapshot(p) \/ ReplaceSnapshot(p) \/ RemoveOldArchive(p) \/ MoveToArchive(p) \/ Raise(p)

-----------------------------------------------------------------------------
\* Crash and recovery

LastYear(Y) == CHOOSE y \in Y : \A z \in Y : z <= y

\* recover(): the snapshot with every log entry replayed over it, in order
RecoveredState(s) ==
  LET Y == {y \in Year : wal[y][s].state # NoState}
  IN  IF Y = {} THEN snap[s].state ELSE wal[LastYear(Y)][s].state

RecoveredStatus(s) ==
  LET Y == {y \in Year : wal[y][s].status # "none"}
  IN  IF Y = {} THEN snap[s].status ELSE wal[LastYear(Y)][s].status

Recovered(s) == [state |-> RecoveredState(s), status |-> RecoveredStatus(s)]

UpdatedYear(s) ==
  LET Y == {y \in Year : wal[y][s] # NoEntry}
  IN  IF Y = {} THEN snap[s].year ELSE LastYear(Y)

\* _compact_wal keeps the files of the year of the latest update, and later.
CompactedWal ==
  LET latest == LastYear({UpdatedYear(s) : s \in Slug})
  IN  [y \in Year |-> IF y < latest THEN [s \in Slug |-> NoEntry] ELSE wal[y]]

\* The engine starts: it calls recover() and only reports what it returned.
Recover(p) ==
  /\ op[p].kind = "down"
  /\ wal' = CompactedWal
  /\ op' = [op EXCEPT ![p] = Ready]
  /\ UNCHANGED <<active, archived, snap, tmp, year, torn, crashes>>

\* p dies between two file operations, or while it writes content-object.md or the
\* temporary file, which it leaves cut off.
Crash(p) ==
  /\ op[p].kind # "down" /\ crashes < MaxCrashes
  /\ crashes' = crashes + 1
  /\ op' = [op EXCEPT ![p] = Down]
  /\ torn' = IF op[p].todo = <<>> THEN torn ELSE torn \cup {<<op[p].slug, op[p].kind>>}
  /\ \/ UNCHANGED <<active, tmp>>
     \/ /\ Doing(p, "meta") /\ active[op[p].slug].file # "missing"
        /\ active' = [active EXCEPT ![op[p].slug] = BlankMeta] /\ tmp' = tmp
     \/ Doing(p, "write") /\ tmp' = {NoSeen} /\ active' = active
  /\ UNCHANGED <<archived, snap, wal, year>>

\* No operation spans midnight of the last of December.
NewYear ==
  /\ year < MaxYear /\ \A p \in Process : op[p].todo = <<>>
  /\ year' = year + 1
  /\ UNCHANGED <<files, op, torn, crashes>>

Next ==
  \/ \E p \in Process :
       \/ FileStep(p) \/ Recover(p) \/ Crash(p)
       \/ \E s \in Slug : \/ Create(p, s) \/ Archive(p, s)
                          \/ \E to \in State : UpdateState(p, s, to)
  \/ NewYear

Spec == Init /\ [][Next]_vars

-----------------------------------------------------------------------------
\* Properties

\* The files and the operations in progress keep their types.
TypeOK ==
  /\ active \in [Slug -> Meta] /\ archived \in [Slug -> Meta]
  /\ snap \in [Slug -> Snap] /\ tmp \subseteq [Slug -> Snap] /\ wal \in [Year -> [Slug -> Entry]]
  /\ year \in Year /\ torn \subseteq Slug \X {"create", "transition", "archive"} /\ crashes \in 0..MaxCrashes
  /\ \A p \in Process :
       op[p].kind \in {"ready", "down", "create", "transition", "archive"}

Busy(s) == \E p \in Process : op[p].todo # <<>> /\ op[p].slug = s

\* Only one process works on the run.
Sole(s) == \A p, q \in Process : s \in MayUse[p] /\ s \in MayUse[q] => p = q

\* Once an operation on a run that one process works on has returned (normally: a process
\* that loses the temporary file to another gets an exception, after its log entry),
\* recovery after any later crash finds the run in the state its content-object.md shows,
\* even though processes overwrite each other's snapshot and rename each other's temporary
\* file: the log makes up for it.  This holds as long as _compact_wal deletes nothing, or
\* with one process over the years; with a change of year and a second process, it deletes
\* entries that the snapshot on disk lacks.
RecoveryAgreesWithRun ==
  \A s \in Slug : Sole(s) /\ ~Busy(s) /\ (\A t \in torn : t[1] # s) =>
    /\ active[s].file \in {"blank", "whole"} =>
         Recovered(s) = [state |-> active[s].state, status |-> "active"]
    /\ active[s].file = "missing" /\ archived[s].file # "missing" =>
         Recovered(s).status = "archived"

\* Whatever processes that share a run do to each other, as long as none dies,
\* recovery knows every run that exists and that nobody is working on.
IdleRunIsKnown ==
  \A s \in Slug : crashes = 0 /\ ~Busy(s) /\ active[s].file # "missing" =>
    RecoveredState(s) # NoState /\ RecoveredStatus(s) # "none"

\* What recovery would compute at any moment agrees with the runs on disk and knows them
\* all, although the snapshot is shared without a lock.
RecoveryInv == TypeOK /\ RecoveryAgreesWithRun /\ IdleRunIsKnown
=============================================================================
