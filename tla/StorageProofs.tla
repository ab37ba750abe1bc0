---------------------------- MODULE StorageProofs ----------------------------
(***************************************************************************)
(* Proofs about what the engine keeps (MCStorage), for any constants of its *)
(* parts: an inductive invariant of the runs, and with the invariants of    *)
(* the other parts (StoragePartsProofs) the properties of run storage.  The *)
(* parts share no state; what holds of each holds of all.                   *)
(*                                                                         *)
(* RunManager needs one of two conditions for what recovery finds to agree  *)
(* with the runs on disk.  Either recovery deletes no log file, as within   *)
(* one calendar year, or one process uses the data directory, so that no    *)
(* snapshot update is lost.  With neither it is wrong: recover() never      *)
(* saves what it replays, so _compact_wal, which goes by the year of the    *)
(* snapshot's newest run, deletes entries of others that it lacks.          *)
(***************************************************************************)
EXTENDS MCStorage, StoragePartsProofs

-----------------------------------------------------------------------------
\* The runs

USE RunAssumption

NoCompaction == MaxYear = 0 \/ MaxCrashes = 0
OneProcess   == \A p, q \in Process : p = q

\* What the log alone says of a run
StateYears(s)  == {y \in Year : wal[y][s].state # NoState}
StatusYears(s) == {y \in Year : wal[y][s].status # "none"}
LogState(s)  == IF StateYears(s) = {} THEN NoState ELSE wal[LastYear(StateYears(s))][s].state
LogStatus(s) == IF StatusYears(s) = {} THEN "none" ELSE wal[LastYear(StatusYears(s))][s].status

\* The log says v, unless its files were compacted away
StateKept(s, v)  == LogState(s) \in {NoState, v} /\ (NoCompaction => LogState(s) = v)
StatusKept(s, v) == LogStatus(s) \in {"none", v} /\ (NoCompaction => LogStatus(s) = v)

-----------------------------------------------------------------------------
\* The operations in progress, by the steps they have left

WholeMeta == [file : {"whole"}, state : State, version : Nat]

CreateTodo ==
  {CreateSteps, <<"meta", "wal", "load", "write", "replace">>,
   <<"wal", "load", "write", "replace">>, <<"load", "write", "replace">>,
   <<"write", "replace">>, <<"replace">>}
UpdateTodo ==
  {UpdateSteps, <<"load", "write", "replace", "meta">>, <<"write", "replace", "meta">>,
   <<"replace", "meta">>, <<"meta">>}
ArchiveTodo ==
  {ArchiveSteps, <<"move", "load", "write", "replace", "wal">>,
   <<"load", "write", "replace", "wal">>, <<"write", "replace", "wal">>,
   <<"replace", "wal">>, <<"wal">>}

Creates(p) == [kind : {"create"}, todo : CreateTodo, slug : MayUse[p] \cap Slug,
               meta : {NewMeta}, seen : [Slug -> Snap]]
Updates(p) == [kind : {"transition"}, todo : UpdateTodo, slug : MayUse[p] \cap Slug,
               meta : WholeMeta, seen : [Slug -> Snap]]
Archives(p) == [kind : {"archive"}, todo : ArchiveTodo, slug : MayUse[p] \cap Slug,
                meta : Meta, seen : [Slug -> Snap]]
Operation(p) == Creates(p) \cup Updates(p) \cup Archives(p)

OpsOK == /\ op = [p \in Process |-> op[p]]
         /\ \A p \in Process : op[p] \in {Ready, Down} \cup Operation(p)

Left(p)     == Len(op[p].todo)
Works(p, s) == op[p].todo # <<>> /\ op[p].slug = s
Creating(s) == \E p \in Process : Works(p, s) /\ op[p].kind = "create"

MetaOK == \A s \in Slug : active[s] \in {NoMeta, DirOnly, BlankMeta} \cup WholeMeta
NothingAhead == \A y \in Year : \A s \in Slug : y > year => wal[y][s] = NoEntry
NoneDown == crashes = 0 => \A p \in Process : op[p].kind # "down"

-----------------------------------------------------------------------------
\* The inductive invariant

\* A run with a readable file, but for an interrupted create that nothing made
\* up for, is active in the log, and in the snapshot if nobody else writes that.
RunIsLogged(s) ==
  active[s].file = "whole" /\ <<s, "create">> \notin torn /\ ~Creating(s) =>
    /\ StatusKept(s, "active")
    /\ OneProcess => snap[s].status = "active"

\* Between operations the log, or else the snapshot, agrees with the run.
IdleAgrees(s) ==
  (\A t \in torn : t[1] # s) =>
    /\ active[s].file # "blank"
    /\ ~Busy(s) /\ active[s].file = "whole" =>
         /\ StateKept(s, active[s].state)
         /\ OneProcess => snap[s].state = active[s].state
    /\ ~Busy(s) /\ active[s].file = "missing" /\ archived[s].file # "missing" =>
         /\ StatusKept(s, "archived")
         /\ OneProcess => snap[s].status = "archived"

\* The temporary file is there, and differs from the snapshot in one run.
Staged(s) == tmp # {} /\ \A c \in tmp : \A r \in Slug \ {s} : c[r] = snap[r]

\* What the steps done so far have brought about
CreateAt(p, s) ==
  /\ Left(p) = 6 => active[s].file \in {"missing", "dir"}
  /\ Left(p) = 5 => active[s].file = "dir"
  /\ Left(p) <= 4 => active[s] = NewMeta
  /\ Left(p) <= 3 => StateKept(s, InitialState) /\ StatusKept(s, "active")
  /\ Left(p) = 2 /\ OneProcess => op[p].seen = snap
  /\ Left(p) = 1 /\ OneProcess =>
       Staged(s) /\ \A c \in tmp : c[s].state = InitialState /\ c[s].status = "active"

UpdateAt(p, s) ==
  /\ active[s].file = "whole"
  /\ Left(p) <= 4 => StateKept(s, op[p].meta.state)
  /\ Left(p) = 3 /\ OneProcess => op[p].seen = snap
  /\ Left(p) = 2 /\ OneProcess =>
       Staged(s) /\ \A c \in tmp : c[s].state = op[p].meta.state /\ c[s].status = "active"
  /\ Left(p) = 1 /\ OneProcess => snap[s].state = op[p].meta.state

ArchiveAt(p, s) ==
  /\ Left(p) >= 5 <=> active[s].file # "missing"
  /\ Left(p) = 3 /\ OneProcess => op[p].seen = snap
  /\ Left(p) = 2 /\ OneProcess => Staged(s) /\ \A c \in tmp : c[s].status = "archived"
  /\ Left(p) = 1 /\ OneProcess => snap[s].status = "archived"

WorkAgrees(s) ==
  \A p \in Process : Works(p, s) =>
    /\ op[p].kind = "create" => CreateAt(p, s)
    /\ op[p].kind = "transition" => UpdateAt(p, s)
    /\ op[p].kind = "archive" => ArchiveAt(p, s)

RunInv(s) == RunIsLogged(s) /\ IdleAgrees(s) /\ WorkAgrees(s)
SoleInv == \A s \in Slug : Sole(s) => RunInv(s)

\* Without crashes a run is known to the log, or somebody is about to log it.
KnownOrCreated ==
  crashes = 0 => \A s \in Slug : active[s].file # "missing" =>
    \/ LogState(s) # NoState /\ LogStatus(s) # "none"
    \/ \E p \in Process : Works(p, s) /\ op[p].kind = "create" /\ Left(p) >= 4

ShapeInv == TypeOK /\ OpsOK /\ MetaOK /\ NothingAhead /\ NoneDown
RunsInv  == ShapeInv /\ SoleInv /\ KnownOrCreated

-----------------------------------------------------------------------------
\* Years

LEMMA LatestExists ==
  ASSUME NEW Y \in SUBSET Year, Y # {}
  PROVE  LastYear(Y) \in Y /\ \A z \in Y : z <= LastYear(Y)
<1> DEFINE T == {MaxYear - y : y \in Y}
<1> USE DEF Year
<1>1. T \in SUBSET Nat
  OBVIOUS
<1>2. T # {}
  <2>1. PICK y \in Y : TRUE
    OBVIOUS
  <2>2. MaxYear - y \in T
    BY <2>1
  <2> QED  BY <2>2
<1>3. PICK x \in T : \A t \in T : x <= t
  BY <1>1, <1>2, LeastNumber
<1>4. PICK y \in Y : x = MaxYear - y
  BY <1>3
<1>5. \A z \in Y : x <= MaxYear - z
  BY <1>3
<1>6. \A z \in Y : z <= y
  BY <1>4, <1>5
<1> QED  BY <1>6 DEF LastYear

LEMMA LastYearIs ==
  ASSUME NEW Y \in SUBSET Year, NEW y \in Y, \A z \in Y : z <= y
  PROVE  LastYear(Y) = y
<1>1. LastYear(Y) \in Y /\ \A z \in Y : z <= LastYear(Y)
  BY LatestExists
<1>2. LastYear(Y) <= y /\ y <= LastYear(Y)
  BY <1>1
<1>3. LastYear(Y) \in Year /\ y \in Year
  BY <1>1
<1>4. LastYear(Y) \in Int /\ y \in Int
  BY <1>3 DEF Year
<1> HIDE DEF LastYear
<1> QED  BY <1>2, <1>4

-----------------------------------------------------------------------------
\* The steps of an operation

LEMMA CreateTable ==
  ASSUME NEW t \in CreateTodo
  PROVE  /\ t # <<>> /\ Len(t) \in 1..6
         /\ Len(t) = 6 => Head(t) = "mkdir"
         /\ Len(t) = 5 => Head(t) = "meta"
         /\ Len(t) = 4 => Head(t) = "wal"
         /\ Len(t) = 3 => Head(t) = "load"
         /\ Len(t) = 2 => Head(t) = "write"
         /\ Len(t) = 1 => Head(t) = "replace"
         /\ Len(t) # 1 => Tail(t) \in CreateTodo /\ Len(Tail(t)) = Len(t) - 1
<1>1. CASE t = CreateSteps
  BY <1>1 DEF CreateSteps, CreateTodo
<1>2. CASE t = <<"meta", "wal", "load", "write", "replace">>
  BY <1>2 DEF CreateTodo
<1>3. CASE t = <<"wal", "load", "write", "replace">>
  BY <1>3 DEF CreateTodo
<1>4. CASE t = <<"load", "write", "replace">>
  BY <1>4 DEF CreateTodo
<1>5. CASE t = <<"write", "replace">>
  BY <1>5 DEF CreateTodo
<1>6. CASE t = <<"replace">>
  BY <1>6
<1> QED  BY <1>1, <1>2, <1>3, <1>4, <1>5, <1>6 DEF CreateTodo

LEMMA UpdateTable ==
  ASSUME NEW t \in UpdateTodo
  PROVE  /\ t # <<>> /\ Len(t) \in 1..5
         /\ Len(t) = 5 => Head(t) = "wal"
         /\ Len(t) = 4 => Head(t) = "load"
         /\ Len(t) = 3 => Head(t) = "write"
         /\ Len(t) = 2 => Head(t) = "replace"
         /\ Len(t) = 1 => Head(t) = "meta"
         /\ Len(t) # 1 => Tail(t) \in UpdateTodo /\ Len(Tail(t)) = Len(t) - 1
<1>1. CASE t = UpdateSteps
  BY <1>1 DEF UpdateSteps, UpdateTodo
<1>2. CASE t = <<"load", "write", "replace", "meta">>
  BY <1>2 DEF UpdateTodo
<1>3. CASE t = <<"write", "replace", "meta">>
  BY <1>3 DEF UpdateTodo
<1>4. CASE t = <<"replace", "meta">>
  BY <1>4 DEF UpdateTodo
<1>5. CASE t = <<"meta">>
  BY <1>5
<1> QED  BY <1>1, <1>2, <1>3, <1>4, <1>5 DEF UpdateTodo

LEMMA ArchiveTable ==
  ASSUME NEW t \in ArchiveTodo
  PROVE  /\ t # <<>> /\ Len(t) \in 1..6
         /\ Len(t) = 6 => Head(t) = "remove"
         /\ Len(t) = 5 => Head(t) = "move"
         /\ Len(t) = 4 => Head(t) = "load"
         /\ Len(t) = 3 => Head(t) = "write"
         /\ Len(t) = 2 => Head(t) = "replace"
         /\ Len(t) = 1 => Head(t) = "wal"
         /\ Len(t) # 1 => Tail(t) \in ArchiveTodo /\ Len(Tail(t)) = Len(t) - 1
<1>1. CASE t = ArchiveSteps
  BY <1>1 DEF ArchiveSteps, ArchiveTodo
<1>2. CASE t = <<"move", "load", "write", "replace", "wal">>
  BY <1>2 DEF ArchiveTodo
<1>3. CASE t = <<"load", "write", "replace", "wal">>
  BY <1>3 DEF ArchiveTodo
<1>4. CASE t = <<"write", "replace", "wal">>
  BY <1>4 DEF ArchiveTodo
<1>5. CASE t = <<"replace", "wal">>
  BY <1>5 DEF ArchiveTodo
<1>6. CASE t = <<"wal">>
  BY <1>6
<1> QED  BY <1>1, <1>2, <1>3, <1>4, <1>5, <1>6 DEF ArchiveTodo

\* The kinds of operation, with the step each of them does next
LEMMA Underway ==
  ASSUME OpsOK, NEW p \in Process, op[p].todo # <<>>
  PROVE  /\ op[p] \in Operation(p)
         /\ op[p].slug \in Slug /\ op[p].slug \in MayUse[p]
         /\ Left(p) \in 1..6
         /\ \/ op[p].kind = "create" /\ op[p] \in Creates(p)
            \/ op[p].kind = "transition" /\ op[p] \in Updates(p)
            \/ op[p].kind = "archive" /\ op[p] \in Archives(p)
<1>1. op[p] \in Operation(p)
  BY DEF OpsOK, Ready, Down
<1>2. CASE op[p] \in Creates(p)
  BY <1>1, <1>2, CreateTable DEF Creates, Left
<1>3. CASE op[p] \in Updates(p)
  <2>1. Len(op[p].todo) \in 1..5
    BY <1>3, UpdateTable DEF Updates
  <2> QED  BY <1>1, <1>3, <2>1 DEF Updates, Left
<1>4. CASE op[p] \in Archives(p)
  BY <1>1, <1>4, ArchiveTable DEF Archives, Left
<1> QED  BY <1>1, <1>2, <1>3, <1>4 DEF Operation

\* After its last step an operation is over, and otherwise has one step less.
LEMMA DoneResult ==
  ASSUME OpsOK, NEW p \in Process, op[p].todo # <<>>,
         NEW seen \in [Slug -> Snap], Done(p, seen)
  PROVE  /\ OpsOK'
         /\ \A q \in Process : q # p => op'[q] = op[q]
         /\ Left(p) = 1 => op'[p] = Ready /\ torn' = torn \ MadeUpFor(op[p])
         /\ Left(p) # 1 =>
              /\ torn' = torn /\ Left(p)' = Left(p) - 1 /\ op'[p].todo # <<>>
              /\ op'[p].slug = op[p].slug /\ op'[p].kind = op[p].kind
              /\ op'[p].meta = op[p].meta /\ op'[p].seen = seen
         /\ UNCHANGED <<year, crashes>>
<1>1. op[p] \in Operation(p) /\ Left(p) \in 1..6
  BY Underway
<1>2. /\ op' = [q \in Process |-> op'[q]]
      /\ \A q \in Process : q # p => op'[q] = op[q]
  BY DEF Done, OpsOK
<1>3. op'[p] = IF Left(p) = 1 THEN Ready
               ELSE [op[p] EXCEPT !.todo = Tail(op[p].todo), !.seen = seen]
  BY DEF Done, OpsOK, Left
<1>4. ASSUME Left(p) # 1
      PROVE  /\ op'[p] \in Operation(p) /\ Left(p)' = Left(p) - 1 /\ op'[p].todo # <<>>
             /\ op'[p].slug = op[p].slug /\ op'[p].kind = op[p].kind
             /\ op'[p].meta = op[p].meta /\ op'[p].seen = seen
  <2>1. CASE op[p] \in Creates(p)
    <3>1. Tail(op[p].todo) \in CreateTodo /\ Len(Tail(op[p].todo)) = Len(op[p].todo) - 1
      BY <1>4, <2>1, CreateTable DEF Creates, Left
    <3>2. Tail(op[p].todo) # <<>>
      BY <3>1, CreateTable
    <3> QED  BY <1>3, <1>4, <2>1, <3>1, <3>2 DEF Creates, Operation, Left
  <2>2. CASE op[p] \in Updates(p)
    <3>1. Tail(op[p].todo) \in UpdateTodo /\ Len(Tail(op[p].todo)) = Len(op[p].todo) - 1
      BY <1>4, <2>2, UpdateTable DEF Updates, Left
    <3>2. Tail(op[p].todo) # <<>>
      BY <3>1, UpdateTable
    <3> QED  BY <1>3, <1>4, <2>2, <3>1, <3>2 DEF Updates, Operation, Left
  <2>3. CASE op[p] \in Archives(p)
    <3>1. Tail(op[p].todo) \in ArchiveTodo /\ Len(Tail(op[p].todo)) = Len(op[p].todo) - 1
      BY <1>4, <2>3, ArchiveTable DEF Archives, Left
    <3>2. Tail(op[p].todo) # <<>>
      BY <3>1, ArchiveTable
    <3> QED  BY <1>3, <1>4, <2>3, <3>1, <3>2 DEF Archives, Operation, Left
  <2> QED  BY <1>1, <2>1, <2>2, <2>3 DEF Operation
<1>5. OpsOK'
  BY <1>2, <1>3, <1>4 DEF OpsOK, Operation, Creates, Updates, Archives
<1>6. torn' = IF Left(p) = 1 THEN torn \ MadeUpFor(op[p]) ELSE torn
  BY DEF Done, Left
<1> QED  BY <1>2, <1>3, <1>4, <1>5, <1>6 DEF Done

-----------------------------------------------------------------------------
\* What the log says of a run

LEMMA LogSame ==
  ASSUME wal' = wal
  PROVE  \A s : LogState(s)' = LogState(s) /\ LogStatus(s)' = LogStatus(s)
BY DEF LogState, LogStatus, StateYears, StatusYears

\* An entry written in the current year counts, for its run.
LEMMA LogAppended ==
  ASSUME TypeOK, NothingAhead, NEW s \in Slug, NEW e \in Entry,
         wal' = [wal EXCEPT ![year][s] = e]
  PROVE  /\ \A r \in Slug \ {s} : LogState(r)' = LogState(r) /\ LogStatus(r)' = LogStatus(r)
         /\ e.state # NoState => LogState(s)' = e.state
         /\ e.status # "none" => LogStatus(s)' = e.status
         /\ e.state = wal[year][s].state => LogState(s)' = LogState(s)
         /\ e.status = wal[year][s].status => LogStatus(s)' = LogStatus(s)
<1>1. year \in Year /\ wal \in [Year -> [Slug -> Entry]]
  BY DEF TypeOK
<1>2. \A y \in Year : \A r \in Slug :
        wal'[y][r] = IF y = year /\ r = s THEN e ELSE wal[y][r]
  BY <1>1
<1>3. \A r \in Slug \ {s} : LogState(r)' = LogState(r) /\ LogStatus(r)' = LogStatus(r)
  <2> TAKE r \in Slug \ {s}
  <2>1. StateYears(r)' = StateYears(r) /\ StatusYears(r)' = StatusYears(r)
    BY <1>2 DEF StateYears, StatusYears
  <2>2. StateYears(r) # {} => LastYear(StateYears(r)) \in Year
    BY LatestExists DEF StateYears
  <2>3. StatusYears(r) # {} => LastYear(StatusYears(r)) \in Year
    BY LatestExists DEF StatusYears
  <2> QED  BY <1>2, <2>1, <2>2, <2>3 DEF LogState, LogStatus
<1>4. \A y \in Year : y # year =>
        ((wal[y][s].state # NoState \/ wal[y][s].status # "none") => y <= year)
  <2> TAKE y \in Year
  <2>1. y \in Int /\ year \in Int
    BY <1>1 DEF Year
  <2> QED  BY <2>1 DEF NothingAhead, NoEntry
<1>5. ASSUME e.state # NoState PROVE LogState(s)' = e.state
  <2>1. year \in StateYears(s)' /\ StateYears(s)' \in SUBSET Year
    BY <1>1, <1>2, <1>5 DEF StateYears
  <2>2. \A z \in StateYears(s)' : z <= year
    BY <1>1, <1>2, <1>4 DEF StateYears, Year
  <2>3. LastYear(StateYears(s)') = year
    BY <2>1, <2>2, LastYearIs
  <2> QED  BY <1>1, <1>2, <2>1, <2>3 DEF LogState
<1>6. ASSUME e.status # "none" PROVE LogStatus(s)' = e.status
  <2>1. year \in StatusYears(s)' /\ StatusYears(s)' \in SUBSET Year
    BY <1>1, <1>2, <1>6 DEF StatusYears
  <2>2. \A z \in StatusYears(s)' : z <= year
    BY <1>1, <1>2, <1>4 DEF StatusYears, Year
  <2>3. LastYear(StatusYears(s)') = year
    BY <2>1, <2>2, LastYearIs
  <2> QED  BY <1>1, <1>2, <2>1, <2>3 DEF LogStatus
<1>7. ASSUME e.state = wal[year][s].state PROVE LogState(s)' = LogState(s)
  <2>1. StateYears(s)' = StateYears(s)
    BY <1>2, <1>7 DEF StateYears
  <2>2. StateYears(s) # {} => LastYear(StateYears(s)) \in Year
    BY LatestExists DEF StateYears
  <2> QED  BY <1>2, <1>7, <2>1, <2>2 DEF LogState
<1>8. ASSUME e.status = wal[year][s].status PROVE LogStatus(s)' = LogStatus(s)
  <2>1. StatusYears(s)' = StatusYears(s)
    BY <1>2, <1>8 DEF StatusYears
  <2>2. StatusYears(s) # {} => LastYear(StatusYears(s)) \in Year
    BY LatestExists DEF StatusYears
  <2> QED  BY <1>2, <1>8, <2>1, <2>2 DEF LogStatus
<1> QED  BY <1>3, <1>5, <1>6, <1>7, <1>8

\* The years of the updates have a latest one.
LEMMA UpdatedYears ==
  ASSUME TypeOK, Slug # {}
  PROVE  LastYear({UpdatedYear(s) : s \in Slug}) \in Year
<1>1. ASSUME NEW s \in Slug PROVE UpdatedYear(s) \in Year
  <2> DEFINE Y == {y \in Year : wal[y][s] # NoEntry}
  <2>1. Y # {} => LastYear(Y) \in Year
    BY LatestExists
  <2>2. snap[s].year \in Year
    BY DEF TypeOK, Snap
  <2>3. UpdatedYear(s) = IF Y = {} THEN snap[s].year ELSE LastYear(Y)
    BY DEF UpdatedYear
  <2> QED  BY <2>1, <2>2, <2>3
<1>2. {UpdatedYear(s) : s \in Slug} \in SUBSET Year /\ {UpdatedYear(s) : s \in Slug} # {}
  BY <1>1
<1> QED  BY <1>2, LatestExists

\* Compaction deletes what the log says of a run, or leaves it alone.
LEMMA LogCompacted ==
  ASSUME TypeOK, NEW s \in Slug, wal' = CompactedWal
  PROVE  /\ LogState(s)' \in {NoState, LogState(s)}
         /\ LogStatus(s)' \in {"none", LogStatus(s)}
         /\ MaxYear = 0 => LogState(s)' = LogState(s) /\ LogStatus(s)' = LogStatus(s)
<1> DEFINE latest == LastYear({UpdatedYear(r) : r \in Slug})
<1>1. latest \in Year
  BY UpdatedYears
<1>2. \A y \in Year : wal'[y][s] = IF y < latest THEN NoEntry ELSE wal[y][s]
  BY DEF CompactedWal
<1> HIDE DEF latest
<1>3. LogState(s)' \in {NoState, LogState(s)}
  <2>1. CASE StateYears(s)' = {}
    BY <2>1 DEF LogState
  <2>2. CASE StateYears(s)' # {}
    <3>1. PICK z \in StateYears(s)' : TRUE
      BY <2>2
    <3>2. z \in StateYears(s) /\ ~(z < latest)
      BY <1>2, <3>1 DEF StateYears, NoEntry
    <3>3. /\ LastYear(StateYears(s)) \in StateYears(s)
          /\ \A y \in StateYears(s) : y <= LastYear(StateYears(s))
      BY <3>2, LatestExists DEF StateYears
    <3> DEFINE last == LastYear(StateYears(s))
    <3>4. last \in Year /\ z \in Year /\ z <= last
      BY <3>2, <3>3 DEF StateYears
    <3> HIDE DEF last
    <3>5. ~(last < latest)
      BY <1>1, <3>2, <3>4 DEF Year
    <3>6. last \in StateYears(s)' /\ wal'[last][s] = wal[last][s]
      BY <1>2, <3>3, <3>4, <3>5 DEF StateYears, last
    <3>7. StateYears(s)' \subseteq StateYears(s)
      BY <1>2 DEF StateYears, NoEntry
    <3>8. LastYear(StateYears(s)') = last
      <4>1. \A y \in StateYears(s)' : y <= last
        BY <3>3, <3>7 DEF last
      <4>2. StateYears(s)' \in SUBSET Year
        BY DEF StateYears
      <4> QED  BY <3>6, <4>1, <4>2, LastYearIs
    <3> QED  BY <2>2, <3>2, <3>6, <3>8 DEF LogState, last
  <2> QED  BY <2>1, <2>2
<1>4. LogStatus(s)' \in {"none", LogStatus(s)}
  <2>1. CASE StatusYears(s)' = {}
    BY <2>1 DEF LogStatus
  <2>2. CASE StatusYears(s)' # {}
    <3>1. PICK z \in StatusYears(s)' : TRUE
      BY <2>2
    <3>2. z \in StatusYears(s) /\ ~(z < latest)
      BY <1>2, <3>1 DEF StatusYears, NoEntry
    <3>3. /\ LastYear(StatusYears(s)) \in StatusYears(s)
          /\ \A y \in StatusYears(s) : y <= LastYear(StatusYears(s))
      BY <3>2, LatestExists DEF StatusYears
    <3> DEFINE last == LastYear(StatusYears(s))
    <3>4. last \in Year /\ z \in Year /\ z <= last
      BY <3>2, <3>3 DEF StatusYears
    <3> HIDE DEF last
    <3>5. ~(last < latest)
      BY <1>1, <3>2, <3>4 DEF Year
    <3>6. last \in StatusYears(s)' /\ wal'[last][s] = wal[last][s]
      BY <1>2, <3>3, <3>4, <3>5 DEF StatusYears, last
    <3>7. StatusYears(s)' \subseteq StatusYears(s)
      BY <1>2 DEF StatusYears, NoEntry
    <3>8. LastYear(StatusYears(s)') = last
      <4>1. \A y \in StatusYears(s)' : y <= last
        BY <3>3, <3>7 DEF last
      <4>2. StatusYears(s)' \in SUBSET Year
        BY DEF StatusYears
      <4> QED  BY <3>6, <4>1, <4>2, LastYearIs
    <3> QED  BY <2>2, <3>2, <3>6, <3>8 DEF LogStatus, last
  <2> QED  BY <2>1, <2>2
<1>5. ASSUME MaxYear = 0
      PROVE  LogState(s)' = LogState(s) /\ LogStatus(s)' = LogStatus(s)
  <2>1. \A y \in Year : ~(y < latest)
    BY <1>1, <1>5 DEF Year
  <2>2. StateYears(s)' = StateYears(s) /\ StatusYears(s)' = StatusYears(s)
    BY <1>2, <2>1 DEF StateYears, StatusYears
  <2>3. StateYears(s) # {} => LastYear(StateYears(s)) \in Year
    BY LatestExists DEF StateYears
  <2>4. StatusYears(s) # {} => LastYear(StatusYears(s)) \in Year
    BY LatestExists DEF StatusYears
  <2> QED  BY <1>2, <2>1, <2>2, <2>3, <2>4 DEF LogState, LogStatus
<1> QED  BY <1>3, <1>4, <1>5

-----------------------------------------------------------------------------
\* Steps that are not about a run

\* The log goes on to say what it said of s, but for compaction.
LogKept(s) ==
  /\ LogState(s)' \in {NoState, LogState(s)} /\ LogStatus(s)' \in {"none", LogStatus(s)}
  /\ NoCompaction => LogState(s)' = LogState(s) /\ LogStatus(s)' = LogStatus(s)

LEMMA SameLogKept ==
  ASSUME wal' = wal
  PROVE  \A s \in Slug : LogKept(s)
BY LogSame DEF LogKept

LEMMA RecoverKeepsLog ==
  ASSUME ShapeInv, NEW p \in Process, Recover(p), NEW s \in Slug
  PROVE  LogKept(s)
<1>1. MaxCrashes # 0
  BY DEF ShapeInv, NoneDown, TypeOK, Recover
<1>2. wal' = CompactedWal /\ TypeOK
  BY DEF Recover, ShapeInv
<1> QED  BY <1>1, <1>2, LogCompacted DEF LogKept, NoCompaction

OtherRun(s) ==
  /\ active'[s] = active[s] /\ archived'[s] = archived[s]
  /\ \A t : t[1] = s => (t \in torn' <=> t \in torn)
  /\ \A q \in Process : (Works(q, s)' <=> Works(q, s)) /\ (Works(q, s) => op'[q] = op[q])
  /\ LogKept(s)
  /\ OneProcess => /\ snap'[s] = snap[s]
                   /\ UNCHANGED <<snap, tmp>> \/ \A q \in Process : ~Works(q, s)

LEMMA OtherRunInv ==
  ASSUME NEW s \in Slug, RunInv(s), OtherRun(s)
  PROVE  RunInv(s)'
<1> USE DEF OtherRun
<1>1. (Busy(s)' <=> Busy(s)) /\ (Creating(s)' <=> Creating(s))
  BY DEF Busy, Creating, Works
<1>2. RunIsLogged(s)'
  <2>1. <<s, "create">> \in torn' <=> <<s, "create">> \in torn
    OBVIOUS
  <2> QED  BY <1>1, <2>1 DEF RunInv, RunIsLogged, StatusKept, LogKept
<1>3. IdleAgrees(s)'
  <2>1. (\A t \in torn' : t[1] # s) => (\A t \in torn : t[1] # s)
    OBVIOUS
  <2> QED  BY <1>1, <2>1 DEF RunInv, IdleAgrees, StateKept, StatusKept, LogKept
<1>4. WorkAgrees(s)'
  <2> SUFFICES ASSUME NEW q \in Process, Works(q, s)'
               PROVE  /\ op'[q].kind = "create" => CreateAt(q, s)'
                      /\ op'[q].kind = "transition" => UpdateAt(q, s)'
                      /\ op'[q].kind = "archive" => ArchiveAt(q, s)'
    BY DEF WorkAgrees
  <2>1. /\ Works(q, s) /\ op'[q] = op[q] /\ Left(q)' = Left(q)
        /\ OneProcess => UNCHANGED <<snap, tmp>>
    BY DEF Left
  <2>2. op[q].kind = "create" => CreateAt(q, s)'
    BY <2>1 DEF RunInv, WorkAgrees, CreateAt, Staged, StateKept, StatusKept, LogKept
  <2>3. op[q].kind = "transition" => UpdateAt(q, s)'
    BY <2>1 DEF RunInv, WorkAgrees, UpdateAt, Staged, StateKept, StatusKept, LogKept
  <2>4. op[q].kind = "archive" => ArchiveAt(q, s)'
    BY <2>1 DEF RunInv, WorkAgrees, ArchiveAt, Staged, StateKept, StatusKept, LogKept
  <2> QED  BY <2>1, <2>2, <2>3, <2>4
<1> QED  BY <1>2, <1>3, <1>4 DEF RunInv

\* Only its one process works on a run that no other may use.
LEMMA OnlyWorker ==
  ASSUME OpsOK, NEW s \in Slug, Sole(s), NEW p \in Process, s \in MayUse[p],
         NEW q \in Process, Works(q, s)
  PROVE  q = p
<1>1. s \in MayUse[q]
  BY Underway DEF Works
<1> QED  BY <1>1 DEF Sole

-----------------------------------------------------------------------------
\* The steps of an operation on a run of its own

\* What a step leaves to be done for the run
LEMMA OwnStep ==
  ASSUME ShapeInv, NEW s \in Slug, Sole(s), NEW p \in Process, Works(p, s),
         NEW seen \in [Slug -> Snap], Done(p, seen)
  PROVE  /\ \A q \in Process : Works(q, s) \/ Works(q, s)' => q = p
         /\ Left(p) = 1 => /\ ~Busy(s)' /\ ~Creating(s)' /\ WorkAgrees(s)'
                           /\ torn' = torn \ MadeUpFor(op[p])
         /\ Left(p) # 1 => /\ Works(p, s)' /\ torn' = torn /\ Left(p)' = Left(p) - 1
                           /\ op'[p].kind = op[p].kind /\ op'[p].meta = op[p].meta
                           /\ op'[p].seen = seen
<1>1. OpsOK /\ op[p].todo # <<>> /\ s \in MayUse[p]
  BY Underway DEF ShapeInv, Works
<1>2. /\ OpsOK'
      /\ Left(p) = 1 => op'[p] = Ready /\ torn' = torn \ MadeUpFor(op[p])
      /\ Left(p) # 1 =>
           /\ torn' = torn /\ Left(p)' = Left(p) - 1 /\ op'[p].todo # <<>>
           /\ op'[p].slug = op[p].slug /\ op'[p].kind = op[p].kind
           /\ op'[p].meta = op[p].meta /\ op'[p].seen = seen
  BY <1>1, DoneResult
<1>3. ASSUME NEW q \in Process, Works(q, s) PROVE q = p
  BY <1>1, <1>3, OnlyWorker
<1>4. ASSUME NEW q \in Process, Works(q, s)' PROVE q = p
  <2>1. q # p => op'[q] = op[q]
    BY <1>1, DoneResult
  <2>2. q # p => Works(q, s)
    BY <1>4, <2>1 DEF Works
  <2> QED  BY <1>3, <2>2
<1>5. ASSUME Left(p) = 1 PROVE \A q \in Process : ~Works(q, s)'
  BY <1>2, <1>4, <1>5 DEF Works, Ready
<1>6. ASSUME Left(p) = 1 PROVE ~Busy(s)' /\ ~Creating(s)' /\ WorkAgrees(s)'
  BY <1>5, <1>6 DEF Busy, Creating, WorkAgrees, Works
<1>7. Left(p) # 1 => Works(p, s)'
  BY <1>2 DEF Works
<1> QED  BY <1>2, <1>3, <1>4, <1>6, <1>7

\* The invariant of a run that p goes on to work on
LEMMA StillWorking ==
  ASSUME NEW s \in Slug, NEW p \in Process, \A q \in Process : Works(q, s)' => q = p,
         Works(p, s)', (\A t \in torn' : t[1] # s) => active'[s].file # "blank",
         RunIsLogged(s)',
         op'[p].kind = "create" => CreateAt(p, s)',
         op'[p].kind = "transition" => UpdateAt(p, s)',
         op'[p].kind = "archive" => ArchiveAt(p, s)'
  PROVE  RunInv(s)'
<1>1. Busy(s)'
  BY DEF Busy, Works
<1>2. IdleAgrees(s)'
  BY <1>1 DEF IdleAgrees
<1>3. WorkAgrees(s)'
  BY DEF WorkAgrees
<1> QED  BY <1>2, <1>3 DEF RunInv

LEMMA NoSeenType == NoSeen \in [Slug -> Snap]
BY DEF NoSeen, NoSnap, Snap, Year

\* The step an operation takes is the next one on its list, or an exception.
LEMMA NextStep ==
  ASSUME NEW p \in Process, FileStep(p)
  PROVE  LET step == Head(op[p].todo)
         IN  /\ op[p].todo # <<>>
             /\ step = "mkdir" => MakeDirectory(p)
             /\ step = "meta" => WriteMeta(p) \/ (Raise(p) /\ active[op[p].slug].file = "missing")
             /\ step = "wal" => AppendWal(p)
             /\ step = "load" => LoadSnapshot(p)
             /\ step = "write" => WriteSnapshot(p)
             /\ step = "replace" => ReplaceSnapshot(p) \/ (Raise(p) /\ tmp = {})
             /\ step = "remove" => RemoveOldArchive(p)
             /\ step = "move" => MoveToArchive(p) \/ (Raise(p) /\ active[op[p].slug].file = "missing")
BY DEF FileStep, Doing, MakeDirectory, WriteMeta, AppendWal, LoadSnapshot, WriteSnapshot,
   ReplaceSnapshot, RemoveOldArchive, MoveToArchive, Raise

\* An exception ends the operation.
LEMMA RaiseEnds ==
  ASSUME ShapeInv, NEW s \in Slug, Sole(s), NEW p \in Process, Works(p, s), Raise(p)
  PROVE  /\ UNCHANGED <<active, archived, snap, tmp, wal>>
         /\ torn' = torn \cup CutShort(op[p])
         /\ ~Busy(s)' /\ ~Creating(s)' /\ WorkAgrees(s)'
<1>1. OpsOK /\ op[p].todo # <<>> /\ s \in MayUse[p]
  BY Underway DEF ShapeInv, Works
<1>2. \A q \in Process : op'[q] = IF q = p THEN Ready ELSE op[q]
  BY <1>1 DEF Raise, OpsOK
<1>3. \A q \in Process : Works(q, s) => q = p
  BY <1>1, OnlyWorker
<1>4. \A q \in Process : ~Works(q, s)'
  BY <1>2, <1>3 DEF Works, Ready
<1>5. ~Busy(s)' /\ ~Creating(s)' /\ WorkAgrees(s)'
  BY <1>4 DEF Busy, Creating, WorkAgrees, Works
<1> QED  BY <1>5 DEF Raise, files

\* With the snapshot written, the temporary file differs from it in the run.
LEMMA WriteStages ==
  ASSUME ShapeInv, NEW s \in Slug, NEW p \in Process, Works(p, s), WriteSnapshot(p),
         op[p].seen = snap
  PROVE  /\ Staged(s)' /\ snap' = snap
         /\ \A c \in tmp' :
              /\ op[p].kind = "create" => c[s].state = op[p].meta.state /\ c[s].status = "active"
              /\ op[p].kind = "transition" =>
                   c[s].state = op[p].meta.state /\ c[s].status = "active"
              /\ op[p].kind = "archive" => c[s].status = "archived"
<1>1. snap \in [Slug -> Snap] /\ op[p].slug = s /\ snap[s] \in Snap
  BY DEF ShapeInv, TypeOK, Works
<1>2. tmp' = {[snap EXCEPT ![s] = Saved(snap[s], op[p])]} /\ snap' = snap
  BY <1>1 DEF WriteSnapshot
<1>3. \A c \in tmp' : /\ c[s] = Saved(snap[s], op[p])
                      /\ \A r \in Slug \ {s} : c[r] = snap[r]
  BY <1>1, <1>2
<1> QED  BY <1>1, <1>2, <1>3 DEF Staged, Saved, Snap

LEMMA CreateStepInv ==
  ASSUME ShapeInv, NEW s \in Slug, Sole(s), NEW p \in Process, Works(p, s),
         op[p].kind = "create", FileStep(p), RunInv(s)
  PROVE  RunInv(s)'
<1>1. /\ op[p] \in Creates(p) /\ op[p].todo \in CreateTodo /\ op[p].meta = NewMeta
      /\ op[p].slug = s /\ Left(p) \in 1..6 /\ OpsOK /\ TypeOK
  BY Underway DEF ShapeInv, Works, Creates, Updates, Archives
<1>2. CreateAt(p, s)
  BY DEF RunInv, WorkAgrees
<1>3. active \in [Slug -> Meta] /\ snap \in [Slug -> Snap] /\ NoSeen \in [Slug -> Snap]
  BY <1>1, NoSeenType DEF TypeOK
<1>4. CASE Left(p) = 6
  <2>1. MakeDirectory(p)
    BY <1>1, <1>4, CreateTable, NextStep DEF Left
  <2>2. active'[s].file = "dir"
    BY <1>1, <1>2, <1>3, <1>4, <2>1 DEF MakeDirectory, CreateAt, DirOnly
  <2>3. /\ \A q \in Process : Works(q, s)' => q = p
        /\ Works(p, s)' /\ Left(p)' = 5 /\ op'[p].kind = "create"
    BY <1>3, <1>4, <2>1, OwnStep DEF MakeDirectory
  <2>4. CreateAt(p, s)' /\ RunIsLogged(s)'
    BY <2>2, <2>3 DEF CreateAt, RunIsLogged
  <2> QED  BY <2>2, <2>3, <2>4, StillWorking
<1>5. CASE Left(p) = 5
  <2>1. WriteMeta(p)
    BY <1>1, <1>2, <1>5, CreateTable, NextStep DEF Left, CreateAt
  <2>2. active'[s] = NewMeta /\ active'[s].file = "whole"
    BY <1>1, <1>3, <2>1 DEF WriteMeta, NewMeta
  <2>3. /\ \A q \in Process : Works(q, s)' => q = p
        /\ Works(p, s)' /\ Left(p)' = 4 /\ op'[p].kind = "create"
    BY <1>3, <1>5, <2>1, OwnStep DEF WriteMeta
  <2>4. CreateAt(p, s)' /\ RunIsLogged(s)'
    BY <2>2, <2>3 DEF CreateAt, RunIsLogged, Creating
  <2> QED  BY <2>2, <2>3, <2>4, StillWorking
<1>6. CASE Left(p) = 4
  <2>1. AppendWal(p)
    BY <1>1, <1>6, CreateTable, NextStep DEF Left
  <2>2. active'[s] = NewMeta /\ active'[s].file = "whole"
    BY <1>1, <1>2, <1>6, <2>1 DEF AppendWal, NewMeta, CreateAt
  <2>3. /\ \A q \in Process : Works(q, s)' => q = p
        /\ Works(p, s)' /\ Left(p)' = 3 /\ op'[p].kind = "create"
    BY <1>3, <1>6, <2>1, OwnStep DEF AppendWal
  <2>4. LogState(s)' = InitialState /\ LogStatus(s)' = "active"
    <3> DEFINE e == [state |-> InitialState, status |-> "active"]
    <3>1. e \in Entry /\ e.state # NoState /\ e.status # "none"
      BY DEF Entry
    <3>2. wal' = [wal EXCEPT ![year][s] = e]
      BY <1>1, <2>1 DEF AppendWal, Logged, NewMeta
    <3> HIDE DEF e
    <3>3. LogState(s)' = e.state /\ LogStatus(s)' = e.status
      BY <1>1, <3>1, <3>2, LogAppended DEF ShapeInv
    <3> QED  BY <3>3 DEF e
  <2>5. CreateAt(p, s)' /\ RunIsLogged(s)'
    BY <2>2, <2>3, <2>4 DEF CreateAt, RunIsLogged, Creating, StateKept, StatusKept
  <2> QED  BY <2>2, <2>3, <2>5, StillWorking
<1>7. CASE Left(p) = 3
  <2>1. LoadSnapshot(p)
    BY <1>1, <1>7, CreateTable, NextStep DEF Left
  <2>2. active'[s] = NewMeta /\ active'[s].file = "whole" /\ wal' = wal /\ snap' = snap
    BY <1>1, <1>2, <1>7, <2>1 DEF LoadSnapshot, NewMeta, CreateAt, files
  <2>3. /\ \A q \in Process : Works(q, s)' => q = p
        /\ Works(p, s)' /\ Left(p)' = 2 /\ op'[p].kind = "create" /\ op'[p].seen = snap
    BY <1>3, <1>7, <2>1, OwnStep DEF LoadSnapshot
  <2>4. CreateAt(p, s)' /\ RunIsLogged(s)'
    BY <1>2, <1>7, <2>2, <2>3, LogSame
    DEF CreateAt, RunIsLogged, Creating, StateKept, StatusKept
  <2> QED  BY <2>2, <2>3, <2>4, StillWorking
<1>8. CASE Left(p) = 2
  <2>1. WriteSnapshot(p)
    BY <1>1, <1>8, CreateTable, NextStep DEF Left
  <2>2. active'[s] = NewMeta /\ active'[s].file = "whole" /\ wal' = wal
    BY <1>1, <1>2, <1>8, <2>1 DEF WriteSnapshot, NewMeta, CreateAt
  <2>3. /\ \A q \in Process : Works(q, s)' => q = p
        /\ Works(p, s)' /\ Left(p)' = 1 /\ op'[p].kind = "create"
    BY <1>3, <1>8, <2>1, OwnStep DEF WriteSnapshot
  <2>4. OneProcess => /\ Staged(s)'
                      /\ \A c \in tmp' : c[s].state = InitialState /\ c[s].status = "active"
    BY <1>1, <1>2, <1>8, <2>1, WriteStages DEF CreateAt, NewMeta
  <2>5. StateKept(s, InitialState)' /\ StatusKept(s, "active")'
    BY <1>2, <1>8, <2>2, LogSame DEF CreateAt, StateKept, StatusKept
  <2>6. CreateAt(p, s)' /\ RunIsLogged(s)'
    BY <2>2, <2>3, <2>4, <2>5 DEF CreateAt, RunIsLogged, Creating
  <2> QED  BY <2>2, <2>3, <2>6, StillWorking
<1>9. CASE Left(p) = 1
  <2>1. /\ active[s] = NewMeta /\ StateKept(s, InitialState) /\ StatusKept(s, "active")
        /\ OneProcess => Staged(s) /\ \A c \in tmp : c[s].state = InitialState
                                                     /\ c[s].status = "active"
    BY <1>2, <1>9 DEF CreateAt
  <2>2. /\ UNCHANGED <<active, wal>> /\ ~Busy(s)' /\ WorkAgrees(s)'
        /\ OneProcess => snap'[s].state = InitialState /\ snap'[s].status = "active"
    <3>1. CASE ReplaceSnapshot(p)
      <4>1. ~Busy(s)' /\ WorkAgrees(s)'
        BY <1>3, <1>9, <3>1, OwnStep DEF ReplaceSnapshot
      <4> QED  BY <2>1, <3>1, <4>1 DEF ReplaceSnapshot
    <3>2. CASE Raise(p) /\ tmp = {}
      BY <2>1, <3>2, RaiseEnds DEF Staged
    <3> QED  BY <1>1, <1>9, <3>1, <3>2, CreateTable, NextStep DEF Left
  <2>3. StateKept(s, InitialState)' /\ StatusKept(s, "active")'
    BY <2>1, <2>2, LogSame DEF StateKept, StatusKept
  <2>4. RunIsLogged(s)' /\ IdleAgrees(s)'
    BY <2>1, <2>2, <2>3 DEF RunIsLogged, IdleAgrees, NewMeta, StateKept
  <2> QED  BY <2>2, <2>4 DEF RunInv
<1> QED  BY <1>1, <1>4, <1>5, <1>6, <1>7, <1>8, <1>9

\* RunIsLogged carries over a transition's or an archive's steps.
LEMMA StillLogged ==
  ASSUME ShapeInv, NEW s \in Slug, Sole(s), NEW p \in Process, Works(p, s),
         op[p].kind \in {"transition", "archive"}, RunIsLogged(s),
         active[s].file = "whole", <<s, "create">> \in torn => <<s, "create">> \in torn'
  PROVE  <<s, "create">> \notin torn' =>
           StatusKept(s, "active") /\ (OneProcess => snap[s].status = "active")
<1>1. OpsOK /\ s \in MayUse[p]
  BY Underway DEF ShapeInv, Works
<1>2. ~Creating(s)
  BY <1>1, OnlyWorker DEF Creating
<1> QED  BY <1>2 DEF RunIsLogged

LEMMA UpdateStepInv ==
  ASSUME ShapeInv, NEW s \in Slug, Sole(s), NEW p \in Process, Works(p, s),
         op[p].kind = "transition", FileStep(p), RunInv(s)
  PROVE  RunInv(s)'
<1>1. /\ op[p] \in Updates(p) /\ op[p].todo \in UpdateTodo /\ op[p].meta \in WholeMeta
      /\ op[p].slug = s /\ OpsOK /\ TypeOK
  BY Underway DEF ShapeInv, Works, Creates, Updates, Archives
<1>2. UpdateAt(p, s) /\ RunIsLogged(s) /\ IdleAgrees(s)
  BY DEF RunInv, WorkAgrees
<1>3. active \in [Slug -> Meta] /\ snap \in [Slug -> Snap] /\ NoSeen \in [Slug -> Snap]
  BY <1>1, NoSeenType DEF TypeOK
<1>4. Left(p) \in 1..5 /\ active[s].file = "whole"
  BY <1>1, <1>2, UpdateTable DEF Left, UpdateAt
<1>5. op[p].meta.state \in State /\ op[p].meta.file = "whole"
  BY <1>1 DEF WholeMeta
<1>6. CASE Left(p) = 5
  <2>1. AppendWal(p)
    BY <1>1, <1>6, UpdateTable, NextStep DEF Left
  <2>2. active' = active /\ snap' = snap
    BY <2>1 DEF AppendWal
  <2>3. /\ \A q \in Process : Works(q, s)' => q = p
        /\ Works(p, s)' /\ Left(p)' = 4 /\ op'[p].kind = "transition" /\ torn' = torn
        /\ op'[p].meta = op[p].meta
    BY <1>3, <1>6, <2>1, OwnStep DEF AppendWal
  <2>4. LogState(s)' = op[p].meta.state /\ LogStatus(s)' = LogStatus(s)
    <3> DEFINE e == [wal[year][s] EXCEPT !.state = op[p].meta.state]
    <3>1. wal[year][s] \in Entry
      BY <1>1 DEF TypeOK
    <3>2. e \in Entry /\ e.state = op[p].meta.state /\ e.status = wal[year][s].status
      BY <1>5, <3>1 DEF Entry
    <3>3. wal' = [wal EXCEPT ![year][s] = e]
      BY <1>1, <2>1 DEF AppendWal, Logged
    <3> HIDE DEF e
    <3>4. LogState(s)' = e.state /\ LogStatus(s)' = LogStatus(s)
      BY <1>1, <1>5, <3>2, <3>3, LogAppended DEF ShapeInv
    <3> QED  BY <3>2, <3>4
  <2>5. UpdateAt(p, s)'
    BY <1>4, <2>2, <2>3, <2>4 DEF UpdateAt, StateKept
  <2>6. RunIsLogged(s)'
    <3>1. <<s, "create">> \notin torn' =>
            StatusKept(s, "active") /\ (OneProcess => snap[s].status = "active")
      BY <1>2, <1>4, <2>3, StillLogged
    <3> QED  BY <2>2, <2>4, <3>1 DEF RunIsLogged, StatusKept
  <2> QED  BY <1>4, <2>2, <2>3, <2>5, <2>6, StillWorking
<1>7. CASE Left(p) = 4
  <2>1. LoadSnapshot(p)
    BY <1>1, <1>7, UpdateTable, NextStep DEF Left
  <2>2. active' = active /\ snap' = snap /\ wal' = wal
    BY <2>1 DEF LoadSnapshot, files
  <2>3. /\ \A q \in Process : Works(q, s)' => q = p
        /\ Works(p, s)' /\ Left(p)' = 3 /\ op'[p].kind = "transition" /\ torn' = torn
        /\ op'[p].meta = op[p].meta /\ op'[p].seen = snap
    BY <1>3, <1>7, <2>1, OwnStep DEF LoadSnapshot
  <2>4. UpdateAt(p, s)'
    BY <1>2, <1>7, <2>2, <2>3, LogSame DEF UpdateAt, StateKept
  <2>5. RunIsLogged(s)'
    <3>1. <<s, "create">> \notin torn' =>
            StatusKept(s, "active") /\ (OneProcess => snap[s].status = "active")
      BY <1>2, <1>4, <2>3, StillLogged
    <3> QED  BY <2>2, <3>1, LogSame DEF RunIsLogged, StatusKept
  <2> QED  BY <1>4, <2>2, <2>3, <2>4, <2>5, StillWorking
<1>8. CASE Left(p) = 3
  <2>1. WriteSnapshot(p)
    BY <1>1, <1>8, UpdateTable, NextStep DEF Left
  <2>2. UNCHANGED <<active, wal, snap>>
    BY <2>1 DEF WriteSnapshot
  <2>3. /\ \A q \in Process : Works(q, s)' => q = p
        /\ Works(p, s)' /\ Left(p)' = 2 /\ op'[p].kind = "transition" /\ torn' = torn
        /\ op'[p].meta = op[p].meta
    BY <1>3, <1>8, <2>1, OwnStep DEF WriteSnapshot
  <2>4. OneProcess => /\ Staged(s)'
                      /\ \A c \in tmp' : c[s].state = op[p].meta.state /\ c[s].status = "active"
    BY <1>1, <1>2, <1>8, <2>1, WriteStages DEF UpdateAt
  <2>5. UpdateAt(p, s)'
    BY <1>2, <1>8, <2>2, <2>3, <2>4, LogSame DEF UpdateAt, StateKept
  <2>6. RunIsLogged(s)'
    <3>1. <<s, "create">> \notin torn' =>
            StatusKept(s, "active") /\ (OneProcess => snap[s].status = "active")
      BY <1>2, <1>4, <2>3, StillLogged
    <3> QED  BY <2>2, <3>1, LogSame DEF RunIsLogged, StatusKept
  <2> QED  BY <1>4, <2>2, <2>3, <2>5, <2>6, StillWorking
<1>9. CASE Left(p) = 2
  <2>1. CASE ReplaceSnapshot(p)
    <3>1. active' = active /\ wal' = wal /\ snap' \in tmp
      BY <2>1 DEF ReplaceSnapshot
    <3>2. /\ \A q \in Process : Works(q, s)' => q = p
          /\ Works(p, s)' /\ Left(p)' = 1 /\ op'[p].kind = "transition" /\ torn' = torn
          /\ op'[p].meta = op[p].meta
      BY <1>3, <1>9, <2>1, OwnStep DEF ReplaceSnapshot
    <3>3. OneProcess => snap'[s].state = op[p].meta.state /\ snap'[s].status = "active"
      BY <1>2, <1>9, <3>1 DEF UpdateAt
    <3>4. UpdateAt(p, s)'
      BY <1>2, <1>9, <3>1, <3>2, <3>3, LogSame DEF UpdateAt, StateKept
    <3>5. RunIsLogged(s)'
      <4>1. <<s, "create">> \notin torn' =>
              StatusKept(s, "active") /\ (OneProcess => snap[s].status = "active")
        BY <1>2, <1>4, <3>2, StillLogged
      <4> QED  BY <3>1, <3>3, <4>1, LogSame DEF RunIsLogged, StatusKept
    <3> QED  BY <1>4, <3>1, <3>2, <3>4, <3>5, StillWorking
  <2>2. CASE Raise(p)
    <3>1. /\ UNCHANGED <<active, archived, snap, tmp, wal>>
          /\ torn' = torn \cup {<<s, "transition">>} /\ ~Busy(s)' /\ WorkAgrees(s)'
      BY <1>1, <2>2, RaiseEnds DEF CutShort
    <3>2. <<s, "create">> \notin torn' =>
            StatusKept(s, "active") /\ (OneProcess => snap[s].status = "active")
      BY <1>2, <1>4, <3>1, StillLogged
    <3>3. RunIsLogged(s)'
      BY <3>1, <3>2, LogSame DEF RunIsLogged, StatusKept
    <3>4. IdleAgrees(s)'
      BY <3>1, <<s, "transition">>[1] = s DEF IdleAgrees
    <3> QED  BY <3>1, <3>3, <3>4 DEF RunInv
  <2> QED  BY <1>1, <1>9, <2>1, <2>2, UpdateTable, NextStep DEF Left
<1>10. CASE Left(p) = 1
  <2>1. WriteMeta(p)
    BY <1>1, <1>4, <1>10, UpdateTable, NextStep DEF Left
  <2>2. active'[s] = op[p].meta /\ snap' = snap /\ wal' = wal
    BY <1>1, <1>3, <2>1 DEF WriteMeta
  <2>3. ~Busy(s)' /\ WorkAgrees(s)' /\ torn' = torn \ MadeUpFor(op[p])
    BY <1>3, <1>10, <2>1, OwnStep DEF WriteMeta
  <2>4. <<s, "create">> \in torn => <<s, "create">> \in torn'
    BY <2>3 DEF MadeUpFor
  <2>5. <<s, "create">> \notin torn' =>
          StatusKept(s, "active") /\ (OneProcess => snap[s].status = "active")
    BY <1>2, <1>4, <2>4, StillLogged
  <2>6. RunIsLogged(s)'
    BY <2>2, <2>5, LogSame DEF RunIsLogged, StatusKept
  <2>7. StateKept(s, op[p].meta.state) /\ (OneProcess => snap[s].state = op[p].meta.state)
    BY <1>2, <1>10 DEF UpdateAt
  <2>8. IdleAgrees(s)'
    BY <1>5, <2>2, <2>7, LogSame DEF IdleAgrees, StateKept
  <2> QED  BY <2>3, <2>6, <2>8 DEF RunInv
<1> QED  BY <1>4, <1>6, <1>7, <1>8, <1>9, <1>10

LEMMA ArchiveStepInv ==
  ASSUME ShapeInv, NEW s \in Slug, Sole(s), NEW p \in Process, Works(p, s),
         op[p].kind = "archive", FileStep(p), RunInv(s)
  PROVE  RunInv(s)'
<1>1. /\ op[p] \in Archives(p) /\ op[p].todo \in ArchiveTodo
      /\ op[p].slug = s /\ OpsOK /\ TypeOK
  BY Underway DEF ShapeInv, Works, Creates, Updates, Archives
<1>2. ArchiveAt(p, s) /\ RunIsLogged(s) /\ IdleAgrees(s)
  BY DEF RunInv, WorkAgrees
<1>3. active \in [Slug -> Meta] /\ snap \in [Slug -> Snap] /\ NoSeen \in [Slug -> Snap]
  BY <1>1, NoSeenType DEF TypeOK
<1>4. Left(p) \in 1..6
  BY <1>1, ArchiveTable DEF Left
<1>5. CASE Left(p) = 6
  <2>1. RemoveOldArchive(p)
    BY <1>1, <1>5, ArchiveTable, NextStep DEF Left
  <2>2. active' = active /\ snap' = snap /\ wal' = wal
    BY <2>1 DEF RemoveOldArchive
  <2>3. /\ \A q \in Process : Works(q, s)' => q = p
        /\ Works(p, s)' /\ Left(p)' = 5 /\ op'[p].kind = "archive" /\ torn' = torn
    BY <1>3, <1>5, <2>1, OwnStep DEF RemoveOldArchive
  <2>4. ArchiveAt(p, s)'
    BY <1>2, <1>5, <2>2, <2>3 DEF ArchiveAt
  <2>5. RunIsLogged(s)'
    <3>1. active[s].file = "whole" /\ <<s, "create">> \notin torn' =>
            StatusKept(s, "active") /\ (OneProcess => snap[s].status = "active")
      BY <1>2, <2>3, StillLogged
    <3> QED  BY <2>2, <3>1, LogSame DEF RunIsLogged, StatusKept
  <2> QED  BY <1>2, <2>2, <2>3, <2>4, <2>5, StillWorking DEF IdleAgrees
<1>6. CASE Left(p) = 5
  <2>1. MoveToArchive(p)
    BY <1>1, <1>2, <1>6, ArchiveTable, NextStep DEF Left, ArchiveAt
  <2>2. active'[s].file = "missing"
    BY <1>1, <1>3, <2>1 DEF MoveToArchive, NoMeta
  <2>3. /\ \A q \in Process : Works(q, s)' => q = p
        /\ Works(p, s)' /\ Left(p)' = 4 /\ op'[p].kind = "archive"
    BY <1>3, <1>6, <2>1, OwnStep DEF MoveToArchive
  <2>4. ArchiveAt(p, s)' /\ RunIsLogged(s)'
    BY <2>2, <2>3 DEF ArchiveAt, RunIsLogged
  <2> QED  BY <2>2, <2>3, <2>4, StillWorking
<1>7. CASE Left(p) = 4
  <2>1. LoadSnapshot(p)
    BY <1>1, <1>7, ArchiveTable, NextStep DEF Left
  <2>2. active' = active /\ snap' = snap /\ active'[s].file = "missing"
    BY <1>2, <1>7, <2>1 DEF LoadSnapshot, files, ArchiveAt
  <2>3. /\ \A q \in Process : Works(q, s)' => q = p
        /\ Works(p, s)' /\ Left(p)' = 3 /\ op'[p].kind = "archive" /\ op'[p].seen = snap
    BY <1>3, <1>7, <2>1, OwnStep DEF LoadSnapshot
  <2>4. ArchiveAt(p, s)' /\ RunIsLogged(s)'
    BY <2>2, <2>3 DEF ArchiveAt, RunIsLogged
  <2> QED  BY <2>2, <2>3, <2>4, StillWorking
<1>8. CASE Left(p) = 3
  <2>1. WriteSnapshot(p)
    BY <1>1, <1>8, ArchiveTable, NextStep DEF Left
  <2>2. active' = active /\ active'[s].file = "missing"
    BY <1>2, <1>8, <2>1 DEF WriteSnapshot, ArchiveAt
  <2>3. /\ \A q \in Process : Works(q, s)' => q = p
        /\ Works(p, s)' /\ Left(p)' = 2 /\ op'[p].kind = "archive"
    BY <1>3, <1>8, <2>1, OwnStep DEF WriteSnapshot
  <2>4. OneProcess => Staged(s)' /\ \A c \in tmp' : c[s].status = "archived"
    BY <1>1, <1>2, <1>8, <2>1, WriteStages DEF ArchiveAt
  <2>5. ArchiveAt(p, s)' /\ RunIsLogged(s)'
    BY <2>2, <2>3, <2>4 DEF ArchiveAt, RunIsLogged
  <2> QED  BY <2>2, <2>3, <2>5, StillWorking
<1>9. CASE Left(p) = 2
  <2>1. CASE ReplaceSnapshot(p)
    <3>1. active' = active /\ active'[s].file = "missing" /\ snap' \in tmp
      BY <1>2, <1>9, <2>1 DEF ReplaceSnapshot, ArchiveAt
    <3>2. /\ \A q \in Process : Works(q, s)' => q = p
          /\ Works(p, s)' /\ Left(p)' = 1 /\ op'[p].kind = "archive"
      BY <1>3, <1>9, <2>1, OwnStep DEF ReplaceSnapshot
    <3>3. OneProcess => snap'[s].status = "archived"
      BY <1>2, <1>9, <3>1 DEF ArchiveAt
    <3>4. ArchiveAt(p, s)' /\ RunIsLogged(s)'
      BY <3>1, <3>2, <3>3 DEF ArchiveAt, RunIsLogged
    <3> QED  BY <3>1, <3>2, <3>4, StillWorking
  <2>2. CASE Raise(p)
    <3>1. /\ UNCHANGED <<active, archived, snap, tmp, wal>>
          /\ torn' = torn \cup {<<s, "archive">>} /\ ~Busy(s)' /\ WorkAgrees(s)'
      BY <1>1, <2>2, RaiseEnds DEF CutShort
    <3>2. active'[s].file = "missing"
      BY <1>2, <1>9, <3>1 DEF ArchiveAt
    <3>3. IdleAgrees(s)'
      BY <3>1, <<s, "archive">>[1] = s DEF IdleAgrees
    <3> QED  BY <3>1, <3>2, <3>3 DEF RunInv, RunIsLogged
  <2> QED  BY <1>1, <1>9, <2>1, <2>2, ArchiveTable, NextStep DEF Left
<1>10. CASE Left(p) = 1
  <2>1. AppendWal(p)
    BY <1>1, <1>10, ArchiveTable, NextStep DEF Left
  <2>2. active' = active /\ snap' = snap /\ active'[s].file = "missing"
    BY <1>2, <1>10, <2>1 DEF AppendWal, ArchiveAt
  <2>3. ~Busy(s)' /\ WorkAgrees(s)'
    BY <1>3, <1>10, <2>1, OwnStep DEF AppendWal
  <2>4. LogStatus(s)' = "archived"
    <3> DEFINE e == [wal[year][s] EXCEPT !.status = "archived"]
    <3>1. wal[year][s] \in Entry
      BY <1>1 DEF TypeOK
    <3>2. e \in Entry /\ e.status = "archived"
      BY <3>1 DEF Entry
    <3>3. wal' = [wal EXCEPT ![year][s] = e]
      BY <1>1, <2>1 DEF AppendWal, Logged, Archives
    <3> HIDE DEF e
    <3>4. LogStatus(s)' = e.status
      BY <1>1, <3>2, <3>3, LogAppended DEF ShapeInv
    <3> QED  BY <3>2, <3>4
  <2>5. RunIsLogged(s)' /\ IdleAgrees(s)'
    BY <1>2, <1>10, <2>2, <2>4 DEF RunIsLogged, IdleAgrees, ArchiveAt, StatusKept
  <2> QED  BY <2>3, <2>5 DEF RunInv
<1> QED  BY <1>4, <1>5, <1>6, <1>7, <1>8, <1>9, <1>10

-----------------------------------------------------------------------------
\* Types and shapes

LEMMA StepMetaType ==
  ASSUME OpsOK, NEW p \in Process, op[p].todo # <<>>
  PROVE  /\ op[p].slug \in Slug /\ op[p].meta \in Meta /\ op[p].seen \in [Slug -> Snap]
         /\ Doing(p, "meta") => op[p].meta \in WholeMeta
         /\ op[p].kind # "archive" => op[p].meta \in WholeMeta
<1>1. NewMeta \in WholeMeta /\ WholeMeta \subseteq Meta
  BY DEF NewMeta, WholeMeta, Meta
<1>2. CASE op[p] \in Creates(p)
  BY <1>1, <1>2 DEF Creates
<1>3. CASE op[p] \in Updates(p)
  BY <1>1, <1>3 DEF Updates
<1>4. CASE op[p] \in Archives(p)
  <2>1. ~Doing(p, "meta")
    BY <1>4, ArchiveTable DEF Archives, Doing
  <2> QED  BY <1>4, <2>1 DEF Archives
<1> QED  BY <1>2, <1>3, <1>4, Underway

LEMMA FileStepShape ==
  ASSUME ShapeInv, NEW p \in Process, FileStep(p)
  PROVE  ShapeInv'
<1> USE DEF ShapeInv
<1>1. op[p].todo # <<>>
  BY NextStep
<1>2. /\ op[p].slug \in Slug /\ op[p].meta \in Meta /\ op[p].seen \in [Slug -> Snap]
      /\ Doing(p, "meta") => op[p].meta \in WholeMeta
      /\ op[p].kind # "archive" => op[p].meta \in WholeMeta
  BY <1>1, StepMetaType
<1>3. snap \in [Slug -> Snap] /\ NoSeen \in [Slug -> Snap]
  BY NoSeenType DEF TypeOK
<1>4. op[p].kind \in {"create", "transition", "archive"}
  BY <1>1, Underway
<1>5. ASSUME NEW seen \in [Slug -> Snap], Done(p, seen)
      PROVE  /\ OpsOK' /\ UNCHANGED <<year, crashes>> /\ NoneDown'
             /\ torn' \subseteq Slug \X {"create", "transition", "archive"}
  <2>1. /\ OpsOK' /\ UNCHANGED <<year, crashes>>
        /\ torn' \subseteq Slug \X {"create", "transition", "archive"}
    BY <1>1, <1>5, DoneResult DEF Done, TypeOK
  <2>2. \A q \in Process : op'[q].kind = "down" => op[q].kind = "down"
    BY <1>1, <1>4, <1>5, DoneResult, Underway DEF Ready
  <2> QED  BY <2>1, <2>2 DEF NoneDown
<1>6. ASSUME OpsOK', UNCHANGED <<year, crashes>>,
             torn' \subseteq Slug \X {"create", "transition", "archive"},
             active' \in [Slug -> Meta], archived' \in [Slug -> Meta],
             snap' \in [Slug -> Snap], tmp' \subseteq [Slug -> Snap],
             wal' \in [Year -> [Slug -> Entry]]
      PROVE  TypeOK'
  <2>1. \A q \in Process :
          op'[q].kind \in {"ready", "down", "create", "transition", "archive"}
    BY <1>6 DEF OpsOK, Operation, Creates, Updates, Archives, Ready, Down
  <2> QED  BY <1>6, <2>1 DEF TypeOK
<1>7. CASE MakeDirectory(p)
  <2>1. /\ UNCHANGED <<archived, snap, tmp, wal>> /\ Done(p, NoSeen)
        /\ active' = [active EXCEPT ![op[p].slug] = IF @.file = "missing" THEN DirOnly ELSE @]
    BY <1>7 DEF MakeDirectory
  <2>2. DirOnly \in Meta
    BY DEF DirOnly, Meta
  <2>3. active' \in [Slug -> Meta] /\ MetaOK'
    BY <2>1, <2>2, <1>2 DEF TypeOK, MetaOK
  <2> QED  BY <2>1, <2>3, <1>3, <1>5, <1>6 DEF TypeOK, NothingAhead
<1>8. CASE WriteMeta(p)
  <2>1. /\ UNCHANGED <<archived, snap, tmp, wal>> /\ Done(p, NoSeen)
        /\ active' = [active EXCEPT ![op[p].slug] = op[p].meta] /\ op[p].meta \in WholeMeta
    BY <1>2, <1>8 DEF WriteMeta
  <2>2. active' \in [Slug -> Meta] /\ MetaOK'
    BY <2>1, <1>2 DEF TypeOK, MetaOK
  <2> QED  BY <2>1, <2>2, <1>3, <1>5, <1>6 DEF TypeOK, NothingAhead
<1>9. CASE AppendWal(p)
  <2>1. /\ UNCHANGED <<active, archived, snap, tmp>> /\ Done(p, NoSeen)
        /\ wal' = [wal EXCEPT ![year][op[p].slug] = Logged(@, op[p])]
    BY <1>9 DEF AppendWal
  <2>2. year \in Year /\ wal \in [Year -> [Slug -> Entry]]
    BY DEF TypeOK
  <2>3. wal[year][op[p].slug] \in Entry
    BY <1>2, <2>2
  <2>4. Logged(wal[year][op[p].slug], op[p]) \in Entry
    BY <1>2, <1>4, <2>3 DEF Logged, Entry, WholeMeta
  <2>5. wal' \in [Year -> [Slug -> Entry]]
    BY <1>2, <2>1, <2>2, <2>4
  <2>6. NothingAhead'
    <3>1. ~(year > year)
      BY <2>2 DEF Year
    <3>2. year' = year
      BY <1>3, <1>5, <2>1
    <3>3. \A y \in Year : y # year => wal'[y] = wal[y]
      BY <2>1, <2>2
    <3> QED  BY <3>1, <3>2, <3>3 DEF NothingAhead
  <2> QED  BY <2>1, <2>5, <2>6, <1>3, <1>5, <1>6 DEF TypeOK, MetaOK
<1>10. CASE LoadSnapshot(p)
  <2>1. UNCHANGED <<active, archived, snap, tmp, wal>> /\ Done(p, snap)
    BY <1>10 DEF LoadSnapshot, files
  <2> QED  BY <2>1, <1>3, <1>5, <1>6 DEF TypeOK, MetaOK, NothingAhead
<1>11. CASE WriteSnapshot(p)
  <2>1. /\ UNCHANGED <<active, archived, snap, wal>> /\ Done(p, NoSeen)
        /\ tmp' = {[op[p].seen EXCEPT ![op[p].slug] = Saved(@, op[p])]}
    BY <1>11 DEF WriteSnapshot
  <2>2. year \in Year /\ op[p].seen[op[p].slug] \in Snap
    BY <1>2 DEF TypeOK
  <2>3. Saved(op[p].seen[op[p].slug], op[p]) \in Snap
    BY <1>2, <1>4, <2>2 DEF Saved, Snap, WholeMeta
  <2>4. tmp' \subseteq [Slug -> Snap]
    BY <1>2, <2>1, <2>3
  <2> QED  BY <2>1, <2>4, <1>3, <1>5, <1>6 DEF TypeOK, MetaOK, NothingAhead
<1>12. CASE RemoveOldArchive(p)
  <2>1. /\ UNCHANGED <<active, snap, tmp, wal>> /\ Done(p, NoSeen)
        /\ archived' = [archived EXCEPT ![op[p].slug] = NoMeta]
    BY <1>12 DEF RemoveOldArchive
  <2>2. NoMeta \in Meta
    BY DEF NoMeta, Meta
  <2>3. archived' \in [Slug -> Meta]
    BY <1>2, <2>1, <2>2 DEF TypeOK
  <2> QED  BY <2>1, <2>3, <1>3, <1>5, <1>6 DEF TypeOK, MetaOK, NothingAhead
<1>13. CASE MoveToArchive(p)
  <2>1. /\ UNCHANGED <<snap, tmp, wal>> /\ Done(p, NoSeen)
        /\ archived' = [archived EXCEPT ![op[p].slug] =
                          IF @.file = "missing" THEN active[op[p].slug] ELSE @]
        /\ active' = [active EXCEPT ![op[p].slug] = NoMeta]
    BY <1>13 DEF MoveToArchive
  <2>2. NoMeta \in Meta
    BY DEF NoMeta, Meta
  <2>3. active' \in [Slug -> Meta] /\ archived' \in [Slug -> Meta] /\ MetaOK'
    BY <1>2, <2>1, <2>2 DEF TypeOK, MetaOK
  <2> QED  BY <2>1, <2>3, <1>3, <1>5, <1>6 DEF TypeOK, NothingAhead
<1>14. CASE Raise(p)
  <2>1. /\ UNCHANGED <<active, archived, snap, tmp, wal, year, crashes>>
        /\ op' = [op EXCEPT ![p] = Ready] /\ torn' = torn \cup CutShort(op[p])
    BY <1>14 DEF Raise, files
  <2>3. torn' \subseteq Slug \X {"create", "transition", "archive"}
    BY <1>2, <1>4, <2>1 DEF CutShort, TypeOK
  <2>2. OpsOK' /\ NoneDown'
    BY <2>1 DEF OpsOK, NoneDown, Ready, Operation, Creates, Updates, Archives
  <2> QED  BY <2>1, <2>2, <2>3, <1>3, <1>6 DEF TypeOK, MetaOK, NothingAhead
<1>15. CASE ReplaceSnapshot(p)
  <2>1. UNCHANGED <<active, archived, wal>> /\ Done(p, NoSeen) /\ snap' \in tmp /\ tmp' = {}
    BY <1>15 DEF ReplaceSnapshot
  <2> QED  BY <2>1, <1>3, <1>5, <1>6 DEF TypeOK, MetaOK, NothingAhead
<1> QED  BY <1>7, <1>8, <1>9, <1>10, <1>11, <1>12, <1>13, <1>14, <1>15 DEF FileStep

-----------------------------------------------------------------------------
\* A file operation

\* With one process the snapshot that an operation saves is the one it loaded, but for
\* its own run.
LEMMA SavedIsCurrent ==
  ASSUME ShapeInv, SoleInv, OneProcess, NEW p \in Process, ReplaceSnapshot(p)
  PROVE  \A r \in Slug : r # op[p].slug => snap'[r] = snap[r]
<1> DEFINE r == op[p].slug
<1>1. op[p].todo # <<>> /\ Doing(p, "replace") /\ OpsOK /\ snap' \in tmp
  BY DEF ReplaceSnapshot, Doing, ShapeInv
<1>2. r \in Slug /\ Sole(r) /\ Works(p, r)
  BY <1>1, Underway DEF OneProcess, Sole, Works
<1>3. WorkAgrees(r)
  BY <1>2 DEF SoleInv, RunInv
<1>4. Staged(r)
  <2> HIDE DEF r
  <2>1. CASE op[p] \in Creates(p)
    <3>1. Left(p) = 1 /\ op[p].kind = "create"
      BY <1>1, <2>1, CreateTable DEF Creates, Doing, Left
    <3> QED  BY <1>2, <1>3, <3>1 DEF WorkAgrees, CreateAt
  <2>2. CASE op[p] \in Updates(p)
    <3>1. Left(p) = 2 /\ op[p].kind = "transition"
      BY <1>1, <2>2, UpdateTable DEF Updates, Doing, Left
    <3> QED  BY <1>2, <1>3, <3>1 DEF WorkAgrees, UpdateAt
  <2>3. CASE op[p] \in Archives(p)
    <3>1. Left(p) = 2 /\ op[p].kind = "archive"
      BY <1>1, <2>3, ArchiveTable DEF Archives, Doing, Left
    <3> QED  BY <1>2, <1>3, <3>1 DEF WorkAgrees, ArchiveAt
  <2> QED  BY <1>1, <2>1, <2>2, <2>3, Underway
<1> QED  BY <1>1, <1>4 DEF Staged

LEMMA FileStepOther ==
  ASSUME ShapeInv, SoleInv, NEW p \in Process, FileStep(p), NEW s \in Slug, ~Works(p, s)
  PROVE  OtherRun(s)
<1> USE DEF ShapeInv
<1>1. op[p].todo # <<>>
  BY NextStep
<1>2. op[p].slug \in Slug /\ op[p].slug # s /\ op[p].meta \in Meta
      /\ op[p].seen \in [Slug -> Snap] /\ op[p].kind \in {"create", "transition", "archive"}
  BY <1>1, StepMetaType, Underway DEF Works
<1>3. NoSeen \in [Slug -> Snap] /\ snap \in [Slug -> Snap]
  BY NoSeenType DEF TypeOK
<1>4. active'[s] = active[s] /\ archived'[s] = archived[s]
  BY <1>2 DEF FileStep, MakeDirectory, WriteMeta, AppendWal, LoadSnapshot, WriteSnapshot,
     ReplaceSnapshot, RemoveOldArchive, MoveToArchive, Raise, files, TypeOK
<1>5. /\ \A q \in Process : q # p => op'[q] = op[q]
      /\ ~Works(p, s)'
      /\ \A t : t[1] = s => (t \in torn' <=> t \in torn)
  <2>1. ASSUME NEW seen \in [Slug -> Snap], Done(p, seen)
        PROVE  /\ \A q \in Process : q # p => op'[q] = op[q]
               /\ ~Works(p, s)'
               /\ \A t : t[1] = s => (t \in torn' <=> t \in torn)
    <3>1. /\ \A q \in Process : q # p => op'[q] = op[q]
          /\ op'[p] = Ready \/ op'[p].slug = op[p].slug
      BY <1>1, <2>1, DoneResult
    <3>2. \A t : t[1] = s => (t \in torn' <=> t \in torn)
      BY <1>2, <2>1 DEF Done, MadeUpFor
    <3> QED  BY <1>2, <3>1, <3>2 DEF Works, Ready
  <2>2. CASE Raise(p)
    <3>1. CutShort(op[p]) \subseteq {<<op[p].slug, op[p].kind>>}
      BY DEF CutShort
    <3>2. \A t \in CutShort(op[p]) : t[1] # s
      BY <1>2, <3>1
    <3> QED  BY <2>2, <3>2 DEF Raise, Works, Ready, OpsOK
  <2> QED  BY <1>3, <2>1, <2>2 DEF FileStep, MakeDirectory, WriteMeta, AppendWal,
           LoadSnapshot, WriteSnapshot, ReplaceSnapshot, RemoveOldArchive, MoveToArchive
<1>6. \A q \in Process : (Works(q, s)' <=> Works(q, s)) /\ (Works(q, s) => op'[q] = op[q])
  BY <1>5 DEF Works
<1>7. LogKept(s)
  <2>1. CASE AppendWal(p)
    <3> DEFINE e == Logged(wal[year][op[p].slug], op[p])
    <3>1. year \in Year /\ wal[year][op[p].slug] \in Entry
      BY <1>2 DEF TypeOK
    <3>2. e \in Entry
      <4>1. op[p].kind # "archive" => op[p].meta \in WholeMeta
        BY <1>1, StepMetaType
      <4> QED  BY <1>2, <3>1, <4>1 DEF Logged, Entry, WholeMeta
    <3>3. wal' = [wal EXCEPT ![year][op[p].slug] = e]
      BY <2>1 DEF AppendWal
    <3> HIDE DEF e
    <3>4. LogState(s)' = LogState(s) /\ LogStatus(s)' = LogStatus(s)
      BY <1>2, <3>2, <3>3, LogAppended
    <3> QED  BY <3>4 DEF LogKept
  <2>2. CASE ~AppendWal(p)
    <3>1. wal' = wal
      BY <2>2 DEF FileStep, MakeDirectory, WriteMeta, LoadSnapshot, WriteSnapshot, ReplaceSnapshot,
         RemoveOldArchive, MoveToArchive, Raise, files
    <3> QED  BY <3>1, SameLogKept
  <2> QED  BY <2>1, <2>2
<1>8. OneProcess => snap'[s] = snap[s] /\ \A q \in Process : ~Works(q, s)
  <2> SUFFICES ASSUME OneProcess
               PROVE  snap'[s] = snap[s] /\ \A q \in Process : ~Works(q, s)
    OBVIOUS
  <2>1. \A q \in Process : ~Works(q, s)
    BY DEF OneProcess
  <2>2. CASE ReplaceSnapshot(p)
    <3>1. \A r \in Slug : r # op[p].slug => snap'[r] = snap[r]
      BY <2>2, SavedIsCurrent
    <3> QED  BY <1>2, <2>1, <3>1
  <2>3. CASE ~ReplaceSnapshot(p)
    BY <2>1, <2>3 DEF FileStep, MakeDirectory, WriteMeta, AppendWal, LoadSnapshot,
       WriteSnapshot, RemoveOldArchive, MoveToArchive, Raise, files
  <2> QED  BY <2>2, <2>3
<1> QED  BY <1>4, <1>5, <1>6, <1>7, <1>8 DEF OtherRun

LEMMA FileStepRuns ==
  ASSUME ShapeInv, SoleInv, NEW p \in Process, FileStep(p)
  PROVE  SoleInv'
<1> SUFFICES ASSUME NEW s \in Slug, Sole(s)
             PROVE  RunInv(s)'
  BY DEF SoleInv, Sole
<1>1. RunInv(s)
  BY DEF SoleInv
<1>2. CASE Works(p, s)
  <2>1. op[p].kind \in {"create", "transition", "archive"}
    BY <1>2, Underway DEF Works, ShapeInv
  <2> QED  BY <1>1, <1>2, <2>1, CreateStepInv, UpdateStepInv, ArchiveStepInv
<1>3. CASE ~Works(p, s)
  BY <1>1, <1>3, FileStepOther, OtherRunInv
<1> QED  BY <1>2, <1>3

-----------------------------------------------------------------------------
\* The start of an operation

Starts(p, o) ==
  /\ op[p].kind = "ready" /\ o \in Operation(p) /\ op' = [op EXCEPT ![p] = o]
  /\ UNCHANGED <<files, year, torn, crashes>>

LEMMA StartShape ==
  ASSUME ShapeInv, NEW p \in Process, NEW o, Starts(p, o)
  PROVE  ShapeInv' /\ op[p] = Ready
<1> USE DEF ShapeInv, Starts, files
<1>1. o.kind \in {"create", "transition", "archive"}
  BY DEF Operation, Creates, Updates, Archives
<1>2. OpsOK'
  BY DEF OpsOK, Operation, Creates, Updates, Archives
<1>3. \A q \in Process : op'[q] = IF q = p THEN o ELSE op[q]
  BY DEF OpsOK
<1>4. TypeOK' /\ NoneDown'
  BY <1>1, <1>3 DEF TypeOK, NoneDown
<1>5. op[p] = Ready
  BY DEF OpsOK, Down, Operation, Creates, Updates, Archives
<1> QED  BY <1>2, <1>4, <1>5 DEF MetaOK, NothingAhead

LEMMA StartRuns ==
  ASSUME ShapeInv, SoleInv, NEW p \in Process, NEW o, Starts(p, o),
         o.kind = "create" => /\ o.todo = CreateSteps
                              /\ active[o.slug].file \in {"missing", "dir"},
         o.kind = "transition" => o.todo = UpdateSteps /\ active[o.slug].file = "whole",
         o.kind = "archive" => o.todo = ArchiveSteps /\ active[o.slug].file # "missing"
  PROVE  SoleInv'
<1> SUFFICES ASSUME NEW s \in Slug, Sole(s)
             PROVE  RunInv(s)'
  BY DEF SoleInv, Sole
<1>1. RunInv(s) /\ OpsOK /\ op[p] = Ready /\ op[p].todo = <<>>
  BY StartShape DEF SoleInv, ShapeInv, Ready
<1>2. UNCHANGED <<active, archived, snap, tmp, wal, torn>>
  BY DEF Starts, files
<1>3. \A q \in Process : op'[q] = IF q = p THEN o ELSE op[q]
  BY <1>1 DEF OpsOK, Starts
<1>4. CASE o.slug # s
  <2>1. \A q \in Process : (Works(q, s)' <=> Works(q, s)) /\ (Works(q, s) => op'[q] = op[q])
    BY <1>1, <1>3, <1>4 DEF Works
  <2>2. OtherRun(s)
    BY <1>2, <2>1, SameLogKept DEF OtherRun
  <2> QED  BY <1>1, <2>2, OtherRunInv
<1>5. CASE o.slug = s
  <2>1. /\ o.todo \in {CreateSteps, UpdateSteps, ArchiveSteps} /\ s \in MayUse[p]
        /\ o.kind \in {"create", "transition", "archive"}
    BY <1>5 DEF Starts, Operation, Creates, Updates, Archives
  <2>2. /\ CreateSteps # <<>> /\ UpdateSteps # <<>> /\ ArchiveSteps # <<>>
        /\ Len(CreateSteps) = 6 /\ Len(UpdateSteps) = 5 /\ Len(ArchiveSteps) = 6
    BY DEF CreateSteps, UpdateSteps, ArchiveSteps
  <2>3. \A q \in Process : ~Works(q, s)
    <3>1. \A q \in Process : Works(q, s) => q = p
      BY <1>1, <2>1, OnlyWorker
    <3> QED  BY <1>1, <3>1 DEF Works
  <2>4. Works(p, s)' /\ \A q \in Process : Works(q, s)' => q = p
    BY <1>3, <1>5, <2>1, <2>2, <2>3 DEF Works
  <2>5. (\A t \in torn' : t[1] # s) => active'[s].file # "blank"
    BY <1>1, <1>2 DEF RunInv, IdleAgrees
  <2>6. ~Creating(s) /\ RunIsLogged(s)
    BY <1>1, <2>3 DEF Creating, RunInv
  <2>7. RunIsLogged(s)'
    <3>1. o.kind = "create" => active'[s].file # "whole"
      BY <1>2, <1>5
    <3>2. StatusKept(s, "active") => StatusKept(s, "active")'
      BY <1>2, LogSame DEF StatusKept
    <3>3. o.kind # "create" => ~Creating(s)'
      BY <1>3, <2>4 DEF Creating, Works
    <3> QED  BY <1>2, <2>6, <3>1, <3>2, <3>3 DEF RunIsLogged
  <2>8. op'[p] = o
    BY <1>3
  <2>9. o.kind = "create" => CreateAt(p, s)'
    <3>1. o.kind = "create" => Left(p)' = 6
      BY <2>2, <2>8 DEF Left
    <3> QED  BY <1>2, <1>5, <3>1 DEF CreateAt
  <2>10. o.kind = "transition" => UpdateAt(p, s)'
    <3>1. o.kind = "transition" => Left(p)' = 5
      BY <2>2, <2>8 DEF Left
    <3> QED  BY <1>2, <1>5, <3>1 DEF UpdateAt
  <2>11. o.kind = "archive" => ArchiveAt(p, s)'
    BY <1>2, <1>5, <2>2, <2>8 DEF ArchiveAt, Left
  <2> QED  BY <2>4, <2>5, <2>7, <2>8, <2>9, <2>10, <2>11, StillWorking
<1> QED  BY <1>4, <1>5

LEMMA CreateStarts ==
  ASSUME ShapeInv, NEW p \in Process, NEW s \in Slug, Create(p, s)
  PROVE  \E o : /\ Starts(p, o) /\ o.kind = "create" /\ o.todo = CreateSteps
                /\ active[o.slug].file \in {"missing", "dir"}
<1> DEFINE o == [kind |-> "create", todo |-> CreateSteps, slug |-> s, meta |-> NewMeta,
                 seen |-> NoSeen]
<1>1. o \in Creates(p)
  BY NoSeenType DEF Create, Creates, CreateTodo
<1>2. Starts(p, o) /\ active[o.slug].file \in {"missing", "dir"}
  BY <1>1 DEF Create, Starts, Operation
<1> QED  BY <1>2

LEMMA UpdateStarts ==
  ASSUME ShapeInv, NEW p \in Process, NEW s \in Slug, NEW to \in State, UpdateState(p, s, to)
  PROVE  \E o : /\ Starts(p, o) /\ o.kind = "transition" /\ o.todo = UpdateSteps
                /\ active[o.slug].file = "whole"
<1> DEFINE o == [kind |-> "transition", todo |-> UpdateSteps, slug |-> s, seen |-> NoSeen,
                 meta |-> [file |-> "whole", state |-> to, version |-> active[s].version + 1]]
<1>1. active[s].version + 1 \in Nat
  BY DEF ShapeInv, TypeOK, Meta
<1>2. o \in Updates(p)
  BY <1>1, NoSeenType DEF UpdateState, Updates, UpdateTodo, WholeMeta
<1>3. active[s].state \in State
  BY DEF UpdateState
<1>4. active[s].file = "whole"
  BY <1>3 DEF ShapeInv, MetaOK, NoMeta, DirOnly, BlankMeta, WholeMeta
<1>5. Starts(p, o)
  BY <1>2 DEF UpdateState, Starts, Operation
<1> QED  BY <1>4, <1>5

LEMMA ArchiveStarts ==
  ASSUME ShapeInv, NEW p \in Process, NEW s \in Slug, Archive(p, s)
  PROVE  \E o : /\ Starts(p, o) /\ o.kind = "archive" /\ o.todo = ArchiveSteps
                /\ active[o.slug].file # "missing"
<1> DEFINE o == [kind |-> "archive", todo |-> ArchiveSteps, slug |-> s,
                 meta |-> active[s], seen |-> NoSeen]
<1>1. o \in Archives(p)
  BY NoSeenType DEF Archive, Archives, ArchiveTodo, ShapeInv, TypeOK
<1>2. Starts(p, o) /\ active[o.slug].file # "missing"
  BY <1>1 DEF Archive, Starts, Operation
<1> QED  BY <1>2

-----------------------------------------------------------------------------
\* Crashes, recovery and the end of a year

LEMMA RecoverInv ==
  ASSUME ShapeInv, SoleInv, NEW p \in Process, Recover(p)
  PROVE  ShapeInv' /\ SoleInv'
<1> USE DEF ShapeInv
<1>1. /\ UNCHANGED <<active, archived, snap, tmp, year, torn, crashes>>
      /\ wal' = CompactedWal /\ op' = [op EXCEPT ![p] = Ready]
  BY DEF Recover
<1>2. op[p] = Down /\ \A q \in Process : op'[q] = IF q = p THEN Ready ELSE op[q]
  BY <1>1 DEF Recover, OpsOK, Ready, Operation, Creates, Updates, Archives
<1>3. OpsOK' /\ NoneDown' /\ MetaOK'
  BY <1>1, <1>2 DEF OpsOK, NoneDown, MetaOK, Ready, Operation, Creates, Updates, Archives
<1>4. \A y \in Year : \A s \in Slug : wal'[y][s] \in {NoEntry, wal[y][s]}
  BY <1>1 DEF CompactedWal
<1>5. NothingAhead'
  BY <1>1, <1>4 DEF NothingAhead
<1>6. wal' \in [Year -> [Slug -> Entry]]
  <2>1. NoEntry \in Entry
    BY DEF NoEntry, Entry
  <2> QED  BY <1>1, <2>1 DEF CompactedWal, TypeOK
<1>7. TypeOK'
  BY <1>1, <1>2, <1>6 DEF TypeOK, Ready
<1>8. SoleInv'
  <2> SUFFICES ASSUME NEW s \in Slug, Sole(s)
               PROVE  RunInv(s)'
    BY DEF SoleInv, Sole
  <2>1. \A q \in Process : (Works(q, s)' <=> Works(q, s)) /\ (Works(q, s) => op'[q] = op[q])
    BY <1>2 DEF Works, Ready, Down
  <2>2. OtherRun(s)
    BY <1>1, <2>1, RecoverKeepsLog DEF OtherRun
  <2> QED  BY <2>2, OtherRunInv DEF SoleInv
<1> QED  BY <1>3, <1>5, <1>7, <1>8

LEMMA CrashShape ==
  ASSUME ShapeInv, NEW p \in Process, Crash(p)
  PROVE  ShapeInv' /\ \A q \in Process : op'[q] = IF q = p THEN Down ELSE op[q]
<1> USE DEF ShapeInv
<1>1. UNCHANGED <<archived, snap, wal, year>> /\ op' = [op EXCEPT ![p] = Down]
  BY DEF Crash
<1>2. \A q \in Process : op'[q] = IF q = p THEN Down ELSE op[q]
  BY <1>1 DEF OpsOK
<1>3. OpsOK'
  BY <1>1, <1>2 DEF OpsOK, Down, Operation, Creates, Updates, Archives
<1>4. active' \in [Slug -> Meta] /\ MetaOK' /\ tmp' \subseteq [Slug -> Snap]
  <2>1. CASE active' = active /\ tmp' \in {tmp, {NoSeen}}
    BY <2>1, NoSeenType DEF TypeOK, MetaOK
  <2>2. CASE /\ Doing(p, "meta") /\ tmp' = tmp
             /\ active' = [active EXCEPT ![op[p].slug] = BlankMeta]
    BY <2>2 DEF TypeOK, MetaOK, BlankMeta, Meta
  <2> QED  BY <2>1, <2>2 DEF Crash
<1>5. crashes' = crashes + 1 /\ crashes' \in 0..MaxCrashes /\ crashes' # 0
  BY DEF Crash, TypeOK
<1>6. torn' \subseteq Slug \X {"create", "transition", "archive"}
  <2>1. CASE op[p].todo = <<>>
    BY <2>1 DEF Crash, TypeOK
  <2>2. CASE op[p].todo # <<>>
    <3>1. op[p].slug \in Slug /\ op[p].kind \in {"create", "transition", "archive"}
      BY <2>2, Underway
    <3> QED  BY <2>2, <3>1 DEF Crash, TypeOK
  <2> QED  BY <2>1, <2>2
<1>7. TypeOK' /\ NoneDown' /\ NothingAhead'
  BY <1>1, <1>2, <1>4, <1>5, <1>6 DEF TypeOK, NoneDown, NothingAhead, Down
<1> QED  BY <1>2, <1>3, <1>4, <1>7

LEMMA CrashRuns ==
  ASSUME ShapeInv, SoleInv, NEW p \in Process, Crash(p)
  PROVE  SoleInv'
<1> SUFFICES ASSUME NEW s \in Slug, Sole(s)
             PROVE  RunInv(s)'
  BY DEF SoleInv, Sole
<1>1. RunInv(s) /\ OpsOK
  BY DEF SoleInv, ShapeInv
<1>2. \A q \in Process : op'[q] = IF q = p THEN Down ELSE op[q]
  BY CrashShape
<1>3. /\ UNCHANGED <<archived, snap, wal>>
      /\ op[p].todo = <<>> => UNCHANGED <<active, tmp>>
  BY DEF Crash, Doing
<1>4. CASE ~Works(p, s)
  <2>1. active'[s] = active[s]
    <3>1. CASE active' = active
      BY <3>1
    <3>2. CASE Doing(p, "meta") /\ active' = [active EXCEPT ![op[p].slug] = BlankMeta]
      <4>1. op[p].slug # s
        BY <1>4, <3>2 DEF Works, Doing
      <4> QED  BY <3>2, <4>1 DEF ShapeInv, TypeOK
    <3> QED  BY <3>1, <3>2 DEF Crash
  <2>2. \A t : t[1] = s => (t \in torn' <=> t \in torn)
    BY <1>4 DEF Crash, Works
  <2>3. \A q \in Process : (Works(q, s)' <=> Works(q, s)) /\ (Works(q, s) => op'[q] = op[q])
    BY <1>2, <1>4 DEF Works, Down
  <2>5. OneProcess => UNCHANGED <<snap, tmp>> \/ \A q \in Process : ~Works(q, s)
    BY <1>4 DEF OneProcess
  <2>4. OtherRun(s)
    BY <1>3, <2>1, <2>2, <2>3, <2>5, SameLogKept DEF OtherRun
  <2> QED  BY <1>1, <2>4, OtherRunInv
<1>5. CASE Works(p, s)
  <2>1. /\ op[p].todo # <<>> /\ op[p].slug = s /\ s \in MayUse[p]
        /\ op[p].kind \in {"create", "transition", "archive"}
    BY <1>1, <1>5, Underway DEF Works
  <2>2. torn' = torn \cup {<<s, op[p].kind>>}
    BY <2>1 DEF Crash
  <2>3. ~Busy(s)' /\ WorkAgrees(s)' /\ ~Creating(s)'
    <3>1. \A q \in Process : Works(q, s) => q = p
      BY <1>1, <2>1, OnlyWorker
    <3>2. \A q \in Process : ~Works(q, s)'
      BY <1>2, <3>1 DEF Works, Down
    <3> QED  BY <3>2 DEF Busy, WorkAgrees, Creating, Works
  <2>4. IdleAgrees(s)'
    <3>1. <<s, op[p].kind>> \in torn' /\ <<s, op[p].kind>>[1] = s
      BY <2>2
    <3>2. ~(\A t \in torn' : t[1] # s)
      BY <3>1
    <3> QED  BY <3>2 DEF IdleAgrees
  <2>5. RunIsLogged(s)'
    <3> SUFFICES ASSUME active'[s].file = "whole", <<s, "create">> \notin torn'
                 PROVE  StatusKept(s, "active")' /\ (OneProcess => snap'[s].status = "active")
      BY DEF RunIsLogged
    <3>1. active'[s] = active[s]
      BY <2>1 DEF Crash, BlankMeta, ShapeInv, TypeOK
    <3>2. op[p].kind # "create" /\ <<s, "create">> \notin torn
      BY <2>2
    <3>3. ~Creating(s)
      BY <1>1, <2>1, <3>2, OnlyWorker DEF Creating
    <3>4. StatusKept(s, "active") /\ (OneProcess => snap[s].status = "active")
      BY <1>1, <3>1, <3>2, <3>3 DEF RunInv, RunIsLogged
    <3> QED  BY <1>3, <3>4, LogSame DEF StatusKept
  <2> QED  BY <2>3, <2>4, <2>5 DEF RunInv
<1> QED  BY <1>4, <1>5

LEMMA NewYearInv ==
  ASSUME ShapeInv, SoleInv, NewYear
  PROVE  ShapeInv' /\ SoleInv'
<1> USE DEF ShapeInv
<1>1. UNCHANGED <<active, archived, snap, tmp, wal, op, torn, crashes>> /\ year' = year + 1
  BY DEF NewYear, files
<1>2. year \in Int /\ year' \in Year
  BY DEF NewYear, TypeOK, Year
<1>3. NothingAhead'
  <2> SUFFICES ASSUME NEW y \in Year, NEW s \in Slug, y > year'
               PROVE  wal[y][s] = NoEntry
    BY <1>1 DEF NothingAhead
  <2>1. y > year
    BY <1>1, <1>2 DEF Year
  <2> QED  BY <2>1 DEF NothingAhead
<1>4. ShapeInv'
  BY <1>1, <1>2, <1>3 DEF TypeOK, OpsOK, MetaOK, NoneDown
<1>5. SoleInv'
  <2> SUFFICES ASSUME NEW s \in Slug, Sole(s)
               PROVE  RunInv(s)'
    BY DEF SoleInv, Sole
  <2>1. OtherRun(s)
    BY <1>1, SameLogKept DEF OtherRun, Works
  <2> QED  BY <2>1, OtherRunInv DEF SoleInv
<1> QED  BY <1>4, <1>5

-----------------------------------------------------------------------------
\* Runs are known to the log

\* What an entry adds to the log does not take a run's state or status away.
LEMMA AppendKeepsKnown ==
  ASSUME ShapeInv, NEW p \in Process, AppendWal(p), NEW s \in Slug,
         \/ LogState(s) # NoState /\ LogStatus(s) # "none"
         \/ op[p].slug = s /\ op[p].kind = "create"
  PROVE  LogState(s)' # NoState /\ LogStatus(s)' # "none"
<1> DEFINE r == op[p].slug
           e == Logged(wal[year][r], op[p])
<1>1. /\ OpsOK /\ TypeOK /\ NothingAhead /\ r \in Slug
      /\ op[p].kind \in {"create", "transition", "archive"}
      /\ op[p].kind # "archive" => op[p].meta \in WholeMeta
  BY StepMetaType, Underway DEF ShapeInv, AppendWal, Doing
<1>2. wal[year][r] \in Entry
  BY <1>1 DEF TypeOK
<1>3. /\ e \in Entry
      /\ op[p].kind = "create" => e.state # NoState /\ e.status # "none"
      /\ op[p].kind = "transition" => e.state # NoState /\ e.status = wal[year][r].status
      /\ op[p].kind = "archive" => e.state = wal[year][r].state /\ e.status # "none"
  BY <1>1, <1>2 DEF Logged, Entry, WholeMeta
<1>4. wal' = [wal EXCEPT ![year][r] = e]
  BY DEF AppendWal
<1> HIDE DEF e
<1>5. CASE s # r
  <2>1. LogState(s)' = LogState(s) /\ LogStatus(s)' = LogStatus(s)
    BY <1>1, <1>3, <1>4, <1>5, LogAppended
  <2> QED  BY <1>5, <2>1
<1>6. CASE s = r
  <2>1. /\ e.state # NoState => LogState(s)' = e.state
        /\ e.status # "none" => LogStatus(s)' = e.status
        /\ e.state = wal[year][s].state => LogState(s)' = LogState(s)
        /\ e.status = wal[year][s].status => LogStatus(s)' = LogStatus(s)
    BY <1>1, <1>3, <1>4, <1>6, LogAppended
  <2> QED  BY <1>1, <1>3, <1>6, <2>1
<1> QED  BY <1>5, <1>6

LEMMA FileStepKnown ==
  ASSUME ShapeInv, KnownOrCreated, NEW p \in Process, FileStep(p)
  PROVE  KnownOrCreated'
<1>1. op[p].todo # <<>> /\ OpsOK /\ TypeOK
  BY NextStep DEF ShapeInv
<1>2. crashes' = crashes
  BY DEF FileStep, MakeDirectory, WriteMeta, AppendWal, LoadSnapshot, WriteSnapshot,
     ReplaceSnapshot, RemoveOldArchive, MoveToArchive, Raise, Done
<1> SUFFICES ASSUME crashes = 0, NEW s \in Slug, active'[s].file # "missing"
             PROVE  \/ LogState(s)' # NoState /\ LogStatus(s)' # "none"
                    \/ \E q \in Process : /\ Works(q, s)' /\ op'[q].kind = "create"
                                         /\ Left(q)' >= 4
  BY <1>2 DEF KnownOrCreated
<1>3. /\ op[p].slug \in Slug /\ op[p].seen \in [Slug -> Snap] /\ active \in [Slug -> Meta]
      /\ NoSeen \in [Slug -> Snap] /\ snap \in [Slug -> Snap]
  BY <1>1, StepMetaType, NoSeenType DEF TypeOK
<1>4. op[p].kind = "create" => op[p].todo \in CreateTodo /\ Left(p) \in 1..6
  BY <1>1, Underway DEF Creates, Updates, Archives
<1>5. Doing(p, "mkdir") => op[p].kind = "create" /\ Left(p) = 6
  <2>1. CASE op[p] \in Creates(p)
    BY <1>4, <2>1, CreateTable DEF Creates, Doing, Left
  <2>2. CASE op[p] \in Updates(p)
    BY <2>2, UpdateTable DEF Updates, Doing
  <2>3. CASE op[p] \in Archives(p)
    BY <2>3, ArchiveTable DEF Archives, Doing
  <2> QED  BY <1>1, <2>1, <2>2, <2>3, Underway
<1>6. ASSUME op[p].kind = "create", op[p].slug = s, Left(p) >= 5,
             NEW seen \in [Slug -> Snap], Done(p, seen)
      PROVE  Works(p, s)' /\ op'[p].kind = "create" /\ Left(p)' >= 4
  <2>1. /\ Left(p)' = Left(p) - 1 /\ op'[p].todo # <<>>
        /\ op'[p].slug = op[p].slug /\ op'[p].kind = op[p].kind
    BY <1>1, <1>6, DoneResult
  <2> QED  BY <1>4, <1>6, <2>1 DEF Works
<1>7. CASE active[s].file = "missing"
  <2>1. MakeDirectory(p) /\ op[p].slug = s
    BY <1>3, <1>7 DEF FileStep, MakeDirectory, WriteMeta, AppendWal, LoadSnapshot,
       WriteSnapshot, ReplaceSnapshot, RemoveOldArchive, MoveToArchive, Raise, files, NoMeta
  <2> QED  BY <1>3, <1>5, <1>6, <2>1 DEF MakeDirectory
<1>8. CASE active[s].file # "missing" /\ LogState(s) # NoState /\ LogStatus(s) # "none"
  <2>1. CASE AppendWal(p)
    BY <1>8, <2>1, AppendKeepsKnown
  <2>2. CASE ~AppendWal(p)
    <3>1. wal' = wal
      BY <2>2 DEF FileStep, MakeDirectory, WriteMeta, LoadSnapshot, WriteSnapshot, ReplaceSnapshot,
         RemoveOldArchive, MoveToArchive, Raise, files
    <3> QED  BY <1>8, <3>1, LogSame
  <2> QED  BY <2>1, <2>2
<1>9. CASE active[s].file # "missing" /\ ~(LogState(s) # NoState /\ LogStatus(s) # "none")
  <2>1. PICK q \in Process : Works(q, s) /\ op[q].kind = "create" /\ Left(q) >= 4
    BY <1>9 DEF KnownOrCreated
  <2>2. CASE q # p
    <3>1. op'[q] = op[q]
      <4>1. CASE Raise(p)
        BY <1>1, <2>2, <4>1 DEF Raise, OpsOK
      <4>2. CASE ~Raise(p)
        BY <1>1, <2>2, <4>2 DEF OpsOK, FileStep, MakeDirectory, WriteMeta, AppendWal,
           LoadSnapshot, WriteSnapshot, ReplaceSnapshot, RemoveOldArchive, MoveToArchive, Done
      <4> QED  BY <4>1, <4>2
    <3> QED  BY <2>1, <3>1 DEF Works, Left
  <2>3. CASE q = p /\ Left(p) >= 5
    <3>1. MakeDirectory(p) \/ WriteMeta(p)
      <4>1. op[p].todo \in CreateTodo /\ Len(op[p].todo) \in {5, 6} /\ op[p].slug = s
        <5>1. op[p].kind = "create" /\ op[p].slug = s
          BY <2>1, <2>3 DEF Works
        <5>2. op[p].todo \in CreateTodo /\ Left(p) \in {5, 6}
          BY <1>4, <2>3, <5>1
        <5> QED  BY <5>1, <5>2 DEF Left
      <4>2. Head(op[p].todo) \in {"mkdir", "meta"}
        BY <4>1, CreateTable
      <4> QED  BY <1>9, <4>1, <4>2, NextStep
    <3>2. Done(p, NoSeen)
      BY <3>1 DEF MakeDirectory, WriteMeta
    <3> QED  BY <1>3, <1>6, <2>1, <2>3, <3>2 DEF Works
  <2>4. CASE q = p /\ Left(p) = 4
    <3>1. AppendWal(p)
      BY <1>4, <2>1, <2>4, CreateTable, NextStep DEF Left, Works
    <3> QED  BY <2>1, <2>4, <3>1, AppendKeepsKnown DEF Works
  <2> QED  BY <1>4, <2>1, <2>2, <2>3, <2>4
<1> QED  BY <1>7, <1>8, <1>9

LEMMA SameKnown ==
  ASSUME KnownOrCreated, UNCHANGED <<active, wal, crashes>>,
         \A q \in Process : op[q].todo # <<>> => op'[q] = op[q]
  PROVE  KnownOrCreated'
<1> SUFFICES ASSUME crashes = 0, NEW s \in Slug, active[s].file # "missing"
             PROVE  \/ LogState(s)' # NoState /\ LogStatus(s)' # "none"
                    \/ \E q \in Process : /\ Works(q, s)' /\ op'[q].kind = "create"
                                         /\ Left(q)' >= 4
  BY DEF KnownOrCreated
<1>1. CASE LogState(s) # NoState /\ LogStatus(s) # "none"
  BY <1>1, LogSame
<1>2. CASE ~(LogState(s) # NoState /\ LogStatus(s) # "none")
  <2>1. PICK q \in Process : Works(q, s) /\ op[q].kind = "create" /\ Left(q) >= 4
    BY <1>2 DEF KnownOrCreated
  <2>2. op'[q] = op[q]
    BY <2>1 DEF Works
  <2>3. Works(q, s)' /\ op'[q].kind = "create" /\ Left(q)' >= 4
    BY <2>1, <2>2 DEF Works, Left
  <2> QED  BY <2>3
<1> QED  BY <1>1, <1>2

LEMMA StartKnown ==
  ASSUME ShapeInv, KnownOrCreated, NEW p \in Process, NEW o, Starts(p, o)
  PROVE  KnownOrCreated'
<1>1. OpsOK /\ op[p].todo = <<>>
  BY StartShape DEF ShapeInv, Ready
<1>2. UNCHANGED <<active, wal, crashes>> /\ op' = [op EXCEPT ![p] = o]
  BY DEF Starts, files
<1>3. \A q \in Process : op[q].todo # <<>> => op'[q] = op[q]
  BY <1>1, <1>2 DEF OpsOK
<1> QED  BY <1>2, <1>3, SameKnown

-----------------------------------------------------------------------------
\* The invariant holds throughout.

LEMMA InitInv == Init => RunsInv
<1> SUFFICES ASSUME Init PROVE RunsInv
  OBVIOUS
<1> USE DEF Init
<1>1. 0 \in Year /\ \A p \in Process : op[p] = Ready
  BY DEF Year
<1>2. \A p \in Process : \A s \in Slug : ~Works(p, s)
  BY <1>1 DEF Works, Ready
<1>3. TypeOK
  <2>1. NoMeta \in Meta /\ NoSnap \in Snap /\ NoEntry \in Entry
    BY <1>1 DEF NoMeta, Meta, NoSnap, Snap, NoEntry, Entry
  <2>2. NoSeen \in [Slug -> Snap] /\ tmp \subseteq [Slug -> Snap]
    BY NoSeenType
  <2> QED  BY <1>1, <2>1, <2>2 DEF TypeOK, Ready
<1>4. OpsOK /\ MetaOK /\ NothingAhead /\ NoneDown
  BY <1>1 DEF OpsOK, MetaOK, NothingAhead, NoneDown, Ready
<1>5. ASSUME NEW s \in Slug PROVE RunInv(s)
  BY <1>2 DEF RunInv, RunIsLogged, IdleAgrees, WorkAgrees, NoMeta
<1>6. KnownOrCreated
  BY DEF KnownOrCreated, NoMeta
<1> QED  BY <1>3, <1>4, <1>5, <1>6 DEF RunsInv, ShapeInv, SoleInv

LEMMA NextInv == RunsInv /\ [Next]_vars => RunsInv'
<1> SUFFICES ASSUME RunsInv, [Next]_vars PROVE RunsInv'
  OBVIOUS
<1>1. ShapeInv /\ SoleInv /\ KnownOrCreated
  BY DEF RunsInv
<1>2. ASSUME NEW p \in Process, FileStep(p) PROVE RunsInv'
  BY <1>1, <1>2, FileStepShape, FileStepRuns, FileStepKnown DEF RunsInv
<1>3. ASSUME NEW p \in Process, Recover(p) PROVE RunsInv'
  <2>1. crashes # 0 /\ crashes' = crashes
    BY <1>1, <1>3 DEF ShapeInv, NoneDown, Recover
  <2> QED  BY <1>1, <1>3, <2>1, RecoverInv DEF RunsInv, KnownOrCreated
<1>4. ASSUME NEW p \in Process, Crash(p) PROVE RunsInv'
  <2>1. crashes' # 0
    BY <1>1, <1>4 DEF ShapeInv, TypeOK, Crash
  <2> QED  BY <1>1, <1>4, <2>1, CrashShape, CrashRuns DEF RunsInv, KnownOrCreated
<1>5. ASSUME NEW p \in Process, NEW s \in Slug, Create(p, s) PROVE RunsInv'
  <2>1. PICK o : /\ Starts(p, o) /\ o.kind = "create" /\ o.todo = CreateSteps
                 /\ active[o.slug].file \in {"missing", "dir"}
    BY <1>1, <1>5, CreateStarts
  <2> QED  BY <1>1, <2>1, StartShape, StartRuns, StartKnown DEF RunsInv
<1>6. ASSUME NEW p \in Process, NEW s \in Slug, Archive(p, s) PROVE RunsInv'
  <2>1. PICK o : /\ Starts(p, o) /\ o.kind = "archive" /\ o.todo = ArchiveSteps
                 /\ active[o.slug].file # "missing"
    BY <1>1, <1>6, ArchiveStarts
  <2> QED  BY <1>1, <2>1, StartShape, StartRuns, StartKnown DEF RunsInv
<1>7. ASSUME NEW p \in Process, NEW s \in Slug, NEW to \in State, UpdateState(p, s, to)
      PROVE  RunsInv'
  <2>1. PICK o : /\ Starts(p, o) /\ o.kind = "transition" /\ o.todo = UpdateSteps
                 /\ active[o.slug].file = "whole"
    BY <1>1, <1>7, UpdateStarts
  <2> QED  BY <1>1, <2>1, StartShape, StartRuns, StartKnown DEF RunsInv
<1>8. ASSUME NewYear PROVE RunsInv'
  <2>1. UNCHANGED <<active, wal, op, crashes>>
    BY <1>8 DEF NewYear, files
  <2>2. KnownOrCreated'
    BY <1>1, <2>1, SameKnown
  <2> QED  BY <1>1, <1>8, <2>2, NewYearInv DEF RunsInv
<1>9. CASE UNCHANGED vars
  <2>1. UNCHANGED <<active, archived, snap, tmp, wal, year, op, torn, crashes>>
    BY <1>9 DEF vars, files
  <2>2. ShapeInv'
    BY <1>1, <2>1 DEF ShapeInv, TypeOK, OpsOK, MetaOK, NothingAhead, NoneDown
  <2>3. SoleInv'
    <3> SUFFICES ASSUME NEW s \in Slug, Sole(s)
                 PROVE  RunInv(s)'
      BY DEF SoleInv, Sole
    <3>1. OtherRun(s)
      BY <2>1, SameLogKept DEF OtherRun, Works
    <3> QED  BY <1>1, <3>1, OtherRunInv DEF SoleInv
  <2>4. KnownOrCreated'
    BY <1>1, <2>1, SameKnown
  <2> QED  BY <2>2, <2>3, <2>4 DEF RunsInv
<1> QED  BY <1>2, <1>3, <1>4, <1>5, <1>6, <1>7, <1>8, <1>9 DEF Next

LEMMA RunsInvariant == Spec => []RunsInv
BY InitInv, NextInv, PTL DEF Spec

-----------------------------------------------------------------------------
\* What recovery finds

\* The snapshot counts where the log says nothing.
LEMMA RecoveredIs ==
  ASSUME TypeOK, NEW s \in Slug
  PROVE  /\ RecoveredState(s) = IF LogState(s) = NoState THEN snap[s].state ELSE LogState(s)
         /\ RecoveredStatus(s) = IF LogStatus(s) = "none" THEN snap[s].status ELSE LogStatus(s)
<1>1. RecoveredState(s) =
        IF StateYears(s) = {} THEN snap[s].state ELSE wal[LastYear(StateYears(s))][s].state
  BY DEF RecoveredState, StateYears
<1>2. StateYears(s) # {} => LogState(s) # NoState
  <2>1. StateYears(s) # {} => LastYear(StateYears(s)) \in StateYears(s)
    BY LatestExists DEF StateYears
  <2> QED  BY <2>1 DEF LogState, StateYears
<1>3. RecoveredStatus(s) =
        IF StatusYears(s) = {} THEN snap[s].status ELSE wal[LastYear(StatusYears(s))][s].status
  BY DEF RecoveredStatus, StatusYears
<1>4. StatusYears(s) # {} => LogStatus(s) # "none"
  <2>1. StatusYears(s) # {} => LastYear(StatusYears(s)) \in StatusYears(s)
    BY LatestExists DEF StatusYears
  <2> QED  BY <2>1 DEF LogStatus, StatusYears
<1> QED  BY <1>1, <1>2, <1>3, <1>4 DEF LogState, LogStatus

LEMMA IdleRunKnown == RunsInv => IdleRunIsKnown
<1> SUFFICES ASSUME RunsInv, NEW s \in Slug, crashes = 0, ~Busy(s), active[s].file # "missing"
             PROVE  RecoveredState(s) # NoState /\ RecoveredStatus(s) # "none"
  BY DEF IdleRunIsKnown
<1>1. LogState(s) # NoState /\ LogStatus(s) # "none"
  BY DEF RunsInv, KnownOrCreated, Busy, Works
<1> QED  BY <1>1, RecoveredIs DEF RunsInv, ShapeInv

LEMMA RecoveryAgrees ==
  ASSUME NoCompaction \/ OneProcess, RunsInv
  PROVE  RecoveryAgreesWithRun
<1> SUFFICES ASSUME NEW s \in Slug, Sole(s), ~Busy(s), \A t \in torn : t[1] # s
             PROVE  /\ active[s].file \in {"blank", "whole"} =>
                         Recovered(s) = [state |-> active[s].state, status |-> "active"]
                    /\ active[s].file = "missing" /\ archived[s].file # "missing" =>
                         Recovered(s).status = "archived"
  BY DEF RecoveryAgreesWithRun
<1>1. /\ TypeOK /\ RunIsLogged(s) /\ IdleAgrees(s)
      /\ active[s] \in {NoMeta, DirOnly, BlankMeta} \cup WholeMeta
  BY DEF RunsInv, ShapeInv, SoleInv, RunInv, MetaOK
<1>2. ~Creating(s) /\ <<s, "create">> \notin torn
  BY DEF Creating, Busy, Works
<1>3. ASSUME active[s].file \in {"blank", "whole"}
      PROVE  RecoveredState(s) = active[s].state /\ RecoveredStatus(s) = "active"
  <2>1. active[s].file = "whole" /\ active[s] \in WholeMeta
    BY <1>1, <1>3 DEF IdleAgrees, NoMeta, DirOnly, BlankMeta
  <2>2. /\ StateKept(s, active[s].state) /\ (OneProcess => snap[s].state = active[s].state)
        /\ StatusKept(s, "active") /\ (OneProcess => snap[s].status = "active")
    BY <1>1, <1>2, <2>1 DEF RunIsLogged, IdleAgrees
  <2>3. active[s].state # NoState
    BY <2>1 DEF WholeMeta
  <2> QED  BY <1>1, <2>2, <2>3, RecoveredIs DEF StateKept, StatusKept
<1>4. ASSUME active[s].file = "missing", archived[s].file # "missing"
      PROVE  RecoveredStatus(s) = "archived"
  <2>1. StatusKept(s, "archived") /\ (OneProcess => snap[s].status = "archived")
    BY <1>1, <1>4 DEF IdleAgrees
  <2> QED  BY <1>1, <2>1, RecoveredIs DEF StatusKept
<1> QED  BY <1>3, <1>4 DEF Recovered

\* What recovery would compute at any moment agrees with the runs on disk and knows them
\* all, for any number of runs and processes of RunManager, transitions and crashes:
\* within one calendar year or without crashes, so that _compact_wal deletes nothing, and
\* over any number of years when one process uses the data directory.
THEOREM RecoveryCorrect ==
  ASSUME NoCompaction \/ OneProcess
  PROVE  Spec => []RecoveryInv
<1>1. RunsInv => RecoveryInv
  BY IdleRunKnown, RecoveryAgrees DEF RecoveryInv, RunsInv, ShapeInv
<1> QED  BY <1>1, RunsInvariant, PTL

\* However many processes share a run, and over any number of years: as long as none has
\* died, recover() knows every run that exists and that nobody is working on.
THEOREM IdleRunsAreKnown == Spec => []IdleRunIsKnown
BY IdleRunKnown, RunsInvariant, PTL

-----------------------------------------------------------------------------
\* All of them

StorageInv ==
  /\ RunsInv /\ AuditInv /\ MemoryInv /\ AlertsInv /\ AccessInv /\ CatalogueInv /\ PluginsInv
  /\ StoreInv /\ ConsoleInv /\ LlmInv /\ HooksInv /\ ChaosInv /\ EmergenceInv /\ RemediationInv

LEMMA StorageInitInv == StorageInit => StorageInv
  BY InitInv, AuditInitInv, MemoryInitInv, AlertsInitInv, AccessInitInv, CatalogueInitInv,
     PluginsInitInv, StoreInitInv, ConsoleInitInv, LlmInitInv, HooksInitInv, ChaosInitInv,
     EmergenceInitInv, RemediationInitInv
  DEF StorageInit, StorageInv

\* One part moves, and the rest of the state stays.
LEMMA OnePartMoves ==
  ASSUME [StorageNext]_storageVars
  PROVE  /\ [Next]_vars
         /\ AuditNext \/ UNCHANGED auditVars
         /\ FactsNext \/ TableNext \/ SharedNext \/ UNCHANGED memoryVars
         /\ AlertsNext \/ UNCHANGED alertVars
         /\ AccessNext \/ UNCHANGED accessVars
         /\ RegistryNext \/ MigrationNext \/ UNCHANGED catalogueVars
         /\ PluginsNext \/ UNCHANGED pluginVars
         /\ StoreNext \/ UNCHANGED storeVars
         /\ ConsoleNext \/ UNCHANGED consoleVars
         /\ LlmNext \/ UNCHANGED clientVars
         /\ HooksNext \/ UNCHANGED hooksVars
         /\ ChaosNext \/ UNCHANGED chaosVars
         /\ EmergenceNext \/ UNCHANGED emergenceVars
         /\ RemediationNext \/ UNCHANGED remediationVars
<1>1. CASE UNCHANGED storageVars
  BY <1>1 DEF storageVars
<1>2. CASE StorageNext
  <2>1. [Next]_vars
    BY <1>2 DEF StorageNext, Rests
  <2>2. AuditNext \/ UNCHANGED auditVars
    BY <1>2 DEF StorageNext, Rests
  <2>3. FactsNext \/ TableNext \/ SharedNext \/ UNCHANGED memoryVars
    BY <1>2 DEF StorageNext, Rests
  <2>4. AlertsNext \/ UNCHANGED alertVars
    BY <1>2 DEF StorageNext, Rests
  <2>5. AccessNext \/ UNCHANGED accessVars
    BY <1>2 DEF StorageNext, Rests
  <2>6. RegistryNext \/ MigrationNext \/ UNCHANGED catalogueVars
    BY <1>2 DEF StorageNext, Rests
  <2>7. PluginsNext \/ UNCHANGED pluginVars
    <3>1. LifeCycleNext \/ ProvidersNext \/ Discover \/ (\E p \in Provider : Enable(p))
          \/ UNCHANGED pluginVars
      BY <1>2 DEF StorageNext, Rests
    <3>2. (\E p \in Provider : Enable(p)) => \E p \in PluginId : Enable(p)
      BY PluginsAssumption
    <3> QED  BY <3>1, <3>2 DEF PluginsNext, LifeCycleNext
  <2>8. StoreNext \/ UNCHANGED storeVars
    BY <1>2 DEF StorageNext, Rests
  <2>9. ConsoleNext \/ UNCHANGED consoleVars
    BY <1>2 DEF StorageNext, Rests
  <2>10. LlmNext \/ UNCHANGED clientVars
    BY <1>2 DEF StorageNext, Rests
  <2>11. HooksNext \/ UNCHANGED hooksVars
    BY <1>2 DEF StorageNext, Rests
  <2>12. ChaosNext \/ UNCHANGED chaosVars
    BY <1>2 DEF StorageNext, Rests
  <2>13. EmergenceNext \/ UNCHANGED emergenceVars
    BY <1>2 DEF StorageNext, Rests
  <2>14. RemediationNext \/ UNCHANGED remediationVars
    BY <1>2 DEF StorageNext, Rests
  <2> QED  BY <2>1, <2>2, <2>3, <2>4, <2>5, <2>6, <2>7, <2>8, <2>9, <2>10, <2>11, <2>12, <2>13, <2>14
<1> QED  BY <1>1, <1>2

LEMMA MemoryNextInv ==
  ASSUME MemoryInv, FactsNext \/ TableNext \/ SharedNext \/ UNCHANGED memoryVars
  PROVE  MemoryInv'
<1>1. CASE FactsNext
  <2>1. UNCHANGED <<tableVars, sharedVars>>
    BY <1>1 DEF FactsNext, Remember, Read, Forget, ClearFacts
  <2> QED  BY <1>1, <2>1, FactsNextInv, TableRests, SharedRests DEF MemoryInv
<1>2. CASE TableNext
  <2>1. UNCHANGED <<factVars, sharedVars>>
    BY <1>2 DEF TableNext, SaveRow, LoadRow, DeleteRow, ClearTable, Reopen
  <2> QED  BY <1>2, <2>1, TableNextInv, FactsRests, SharedRests DEF MemoryInv
<1>3. CASE SharedNext
  <2>1. UNCHANGED <<factVars, tableVars>>
    BY <1>3 DEF SharedNext, SetShared, DeleteShared, Pull, StampTicks
  <2> QED  BY <1>3, <2>1, SharedNextInv, FactsRests, TableRests DEF MemoryInv
<1>4. CASE UNCHANGED memoryVars
  <2>1. UNCHANGED factVars /\ UNCHANGED tableVars /\ UNCHANGED sharedVars
    BY <1>4 DEF memoryVars, factVars, tableVars, sharedVars
  <2> QED  BY <2>1, FactsRests, TableRests, SharedRests DEF MemoryInv
<1> QED  BY <1>1, <1>2, <1>3, <1>4

LEMMA StorageNextInv == ASSUME StorageInv, [StorageNext]_storageVars PROVE StorageInv'
<1>1. RunsInv'
  BY OnePartMoves, NextInv DEF StorageInv
<1>2. AuditInv'
  BY OnePartMoves, AuditNextInv, AuditRests DEF StorageInv
<1>3. MemoryInv'
  BY OnePartMoves, MemoryNextInv DEF StorageInv
<1>4. AlertsInv'
  BY OnePartMoves, AlertsNextInv, AlertsRests DEF StorageInv
<1>5. AccessInv'
  BY OnePartMoves, AccessNextInv, AccessRests DEF StorageInv
<1>6. CatalogueInv'
  BY OnePartMoves, RegistryNextInv, MigrationNextInv, CatalogueRests DEF StorageInv
<1>7. PluginsInv'
  BY OnePartMoves, PluginsNextInv, PluginsRests DEF StorageInv
<1>8. StoreInv'
  BY OnePartMoves, StoreNextInv, StoreRests DEF StorageInv
<1>9. ConsoleInv'
  BY OnePartMoves, ConsoleNextInv, ConsoleRests DEF StorageInv
<1>10. LlmInv'
  BY OnePartMoves, LlmNextInv, LlmRests DEF StorageInv
<1>11. HooksInv'
  BY OnePartMoves, HooksNextInv, HooksRests DEF StorageInv
<1>12. ChaosInv'
  BY OnePartMoves, ChaosNextInv, ChaosRests DEF StorageInv
<1>13. EmergenceInv'
  BY OnePartMoves, EmergenceNextInv, EmergenceRests DEF StorageInv
<1>14. RemediationInv'
  BY OnePartMoves, RemediationNextInv, RemediationRests DEF StorageInv
<1> QED  BY <1>1, <1>2, <1>3, <1>4, <1>5, <1>6, <1>7, <1>8, <1>9, <1>10, <1>11, <1>12, <1>13, <1>14
         DEF StorageInv

LEMMA StorageInvariant == StorageSpec => []StorageInv
<1>1. StorageInv /\ [StorageNext]_storageVars => StorageInv'
  BY StorageNextInv
<1> QED  BY <1>1, StorageInitInv, PTL DEF StorageSpec

-----------------------------------------------------------------------------
LEMMA AllTypes == ASSUME StorageInv PROVE StorageTypeOK
<1>1. TypeOK
  BY DEF StorageInv, RunsInv, ShapeInv
<1>2. LlmTypeOK
  BY DEF StorageInv, LlmInv
<1> QED  BY <1>1, <1>2, AuditHolds, MemoryHolds, AlertsHold, AccessHolds, CatalogueHolds, PluginsHold,
            StoreHolds, ConsoleHolds, HooksHold, ChaosHolds, EmergenceHolds, RemediationHolds
         DEF StorageInv, StorageTypeOK

\* What was kept is found again: the runs by recovery, audit entries after crashes of the
\* recorder and of the compaction, a revocation after a restart, the published files of an
\* installed plugin, and submitted tasks beside other processes; for any number of each and
\* of crashes, and with the condition RecoveryCorrect has.
THEOREM StorageKeepsFiles ==
  ASSUME NoCompaction \/ OneProcess
  PROVE  StorageSpec => []FilesKept
<1>1. StorageInv => FilesKept
  BY AllTypes, RecoveryAgrees, AuditHolds, AccessHolds, StoreHolds, ConsoleHolds
  DEF StorageInv, FilesKept
<1> QED  BY <1>1, StorageInvariant, PTL

\* What is derived agrees with its source: the tags of an agent's facts, the rows of a table
\* and its clean-up, registers two nodes have exchanged, answers of the profile cache, the
\* index of skills; for any keys, nodes, versions and drafts, and all limits.
THEOREM StorageDerivesTruly == StorageSpec => []DerivedAgrees
<1>1. StorageInv => DerivedAgrees
  BY MemoryHolds, CatalogueHolds, EmergenceHolds DEF StorageInv, DerivedAgrees
<1> QED  BY <1>1, StorageInvariant, PTL

\* Posts of a channel keep their distance and none is withheld longer, no key gets more than
\* its burst and rate, and no fault outlives its scenario or escapes its snapshot; for any
\* interval, rate, burst and jitter.
THEOREM StorageKeepsTimes == StorageSpec => []TimesKept
<1>1. StorageInv => TimesKept
  BY AlertsHold, AccessHolds, ChaosHolds DEF StorageInv, TimesKept
<1> QED  BY <1>1, StorageInvariant, PTL

\* No order of calls, failing ones among them, leaves a plugin enabled and not set up, a
\* provider registry without its default, a migrated run without a place, a handler unheard,
\* an error of a library at the caller of a model, or a skill or promotion unearned.
THEOREM SequencesStaySafe == StorageSpec => []SequencesSafe
<1>1. StorageInv => SequencesSafe
  BY PluginsHold, CatalogueHolds, HooksHold, EmergenceHolds
  DEF StorageInv, SequencesSafe, LlmInv
<1> QED  BY <1>1, StorageInvariant, PTL

\* No plan for a failure begins to act within five minutes after one succeeded, unless
\* another one was under way meanwhile (AutoRemediator.execute_plan and its cooldowns).
THEOREM SuccessesRest == StorageSpec => SuccessRests
<1>1. StorageInv /\ [StorageNext]_storageVars =>
        [\A b \in Attempt :
           attempt[b].at = "planned" /\ attempt'[b].at = "acting"
             => \A a \in Attempt :
                  \/ attempt[a].status # "success" \/ attempt[a].of # attempt[b].of
                  \/ minute >= attempt[a].ended + 5
                  \/ \E c \in Attempt :
                       /\ attempt[c].of = attempt[b].of /\ attempt[c].status = "failed"
                       /\ attempt[c].began <= attempt[a].ended
                       /\ attempt[c].ended >= attempt[a].ended]_remediationVars
  <2> SUFFICES ASSUME StorageInv, [StorageNext]_storageVars,
                      NEW b \in Attempt, attempt[b].at = "planned", attempt'[b].at = "acting",
                      NEW a \in Attempt, attempt[a].status = "success", attempt[a].of = attempt[b].of,
                      ~(minute >= attempt[a].ended + 5)
               PROVE  \E c \in Attempt :
                        /\ attempt[c].of = attempt[b].of /\ attempt[c].status = "failed"
                        /\ attempt[c].began <= attempt[a].ended
                        /\ attempt[c].ended >= attempt[a].ended
    OBVIOUS
  <2>1. RemediationInv /\ (RemediationNext \/ UNCHANGED remediationVars)
    BY OnePartMoves DEF StorageInv
  <2> QED  BY <2>1, RestsAfterSuccess DEF Overtaken
<1> QED  BY <1>1, StorageInvariant, PTL DEF StorageSpec, SuccessRests

===============================================================================
