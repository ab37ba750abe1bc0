------------------------------ MODULE AuditTrail ------------------------------
(***************************************************************************)
(* The audit log: an active file, gzipped segments, rotation by the process *)
(* that records and compaction by the command `audit compact`               *)
(* (engine/audit.py).                                                       *)
(*                                                                         *)
(* The lock of AuditLog is one process's own, so the two processes meet in  *)
(* the files.  Segments are numbered by counting the files there are.  The  *)
(* recorder keeps its file open: once the compaction has replaced the file, *)
(* what it writes goes nowhere.  Either process may crash at every step, the *)
(* recorder also in the middle of a line, to which the next one is glued.    *)
(***************************************************************************)
EXTENDS Naturals, Sequences, FiniteSets, Subsequences

CONSTANTS
  SegmentSize,      \* max_segment_size
  MaxEntries,       \* bound: entries recorded
  MaxAuditCrashes   \* bound: crashes of a process

ASSUME AuditAssumption ==
  SegmentSize \in Nat \ {0} /\ MaxEntries \in Nat /\ MaxAuditCrashes \in Nat

VARIABLES
  auditLog,   \* entries of audit.log
  cutOff,     \* it ends in a piece of a line
  archive,    \* entries of each segment, by number
  oldEntries, \* entries that are older than a compaction's cutoff would be
  recorder,   \* the process that records
  compactor,  \* the process that compacts
  recorded,   \* entries whose record() returned
  excused,    \* entries that a crash or the other process's work may have removed
  made, auditCrashes

auditVars == <<auditLog, cutOff, archive, oldEntries, recorder, compactor, recorded, excused, made, auditCrashes>>

Entries(s) == {s[i] : i \in DOMAIN s}

\* step: what the process does next; count is _entry_count; detached: its file was replaced
NewRecorder == [step |-> "idle", count |-> 0, segment |-> 0, detached |-> FALSE]
NoCompactor == [step |-> "idle", cut |-> {}, segment |-> 0, temp |-> <<>>]

AuditInit ==
  /\ auditLog = <<>> /\ cutOff = FALSE /\ archive = <<>> /\ oldEntries = {}
  /\ recorder = NewRecorder /\ compactor = NoCompactor
  /\ recorded = {} /\ excused = {} /\ made = 0 /\ auditCrashes = 0

\* A segment is written; one of the same number is overwritten.
Written(n, entries) ==
  IF n <= Len(archive) THEN [archive EXCEPT ![n] = entries] ELSE Append(archive, entries)
Overwritten(n) == IF n <= Len(archive) THEN Entries(archive[n]) ELSE {}

Ages(e) ==
  /\ e \in 1..made \ oldEntries /\ oldEntries' = oldEntries \cup {e}
  /\ UNCHANGED <<auditLog, cutOff, archive, recorder, compactor, recorded, excused, made, auditCrashes>>

-----------------------------------------------------------------------------
\* record(), with _rotate when the segment is full

Record ==
  LET e == made + 1
      full == recorder.count + 1 >= SegmentSize
      lost == recorder.detached \/ compactor.step = "replace" \/ cutOff
  IN
  /\ recorder.step = "idle" /\ made < MaxEntries /\ made' = e
  /\ auditLog' = IF recorder.detached \/ cutOff THEN auditLog ELSE Append(auditLog, e)
  /\ cutOff' = (cutOff /\ recorder.detached)
  /\ recorder' = [recorder EXCEPT !.count = @ + 1, !.step = IF full THEN "name" ELSE "idle"]
  /\ recorded' = IF full THEN recorded ELSE recorded \cup {e}
  /\ excused' = IF lost THEN excused \cup {e} ELSE excused
  /\ UNCHANGED <<archive, oldEntries, compactor, auditCrashes>>

RotateNames ==
  /\ recorder.step = "name"
  /\ recorder' = [recorder EXCEPT !.segment = Len(archive) + 1, !.step = "copy"]
  /\ UNCHANGED <<auditLog, cutOff, archive, oldEntries, compactor, recorded, excused, made, auditCrashes>>

\* The log is copied before it is cleared.
RotateCopies ==
  /\ recorder.step = "copy"
  /\ archive' = Written(recorder.segment, auditLog)
  /\ recorder' = [recorder EXCEPT !.step = "clear"]
  /\ excused' = excused \cup Overwritten(recorder.segment)
  /\ UNCHANGED <<auditLog, cutOff, oldEntries, compactor, recorded, made, auditCrashes>>

RotateClears ==
  /\ recorder.step = "clear"
  /\ auditLog' = <<>> /\ cutOff' = FALSE /\ recorded' = recorded \cup {made}
  /\ recorder' = NewRecorder
  /\ UNCHANGED <<archive, oldEntries, compactor, excused, made, auditCrashes>>

-----------------------------------------------------------------------------
\* compact(), in another process

\* The entries before the cutoff are read from the active log; without one nothing is done.
CompactReads ==
  /\ compactor.step = "idle" /\ Entries(auditLog) \cap oldEntries # {}
  /\ compactor' = [compactor EXCEPT !.step = "name", !.cut = oldEntries,
                     !.temp = OnlyIn(auditLog, oldEntries)]
  /\ UNCHANGED <<auditLog, cutOff, archive, oldEntries, recorder, recorded, excused, made, auditCrashes>>

CompactNames ==
  /\ compactor.step = "name"
  /\ compactor' = [compactor EXCEPT !.segment = Len(archive) + 1, !.step = "write"]
  /\ UNCHANGED <<auditLog, cutOff, archive, oldEntries, recorder, recorded, excused, made, auditCrashes>>

\* The segment, and the index of which nothing but a count is read
CompactWrites ==
  /\ compactor.step = "write"
  /\ archive' = Written(compactor.segment, compactor.temp)
  /\ excused' = excused \cup Overwritten(compactor.segment)
  /\ compactor' = [compactor EXCEPT !.step = "rewrite", !.temp = <<>>]
  /\ UNCHANGED <<auditLog, cutOff, oldEntries, recorder, recorded, made, auditCrashes>>

\* Variant: the log is rewritten with a cutoff of its own.
KeptNow(e) == e \notin oldEntries

\* _rewrite_active is given the cutoff of the segment.
Kept(e) == e \notin compactor.cut

RewriteReads ==
  /\ compactor.step = "rewrite"
  /\ compactor' = [compactor EXCEPT !.step = "replace", !.temp = OnlyIn(auditLog, {e \in Entries(auditLog) : Kept(e)})]
  /\ UNCHANGED <<auditLog, cutOff, archive, oldEntries, recorder, recorded, excused, made, auditCrashes>>

RewriteReplaces ==
  /\ compactor.step = "replace"
  /\ auditLog' = compactor.temp /\ cutOff' = FALSE /\ compactor' = NoCompactor
  /\ recorder' = [recorder EXCEPT !.detached = TRUE]
  /\ UNCHANGED <<archive, oldEntries, recorded, excused, made, auditCrashes>>

-----------------------------------------------------------------------------
\* Crashes: a segment that is being written keeps some of its first entries, the log a piece
\* of a line.  A new process of either kind starts from the files, and appends to that piece.

PartlyWritten(step, n, entries) ==
  IF step
  THEN \E k \in 0..Len(entries) : /\ archive' = Written(n, SubSeq(entries, 1, k))
                                  /\ excused' = excused \cup Overwritten(n)
  ELSE UNCHANGED <<archive, excused>>

RecorderCrashes ==
  /\ auditCrashes < MaxAuditCrashes /\ auditCrashes' = auditCrashes + 1
  /\ PartlyWritten(recorder.step = "copy", recorder.segment, auditLog)
  /\ recorder' = NewRecorder
  /\ cutOff' \in {cutOff, cutOff \/ (recorder.step = "idle" /\ ~recorder.detached)}
  /\ UNCHANGED <<auditLog, oldEntries, compactor, recorded, made>>

CompactorCrashes ==
  /\ auditCrashes < MaxAuditCrashes /\ auditCrashes' = auditCrashes + 1 /\ compactor.step # "idle"
  /\ PartlyWritten(compactor.step = "write", compactor.segment, compactor.temp)
  /\ compactor' = NoCompactor
  /\ UNCHANGED <<auditLog, cutOff, oldEntries, recorder, recorded, made>>

AuditNext ==
  \/ \E e \in 1..made : Ages(e)
  \/ Record \/ RotateNames \/ RotateCopies \/ RotateClears
  \/ CompactReads \/ CompactNames \/ CompactWrites \/ RewriteReads \/ RewriteReplaces
  \/ RecorderCrashes \/ CompactorCrashes

-----------------------------------------------------------------------------
\* Properties

\* Files and processes keep their types.
AuditTypeOK ==
  /\ auditLog \in Seq(1..made) /\ cutOff \in BOOLEAN /\ archive \in Seq(Seq(1..made))
  /\ recorder.count \in 0..SegmentSize
  /\ recorder.step \in {"idle", "name", "copy", "clear"}
  /\ compactor.step \in {"idle", "name", "write", "rewrite", "replace"}

\* _iter_all: the segments, then the active log
Found == Entries(auditLog) \cup UNION {Entries(archive[n]) : n \in DOMAIN archive}

\* "Append-only": an entry whose record() returned is found, wherever rotation and
\* compaction are and at whatever step a process crashes.  The exceptions are the first
\* entry after a crash that left a piece of a line, and what two processes do to each other:
\* an entry written between the rewriting's read and its replacement of the log, or later
\* through the file that was replaced, and the entries of a segment to which both gave one
\* number.
RecordedIsFound == recorded \subseteq Found \cup excused
=============================================================================
