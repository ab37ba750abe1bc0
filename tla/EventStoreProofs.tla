--------------------------- MODULE EventStoreProofs ---------------------------
(***************************************************************************)
(* Proofs about EventStore, for any number of events, crashes, faults and   *)
(* archived lives, when one process has the run's events open.              *)
(***************************************************************************)
EXTENDS EventStore, TLAPS, FiniteSetTheorems, WellFoundedInduction

OneStore == \A i, j \in Store : i = j

-----------------------------------------------------------------------------
\* The inductive invariant

WriteOp == [kind : {"write"}, todo : Seq(Kind), done : SUBSET (Seq1 \X Nat), life : Nat]
SaveOp  == [kind : {"save"}, done : SUBSET (Seq1 \X Nat), life : Nat]
LoopOp  == [kind : {"purge", "compact"}, todo : SUBSET Seq1]

FileRecord == [kind : Kind \cup {"none", "torn"}, id : Nat, old : BOOLEAN]
MemRecord  == [last : {0} \cup Seq1, index : SUBSET Seq1, up : BOOLEAN]

Shape ==
  /\ file \in [Seq1 -> FileRecord] /\ here \in BOOLEAN /\ arch \in Nat
  /\ disk \in [ok : BOOLEAN, seqs : SUBSET Seq1]
  /\ mem \in [Store -> MemRecord]
  /\ op \in [Store -> {Idle} \cup WriteOp \cup SaveOp \cup LoopOp]
  /\ acked \in SUBSET (Seq1 \X Nat)
  /\ writes \in 0..MaxEvents /\ crashes \in 0..MaxCrashes /\ faults \in Nat /\ archives \in Nat

\* The last sequence number the instance has given to a file it has written
Last(i) == mem[i].last + (IF op[i].kind = "write" THEN Cardinality(op[i].done) ELSE 0)

\* Sequence numbers in use, by files or in the archive, are no more than the files written
\* and cut off; the instance itself does not count a file of its own that it cut off.
Numbered ==
  \A i \in Store :
    /\ mem[i].up => Last(i) <= writes + crashes
    /\ \A n \in Files \cup {arch} : n <= writes + crashes + (IF mem[i].up THEN 1 ELSE 0)

\* A call is under way in an instance that is up, and has room for what it will write.
Calls ==
  \A i \in Store :
    /\ op[i] # Idle => mem[i].up
    /\ op[i].kind = "write" => op[i].todo # <<>> /\ writes + Len(op[i].todo) <= MaxEvents
    /\ op[i].kind = "compact" => writes < MaxEvents

\* A directory that is gone has no files.
GoneIsEmpty == ~here => Files = {}

\* What was acknowledged is in the file it was written to, in the index that is in memory
\* and in the one on disk, and under a number that will not be given again.
AcksKept ==
  \A a \in acked :
    /\ Exists(a[1]) /\ file[a[1]].id = a[2]
    /\ disk.ok => a[1] \in disk.seqs
    /\ \A i \in Store : mem[i].up => a[1] \in mem[i].index /\ a[1] <= mem[i].last

\* So is what a call has written and not yet acknowledged, if the run was not archived since.
DoneKept ==
  \A i \in Store : op[i].kind \in {"write", "save"} =>
    /\ op[i].life <= archives /\ IsFiniteSet(op[i].done)
    /\ \A d \in op[i].done :
         /\ d[1] <= Last(i)
         /\ op[i].life = archives =>
              Exists(d[1]) /\ file[d[1]].id = d[2] /\ d[1] \in mem[i].index

\* Without failed writes no file has a number that is yet to be given.
NumbersNew == faults = 0 =>
  \A i \in Store : mem[i].up => \A n \in Files : n <= Last(i)

\* What a purge has passed has not expired.
PurgePassed ==
  \A i \in Store : op[i].kind = "purge" =>
    /\ op[i].todo \subseteq mem[i].index
    /\ \A n \in mem[i].index \ op[i].todo : ~Expired(n)

EventInv == /\ Shape /\ Numbered /\ Calls /\ GoneIsEmpty /\ AcksKept /\ DoneKept
            /\ NumbersNew /\ PurgePassed

USE EventAssumption

-----------------------------------------------------------------------------
\* The least and the greatest number of a set

LEMMA MinIsLeast ==
  ASSUME NEW T \in SUBSET Nat, T # {}
  PROVE  Min(T) \in T /\ \A y \in T : Min(T) <= y
<1>1. PICK x \in T : \A y \in T : <<y, x>> \notin OpToRel(<, Nat)
  BY WFMin, NatLessThanWellFounded
<1>2. \A y \in T : <<y, x>> \in OpToRel(<, Nat) <=> y < x
  BY DEF OpToRel
<1>3. ASSUME NEW y \in T PROVE x <= y
  <2>1. x \in Nat /\ y \in Nat /\ ~(y < x)
    BY <1>1, <1>2
  <2> QED  BY <2>1
<1> QED  BY <1>3 DEF Min

LEMMA MaxIsGreatest ==
  ASSUME NEW b \in Nat, NEW T \in SUBSET (0..b), T # {}
  PROVE  Max(T) \in T /\ \A y \in T : y <= Max(T)
<1> DEFINE D == {b - y : y \in T}
<1>1. D \in SUBSET Nat /\ D # {}
  <2>1. \A y \in T : b - y \in Nat
    OBVIOUS
  <2> QED  BY <2>1
<1>2. Min(D) \in D /\ \A z \in D : Min(D) <= z
  BY <1>1, MinIsLeast
<1>3. PICK x \in T : Min(D) = b - x
  BY <1>2
<1>4. \A y \in T : y <= x
  <2> SUFFICES ASSUME NEW y \in T PROVE y <= x
    OBVIOUS
  <2>1. b - x <= b - y
    BY <1>2, <1>3
  <2> QED  BY <2>1
<1> QED  BY <1>3, <1>4 DEF Max

-----------------------------------------------------------------------------
\* What the shape of the state says of an instance and its call

LEMMA CallTypes ==
  ASSUME Shape, NEW i \in Store
  PROVE  /\ mem[i] \in MemRecord /\ mem[i].last \in {0} \cup Seq1 /\ mem[i].last \in Nat
         /\ mem[i].index \in SUBSET Seq1 /\ mem[i].up \in BOOLEAN
         /\ op[i].kind = "write" => op[i] \in WriteOp
         /\ op[i].kind = "save" => op[i] \in SaveOp
         /\ op[i].kind \in {"purge", "compact"} => op[i] \in LoopOp
         /\ op[i].kind = "idle" <=> op[i] = Idle
<1>1. mem[i] \in MemRecord /\ op[i] \in {Idle} \cup WriteOp \cup SaveOp \cup LoopOp
  BY DEF Shape
<1>2. mem[i].last \in {0} \cup Seq1 /\ mem[i].index \in SUBSET Seq1 /\ mem[i].up \in BOOLEAN
  BY <1>1 DEF MemRecord
<1>3. mem[i].last \in Nat
  BY <1>2 DEF Seq1
<1>4. /\ op[i].kind = "write" => op[i] \in WriteOp
      /\ op[i].kind = "save" => op[i] \in SaveOp
      /\ op[i].kind \in {"purge", "compact"} => op[i] \in LoopOp
      /\ op[i].kind = "idle" <=> op[i] = Idle
  BY <1>1 DEF Idle, WriteOp, SaveOp, LoopOp
<1> QED  BY <1>1, <1>2, <1>3, <1>4

LEMMA LastTyped ==
  ASSUME EventInv, NEW i \in Store
  PROVE  /\ Last(i) \in Nat /\ mem[i].last <= Last(i)
         /\ op[i].kind # "write" => Last(i) = mem[i].last
         /\ op[i].kind = "write" =>
              /\ Cardinality(op[i].done) \in Nat /\ Last(i) = mem[i].last + Cardinality(op[i].done)
              /\ NextNumber(i) = Last(i) + 1
<1>1. mem[i].last \in Nat
  BY CallTypes DEF EventInv
<1>2. op[i].kind = "write" => Cardinality(op[i].done) \in Nat
  BY FS_CardinalityType DEF EventInv, DoneKept
<1> QED  BY <1>1, <1>2 DEF Last, NextNumber

\* A call that writes has a number for the next file.
LEMMA NextIsNew ==
  ASSUME EventInv, NEW i \in Store, op[i].kind = "write"
  PROVE  /\ NextNumber(i) \in Seq1 /\ NextNumber(i) = Last(i) + 1 /\ Last(i) \in Nat
         /\ NextNumber(i) <= writes + crashes + 1 /\ writes < MaxEvents /\ mem[i].up
         /\ op[i] \in WriteOp /\ op[i].todo \in Seq(Kind) /\ op[i].todo # <<>>
         /\ op[i].done \in SUBSET (Seq1 \X Nat) /\ op[i].life \in Nat
<1>1. op[i] \in WriteOp /\ op[i].todo # <<>> /\ writes + Len(op[i].todo) <= MaxEvents
      /\ mem[i].up
  BY CallTypes DEF EventInv, Calls, Idle
<1>2. op[i].todo \in Seq(Kind) /\ op[i].done \in SUBSET (Seq1 \X Nat) /\ op[i].life \in Nat
  BY <1>1 DEF WriteOp
<1>3. writes \in Nat /\ crashes \in 0..MaxCrashes
  BY DEF EventInv, Shape
<1>4. Len(op[i].todo) \in Nat /\ Len(op[i].todo) >= 1
  BY <1>1, <1>2
<1>5. writes < MaxEvents
  BY <1>1, <1>3, <1>4
<1>6. NextNumber(i) = Last(i) + 1 /\ Last(i) \in Nat
  BY LastTyped
<1>7. Last(i) <= writes + crashes
  BY <1>1 DEF EventInv, Numbered
<1> QED  BY <1>1, <1>2, <1>3, <1>5, <1>6, <1>7 DEF Seq1

-----------------------------------------------------------------------------
\* Opening, and the calls that append

LEMMA OpenInv ==
  ASSUME OneStore, EventInv, NEW i \in Store, Open(i)
  PROVE  EventInv'
<1> DEFINE L == LastSequence(LoadIndex)
           N == {0, arch} \cup Files
<1> USE DEF EventInv
<1>1. /\ ~mem[i].up /\ mem' = [mem EXCEPT ![i] = [last |-> L, index |-> LoadIndex, up |-> TRUE]]
      /\ here' = TRUE /\ disk' = [ok |-> TRUE, seqs |-> LoadIndex]
      /\ UNCHANGED <<file, arch, op, acked, writes, crashes, faults, archives>>
  BY DEF Open, count
<1>2. \A j \in Store : j = i
  BY DEF OneStore
<1>3. writes + crashes \in Nat /\ writes + crashes <= MaxEvents + MaxCrashes
  BY DEF Shape
<1>4. N \in SUBSET (0..(writes + crashes)) /\ N # {}
  <2>1. \A n \in Files \cup {arch} : n \in Nat /\ n <= writes + crashes
    BY <1>1, <1>3 DEF Numbered, Files, Seq1, Shape
  <2> QED  BY <1>3, <2>1
<1>5. L \in N /\ \A n \in N : n <= L
  <2>1. Max(N) \in N /\ \A n \in N : n <= Max(N)
    BY <1>3, <1>4, MaxIsGreatest
  <2> QED  BY <2>1 DEF LastSequence
<1>6. LoadIndex \in SUBSET Seq1
  BY DEF LoadIndex, Shape, Files
<1> HIDE DEF L, N
<1>7. L \in 0..(writes + crashes) /\ L \in {0} \cup Seq1 /\ \A n \in Files : n <= L
  BY <1>3, <1>4, <1>5 DEF Seq1, N
<1>8. mem'[i] = [last |-> L, index |-> LoadIndex, up |-> TRUE]
  BY <1>1 DEF Shape
<1>9. op[i] = Idle
  BY <1>1 DEF Calls
<1>10. Shape'
  BY <1>1, <1>6, <1>7 DEF Shape, MemRecord
<1>11. Files' = Files /\ Last(i)' = L
  BY <1>1, <1>7, <1>8, <1>9 DEF Files, Exists, Last, Idle
<1>12. Numbered' /\ NumbersNew'
  <2>1. L <= writes + crashes /\ \A n \in Files \cup {arch} : n <= writes + crashes + 1
    BY <1>3, <1>4, <1>7 DEF N
  <2>2. mem'[i].up /\ writes' + crashes' = writes + crashes /\ Files' \cup {arch'} = Files \cup {arch}
    BY <1>1, <1>8, <1>11
  <2>3. Numbered'
    BY <1>2, <1>11, <2>1, <2>2 DEF Numbered
  <2>4. NumbersNew'
    BY <1>2, <1>7, <1>11 DEF NumbersNew
  <2> QED  BY <2>3, <2>4
<1>13. Calls' /\ GoneIsEmpty'
  BY <1>1, <1>2, <1>9 DEF Calls, GoneIsEmpty, Idle
<1>14. AcksKept'
  <2> SUFFICES ASSUME NEW a \in acked
               PROVE  /\ Exists(a[1]) /\ file[a[1]].id = a[2] /\ a[1] \in LoadIndex
                      /\ a[1] <= L
    BY <1>1, <1>2, <1>8 DEF AcksKept, Exists
  <2>1. Exists(a[1]) /\ file[a[1]].id = a[2] /\ (disk.ok => a[1] \in disk.seqs)
    BY DEF AcksKept
  <2>2. a[1] \in Files
    BY <2>1 DEF Files, Shape
  <2> QED  BY <1>7, <2>1, <2>2 DEF LoadIndex
<1>15. DoneKept' /\ PurgePassed'
  BY <1>1, <1>2, <1>9 DEF DoneKept, PurgePassed, Idle
<1> QED  BY <1>10, <1>12, <1>13, <1>14, <1>15

LEMMA AppendInv ==
  ASSUME OneStore, EventInv, NEW i \in Store, NEW n \in 1..MaxBatch,
         NEW ks \in [1..n -> Kind \ {"summary"}], AppendEvents(i, ks)
  PROVE  EventInv'
<1> USE DEF EventInv
<1>1. /\ mem[i].up /\ op[i] = Idle /\ writes + Len(ks) <= MaxEvents
      /\ op' = [op EXCEPT ![i] = Writing(ks)]
      /\ UNCHANGED <<here, file, arch, disk, mem, acked, writes, crashes, faults, archives>>
  BY DEF AppendEvents, Ready, dirs, count
<1>2. \A j \in Store : j = i
  BY DEF OneStore
<1>3. ks \in Seq(Kind) /\ Len(ks) = n /\ ks # <<>>
  BY DEF Kind
<1>4. /\ Writing(ks) \in WriteOp /\ Writing(ks).kind = "write" /\ Writing(ks).todo = ks
      /\ Writing(ks).done = {} /\ Writing(ks).life = archives
  BY <1>3 DEF Writing, WriteOp, Shape
<1>5. op'[i] = Writing(ks)
  BY <1>1 DEF Shape
<1>6. Shape'
  BY <1>1, <1>4 DEF Shape
<1>7. mem[i].last \in Nat /\ IsFiniteSet({}) /\ Cardinality({}) = 0
  BY CallTypes, FS_EmptySet
<1>8. Files' = Files /\ Last(i)' = Last(i)
  <2>1. Files' = Files
    BY <1>1 DEF Files, Exists
  <2>2. Last(i) = mem[i].last
    BY <1>1, LastTyped DEF Idle
  <2>3. op'[i].kind = "write" /\ Cardinality(op'[i].done) = 0 /\ mem'[i].last = mem[i].last
    BY <1>1, <1>4, <1>5, <1>7
  <2>4. Last(i)' = mem[i].last
    BY <1>7, <2>3 DEF Last
  <2> QED  BY <2>1, <2>2, <2>4
<1>9. Numbered' /\ NumbersNew'
  BY <1>1, <1>2, <1>8 DEF Numbered, NumbersNew
<1>10. Calls' /\ GoneIsEmpty' /\ AcksKept' /\ PurgePassed'
  BY <1>1, <1>2, <1>3, <1>4, <1>5, <1>8 DEF Calls, GoneIsEmpty, AcksKept, PurgePassed, Exists
<1>11. DoneKept'
  <2>1. op'[i].done = {} /\ op'[i].life = archives /\ archives' = archives /\ archives \in Nat
    BY <1>1, <1>4, <1>5 DEF Shape
  <2>2. op'[i].life <= archives' /\ IsFiniteSet(op'[i].done)
    BY <1>7, <2>1
  <2> QED  BY <1>2, <2>1, <2>2 DEF DoneKept
<1> QED  BY <1>6, <1>9, <1>10, <1>11

\* The written file is new: no acknowledged event and none of this call has its number.
LEMMA WriteInv ==
  ASSUME OneStore, EventInv, NEW i \in Store, WriteEvent(i)
  PROVE  EventInv'
<1> DEFINE n == NextNumber(i)
           f == Written(Head(op[i].todo))
           D == op[i].done \cup {<<n, writes + 1>>}
           last == Len(op[i].todo) = 1
           o == IF last THEN [kind |-> "save", done |-> D, life |-> op[i].life]
                ELSE [kind |-> "write", todo |-> Tail(op[i].todo), done |-> D,
                      life |-> op[i].life]
<1> USE DEF EventInv
<1>1. /\ op[i].kind = "write" /\ here /\ writes < MaxEvents
      /\ file' = [file EXCEPT ![n] = f] /\ writes' = writes + 1
      /\ mem' = [mem EXCEPT ![i].index = mem[i].index \cup {n},
                            ![i].last = IF last THEN n ELSE mem[i].last]
      /\ op' = [op EXCEPT ![i] = o]
      /\ UNCHANGED <<here, arch, disk, acked, crashes, faults, archives>>
  BY DEF WriteEvent, count
<1>2. \A j \in Store : j = i
  BY DEF OneStore
<1>3. /\ n \in Seq1 /\ n \in Nat /\ n = Last(i) + 1 /\ Last(i) \in Nat
      /\ n <= writes + crashes + 1 /\ mem[i].up
      /\ op[i].todo \in Seq(Kind) /\ op[i].todo # <<>>
      /\ op[i].done \in SUBSET (Seq1 \X Nat) /\ op[i].life \in Nat
  BY <1>1, NextIsNew DEF Seq1
<1>4. Head(op[i].todo) \in Kind /\ Tail(op[i].todo) \in Seq(Kind)
      /\ Len(op[i].todo) \in Nat \ {0} /\ Len(Tail(op[i].todo)) = Len(op[i].todo) - 1
      /\ (Tail(op[i].todo) = <<>> => last)
  <2> DEFINE q == op[i].todo
  <2>1. q \in Seq(Kind) /\ q # <<>>
    BY <1>3
  <2> HIDE DEF q
  <2>2. /\ Head(q) \in Kind /\ Tail(q) \in Seq(Kind) /\ Len(q) \in Nat \ {0}
        /\ Len(Tail(q)) = Len(q) - 1
    BY <2>1
  <2>3. Tail(q) = <<>> => Len(q) = 1
    <3>1. Len(<<>>) = 0
      OBVIOUS
    <3>2. \A k \in Nat : 0 = k - 1 => k = 1
      OBVIOUS
    <3> QED  BY <2>2, <3>1, <3>2
  <2> QED  BY <2>2, <2>3 DEF q
<1>5. f \in FileRecord /\ f.kind \in Kind /\ f.id = writes + 1
  BY <1>4 DEF Written, FileRecord, Kind, Shape
<1>6. /\ mem[i].last \in Nat /\ Cardinality(op[i].done) \in Nat /\ IsFiniteSet(op[i].done)
      /\ n = mem[i].last + Cardinality(op[i].done) + 1
      /\ \A d \in op[i].done : d[1] \in Nat /\ d[1] < n
  <2>1. IsFiniteSet(op[i].done) /\ \A d \in op[i].done : d[1] <= Last(i)
    BY <1>1 DEF DoneKept
  <2>2. mem[i].last \in Nat
    BY CallTypes
  <2>3. \A d \in op[i].done : d[1] \in Nat
    BY <1>3 DEF Seq1
  <2> QED  BY <1>1, <1>3, <2>1, <2>2, <2>3, LastTyped
<1>7. D \in SUBSET (Seq1 \X Nat) /\ IsFiniteSet(D) /\ Cardinality(D) = Cardinality(op[i].done) + 1
  <2>1. <<n, writes + 1>> \notin op[i].done
    BY <1>6
  <2>2. <<n, writes + 1>> \in Seq1 \X Nat
    BY <1>3 DEF Shape
  <2> QED  BY <1>3, <1>6, <2>1, <2>2, FS_AddElement
<1>8. o \in SaveOp \cup WriteOp
  BY <1>3, <1>4, <1>7 DEF SaveOp, WriteOp
<1>9. mem'[i] = [last |-> IF last THEN n ELSE mem[i].last, index |-> mem[i].index \cup {n},
                 up |-> TRUE]
  BY <1>1, <1>3, CallTypes DEF MemRecord, Shape
<1>10. /\ op'[i] = o /\ o.done = D /\ o.life = op[i].life
       /\ last => o.kind = "save"
       /\ ~last => o.kind = "write" /\ o.todo = Tail(op[i].todo)
  BY <1>1 DEF Shape
<1> HIDE DEF n, f, D, o
<1>11. /\ file' \in [Seq1 -> FileRecord] /\ file'[n] = f
       /\ \A m \in Seq1 : m # n => file'[m] = file[m]
  BY <1>1, <1>3, <1>5 DEF Shape
<1>12. Files' = Files \cup {n}
  BY <1>3, <1>5, <1>11 DEF Files, Exists, Kind
<1>13. Shape'
  <2>1. mem' \in [Store -> MemRecord]
    <3>1. mem[i].index \in SUBSET Seq1 /\ mem[i].last \in {0} \cup Seq1
      BY CallTypes
    <3>2. mem'[i] \in MemRecord
      BY <1>3, <1>9, <3>1 DEF MemRecord
    <3>3. mem' = [j \in Store |-> mem'[j]]
      BY <1>1 DEF Shape
    <3> QED  BY <1>2, <3>2, <3>3
  <2>2. op' \in [Store -> {Idle} \cup WriteOp \cup SaveOp \cup LoopOp]
    BY <1>1, <1>8 DEF Shape
  <2>3. writes' \in 0..MaxEvents
    BY <1>1 DEF Shape
  <2> QED  BY <1>1, <1>11, <2>1, <2>2, <2>3 DEF Shape
<1>14. Last(i)' = n
  BY <1>6, <1>7, <1>9, <1>10 DEF Last
<1>15. Numbered'
  <2>1. n <= writes' + crashes' /\ mem'[i].up
    BY <1>1, <1>3, <1>9 DEF Shape
  <2>2. \A m \in Files \cup {arch} : m <= writes + crashes + 1 /\ m \in Nat
    BY <1>3 DEF Numbered, Files, Seq1, Shape
  <2>4. /\ writes \in Nat /\ crashes \in Nat /\ writes' = writes + 1 /\ crashes' = crashes
        /\ arch' = arch
    BY <1>1 DEF Shape
  <2>5. \A m \in Files' \cup {arch'} : m \in Files \cup {arch} \/ m = n
    BY <1>12, <2>4
  <2>3. \A m \in Files' \cup {arch'} : m <= writes' + crashes' + 1
    BY <1>3, <2>2, <2>4, <2>5
  <2> QED  BY <1>2, <1>14, <2>1, <2>3 DEF Numbered
<1>16. Calls'
  <2>1. mem'[i].up
    BY <1>9
  <2>2. ~last => o.todo # <<>> /\ writes' + Len(o.todo) <= MaxEvents
    <3> SUFFICES ASSUME ~last PROVE o.todo # <<>> /\ writes' + Len(o.todo) <= MaxEvents
      OBVIOUS
    <3>1. o.todo = Tail(op[i].todo) /\ o.todo # <<>>
      BY <1>4, <1>10
    <3>2. writes + Len(op[i].todo) <= MaxEvents /\ writes' = writes + 1 /\ writes \in Nat
      BY <1>1 DEF Calls, Shape
    <3>3. Len(o.todo) = Len(op[i].todo) - 1 /\ Len(op[i].todo) \in Nat
      BY <1>4, <3>1
    <3>4. writes + 1 + (Len(op[i].todo) - 1) <= MaxEvents
      <4>1. \A a, b \in Nat : a + b <= MaxEvents => a + 1 + (b - 1) <= MaxEvents
        OBVIOUS
      <4>2. Len(op[i].todo) \in Nat
        BY <1>4
      <4> QED  BY <3>2, <4>1, <4>2, Zenon
    <3>5. writes' + Len(o.todo) = writes + 1 + (Len(op[i].todo) - 1)
      BY <3>2, <3>3
    <3> QED  BY <3>1, <3>4, <3>5, Zenon
  <2> QED  BY <1>2, <1>10, <2>1, <2>2 DEF Calls
<1>17. AcksKept'
  <2> SUFFICES ASSUME NEW a \in acked
               PROVE  /\ file'[a[1]].kind # "none" /\ file'[a[1]].id = a[2]
                      /\ disk.ok => a[1] \in disk.seqs
                      /\ a[1] \in mem'[i].index /\ a[1] <= mem'[i].last
    BY <1>1, <1>2 DEF AcksKept, Exists
  <2>1. /\ Exists(a[1]) /\ file[a[1]].id = a[2] /\ (disk.ok => a[1] \in disk.seqs)
        /\ a[1] \in mem[i].index /\ a[1] <= mem[i].last
    BY <1>3 DEF AcksKept
  <2>2. a[1] \in Seq1 /\ a[1] \in Nat
    BY DEF Shape, Seq1
  <2>3. a[1] # n /\ a[1] <= n
    BY <1>6, <2>1, <2>2
  <2> QED  BY <1>9, <1>11, <2>1, <2>2, <2>3 DEF Exists
<1>18. DoneKept'
  <2>1. ASSUME NEW d \in D
        PROVE  /\ d[1] <= n
               /\ op[i].life = archives =>
                    /\ file'[d[1]].kind # "none" /\ file'[d[1]].id = d[2]
                    /\ d[1] \in mem'[i].index
    <3>1. CASE d = <<n, writes + 1>>
      BY <1>3, <1>5, <1>9, <1>11, <3>1 DEF Kind
    <3>2. CASE d \in op[i].done
      <4>1. d[1] \in Seq1 /\ d[1] # n /\ d[1] <= n
        BY <1>3, <1>6, <3>2
      <4>2. op[i].life = archives =>
              Exists(d[1]) /\ file[d[1]].id = d[2] /\ d[1] \in mem[i].index
        BY <1>1, <3>2 DEF DoneKept
      <4> QED  BY <1>9, <1>11, <4>1, <4>2 DEF Exists
    <3> QED  BY <3>1, <3>2 DEF D
  <2>2. /\ op'[i].done = D /\ op'[i].life = op[i].life /\ archives' = archives
        /\ op[i].life <= archives
    BY <1>1, <1>10 DEF DoneKept
  <2>3. IsFiniteSet(op'[i].done) /\ op'[i].life <= archives'
    BY <1>7, <2>2
  <2>4. \A d \in op'[i].done :
          /\ d[1] <= Last(i)'
          /\ op'[i].life = archives' =>
               file'[d[1]].kind # "none" /\ file'[d[1]].id = d[2] /\ d[1] \in mem'[i].index
    BY <1>14, <2>1, <2>2
  <2> QED  BY <1>2, <2>3, <2>4 DEF DoneKept, Exists
<1>19. NumbersNew'
  <2> SUFFICES ASSUME faults = 0, NEW m \in Files' PROVE m <= n
    BY <1>1, <1>2, <1>14 DEF NumbersNew
  <2>1. m \in Files => m <= Last(i) /\ m \in Nat
    BY <1>3 DEF NumbersNew, Files, Seq1
  <2> QED  BY <1>3, <1>12, <2>1
<1>20. GoneIsEmpty' /\ PurgePassed'
  BY <1>1, <1>2, <1>10 DEF GoneIsEmpty, PurgePassed
<1> QED  BY <1>13, <1>15, <1>16, <1>17, <1>18, <1>19, <1>20

\* A call ends without another file, or another call begins that does not write one.
LEMMA QuietLast ==
  ASSUME EventInv, NEW i \in Store, mem'[i].last = mem[i].last, op'[i].kind # "write"
  PROVE  Last(i)' = mem[i].last /\ mem[i].last <= Last(i) /\ Last(i) \in Nat
         /\ mem[i].last \in Nat
<1>1. mem[i].last \in Nat
  BY CallTypes DEF EventInv
<1> QED  BY <1>1, LastTyped DEF Last

LEMMA WriteFailsInv ==
  ASSUME OneStore, EventInv, NEW i \in Store, WriteFails(i)
  PROVE  EventInv'
<1> DEFINE n == NextNumber(i)
<1> USE DEF EventInv
<1>1. /\ op[i].kind = "write" /\ op' = [op EXCEPT ![i] = Idle]
      /\ faults' = IF here THEN faults + 1 ELSE faults
      /\ file' = IF here THEN [file EXCEPT ![n] = Torn] ELSE file
      /\ UNCHANGED <<here, arch, disk, mem, acked, writes, crashes, archives>>
  BY DEF WriteFails
<1>2. \A j \in Store : j = i
  BY DEF OneStore
<1>3. n \in Seq1 /\ n \in Nat /\ n = Last(i) + 1 /\ n <= writes + crashes + 1 /\ mem[i].up
  BY <1>1, NextIsNew DEF Seq1
<1> HIDE DEF n
<1>4. op'[i] = Idle /\ op'[i].kind = "idle"
  BY <1>1 DEF Shape, Idle
<1>5. /\ Last(i)' = mem[i].last /\ mem[i].last <= Last(i) /\ Last(i) \in Nat
      /\ mem[i].last \in Nat
  BY <1>1, <1>4, QuietLast
<1>6. file' \in [Seq1 -> FileRecord] /\ \A m \in Seq1 : m # n => file'[m] = file[m]
  BY <1>1, <1>3 DEF Shape, Torn, FileRecord
<1>7. Shape'
  BY <1>1, <1>6 DEF Shape
<1>8. Files' \subseteq Files \cup {n}
  BY <1>6 DEF Files, Exists
<1>9. Numbered'
  <2>1. mem[i].last <= writes + crashes
    BY <1>3, <1>5 DEF Numbered, Shape
  <2>2. \A m \in Files \cup {arch} : m <= writes + crashes + 1
    BY <1>3 DEF Numbered
  <2> QED  BY <1>1, <1>2, <1>3, <1>5, <1>8, <2>1, <2>2 DEF Numbered
<1>10. Calls' /\ PurgePassed' /\ DoneKept'
  BY <1>1, <1>2, <1>4 DEF Calls, PurgePassed, DoneKept
<1>11. GoneIsEmpty'
  BY <1>1 DEF GoneIsEmpty, Files, Exists
<1>12. NumbersNew'
  <2> SUFFICES ASSUME faults' = 0 PROVE Files' = {}
    BY DEF NumbersNew
  <2>1. ~here
    BY <1>1 DEF Shape
  <2> QED  BY <1>1, <2>1 DEF GoneIsEmpty, Files, Exists
<1>13. AcksKept'
  <2> SUFFICES ASSUME NEW a \in acked PROVE file'[a[1]] = file[a[1]]
    BY <1>1 DEF AcksKept, Exists
  <2>1. a[1] <= mem[i].last /\ a[1] \in Seq1 /\ a[1] \in Nat
    BY <1>3 DEF AcksKept, Shape, Seq1
  <2> QED  BY <1>3, <1>5, <1>6, <2>1
<1> QED  BY <1>7, <1>9, <1>10, <1>11, <1>12, <1>13

LEMMA SaveIndexInv ==
  ASSUME OneStore, EventInv, NEW i \in Store, SaveIndex(i)
  PROVE  EventInv'
<1> USE DEF EventInv
<1>1. /\ op[i].kind = "save" /\ here /\ disk' = [ok |-> TRUE, seqs |-> mem[i].index]
      /\ acked' = IF op[i].life = archives THEN acked \cup op[i].done ELSE acked
      /\ op' = [op EXCEPT ![i] = Idle]
      /\ UNCHANGED <<here, file, arch, mem, writes, crashes, faults, archives>>
  BY DEF SaveIndex, count
<1>2. \A j \in Store : j = i
  BY DEF OneStore
<1>3. op[i] \in SaveOp /\ op[i].done \in SUBSET (Seq1 \X Nat) /\ mem[i].up
      /\ mem[i].index \in SUBSET Seq1
  BY <1>1, CallTypes DEF SaveOp, Calls, Idle
<1>4. op'[i] = Idle /\ op'[i].kind = "idle"
  BY <1>1 DEF Shape, Idle
<1>5. Last(i)' = mem[i].last /\ Last(i) = mem[i].last /\ Files' = Files
  BY <1>1, <1>4, QuietLast, LastTyped DEF Files, Exists
<1>6. Shape'
  BY <1>1, <1>3 DEF Shape
<1>7. Numbered' /\ NumbersNew'
  BY <1>1, <1>2, <1>5 DEF Numbered, NumbersNew
<1>8. Calls' /\ PurgePassed' /\ DoneKept' /\ GoneIsEmpty'
  BY <1>1, <1>2, <1>4 DEF Calls, PurgePassed, DoneKept, GoneIsEmpty
<1>9. AcksKept'
  <2> SUFFICES ASSUME NEW a \in acked'
               PROVE  /\ Exists(a[1]) /\ file[a[1]].id = a[2]
                      /\ a[1] \in mem[i].index /\ a[1] <= mem[i].last
    BY <1>1, <1>2 DEF AcksKept, Exists
  <2>1. CASE a \in acked
    BY <1>3, <2>1 DEF AcksKept
  <2>2. CASE op[i].life = archives /\ a \in op[i].done
    BY <1>1, <1>5, <2>2 DEF DoneKept
  <2> QED  BY <1>1, <2>1, <2>2
<1> QED  BY <1>6, <1>7, <1>8, <1>9

\* Steps that change nothing but a call, which then writes no file
LEMMA CallInv ==
  ASSUME OneStore, EventInv, NEW i \in Store, op[i].kind # "write",
         NEW o \in {Idle} \cup SaveOp \cup LoopOp, op' = [op EXCEPT ![i] = o],
         o # Idle => mem[i].up,
         o.kind = "compact" => writes < MaxEvents,
         o.kind = "save" => o.done = {} /\ o.life = archives,
         o.kind = "purge" => /\ o.todo \subseteq mem[i].index
                             /\ \A n \in mem[i].index \ o.todo : ~Expired(n),
         UNCHANGED <<here, file, arch, disk, mem, acked, writes, crashes, faults, archives>>
  PROVE  EventInv'
<1> USE DEF EventInv
<1>1. \A j \in Store : j = i
  BY DEF OneStore
<1>2. op'[i] = o /\ o.kind # "write"
  BY DEF Shape, Idle, SaveOp, LoopOp
<1>3. Last(i)' = mem[i].last /\ Last(i) = mem[i].last /\ Files' = Files
  BY <1>2, QuietLast, LastTyped DEF Files, Exists
<1>4. Shape'
  BY DEF Shape
<1>5. Numbered' /\ NumbersNew'
  BY <1>1, <1>3 DEF Numbered, NumbersNew
<1>6. Calls' /\ GoneIsEmpty' /\ AcksKept'
  BY <1>1, <1>2, <1>3 DEF Calls, GoneIsEmpty, AcksKept, Exists
<1>7. PurgePassed'
  BY <1>1, <1>2 DEF PurgePassed, Expired
<1>8. DoneKept'
  <2> SUFFICES ASSUME o.kind = "save"
               PROVE  o.life <= archives /\ IsFiniteSet(o.done) /\ o.done = {}
    BY <1>1, <1>2 DEF DoneKept
  <2>1. o.done = {} /\ o.life = archives /\ archives \in Nat
    BY DEF Shape
  <2>2. IsFiniteSet(o.done)
    BY <2>1, FS_EmptySet
  <2> QED  BY <2>1, <2>2
<1> QED  BY <1>4, <1>5, <1>6, <1>7, <1>8

LEMMA SimpleCalls ==
  ASSUME OneStore, EventInv, NEW i \in Store, SaveFails(i) \/ Purge(i) \/ Compact(i)
  PROVE  EventInv'
<1>1. mem[i].index \in SUBSET Seq1 /\ Details(OldEvents(i)) \in SUBSET Seq1
  BY CallTypes DEF EventInv, Details, OldEvents
<1>2. CASE SaveFails(i)
  <2>1. /\ op[i].kind = "save" /\ op' = [op EXCEPT ![i] = Idle] /\ Idle.kind = "idle"
        /\ UNCHANGED <<here, file, arch, disk, mem, acked, writes, crashes, faults, archives>>
    BY <1>2 DEF SaveFails, dirs, count, Idle
  <2> QED  BY <2>1, CallInv
<1>3. CASE Purge(i)
  <2> DEFINE o == [kind |-> "purge", todo |-> mem[i].index]
  <2>1. /\ op[i].kind = "idle" /\ op' = [op EXCEPT ![i] = o] /\ mem[i].up
        /\ UNCHANGED <<here, file, arch, disk, mem, acked, writes, crashes, faults, archives>>
    BY <1>3 DEF Purge, dirs, count, Ready, Idle
  <2>2. o \in LoopOp /\ o.kind = "purge" /\ o.todo = mem[i].index
    BY <1>1 DEF LoopOp
  <2> HIDE DEF o
  <2> QED  BY <2>1, <2>2, CallInv
<1>4. CASE Compact(i)
  <2> DEFINE o == [kind |-> "compact", todo |-> Details(OldEvents(i))]
  <2>1. /\ op[i].kind = "idle" /\ op' = [op EXCEPT ![i] = o] /\ mem[i].up /\ writes < MaxEvents
        /\ UNCHANGED <<here, file, arch, disk, mem, acked, writes, crashes, faults, archives>>
    BY <1>4 DEF Compact, dirs, count, Ready, Idle
  <2>2. o \in LoopOp /\ o.kind = "compact"
    BY <1>1 DEF LoopOp
  <2> HIDE DEF o
  <2> QED  BY <2>1, <2>2, CallInv
<1> QED  BY <1>2, <1>3, <1>4

LEMMA SummarizeInv ==
  ASSUME OneStore, EventInv, NEW i \in Store, Summarize(i)
  PROVE  EventInv'
<1> DEFINE o == Writing(<<"summary">>)
<1> USE DEF EventInv
<1>1. /\ op[i].kind = "compact" /\ op' = [op EXCEPT ![i] = o]
      /\ UNCHANGED <<here, file, arch, disk, mem, acked, writes, crashes, faults, archives>>
  BY DEF Summarize, dirs, count
<1>2. \A j \in Store : j = i
  BY DEF OneStore
<1>3. /\ o \in WriteOp /\ o.kind = "write" /\ o.todo # <<>> /\ Len(o.todo) = 1
      /\ o.done = {} /\ o.life = archives
  BY DEF Writing, WriteOp, Kind, Shape
<1> HIDE DEF o
<1>4. op'[i] = o /\ mem[i].up /\ writes < MaxEvents
  BY <1>1 DEF Shape, Calls, Idle
<1>5. IsFiniteSet({}) /\ Cardinality({}) = 0 /\ mem[i].last \in Nat
  BY CallTypes, FS_EmptySet
<1>6. Last(i)' = mem[i].last /\ Last(i) = mem[i].last
  <2>1. op'[i].kind = "write" /\ Cardinality(op'[i].done) = 0 /\ mem'[i].last = mem[i].last
    BY <1>1, <1>3, <1>4, <1>5
  <2>2. Last(i)' = mem[i].last
    BY <1>5, <2>1 DEF Last
  <2> QED  BY <1>1, <2>2, LastTyped
<1>7. Files' = Files
  BY <1>1 DEF Files, Exists
<1>8. Shape'
  BY <1>1, <1>3 DEF Shape
<1>9. Numbered' /\ NumbersNew'
  BY <1>1, <1>2, <1>6, <1>7 DEF Numbered, NumbersNew
<1>10. Calls'
  <2>1. writes' + Len(o.todo) <= MaxEvents
    BY <1>1, <1>3, <1>4 DEF Shape
  <2> QED  BY <1>1, <1>2, <1>3, <1>4, <2>1 DEF Calls
<1>11. GoneIsEmpty' /\ AcksKept' /\ PurgePassed'
  BY <1>1, <1>2, <1>3, <1>4, <1>7 DEF GoneIsEmpty, AcksKept, PurgePassed, Exists
<1>12. DoneKept'
  <2>1. op'[i].done = {} /\ op'[i].life = archives /\ archives' = archives /\ archives \in Nat
    BY <1>1, <1>3, <1>4 DEF Shape
  <2>2. op'[i].life <= archives' /\ IsFiniteSet(op'[i].done)
    BY <1>5, <2>1
  <2> QED  BY <1>2, <2>1, <2>2 DEF DoneKept
<1> QED  BY <1>8, <1>9, <1>10, <1>11, <1>12

\* Events that purge or compact deletes were not written by a call under way.
LEMMA DeleteInv ==
  ASSUME OneStore, EventInv, Shape', NEW i \in Store, NEW S \in SUBSET Seq1,
         \A m \in Seq1 : file'[m] = IF m \in S THEN NoFile ELSE file[m],
         \A a \in acked' : a \in acked /\ a[1] \notin S,
         op[i].kind \in {"purge", "compact"}, op'[i] \in {Idle} \cup LoopOp,
         mem'[i].last = mem[i].last, mem'[i].up = mem[i].up,
         mem[i].index \ S \subseteq mem'[i].index,
         op'[i].kind = "compact" => op[i].kind = "compact",
         op'[i].kind = "purge" =>
           /\ op'[i].todo \subseteq mem'[i].index
           /\ \A n \in mem'[i].index \ (op'[i].todo \cup S) : ~Expired(n),
         UNCHANGED <<here, arch, disk, writes, crashes, faults, archives>>
  PROVE  EventInv'
<1> USE DEF EventInv
<1>1. \A j \in Store : j = i
  BY DEF OneStore
<1>2. mem[i].up /\ mem[i].last \in Nat /\ mem'[i].index \in SUBSET Seq1
  <2>1. mem'[i].index \in SUBSET Seq1
    BY DEF Shape, MemRecord
  <2> QED  BY <2>1, CallTypes DEF Calls, Idle
<1>3. op'[i].kind \notin {"write", "save"}
  BY DEF Idle, LoopOp
<1>4. Files' = Files \ S
  BY DEF Files, Exists, NoFile
<1>5. Last(i)' = mem[i].last /\ Last(i) = mem[i].last
  BY <1>3, QuietLast, LastTyped
<1>6. Numbered' /\ NumbersNew'
  BY <1>1, <1>4, <1>5 DEF Numbered, NumbersNew
<1>7. Calls'
  BY <1>1, <1>2, <1>3 DEF Calls
<1>8. GoneIsEmpty' /\ DoneKept'
  BY <1>1, <1>3, <1>4 DEF GoneIsEmpty, DoneKept
<1>9. AcksKept'
  <2> SUFFICES ASSUME NEW a \in acked'
               PROVE  /\ file'[a[1]].kind # "none" /\ file'[a[1]].id = a[2]
                      /\ disk.ok => a[1] \in disk.seqs
                      /\ a[1] \in mem'[i].index /\ a[1] <= mem[i].last
    BY <1>1 DEF AcksKept, Exists
  <2>1. a \in acked /\ a[1] \in Seq1 /\ a[1] \notin S
    BY DEF Shape
  <2>2. file'[a[1]] = file[a[1]]
    BY <2>1
  <2>3. a[1] \in mem[i].index /\ a[1] <= mem[i].last
    BY <1>2, <2>1 DEF AcksKept
  <2> QED  BY <2>1, <2>2, <2>3 DEF AcksKept, Exists
<1>10. PurgePassed'
  <2> SUFFICES ASSUME op'[i].kind = "purge", NEW n \in mem'[i].index \ op'[i].todo
               PROVE  ~Expired(n)'
    BY <1>1 DEF PurgePassed
  <2>1. CASE n \in S
    BY <2>1 DEF Expired, NoFile
  <2>2. CASE n \notin S
    <3>1. file'[n] = file[n] /\ ~Expired(n)
      BY <1>2, <2>2
    <3> QED  BY <3>1 DEF Expired
  <2> QED  BY <2>1, <2>2
<1> QED  BY <1>6, <1>7, <1>8, <1>9, <1>10

LEMMA PurgeNextInv ==
  ASSUME OneStore, EventInv, NEW i \in Store, PurgeNext(i)
  PROVE  EventInv'
<1> DEFINE n == Min(op[i].todo)
           S == IF Expired(n) THEN {n} ELSE {}
           o == IF file[n].kind = "torn" THEN Idle
                ELSE [kind |-> "purge", todo |-> op[i].todo \ {n}]
<1>1. /\ op[i].kind = "purge" /\ op[i].todo # {} /\ op' = [op EXCEPT ![i] = o]
      /\ file' = [m \in Seq1 |-> IF m \in S THEN NoFile ELSE file[m]]
      /\ acked' = {a \in acked : a[1] \notin S}
      /\ UNCHANGED <<here, arch, disk, mem, writes, crashes, faults, archives>>
  BY DEF PurgeNext, Delete, count
<1>2. op[i] \in LoopOp /\ op[i].todo \in SUBSET Seq1
  BY <1>1, CallTypes DEF EventInv, LoopOp
<1>3. n \in op[i].todo
  BY <1>1, <1>2, MinIsLeast DEF Seq1
<1>4. o \in {Idle} \cup LoopOp /\ o.kind # "compact"
  BY <1>2 DEF LoopOp, Idle
<1>5. o.kind = "purge" => o.todo = op[i].todo \ {n}
  BY DEF Idle
<1>6. S \in SUBSET Seq1 /\ (~Expired(n) \/ n \in S)
  BY <1>2, <1>3
<1> HIDE DEF n, S, o
<1>7. /\ mem[i].index \in SUBSET Seq1 /\ op[i].todo \subseteq mem[i].index
      /\ \A m \in mem[i].index \ op[i].todo : ~Expired(m)
  BY <1>1, CallTypes DEF EventInv, PurgePassed
<1>8. o.kind = "purge" =>
        /\ o.todo \subseteq mem[i].index
        /\ \A m \in mem[i].index \ (o.todo \cup S) : ~Expired(m)
  BY <1>5, <1>6, <1>7
<1>9. op'[i] = o /\ mem' = mem
  BY <1>1 DEF EventInv, Shape
<1>10. Shape'
  <2>1. NoFile \in FileRecord
    BY DEF NoFile, FileRecord
  <2>2. file' \in [Seq1 -> FileRecord]
    BY <1>1, <2>1 DEF EventInv, Shape
  <2> QED  BY <1>1, <1>4, <2>2 DEF EventInv, Shape
<1> QED  BY <1>1, <1>4, <1>6, <1>8, <1>9, <1>10, DeleteInv

LEMMA CompactNextInv ==
  ASSUME OneStore, EventInv, NEW i \in Store, CompactNext(i)
  PROVE  EventInv'
<1> DEFINE n == Min(op[i].todo)
           o == [kind |-> "compact", todo |-> op[i].todo \ {n}]
           m == [last |-> mem[i].last, index |-> mem[i].index \ {n}, up |-> mem[i].up]
<1>1. op[i].kind = "compact" /\ op[i].todo # {} /\ op[i] \in LoopOp
  BY CallTypes DEF CompactNext, EventInv
<1>2. op[i].todo \in SUBSET Seq1 /\ op[i] = [kind |-> "compact", todo |-> op[i].todo]
  BY <1>1 DEF LoopOp
<1>3. n \in op[i].todo /\ n \in Seq1
  BY <1>1, <1>2, MinIsLeast DEF Seq1
<1>4. /\ file' = [q \in Seq1 |-> IF q \in {n} THEN NoFile ELSE file[q]]
      /\ acked' = {a \in acked : a[1] \notin {n}}
      /\ mem' = [mem EXCEPT ![i].index = mem[i].index \ {n}]
      /\ op' = [op EXCEPT ![i].todo = op[i].todo \ {n}]
      /\ UNCHANGED <<here, arch, disk, writes, crashes, faults, archives>>
  BY DEF CompactNext, Delete, count
<1>5. op' = [op EXCEPT ![i] = o]
  <2>1. [op[i] EXCEPT !.todo = op[i].todo \ {n}] = o
    BY <1>2
  <2>2. [op EXCEPT ![i].todo = op[i].todo \ {n}]
          = [op EXCEPT ![i] = [op[i] EXCEPT !.todo = op[i].todo \ {n}]]
    BY DEF EventInv, Shape
  <2> QED  BY <1>4, <2>1, <2>2
<1>6. o \in LoopOp /\ o.kind = "compact"
  BY <1>2 DEF LoopOp
<1>7. m \in MemRecord /\ mem' = [mem EXCEPT ![i] = m]
  <2>1. mem[i] \in MemRecord
    BY CallTypes DEF EventInv
  <2>2. m \in MemRecord /\ [mem[i] EXCEPT !.index = mem[i].index \ {n}] = m
    BY <2>1 DEF MemRecord
  <2>3. [mem EXCEPT ![i].index = mem[i].index \ {n}]
          = [mem EXCEPT ![i] = [mem[i] EXCEPT !.index = mem[i].index \ {n}]]
    BY DEF EventInv, Shape
  <2> QED  BY <1>4, <2>2, <2>3
<1>8. /\ m.last = mem[i].last /\ m.up = mem[i].up /\ mem[i].index \ {n} \subseteq m.index
  OBVIOUS
<1> HIDE DEF n, o, m
<1>9. op'[i] = o /\ mem'[i] = m
  BY <1>5, <1>7 DEF EventInv, Shape
<1>10. Shape'
  <2>1. NoFile \in FileRecord
    BY DEF NoFile, FileRecord
  <2>2. file' \in [Seq1 -> FileRecord]
    BY <1>4, <2>1 DEF EventInv, Shape
  <2>3. mem' \in [Store -> MemRecord] /\ op' \in [Store -> {Idle} \cup WriteOp \cup SaveOp \cup LoopOp]
    BY <1>5, <1>6, <1>7 DEF EventInv, Shape
  <2> QED  BY <1>4, <2>2, <2>3 DEF EventInv, Shape
<1>11. {n} \in SUBSET Seq1
  BY <1>3
<1> QED  BY <1>1, <1>4, <1>6, <1>8, <1>9, <1>10, <1>11, DeleteInv

LEMMA PurgeEndsInv ==
  ASSUME OneStore, EventInv, NEW i \in Store, PurgeEnds(i)
  PROVE  EventInv'
<1> DEFINE m == [last |-> mem[i].last, index |-> mem[i].index \cap Files, up |-> mem[i].up]
           o == IF mem[i].index \subseteq Files THEN Idle
                ELSE [kind |-> "save", done |-> {}, life |-> archives]
<1> USE DEF EventInv
<1>1. /\ op[i].kind = "purge" /\ op' = [op EXCEPT ![i] = o]
      /\ mem' = [mem EXCEPT ![i].index = mem[i].index \cap Files]
      /\ UNCHANGED <<here, file, arch, disk, acked, writes, crashes, faults, archives>>
  BY DEF PurgeEnds, dirs, count
<1>2. \A j \in Store : j = i
  BY DEF OneStore
<1>3. m \in MemRecord /\ mem' = [mem EXCEPT ![i] = m]
  <2>1. mem[i] \in MemRecord
    BY CallTypes
  <2>2. m \in MemRecord /\ [mem[i] EXCEPT !.index = mem[i].index \cap Files] = m
    BY <2>1 DEF MemRecord
  <2>3. [mem EXCEPT ![i].index = mem[i].index \cap Files]
          = [mem EXCEPT ![i] = [mem[i] EXCEPT !.index = mem[i].index \cap Files]]
    BY DEF Shape
  <2> QED  BY <1>1, <2>2, <2>3
<1>4. /\ o \in {Idle} \cup SaveOp /\ o.kind \in {"idle", "save"}
      /\ o.kind = "save" => o.done = {} /\ o.life = archives
  BY DEF SaveOp, Idle, Shape
<1>5. m.last = mem[i].last /\ m.up = mem[i].up /\ m.index = mem[i].index \cap Files
  OBVIOUS
<1> HIDE DEF m, o
<1>6. mem'[i] = m /\ op'[i] = o /\ mem[i].up
  BY <1>1, <1>3 DEF Shape, Calls, Idle
<1>7. Shape'
  BY <1>1, <1>3, <1>4 DEF Shape
<1>8. Last(i)' = mem[i].last /\ Last(i) = mem[i].last /\ Files' = Files
  BY <1>1, <1>4, <1>5, <1>6, QuietLast, LastTyped DEF Files, Exists
<1>9. Numbered' /\ NumbersNew'
  BY <1>1, <1>2, <1>5, <1>6, <1>8 DEF Numbered, NumbersNew
<1>10. Calls' /\ GoneIsEmpty' /\ PurgePassed'
  BY <1>1, <1>2, <1>4, <1>5, <1>6, <1>8 DEF Calls, GoneIsEmpty, PurgePassed
<1>11. AcksKept'
  <2> SUFFICES ASSUME NEW a \in acked
               PROVE  /\ Exists(a[1]) /\ file[a[1]].id = a[2]
                      /\ disk.ok => a[1] \in disk.seqs
                      /\ a[1] \in m.index /\ a[1] <= m.last
    BY <1>1, <1>2, <1>6 DEF AcksKept, Exists
  <2>1. a[1] \in Files
    BY DEF AcksKept, Files, Shape
  <2> QED  BY <1>5, <1>6, <2>1 DEF AcksKept
<1>12. DoneKept'
  <2> SUFFICES ASSUME o.kind = "save"
               PROVE  o.life <= archives /\ IsFiniteSet(o.done) /\ o.done = {}
    BY <1>1, <1>2, <1>4, <1>6 DEF DoneKept
  <2>1. o.done = {} /\ o.life = archives /\ archives \in Nat
    BY <1>4 DEF Shape
  <2> QED  BY <2>1, FS_EmptySet
<1> QED  BY <1>7, <1>9, <1>10, <1>11, <1>12

-----------------------------------------------------------------------------
\* Time, crashes and the archive

LEMMA GrowOldInv ==
  ASSUME EventInv, GrowOld
  PROVE  EventInv'
<1> USE DEF EventInv
<1>1. /\ \A i \in Store : op[i] = Idle
      /\ file' = [n \in Seq1 |-> IF Exists(n) THEN [file[n] EXCEPT !.old = TRUE] ELSE file[n]]
      /\ UNCHANGED <<here, arch, disk, mem, op, acked, writes, crashes, faults, archives>>
  BY DEF GrowOld, count
<1>2. file' \in [Seq1 -> FileRecord]
      /\ \A n \in Seq1 : file'[n].kind = file[n].kind /\ file'[n].id = file[n].id
  <2>1. \A n \in Seq1 : /\ file'[n] \in FileRecord
                        /\ file'[n].kind = file[n].kind /\ file'[n].id = file[n].id
    <3> SUFFICES ASSUME NEW n \in Seq1
                 PROVE  /\ file'[n] \in FileRecord
                        /\ file'[n].kind = file[n].kind /\ file'[n].id = file[n].id
      OBVIOUS
    <3>1. file[n] \in FileRecord
      BY DEF Shape
    <3>2. file'[n] = IF Exists(n) THEN [file[n] EXCEPT !.old = TRUE] ELSE file[n]
      BY <1>1
    <3> QED  BY <3>1, <3>2 DEF FileRecord
  <2> QED  BY <1>1, <2>1
<1>3. Shape'
  BY <1>1, <1>2 DEF Shape
<1>4. Files' = Files /\ \A n \in Seq1 : Exists(n)' <=> Exists(n)
  BY <1>2 DEF Files, Exists
<1>5. \A i \in Store : Last(i)' = Last(i)
  BY <1>1 DEF Last
<1>6. Numbered' /\ NumbersNew' /\ GoneIsEmpty'
  BY <1>1, <1>4, <1>5 DEF Numbered, NumbersNew, GoneIsEmpty
<1>7. Calls' /\ DoneKept' /\ PurgePassed'
  BY <1>1 DEF Calls, DoneKept, PurgePassed, Idle
<1>8. AcksKept'
  <2> SUFFICES ASSUME NEW a \in acked
               PROVE  Exists(a[1])' /\ file'[a[1]].id = a[2]
    BY <1>1 DEF AcksKept
  <2>1. a[1] \in Seq1 /\ Exists(a[1]) /\ file[a[1]].id = a[2]
    BY DEF Shape, AcksKept
  <2> QED  BY <1>2, <1>4, <2>1
<1> QED  BY <1>3, <1>6, <1>7, <1>8

LEMMA ArchiveInv ==
  ASSUME EventInv, ArchiveRun
  PROVE  EventInv'
<1> DEFINE N == {0} \cup Files
<1> USE DEF EventInv
<1>1. /\ archives' = archives + 1 /\ here' = FALSE /\ arch' = Max(N)
      /\ file' = [n \in Seq1 |-> NoFile] /\ disk' = [ok |-> FALSE, seqs |-> {}]
      /\ acked' = {} /\ UNCHANGED <<mem, op, writes, crashes, faults>>
  BY DEF ArchiveRun
<1>2. Max(N) \in N
  <2>1. MaxEvents + MaxCrashes \in Nat /\ N \in SUBSET (0..(MaxEvents + MaxCrashes)) /\ N # {}
    BY DEF Files, Seq1
  <2> QED  BY <2>1, MaxIsGreatest
<1>3. writes + crashes \in Nat
  BY DEF Shape
<1>4. arch' \in Nat /\ \A i \in Store : arch' <= writes + crashes + (IF mem[i].up THEN 1 ELSE 0)
  <2>1. arch' \in Nat
    BY <1>1, <1>2 DEF Files, Seq1
  <2> SUFFICES ASSUME NEW i \in Store
               PROVE  Max(N) <= writes + crashes + (IF mem[i].up THEN 1 ELSE 0)
    BY <1>1, <2>1
  <2>2. CASE Max(N) \in Files
    BY <2>2 DEF Numbered
  <2>3. CASE Max(N) = 0
    BY <1>3, <2>3
  <2> QED  BY <1>2, <2>2, <2>3
<1>5. Files' = {} /\ \A n \in Seq1 : file'[n] = NoFile
  BY <1>1 DEF Files, Exists, NoFile
<1>6. Shape'
  <2>1. NoFile \in FileRecord
    BY DEF NoFile, FileRecord
  <2>2. file' \in [Seq1 -> FileRecord]
    BY <1>1, <2>1
  <2>3. disk' \in [ok : BOOLEAN, seqs : SUBSET Seq1] /\ archives' \in Nat
    BY <1>1 DEF Shape
  <2> QED  BY <1>1, <1>4, <2>2, <2>3 DEF Shape
<1>7. \A i \in Store : Last(i)' = Last(i)
  BY <1>1 DEF Last
<1>8. Numbered' /\ NumbersNew' /\ GoneIsEmpty'
  BY <1>1, <1>4, <1>5, <1>7 DEF Numbered, NumbersNew, GoneIsEmpty
<1>9. Calls' /\ AcksKept'
  BY <1>1 DEF Calls, AcksKept
<1>10. PurgePassed'
  <2> SUFFICES ASSUME NEW i \in Store, NEW n \in mem[i].index
               PROVE  ~Expired(n)'
    BY <1>1 DEF PurgePassed
  <2>1. n \in Seq1
    BY CallTypes
  <2> QED  BY <1>5, <2>1 DEF Expired, NoFile
<1>11. DoneKept'
  <2> SUFFICES ASSUME NEW i \in Store, op[i].kind \in {"write", "save"}
               PROVE  /\ op[i].life <= archives + 1 /\ op[i].life # archives + 1
                      /\ IsFiniteSet(op[i].done)
                      /\ \A d \in op[i].done : d[1] <= Last(i)
    BY <1>1, <1>7 DEF DoneKept
  <2>1. op[i].life \in Nat /\ archives \in Nat
    BY CallTypes DEF WriteOp, SaveOp, Shape
  <2>2. op[i].life <= archives
    BY DEF DoneKept
  <2> QED  BY <2>1, <2>2 DEF DoneKept
<1> QED  BY <1>6, <1>8, <1>9, <1>10, <1>11

LEMMA CreateInv ==
  ASSUME EventInv, CreateRun
  PROVE  EventInv'
<1> USE DEF EventInv
<1>1. here' = TRUE /\ UNCHANGED <<file, arch, disk, mem, op, acked, writes, crashes, faults, archives>>
  BY DEF CreateRun, count
<1>2. Shape' /\ Files' = Files /\ \A i \in Store : Last(i)' = Last(i)
  BY <1>1 DEF Shape, Files, Exists, Last
<1>3. Numbered' /\ NumbersNew' /\ GoneIsEmpty' /\ Calls'
  BY <1>1, <1>2 DEF Numbered, NumbersNew, GoneIsEmpty, Calls
<1>4. AcksKept' /\ DoneKept' /\ PurgePassed'
  BY <1>1, <1>2 DEF AcksKept, DoneKept, PurgePassed, Exists, Expired
<1> QED  BY <1>2, <1>3, <1>4

\* What a crash leaves of a file has a number that nothing acknowledged has.
LEMMA CrashInv ==
  ASSUME OneStore, EventInv, NEW i \in Store, Crash(i)
  PROVE  EventInv'
<1> DEFINE n == NextNumber(i)
<1> USE DEF EventInv
<1>1. /\ mem[i].up /\ crashes < MaxCrashes /\ crashes' = crashes + 1
      /\ mem' = [mem EXCEPT ![i] = Down] /\ op' = [op EXCEPT ![i] = Idle]
      /\ UNCHANGED <<here, arch, acked, writes, faults, archives>>
  BY DEF Crash
<1>2. \A j \in Store : j = i
  BY DEF OneStore
<1>3. mem'[i] = Down /\ ~mem'[i].up /\ op'[i] = Idle /\ op'[i].kind = "idle"
  BY <1>1 DEF Shape, Down, Idle
<1>4. \/ file' = file
      \/ op[i].kind = "write" /\ here /\ file' = [file EXCEPT ![n] = Torn]
  BY DEF Crash, CutOff
<1>5. disk' = disk \/ disk' = [ok |-> FALSE, seqs |-> {}]
  BY DEF Crash, CutOff
<1>6. op[i].kind = "write" =>
        /\ n \in Seq1 /\ n \in Nat /\ n = Last(i) + 1 /\ n <= writes + crashes + 1
        /\ mem[i].last \in Nat /\ mem[i].last <= Last(i) /\ Last(i) \in Nat
  BY NextIsNew, LastTyped, CallTypes DEF Seq1
<1> HIDE DEF n
<1>7. /\ file' \in [Seq1 -> FileRecord]
      /\ \A q \in Seq1 : op[i].kind # "write" \/ q # n => file'[q] = file[q]
      /\ op[i].kind # "write" \/ ~here => file' = file
  <2>1. Torn \in FileRecord /\ file \in [Seq1 -> FileRecord]
    BY DEF Shape, Torn, FileRecord
  <2>2. CASE file' = file
    BY <2>1, <2>2
  <2>3. CASE op[i].kind = "write" /\ here /\ file' = [file EXCEPT ![n] = Torn]
    BY <1>6, <2>1, <2>3
  <2> QED  BY <1>4, <2>2, <2>3
<1>8. Shape'
  <2>1. crashes' \in 0..MaxCrashes
    BY <1>1 DEF Shape
  <2>2. Down \in MemRecord
    BY DEF Down, MemRecord
  <2>3. disk' \in [ok : BOOLEAN, seqs : SUBSET Seq1]
    <3>1. disk \in [ok : BOOLEAN, seqs : SUBSET Seq1]
      BY DEF Shape
    <3>2. [ok |-> FALSE, seqs |-> {}] \in [ok : BOOLEAN, seqs : SUBSET Seq1]
      OBVIOUS
    <3> QED  BY <1>5, <3>1, <3>2, Zenon
  <2>4. mem' \in [Store -> MemRecord] /\ op' \in [Store -> {Idle} \cup WriteOp \cup SaveOp \cup LoopOp]
    BY <1>1, <2>2 DEF Shape
  <2> QED  BY <1>1, <1>7, <2>1, <2>3, <2>4 DEF Shape
<1>9. Numbered'
  <2> SUFFICES ASSUME NEW q \in Files' \cup {arch}
               PROVE  q <= writes + (crashes + 1) + 0
    BY <1>1, <1>2, <1>3 DEF Numbered
  <2>1. writes \in Nat /\ crashes \in Nat
    BY DEF Shape
  <2>2. q \in Files \cup {arch} => q <= writes + crashes + 1
    BY <1>1 DEF Numbered
  <2>3. q \in Files \cup {arch} \/ (op[i].kind = "write" /\ q = n)
    BY <1>7 DEF Files, Exists
  <2>4. q \in Nat
    BY <1>6, <2>3 DEF Files, Seq1, Shape
  <2> QED  BY <1>6, <2>1, <2>2, <2>3, <2>4
<1>10. Calls' /\ DoneKept' /\ PurgePassed' /\ NumbersNew'
  BY <1>2, <1>3 DEF Calls, DoneKept, PurgePassed, NumbersNew
<1>11. GoneIsEmpty'
  BY <1>1, <1>7 DEF GoneIsEmpty, Files, Exists
<1>12. AcksKept'
  <2> SUFFICES ASSUME NEW a \in acked
               PROVE  /\ Exists(a[1])' /\ file'[a[1]].id = a[2]
                      /\ disk'.ok => a[1] \in disk'.seqs
    BY <1>1, <1>2, <1>3 DEF AcksKept
  <2>1. a[1] \in Seq1 /\ a[1] \in Nat /\ a[1] <= mem[i].last
    BY <1>1 DEF AcksKept, Shape, Seq1
  <2>2. file'[a[1]] = file[a[1]]
    BY <1>6, <1>7, <2>1
  <2>3. Exists(a[1]) /\ file[a[1]].id = a[2] /\ (disk.ok => a[1] \in disk.seqs)
    BY DEF AcksKept
  <2> QED  BY <1>5, <2>2, <2>3 DEF Exists
<1> QED  BY <1>8, <1>9, <1>10, <1>11, <1>12

-----------------------------------------------------------------------------
\* The invariant holds of every reachable state

LEMMA EventInit == Init => EventInv
<1> SUFFICES ASSUME Init PROVE EventInv
  OBVIOUS
<1>1. /\ here = TRUE /\ file = [n \in Seq1 |-> NoFile] /\ arch = 0
      /\ disk = [ok |-> FALSE, seqs |-> {}]
      /\ mem = [i \in Store |-> Down] /\ op = [i \in Store |-> Idle]
      /\ acked = {} /\ writes = 0 /\ crashes = 0 /\ faults = 0 /\ archives = 0
  BY DEF Init
<1>2. NoFile \in FileRecord /\ Down \in MemRecord /\ Files = {}
  BY <1>1 DEF NoFile, FileRecord, Down, MemRecord, Files, Exists
<1>3. Shape
  BY <1>1, <1>2 DEF Shape
<1>4. \A i \in Store : ~mem[i].up /\ op[i] = Idle /\ op[i].kind = "idle"
  BY <1>1 DEF Down, Idle
<1>5. Numbered /\ NumbersNew /\ GoneIsEmpty
  BY <1>1, <1>2, <1>4 DEF Numbered, NumbersNew, GoneIsEmpty
<1>6. Calls /\ AcksKept /\ DoneKept /\ PurgePassed
  BY <1>1, <1>4 DEF Calls, AcksKept, DoneKept, PurgePassed
<1> QED  BY <1>3, <1>5, <1>6 DEF EventInv

LEMMA EventStutter ==
  ASSUME EventInv, UNCHANGED vars
  PROVE  EventInv'
<1>1. UNCHANGED <<here, file, arch, disk, mem, op, acked, writes, crashes, faults, archives>>
  BY DEF vars, dirs, count
<1>2. Files' = Files /\ (\A i \in Store : Last(i)' = Last(i))
      /\ (\A n : Exists(n)' <=> Exists(n)) /\ (\A n : Expired(n)' <=> Expired(n))
  BY <1>1 DEF Files, Exists, Last, Expired
<1>3. Shape' /\ Numbered' /\ Calls' /\ GoneIsEmpty'
  BY <1>1, <1>2 DEF EventInv, Shape, Numbered, Calls, GoneIsEmpty
<1>4. AcksKept' /\ DoneKept' /\ NumbersNew' /\ PurgePassed'
  BY <1>1, <1>2 DEF EventInv, AcksKept, DoneKept, NumbersNew, PurgePassed
<1> QED  BY <1>3, <1>4 DEF EventInv

LEMMA EventNext ==
  ASSUME OneStore, EventInv, [Next]_vars
  PROVE  EventInv'
<1>1. CASE UNCHANGED vars
  BY <1>1, EventStutter
<1>2. CASE GrowOld \/ ArchiveRun \/ CreateRun
  BY <1>2, GrowOldInv, ArchiveInv, CreateInv
<1>3. ASSUME NEW i \in Store, Open(i) \/ WriteEvent(i) \/ WriteFails(i)
      PROVE  EventInv'
  BY <1>3, OpenInv, WriteInv, WriteFailsInv
<1>4. ASSUME NEW i \in Store, SaveIndex(i) \/ SaveFails(i) \/ Purge(i) \/ PurgeNext(i)
      PROVE  EventInv'
  BY <1>4, SaveIndexInv, SimpleCalls, PurgeNextInv
<1>5. ASSUME NEW i \in Store,
             PurgeEnds(i) \/ Compact(i) \/ CompactNext(i) \/ Summarize(i) \/ Crash(i)
      PROVE  EventInv'
  BY <1>5, PurgeEndsInv, SimpleCalls, CompactNextInv, SummarizeInv, CrashInv
<1>6. ASSUME NEW i \in Store, NEW n \in 1..MaxBatch,
             NEW ks \in [1..n -> Kind \ {"summary"}], AppendEvents(i, ks)
      PROVE  EventInv'
  BY <1>6, AppendInv
<1> QED  BY <1>1, <1>2, <1>3, <1>4, <1>5, <1>6 DEF Next

LEMMA EventInvariant ==
  ASSUME OneStore
  PROVE  Spec => []EventInv
<1>1. EventInv /\ [Next]_vars => EventInv'
  BY EventNext
<1> QED  BY <1>1, EventInit, PTL DEF Spec

\* In a run whose events one process has open, every event whose append has returned can
\* be read as it was appended, until retention, compaction or archiving removes it:
\* whatever crashes cut off, whichever writes fail, and whether _load_index finds the index
\* or has to rebuild it (EventStore.append, append_many, purge, compact).
THEOREM StoreCorrect ==
  ASSUME OneStore
  PROVE  Spec => []StoreInv
<1>1. EventInv => TypeOK
  <2> SUFFICES ASSUME EventInv PROVE TypeOK
    OBVIOUS
  <2>1. /\ file \in [Seq1 -> [kind : Kind \cup {"none", "torn"}, id : Nat, old : BOOLEAN]]
        /\ here \in BOOLEAN /\ arch \in Nat
        /\ disk \in [ok : BOOLEAN, seqs : SUBSET Seq1]
        /\ acked \subseteq Seq1 \X Nat
    BY DEF EventInv, Shape, FileRecord
  <2>2. mem \in [Store -> [last : {0} \cup Seq1, index : SUBSET Seq1, up : BOOLEAN]]
    BY DEF EventInv, Shape, MemRecord
  <2>3. \A i \in Store : op[i].kind \in {"idle", "write", "save", "purge", "compact"}
    BY DEF EventInv, Shape, Idle, WriteOp, SaveOp, LoopOp
  <2> QED  BY <2>1, <2>2, <2>3 DEF TypeOK
<1>2. EventInv => AckedReadable
  BY DEF EventInv, AcksKept, AckedReadable
<1> QED  BY <1>1, <1>2, EventInvariant, PTL DEF StoreInv

-----------------------------------------------------------------------------
\* What a step may not do

\* While no write has failed, an event that a file holds is never replaced by another one,
\* whatever crashes have left: the number of the next file is one that no file has, because
\* _load_last_sequence looks at the files and not at the index.
THEOREM EventsStayImmutable ==
  ASSUME OneStore
  PROVE  Spec => EventsImmutable
<1> DEFINE Kept == \A n \in Seq1 : faults = 0 /\ file[n].kind \in Kind /\ file'[n].kind # "none"
                                     => file'[n].id = file[n].id
<1>1. ASSUME EventInv, [Next]_vars PROVE Kept
  <2> SUFFICES ASSUME NEW n \in Seq1, faults = 0, file[n].kind \in Kind,
                      file'[n].kind # "none"
               PROVE  file'[n].id = file[n].id
    OBVIOUS
  <2>1. file \in [Seq1 -> FileRecord] /\ n \in Files
    BY <1>1 DEF EventInv, Shape, Files, Exists, Kind
  <2>2. ASSUME NEW i \in Store, op[i].kind = "write"
        PROVE  NextNumber(i) # n
    <3>1. n <= Last(i) /\ NextNumber(i) = Last(i) + 1 /\ Last(i) \in Nat
      BY <1>1, <2>1, <2>2, NextIsNew DEF EventInv, NumbersNew
    <3> QED  BY <3>1 DEF Seq1
  <2>3. ASSUME NEW i \in Store, WriteEvent(i) \/ WriteFails(i) \/ Crash(i)
        PROVE  file'[n] = file[n]
    BY <2>1, <2>2, <2>3 DEF WriteEvent, WriteFails, Crash, CutOff
  <2>4. ASSUME NEW i \in Store, PurgeNext(i) \/ CompactNext(i)
        PROVE  file'[n] = file[n]
    BY <2>1, <2>4 DEF PurgeNext, CompactNext, Delete, NoFile
  <2>5. ASSUME NEW i \in Store,
               \/ Open(i) \/ SaveIndex(i) \/ SaveFails(i) \/ Purge(i) \/ PurgeEnds(i)
               \/ Compact(i) \/ Summarize(i)
               \/ \E m \in 1..MaxBatch : \E ks \in [1..m -> Kind \ {"summary"}] : AppendEvents(i, ks)
        PROVE  file'[n] = file[n]
    BY <2>5 DEF Open, SaveIndex, SaveFails, Purge, PurgeEnds, Compact, Summarize, AppendEvents, dirs
  <2>6. CASE GrowOld
    <3>1. file'[n] = IF Exists(n) THEN [file[n] EXCEPT !.old = TRUE] ELSE file[n]
      BY <2>6 DEF GrowOld
    <3> QED  BY <2>1, <3>1 DEF FileRecord
  <2>7. CASE ArchiveRun
    BY <2>7 DEF ArchiveRun, NoFile
  <2>8. CASE CreateRun \/ UNCHANGED vars
    BY <2>8 DEF CreateRun, vars, dirs
  <2> QED  BY <1>1, <2>3, <2>4, <2>5, <2>6, <2>7, <2>8 DEF Next
<1>2. EventInv /\ [Next]_vars => [Kept]_vars
  BY <1>1
<1> QED  BY <1>2, EventInvariant, PTL DEF Spec, EventsImmutable

\* A purge that ends, in a process that lives and with no file in its index that a crash
\* cut off, has left no event in the index whose retention has passed (EventStore.purge).
THEOREM PurgeIsComplete ==
  ASSUME OneStore
  PROVE  Spec => PurgeRemovesExpired
<1> DEFINE Purged == \A i \in Store :
             op[i].kind = "purge" /\ op'[i].kind # "purge" /\ mem'[i].up
               /\ (\A n \in mem[i].index : file[n].kind # "torn") =>
               \A n \in mem[i].index : ~Expired(n)'
<1>1. ASSUME EventInv, [Next]_vars PROVE Purged
  <2> SUFFICES ASSUME NEW i \in Store, op[i].kind = "purge", op'[i].kind # "purge",
                      mem'[i].up, \A n \in mem[i].index : file[n].kind # "torn",
                      NEW n \in mem[i].index
               PROVE  ~Expired(n)'
    OBVIOUS
  <2>1. \A j \in Store : j = i
    BY DEF OneStore
  <2>2. op[i] \in LoopOp /\ op[i].todo \in SUBSET Seq1 /\ op[i].todo \subseteq mem[i].index
        /\ \A m \in mem[i].index \ op[i].todo : ~Expired(m)
    BY <1>1, CallTypes DEF EventInv, LoopOp, PurgePassed
  <2>3. op' # op /\ op \in [Store -> {Idle} \cup WriteOp \cup SaveOp \cup LoopOp]
        /\ mem \in [Store -> MemRecord]
    BY <1>1 DEF EventInv, Shape
  <2>4. ~Crash(i)
    BY <2>3 DEF Crash, Down
  <2>5. ~PurgeNext(i)
    <3> SUFFICES ASSUME PurgeNext(i) PROVE FALSE
      OBVIOUS
    <3>1. Min(op[i].todo) \in op[i].todo
      BY <2>2, MinIsLeast DEF PurgeNext, Seq1
    <3>2. file[Min(op[i].todo)].kind # "torn"
      BY <2>2, <3>1
    <3> QED  BY <2>3, <3>2 DEF PurgeNext
  <2>6. CASE PurgeEnds(i)
    BY <2>2, <2>6 DEF PurgeEnds, dirs, Expired
  <2>7. ~(GrowOld \/ ArchiveRun \/ CreateRun \/ Open(i) \/ UNCHANGED vars)
    BY <2>3 DEF GrowOld, ArchiveRun, CreateRun, Open, vars
  <2>8. ~(\/ WriteEvent(i) \/ WriteFails(i) \/ SaveIndex(i) \/ SaveFails(i) \/ Purge(i)
          \/ Compact(i) \/ CompactNext(i) \/ Summarize(i)
          \/ \E m \in 1..MaxBatch : \E ks \in [1..m -> Kind \ {"summary"}] : AppendEvents(i, ks))
    BY DEF WriteEvent, WriteFails, SaveIndex, SaveFails, Purge, Compact, CompactNext,
           Summarize, AppendEvents, Ready, Idle
  <2> QED  BY <1>1, <2>1, <2>4, <2>5, <2>6, <2>7, <2>8 DEF Next
<1>2. EventInv /\ [Next]_vars => [Purged]_vars
  BY <1>1
<1> QED  BY <1>2, EventInvariant, PTL DEF Spec, PurgeRemovesExpired

===============================================================================
