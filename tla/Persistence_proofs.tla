-------------------------- MODULE Persistence_proofs --------------------------
(***************************************************************************)
(* Proofs about Persistence.                                               *)
(***************************************************************************)
EXTENDS Persistence, TLAPS

Requesting == {"persist", "trash", "load", "list", "drop", "saveAdd", "saveDrop"}
SaveSteps  == {"saveAdd", "saveDrop", "saveEdit", "saveImport"}

\* A request is in saveRecords exactly at its save steps, and is about a
\* torrent at every step but the edit and the trash.
StepInv ==
  \A c \in Callers : /\ Saving(c) <=> step[c] \in SaveSteps
                     /\ on[c] # NoId <=> step[c] \in Requesting

\* Requests that meet on a torrent have crossed, and nothing is promised of a
\* torrent while a request is about it.
PromiseInv ==
  /\ \A c, d \in Callers : c # d /\ on[c] = on[d] /\ on[c] # NoId => on[c] \in crossed
  /\ \A c \in Callers : on[c] # NoId /\ on[c] \notin crossed => fate[on[c]] = "none"

\* The list in memory keeps every promise, those about to be made included.
MemoryInv ==
  /\ \A id \in Ids \ crossed : /\ fate[id] = "kept" => id \in Range(records)
                               /\ fate[id] = "gone" => id \notin Range(records)
  /\ \A c \in Callers : on[c] \notin crossed =>
       /\ step[c] = "saveAdd" => on[c] \in Range(records)
       /\ step[c] = "saveDrop" => on[c] \notin Range(records)

\* A save that is alone saves the list as it is, through a temporary file that
\* nobody else has touched.
SoloInv ==
  /\ \A c \in Callers : solo[c] =>
       /\ Saving(c) /\ \A d \in Callers : Saving(d) => d = c
       /\ snap[c] = records
       /\ saveAt[c] = "write" => tmpFile = Empty /\ fd[c] = "tmp"
       /\ saveAt[c] = "rename" => tmpFile = snap[c]
  /\ ~overlapped => \A c \in Callers : Saving(c) => solo[c]

\* As long as saves do not meet, the file is the list in memory, but for the
\* torrent that the one save under way is about, and but for a backup.
FileInv ==
  ~overlapped =>
    \A id \in Ids : (\A c \in Callers : Saving(c) => on[c] # id /\ step[c] # "saveImport")
                      => (id \in OnFile <=> id \in Range(records))

\* While a backup is saved, the old file keeps the promises that it did not end.
ImportInv == (\E c \in Callers : step[c] = "saveImport") => RecordsSurvive

TrashInv ==
  /\ \A c \in Callers : step[c] \in {"load", "list", "empty"} <=> trashMu = c
  /\ trashMu = NoCaller => dirs \subseteq listed \union orphans
  /\ trashMu = Purger => dirs \subseteq loaded[Purger] \union orphans
  /\ \A c \in Callers : step[c] = "load" => dirs \subseteq listed \union orphans \union {moved}
  /\ \A c \in Callers : step[c] \in {"list", "empty"} => dirs \subseteq loaded[c] \union orphans
-----------------------------------------------------------------------------
(* Lists of distinct IDs.                                                  *)

\* persistRecord appends an ID that has no record: the list stays one of
\* distinct IDs and gains just this one.
LEMMA AppendNew ==
  ASSUME NEW list \in IdLists, NEW id \in Ids, id \notin Range(list)
  PROVE  /\ Append(list, id) \in IdLists
         /\ Range(Append(list, id)) = Range(list) \union {id}
<1> DEFINE more == Append(list, id)
<1>1. /\ list \in Seq(Ids) /\ more \in Seq(Ids) /\ Len(more) = Len(list) + 1
      /\ DOMAIN list = 1 .. Len(list) /\ DOMAIN more = 1 .. Len(list) + 1
      /\ Len(list) \in Nat
  BY DEF IdLists
<1>2. more[Len(list) + 1] = id /\ \A i \in 1 .. Len(list) : more[i] = list[i]
  BY <1>1
<1>3. IsInjective(more)
  <2> SUFFICES ASSUME NEW i \in 1 .. Len(list) + 1, NEW j \in 1 .. Len(list) + 1,
                      more[i] = more[j]
               PROVE  i = j
    BY <1>1 DEF IsInjective
  <2>1. CASE i \in 1 .. Len(list) /\ j \in 1 .. Len(list)
    BY <2>1, <1>1, <1>2 DEF IdLists, IsInjective
  <2>2. CASE i = Len(list) + 1 /\ j \in 1 .. Len(list)
    BY <2>2, <1>1, <1>2 DEF Range
  <2>3. CASE j = Len(list) + 1 /\ i \in 1 .. Len(list)
    BY <2>3, <1>1, <1>2 DEF Range
  <2> QED BY <2>1, <2>2, <2>3, <1>1
<1>4. Range(more) = Range(list) \union {id}
  BY <1>1, <1>2 DEF Range
<1> QED BY <1>1, <1>3, <1>4 DEF IdLists

\* dropRecord: the list loses this ID and no other.
LEMMA WithoutOne ==
  ASSUME NEW list \in IdLists, NEW id \in Ids
  PROVE  /\ Without(list, id) \in IdLists
         /\ Range(Without(list, id)) = Range(list) \ {id}
<1>1. CASE id \notin Range(list)
  BY <1>1 DEF Without
<1>2. CASE id \in Range(list)
  <2> DEFINE n    == Len(list)
             k    == CHOOSE i \in 1 .. n : list[i] = id
             less == [i \in 1 .. n - 1 |-> IF i < k THEN list[i] ELSE list[i + 1]]
  <2>1. list \in Seq(Ids) /\ n \in Nat /\ DOMAIN list = 1 .. n
    BY DEF IdLists
  <2>2. k \in 1 .. n /\ list[k] = id
    BY <2>1, <1>2 DEF Range
  <2>3. Without(list, id) = less
    BY <1>2 DEF Without
  <2> HIDE DEF k
  <2>4. less \in Seq(Ids) /\ Len(less) = n - 1 /\ DOMAIN less = 1 .. n - 1
    BY <2>1, <2>2
  <2>5. ASSUME NEW i \in 1 .. n, NEW j \in 1 .. n, list[i] = list[j]
        PROVE  i = j
    BY <2>1, <2>5 DEF IdLists, IsInjective
  <2>6. IsInjective(less)
    BY <2>1, <2>2, <2>4, <2>5 DEF IsInjective
  <2>7. Range(less) \subseteq Range(list) \ {id}
    <3> SUFFICES ASSUME NEW i \in 1 .. n - 1
                 PROVE  less[i] \in Range(list) /\ less[i] # id
      BY <2>4 DEF Range
    <3> QED BY <2>1, <2>2, <2>5 DEF Range
  <2>8. Range(list) \ {id} \subseteq Range(less)
    <3> SUFFICES ASSUME NEW i \in 1 .. n, list[i] # id
                 PROVE  \E j \in 1 .. n - 1 : less[j] = list[i]
      BY <2>1, <2>4 DEF Range
    <3>1. CASE i < k
      <4>1. i \in 1 .. n - 1 /\ less[i] = list[i]
        BY <3>1, <2>1, <2>2
      <4> QED BY <4>1
    <3>2. CASE i > k
      <4>1. i - 1 \in 1 .. n - 1 /\ less[i - 1] = list[i]
        BY <3>2, <2>1, <2>2
      <4> QED BY <4>1
    <3> QED BY <3>1, <3>2, <2>1, <2>2
  <2> QED BY <2>3, <2>4, <2>6, <2>7, <2>8 DEF IdLists
<1> QED BY <1>1, <1>2

LEMMA EmptyList ==
  /\ <<>> \in IdLists /\ <<>> \in Seq(Ids) /\ Range(<<>>) = {}
  /\ Len(<<>>) = 0 /\ 1 \in 1 .. Len(<<>>) + 1
BY DEF IdLists, IsInjective, Range

\* The array that restoreRecords walks keeps its length.
LEMMA CompactedType ==
  ASSUME RecordsTypeOK, NEW list \in IdLists
  PROVE  Compacted(list) \in Seq(Ids) /\ Len(Compacted(list)) = Len(boot)
<1>1. list \in Seq(Ids) /\ boot \in Seq(Ids)
  BY DEF IdLists, RecordsTypeOK
<1>2. CASE aliased
  <2> DEFINE more == [i \in 1 .. Len(boot) |-> IF i <= Len(list) THEN list[i] ELSE boot[i]]
  <2>1. \A i \in 1 .. Len(boot) : more[i] \in Ids
    BY <1>1
  <2>2. more \in Seq(Ids) /\ Len(more) = Len(boot)
    BY <1>1, <2>1
  <2> QED BY <2>2, <1>2 DEF Compacted
<1>3. CASE ~aliased
  BY <1>1, <1>3 DEF Compacted
<1> QED BY <1>2, <1>3

-----------------------------------------------------------------------------
(* Types.                                                                  *)

\* What a change of the records does to the types; boot is left to the callers.
LEMMA SnapshotType ==
  ASSUME RecordsTypeOK, NEW c \in Callers, NEW list \in IdLists, NEW lock \in BOOLEAN,
         Snapshot(c, list, lock),
         boot' \in Seq(Ids), Len(boot') = Len(boot), bootAt' = bootAt, aliased' \in BOOLEAN
  PROVE  RecordsTypeOK'
BY DEF RecordsTypeOK, Snapshot, BeginSave, fileVars, Contents

LEMMA PersistType ==
  ASSUME RecordsTypeOK, NEW c \in Callers, NEW id \in Ids, PersistRecord(c, id)
  PROVE  /\ RecordsTypeOK'
         /\ records' \in IdLists /\ Range(records') = Range(records) \union {id}
         /\ Snapshot(c, records', FALSE)
<1> DEFINE list == IF id \in Range(records) THEN records ELSE Append(records, id)
<1>1. records \in IdLists
  BY DEF RecordsTypeOK
<1>2. list \in IdLists /\ Range(list) = Range(records) \union {id}
  BY <1>1, AppendNew
<1>3. /\ Snapshot(c, list, FALSE) /\ boot' = Compacted(list) /\ bootAt' = bootAt
      /\ aliased' \in BOOLEAN
  BY DEF PersistRecord, RecordsTypeOK
<1> HIDE DEF list
<1>4. records' = list
  BY <1>3 DEF Snapshot, BeginSave
<1>5. RecordsTypeOK'
  BY <1>2, <1>3, CompactedType, SnapshotType
<1> QED BY <1>2, <1>3, <1>4, <1>5

LEMMA DropType ==
  ASSUME RecordsTypeOK, NEW c \in Callers, NEW id \in Ids, DropRecord(c, id)
  PROVE  /\ RecordsTypeOK'
         /\ records' \in IdLists /\ Range(records') = Range(records) \ {id}
         /\ Snapshot(c, records', FALSE)
<1> DEFINE list == Without(records, id)
<1>1. records \in IdLists
  BY DEF RecordsTypeOK
<1>2. list \in IdLists /\ Range(list) = Range(records) \ {id}
  BY <1>1, WithoutOne
<1>3. /\ Snapshot(c, list, FALSE) /\ boot' = Compacted(list) /\ bootAt' = bootAt
      /\ aliased' \in BOOLEAN
  BY DEF DropRecord, RecordsTypeOK
<1> HIDE DEF list
<1>4. records' = list
  BY <1>3 DEF Snapshot, BeginSave
<1>5. RecordsTypeOK'
  BY <1>2, <1>3, CompactedType, SnapshotType
<1> QED BY <1>2, <1>3, <1>4, <1>5

LEMMA ReplaceType ==
  ASSUME RecordsTypeOK, NEW c \in Callers, NEW list \in IdLists, ReplaceRecords(c, list)
  PROVE  RecordsTypeOK' /\ records' = list /\ Snapshot(c, records', FALSE)
<1>1. records' = list
  BY DEF ReplaceRecords, Snapshot, BeginSave
<1> QED BY <1>1, SnapshotType DEF ReplaceRecords, RecordsTypeOK

LEMMA EditType ==
  ASSUME RecordsTypeOK, NEW c \in Callers, NEW id \in Ids, NEW lock \in BOOLEAN,
         EditRecord(c, id, lock)
  PROVE  RecordsTypeOK'
BY SnapshotType DEF EditRecord, bootVars, RecordsTypeOK

LEMMA SaveType ==
  ASSUME RecordsTypeOK, NEW c \in Callers, OpenTmp(c) \/ WriteTmp(c) \/ RenameTmp(c)
  PROVE  RecordsTypeOK'
<1>1. CASE OpenTmp(c)
  BY <1>1 DEF OpenTmp, OpenFile, RecordsTypeOK, Contents, bootVars
<1>2. CASE WriteTmp(c)
  <2>1. snap[c] \in IdLists
    BY DEF RecordsTypeOK
  <2>2. \A old : Over(old, snap[c]) \subseteq Contents
    BY <2>1 DEF Over, Contents
  <2>3. tmpFile' \in Contents /\ recFile' \in Contents
    BY <1>2, <2>2 DEF WriteTmp, WriteFile, RecordsTypeOK, fileVars
  <2> QED BY <1>2, <2>3 DEF WriteTmp, WriteFile, RecordsTypeOK, bootVars
<1>3. CASE RenameTmp(c)
  <2>1. <<>> \in IdLists
    BY EmptyList
  <2>2. tmpFile' \in Contents /\ recFile' \in Contents
    BY <1>3 DEF RenameTmp, RenameFile, RecordsTypeOK, fileVars, Contents
  <2>3. fd' \in [Callers -> {"none", "tmp", "rec", "gone"}]
    BY <1>3 DEF RenameTmp, RenameFile, RecordsTypeOK
  <2>4. /\ records' = records /\ boot' = boot /\ bootAt' = bootAt /\ aliased' = aliased
        /\ snap' = [snap EXCEPT ![c] = <<>>] /\ saveAt' = [saveAt EXCEPT ![c] = "no"]
        /\ recordsMu' = IF recordsMu = c THEN Nobody ELSE recordsMu
    BY <1>3 DEF RenameTmp, RenameFile, bootVars
  <2> QED BY <2>1, <2>2, <2>3, <2>4 DEF RecordsTypeOK
<1> QED BY <1>1, <1>2, <1>3

LEMMA BootType ==
  ASSUME RecordsTypeOK, BootNext
  PROVE  RecordsTypeOK' /\ boot[bootAt] \in Ids
<1>1. boot \in Seq(Ids) /\ bootAt \in 1 .. Len(boot) /\ Len(boot) \in Nat
  BY DEF RecordsTypeOK, BootNext, Restoring
<1>2. boot' \in Seq(Ids) /\ bootAt' \in 1 .. Len(boot') + 1 /\ aliased' \in BOOLEAN
  <2>1. CASE bootAt = Len(boot)
    <3>1. boot' = <<>> /\ bootAt' = 1 /\ aliased' = FALSE
      BY <2>1 DEF BootNext
    <3> QED BY <3>1, EmptyList
  <2>2. CASE bootAt # Len(boot)
    <3>1. boot' = boot /\ bootAt' = bootAt + 1 /\ aliased' = aliased
      BY <2>2 DEF BootNext
    <3> QED BY <3>1, <2>2, <1>1 DEF RecordsTypeOK
  <2> QED BY <2>1, <2>2
<1> QED BY <1>1, <1>2 DEF BootNext, RecordsTypeOK, saveVars, fileVars

LEMMA ReloadType ==
  ASSUME RecordsTypeOK, ReloadRecords
  PROVE  RecordsTypeOK'
<1>1. <<>> \in IdLists
  BY EmptyList
<1>2. Load(recFile) \in IdLists /\ Load(recFile) \in Seq(Ids)
  BY <1>1 DEF Load, RecordsTypeOK, Contents, IdLists
<1>3. 1 \in 1 .. Len(Load(recFile)) + 1
  BY <1>2
<1> QED BY <1>1, <1>2, <1>3 DEF ReloadRecords, ForgetSaves, RecordsTypeOK, fileVars

LEMMA TrashType ==
  ASSUME TrashTypeOK, NEW c \in Lockers,
         \/ TrashMove(c) \/ (TrashLoad(c) /\ moved # 0) \/ TrashSave(c)
         \/ (\E kept \in SUBSET listed : EmptyTrash(c, kept))
         \/ (\E expired \in SUBSET listed : PurgeTrash(expired))
  PROVE  TrashTypeOK'
<1>1. CASE TrashMove(c)
  BY <1>1, TrashAssumption DEF TrashMove, TrashTypeOK, Dirs
<1>2. CASE TrashLoad(c) /\ moved # 0
  <2>1. moved \in Dirs
    BY <1>2, TrashAssumption DEF TrashTypeOK, Dirs
  <2> QED BY <1>2, <2>1 DEF TrashLoad, TrashTypeOK
<1>3. CASE TrashSave(c)
  BY <1>3 DEF TrashSave, TrashTypeOK
<1>4. CASE \E kept \in SUBSET listed : EmptyTrash(c, kept)
  BY <1>4 DEF EmptyTrash, TrashTypeOK
<1>5. CASE \E expired \in SUBSET listed : PurgeTrash(expired)
  BY <1>5 DEF PurgeTrash, TrashTypeOK, Lockers
<1> QED BY <1>1, <1>2, <1>3, <1>4, <1>5

\* Inductive form of the types: what each step of a request has at hand.
TypeInv == TypeOK /\ StepInv /\ \A c \in Callers : step[c] = "load" => moved # 0

LEMMA InitType == Init => TypeInv
<1> SUFFICES ASSUME Init PROVE TypeInv
  OBVIOUS
<1>1. RecordsTypeOK
  BY EmptyList DEF Init, RecordsInit, RecordsTypeOK, Contents
<1>2. TrashTypeOK
  BY TrashAssumption DEF Init, TrashInit, TrashTypeOK
<1>3. RequestTypeOK /\ HistoryTypeOK
  <2>1. RequestTypeOK
    BY PersistenceAssumption, EmptyList DEF Init, RequestTypeOK, Steps
  <2>2. HistoryTypeOK
    BY DEF Init, HistoryTypeOK
  <2> QED BY <2>1, <2>2
<1>4. StepInv /\ \A c \in Callers : step[c] = "load" => moved # 0
  BY DEF Init, RecordsInit, StepInv, Saving, SaveSteps, Requesting
<1> QED BY <1>1, <1>2, <1>3, <1>4 DEF TypeInv, TypeOK

\* The requests that touch neither records nor trash in this step.
LEMMA BeginType ==
  ASSUME TypeInv, NEW c \in Callers, NEW id \in Ids,
         \/ Add(c, id) \/ Delete(c, id)
         \/ \E remove \in BOOLEAN : GoalReached(c, id, remove)
  PROVE  TypeInv'
<1> USE PersistenceAssumption DEF TypeInv, TypeOK, Add, Delete, GoalReached, Begin
<1>1. RecordsTypeOK'
  BY DEF RecordsTypeOK, recordsVars, saveVars, fileVars, bootVars, Contents
<1>2. TrashTypeOK' /\ moved' = moved
  BY DEF TrashTypeOK, trashVars
<1>3. RequestTypeOK'
  BY DEF RequestTypeOK, Steps
<1>4. HistoryTypeOK'
  BY DEF HistoryTypeOK
<1>5. StepInv' /\ \A d \in Callers : step'[d] = "load" => moved # 0
  BY DEF StepInv, RequestTypeOK, Saving, SaveSteps, Requesting, recordsVars, saveVars
<1> QED BY <1>1, <1>2, <1>3, <1>4, <1>5

\* A save begins.
LEMMA SnapType ==
  ASSUME TypeInv, NEW c \in Callers,
         \/ AddPersist(c) \/ Drop(c)
         \/ \E id \in Ids, lock \in BOOLEAN : Edit(c, id, lock)
  PROVE  TypeInv'
<1> USE PersistenceAssumption DEF TypeInv, TypeOK
<1>1. CASE AddPersist(c)
  <2>1. on[c] \in Ids /\ step[c] = "persist"
    BY <1>1 DEF AddPersist, StepInv, Requesting, RequestTypeOK
  <2>2. RecordsTypeOK' /\ Snapshot(c, records', FALSE)
    BY <1>1, <2>1, PersistType DEF AddPersist
  <2>3. TrashTypeOK' /\ moved' = moved
    BY <1>1 DEF TrashTypeOK, trashVars, AddPersist
  <2>4. RequestTypeOK'
    BY <1>1 DEF AddPersist, RequestTypeOK, GoTo, Steps
  <2>5. HistoryTypeOK'
    BY <1>1 DEF AddPersist, HistoryTypeOK, MeetSaves
  <2>6. StepInv' /\ \A d \in Callers : step'[d] = "load" => moved # 0
    BY <1>1, <2>1, <2>2 DEF AddPersist, StepInv, RequestTypeOK, RecordsTypeOK, Snapshot, BeginSave,
       GoTo, Saving, SaveSteps, Requesting
  <2> QED BY <2>2, <2>3, <2>4, <2>5, <2>6
<1>2. CASE Drop(c)
  <2>1. on[c] \in Ids /\ step[c] = "drop"
    BY <1>2 DEF Drop, StepInv, Requesting, RequestTypeOK
  <2>2. RecordsTypeOK' /\ Snapshot(c, records', FALSE)
    BY <1>2, <2>1, DropType DEF Drop
  <2>3. TrashTypeOK' /\ moved' = moved
    BY <1>2 DEF TrashTypeOK, trashVars, Drop
  <2>4. RequestTypeOK'
    BY <1>2 DEF Drop, RequestTypeOK, GoTo, Steps
  <2>5. StillToBoot \subseteq Ids /\ StillToBoot' \subseteq Ids
    BY <2>2 DEF StillToBoot, RecordsTypeOK
  <2>6. HistoryTypeOK'
    BY <1>2, <2>5 DEF Drop, HistoryTypeOK, MeetSaves
  <2>7. StepInv' /\ \A d \in Callers : step'[d] = "load" => moved # 0
    BY <1>2, <2>1, <2>2 DEF Drop, StepInv, RequestTypeOK, RecordsTypeOK, Snapshot, BeginSave,
       GoTo, Saving, SaveSteps, Requesting
  <2> QED BY <2>2, <2>3, <2>4, <2>6, <2>7
<1>3. ASSUME NEW id \in Ids, NEW lock \in BOOLEAN, Edit(c, id, lock)
      PROVE  TypeInv'
  <2>1. RecordsTypeOK' /\ Snapshot(c, records, lock)
    BY <1>3, EditType DEF Edit, EditRecord
  <2>2. TrashTypeOK' /\ moved' = moved
    BY <1>3 DEF TrashTypeOK, trashVars, Edit
  <2>3. RequestTypeOK'
    BY <1>3 DEF Edit, RequestTypeOK, Steps
  <2>4. HistoryTypeOK'
    BY <1>3 DEF Edit, HistoryTypeOK, MeetSaves
  <2>5. StepInv' /\ \A d \in Callers : step'[d] = "load" => moved # 0
    <3>1. /\ saveAt' = [saveAt EXCEPT ![c] = "open"] /\ on' = on
          /\ step[c] = "idle" /\ step' = [step EXCEPT ![c] = "saveEdit"]
      BY <1>3, <2>1 DEF Edit, Snapshot, BeginSave
    <3> QED BY <3>1 DEF StepInv, RequestTypeOK, RecordsTypeOK, Saving, SaveSteps, Requesting
  <2> QED BY <2>1, <2>2, <2>3, <2>4, <2>5
<1> QED BY <1>1, <1>2, <1>3

\* A backup is imported, or its walk goes on.
LEMMA ImportType ==
  ASSUME TypeInv,
         \/ \E c \in Callers, list \in Backups : ImportBackup(c, list)
         \/ \E added \in BOOLEAN : ImportNext(added)
  PROVE  TypeInv'
<1> USE PersistenceAssumption DEF TypeInv, TypeOK
<1>1. ASSUME NEW c \in Callers, NEW list \in Backups, ImportBackup(c, list)
      PROVE  TypeInv'
  <2>1. list \in IdLists /\ list \in Seq(Ids)
    BY DEF IdLists
  <2>2. RecordsTypeOK' /\ Snapshot(c, records', FALSE)
    BY <1>1, <2>1, ReplaceType DEF ImportBackup
  <2>3. TrashTypeOK' /\ moved' = moved
    BY <1>1 DEF ImportBackup, TrashTypeOK, trashVars
  <2>4. RequestTypeOK'
    BY <1>1, <2>1 DEF ImportBackup, RequestTypeOK, Steps
  <2>5. StillToBoot \subseteq Ids
    BY DEF StillToBoot, RecordsTypeOK
  <2>6. HistoryTypeOK'
    BY <1>1, <2>5 DEF ImportBackup, HistoryTypeOK, RequestTypeOK, MeetSaves
  <2>7. StepInv' /\ \A d \in Callers : step'[d] = "load" => moved # 0
    <3>1. /\ saveAt' = [saveAt EXCEPT ![c] = "open"] /\ on' = on
          /\ step[c] = "idle" /\ step' = [step EXCEPT ![c] = "saveImport"]
      BY <1>1, <2>2 DEF ImportBackup, Snapshot, BeginSave
    <3> QED BY <3>1 DEF StepInv, RequestTypeOK, RecordsTypeOK, Saving, SaveSteps, Requesting
  <2> QED BY <2>2, <2>3, <2>4, <2>6, <2>7
<1>2. ASSUME NEW added \in BOOLEAN, ImportNext(added)
      PROVE  TypeInv'
  <2>1. Head(imported) \in Ids /\ Tail(imported) \in Seq(Ids)
    BY <1>2 DEF ImportNext, RequestTypeOK
  <2>2. RecordsTypeOK' /\ saveAt' = saveAt
    BY <1>2 DEF ImportNext, RecordsTypeOK, recordsVars, saveVars, fileVars, bootVars, Contents
  <2>3. TrashTypeOK' /\ moved' = moved
    BY <1>2 DEF ImportNext, TrashTypeOK, trashVars
  <2>4. RequestTypeOK' /\ HistoryTypeOK'
    BY <1>2, <2>1 DEF ImportNext, RequestTypeOK, HistoryTypeOK, requestVars
  <2>5. StepInv' /\ step' = step
    BY <1>2, <2>2 DEF ImportNext, StepInv, Saving, requestVars
  <2> QED BY <2>2, <2>3, <2>4, <2>5
<1> QED BY <1>1, <1>2

\* A save goes on or ends.
LEMMA SaveGoesOnType ==
  ASSUME TypeInv, NEW c \in Callers, SaveStep(c) \/ SaveEnd(c)
  PROVE  TypeInv'
<1> USE PersistenceAssumption DEF TypeInv, TypeOK
<1>1. RecordsTypeOK'
  BY SaveType DEF SaveStep, SaveEnd
<1>2. TrashTypeOK' /\ moved' = moved
  BY DEF SaveStep, SaveEnd, TrashTypeOK, trashVars
<1>3. CASE SaveStep(c)
  <2>1. RequestTypeOK' /\ HistoryTypeOK'
    BY <1>3 DEF SaveStep, RequestTypeOK, HistoryTypeOK, requestVars, historyVars
  <2>2. StepInv' /\ \A d \in Callers : step'[d] = "load" => moved # 0
    BY <1>3 DEF SaveStep, OpenTmp, OpenFile, WriteTmp, WriteFile, StepInv, RequestTypeOK, RecordsTypeOK,
       Saving, SaveSteps, Requesting, requestVars
  <2> QED BY <1>1, <1>2, <2>1, <2>2
<1>4. CASE SaveEnd(c)
  <2>1. RequestTypeOK'
    BY <1>4 DEF SaveEnd, Answer, RequestTypeOK, Steps
  <2>2. fate' \in [Ids -> {"none", "kept", "gone"}]
    BY <1>4 DEF SaveEnd, HistoryTypeOK
  <2>3. HistoryTypeOK'
    BY <1>4, <2>2 DEF SaveEnd, HistoryTypeOK
  <2>4. StepInv' /\ \A d \in Callers : step'[d] = "load" => moved # 0
    BY <1>4 DEF SaveEnd, RenameTmp, RenameFile, Answer, StepInv, RequestTypeOK, RecordsTypeOK,
       Saving, SaveSteps, Requesting
  <2> QED BY <1>1, <1>2, <2>1, <2>3, <2>4
<1> QED BY <1>3, <1>4

\* A request moves data to the trash, deletes it, or empties the trash.
LEMMA TrashStepType ==
  ASSUME TypeInv, NEW c \in Callers,
         \/ DeleteMove(c) \/ DeleteLoad(c) \/ DeleteList(c)
         \/ DeleteOutright(c) \/ DeleteFails(c)
         \/ (\E kept \in SUBSET listed : EmptyAll(c, kept)) \/ EmptyEnd(c)
  PROVE  TypeInv'
<1> USE PersistenceAssumption DEF TypeInv, TypeOK
<1>1. RecordsTypeOK' /\ saveAt' = saveAt
  BY DEF DeleteMove, DeleteLoad, DeleteList, DeleteOutright, DeleteFails, EmptyAll, EmptyEnd,
     RecordsTypeOK, recordsVars, saveVars, fileVars, bootVars, Contents
<1>2. TrashTypeOK'
  <2>1. step[c] = "load" => moved # 0
    OBVIOUS
  <2>2. CASE DeleteMove(c) \/ DeleteLoad(c) \/ DeleteList(c) \/ EmptyEnd(c)
             \/ \E kept \in SUBSET listed : EmptyAll(c, kept)
    BY <2>1, <2>2, TrashType DEF DeleteMove, DeleteLoad, DeleteList, EmptyEnd, EmptyAll, Lockers
  <2>3. CASE DeleteOutright(c) \/ DeleteFails(c)
    BY <2>3 DEF DeleteOutright, DeleteFails, TrashTypeOK, trashVars
  <2> QED BY <2>2, <2>3
<1>3. RequestTypeOK'
  BY DEF DeleteMove, DeleteLoad, DeleteList, DeleteOutright, DeleteFails, EmptyAll, EmptyEnd,
     RequestTypeOK, GoTo, Answer, Steps
<1>4. HistoryTypeOK'
  <2>1. DeleteFails(c) => on[c] \in Ids
    BY DEF DeleteFails, StepInv, Requesting, RequestTypeOK
  <2> QED BY <2>1 DEF DeleteMove, DeleteLoad, DeleteList, DeleteOutright, DeleteFails, EmptyAll,
          EmptyEnd, HistoryTypeOK, historyVars
<1>5. StepInv'
  BY <1>1 DEF DeleteMove, DeleteLoad, DeleteList, DeleteOutright, DeleteFails, EmptyAll, EmptyEnd,
     StepInv, RequestTypeOK, Saving, SaveSteps, Requesting, GoTo, Answer
<1>6. ASSUME NEW d \in Callers, step'[d] = "load"
      PROVE  moved' # 0
  <2>1. CASE DeleteMove(c)
    BY <2>1 DEF DeleteMove, TrashMove, TrashTypeOK
  <2>2. CASE ~DeleteMove(c)
    BY <1>6, <2>2 DEF DeleteMove, DeleteLoad, DeleteList, DeleteOutright, DeleteFails, EmptyAll,
       EmptyEnd, RequestTypeOK, GoTo, Answer, TrashLoad, TrashSave, EmptyTrash, trashVars
  <2> QED BY <2>1, <2>2
<1> QED BY <1>1, <1>2, <1>3, <1>4, <1>5, <1>6

\* Steps that are no request's: the watch folder, the restore, the purge, the
\* restart.
LEMMA OtherType ==
  ASSUME TypeInv,
         \/ \E id \in Ids : WatchAdd(id)
         \/ RestoreNext \/ RestoreFails
         \/ (\E expired \in SUBSET listed : Purge(expired)) \/ PurgeEnd
         \/ Restart
  PROVE  TypeInv'
<1> USE PersistenceAssumption DEF TypeInv, TypeOK
<1>1. ASSUME NEW id \in Ids, WatchAdd(id)
      PROVE  TypeInv'
  <2>1. RecordsTypeOK' /\ saveAt' = saveAt
    BY <1>1 DEF WatchAdd, RecordsTypeOK, recordsVars, saveVars, fileVars, bootVars, Contents
  <2>2. TrashTypeOK' /\ moved' = moved
    BY <1>1 DEF WatchAdd, TrashTypeOK, trashVars
  <2>3. RequestTypeOK' /\ HistoryTypeOK'
    BY <1>1 DEF WatchAdd, RequestTypeOK, HistoryTypeOK
  <2>4. StepInv'
    BY <1>1, <2>1 DEF WatchAdd, StepInv, Saving
  <2> QED BY <1>1, <2>1, <2>2, <2>3, <2>4 DEF WatchAdd
<1>2. CASE RestoreNext \/ RestoreFails
  <2>1. BootNext /\ RecordsTypeOK' /\ boot[bootAt] \in Ids
    BY <1>2, BootType DEF RestoreNext, RestoreFails
  <2>2. saveAt' = saveAt
    BY <2>1 DEF BootNext, saveVars
  <2>3. TrashTypeOK' /\ moved' = moved
    BY <1>2 DEF RestoreNext, RestoreFails, TrashTypeOK, trashVars
  <2>4. RequestTypeOK' /\ HistoryTypeOK'
    BY <1>2, <2>1 DEF RestoreNext, RestoreFails, RequestTypeOK, HistoryTypeOK,
       requestVars, historyVars
  <2>5. StepInv' /\ step' = step
    BY <1>2, <2>2 DEF RestoreNext, RestoreFails, StepInv, Saving, requestVars
  <2> QED BY <2>1, <2>3, <2>4, <2>5
<1>3. CASE Restart
  <2>1. RecordsTypeOK'
    BY <1>3, ReloadType DEF Restart
  <2>2. TrashTypeOK'
    BY <1>3 DEF Restart, ReloadTrash, TrashTypeOK
  <2>3. RequestTypeOK'
    BY <1>3, EmptyList DEF Restart, RequestTypeOK, Steps
  <2>4. HistoryTypeOK'
    BY <1>3, <2>2 DEF Restart, HistoryTypeOK, TrashTypeOK
  <2>5. StepInv' /\ \A d \in Callers : step'[d] = "load" => moved' # 0
    BY <1>3 DEF Restart, ReloadRecords, ForgetSaves, StepInv, Saving, SaveSteps, Requesting
  <2> QED BY <2>1, <2>2, <2>3, <2>4, <2>5
<1>4. CASE (\E expired \in SUBSET listed : Purge(expired)) \/ PurgeEnd
  <2>1. TrashTypeOK'
    BY <1>4, TrashType DEF Purge, PurgeEnd, Lockers
  <2>2. moved' = moved
    BY <1>4 DEF Purge, PurgeEnd, PurgeTrash, TrashSave
  <2>3. RecordsTypeOK' /\ saveAt' = saveAt
    BY <1>4 DEF Purge, PurgeEnd, RecordsTypeOK, recordsVars, saveVars, fileVars, bootVars, Contents
  <2>4. RequestTypeOK' /\ HistoryTypeOK'
    BY <1>4 DEF Purge, PurgeEnd, RequestTypeOK, HistoryTypeOK, requestVars, historyVars
  <2>5. StepInv' /\ step' = step
    BY <1>4, <2>3 DEF Purge, PurgeEnd, StepInv, Saving, requestVars
  <2> QED BY <2>1, <2>2, <2>3, <2>4, <2>5
<1> QED BY <1>1, <1>2, <1>3, <1>4

LEMMA StutterType == TypeInv /\ UNCHANGED vars => TypeInv'
<1> SUFFICES ASSUME TypeInv, UNCHANGED vars PROVE TypeInv'
  OBVIOUS
<1> USE DEF TypeInv, TypeOK, vars
<1>1. RecordsTypeOK' /\ saveAt' = saveAt
  BY DEF RecordsTypeOK, recordsVars, saveVars, fileVars, bootVars, Contents
<1>2. TrashTypeOK' /\ moved' = moved
  BY DEF TrashTypeOK, trashVars
<1>3. RequestTypeOK' /\ HistoryTypeOK'
  BY DEF RequestTypeOK, HistoryTypeOK, requestVars, historyVars
<1>4. StepInv' /\ step' = step
  BY <1>1 DEF StepInv, Saving, requestVars
<1> QED BY <1>1, <1>2, <1>3, <1>4

LEMMA NextType == TypeInv /\ [Next]_vars => TypeInv'
BY BeginType, SnapType, ImportType, SaveGoesOnType, TrashStepType, OtherType, StutterType DEF Next

\* The variables of records, trash and requests have their types: the list never
\* holds a torrent twice, and what is written to its file is such a list or does
\* not parse (web/persist.go).
THEOREM PersistenceTypeCorrect == Spec => []TypeOK
<1>1. Spec => []TypeInv
  BY InitType, NextType, PTL DEF Spec
<1>2. TypeInv => TypeOK
  BY DEF TypeInv
<1> QED BY <1>1, <1>2, PTL

-----------------------------------------------------------------------------
(* The record file.                                                        *)

SafeInv == PromiseInv /\ MemoryInv /\ SoloInv /\ FileInv /\ ImportInv

LEMMA SafeImpliesSurvive == TypeInv /\ SafeInv => RecordsSurvive
<1> SUFFICES ASSUME TypeInv, SafeInv, \A c \in Callers : step[c] # "saveImport",
                    ~overlapped, NEW id \in Ids \ crossed, fate[id] # "none"
             PROVE  id \in OnFile <=> id \in Range(records)
  BY DEF RecordsSurvive, SafeInv, MemoryInv, ImportInv
<1>1. \A c \in Callers : on[c] # id
  BY PersistenceAssumption DEF SafeInv, PromiseInv
<1> QED BY <1>1 DEF SafeInv, FileInv

LEMMA InitSafe == Init => SafeInv
<1> SUFFICES ASSUME Init PROVE SafeInv
  OBVIOUS
<1>1. PromiseInv /\ MemoryInv /\ SoloInv
  BY DEF Init, RecordsInit, PromiseInv, MemoryInv, SoloInv, Saving
<1>2. FileInv /\ ImportInv
  BY DEF Init, RecordsInit, FileInv, ImportInv, OnFile, Load
<1> QED BY <1>1, <1>2 DEF SafeInv

\* A request begins on a torrent: promises on it end.
LEMMA BeginSafe ==
  ASSUME TypeInv, SafeInv, NEW c \in Callers, NEW id \in Ids,
         \/ Add(c, id) \/ Delete(c, id)
         \/ \E remove \in BOOLEAN : GoalReached(c, id, remove)
  PROVE  SafeInv'
<1> USE PersistenceAssumption
<1>1. /\ on[c] = NoId /\ ~Saving(c) /\ step[c] = "idle"
      /\ on' = [on EXCEPT ![c] = id] /\ fate' = [fate EXCEPT ![id] = "none"]
      /\ step' = [step EXCEPT ![c] = step'[c]] /\ step'[c] \in {"persist", "trash", "drop"}
      /\ crossed' = crossed \union {i \in {id} : \E d \in Callers : on[d] = i}
      /\ UNCHANGED <<recordsVars, solo, overlapped>>
  BY DEF TypeInv, TypeOK, RequestTypeOK, StepInv, SaveSteps, Requesting, Add, Delete, GoalReached,
     Begin
<1>2. /\ records' = records /\ recFile' = recFile /\ saveAt' = saveAt /\ snap' = snap
      /\ tmpFile' = tmpFile /\ fd' = fd
  BY <1>1 DEF recordsVars, saveVars, fileVars
<1>3. on \in [Callers -> Ids \union {NoId}] /\ step \in [Callers -> Steps]
      /\ fate \in [Ids -> {"none", "kept", "gone"}]
  BY DEF TypeInv, TypeOK, RequestTypeOK, HistoryTypeOK
<1>4. PromiseInv'
  BY <1>1, <1>3 DEF SafeInv, PromiseInv
<1>5. MemoryInv'
  BY <1>1, <1>2, <1>3 DEF SafeInv, MemoryInv
<1>6. SoloInv'
  BY <1>1, <1>2 DEF SafeInv, SoloInv, Saving
<1>7. FileInv'
  BY <1>1, <1>2, <1>3 DEF SafeInv, FileInv, OnFile, Saving
<1>8. ImportInv'
  BY <1>1, <1>2, <1>3 DEF SafeInv, ImportInv, RecordsSurvive, OnFile
<1> QED BY <1>4, <1>5, <1>6, <1>7, <1>8 DEF SafeInv

\* A save begins after the records changed by at most the torrent it is about.
LEMMA SnapshotSafe ==
  ASSUME TypeInv, SafeInv, NEW c \in Callers, NEW lock \in BOOLEAN,
         Snapshot(c, records', lock), MeetSaves(c), ~Saving(c),
         \A id \in Ids : id # on[c] => (id \in Range(records') <=> id \in Range(records)),
         \A d \in Callers : step'[d] = "saveImport" => step[d] = "saveImport",
         UNCHANGED <<on, crossed, fate>>
  PROVE  PromiseInv' /\ SoloInv' /\ FileInv' /\ ImportInv'
<1>1. /\ saveAt' = [saveAt EXCEPT ![c] = "open"] /\ snap' = [snap EXCEPT ![c] = records']
      /\ fd' = fd /\ tmpFile' = tmpFile /\ recFile' = recFile
      /\ saveAt \in [Callers -> {"no", "open", "write", "rename"}]
      /\ snap \in [Callers -> IdLists]
  BY DEF Snapshot, BeginSave, fileVars, TypeInv, TypeOK, RecordsTypeOK
<1>2. PromiseInv'
  BY DEF SafeInv, PromiseInv
<1>3. SoloInv'
  BY <1>1 DEF SoloInv, MeetSaves, Saving
<1>4. FileInv'
  <2> SUFFICES ASSUME ~overlapped', NEW id \in Ids,
                      \A d \in Callers : Saving(d)' => on[d] # id /\ step'[d] # "saveImport"
               PROVE  id \in OnFile' <=> id \in Range(records')
    BY DEF FileInv
  <2>1. ~overlapped /\ \A d \in Callers : ~Saving(d)
    BY DEF MeetSaves
  <2>2. id # on[c]
    BY <1>1 DEF Saving
  <2>3. OnFile' = OnFile
    BY <1>1 DEF OnFile
  <2> QED BY <2>1, <2>2, <2>3 DEF SafeInv, FileInv
<1>5. ImportInv'
  <2> SUFFICES ASSUME NEW d \in Callers, step'[d] = "saveImport", ~overlapped' PROVE FALSE
    BY DEF ImportInv, RecordsSurvive
  <2>1. Saving(d)
    BY DEF TypeInv, StepInv, SaveSteps
  <2> QED BY <2>1 DEF MeetSaves
<1> QED BY <1>2, <1>3, <1>4, <1>5

LEMMA SnapSafe ==
  ASSUME TypeInv, SafeInv, NEW c \in Callers,
         \/ AddPersist(c) \/ Drop(c)
         \/ \E id \in Ids, lock \in BOOLEAN : Edit(c, id, lock)
  PROVE  SafeInv'
<1>1. RecordsTypeOK /\ step \in [Callers -> Steps] /\ on \in [Callers -> Ids \union {NoId}]
  BY DEF TypeInv, TypeOK, RequestTypeOK
<1>2. CASE AddPersist(c)
  <2>1. on[c] \in Ids /\ ~Saving(c) /\ step[c] = "persist"
    BY <1>1, <1>2, PersistenceAssumption DEF AddPersist, TypeInv, StepInv, Requesting, SaveSteps
  <2>2. Range(records') = Range(records) \union {on[c]} /\ Snapshot(c, records', FALSE)
    BY <1>1, <1>2, <2>1, PersistType DEF AddPersist
  <2>3. PromiseInv' /\ SoloInv' /\ FileInv' /\ ImportInv'
    BY <1>1, <1>2, <2>1, <2>2, SnapshotSafe DEF AddPersist, GoTo
  <2>4. MemoryInv'
    <3>1. /\ step' = [step EXCEPT ![c] = "saveAdd"] /\ on' = on
          /\ fate' = fate /\ crossed' = crossed
      BY <1>2 DEF AddPersist, GoTo
    <3> QED BY <1>1, <2>1, <2>2, <3>1, PersistenceAssumption DEF SafeInv, PromiseInv, MemoryInv
  <2> QED BY <2>3, <2>4 DEF SafeInv
<1>3. CASE Drop(c)
  <2>1. on[c] \in Ids /\ ~Saving(c) /\ step[c] = "drop"
    BY <1>1, <1>3, PersistenceAssumption DEF Drop, TypeInv, StepInv, Requesting, SaveSteps
  <2>2. Range(records') = Range(records) \ {on[c]} /\ Snapshot(c, records', FALSE)
    BY <1>1, <1>3, <2>1, DropType DEF Drop
  <2>3. PromiseInv' /\ SoloInv' /\ FileInv' /\ ImportInv'
    BY <1>1, <1>3, <2>1, <2>2, SnapshotSafe DEF Drop, GoTo
  <2>4. MemoryInv'
    <3>1. /\ step' = [step EXCEPT ![c] = "saveDrop"] /\ on' = on
          /\ fate' = fate /\ crossed' = crossed
      BY <1>3 DEF Drop, GoTo
    <3> QED BY <1>1, <2>1, <2>2, <3>1, PersistenceAssumption DEF SafeInv, PromiseInv, MemoryInv
  <2> QED BY <2>3, <2>4 DEF SafeInv
<1>4. ASSUME NEW id \in Ids, NEW lock \in BOOLEAN, Edit(c, id, lock)
      PROVE  SafeInv'
  <2>1. ~Saving(c) /\ step[c] = "idle"
    BY <1>4 DEF Edit, TypeInv, StepInv, SaveSteps
  <2>2. records' = records /\ Snapshot(c, records', lock)
    BY <1>4 DEF Edit, EditRecord, Snapshot, BeginSave
  <2>3. PromiseInv' /\ SoloInv' /\ FileInv' /\ ImportInv'
    BY <1>1, <1>4, <2>1, <2>2, SnapshotSafe DEF Edit
  <2>4. MemoryInv'
    BY <1>1, <1>4, <2>1, <2>2 DEF Edit, SafeInv, MemoryInv
  <2> QED BY <2>3, <2>4 DEF SafeInv
<1> QED BY <1>2, <1>3, <1>4

\* A backup ends the promises that it does not keep, and what requests were about
\* to promise; the old file holds until its save ends.
LEMMA ImportSafe ==
  ASSUME TypeInv, SafeInv, NEW c \in Callers, NEW list \in Backups, ImportBackup(c, list)
  PROVE  SafeInv'
<1> USE PersistenceAssumption
<1>1. /\ step \in [Callers -> Steps] /\ on \in [Callers -> Ids \union {NoId}]
      /\ fate \in [Ids -> {"none", "kept", "gone"}]
      /\ saveAt \in [Callers -> {"no", "open", "write", "rename"}]
      /\ snap \in [Callers -> IdLists]
      /\ step[c] = "idle" /\ on[c] = NoId /\ ~Saving(c)
  BY DEF TypeInv, TypeOK, RequestTypeOK, HistoryTypeOK, RecordsTypeOK, StepInv, SaveSteps,
     Requesting, ImportBackup
<1>2. /\ records' = list /\ MeetSaves(c)
      /\ saveAt' = [saveAt EXCEPT ![c] = "open"] /\ snap' = [snap EXCEPT ![c] = list]
      /\ fd' = fd /\ tmpFile' = tmpFile /\ recFile' = recFile
      /\ step' = [step EXCEPT ![c] = "saveImport"] /\ on' = on
      /\ crossed' = crossed \union {i \in Ids : \E d \in Callers : on[d] = i}
      /\ fate' = [i \in Ids |-> IF fate[i] = (IF i \in Range(list) THEN "kept" ELSE "gone")
                                  THEN fate[i] ELSE "none"]
  BY DEF ImportBackup, ReplaceRecords, Snapshot, BeginSave, fileVars
<1>3. PromiseInv'
  BY <1>1, <1>2 DEF SafeInv, PromiseInv
<1>4. MemoryInv'
  <2>1. \A d \in Callers : step'[d] \in {"saveAdd", "saveDrop"} => on'[d] \in crossed'
    BY <1>1, <1>2 DEF TypeInv, StepInv, Requesting
  <2> QED BY <1>1, <1>2, <2>1 DEF MemoryInv
<1>5. SoloInv'
  BY <1>1, <1>2 DEF SoloInv, MeetSaves, Saving
<1>6. FileInv'
  BY <1>1, <1>2 DEF FileInv, Saving
<1>7. ImportInv'
  <2>1. RecordsSurvive
    BY SafeImpliesSurvive
  <2>2. ~overlapped' => ~overlapped
    BY <1>2 DEF MeetSaves
  <2> QED BY <1>1, <1>2, <2>1, <2>2 DEF ImportInv, RecordsSurvive, OnFile
<1> QED BY <1>3, <1>4, <1>5, <1>6, <1>7 DEF SafeInv

\* A save that is alone finds its temporary file as it left it.
LEMMA SaveStepSafe ==
  ASSUME TypeInv, SafeInv, NEW c \in Callers, SaveStep(c)
  PROVE  SafeInv'
<1>1. /\ Saving(c) /\ saveAt' = [saveAt EXCEPT ![c] = saveAt'[c]] /\ saveAt'[c] # "no"
      /\ records' = records /\ snap' = snap
      /\ UNCHANGED <<on, step, crossed, fate, solo, overlapped>>
      /\ saveAt \in [Callers -> {"no", "open", "write", "rename"}]
  BY DEF SaveStep, OpenTmp, OpenFile, WriteTmp, WriteFile, Saving, requestVars, historyVars, TypeInv, TypeOK,
     RecordsTypeOK
<1>2. PromiseInv' /\ MemoryInv'
  BY <1>1 DEF SafeInv, PromiseInv, MemoryInv
<1>3. \A d \in Callers : solo[d] => d = c
  BY <1>1 DEF SafeInv, SoloInv
<1>4. \A d \in Callers : Saving(d)' <=> Saving(d)
  BY <1>1 DEF Saving
<1>5. fd \in [Callers -> {"none", "tmp", "rec", "gone"}]
  BY DEF TypeInv, TypeOK, RecordsTypeOK
<1>6. solo[c] => /\ recFile' = recFile
                 /\ saveAt'[c] = "write" => tmpFile' = Empty /\ fd'[c] = "tmp"
                 /\ saveAt'[c] = "rename" => tmpFile' = snap[c]
  <2> SUFFICES ASSUME solo[c]
               PROVE  /\ recFile' = recFile
                      /\ saveAt'[c] = "write" => tmpFile' = Empty /\ fd'[c] = "tmp"
                      /\ saveAt'[c] = "rename" => tmpFile' = snap[c]
    OBVIOUS
  <2>1. CASE OpenTmp(c)
    BY <2>1, <1>1, <1>5 DEF OpenTmp, OpenFile
  <2>2. CASE WriteTmp(c)
    <3>1. tmpFile = Empty /\ fd[c] = "tmp"
      BY <2>2 DEF WriteTmp, WriteFile, SafeInv, SoloInv
    <3>2. Over(Empty, snap[c]) = {snap[c]}
      BY DEF Over
    <3> QED BY <2>2, <3>1, <3>2, <1>1 DEF WriteTmp, WriteFile
  <2> QED BY <2>1, <2>2 DEF SaveStep
<1>7. SoloInv'
  <2>1. \A d \in Callers : solo'[d] =>
          /\ Saving(d)' /\ \A x \in Callers : Saving(x)' => x = d
          /\ snap'[d] = records'
          /\ saveAt'[d] = "write" => tmpFile' = Empty /\ fd'[d] = "tmp"
          /\ saveAt'[d] = "rename" => tmpFile' = snap'[d]
    BY <1>1, <1>3, <1>4, <1>6 DEF SafeInv, SoloInv
  <2>2. ~overlapped' => \A d \in Callers : Saving(d)' => solo'[d]
    BY <1>1, <1>4 DEF SafeInv, SoloInv
  <2> QED BY <2>1, <2>2 DEF SoloInv
<1>8. FileInv'
  <2>1. ~overlapped => recFile' = recFile
    BY <1>1, <1>6 DEF SafeInv, SoloInv
  <2> QED BY <1>1, <1>4, <2>1 DEF SafeInv, FileInv, OnFile
<1>9. ImportInv'
  <2>1. ~overlapped => recFile' = recFile
    BY <1>1, <1>6 DEF SafeInv, SoloInv
  <2> QED BY <1>1, <2>1 DEF SafeInv, ImportInv, RecordsSurvive, OnFile
<1> QED BY <1>2, <1>7, <1>8, <1>9 DEF SafeInv

\* The end of a save that was alone leaves the file as the memory is; then the
\* promise of its answer holds.
LEMMA SaveEndSafe ==
  ASSUME TypeInv, SafeInv, NEW c \in Callers, SaveEnd(c)
  PROVE  SafeInv'
<1>1. /\ saveAt[c] = "rename" /\ Saving(c)
      /\ saveAt' = [saveAt EXCEPT ![c] = "no"] /\ snap' = [snap EXCEPT ![c] = <<>>]
      /\ step' = [step EXCEPT ![c] = "idle"] /\ on' = [on EXCEPT ![c] = NoId]
      /\ solo' = [solo EXCEPT ![c] = FALSE] /\ overlapped' = (overlapped /\ ~solo[c])
      /\ records' = records /\ crossed' = crossed
  BY DEF SaveEnd, RenameTmp, RenameFile, Answer, Saving
<1>2. fate' = CASE step[c] = "saveAdd"  -> [fate EXCEPT ![on[c]] = "kept"]
                [] step[c] = "saveDrop" -> [fate EXCEPT ![on[c]] = "gone"]
                [] step[c] = "saveImport" ->
                     [i \in Ids |-> IF i \in Range(records) /\ \A d \in Callers : on[d] # i
                                    THEN "kept" ELSE fate[i]]
                [] OTHER                -> fate
  BY DEF SaveEnd
<1>3. /\ step \in [Callers -> Steps] /\ on \in [Callers -> Ids \union {NoId}]
      /\ fate \in [Ids -> {"none", "kept", "gone"}] /\ solo \in [Callers -> BOOLEAN]
      /\ saveAt \in [Callers -> {"no", "open", "write", "rename"}]
      /\ NoId \notin Ids
  BY PersistenceAssumption DEF TypeInv, TypeOK, RequestTypeOK, HistoryTypeOK, RecordsTypeOK
<1>4. step[c] \in {"saveAdd", "saveDrop"} => on[c] \in Ids
  BY <1>3 DEF TypeInv, StepInv, Requesting
<1>5. step[c] \in SaveSteps
  BY <1>1 DEF TypeInv, StepInv
<1>6. PromiseInv'
  <2>1. ASSUME NEW d \in Callers, on'[d] # NoId, on'[d] \notin crossed
        PROVE  fate'[on'[d]] = "none"
    <3>1. d # c /\ on'[d] = on[d] /\ on[d] \in Ids /\ on[d] # on[c]
      BY <2>1, <1>1, <1>3 DEF SafeInv, PromiseInv
    <3>2. fate[on[d]] = "none"
      BY <2>1, <3>1 DEF SafeInv, PromiseInv
    <3> QED BY <3>1, <3>2, <1>2, <1>3
  <2> QED BY <2>1, <1>1, <1>3 DEF SafeInv, PromiseInv
<1>7. MemoryInv'
  <2>1. ASSUME NEW id \in Ids \ crossed
        PROVE  /\ fate'[id] = "kept" => id \in Range(records)
               /\ fate'[id] = "gone" => id \notin Range(records)
    <3>1. CASE step[c] = "saveAdd"
      <4>1. fate' = [fate EXCEPT ![on[c]] = "kept"]
        BY <3>1, <1>2
      <4> QED BY <3>1, <4>1, <1>3 DEF SafeInv, MemoryInv
    <3>2. CASE step[c] = "saveDrop"
      <4>1. fate' = [fate EXCEPT ![on[c]] = "gone"]
        BY <3>2, <1>2
      <4> QED BY <3>2, <4>1, <1>3 DEF SafeInv, MemoryInv
    <3>3. CASE step[c] = "saveEdit"
      <4>1. fate' = fate
        BY <3>3, <1>2
      <4> QED BY <4>1 DEF SafeInv, MemoryInv
    <3>4. CASE step[c] = "saveImport"
      <4>1. fate' = [i \in Ids |-> IF i \in Range(records) /\ \A d \in Callers : on[d] # i
                                   THEN "kept" ELSE fate[i]]
        BY <3>4, <1>2
      <4> QED BY <4>1 DEF SafeInv, MemoryInv
    <3> QED BY <3>1, <3>2, <3>3, <3>4, <1>5 DEF SaveSteps
  <2>2. \A d \in Callers : on'[d] \notin crossed =>
          /\ step'[d] = "saveAdd" => on'[d] \in Range(records)
          /\ step'[d] = "saveDrop" => on'[d] \notin Range(records)
    BY <1>1, <1>3 DEF SafeInv, MemoryInv
  <2> QED BY <2>1, <2>2, <1>1 DEF MemoryInv
<1>8. \A d \in Callers : solo[d] => d = c
  BY <1>1 DEF SafeInv, SoloInv
<1>9. \A d \in Callers : Saving(d)' <=> Saving(d) /\ d # c
  BY <1>1, <1>3 DEF Saving
<1>10. SoloInv'
  <2>1. \A d \in Callers : ~solo'[d]
    BY <1>1, <1>3, <1>8
  <2>2. ASSUME ~overlapped', NEW d \in Callers, Saving(d)'
        PROVE  FALSE
    <3>1. d # c /\ Saving(d)
      BY <2>2, <1>9
    <3>2. solo[c]
      BY <2>2, <1>1 DEF SafeInv, SoloInv
    <3> QED BY <3>1, <3>2 DEF SafeInv, SoloInv
  <2> QED BY <2>1, <2>2 DEF SoloInv
<1>11. FileInv'
  <2> SUFFICES ASSUME ~overlapped' PROVE \A id \in Ids : id \in OnFile' <=> id \in Range(records')
    BY DEF FileInv
  <2>1. solo[c]
    BY <1>1 DEF SafeInv, SoloInv
  <2>2. tmpFile = records
    BY <2>1, <1>1 DEF SafeInv, SoloInv
  <2>3. records \in Seq(Ids)
    BY DEF TypeInv, TypeOK, RecordsTypeOK, IdLists
  <2>4. tmpFile # NoFile /\ recFile' = records
    BY <2>2, <2>3, RecordsAssumption DEF SaveEnd, RenameTmp, RenameFile
  <2>5. Load(recFile)' = records
    BY <2>3, <2>4, RecordsAssumption DEF Load
  <2> QED BY <2>5, <1>1 DEF OnFile
<1>12. ImportInv'
  <2> SUFFICES ASSUME NEW d \in Callers, step'[d] = "saveImport", ~overlapped' PROVE FALSE
    BY DEF ImportInv, RecordsSurvive
  <2>1. d # c /\ Saving(d)
    BY <1>1, <1>3 DEF TypeInv, StepInv, SaveSteps
  <2>2. solo[c]
    BY <1>1 DEF SafeInv, SoloInv
  <2> QED BY <2>1, <2>2 DEF SafeInv, SoloInv
<1> QED BY <1>6, <1>7, <1>10, <1>11, <1>12 DEF SafeInv

\* Steps that leave records, files and saves alone and promise nothing new.
LEMMA QuietSafe ==
  ASSUME TypeInv, SafeInv, crossed' = crossed, solo' = solo, overlapped' = overlapped,
         UNCHANGED <<records, snap, saveAt, fd, tmpFile, recFile>>,
         \A id \in Ids : fate'[id] \in {"none", fate[id]},
         \A c \in Callers : on'[c] \in {NoId, on[c]} /\ (Saving(c) => on'[c] = on[c]),
         \A c \in Callers : step'[c] \in {"saveAdd", "saveDrop"} =>
                              step'[c] = step[c] /\ on'[c] = on[c],
         \A c \in Callers : step'[c] = "saveImport" <=> step[c] = "saveImport"
  PROVE  SafeInv'
<1>1. \A c \in Callers : on[c] \in Ids \union {NoId}
  BY DEF TypeInv, TypeOK, RequestTypeOK
<1>2. PromiseInv'
  BY <1>1 DEF SafeInv, PromiseInv
<1>3. MemoryInv'
  BY DEF SafeInv, MemoryInv
<1>4. SoloInv'
  BY DEF SafeInv, SoloInv, Saving
<1>5. FileInv'
  BY DEF SafeInv, FileInv, OnFile, Saving
<1>6. ImportInv'
  BY DEF SafeInv, ImportInv, RecordsSurvive, OnFile, TypeInv, TypeOK, HistoryTypeOK
<1> QED BY <1>2, <1>3, <1>4, <1>5, <1>6 DEF SafeInv

LEMMA TrashStepSafe ==
  ASSUME TypeInv, SafeInv, NEW c \in Callers,
         \/ DeleteMove(c) \/ DeleteLoad(c) \/ DeleteList(c)
         \/ DeleteOutright(c) \/ DeleteFails(c)
         \/ (\E kept \in SUBSET listed : EmptyAll(c, kept)) \/ EmptyEnd(c)
  PROVE  SafeInv'
<1> USE DEF DeleteMove, DeleteLoad, DeleteList, DeleteOutright, DeleteFails, EmptyAll, EmptyEnd
<1>1. /\ step \in [Callers -> Steps] /\ on \in [Callers -> Ids \union {NoId}]
      /\ ~Saving(c) /\ step[c] # "saveImport"
  BY DEF TypeInv, TypeOK, RequestTypeOK, StepInv, SaveSteps
<1>2. /\ UNCHANGED <<crossed, solo, overlapped, fate>>
      /\ UNCHANGED <<records, snap, saveAt, fd, tmpFile, recFile>>
  BY DEF historyVars, recordsVars, saveVars, fileVars
<1>3. /\ step' = [step EXCEPT ![c] = step'[c]]
      /\ step'[c] \in {"idle", "load", "list", "drop", "empty"}
      /\ on' \in {on, [on EXCEPT ![c] = NoId]}
  BY <1>1 DEF GoTo, Answer
<1> QED BY <1>1, <1>2, <1>3, QuietSafe

LEMMA OtherSafe ==
  ASSUME TypeInv, SafeInv,
         \/ \E id \in Ids : WatchAdd(id)
         \/ RestoreNext \/ RestoreFails
         \/ \E added \in BOOLEAN : ImportNext(added)
         \/ (\E expired \in SUBSET listed : Purge(expired)) \/ PurgeEnd
         \/ UNCHANGED vars
  PROVE  SafeInv'
<1>1. /\ UNCHANGED <<crossed, solo, overlapped, step, on>>
      /\ UNCHANGED <<records, snap, saveAt, fd, tmpFile, recFile>>
  BY DEF WatchAdd, RestoreNext, RestoreFails, ImportNext, Purge, PurgeEnd, BootNext, vars, historyVars, requestVars,
     recordsVars, saveVars, fileVars
<1>2. \A id \in Ids : fate'[id] \in {"none", fate[id]}
  BY DEF WatchAdd, RestoreNext, RestoreFails, ImportNext, Purge, PurgeEnd, vars, historyVars, TypeInv,
     TypeOK, HistoryTypeOK
<1> QED BY <1>1, <1>2, QuietSafe

\* After a restart the list in memory is what the file held.
LEMMA RestartSafe ==
  ASSUME TypeInv, SafeInv, Restart
  PROVE  SafeInv'
<1>1. /\ records' = Load(recFile) /\ recFile' = recFile
      /\ \A c \in Callers : ~Saving(c)' /\ step'[c] = "idle" /\ on'[c] = NoId /\ ~solo'[c]
      /\ crossed' = {}
      /\ fate' = [i \in Ids |-> IF overlapped \/ i \in crossed THEN "none" ELSE fate[i]]
  BY DEF Restart, ReloadRecords, ForgetSaves, fileVars, Saving
<1>2. RecordsSurvive
  BY SafeImpliesSurvive
<1>3. PromiseInv' /\ SoloInv' /\ ImportInv'
  BY <1>1 DEF PromiseInv, SoloInv, ImportInv
<1>4. MemoryInv'
  BY <1>1, <1>2 DEF MemoryInv, RecordsSurvive, OnFile
<1>5. FileInv'
  BY <1>1 DEF FileInv, OnFile
<1> QED BY <1>3, <1>4, <1>5 DEF SafeInv

LEMMA NextSafe == TypeInv /\ SafeInv /\ [Next]_vars => SafeInv'
BY BeginSafe, SnapSafe, ImportSafe, SaveStepSafe, SaveEndSafe, TrashStepSafe, OtherSafe, RestartSafe DEF Next

\* At every moment, so after a crash between any two steps of a save too, the
\* record file has the torrents whose addition was answered and not those whose
\* removal was, unless saves or requests on one torrent met (web/persist.go).
THEOREM AnsweredRequestsSurvive == Spec => []RecordsSurvive
<1>1. Spec => []TypeInv
  BY InitType, NextType, PTL DEF Spec
<1>2. Spec => [](TypeInv /\ SafeInv)
  BY <1>1, InitSafe, NextSafe, PTL DEF Spec
<1> QED BY <1>2, SafeImpliesSurvive, PTL

-----------------------------------------------------------------------------
(* The trash.                                                              *)

LEMMA InitTrash == Init => TrashInv
BY TrashAssumption, PersistenceAssumption DEF Init, TrashInit, TrashInv

\* Steps that leave the trash alone.
LEMMA TrashAlone ==
  ASSUME TrashInv, UNCHANGED trashVars, orphans' = orphans,
         \A c \in Callers : \A s \in {"load", "list", "empty"} : step'[c] = s <=> step[c] = s
  PROVE  TrashInv'
BY DEF TrashInv, trashVars

LEMMA NextTrash == TypeInv /\ TrashInv /\ [Next]_vars => TrashInv'
<1> SUFFICES ASSUME TypeInv, TrashInv, [Next]_vars PROVE TrashInv'
  OBVIOUS
<1> USE PersistenceAssumption, TrashAssumption
<1>1. /\ step \in [Callers -> Steps] /\ loaded \in [Lockers -> SUBSET Dirs]
      /\ Lockers = Callers \union {Purger} /\ Purger # NoCaller
  BY DEF TypeInv, TypeOK, RequestTypeOK, TrashTypeOK, Lockers, Purger, NoCaller
<1>2. ASSUME NEW c \in Callers,
             \/ \E id \in Ids : \/ Add(c, id) \/ Delete(c, id)
                                \/ \E remove \in BOOLEAN : GoalReached(c, id, remove)
                                \/ \E lock \in BOOLEAN : Edit(c, id, lock)
             \/ \E list \in Backups : ImportBackup(c, list)
             \/ AddPersist(c) \/ Drop(c) \/ SaveEnd(c) \/ DeleteOutright(c) \/ DeleteFails(c)
      PROVE  TrashInv'
  <2>1. /\ UNCHANGED trashVars /\ orphans' = orphans
        /\ step' = [step EXCEPT ![c] = step'[c]]
        /\ step[c] \notin {"load", "list", "empty"} /\ step'[c] \notin {"load", "list", "empty"}
    BY <1>1, <1>2 DEF Add, Delete, GoalReached, Edit, ImportBackup, AddPersist, Drop, SaveEnd, DeleteOutright,
       DeleteFails, Begin, GoTo, Answer, historyVars, TypeInv, StepInv, SaveSteps, Saving, RenameTmp, RenameFile
  <2> QED BY <1>1, <2>1, TrashAlone
<1>3. ASSUME NEW c \in Callers, SaveStep(c)
      PROVE  TrashInv'
  BY <1>3, TrashAlone DEF SaveStep, requestVars, historyVars
<1>4. CASE \/ (\E id \in Ids : WatchAdd(id)) \/ RestoreNext \/ RestoreFails
           \/ (\E added \in BOOLEAN : ImportNext(added)) \/ UNCHANGED vars
  BY <1>4, TrashAlone DEF WatchAdd, RestoreNext, RestoreFails, ImportNext, vars, requestVars, historyVars
<1>5. ASSUME NEW c \in Callers, DeleteMove(c)
      PROVE  TrashInv'
  BY <1>1, <1>5 DEF DeleteMove, TrashMove, GoTo, TrashInv, historyVars
<1>6. ASSUME NEW c \in Callers, DeleteLoad(c)
      PROVE  TrashInv'
  BY <1>1, <1>6 DEF DeleteLoad, TrashLoad, GoTo, TrashInv, historyVars
<1>7. ASSUME NEW c \in Callers, DeleteList(c) \/ EmptyEnd(c)
      PROVE  TrashInv'
  BY <1>1, <1>7 DEF DeleteList, EmptyEnd, TrashSave, GoTo, Answer, TrashInv, historyVars
<1>8. ASSUME NEW c \in Callers, NEW kept \in SUBSET listed, EmptyAll(c, kept)
      PROVE  TrashInv'
  BY <1>1, <1>8 DEF EmptyAll, EmptyTrash, TrashInv, historyVars
<1>9. ASSUME NEW expired \in SUBSET listed, Purge(expired)
      PROVE  TrashInv'
  BY <1>1, <1>9 DEF Purge, PurgeTrash, TrashInv, requestVars, historyVars
<1>10. CASE PurgeEnd
  BY <1>1, <1>10 DEF PurgeEnd, TrashSave, TrashInv, requestVars, historyVars
<1>11. CASE Restart
  BY <1>1, <1>11 DEF Restart, ReloadTrash, TrashInv
<1> QED BY <1>2, <1>3, <1>4, <1>5, <1>6, <1>7, <1>8, <1>9, <1>10, <1>11 DEF Next

\* trash.json lists every directory of the trash, so that a purge finds it,
\* unless the process died between its move and the save of the list
\* (trashOrRemove, torrente/automation.go).
THEOREM TrashKeepsTrack == Spec => []TrashListed
<1>1. Spec => []TypeInv
  BY InitType, NextType, PTL DEF Spec
<1>2. Spec => []TrashInv
  BY <1>1, InitTrash, NextTrash, PTL DEF Spec
<1>3. TrashInv => TrashListed
  BY DEF TrashInv, TrashListed
<1> QED BY <1>2, <1>3, PTL

-----------------------------------------------------------------------------
(* The records and the table.                                              *)

Removal == {"trash", "load", "list", "drop"}
Good    == Ids \ (crossed \union unmatched)

\* A torrent is on record when it runs or is about to, but for what the one
\* request on it has still to do.
Matched(id) ==
  /\ \A c, d \in Callers : on[c] = id /\ on[d] = id => c = d
  /\ \A c \in Callers : on[c] = id =>
       /\ step[c] = "persist" => id \in running
       /\ step[c] \in Removal => id \notin running \union StillToAdd
  /\ (\A c \in Callers : on[c] = id => step[c] \notin {"persist"} \union Removal) =>
       (id \in Range(records) <=> id \in running \union StillToAdd)

\* The array that restoreRecords walks is that of the records, and what the
\* walk would find behind them is spoilt.
ArrayInv ==
  aliased => \A i \in DOMAIN boot :
    IF i <= Len(records) THEN boot[i] = records[i]
                         ELSE i >= bootAt => boot[i] \in crossed \union unmatched

MatchInv == (\A id \in Good : Matched(id)) /\ ArrayInv

LEMMA ArrayTyped ==
  ASSUME TypeInv
  PROVE  /\ RecordsTypeOK /\ boot \in Seq(Ids) /\ Len(boot) \in Nat /\ DOMAIN boot = 1 .. Len(boot)
         /\ bootAt \in Nat /\ records \in IdLists /\ records \in Seq(Ids) /\ IsInjective(records)
         /\ Len(records) \in Nat /\ DOMAIN records = 1 .. Len(records)
         /\ StillToBoot = {boot[i] : i \in bootAt .. Len(boot)} /\ bootAt >= 1
BY DEF TypeInv, TypeOK, RecordsTypeOK, IdLists, StillToBoot

\* A step that is not about this torrent, or takes its request on without adding
\* or dropping the record.
LEMMA MatchedKept ==
  ASSUME NEW id \in Ids, Matched(id),
         \A c \in Callers : on'[c] = id => on[c] = id,
         \A c \in Callers : on'[c] = id =>
           \/ step'[c] = step[c]
           \/ step[c] \in Removal /\ step'[c] \in Removal
           \/ step[c] \notin {"persist"} \union Removal /\ step'[c] \notin {"persist"} \union Removal,
         \A c \in Callers : on[c] = id /\ step[c] \in {"persist"} \union Removal => on'[c] = id,
         id \in Range(records') <=> id \in Range(records),
         id \in running' \union StillToAdd' <=> id \in running \union StillToAdd,
         id \in running => id \in running'
  PROVE  Matched(id)'
BY DEF Matched, Removal

\* The walk goes on: the torrent it leaves is added, or spoilt.
LEMMA WalkedOn ==
  ASSUME TypeInv, ArrayInv, BootNext, crossed \subseteq crossed', unmatched \subseteq unmatched'
  PROVE  /\ boot[bootAt] \in StillToBoot /\ StillToBoot = StillToBoot' \union {boot[bootAt]}
         /\ ArrayInv'
<1>1. /\ Len(boot) \in Nat /\ bootAt \in Nat /\ bootAt <= Len(boot) /\ records' = records
      /\ DOMAIN boot = 1 .. Len(boot) /\ StillToBoot = {boot[i] : i \in bootAt .. Len(boot)}
  BY ArrayTyped DEF BootNext, Restoring
<1>2. CASE bootAt = Len(boot)
  <2>1. boot' = <<>> /\ aliased' = FALSE /\ bootAt' = 1
    BY <1>2 DEF BootNext
  <2>2. StillToBoot' = {} /\ StillToBoot = {boot[bootAt]}
    BY <1>1, <1>2, <2>1 DEF StillToBoot
  <2> QED BY <2>1, <2>2 DEF ArrayInv
<1>3. CASE bootAt # Len(boot)
  <2>1. boot' = boot /\ aliased' = aliased /\ bootAt' = bootAt + 1
    BY <1>3 DEF BootNext
  <2>2. StillToBoot' = {boot[i] : i \in bootAt + 1 .. Len(boot)}
    BY <2>1 DEF StillToBoot
  <2>3. bootAt .. Len(boot) = {bootAt} \union (bootAt + 1 .. Len(boot))
    BY <1>1
  <2>4. StillToBoot = StillToBoot' \union {boot[bootAt]}
    BY <1>1, <2>2, <2>3
  <2>5. \A i \in DOMAIN boot : i >= bootAt + 1 => i >= bootAt
    BY <1>1
  <2> QED BY <1>1, <2>1, <2>4, <2>5 DEF ArrayInv
<1> QED BY <1>2, <1>3

\* A record more: of what the walk had before it, only what was spoilt is lost.
LEMMA PersistArray ==
  ASSUME TypeInv, ArrayInv, NEW c \in Callers, NEW id \in Ids, PersistRecord(c, id),
         crossed' = crossed, unmatched' = unmatched
  PROVE  /\ ArrayInv'
         /\ \A j \in Ids \ (crossed \union unmatched) :
              j # id => (j \in StillToBoot' <=> j \in StillToBoot)
<1> DEFINE list == IF id \in Range(records) THEN records ELSE Append(records, id)
           n == Len(boot)
           k == Len(records)
<1>1. /\ boot \in Seq(Ids) /\ n \in Nat /\ k \in Nat /\ bootAt \in Nat /\ bootAt >= 1
      /\ records \in Seq(Ids) /\ StillToBoot = {boot[i] : i \in bootAt .. n}
  BY ArrayTyped
<1>2. /\ records' = list /\ boot' = Compacted(list) /\ bootAt' = bootAt
      /\ aliased' => aliased
  BY DEF PersistRecord, Snapshot, TypeInv, TypeOK, RecordsTypeOK
<1>3. CASE ~aliased
  <2>1. boot' = boot /\ ~aliased'
    BY <1>2, <1>3 DEF Compacted
  <2> QED BY <1>2, <2>1 DEF ArrayInv, StillToBoot
<1>4. CASE aliased
  <2>1. boot' = [i \in 1 .. n |-> IF i <= Len(list) THEN list[i] ELSE boot[i]]
    BY <1>2, <1>4 DEF Compacted
  <2>2. /\ Len(list) \in {k, k + 1} /\ (Len(list) = k + 1 => list[k + 1] = id)
        /\ \A i \in 1 .. k : list[i] = records[i]
    BY <1>1
  <2> HIDE DEF list
  <2>3. Len(boot') = n /\ DOMAIN boot' = 1 .. n
    BY <1>1, <2>1
  <2>4. ASSUME NEW i \in 1 .. n
        PROVE  /\ i <= k => boot'[i] = records[i] /\ boot[i] = records[i]
               /\ i > k + 1 => boot'[i] = boot[i]
               /\ i = k + 1 => boot'[i] \in {id, boot[i]}
               /\ i > k /\ i >= bootAt => boot[i] \in crossed \union unmatched
    BY <1>1, <1>4, <2>1, <2>2 DEF ArrayInv
  <2>5. ArrayInv'
    <3> SUFFICES ASSUME NEW i \in 1 .. n
                 PROVE  IF i <= Len(list) THEN boot'[i] = list[i]
                        ELSE i >= bootAt => boot'[i] \in crossed \union unmatched
      BY <1>2, <2>3 DEF ArrayInv
    <3>1. CASE i <= Len(list)
      BY <2>1, <3>1
    <3>2. CASE ~(i <= Len(list))
      <4>1. boot'[i] = boot[i] /\ i > k
        BY <1>1, <2>1, <2>2, <3>2
      <4> QED BY <2>4, <3>2, <4>1
    <3> QED BY <3>1, <3>2
  <2>6. StillToBoot' = {boot'[i] : i \in bootAt .. n}
    BY <1>2, <2>3 DEF StillToBoot
  <2>7. ASSUME NEW j \in Ids \ (crossed \union unmatched), j # id, NEW i \in bootAt .. n
        PROVE  boot'[i] = j <=> boot[i] = j
    <3>1. i \in 1 .. n /\ i \in Nat /\ i >= bootAt
      BY <1>1
    <3>2. CASE i <= k
      BY <2>4, <3>1, <3>2
    <3>3. CASE i > k + 1
      BY <2>4, <3>1, <3>3
    <3>4. CASE i = k + 1
      BY <1>1, <2>4, <2>7, <3>1, <3>4
    <3> QED BY <1>1, <3>1, <3>2, <3>3, <3>4
  <2>8. \A j \in Ids \ (crossed \union unmatched) :
              j # id => (j \in StillToBoot' <=> j \in StillToBoot)
    BY <1>1, <2>6, <2>7
  <2> QED BY <2>5, <2>8
<1> QED BY <1>3, <1>4

\* A record less: if that moves elements of the array, all that the walk had or
\* has before it is spoilt; else it was the last record, or the walk has passed it.
LEMMA DropArray ==
  ASSUME TypeInv, ArrayInv, NEW c \in Callers, NEW id \in Ids, DropRecord(c, id),
         id \in StillToBoot => id \in crossed \union unmatched,
         crossed' = crossed,
         unmatched' = IF boot' # boot THEN unmatched \union StillToBoot \union StillToBoot'
                      ELSE unmatched
  PROVE  /\ ArrayInv'
         /\ \A j \in Ids \ (crossed \union unmatched') : j \in StillToBoot' <=> j \in StillToBoot
<1> DEFINE list == Without(records, id)
           n == Len(boot)
           k == Len(records)
<1>1. /\ boot \in Seq(Ids) /\ n \in Nat /\ k \in Nat /\ bootAt \in Nat /\ bootAt >= 1
      /\ records \in Seq(Ids) /\ records \in IdLists /\ StillToBoot = {boot[i] : i \in bootAt .. n}
      /\ IsInjective(records) /\ DOMAIN records = 1 .. k
  BY ArrayTyped
<1>2. /\ records' = list /\ boot' = Compacted(list) /\ bootAt' = bootAt /\ aliased' = aliased
  BY DEF DropRecord, Snapshot
<1>3. list \in IdLists /\ Range(list) = Range(records) \ {id}
  BY <1>1, WithoutOne
<1>4. list = records \/ Len(list) = k - 1
  <2>1. CASE id \notin Range(records)
    BY <2>1 DEF Without
  <2>2. CASE id \in Range(records)
    <3> DEFINE at   == CHOOSE i \in 1 .. k : records[i] = id
               less == [i \in 1 .. k - 1 |-> IF i < at THEN records[i] ELSE records[i + 1]]
    <3>1. list = less
      BY <2>2 DEF Without
    <3>2. at \in 1 .. k
      BY <1>1, <2>2 DEF Range
    <3> HIDE DEF at
    <3>3. k - 1 \in Nat /\ less \in Seq(Ids)
      BY <1>1, <3>2
    <3> QED BY <3>1, <3>3
  <2> QED BY <2>1, <2>2
<1> HIDE DEF list
<1>5. list \in Seq(Ids) /\ Len(list) \in Nat /\ DOMAIN list = 1 .. Len(list)
  BY <1>3 DEF IdLists
<1>6. CASE ~aliased
  <2>1. boot' = boot
    BY <1>2, <1>6 DEF Compacted
  <2> QED BY <1>2, <1>6, <2>1 DEF ArrayInv, StillToBoot
<1>7. CASE aliased
  <2>1. boot' = [i \in 1 .. n |-> IF i <= Len(list) THEN list[i] ELSE boot[i]]
    BY <1>2, <1>7 DEF Compacted
  <2>2. Len(boot') = n /\ DOMAIN boot' = 1 .. n /\ \A i \in 1 .. n : i <= Len(list) => boot'[i] = list[i]
    BY <1>1, <2>1
  <2>3. StillToBoot' = {boot'[i] : i \in bootAt .. n}
    BY <1>2, <2>2 DEF StillToBoot
  <2>4. CASE boot' # boot
    <3>1. StillToBoot \union StillToBoot' \subseteq unmatched'
      BY <2>4
    <3>2. \A i \in 1 .. n : i >= bootAt => boot'[i] \in unmatched'
      <4> SUFFICES ASSUME NEW i \in 1 .. n, i >= bootAt PROVE boot'[i] \in StillToBoot'
        BY <3>1
      <4>1. i \in bootAt .. n
        BY <1>1
      <4> QED BY <2>3, <4>1
    <3>3. ArrayInv'
      BY <1>2, <2>2, <3>2 DEF ArrayInv
    <3> QED BY <3>1, <3>3
  <2>5. CASE boot' = boot
    <3>1. ASSUME NEW i \in 1 .. n, ~(i <= Len(list)), i >= bootAt
          PROVE  boot[i] \in crossed \union unmatched
      <4>1. CASE i > k
        BY <1>1, <1>7, <3>1, <4>1 DEF ArrayInv
      <4>2. CASE i <= k
        <5>1. Len(list) \in {k, k - 1} /\ k \in Nat /\ n \in Nat /\ i \in 1 .. n
          BY <1>1, <1>4
        <5>2. i = k /\ Len(list) = k - 1 /\ i \in 1 .. k
          <6> HIDE DEF n, k
          <6> QED BY <5>1, <3>1, <4>2
        <5>3. boot[i] = records[i] /\ records[i] \in Range(records)
          BY <1>1, <1>7, <4>2, <5>2 DEF ArrayInv, Range
        <5>4. ASSUME NEW m \in 1 .. k - 1 PROVE list[m] # records[k]
          <6>1. m \in 1 .. n /\ m \in 1 .. k /\ m # k /\ m <= Len(list) /\ m <= k
            <7> HIDE DEF n, k
            <7> QED BY <5>1, <5>2
          <6>2. list[m] = records[m]
            BY <1>1, <1>7, <2>2, <2>5, <6>1 DEF ArrayInv
          <6> QED BY <1>1, <5>2, <6>1, <6>2 DEF IsInjective
        <5>5. records[i] \notin Range(list)
          BY <1>5, <5>2, <5>4 DEF Range
        <5>6. boot[i] = id
          BY <1>3, <5>3, <5>5
        <5>7. boot[i] \in StillToBoot
          <6>1. i \in bootAt .. n
            BY <1>1, <3>1
          <6> QED BY <1>1, <6>1
        <5> QED BY <5>6, <5>7
      <4> QED BY <1>1, <4>1, <4>2
    <3>2. ArrayInv'
      BY <1>2, <2>2, <2>5, <3>1 DEF ArrayInv
    <3> QED BY <1>1, <2>3, <2>5, <3>2
  <2> QED BY <2>4, <2>5
<1> QED BY <1>6, <1>7


\* Where the torrents are that no request has spoilt.
LEMMA StillGood ==
  ASSUME MatchInv, crossed \subseteq crossed', unmatched \subseteq unmatched',
         NEW id \in Good'
  PROVE  id \in Good /\ id \in Ids /\ Matched(id)
BY DEF Good, MatchInv

\* Steps that leave the records, the array and the table alone, and are not about
\* adding or dropping a record.
LEMMA QuietMatch ==
  ASSUME TypeInv, MatchInv, UNCHANGED <<records, boot, bootAt, aliased, imported, running, crossed>>,
         unmatched \subseteq unmatched',
         \A c \in Callers : \/ on'[c] = on[c] /\ step'[c] = step[c]
                            \/ on'[c] = on[c] /\ step[c] \in Removal /\ step'[c] \in Removal
                            \/ /\ on'[c] \in {NoId, on[c]} /\ step[c] \notin {"persist"} \union Removal
                               /\ step'[c] \notin {"persist"} \union Removal
                            \/ on'[c] = NoId /\ on[c] \in unmatched'
  PROVE  MatchInv'
<1>1. StillToAdd' = StillToAdd
  BY DEF StillToAdd, StillToBoot
<1>2. ASSUME NEW id \in Good' PROVE Matched(id)'
  <2>1. id \in Ids /\ Matched(id) /\ id \notin unmatched' /\ id # NoId
    BY <1>2, StillGood, PersistenceAssumption DEF Good
  <2> QED BY <1>1, <2>1, MatchedKept
<1>3. ArrayInv'
  BY DEF MatchInv, ArrayInv
<1> QED BY <1>2, <1>3 DEF MatchInv

\* A request begins on a torrent that no other is about.
LEMMA BeginMatch ==
  ASSUME TypeInv, MatchInv, NEW c \in Callers, NEW id \in Ids,
         \/ Add(c, id) \/ Delete(c, id)
         \/ \E remove \in BOOLEAN : GoalReached(c, id, remove)
  PROVE  MatchInv'
<1>1. /\ step[c] = "idle" /\ on[c] = NoId /\ NoId \notin Ids
      /\ on' = [on EXCEPT ![c] = id] /\ step' = [step EXCEPT ![c] = step'[c]]
      /\ crossed' = crossed \union {i \in {id} : \E d \in Callers : on[d] = i}
      /\ UNCHANGED <<records, boot, bootAt, aliased, imported>>
      /\ on \in [Callers -> Ids \union {NoId}] /\ step \in [Callers -> Steps]
  BY PersistenceAssumption DEF TypeInv, TypeOK, RequestTypeOK, StepInv, Requesting, Add, Delete,
     GoalReached, Begin, recordsVars, bootVars
<1>2. /\ running' \in {running \union {id}, running \ {id}, running}
      /\ unmatched \subseteq unmatched' /\ crossed \subseteq crossed'
  BY <1>1 DEF Add, Delete, GoalReached
<1>3. StillToAdd' = StillToAdd /\ Range(records') = Range(records)
  BY <1>1 DEF StillToAdd, StillToBoot
<1>4. ASSUME NEW j \in Good', j # id PROVE Matched(j)'
  <2>1. j \in Ids /\ Matched(j)
    BY <1>2, StillGood
  <2>2. j \in running' <=> j \in running
    BY <1>2, <1>4
  <2>3. \A d \in Callers : on'[d] = j => d # c /\ on[d] = j /\ step'[d] = step[d]
    BY <1>1, <1>4
  <2>4. \A d \in Callers : on[d] = j => on'[d] = j
    BY <1>1, <2>1
  <2> QED BY <1>3, <2>1, <2>2, <2>3, <2>4, MatchedKept
<1>5. ASSUME id \in Good' PROVE Matched(id)'
  <2>1. \A d \in Callers : on[d] # id
    BY <1>1, <1>5 DEF Good
  <2>2. \A d \in Callers : on'[d] = id => d = c
    BY <1>1, <2>1
  <2>3. id \notin unmatched' /\ id \in Good' /\ Matched(id)
    BY <1>2, <1>5, StillGood DEF Good
  <2>4. CASE Add(c, id)
    <3>1. step'[c] = "persist" /\ id \in running'
      BY <1>1, <2>4 DEF Add, Begin
    <3> QED BY <1>1, <2>2, <3>1 DEF Matched, Removal
  <2>5. CASE Delete(c, id) \/ \E remove \in BOOLEAN : GoalReached(c, id, remove)
    <3>1. /\ step'[c] \in {"trash", "drop"} /\ running' = running \ {id}
          /\ id \notin StillToAdd
      BY <1>1, <2>3, <2>5 DEF Delete, GoalReached, Begin
    <3>2. on'[c] = id /\ id \notin running' \union StillToAdd'
      BY <1>1, <1>3, <3>1
    <3> QED BY <2>2, <3>1, <3>2 DEF Matched, Removal
  <2> QED BY <2>4, <2>5
<1>6. ArrayInv'
  BY <1>1, <1>2 DEF MatchInv, ArrayInv
<1> QED BY <1>4, <1>5, <1>6 DEF MatchInv

\* The request adds its record, or drops it.
LEMMA ChangeMatch ==
  ASSUME TypeInv, MatchInv, NEW c \in Callers, AddPersist(c) \/ Drop(c)
  PROVE  MatchInv'
<1>1. /\ step \in [Callers -> Steps] /\ on[c] \in Ids /\ step[c] \in {"persist", "drop"}
      /\ RecordsTypeOK
  BY DEF AddPersist, Drop, TypeInv, TypeOK, RequestTypeOK, StepInv, Requesting
<1>2. /\ on' = on /\ crossed' = crossed /\ running' = running /\ imported' = imported
      /\ step' = [step EXCEPT ![c] = step'[c]] /\ step'[c] \in {"saveAdd", "saveDrop"}
      /\ unmatched \subseteq unmatched'
  BY <1>1 DEF AddPersist, Drop, GoTo
<1>3. PICK id \in Ids : on[c] = id
  BY <1>1
<1>4. /\ ArrayInv'
      /\ \A j \in Ids \ (crossed \union unmatched') :
           j # id => (j \in StillToBoot' <=> j \in StillToBoot)
      /\ AddPersist(c) => Range(records') = Range(records) \union {id}
      /\ Drop(c) => /\ Range(records') = Range(records) \ {id}
                    /\ id \in Good' => id \notin StillToBoot'
  <2>1. CASE AddPersist(c)
    <3>1. PersistRecord(c, id) /\ unmatched' = unmatched /\ ~Drop(c)
      BY <1>3, <2>1 DEF AddPersist, Drop
    <3> QED BY <1>1, <1>2, <3>1, PersistArray, PersistType DEF MatchInv
  <2>2. CASE Drop(c)
    <3>1. /\ DropRecord(c, id) /\ ~AddPersist(c) /\ step[c] = "drop"
          /\ unmatched' = IF boot' # boot THEN unmatched \union StillToBoot \union StillToBoot'
                          ELSE unmatched
      BY <1>3, <2>2 DEF AddPersist, Drop
    <3>2. id \in StillToBoot => id \in crossed \union unmatched
      <4>1. id \in Good => id \notin StillToAdd
        BY <1>3, <3>1 DEF MatchInv, Matched, Removal
      <4> QED BY <4>1 DEF Good, StillToAdd
    <3>3. /\ ArrayInv'
          /\ \A j \in Ids \ (crossed \union unmatched') : j \in StillToBoot' <=> j \in StillToBoot
      BY <1>1, <1>2, <3>1, <3>2, DropArray DEF MatchInv
    <3>4. id \in Good' => id \notin StillToBoot'
      BY <1>2, <3>2, <3>3 DEF Good
    <3>5. Range(records') = Range(records) \ {id}
      BY <1>1, <3>1, DropType
    <3> QED BY <3>1, <3>3, <3>4, <3>5
  <2> QED BY <2>1, <2>2
<1>5. \A j \in Good' : j # id => (j \in Range(records') <=> j \in Range(records))
  BY <1>4
<1>6. \A j \in Good' : j # id => (j \in StillToAdd' <=> j \in StillToAdd)
  BY <1>2, <1>4 DEF StillToAdd, Good
<1>7. ASSUME NEW j \in Good', j # id PROVE Matched(j)'
  <2>1. j \in Ids /\ Matched(j)
    BY <1>2, StillGood
  <2>2. \A d \in Callers : on'[d] = j => d # c /\ step'[d] = step[d]
    BY <1>3, <1>1, <1>2, <1>7
  <2> QED BY <1>2, <1>5, <1>6, <1>7, <2>1, <2>2, MatchedKept
<1>8. ASSUME id \in Good' PROVE Matched(id)'
  <2>1. Matched(id) /\ on[c] = id
    BY <1>3, <1>2, <1>8, StillGood
  <2>2. \A d \in Callers : on'[d] = id => d = c
    BY <1>2, <2>1 DEF Matched
  <2>3. id \in Range(records') <=> id \in running' \union StillToAdd'
    <3>1. CASE AddPersist(c)
      <4>1. id \in running
        BY <2>1, <3>1 DEF AddPersist, Matched
      <4> QED BY <1>2, <1>4, <3>1, <4>1
    <3>2. CASE Drop(c)
      <4>1. id \notin running /\ id \notin StillToAdd
        BY <2>1, <3>2 DEF Drop, Matched, Removal
      <4> QED BY <1>2, <1>4, <1>8, <3>2, <4>1 DEF StillToAdd
    <3> QED BY <3>1, <3>2
  <2> QED BY <1>2, <2>2, <2>3 DEF Matched, Removal
<1> QED BY <1>4, <1>7, <1>8 DEF MatchInv

\* A backup replaces the records: its torrents are about to run, and what ran or
\* was about to run without being in it is spoilt.
LEMMA ImportMatch ==
  ASSUME TypeInv, MatchInv, NEW c \in Callers, NEW list \in Backups, ImportBackup(c, list)
  PROVE  MatchInv'
<1>1. /\ records' = list /\ imported' = list /\ running' = running /\ on' = on /\ aliased' = FALSE
      /\ boot' = boot /\ bootAt' = bootAt
      /\ crossed' = crossed \union {i \in Ids : \E d \in Callers : on[d] = i}
      /\ unmatched' = unmatched \union ((running \union StillToBoot) \ Range(list))
  BY DEF ImportBackup, ReplaceRecords, Snapshot
<1>2. ArrayInv'
  BY <1>1 DEF ArrayInv
<1>3. ASSUME NEW id \in Good' PROVE Matched(id)'
  <2>1. /\ \A d \in Callers : on'[d] # id
        /\ id \in running \union StillToBoot => id \in Range(list)
    BY <1>1, <1>3 DEF Good
  <2>2. StillToAdd' = StillToBoot \union Range(list)
    BY <1>1 DEF StillToAdd, StillToBoot
  <2> QED BY <1>1, <2>1, <2>2 DEF Matched
<1> QED BY <1>2, <1>3 DEF MatchInv

\* The walks go on, of restoreRecords or of a backup, and the watch folder adds.
LEMMA WalkMatch ==
  ASSUME TypeInv, MatchInv,
         \/ RestoreNext \/ RestoreFails
         \/ \E added \in BOOLEAN : ImportNext(added)
         \/ \E id \in Ids : WatchAdd(id)
  PROVE  MatchInv'
<1> DEFINE next == boot[bootAt]
<1>1. /\ UNCHANGED <<records, step, on, crossed>> /\ unmatched \subseteq unmatched'
      /\ running \subseteq running'
  BY DEF RestoreNext, RestoreFails, ImportNext, WatchAdd, BootNext, requestVars, historyVars, recordsVars
<1>2. CASE RestoreNext \/ RestoreFails
  <2>1. BootNext /\ imported' = imported
    BY <1>2 DEF RestoreNext, RestoreFails
  <2>2. next \in StillToBoot /\ StillToBoot = StillToBoot' \union {next} /\ ArrayInv'
    BY <1>1, <2>1, WalkedOn DEF MatchInv
  <2>3. \/ running' = running \union {next}
        \/ running' = running /\ next \in unmatched'
    BY <1>2 DEF RestoreNext, RestoreFails
  <2> HIDE DEF next
  <2>4. ASSUME NEW id \in Good' PROVE Matched(id)'
    <3>1. id \in Ids /\ Matched(id) /\ id \notin unmatched'
      BY <1>1, <2>4, StillGood DEF Good
    <3>2. id \in running' \union StillToAdd' <=> id \in running \union StillToAdd
      BY <2>1, <2>2, <2>3, <3>1 DEF StillToAdd
    <3> QED BY <1>1, <3>1, <3>2, MatchedKept
  <2> QED BY <2>2, <2>4 DEF MatchInv
<1>3. CASE \E added \in BOOLEAN : ImportNext(added)
  <2> DEFINE first == Head(imported)
  <2>1. /\ imported # <<>> /\ imported' = Tail(imported) /\ UNCHANGED <<boot, bootAt, aliased>>
        /\ \/ running' = running \union {first}
           \/ running' = running /\ first \in unmatched'
    BY <1>3 DEF ImportNext, recordsVars, bootVars
  <2>2. imported \in Seq(Ids)
    BY DEF TypeInv, TypeOK, RequestTypeOK
  <2>3. Range(imported) = Range(imported') \union {first}
    <3>1. /\ Len(imported) \in Nat /\ Len(imported) >= 1 /\ DOMAIN imported = 1 .. Len(imported)
          /\ DOMAIN imported' = 1 .. Len(imported) - 1 /\ first = imported[1]
          /\ \A i \in 1 .. Len(imported) - 1 : imported'[i] = imported[i + 1]
      BY <2>1, <2>2
    <3>2. Range(imported) \subseteq Range(imported') \union {first}
      <4> SUFFICES ASSUME NEW i \in 1 .. Len(imported), i # 1
                   PROVE  imported[i] \in Range(imported')
        BY <3>1 DEF Range
      <4>1. i - 1 \in 1 .. Len(imported) - 1 /\ i - 1 + 1 = i
        BY <3>1
      <4> QED BY <3>1, <4>1 DEF Range
    <3>3. Range(imported') \union {first} \subseteq Range(imported)
      <4>1. \A i \in 1 .. Len(imported) - 1 : i + 1 \in 1 .. Len(imported)
        BY <3>1
      <4>2. 1 \in 1 .. Len(imported)
        BY <3>1
      <4> QED BY <3>1, <4>1, <4>2 DEF Range
    <3> QED BY <3>2, <3>3
  <2> HIDE DEF first
  <2>4. StillToAdd = StillToAdd' \union {first}
    BY <2>1, <2>3 DEF StillToAdd, StillToBoot
  <2>5. ASSUME NEW id \in Good' PROVE Matched(id)'
    <3>1. id \in Ids /\ Matched(id) /\ id \notin unmatched'
      BY <1>1, <2>5, StillGood DEF Good
    <3>2. id \in running' \union StillToAdd' <=> id \in running \union StillToAdd
      BY <2>1, <2>4, <3>1
    <3> QED BY <1>1, <3>1, <3>2, MatchedKept
  <2>6. ArrayInv'
    BY <1>1, <2>1 DEF MatchInv, ArrayInv
  <2> QED BY <2>5, <2>6 DEF MatchInv
<1>4. ASSUME NEW new \in Ids, WatchAdd(new) PROVE MatchInv'
  <2>1. /\ UNCHANGED <<boot, bootAt, aliased, imported>> /\ new \in unmatched'
        /\ running' = running \union {new}
    BY <1>4 DEF WatchAdd, recordsVars, bootVars
  <2>2. StillToAdd' = StillToAdd
    BY <2>1 DEF StillToAdd, StillToBoot
  <2>3. ASSUME NEW id \in Good' PROVE Matched(id)'
    <3>1. id \in Ids /\ Matched(id) /\ id # new
      BY <1>1, <2>1, <2>3, StillGood DEF Good
    <3> QED BY <1>1, <2>1, <2>2, <3>1, MatchedKept
  <2>4. ArrayInv'
    BY <1>1, <2>1 DEF MatchInv, ArrayInv
  <2> QED BY <2>3, <2>4 DEF MatchInv
<1> QED BY <1>2, <1>3, <1>4

\* After a restart every torrent on record is about to run, and nothing else.
LEMMA RestartMatch ==
  ASSUME TypeInv, Restart
  PROVE  MatchInv'
<1>1. /\ records' = Load(recFile) /\ boot' = records' /\ bootAt' = 1
      /\ running' = {} /\ imported' = <<>> /\ \A c \in Callers : on'[c] = NoId
  BY DEF Restart, ReloadRecords
<1>2. records' \in Seq(Ids)
  BY ReloadType DEF Restart, TypeInv, TypeOK, RecordsTypeOK, IdLists
<1>3. StillToAdd' = Range(records')
  <2>1. StillToBoot' = {records'[i] : i \in 1 .. Len(records')}
    BY <1>1 DEF StillToBoot
  <2>2. Range(imported') = {}
    BY <1>1, EmptyList
  <2>3. Range(records') = {records'[i] : i \in 1 .. Len(records')}
    BY <1>2 DEF Range
  <2> QED BY <2>1, <2>2, <2>3 DEF StillToAdd
<1>4. \A id \in Good' : Matched(id)'
  BY <1>1, <1>3, PersistenceAssumption DEF Matched, Good
<1>5. ArrayInv'
  <2>1. \A i \in DOMAIN boot' : i <= Len(records')
    BY <1>1, <1>2
  <2> QED BY <1>1, <2>1 DEF ArrayInv
<1> QED BY <1>4, <1>5 DEF MatchInv

\* Every other step of a request leaves records and table alone.
LEMMA OtherMatch ==
  ASSUME TypeInv, MatchInv,
         \/ \E c \in Callers :
              \/ DeleteMove(c) \/ DeleteLoad(c) \/ DeleteList(c) \/ DeleteOutright(c)
              \/ DeleteFails(c) \/ SaveStep(c) \/ SaveEnd(c)
              \/ (\E id \in Ids, lock \in BOOLEAN : Edit(c, id, lock))
              \/ (\E kept \in SUBSET listed : EmptyAll(c, kept)) \/ EmptyEnd(c)
         \/ (\E expired \in SUBSET listed : Purge(expired)) \/ PurgeEnd
         \/ UNCHANGED vars
  PROVE  MatchInv'
<1>1. /\ UNCHANGED <<records, boot, bootAt, aliased, imported, running, crossed>>
      /\ unmatched \subseteq unmatched'
  BY DEF DeleteMove, DeleteLoad, DeleteList, DeleteOutright, DeleteFails, SaveStep, SaveEnd, Edit,
     EmptyAll, EmptyEnd, Purge, PurgeEnd, OpenTmp, WriteTmp, RenameTmp, EditRecord, Snapshot,
     vars, recordsVars, bootVars, historyVars
<1>2. CASE UNCHANGED <<step, on>>
  BY <1>1, <1>2, QuietMatch
<1>3. ASSUME NEW c \in Callers,
             \/ DeleteMove(c) \/ DeleteLoad(c) \/ DeleteList(c) \/ DeleteOutright(c)
             \/ DeleteFails(c) \/ SaveEnd(c)
             \/ (\E id \in Ids, lock \in BOOLEAN : Edit(c, id, lock))
             \/ (\E kept \in SUBSET listed : EmptyAll(c, kept)) \/ EmptyEnd(c)
      PROVE  MatchInv'
  <2>1. step \in [Callers -> Steps] /\ on \in [Callers -> Ids \union {NoId}]
    BY DEF TypeInv, TypeOK, RequestTypeOK
  <2>2. \A d \in Callers : d # c => on'[d] = on[d] /\ step'[d] = step[d]
    BY <1>3, <2>1 DEF DeleteMove, DeleteLoad, DeleteList, DeleteOutright, DeleteFails, SaveEnd, Edit,
       EmptyAll, EmptyEnd, GoTo, Answer
  <2>3. \/ on'[c] = on[c] /\ step[c] \in Removal /\ step'[c] \in Removal
        \/ /\ on'[c] \in {NoId, on[c]} /\ step[c] \notin {"persist"} \union Removal
           /\ step'[c] \notin {"persist"} \union Removal
        \/ on'[c] = NoId /\ on[c] \in unmatched'
    <3>1. CASE DeleteMove(c) \/ DeleteLoad(c) \/ DeleteList(c) \/ DeleteOutright(c)
      BY <2>1, <3>1 DEF DeleteMove, DeleteLoad, DeleteList, DeleteOutright, GoTo, Removal
    <3>2. CASE DeleteFails(c)
      BY <2>1, <3>2 DEF DeleteFails, Answer
    <3>3. CASE SaveEnd(c)
      <4>1. step[c] \in SaveSteps
        BY <3>3 DEF SaveEnd, RenameTmp, RenameFile, TypeInv, StepInv, Saving
      <4> QED BY <2>1, <3>3, <4>1 DEF SaveEnd, Answer, SaveSteps, Removal
    <3>4. CASE \/ (\E id \in Ids, lock \in BOOLEAN : Edit(c, id, lock))
               \/ (\E kept \in SUBSET listed : EmptyAll(c, kept)) \/ EmptyEnd(c)
      BY <2>1, <3>4 DEF Edit, EmptyAll, EmptyEnd, Answer, Removal
    <3> QED BY <1>3, <3>1, <3>2, <3>3, <3>4
  <2> QED BY <1>1, <2>2, <2>3, QuietMatch
<1>4. CASE \/ \E c \in Callers : SaveStep(c)
           \/ (\E expired \in SUBSET listed : Purge(expired)) \/ PurgeEnd \/ UNCHANGED vars
  BY <1>2, <1>4 DEF SaveStep, Purge, PurgeEnd, vars, requestVars
<1> QED BY <1>3, <1>4

LEMMA NextMatch == TypeInv /\ MatchInv /\ [Next]_vars => MatchInv'
BY BeginMatch, ChangeMatch, ImportMatch, WalkMatch, RestartMatch, OtherMatch DEF Next

\* When no request is under way and the restore is done, the engine runs exactly
\* the torrents on record, whatever the walk of restoreRecords met when requests
\* moved the array under it, but for the torrents that the property names
\* (web/persist.go, web/web.go).
THEOREM TableMatchesRecords == Spec => []RecordsMatchTable
<1>1. Spec => []TypeInv
  BY InitType, NextType, PTL DEF Spec
<1>2. Init => MatchInv
  <2> SUFFICES ASSUME Init PROVE MatchInv
    OBVIOUS
  <2>1. Range(records) = {} /\ Range(imported) = {} /\ Len(boot) = 0 /\ bootAt = 1 /\ ~aliased
    BY EmptyList DEF Init, RecordsInit
  <2>2. StillToAdd = {} /\ running = {}
    BY <2>1 DEF StillToAdd, StillToBoot, Init
  <2> QED BY <2>1, <2>2, PersistenceAssumption DEF Init, MatchInv, ArrayInv, Matched, Good
<1>3. Spec => [](TypeInv /\ MatchInv)
  BY <1>1, <1>2, NextMatch, PTL DEF Spec
<1>4. TypeInv /\ MatchInv => RecordsMatchTable
  <2> SUFFICES ASSUME TypeInv, MatchInv, ~Restoring, imported = <<>>,
                      \A c \in Callers : step[c] = "idle"
               PROVE  \A id \in Good : id \in Range(records) <=> id \in running
    <3>1. TypeInv => Range(records) \subseteq Ids
      BY ArrayTyped DEF Range
    <3>2. TypeInv => running \subseteq Ids
      BY DEF TypeInv, TypeOK, RequestTypeOK
    <3> QED BY <3>1, <3>2 DEF RecordsMatchTable, Good
  <2>1. StillToAdd = {}
    <3>1. bootAt .. Len(boot) = {}
      BY ArrayTyped DEF Restoring
    <3> QED BY <3>1, EmptyList DEF StillToAdd, StillToBoot
  <2> QED BY <2>1 DEF MatchInv, Matched, Removal
<1> QED BY <1>3, <1>4, PTL

=============================================================================
