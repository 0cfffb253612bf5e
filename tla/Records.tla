------------------------------- MODULE Records --------------------------------
(***************************************************************************)
(* The list of torrents that survives a restart (web/persist.go): in       *)
(* memory as Server.records under recordsMu, on disk as torrents.json.     *)
(*                                                                         *)
(* A record is the ID of its torrent; source, category, trackers and       *)
(* skipped files ride along.  Most changes are saved outside recordsMu.    *)
(***************************************************************************)
EXTENDS SavedFile

CONSTANT Ids  \* torrent IDs

Nobody  == "nobody"
IdLists == {list \in Seq(Ids) : IsInjective(list)}

ASSUME RecordsAssumption ==
  /\ Nobody \notin Callers
  /\ NoFile \notin Seq(Ids) /\ Empty \notin Seq(Ids) /\ Broken \notin Seq(Ids)
  /\ NoFile # Empty /\ NoFile # Broken /\ Empty # Broken

VARIABLES records,    \* Server.records
          recordsMu,  \* who keeps recordsMu during a save
          boot,       \* the array that restoreRecords walks
          bootAt,     \* the next index of that walk
          aliased     \* Server.records still shares that array

bootVars    == <<boot, bootAt, aliased>>
recordsVars == <<records, recordsMu, saveVars, fileVars, bootVars>>

Contents == {NoFile, Empty, Broken} \union IdLists

RecordsTypeOK ==
  /\ records \in IdLists
  /\ recordsMu \in Callers \union {Nobody}
  /\ snap \in [Callers -> IdLists]
  /\ saveAt \in [Callers -> {"no", "open", "write", "rename"}]
  /\ fd \in [Callers -> {"none", "tmp", "rec", "gone"}]
  /\ tmpFile \in Contents /\ recFile \in Contents
  /\ boot \in Seq(Ids)
  /\ bootAt \in 1 .. Len(boot) + 1
  /\ aliased \in BOOLEAN

RecordsInit ==
  /\ records = <<>> /\ recordsMu = Nobody
  /\ snap = [c \in Callers |-> <<>>]
  /\ saveAt = [c \in Callers |-> "no"]
  /\ fd = [c \in Callers |-> "none"]
  /\ tmpFile = NoFile /\ recFile = NoFile
  /\ boot = <<>> /\ bootAt = 1 /\ aliased = FALSE

\* The part of a record change that is made under recordsMu: the new list and
\* the copy of it that is saved.  lock: recordsMu is kept until the save ends.
Snapshot(c, list, lock) ==
  /\ recordsMu = Nobody
  /\ records' = list
  /\ BeginSave(c, list)
  /\ recordsMu' = IF lock THEN c ELSE Nobody

\* The array of restoreRecords after list replaced the records it is shared
\* with: dropRecord compacts it in place and leaves its tail.
Compacted(list) ==
  IF aliased THEN [i \in 1 .. Len(boot) |-> IF i <= Len(list) THEN list[i] ELSE boot[i]]
  ELSE boot

\* A record is appended even when the ID has one.
PersistRecordTwice(c, id) ==
  /\ Snapshot(c, Append(records, id), FALSE)
  /\ UNCHANGED bootVars

\* persistRecord: replaces the record of the ID, or appends one: in a slot that
\* a compaction freed, or past the array, which may reallocate it.
PersistRecord(c, id) ==
  LET list == IF id \in Range(records) THEN records ELSE Append(records, id)
  IN  /\ Snapshot(c, list, FALSE)
      /\ boot' = Compacted(list)
      /\ aliased' \in IF aliased /\ list # records /\ Len(list) > Len(boot)
                        THEN BOOLEAN ELSE {aliased}
      /\ UNCHANGED bootAt

\* A list of distinct IDs without one of them.
Without(list, id) ==
  IF id \notin Range(list) THEN list
  ELSE LET k == CHOOSE i \in 1 .. Len(list) : list[i] = id
       IN  [i \in 1 .. Len(list) - 1 |-> IF i < k THEN list[i] ELSE list[i + 1]]

\* dropRecord.
DropRecord(c, id) ==
  LET list == Without(records, id)
  IN  /\ Snapshot(c, list, FALSE)
      /\ boot' = Compacted(list)
      /\ UNCHANGED <<bootAt, aliased>>

\* moveTorrent, persistSkippedFiles (unlocked save), persistTrackerChanges and
\* syncSmartCategory (saved under recordsMu): a field of a record changes.
EditRecord(c, id, lock) ==
  /\ id \in Range(records)
  /\ Snapshot(c, records, lock)
  /\ UNCHANGED bootVars

\* importBackup: the list of a backup replaces the records, in an array of its own.
ReplaceRecords(c, list) ==
  /\ Snapshot(c, list, FALSE)
  /\ aliased' = FALSE
  /\ UNCHANGED <<boot, bootAt>>

-----------------------------------------------------------------------------
OpenTmp(c)  == OpenFile(c) /\ UNCHANGED <<records, recordsMu, bootVars>>
WriteTmp(c) == WriteFile(c) /\ UNCHANGED <<records, recordsMu, bootVars>>

RenameTmp(c) ==
  /\ RenameFile(c)
  /\ recordsMu' = IF recordsMu = c THEN Nobody ELSE recordsMu
  /\ UNCHANGED <<records, bootVars>>

-----------------------------------------------------------------------------
Restoring    == bootAt <= Len(boot)
StillToBoot  == {boot[i] : i \in bootAt .. Len(boot)}

\* restoreRecords goes on to the next element of the array, or is done with it.
BootNext ==
  /\ Restoring
  /\ IF bootAt = Len(boot)
       THEN boot' = <<>> /\ bootAt' = 1 /\ aliased' = FALSE
       ELSE bootAt' = bootAt + 1 /\ UNCHANGED <<boot, aliased>>
  /\ UNCHANGED <<records, recordsMu, saveVars, fileVars>>

\* The process dies; NewServer loads the file and walks the loaded array.
ReloadRecords ==
  /\ records' = Load(recFile) /\ recordsMu' = Nobody
  /\ ForgetSaves
  /\ boot' = Load(recFile) /\ bootAt' = 1 /\ aliased' = (Load(recFile) # <<>>)
=============================================================================
