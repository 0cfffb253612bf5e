------------------------------ MODULE Persistence -----------------------------
(***************************************************************************)
(* What is left of the torrents after a restart: the requests that add,    *)
(* delete and edit torrents (web/web.go, web/rss.go), the share goal       *)
(* (torrente/stats.go, the notice handler of NewServer), the watch folder  *)
(* (cmd/digitalis), the import of a backup (web/backup.go), the restart,   *)
(* over Records and Trash.                                                 *)
(*                                                                         *)
(* A request is answered when its last save ended, whatever became of it.  *)
(*                                                                         *)
(* Left out: a failed write of a file; a power failure (no save is synced  *)
(* to the disk); the settings and feeds of a backup.                       *)
(***************************************************************************)
EXTENDS Records, Trash

CONSTANTS NoId,
          Backups,      \* the lists of records that backups hold
          MaxOps,       \* bound: requests, of which an import counts as two
          MaxRestarts   \* bound: restarts

ASSUME PersistenceAssumption ==
  /\ NoId \notin Ids /\ TrashCallers = Callers
  /\ Backups \subseteq IdLists \ {<<>>}
  /\ MaxOps \in Nat /\ MaxRestarts \in Nat

VARIABLES running,      \* the IDs in Engine.torrents
          step,         \* where each request is
          on,           \* the torrent it is about
          imported,     \* the walk of restoreRecords over a backup: what is left of it
          ops,          \* requests so far
          restarts,     \* restarts so far
          solo,         \* history: no other save met that of the request
          overlapped,   \* history: saves met, and none was alone since
          crossed,      \* history: IDs on which requests met
          unmatched,    \* history: IDs running without a record or the reverse
          fate,         \* history: what the last answer on an ID promised
          orphans       \* history: directories a crash left unlisted

requestVars == <<step, on, ops>>
historyVars == <<solo, overlapped, crossed, unmatched, fate, orphans>>
vars == <<recordsVars, trashVars, running, imported, requestVars, restarts, historyVars>>

Steps == {"idle", "persist", "trash", "load", "list", "empty", "drop",
          "saveAdd", "saveDrop", "saveEdit", "saveImport"}

RequestTypeOK ==
  /\ running \subseteq Ids /\ imported \in Seq(Ids)
  /\ step \in [Callers -> Steps]
  /\ on \in [Callers -> Ids \union {NoId}]
  /\ ops \in 0 .. MaxOps /\ restarts \in 0 .. MaxRestarts

HistoryTypeOK ==
  /\ solo \in [Callers -> BOOLEAN] /\ overlapped \in BOOLEAN
  /\ crossed \subseteq Ids /\ unmatched \subseteq Ids
  /\ fate \in [Ids -> {"none", "kept", "gone"}]
  /\ orphans \subseteq Dirs

TypeOK == RecordsTypeOK /\ TrashTypeOK /\ RequestTypeOK /\ HistoryTypeOK

Init ==
  /\ RecordsInit /\ TrashInit
  /\ running = {} /\ imported = <<>>
  /\ step = [c \in Callers |-> "idle"]
  /\ on = [c \in Callers |-> NoId]
  /\ ops = 0 /\ restarts = 0
  /\ solo = [c \in Callers |-> FALSE] /\ overlapped = FALSE
  /\ crossed = {} /\ unmatched = {} /\ orphans = {}
  /\ fate = [i \in Ids |-> "none"]

-----------------------------------------------------------------------------
\* What the walks of restoreRecords have yet to come to.
StillToAdd == StillToBoot \union Range(imported)

\* Request c on id starts at first; ids on which it meets another are crossed.
Begin(c, id, first) ==
  /\ step[c] = "idle" /\ ops < MaxOps
  /\ ops' = ops + 1
  /\ step' = [step EXCEPT ![c] = first]
  /\ on' = [on EXCEPT ![c] = id]
  /\ crossed' = crossed \union {i \in {id} : \E d \in Callers : on[d] = i}

GoTo(c, next) == step' = [step EXCEPT ![c] = next] /\ UNCHANGED <<on, ops>>

Answer(c) ==
  /\ step' = [step EXCEPT ![c] = "idle"]
  /\ on' = [on EXCEPT ![c] = NoId]
  /\ UNCHANGED ops

\* A save begins: those under way are no longer alone.
MeetSaves(c) ==
  LET others == \E d \in Callers \ {c} : Saving(d)
  IN  /\ solo' = [d \in Callers |-> IF d = c THEN ~others ELSE FALSE]
      /\ overlapped' = (overlapped \/ others)

\* addTorrent, rssAdd: AddTorrent or AddMagnet, which refuses an ID it has ...
Add(c, id) ==
  /\ id \notin running
  /\ Begin(c, id, "persist")
  /\ running' = running \union {id}
  /\ fate' = [fate EXCEPT ![id] = "none"]
  /\ UNCHANGED <<recordsVars, trashVars, imported, restarts, solo, overlapped, unmatched, orphans>>

\* ... then the record.
AddPersist(c) ==
  /\ step[c] = "persist"
  /\ PersistRecord(c, on[c])
  /\ MeetSaves(c)
  /\ GoTo(c, "saveAdd")
  /\ UNCHANGED <<trashVars, running, imported, restarts, crossed, unmatched, fate, orphans>>

\* watchForTorrents: adds the torrent, removes its file, keeps no record.
WatchAdd(id) ==
  /\ id \notin running /\ ops < MaxOps
  /\ ops' = ops + 1
  /\ running' = running \union {id}
  /\ unmatched' = unmatched \union {id}
  /\ fate' = [fate EXCEPT ![id] = "none"]
  /\ UNCHANGED <<recordsVars, trashVars, step, on, imported, restarts, solo, overlapped, crossed, orphans>>

\* delete, bulkOp: RemoveTorrentWithFiles takes the torrent from the table ...
Delete(c, id) ==
  /\ id \in running
  /\ Begin(c, id, "trash")
  /\ running' = running \ {id}
  /\ fate' = [fate EXCEPT ![id] = "none"]
  /\ unmatched' = IF id \in StillToAdd THEN unmatched \union {id} ELSE unmatched
  /\ UNCHANGED <<recordsVars, trashVars, imported, restarts, solo, overlapped, orphans>>

\* ... its data goes to the trash ...
DeleteMove(c) ==
  /\ step[c] = "trash"
  /\ TrashMove(c)
  /\ GoTo(c, "load")
  /\ UNCHANGED <<recordsVars, running, imported, restarts, historyVars>>

DeleteLoad(c) ==
  /\ step[c] = "load"
  /\ TrashLoad(c)
  /\ GoTo(c, "list")
  /\ UNCHANGED <<recordsVars, running, imported, restarts, historyVars>>

DeleteList(c) ==
  /\ step[c] = "list"
  /\ TrashSave(c)
  /\ GoTo(c, "drop")
  /\ UNCHANGED <<recordsVars, running, imported, restarts, historyVars>>

\* ... or is deleted outright (no retention, no root, or the move failed), or is
\* outside the storage roots and stays ...
DeleteOutright(c) ==
  /\ step[c] = "trash"
  /\ GoTo(c, "drop")
  /\ UNCHANGED <<recordsVars, trashVars, running, imported, restarts, historyVars>>

\* ... which can fail: the request ends with an error and keeps the record.
DeleteFails(c) ==
  /\ step[c] = "trash"
  /\ unmatched' = unmatched \union {on[c]}
  /\ Answer(c)
  /\ UNCHANGED <<recordsVars, trashVars, running, imported, restarts, solo, overlapped,
                 crossed, fate, orphans>>

\* applySchedule reached a share goal: it removes the torrent without its data,
\* or stops it, and the notice handler drops the record in both cases.
GoalReached(c, id, remove) ==
  /\ id \in running
  /\ Begin(c, id, "drop")
  /\ running' = IF remove THEN running \ {id} ELSE running
  /\ fate' = [fate EXCEPT ![id] = "none"]
  /\ unmatched' = IF remove /\ id \notin StillToAdd THEN unmatched
                  ELSE unmatched \union {id}
  /\ UNCHANGED <<recordsVars, trashVars, imported, restarts, solo, overlapped, orphans>>

\* The request answers without dropping the record.
DropForgotten(c) ==
  /\ step[c] = "drop"
  /\ Answer(c)
  /\ fate' = [fate EXCEPT ![on[c]] = "gone"]
  /\ UNCHANGED <<recordsVars, trashVars, running, imported, restarts, solo, overlapped,
                 crossed, unmatched, orphans>>

\* The request drops the record.  This moves elements of the array under the
\* walk of restoreRecords: it may miss one, or meet one of another torrent.
Drop(c) ==
  /\ step[c] = "drop"
  /\ DropRecord(c, on[c])
  /\ MeetSaves(c)
  /\ GoTo(c, "saveDrop")
  /\ unmatched' = IF boot' # boot THEN unmatched \union StillToBoot \union StillToBoot'
                  ELSE unmatched
  /\ UNCHANGED <<trashVars, running, imported, restarts, crossed, fate, orphans>>

\* moveTorrent, persistSkippedFiles, persistTrackerChanges, syncSmartCategory;
\* the last two save under recordsMu.
Edit(c, id, lock) ==
  /\ step[c] = "idle" /\ ops < MaxOps
  /\ EditRecord(c, id, lock)
  /\ MeetSaves(c)
  /\ ops' = ops + 1
  /\ step' = [step EXCEPT ![c] = "saveEdit"]
  /\ UNCHANGED <<trashVars, running, on, imported, restarts, crossed, unmatched, fate, orphans>>

\* importBackup: running torrents that the backup lacks lose their records, and
\* what requests were about to record or drop is crossed.
ImportBackup(c, list) ==
  /\ step[c] = "idle" /\ ops + 2 <= MaxOps /\ imported = <<>>
  /\ ReplaceRecords(c, list)
  /\ MeetSaves(c)
  /\ ops' = ops + 2
  /\ step' = [step EXCEPT ![c] = "saveImport"]
  /\ imported' = list
  /\ crossed' = crossed \union {i \in Ids : \E d \in Callers : on[d] = i}
  /\ unmatched' = unmatched \union ((running \union StillToBoot) \ Range(list))
  /\ fate' = [i \in Ids |-> IF fate[i] = (IF i \in Range(list) THEN "kept" ELSE "gone")
                              THEN fate[i] ELSE "none"]
  /\ UNCHANGED <<trashVars, running, on, restarts, orphans>>

SaveStep(c) ==
  /\ OpenTmp(c) \/ WriteTmp(c)
  /\ UNCHANGED <<trashVars, running, requestVars, imported, restarts, historyVars>>

\* The save ends and the request is answered; a save that met no other leaves
\* the file as the memory is.
SaveEnd(c) ==
  /\ RenameTmp(c)
  /\ Answer(c)
  /\ overlapped' = (overlapped /\ ~solo[c])
  /\ solo' = [solo EXCEPT ![c] = FALSE]
  /\ fate' = CASE step[c] = "saveAdd"  -> [fate EXCEPT ![on[c]] = "kept"]
               [] step[c] = "saveDrop" -> [fate EXCEPT ![on[c]] = "gone"]
               [] step[c] = "saveImport" ->
                    [i \in Ids |-> IF i \in Range(records) /\ \A d \in Callers : on[d] # i
                                   THEN "kept" ELSE fate[i]]
               [] OTHER                -> fate
  /\ UNCHANGED <<trashVars, running, imported, restarts, crossed, unmatched, orphans>>

\* EmptyTrash, of the web interface.
EmptyAll(c, kept) ==
  /\ step[c] = "idle" /\ ops < MaxOps
  /\ EmptyTrash(c, kept)
  /\ ops' = ops + 1
  /\ step' = [step EXCEPT ![c] = "empty"]
  /\ UNCHANGED <<recordsVars, running, on, imported, restarts, historyVars>>

EmptyEnd(c) ==
  /\ step[c] = "empty"
  /\ TrashSave(c)
  /\ Answer(c)
  /\ UNCHANGED <<recordsVars, running, imported, restarts, historyVars>>

-----------------------------------------------------------------------------
\* The walk ends at the first torrent that the engine refuses.
RestoreGivesUp ==
  /\ Restoring
  /\ IF boot[bootAt] \in running
       THEN /\ boot' = <<>> /\ bootAt' = 1 /\ aliased' = FALSE
            /\ UNCHANGED <<records, recordsMu, saveVars, fileVars>>
       ELSE BootNext
  /\ running' = running \union {boot[bootAt]}
  /\ UNCHANGED <<trashVars, requestVars, imported, restarts, historyVars>>

\* restoreRecords adds the next torrent; the engine refuses one it has.
RestoreNext ==
  /\ BootNext
  /\ running' = running \union {boot[bootAt]}
  /\ UNCHANGED <<trashVars, requestVars, imported, restarts, historyVars>>

\* A torrent is not restored: its source cannot be fetched or parsed.
RestoreFails ==
  /\ BootNext
  /\ boot[bootAt] \notin running
  /\ unmatched' = unmatched \union {boot[bootAt]}
  /\ UNCHANGED <<trashVars, running, requestVars, imported, restarts, solo, overlapped,
                 crossed, fate, orphans>>

\* The import was answered; its walk adds the next torrent, or cannot.
ImportNext(added) ==
  /\ imported # <<>> /\ \A c \in Callers : step[c] # "saveImport"
  /\ imported' = Tail(imported)
  /\ running' = IF added THEN running \union {Head(imported)} ELSE running
  /\ unmatched' = IF added THEN unmatched ELSE unmatched \union {Head(imported)}
  /\ UNCHANGED <<recordsVars, trashVars, requestVars, restarts, solo, overlapped, crossed,
                 fate, orphans>>

\* InitStats starts purgeTrash next to everything else.
Purge(expired) ==
  /\ PurgeTrash(expired)
  /\ UNCHANGED <<recordsVars, running, requestVars, imported, restarts, historyVars>>

PurgeEnd ==
  /\ TrashSave(Purger)
  /\ UNCHANGED <<recordsVars, running, requestVars, imported, restarts, historyVars>>

\* The process stops between any two steps and starts again.  Promises that
\* crossed requests or overlapped saves may have broken end here.
Restart ==
  /\ restarts < MaxRestarts
  /\ restarts' = restarts + 1
  /\ ReloadRecords /\ ReloadTrash
  /\ running' = {} /\ imported' = <<>>
  /\ step' = [c \in Callers |-> "idle"]
  /\ on' = [c \in Callers |-> NoId]
  /\ solo' = [c \in Callers |-> FALSE] /\ overlapped' = FALSE
  /\ crossed' = {} /\ unmatched' = {}
  /\ fate' = [i \in Ids |-> IF overlapped \/ i \in crossed THEN "none" ELSE fate[i]]
  /\ orphans' = dirs' \ listed'
  /\ UNCHANGED ops

Next ==
  \/ \E c \in Callers, id \in Ids :
       \/ Add(c, id) \/ Delete(c, id)
       \/ \E remove \in BOOLEAN : GoalReached(c, id, remove)
       \/ \E lock \in BOOLEAN : Edit(c, id, lock)
  \/ \E c \in Callers :
       \/ AddPersist(c) \/ DeleteMove(c) \/ DeleteLoad(c) \/ DeleteList(c)
       \/ DeleteOutright(c) \/ DeleteFails(c) \/ Drop(c)
       \/ SaveStep(c) \/ SaveEnd(c)
       \/ \E list \in Backups : ImportBackup(c, list)
       \/ (\E kept \in SUBSET listed : EmptyAll(c, kept)) \/ EmptyEnd(c)
  \/ \E id \in Ids : WatchAdd(id)
  \/ RestoreNext \/ RestoreFails
  \/ \E added \in BOOLEAN : ImportNext(added)
  \/ (\E expired \in SUBSET listed : Purge(expired)) \/ PurgeEnd
  \/ Restart

Spec == Init /\ [][Next]_vars

-----------------------------------------------------------------------------
OnFile == Range(Load(recFile))

\* The record file tells the truth at every moment, so also after a crash at
\* any step of any save: a torrent whose addition was answered is on it, one
\* whose removal was answered is not.  Saves that met and requests that met on
\* one torrent are outside this promise (saveRecords, persist.go:47).
RecordsSurvive ==
  ~overlapped =>
    \A id \in Ids \ crossed : /\ fate[id] = "kept" => id \in OnFile
                              /\ fate[id] = "gone" => id \notin OnFile

\* With no request under way and the restore done, the engine runs exactly the
\* torrents on record, but for those that requests crossed on, a share goal
\* stopped, the watch folder added, whose record an import dropped, or whose
\* restore or removal failed.
RecordsMatchTable ==
  ~Restoring /\ imported = <<>> /\ (\A c \in Callers : step[c] = "idle") =>
    Range(records) \ (crossed \union unmatched) = running \ (crossed \union unmatched)

\* No directory is forgotten in .trash: once trashMu is free, trash.json lists
\* each, but for one that was moved just before the process died.
TrashListed == trashMu = NoCaller => dirs \subseteq listed \union orphans
=============================================================================
