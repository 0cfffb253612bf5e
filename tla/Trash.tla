-------------------------------- MODULE Trash ---------------------------------
(***************************************************************************)
(* The trash of removed torrent data (torrente/automation.go): a directory *)
(* per removed torrent under <root>/.trash, and trash.json that lists them *)
(* so that a purge or EmptyTrash finds them.                               *)
(*                                                                         *)
(* A directory is a number, its name carries the time of the removal.      *)
(* trashMu is held from the move to the save of the list, whose own        *)
(* temporary file nobody else touches meanwhile: the save is one step.     *)
(***************************************************************************)
EXTENDS Integers, FiniteSets

CONSTANTS TrashCallers,   \* requests that may use the trash
          MaxDirs         \* bound: directories moved to the trash

NoCaller == "nobody"
Purger   == "purge"      \* the goroutine of purgeTrash
Lockers  == TrashCallers \union {Purger}

ASSUME TrashAssumption ==
  MaxDirs \in Nat /\ NoCaller \notin TrashCallers /\ Purger \notin TrashCallers

VARIABLES dirs,       \* the directories under .trash
          listed,     \* the entries of trash.json
          trashMu,    \* who holds Engine.trashMu
          loaded,     \* the entries that a caller read from trash.json
          purgeDue,   \* purgeTrash of this start of the process is yet to run
          moved       \* directories moved so far (MaxDirs bounds it)

trashVars == <<dirs, listed, trashMu, loaded, purgeDue, moved>>

Dirs == 1 .. MaxDirs

TrashTypeOK ==
  /\ dirs \subseteq Dirs /\ listed \subseteq Dirs
  /\ trashMu \in Lockers \union {NoCaller}
  /\ loaded \in [Lockers -> SUBSET Dirs]
  /\ purgeDue \in BOOLEAN
  /\ moved \in 0 .. MaxDirs

TrashInit ==
  /\ dirs = {} /\ listed = {} /\ trashMu = NoCaller /\ moved = 0
  /\ loaded = [c \in Lockers |-> {}]
  /\ purgeDue = TRUE

\* trashOrRemove: the data moves to a directory of its own ...
TrashMove(c) ==
  /\ trashMu = NoCaller /\ moved < MaxDirs
  /\ trashMu' = c
  /\ moved' = moved + 1
  /\ dirs' = dirs \union {moved + 1}
  /\ UNCHANGED <<listed, loaded, purgeDue>>

\* ... trash.json is read and the new entry appended ...
TrashLoad(c) ==
  /\ trashMu = c
  /\ loaded' = [loaded EXCEPT ![c] = listed \union {moved}]
  /\ UNCHANGED <<dirs, listed, trashMu, purgeDue, moved>>

\* ... and written.
TrashSave(c) ==
  /\ trashMu = c
  /\ listed' = loaded[c]
  /\ loaded' = [loaded EXCEPT ![c] = {}]
  /\ trashMu' = NoCaller
  /\ UNCHANGED <<dirs, purgeDue, moved>>

\* EmptyTrash does not take the lock.
EmptyTrashUnlocked(c, kept) ==
  /\ kept \subseteq listed
  /\ trashMu' = c
  /\ dirs' = dirs \ (listed \ kept)
  /\ loaded' = [loaded EXCEPT ![c] = kept]
  /\ UNCHANGED <<listed, purgeDue, moved>>

\* EmptyTrash: every listed directory under the root is deleted; one that
\* cannot be deleted (kept) stays listed, like those of other roots.
EmptyTrash(c, kept) ==
  /\ trashMu = NoCaller
  /\ kept \subseteq listed
  /\ trashMu' = c
  /\ dirs' = dirs \ (listed \ kept)
  /\ loaded' = [loaded EXCEPT ![c] = kept]
  /\ UNCHANGED <<listed, purgeDue, moved>>

\* purgeTrash, once per start: what expired is deleted, entries whose directory
\* is gone are forgotten, and the list is written (TrashSave).
PurgeTrash(expired) ==
  /\ purgeDue /\ trashMu = NoCaller
  /\ expired \subseteq listed
  /\ purgeDue' = FALSE
  /\ trashMu' = Purger
  /\ dirs' = dirs \ expired
  /\ loaded' = [loaded EXCEPT ![Purger] = (listed \ expired) \intersect dirs]
  /\ UNCHANGED <<listed, moved>>

\* The process dies and starts again: directories and trash.json stay.
ReloadTrash ==
  /\ trashMu' = NoCaller
  /\ loaded' = [c \in Lockers |-> {}]
  /\ purgeDue' = TRUE
  /\ UNCHANGED <<dirs, listed, moved>>
=============================================================================
