-------------------------------- MODULE Engine --------------------------------
(***************************************************************************)
(* The engine's table of torrents and the API calls that change a          *)
(* torrent's life cycle: AddTorrent, AddMagnet, Pause, Resume,             *)
(* RemoveTorrent and UpdateSettings (torrente/torrent.go,                  *)
(* torrente/settings.go); and what the sessions of a torrent do to it: its *)
(* download finishes, the metadata of a magnet arrives.                    *)
(*                                                                         *)
(* A Torrent object is a number: objects are created in this order, so the *)
(* order of the numbers is the order of AddedAt.  The table maps an ID to  *)
(* an object; an ID that is removed and added again has another object.    *)
(* A call takes Engine.mu for the table and then Torrent.mu for the        *)
(* object, never both at once: each is a step of its own, callPc says      *)
(* which comes next.                                                       *)
(***************************************************************************)
EXTENDS Integers, FiniteSets

CONSTANTS Ids,          \* torrent IDs
          NoId,
          MaxObjects,   \* bound: Torrent objects created
          FileIds,      \* the IDs that are added by a torrent file,
          MagnetIds,    \* and by a magnet
          RootOf,       \* the storage root each torrent ID is saved under
          Roots,
          Callers,      \* concurrent API requests
          SettingsSet,  \* bound: the settings UpdateSettings is called with
          Requests,     \* bound: which other calls come for which ID
          MaxOps        \* bound: API calls that add no torrent

Objects == 1 .. MaxObjects
Nobody  == 0
Goals   == {"off", "stop", "remove"}

ASSUME EngineAssumption ==
  /\ MaxObjects \in Nat /\ MaxOps \in Nat
  /\ NoId \notin Ids
  /\ FileIds \subseteq Ids /\ MagnetIds \subseteq Ids
  /\ RootOf \in [Ids -> Roots]
  /\ SettingsSet \subseteq [max : Nat, guard : BOOLEAN, goal : Goals]
  /\ SettingsSet # {}
  /\ Requests \subseteq {"pause", "resume", "remove"} \X Ids

VARIABLES torrents,     \* Engine.torrents: ID to object, Nobody for none
          idOf,         \* Torrent.ID, NoId before the object is created
          state,        \* Torrent.State
          queued,       \* Torrent.Queued
          guardPaused,  \* Torrent.GuardPaused
          complete,     \* Torrent.wantedComplete(); of a magnet without metadata,
                        \* whether its length is unknown
          stored,       \* Torrent.storage is there: not so of a magnet without metadata
          settling,     \* metadata is installed, the state not yet checked after it
          settings,     \* Engine.settings: the fields the automation reads
          callPc,       \* where each API request is
          callObj,      \* the object the request holds
          ops,          \* API calls so far that add no torrent (MaxOps bounds it)
          pausedBy,     \* history: who paused the object last
          disturbed,    \* history: an API call made a step since the tick began
          upgraded      \* history: magnets whose metadata was installed since then

tableVars  == <<torrents, idOf>>
flagVars   == <<queued, guardPaused>>
dataVars   == <<complete, stored, settling, upgraded>>
callVars   == <<callPc, callObj, ops>>
engineVars == <<tableVars, state, flagVars, dataVars, settings, callVars, pausedBy, disturbed>>

States    == {"queued", "downloading", "seeding", "paused", "stopped"}
Pausers   == {"none", "user", "goal", "queue", "guard"}
CallSteps == {"idle", "insert", "decide", "setSeeding", "setDownloading",
              "pause", "resume", "stop"}

EngineTypeOK ==
  /\ torrents \in [Ids -> Objects \union {Nobody}]
  /\ idOf \in [Objects -> Ids \union {NoId}]
  /\ state \in [Objects -> States]
  /\ queued \in [Objects -> BOOLEAN]
  /\ guardPaused \in [Objects -> BOOLEAN]
  /\ complete \in [Objects -> BOOLEAN]
  /\ stored \in [Objects -> BOOLEAN]
  /\ settling \in SUBSET Objects
  /\ upgraded \in SUBSET Objects
  /\ settings \in SettingsSet
  /\ callPc \in [Callers -> CallSteps]
  /\ callObj \in [Callers -> Objects \union {Nobody}]
  /\ ops \in 0 .. MaxOps
  /\ pausedBy \in [Objects -> Pausers]
  /\ disturbed \in BOOLEAN

EngineInit ==
  /\ torrents = [i \in Ids |-> Nobody]
  /\ idOf = [o \in Objects |-> NoId]
  /\ state = [o \in Objects |-> "queued"]
  /\ queued = [o \in Objects |-> FALSE]
  /\ guardPaused = [o \in Objects |-> FALSE]
  /\ complete = [o \in Objects |-> FALSE]
  /\ stored = [o \in Objects |-> FALSE]
  /\ settling = {}
  /\ upgraded = {}
  /\ settings \in SettingsSet
  /\ callPc = [c \in Callers |-> "idle"]
  /\ callObj = [c \in Callers |-> Nobody]
  /\ ops = 0
  /\ pausedBy = [o \in Objects |-> "none"]
  /\ disturbed = FALSE

InTable(o)  == \E i \in Ids : torrents[i] = o
TableObjs   == {torrents[i] : i \in Ids} \ {Nobody}
Root(o)     == RootOf[idOf[o]]

(* setState, and the assignments to State under Torrent.mu. *)
SetState(o, st, by) ==
  /\ state' = [state EXCEPT ![o] = st]
  /\ pausedBy' = [pausedBy EXCEPT ![o] = by]

WantedState(o) == IF complete[o] THEN "seeding" ELSE "downloading"

-----------------------------------------------------------------------------
(* The steps of an API request. *)
Call(c, step, o) ==
  /\ callPc' = [callPc EXCEPT ![c] = step]
  /\ callObj' = [callObj EXCEPT ![c] = o]
  /\ disturbed' = TRUE

Begin(c, step, o) ==
  /\ callPc[c] = "idle"
  /\ Call(c, step, o)

CountOp == ops < MaxOps /\ ops' = ops + 1

Return(c) == Call(c, "idle", Nobody) /\ UNCHANGED ops

(* A new object for ID i.  An ID that is taken changes nothing. *)
Create(o, i) ==
  /\ idOf[o] = NoId
  /\ \A p \in 1 .. o - 1 : idOf[p] # NoId
  /\ torrents[i] = Nobody
  /\ idOf' = [idOf EXCEPT ![o] = i]

(* The first half of AddTorrent: the ID is free, storage.New scans what is  *)
(* on disk, Engine.mu is released.                                          *)
AddCheck(c, i, scan) ==
  \E o \in Objects :
    /\ Create(o, i)
    /\ complete' = [complete EXCEPT ![o] = scan]
    /\ stored' = [stored EXCEPT ![o] = TRUE]
    /\ Begin(c, "insert", o)
    /\ UNCHANGED <<torrents, state, flagVars, settling, upgraded, settings, ops, pausedBy>>

(* AddMagnet inserts before it releases Engine.mu, and then starts the       *)
(* download; noLength: the magnet does not tell its size.                    *)
AddMagnet(c, i, noLength) ==
  \E o \in Objects :
    /\ Create(o, i)
    /\ torrents' = [torrents EXCEPT ![i] = o]
    /\ complete' = [complete EXCEPT ![o] = noLength]
    /\ Begin(c, "setDownloading", o)
    /\ UNCHANGED <<state, flagVars, stored, settling, upgraded, settings, ops, pausedBy>>

AddInsert(c) ==
  /\ callPc[c] = "insert"
  /\ torrents' = [torrents EXCEPT ![idOf[callObj[c]]] = callObj[c]]
  /\ Call(c, "decide", callObj[c])
  /\ UNCHANGED <<idOf, state, flagVars, dataVars, settings, ops, pausedBy>>

AddDecide(c) ==
  /\ callPc[c] = "decide"
  /\ Call(c, IF complete[callObj[c]] THEN "setSeeding" ELSE "setDownloading", callObj[c])
  /\ UNCHANGED <<tableVars, state, flagVars, dataVars, settings, ops, pausedBy>>

AddStart(c) ==
  /\ callPc[c] \in {"setSeeding", "setDownloading"}
  /\ SetState(callObj[c], IF callPc[c] = "setSeeding" THEN "seeding" ELSE "downloading", "none")
  /\ Return(c)
  /\ UNCHANGED <<tableVars, flagVars, dataVars, settings>>

(* GetTorrent of Pause and of Resume: an unknown ID changes nothing. *)
Lookup(c, i, step) ==
  /\ <<step, i>> \in Requests
  /\ torrents[i] # Nobody
  /\ Begin(c, step, torrents[i])
  /\ CountOp
  /\ UNCHANGED <<tableVars, state, flagVars, dataVars, settings, pausedBy>>

Pause(c) ==
  /\ callPc[c] = "pause"
  /\ SetState(callObj[c], "paused", "user")
  /\ Return(c)
  /\ UNCHANGED <<tableVars, flagVars, dataVars, settings>>

Resume(c) ==
  /\ callPc[c] = "resume"
  /\ SetState(callObj[c], WantedState(callObj[c]), "none")
  /\ Return(c)
  /\ UNCHANGED <<tableVars, flagVars, dataVars, settings>>

RemoveEntry(c, i) ==
  /\ <<"remove", i>> \in Requests
  /\ torrents[i] # Nobody
  /\ torrents' = [torrents EXCEPT ![i] = Nobody]
  /\ Begin(c, "stop", torrents[i])
  /\ CountOp
  /\ UNCHANGED <<idOf, state, flagVars, dataVars, settings, pausedBy>>

RemoveStop(c) ==
  /\ callPc[c] = "stop"
  /\ SetState(callObj[c], "stopped", "none")
  /\ Return(c)
  /\ UNCHANGED <<tableVars, flagVars, dataVars, settings>>

UpdateSettings(s) ==
  /\ CountOp
  /\ settings' = s
  /\ disturbed' = TRUE
  /\ UNCHANGED <<tableVars, state, flagVars, dataVars, callPc, callObj, pausedBy>>

(* A peer that connects to us may start a session once the torrent is in the *)
(* table, before the call that adds it has set its state.                    *)
MayHaveSessions(o) ==
  idOf[o] # NoId /\ \A c \in Callers : ~(callPc[c] = "insert" /\ callObj[c] = o)

(* The torrent's last wanted piece arrives: its sessions keep downloading    *)
(* while it is paused, and only a downloading torrent turns to seeding.      *)
FinishDownload(o) ==
  /\ MayHaveSessions(o)
  /\ stored[o]
  /\ state[o] \in {"queued", "downloading", "paused"}
  /\ ~complete[o]
  /\ complete' = [complete EXCEPT ![o] = TRUE]
  /\ state' = [state EXCEPT ![o] = IF @ = "downloading" THEN "seeding" ELSE @]
  /\ UNCHANGED <<tableVars, flagVars, stored, settling, upgraded, settings, callVars,
                 pausedBy, disturbed>>

(* upgradeMagnet, under Torrent.mu only: the metadata is installed, and the  *)
(* torrent downloads whoever paused it; scan: storage.New found it complete. *)
InstallMetadata(o, scan) ==
  /\ MayHaveSessions(o)
  /\ ~stored[o]
  /\ stored' = [stored EXCEPT ![o] = TRUE]
  /\ complete' = [complete EXCEPT ![o] = scan]
  /\ SetState(o, "downloading", "none")
  /\ settling' = settling \union {o}
  /\ upgraded' = upgraded \union {o}
  /\ UNCHANGED <<tableVars, flagVars, settings, callVars, disturbed>>

(* Its second lock region: what is complete seeds, paused meanwhile or not. *)
SettleState(o) ==
  /\ o \in settling
  /\ settling' = settling \ {o}
  /\ IF complete[o] THEN SetState(o, "seeding", "none") ELSE UNCHANGED <<state, pausedBy>>
  /\ UNCHANGED <<tableVars, flagVars, complete, stored, upgraded, settings, callVars, disturbed>>
=============================================================================
