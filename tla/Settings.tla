------------------------------- MODULE Settings --------------------------------
(***************************************************************************)
(* The settings of the engine (torrente/settings.go) and the two rate      *)
(* limits they set: UpdateSettings takes e.mu for the settings and once    *)
(* more for each limit, then stores the file without it; AddDisk,          *)
(* RemoveDisk and SetServerToken only change and store the settings.       *)
(*                                                                         *)
(* storeSettings writes settings.json.tmp and renames it.  All saves share *)
(* that name: two that meet may tear what either of them writes.  Records  *)
(* takes such a save apart into its system calls; here a file is a whole   *)
(* content or torn.                                                        *)
(***************************************************************************)
EXTENDS Integers

CONSTANTS Clients,       \* requests of the web API
          Patches,       \* what a client may send to UpdateSettings
          DefaultPatch,  \* DefaultSettings: one of them
          NoFile,        \* content of a file that does not exist
          Torn           \* content that does not parse

\* ServerToken is no part of a patch and survives one.
AllSettings == [patch : Patches, token : BOOLEAN]
Defaults == [patch |-> DefaultPatch, token |-> FALSE]

ASSUME SettingsAssumption ==
  /\ DefaultPatch \in Patches
  /\ NoFile \notin AllSettings /\ Torn \notin AllSettings /\ NoFile # Torn
  /\ \A p \in Patches :
       /\ p.up \in Nat /\ p.down \in Nat /\ p.cap \in Nat
       /\ p.night \in BOOLEAN /\ p.nup \in Nat /\ p.ndown \in Nat /\ p.pause \in BOOLEAN

VARIABLES settings,       \* Engine.settings
          upLimit,        \* rate of the upload limiter, 0 for none
          downLimit,      \* rate of the download limiter
          updateAt,       \* where a request is
          mine,           \* the settings it goes on with
          tmpFile,        \* settings.json.tmp
          settingsFile    \* settings.json

limitVars    == <<upLimit, downLimit>>
fileVars     == <<tmpFile, settingsFile>>
settingsVars == <<settings, limitVars, updateAt, mine, fileVars>>

Contents == AllSettings \union {NoFile, Torn}

SettingsTypeOK ==
  /\ settings \in AllSettings
  /\ upLimit \in Nat /\ downLimit \in Nat
  /\ updateAt \in [Clients -> {"idle", "upload", "download", "store", "rename"}]
  /\ mine \in [Clients -> AllSettings]
  /\ tmpFile \in Contents /\ settingsFile \in Contents

\* LoadSettings: a file that is missing or does not parse means the defaults.
LoadSettings(file) == IF file \in AllSettings THEN file ELSE Defaults

SettingsInit ==
  /\ settings = Defaults
  /\ upLimit = DefaultPatch.up /\ downLimit = DefaultPatch.down
  /\ updateAt = [c \in Clients |-> "idle"]
  /\ mine = [c \in Clients |-> Defaults]
  /\ tmpFile = NoFile /\ settingsFile = NoFile

\* The process starts again: InitStats applies what it loads.
ReloadSettings ==
  /\ settings' = LoadSettings(settingsFile)
  /\ upLimit' = settings'.patch.up /\ downLimit' = settings'.patch.down
  /\ updateAt' = [c \in Clients |-> "idle"]
  /\ mine' = [c \in Clients |-> Defaults]
  /\ UNCHANGED <<tmpFile, settingsFile>>

GoTo(c, at) == updateAt' = [updateAt EXCEPT ![c] = at]
Idle(c)     == updateAt[c] = "idle"

\* A request changes the settings under e.mu and goes on with a copy.
Change(c, s, next) ==
  /\ Idle(c)
  /\ settings' = s
  /\ mine' = [mine EXCEPT ![c] = s]
  /\ GoTo(c, next)
  /\ UNCHANGED <<limitVars, fileVars>>

UpdateSettings(c, patch) == Change(c, [patch |-> patch, token |-> settings.token], "upload")

\* SetServerToken, ClearServerToken; AddDisk and RemoveDisk do the same to the
\* list of disks.
SetServerToken(c, on) == Change(c, [patch |-> settings.patch, token |-> on], "store")

SetUploadLimit(c) ==
  /\ updateAt[c] = "upload"
  /\ upLimit' = mine[c].patch.up
  /\ GoTo(c, "download")
  /\ UNCHANGED <<settings, downLimit, mine, fileVars>>

SetDownloadLimit(c) ==
  /\ updateAt[c] = "download"
  /\ downLimit' = mine[c].patch.down
  /\ GoTo(c, "store")
  /\ UNCHANGED <<settings, upLimit, mine, fileVars>>

-----------------------------------------------------------------------------
Storing(c) == updateAt[c] \in {"store", "rename"}

\* storeSettings straight into settings.json.
TruncateInPlace(c) ==
  /\ updateAt[c] = "store"
  /\ tmpFile' = mine[c] /\ settingsFile' = Torn
  /\ GoTo(c, "rename")
  /\ UNCHANGED <<settings, limitVars, mine>>

\* storeSettings: the temporary file is truncated and written ...
WriteTmp(c) ==
  /\ updateAt[c] = "store"
  /\ tmpFile' \in {mine[c]} \union (IF \E d \in Clients \ {c} : Storing(d) THEN {Torn} ELSE {})
  /\ GoTo(c, "rename")
  /\ UNCHANGED <<settings, limitVars, mine, settingsFile>>

\* ... and renamed, unless another save has renamed it already.  The request is
\* answered.
RenameTmp(c) ==
  /\ updateAt[c] = "rename"
  /\ IF tmpFile = NoFile THEN UNCHANGED fileVars
                         ELSE settingsFile' = tmpFile /\ tmpFile' = NoFile
  /\ GoTo(c, "idle")
  /\ mine' = [mine EXCEPT ![c] = Defaults]
  /\ UNCHANGED <<settings, limitVars>>
=============================================================================
