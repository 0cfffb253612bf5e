------------------------------- MODULE StatsLoop -------------------------------
(***************************************************************************)
(* The stats loop (torrente/stats.go): every 30 seconds a tick samples the *)
(* statistics, checks the daily upload limit, and applies the night        *)
(* schedule to the rate limits and the pause flags, while the API changes  *)
(* the settings, blocks are sent, time passes and the process may stop.    *)
(*                                                                         *)
(* A tick has one step per lock region; two regions are one step where     *)
(* what runs between them can only commute.  The share goals and           *)
(* automationTick, which follow the night pause, are in Automation.        *)
(***************************************************************************)
EXTENDS Settings, DayStats

CONSTANT MaxEvents   \* bound: requests, blocks, hours and restarts

ASSUME StatsLoopAssumption == MaxEvents \in Nat

VARIABLES tickAt,           \* where the loop is
          cur,              \* the settings that the tick goes on with
          inNight,          \* whether it found itself in the night window
          nightApplied,     \* Engine.nightApplied: the night limits are set
          nightPaused,      \* Engine.nightPaused
          uploadPaused,     \* Engine.uploadPaused
          downloadPaused,   \* Engine.downloadPaused
          persistTick,      \* local of statsLoop
          events,           \* requests, blocks, hours and restarts so far
          settled,          \* history: no new hour or settings since the tick read them
          fresh,            \* history: blocks counted since the daily limit was checked
          tickMet,          \* history: an update met the tick
          stale,            \* history: an update met a tick, the night or an update
          answered,         \* history: the settings of the last answered request
          met               \* history: requests that change the settings met

tickVars    == <<tickAt, cur, inNight, persistTick>>
flagVars    == <<nightApplied, nightPaused, uploadPaused, downloadPaused>>
historyVars == <<settled, fresh, tickMet, stale, answered, met>>
vars == <<settingsVars, statsVars, tickVars, flagVars, events, historyVars>>

LoopTypeOK ==
  /\ tickAt \in {"asleep", "limit", "upload", "download", "pause", "persist"}
  /\ cur \in AllSettings /\ inNight \in BOOLEAN
  /\ nightApplied \in BOOLEAN /\ nightPaused \in BOOLEAN
  /\ uploadPaused \in BOOLEAN /\ downloadPaused \in BOOLEAN
  /\ persistTick \in 0 .. 1
  /\ events \in 0 .. MaxEvents

HistoryTypeOK ==
  /\ settled \in BOOLEAN /\ fresh \in Nat
  /\ tickMet \in BOOLEAN /\ stale \in BOOLEAN
  /\ answered \in AllSettings /\ met \in BOOLEAN

TypeOK == SettingsTypeOK /\ StatsTypeOK /\ LoopTypeOK /\ HistoryTypeOK

\* nightIsActive: the window [start, end), which may wrap midnight; a window
\* that starts when it ends is the whole day.
NightIsActive(p, h) ==
  /\ p.night
  /\ IF p.start < p.end THEN p.start <= h /\ h < p.end
                        ELSE p.start <= h \/ h < p.end

Init ==
  /\ SettingsInit /\ StatsInit
  /\ tickAt = "asleep" /\ cur = Defaults /\ inNight = FALSE /\ persistTick = 0
  /\ nightApplied = FALSE /\ nightPaused = FALSE
  /\ uploadPaused = FALSE /\ downloadPaused = FALSE
  /\ events = 0
  /\ settled = FALSE /\ fresh = 0 /\ tickMet = FALSE /\ stale = FALSE
  /\ answered = Defaults /\ met = FALSE

-----------------------------------------------------------------------------
OneEvent == events < MaxEvents /\ events' = events + 1

Applying(c) == updateAt[c] \in {"upload", "download"}

\* statsTick up to the sampling of the disks.
Sample ==
  /\ tickAt = "asleep" /\ tickAt' = "limit"
  /\ DrainSamples
  /\ tickMet' = \E c \in Clients : Applying(c)
  /\ stale' = (stale \/ tickMet')
  /\ UNCHANGED <<settingsVars, cur, inNight, persistTick, flagVars, events,
                 settled, fresh, answered, met>>

\* The settings are copied; the daily upload limit alone decides, for now.
CheckDailyLimit ==
  /\ tickAt = "limit" /\ tickAt' = "upload"
  /\ cur' = settings
  /\ uploadPaused' = (settings.patch.cap > 0 /\ today >= settings.patch.cap)
  /\ settled' = TRUE /\ fresh' = 0
  /\ UNCHANGED <<settingsVars, statsVars, inNight, persistTick,
                 nightApplied, nightPaused, downloadPaused, events,
                 tickMet, stale, answered, met>>

\* The limits of the night outlast it.
NightLimitStays(into, nightly, daily, limit) ==
  IF into /\ nightly > 0 THEN nightly ELSE limit

\* The limit that applySchedule leaves: on the way into the night the one for
\* the night, if there is one; on the way out that of the day.
NightLimit(into, nightly, daily, limit) ==
  IF into = nightApplied THEN limit
  ELSE IF into THEN (IF nightly > 0 THEN nightly ELSE limit)
  ELSE daily

\* applySchedule: the time is read again; the upload limit ...
ScheduleUpload ==
  /\ tickAt = "upload" /\ tickAt' = "download"
  /\ inNight' = NightIsActive(cur.patch, hour)
  /\ upLimit' = NightLimit(inNight', cur.patch.nup, cur.patch.up, upLimit)
  /\ UNCHANGED <<settings, downLimit, updateAt, mine, fileVars, statsVars,
                 cur, persistTick, flagVars, events, historyVars>>

\* ... the download limit, and the note that they are set.
ScheduleDownload ==
  /\ tickAt = "download" /\ tickAt' = "pause"
  /\ downLimit' = NightLimit(inNight, cur.patch.ndown, cur.patch.down, downLimit)
  /\ nightApplied' = inNight
  /\ stale' = (stale /\ (tickMet \/ inNight \/ ~nightApplied))
  /\ UNCHANGED <<settings, upLimit, updateAt, mine, fileVars, statsVars,
                 cur, inNight, persistTick, nightPaused, uploadPaused, downloadPaused,
                 events, settled, fresh, tickMet, answered, met>>

\* Uploads are held and let go together with the downloads.
NightPauseOnce ==
  /\ tickAt = "pause" /\ tickAt' = "persist"
  /\ nightPaused' = (inNight /\ cur.patch.pause)
  /\ uploadPaused' = IF nightPaused' = nightPaused THEN uploadPaused ELSE nightPaused'
  /\ downloadPaused' = IF nightPaused' = nightPaused THEN downloadPaused ELSE nightPaused'
  /\ UNCHANGED <<settingsVars, statsVars, cur, inNight, persistTick, nightApplied,
                 events, historyVars>>

\* The full pause: uploads are held again at each tick, downloads once.
NightPause ==
  /\ tickAt = "pause" /\ tickAt' = "persist"
  /\ nightPaused' = (inNight /\ cur.patch.pause)
  /\ uploadPaused' = (uploadPaused \/ nightPaused')
  /\ downloadPaused' = IF nightPaused' = nightPaused THEN downloadPaused ELSE nightPaused'
  /\ UNCHANGED <<settingsVars, statsVars, cur, inNight, persistTick, nightApplied,
                 events, historyVars>>

\* The count of ticks is never reset.
PersistNoReset ==
  /\ tickAt = "persist" /\ tickAt' = "asleep"
  /\ persistTick' = persistTick + 1
  /\ IF persistTick' >= 2 THEN PersistStats ELSE UNCHANGED statsVars
  /\ cur' = Defaults /\ inNight' = FALSE /\ tickMet' = FALSE
  /\ UNCHANGED <<settingsVars, flagVars, events, settled, fresh, stale, answered, met>>

\* Every other tick saves the statistics.
Persist ==
  /\ tickAt = "persist" /\ tickAt' = "asleep"
  /\ persistTick' = (persistTick + 1) % 2
  /\ IF persistTick' = 0 THEN PersistStats ELSE UNCHANGED statsVars
  /\ cur' = Defaults /\ inNight' = FALSE   \* locals of a tick that is over
  /\ tickMet' = FALSE
  /\ UNCHANGED <<settingsVars, flagVars, events, settled, fresh, stale, answered, met>>

Tick == Sample \/ CheckDailyLimit \/ ScheduleUpload \/ ScheduleDownload \/ NightPause \/ Persist

-----------------------------------------------------------------------------
\* A request changes the settings.
BeginChange(c) ==
  /\ OneEvent
  /\ settled' = FALSE /\ fresh' = 0
  /\ met' = (met \/ \E d \in Clients : ~Idle(d))
  /\ UNCHANGED <<statsVars, tickVars, flagVars, answered>>

Update(c, patch) ==
  /\ UpdateSettings(c, patch) /\ BeginChange(c)
  /\ tickMet' = (tickMet \/ tickAt # "asleep")
  /\ stale' = (stale \/ nightApplied \/ tickAt # "asleep" \/ \E d \in Clients : Applying(d))

\* A token is set, or cleared.
ChangeToken(c) ==
  /\ SetServerToken(c, ~settings.token) /\ BeginChange(c)
  /\ UNCHANGED <<tickMet, stale>>

ChangeStep(c) ==
  /\ SetUploadLimit(c) \/ SetDownloadLimit(c) \/ WriteTmp(c)
  /\ UNCHANGED <<statsVars, tickVars, flagVars, events, historyVars>>

\* The last step of a request.
EndChange(c) ==
  /\ RenameTmp(c)
  /\ answered' = mine[c]
  /\ UNCHANGED <<statsVars, tickVars, flagVars, events, settled, fresh, tickMet, stale, met>>

Clock ==
  /\ PassTime /\ OneEvent
  /\ settled' = FALSE /\ fresh' = 0
  /\ UNCHANGED <<settingsVars, tickVars, flagVars, tickMet, stale, answered, met>>

\* A block was sent by a session that passed UploadBlocked at some time before.
Upload ==
  /\ \/ CountSample /\ OneEvent /\ UNCHANGED fresh
     \/ CountToday /\ UNCHANGED events /\ fresh' = IF settled THEN fresh + 1 ELSE 0
  /\ UNCHANGED <<settingsVars, tickVars, flagVars, settled, tickMet, stale, answered, met>>

\* The process stops between any two steps and starts again.
Restart ==
  /\ OneEvent
  /\ ReloadSettings /\ ReloadStats
  /\ tickAt' = "asleep" /\ cur' = Defaults /\ inNight' = FALSE /\ persistTick' = 0
  /\ nightApplied' = FALSE /\ nightPaused' = FALSE
  /\ uploadPaused' = FALSE /\ downloadPaused' = FALSE
  /\ settled' = FALSE /\ fresh' = 0 /\ tickMet' = FALSE /\ stale' = FALSE
  /\ answered' = IF met THEN LoadSettings(settingsFile) ELSE answered
  /\ met' = FALSE

Next ==
  \/ Tick
  \/ \E c \in Clients :
       \/ \E p \in Patches : Update(c, p)
       \/ ChangeToken(c) \/ ChangeStep(c) \/ EndChange(c)
  \/ Clock \/ Upload \/ Restart

Spec == Init /\ [][Next]_vars

-----------------------------------------------------------------------------
Night == NightIsActive(settings.patch, hour) /\ settings.patch.pause

\* After a tick that saw the hour and the settings there still are, transfers
\* are held exactly when the schedule or the daily limit says so: downloads in
\* a night with a full pause, uploads also once the limit is reached, in a night
\* that has just ended too (statsTick, applySchedule).
HeldAsScheduled ==
  tickAt = "asleep" /\ settled =>
    /\ downloadPaused <=> Night
    /\ Night => uploadPaused
    /\ settings.patch.cap > 0 /\ today - fresh >= settings.patch.cap => uploadPaused
    /\ uploadPaused => Night \/ (settings.patch.cap > 0 /\ today >= settings.patch.cap)

\* The rate limits are those of the settings, or of the night once it was
\* applied, unless an update met a tick, the night or another update.  What such
\* an update leaves is put right when the next night ends.
LimitsFollowSettings ==
  LET p == settings.patch
      Limit(nightly, daily) == IF nightApplied /\ nightly > 0 THEN nightly ELSE daily
  IN  tickAt = "asleep" /\ ~stale /\ (\A c \in Clients : ~Applying(c)) =>
        upLimit = Limit(p.nup, p.up) /\ downLimit = Limit(p.ndown, p.down)

\* Whenever the process stops, it starts again with the settings of the last
\* answered request, the access token included, unless requests met; and with no
\* request under way these are the settings it runs with (storeSettings).
SettingsSurvive ==
  ~met => /\ LoadSettings(settingsFile) = answered
          /\ (\A c \in Clients : Idle(c)) => settings = answered

\* Every block that recordUp counted is in the closed day of its date, or in
\* today, through rollovers and restarts; but a restart loses what no save held:
\* the day that was not over, and a day that closed since the last save.
\* README.md:48: statistics survive restarts.
BlocksCountedOnce ==
  \A d \in Dates : credited[d] - lost[d] = days[d] + (IF d = dayKey THEN today ELSE 0)

\* The chart of the day and its total count the same blocks, but for those that
\* were between the two counters when the day began.
ChartMatchesToday == samples + buffer + straddled = today + counting

\* No save of the statistics takes a block back, not even the first one after
\* a restart (InitStats, persistStats).
SavedDaysStay == [][\A d \in Dates : statsFile'[d] >= statsFile[d]]_vars
=============================================================================
