--------------------------- MODULE StatsLoop_proofs ---------------------------
(***************************************************************************)
(* Proofs about StatsLoop.                                                 *)
(***************************************************************************)
EXTENDS StatsLoop, TLAPS

\* Requests that do not meet store what they set, through a temporary file that
\* nobody else has touched.
FileInv ==
  ~met =>
    /\ LoadSettings(settingsFile) = answered
    /\ (\A c \in Clients : Idle(c)) => settings = answered
    /\ \A c \in Clients : ~Idle(c) =>
         /\ \A d \in Clients : ~Idle(d) => d = c
         /\ mine[c] = settings
         /\ updateAt[c] = "rename" => tmpFile = mine[c]

\* What the file has and has not of a date; of one that is not over, nothing is
\* closed.
SavedOf(d) ==
  /\ statsFile[d] <= days[d]
  /\ d >= dayKey => days[d] = 0
  /\ statsFile[d] + unsaved[d] = days[d] + (IF d = dayKey THEN today ELSE 0)

\* The statistics only grow, and are counted on one date each.
CountInv ==
  /\ BlocksCountedOnce
  /\ ChartMatchesToday
  /\ dayKey <= date
  /\ \A d \in Dates : SavedOf(d)

\* Downloads are held exactly while the night pause is on.  What a tick that has
\* read the settings as they are has done so far: the daily limit, then the night.
CapHolds ==
  /\ settings.patch.cap > 0 /\ today - fresh >= settings.patch.cap => uploadPaused
  /\ uploadPaused => settings.patch.cap > 0 /\ today >= settings.patch.cap

HeldInv ==
  /\ downloadPaused = nightPaused
  /\ settled =>
       /\ tickAt \in {"upload", "download", "pause", "persist"} => cur = settings
       /\ tickAt \in {"upload", "download", "pause"} => CapHolds
       /\ tickAt \in {"download", "pause"} => inNight = NightIsActive(settings.patch, hour)
       /\ tickAt \in {"persist", "asleep"} =>
            /\ nightPaused <=> Night
            /\ Night => uploadPaused
            /\ settings.patch.cap > 0 /\ today - fresh >= settings.patch.cap => uploadPaused
            /\ uploadPaused => Night \/ (settings.patch.cap > 0 /\ today >= settings.patch.cap)

\* The limit that is set while applied says whether the night is.
Due(applied, nightly, daily) == IF applied /\ nightly > 0 THEN nightly ELSE daily

InTick   == tickAt # "asleep"
ReadSets == tickAt \in {"upload", "download", "pause", "persist"}

\* A tick that no update met goes on with the settings as they are; an update
\* that met nothing runs by day, alone, between two ticks.
MeetInv ==
  /\ InTick /\ ~tickMet => /\ \A c \in Clients : ~Applying(c)
                           /\ ReadSets => cur.patch = settings.patch
                           /\ tickAt = "download" /\ ~inNight /\ nightApplied =>
                                upLimit = cur.patch.up
  /\ ~stale =>
       /\ ReadSets => cur.patch = settings.patch
       /\ \A c \in Clients : Applying(c) =>
            /\ ~InTick /\ ~nightApplied
            /\ mine[c].patch = settings.patch
            /\ \A d \in Clients : Applying(d) => d = c

LimitInv ==
  ~stale =>
    /\ (\A c \in Clients : updateAt[c] # "upload") =>
         upLimit = Due(IF tickAt = "download" THEN inNight ELSE nightApplied,
                       settings.patch.nup, settings.patch.up)
    /\ (\A c \in Clients : ~Applying(c)) =>
         downLimit = Due(nightApplied, settings.patch.ndown, settings.patch.down)

IndInv == TypeOK /\ FileInv /\ CountInv /\ HeldInv /\ MeetInv /\ LimitInv

-----------------------------------------------------------------------------
\* The fields of settings.
LEMMA SettingsMade ==
  ASSUME NEW p \in Patches, NEW on \in BOOLEAN
  PROVE  [patch |-> p, token |-> on] \in AllSettings
BY DEF AllSettings

LEMMA SettingsFields ==
  /\ Defaults \in AllSettings
  /\ \A s \in AllSettings :
       /\ s.patch \in Patches /\ s.token \in BOOLEAN
       /\ s.patch.up \in Nat /\ s.patch.down \in Nat
       /\ s.patch.nup \in Nat /\ s.patch.ndown \in Nat /\ s.patch.cap \in Nat
BY SettingsAssumption DEF AllSettings, Defaults

LEMMA AddTyped ==
  ASSUME NEW f \in [Dates -> Nat], NEW d \in Dates, NEW n \in Nat
  PROVE  [f EXCEPT ![d] = f[d] + n] \in [Dates -> Nat]
OBVIOUS

LEMMA DatesAreInts == \A d \in Dates : d \in Int
BY DayStatsAssumption DEF Dates

LEMMA LoadTyped == \A file : LoadSettings(file) \in AllSettings
BY SettingsFields DEF LoadSettings

\* Every step keeps the types of the settings ...
LEMMA SettingsStep ==
  ASSUME TypeOK, [Next]_vars
  PROVE  SettingsTypeOK'
<1> USE SettingsFields, LoadTyped DEF settingsVars, limitVars, fileVars, statsVars, clockVars, countVars, historyOfDays, tickVars, flagVars, historyVars,
        TypeOK, SettingsTypeOK, LoopTypeOK, Contents
<1>1. CASE Sample
  BY <1>1 DEF Sample, DrainSamples
<1>2. CASE CheckDailyLimit
  BY <1>2 DEF CheckDailyLimit
<1>3. CASE ScheduleUpload
  BY <1>3 DEF ScheduleUpload, NightLimit
<1>4. CASE ScheduleDownload
  BY <1>4 DEF ScheduleDownload, NightLimit
<1>5. CASE NightPause
  BY <1>5 DEF NightPause
<1>6. CASE Persist
  BY <1>6 DEF Persist, PersistStats
<1>7. ASSUME NEW c \in Clients, NEW p \in Patches, Update(c, p)
      PROVE  SettingsTypeOK'
  BY <1>7, SettingsMade DEF Update, UpdateSettings, Change, BeginChange, OneEvent, Idle, GoTo
<1>8. ASSUME NEW c \in Clients, ChangeToken(c)
      PROVE  SettingsTypeOK'
  BY <1>8, SettingsMade DEF ChangeToken, SetServerToken, Change, BeginChange, OneEvent, Idle, GoTo
<1>9. ASSUME NEW c \in Clients, ChangeStep(c), SetUploadLimit(c)
      PROVE  SettingsTypeOK'
  BY <1>9 DEF ChangeStep, SetUploadLimit, GoTo
<1>10. ASSUME NEW c \in Clients, ChangeStep(c), SetDownloadLimit(c)
      PROVE  SettingsTypeOK'
  BY <1>10 DEF ChangeStep, SetDownloadLimit, GoTo
<1>11. ASSUME NEW c \in Clients, ChangeStep(c), WriteTmp(c)
      PROVE  SettingsTypeOK'
  BY <1>11 DEF ChangeStep, WriteTmp, GoTo
<1>12. ASSUME NEW c \in Clients, EndChange(c)
      PROVE  SettingsTypeOK'
  BY <1>12 DEF EndChange, RenameTmp, GoTo
<1>13. CASE Clock
  BY <1>13 DEF Clock, PassTime, OneEvent
<1>14. CASE Upload
  BY <1>14 DEF Upload, CountSample, CountToday, OneEvent
<1>15. CASE Restart
  BY <1>15 DEF Restart, ReloadSettings, ReloadStats, LoseUnsaved, OneEvent
<1>16. CASE UNCHANGED vars
  BY <1>16 DEF vars
<1> HIDE DEF settingsVars, limitVars, fileVars, statsVars, clockVars, countVars, historyOfDays, tickVars, flagVars, historyVars, TypeOK, SettingsTypeOK, LoopTypeOK, Contents
<1>17. QED
  BY <1>1, <1>2, <1>3, <1>4, <1>5, <1>6, <1>7, <1>8, <1>9, <1>10, <1>11, <1>12, <1>13, <1>14, <1>15, <1>16 DEF Next, Tick, ChangeStep

\* ... of the statistics ...
LEMMA StatsStep ==
  ASSUME TypeOK, [Next]_vars
  PROVE  StatsTypeOK'
<1> USE DayStatsAssumption DEF settingsVars, limitVars, fileVars, statsVars, clockVars, countVars, historyOfDays, tickVars, flagVars, historyVars,
        TypeOK, StatsTypeOK
<1>1. CASE Sample
  <2>1. /\ UNCHANGED <<date, hour, counting, credited, unsaved, lost, statsFile>>
        /\ buffer' = 0
    BY <1>1 DEF Sample, DrainSamples
  <2>2. CASE date = dayKey
    <3>1. samples' = samples + buffer /\ UNCHANGED <<today, dayKey, days, straddled>>
      BY <1>1, <2>2 DEF Sample, DrainSamples
    <3> QED
      BY <2>1, <3>1
  <2>3. CASE date # dayKey
    <3>1. /\ days' = [days EXCEPT ![dayKey] = days[dayKey] + today]
          /\ samples' = 0 /\ today' = 0 /\ dayKey' = date /\ straddled' = counting
      BY <1>1, <2>3 DEF Sample, DrainSamples
    <3>2. days' \in [Dates -> Nat]
      BY <3>1, AddTyped
    <3> QED
      BY <2>1, <3>1, <3>2
  <2> QED
    BY <2>2, <2>3
<1>2. CASE CheckDailyLimit
  BY <1>2 DEF CheckDailyLimit
<1>3. CASE ScheduleUpload
  BY <1>3 DEF ScheduleUpload, NightLimit
<1>4. CASE ScheduleDownload
  BY <1>4 DEF ScheduleDownload, NightLimit
<1>5. CASE NightPause
  BY <1>5 DEF NightPause
<1>6. CASE Persist
  <2>1. CASE PersistStats
    <3>1. /\ statsFile' = days
          /\ unsaved' = [d \in Dates |-> IF d = dayKey THEN unsaved[d] ELSE 0]
          /\ UNCHANGED <<date, hour, counting, buffer, samples, today, dayKey, days, credited, lost, straddled>>
      BY <2>1 DEF PersistStats
    <3>2. unsaved' \in [Dates -> Nat]
      BY <3>1
    <3> QED
      BY <3>1, <3>2
  <2>2. CASE UNCHANGED statsVars
    BY <2>2
  <2> QED
    BY <1>6, <2>1, <2>2 DEF Persist
<1>7. ASSUME NEW c \in Clients, NEW p \in Patches, Update(c, p)
      PROVE  StatsTypeOK'
  BY <1>7 DEF Update, UpdateSettings, Change, BeginChange, OneEvent, Idle, GoTo
<1>8. ASSUME NEW c \in Clients, ChangeToken(c)
      PROVE  StatsTypeOK'
  BY <1>8 DEF ChangeToken, SetServerToken, Change, BeginChange, OneEvent, Idle, GoTo
<1>9. ASSUME NEW c \in Clients, ChangeStep(c), SetUploadLimit(c)
      PROVE  StatsTypeOK'
  BY <1>9 DEF ChangeStep, SetUploadLimit, GoTo
<1>10. ASSUME NEW c \in Clients, ChangeStep(c), SetDownloadLimit(c)
      PROVE  StatsTypeOK'
  BY <1>10 DEF ChangeStep, SetDownloadLimit, GoTo
<1>11. ASSUME NEW c \in Clients, ChangeStep(c), WriteTmp(c)
      PROVE  StatsTypeOK'
  BY <1>11 DEF ChangeStep, WriteTmp, GoTo
<1>12. ASSUME NEW c \in Clients, EndChange(c)
      PROVE  StatsTypeOK'
  BY <1>12 DEF EndChange, RenameTmp, GoTo
<1>13. CASE Clock
  <2>1. UNCHANGED <<countVars, statsFile>>
    BY <1>13 DEF Clock, PassTime
  <2>2. date' \in Dates /\ hour' \in 0 .. Hours - 1
    <3> USE DEF Dates
    <3>1. CASE hour < Hours - 1 /\ hour' = hour + 1 /\ date' = date
      BY <3>1
    <3>2. CASE hour' = 0 /\ date < MaxDate /\ date' = date + 1
      BY <3>2
    <3> QED
      BY <1>13, <3>1, <3>2 DEF Clock, PassTime
  <2> QED
    BY <2>1, <2>2
<1>14. CASE Upload
  <2>1. CASE CountSample
    BY <2>1 DEF CountSample
  <2>2. CASE CountToday
    <3>1. /\ counting > 0 /\ counting' = counting - 1 /\ today' = today + 1
          /\ UNCHANGED <<date, hour, buffer, samples, dayKey, days, lost, straddled, statsFile>>
          /\ credited' = [credited EXCEPT ![dayKey] = credited[dayKey] + 1]
          /\ unsaved' = [unsaved EXCEPT ![dayKey] = unsaved[dayKey] + 1]
      BY <2>2 DEF CountToday
    <3>2. credited' \in [Dates -> Nat] /\ unsaved' \in [Dates -> Nat]
      BY <3>1, AddTyped
    <3> QED
      BY <3>1, <3>2
  <2> QED
    BY <1>14, <2>1, <2>2 DEF Upload
<1>15. CASE Restart
  <2>1. /\ counting' = 0 /\ buffer' = 0 /\ samples' = 0 /\ today' = 0 /\ dayKey' = date
        /\ days' = statsFile /\ straddled' = 0 /\ UNCHANGED <<date, hour, credited, statsFile>>
        /\ lost' = [d \in Dates |-> lost[d] + unsaved[d]]
        /\ unsaved' = [d \in Dates |-> 0]
    BY <1>15 DEF Restart, ReloadStats, LoseUnsaved
  <2>2. lost' \in [Dates -> Nat] /\ unsaved' \in [Dates -> Nat]
    BY <2>1
  <2> QED
    BY <2>1, <2>2
<1>16. CASE UNCHANGED vars
  BY <1>16 DEF vars
<1> HIDE DEF settingsVars, limitVars, fileVars, statsVars, clockVars, countVars, historyOfDays, tickVars, flagVars, historyVars, TypeOK, StatsTypeOK
<1>17. QED
  BY <1>1, <1>2, <1>3, <1>4, <1>5, <1>6, <1>7, <1>8, <1>9, <1>10, <1>11, <1>12, <1>13, <1>14, <1>15, <1>16 DEF Next, Tick, ChangeStep

\* ... of the loop ...
LEMMA LoopStepTyped ==
  ASSUME TypeOK, [Next]_vars
  PROVE  LoopTypeOK'
<1> USE SettingsFields, StatsLoopAssumption DEF settingsVars, limitVars, fileVars, statsVars, clockVars, countVars, historyOfDays, tickVars, flagVars, historyVars,
        TypeOK, SettingsTypeOK, LoopTypeOK
<1>1. CASE Sample
  BY <1>1 DEF Sample, DrainSamples
<1>2. CASE CheckDailyLimit
  BY <1>2 DEF CheckDailyLimit
<1>3. CASE ScheduleUpload
  BY <1>3 DEF ScheduleUpload, NightLimit, NightIsActive
<1>4. CASE ScheduleDownload
  BY <1>4 DEF ScheduleDownload, NightLimit
<1>5. CASE NightPause
  BY <1>5 DEF NightPause
<1>6. CASE Persist
  <2>1. persistTick' \in 0 .. 1
    BY <1>6 DEF Persist
  <2> QED
    BY <1>6, <2>1 DEF Persist
<1>7. ASSUME NEW c \in Clients, NEW p \in Patches, Update(c, p)
      PROVE  LoopTypeOK'
  BY <1>7 DEF Update, UpdateSettings, Change, BeginChange, OneEvent, Idle, GoTo
<1>8. ASSUME NEW c \in Clients, ChangeToken(c)
      PROVE  LoopTypeOK'
  BY <1>8 DEF ChangeToken, SetServerToken, Change, BeginChange, OneEvent, Idle, GoTo
<1>9. ASSUME NEW c \in Clients, ChangeStep(c), SetUploadLimit(c)
      PROVE  LoopTypeOK'
  BY <1>9 DEF ChangeStep, SetUploadLimit, GoTo
<1>10. ASSUME NEW c \in Clients, ChangeStep(c), SetDownloadLimit(c)
      PROVE  LoopTypeOK'
  BY <1>10 DEF ChangeStep, SetDownloadLimit, GoTo
<1>11. ASSUME NEW c \in Clients, ChangeStep(c), WriteTmp(c)
      PROVE  LoopTypeOK'
  BY <1>11 DEF ChangeStep, WriteTmp, GoTo
<1>12. ASSUME NEW c \in Clients, EndChange(c)
      PROVE  LoopTypeOK'
  BY <1>12 DEF EndChange, RenameTmp, GoTo
<1>13. CASE Clock
  BY <1>13 DEF Clock, PassTime, OneEvent
<1>14. CASE Upload
  BY <1>14 DEF Upload, CountSample, CountToday, OneEvent
<1>15. CASE Restart
  <2>1. events' \in 0 .. MaxEvents
    BY <1>15 DEF Restart, OneEvent
  <2>2. /\ tickAt' = "asleep" /\ cur' = Defaults /\ persistTick' = 0
        /\ inNight' = FALSE /\ nightApplied' = FALSE /\ nightPaused' = FALSE
        /\ uploadPaused' = FALSE /\ downloadPaused' = FALSE
    BY <1>15 DEF Restart
  <2>3. /\ tickAt' \in {"asleep", "limit", "upload", "download", "pause", "persist"}
        /\ persistTick' \in 0 .. 1
    BY <2>2
  <2>4. cur' \in AllSettings
    BY <2>2
  <2> QED
    BY <2>1, <2>2, <2>3, <2>4
<1>16. CASE UNCHANGED vars
  BY <1>16 DEF vars
<1> HIDE DEF settingsVars, limitVars, fileVars, statsVars, clockVars, countVars, historyOfDays, tickVars, flagVars, historyVars, TypeOK, SettingsTypeOK, LoopTypeOK
<1>17. QED
  BY <1>1, <1>2, <1>3, <1>4, <1>5, <1>6, <1>7, <1>8, <1>9, <1>10, <1>11, <1>12, <1>13, <1>14, <1>15, <1>16 DEF Next, Tick, ChangeStep

\* ... and of the history.
LEMMA HistoryStep ==
  ASSUME TypeOK, [Next]_vars
  PROVE  HistoryTypeOK'
<1> USE SettingsFields, LoadTyped DEF settingsVars, limitVars, fileVars, statsVars, clockVars, countVars, historyOfDays, tickVars, flagVars, historyVars,
        TypeOK, SettingsTypeOK, LoopTypeOK, HistoryTypeOK
<1>1. CASE Sample
  BY <1>1 DEF Sample, DrainSamples
<1>2. CASE CheckDailyLimit
  BY <1>2 DEF CheckDailyLimit
<1>3. CASE ScheduleUpload
  BY <1>3 DEF ScheduleUpload, NightLimit
<1>4. CASE ScheduleDownload
  BY <1>4 DEF ScheduleDownload, NightLimit
<1>5. CASE NightPause
  BY <1>5 DEF NightPause
<1>6. CASE Persist
  BY <1>6 DEF Persist, PersistStats
<1>7. ASSUME NEW c \in Clients, NEW p \in Patches, Update(c, p)
      PROVE  HistoryTypeOK'
  BY <1>7 DEF Update, UpdateSettings, Change, BeginChange, OneEvent, Idle, GoTo
<1>8. ASSUME NEW c \in Clients, ChangeToken(c)
      PROVE  HistoryTypeOK'
  BY <1>8 DEF ChangeToken, SetServerToken, Change, BeginChange, OneEvent, Idle, GoTo
<1>9. ASSUME NEW c \in Clients, ChangeStep(c), SetUploadLimit(c)
      PROVE  HistoryTypeOK'
  BY <1>9 DEF ChangeStep, SetUploadLimit, GoTo
<1>10. ASSUME NEW c \in Clients, ChangeStep(c), SetDownloadLimit(c)
      PROVE  HistoryTypeOK'
  BY <1>10 DEF ChangeStep, SetDownloadLimit, GoTo
<1>11. ASSUME NEW c \in Clients, ChangeStep(c), WriteTmp(c)
      PROVE  HistoryTypeOK'
  BY <1>11 DEF ChangeStep, WriteTmp, GoTo
<1>12. ASSUME NEW c \in Clients, EndChange(c)
      PROVE  HistoryTypeOK'
  BY <1>12 DEF EndChange, RenameTmp, GoTo
<1>13. CASE Clock
  BY <1>13 DEF Clock, PassTime, OneEvent
<1>14. CASE Upload
  BY <1>14 DEF Upload, CountSample, CountToday, OneEvent
<1>15. CASE Restart
  BY <1>15 DEF Restart
<1>16. CASE UNCHANGED vars
  BY <1>16 DEF vars
<1> HIDE DEF settingsVars, limitVars, fileVars, statsVars, clockVars, countVars, historyOfDays, tickVars, flagVars, historyVars, TypeOK, SettingsTypeOK, LoopTypeOK, HistoryTypeOK
<1>17. QED
  BY <1>1, <1>2, <1>3, <1>4, <1>5, <1>6, <1>7, <1>8, <1>9, <1>10, <1>11, <1>12, <1>13, <1>14, <1>15, <1>16 DEF Next, Tick, ChangeStep

\* The file holds what was answered.
LEMMA FileStep ==
  ASSUME TypeOK, FileInv, [Next]_vars
  PROVE  FileInv'
<1> USE DEF settingsVars, limitVars, fileVars, statsVars, clockVars, countVars, historyOfDays, tickVars, flagVars, historyVars,
        TypeOK, SettingsTypeOK, FileInv, Idle
<1>1. CASE Sample
  BY <1>1 DEF Sample, DrainSamples
<1>2. CASE CheckDailyLimit
  BY <1>2 DEF CheckDailyLimit
<1>3. CASE ScheduleUpload
  BY <1>3 DEF ScheduleUpload, NightLimit
<1>4. CASE ScheduleDownload
  BY <1>4 DEF ScheduleDownload, NightLimit
<1>5. CASE NightPause
  BY <1>5 DEF NightPause
<1>6. CASE Persist
  BY <1>6 DEF Persist, PersistStats
<1>7. ASSUME NEW c \in Clients, NEW p \in Patches, Update(c, p)
      PROVE  FileInv'
  BY <1>7 DEF Update, UpdateSettings, Change, BeginChange, OneEvent, Idle, GoTo
<1>8. ASSUME NEW c \in Clients, ChangeToken(c)
      PROVE  FileInv'
  BY <1>8 DEF ChangeToken, SetServerToken, Change, BeginChange, OneEvent, Idle, GoTo
<1>9. ASSUME NEW c \in Clients, ChangeStep(c), SetUploadLimit(c)
      PROVE  FileInv'
  BY <1>9 DEF ChangeStep, SetUploadLimit, GoTo
<1>10. ASSUME NEW c \in Clients, ChangeStep(c), SetDownloadLimit(c)
      PROVE  FileInv'
  BY <1>10 DEF ChangeStep, SetDownloadLimit, GoTo
<1>11. ASSUME NEW c \in Clients, ChangeStep(c), WriteTmp(c)
      PROVE  FileInv'
  BY <1>11 DEF ChangeStep, WriteTmp, GoTo, Storing
<1>12. ASSUME NEW c \in Clients, EndChange(c)
      PROVE  FileInv'
  <2>1. ~met => tmpFile \in AllSettings /\ tmpFile # NoFile /\ tmpFile = mine[c] /\ mine[c] = settings
    BY <1>12, SettingsAssumption DEF EndChange, RenameTmp
  <2> QED
    BY <1>12, <2>1 DEF EndChange, RenameTmp, GoTo, LoadSettings
<1>13. CASE Clock
  BY <1>13 DEF Clock, PassTime, OneEvent
<1>14. CASE Upload
  BY <1>14 DEF Upload, CountSample, CountToday, OneEvent
<1>15. CASE Restart
  BY <1>15 DEF Restart, ReloadSettings, ReloadStats, LoseUnsaved, OneEvent, LoadSettings
<1>16. CASE UNCHANGED vars
  BY <1>16 DEF vars
<1> HIDE DEF settingsVars, limitVars, fileVars, statsVars, clockVars, countVars, historyOfDays, tickVars, flagVars, historyVars, TypeOK, SettingsTypeOK, FileInv, Idle
<1>17. QED
  BY <1>1, <1>2, <1>3, <1>4, <1>5, <1>6, <1>7, <1>8, <1>9, <1>10, <1>11, <1>12, <1>13, <1>14, <1>15, <1>16 DEF Next, Tick, ChangeStep

\* Blocks are counted once.
LEMMA CountStep ==
  ASSUME TypeOK, StatsTypeOK', CountInv, [Next]_vars
  PROVE  CountInv'
<1> USE DayStatsAssumption DEF settingsVars, limitVars, fileVars, statsVars, clockVars, countVars, historyOfDays, tickVars, flagVars, historyVars,
        TypeOK, StatsTypeOK, CountInv, SavedOf, BlocksCountedOnce, ChartMatchesToday
<1>1. CASE Sample
  <2>1. UNCHANGED <<date, counting, credited, unsaved, lost, statsFile>> /\ buffer' = 0
    BY <1>1 DEF Sample, DrainSamples
  <2>2. CASE date = dayKey
    BY <1>1, <2>1, <2>2 DEF Sample, DrainSamples
  <2>3. CASE date # dayKey
    <3>1. /\ days' = [days EXCEPT ![dayKey] = @ + today] /\ samples' = 0 /\ today' = 0
          /\ dayKey' = date /\ straddled' = counting
      BY <1>1, <2>3 DEF Sample, DrainSamples
    <3>2. dayKey < date /\ dayKey \in Dates /\ date \in Dates
      <4>1. dayKey \in Dates /\ date \in Dates /\ dayKey <= date
        OBVIOUS
      <4>2. dayKey \in Int /\ date \in Int
        BY <4>1, DatesAreInts
      <4> HIDE DEF TypeOK, StatsTypeOK, CountInv, BlocksCountedOnce, ChartMatchesToday, SavedOf
      <4> QED
        BY <2>3, <4>1, <4>2
    <3>3. /\ days'[dayKey] = days[dayKey] + today
          /\ \A d \in Dates : d # dayKey => days'[d] = days[d]
      BY <3>1
    <3> HIDE DEF Dates
    <3>4. \A d \in Dates : SavedOf(d)'
      BY <2>1, <3>1, <3>2, <3>3, DatesAreInts
    <3>5. BlocksCountedOnce'
      BY <2>1, <3>1, <3>2, <3>3
    <3> QED
      BY <2>1, <3>1, <3>4, <3>5, DatesAreInts
  <2> QED
    BY <2>2, <2>3
<1>2. CASE CheckDailyLimit
  BY <1>2 DEF CheckDailyLimit
<1>3. CASE ScheduleUpload
  BY <1>3 DEF ScheduleUpload, NightLimit
<1>4. CASE ScheduleDownload
  BY <1>4 DEF ScheduleDownload, NightLimit
<1>5. CASE NightPause
  BY <1>5 DEF NightPause
<1>6. CASE Persist
  <2>1. CASE PersistStats
    <3>1. /\ statsFile' = days
          /\ \A d \in Dates : unsaved'[d] = IF d = dayKey THEN unsaved[d] ELSE 0
          /\ UNCHANGED <<date, counting, buffer, samples, today, dayKey, days, credited, lost, straddled>>
      BY <2>1 DEF PersistStats
    <3> HIDE DEF Dates
    <3>2. \A d \in Dates : SavedOf(d)'
      BY <3>1, DatesAreInts
    <3> QED
      BY <3>1, <3>2
  <2>2. CASE UNCHANGED statsVars
    BY <2>2
  <2> QED
    BY <1>6, <2>1, <2>2 DEF Persist
<1>7. ASSUME NEW c \in Clients, NEW p \in Patches, Update(c, p)
      PROVE  CountInv'
  BY <1>7 DEF Update, UpdateSettings, Change, BeginChange, OneEvent, Idle, GoTo
<1>8. ASSUME NEW c \in Clients, ChangeToken(c)
      PROVE  CountInv'
  BY <1>8 DEF ChangeToken, SetServerToken, Change, BeginChange, OneEvent, Idle, GoTo
<1>9. ASSUME NEW c \in Clients, ChangeStep(c), SetUploadLimit(c)
      PROVE  CountInv'
  BY <1>9 DEF ChangeStep, SetUploadLimit, GoTo
<1>10. ASSUME NEW c \in Clients, ChangeStep(c), SetDownloadLimit(c)
      PROVE  CountInv'
  BY <1>10 DEF ChangeStep, SetDownloadLimit, GoTo
<1>11. ASSUME NEW c \in Clients, ChangeStep(c), WriteTmp(c)
      PROVE  CountInv'
  BY <1>11 DEF ChangeStep, WriteTmp, GoTo
<1>12. ASSUME NEW c \in Clients, EndChange(c)
      PROVE  CountInv'
  BY <1>12 DEF EndChange, RenameTmp, GoTo
<1>13. CASE Clock
  <2>1. UNCHANGED <<countVars, statsFile>> /\ (date' = date \/ date' = date + 1)
    BY <1>13 DEF Clock, PassTime
  <2>2. dayKey \in Int /\ date \in Int
    BY DatesAreInts
  <2>3. dayKey' <= date'
    BY <2>1, <2>2
  <2> QED
    BY <2>1, <2>3
<1>14. CASE Upload
  <2>1. CASE CountSample
    BY <2>1 DEF CountSample
  <2>2. CASE CountToday
    <3>1. /\ counting' = counting - 1 /\ today' = today + 1
          /\ UNCHANGED <<date, buffer, samples, dayKey, days, lost, straddled, statsFile>>
      BY <2>2 DEF CountToday
    <3>2. \A d \in Dates : /\ credited'[d] = credited[d] + IF d = dayKey THEN 1 ELSE 0
                           /\ unsaved'[d] = unsaved[d] + IF d = dayKey THEN 1 ELSE 0
      BY <2>2 DEF CountToday
    <3> HIDE DEF Dates
    <3>3. \A d \in Dates : SavedOf(d)'
      BY <3>1, <3>2
    <3>4. BlocksCountedOnce'
      BY <3>1, <3>2
    <3> QED
      BY <3>1, <3>3, <3>4
  <2> QED
    BY <1>14, <2>1, <2>2 DEF Upload
<1>15. CASE Restart
  <2>1. /\ counting' = 0 /\ buffer' = 0 /\ samples' = 0 /\ today' = 0 /\ dayKey' = date
        /\ days' = statsFile /\ straddled' = 0 /\ UNCHANGED <<date, credited, statsFile>>
        /\ \A d \in Dates : lost'[d] = lost[d] + unsaved[d] /\ unsaved'[d] = 0
    BY <1>15 DEF Restart, ReloadStats, LoseUnsaved
  <2> HIDE DEF Dates
  <2>2. \A d \in Dates :
          /\ credited[d] \in Nat /\ lost[d] \in Nat /\ unsaved[d] \in Nat
          /\ days[d] \in Nat /\ statsFile[d] \in Nat
          /\ credited[d] - lost[d] = days[d] + (IF d = dayKey THEN today ELSE 0)
          /\ SavedOf(d)
    OBVIOUS
  <2>3. \A d \in Dates : SavedOf(d)'
    BY <2>1, DatesAreInts
  <2>4. BlocksCountedOnce'
    <3> SUFFICES ASSUME NEW d \in Dates
                 PROVE  credited'[d] - lost'[d] = days'[d] + (IF d = dayKey' THEN today' ELSE 0)
      OBVIOUS
    <3>1. today \in Nat
      OBVIOUS
    <3>2. /\ credited'[d] = credited[d] /\ lost'[d] = lost[d] + unsaved[d]
          /\ days'[d] = statsFile[d] /\ today' = 0
      BY <2>1
    <3> HIDE DEF TypeOK, StatsTypeOK, CountInv, BlocksCountedOnce, ChartMatchesToday
    <3> QED
      BY <2>2, <3>1, <3>2
  <2> QED
    BY <2>1, <2>3, <2>4, DatesAreInts
<1>16. CASE UNCHANGED vars
  BY <1>16 DEF vars
<1> HIDE DEF settingsVars, limitVars, fileVars, statsVars, clockVars, countVars, historyOfDays, tickVars, flagVars, historyVars, TypeOK, StatsTypeOK, CountInv, SavedOf, BlocksCountedOnce, ChartMatchesToday
<1>17. QED
  BY <1>1, <1>2, <1>3, <1>4, <1>5, <1>6, <1>7, <1>8, <1>9, <1>10, <1>11, <1>12, <1>13, <1>14, <1>15, <1>16 DEF Next, Tick, ChangeStep

\* The flags follow the schedule.
LEMMA HeldStep ==
  ASSUME TypeOK, HeldInv, [Next]_vars
  PROVE  HeldInv'
<1> USE DEF settingsVars, limitVars, fileVars, statsVars, clockVars, countVars, historyOfDays, tickVars, flagVars, historyVars,
        TypeOK, LoopTypeOK, HistoryTypeOK, HeldInv, CapHolds, Night
<1>1. CASE Sample
  BY <1>1 DEF Sample, DrainSamples
<1>2. CASE CheckDailyLimit
  <2>1. UNCHANGED <<settings, today, nightPaused, downloadPaused>>
    BY <1>2 DEF CheckDailyLimit
  <2>2. today - 0 = today /\ fresh' = 0
    BY <1>2 DEF CheckDailyLimit, StatsTypeOK
  <2>3. CapHolds'
    BY <1>2, <2>1, <2>2 DEF CheckDailyLimit
  <2>4. tickAt' = "upload" /\ cur' = settings
    BY <1>2 DEF CheckDailyLimit
  <2> QED
    BY <2>1, <2>3, <2>4
<1>3. CASE ScheduleUpload
  BY <1>3 DEF ScheduleUpload, NightLimit
<1>4. CASE ScheduleDownload
  BY <1>4 DEF ScheduleDownload, NightLimit
<1>5. CASE NightPause
  BY <1>5 DEF NightPause
<1>6. CASE Persist
  BY <1>6 DEF Persist, PersistStats
<1>7. ASSUME NEW c \in Clients, NEW p \in Patches, Update(c, p)
      PROVE  HeldInv'
  BY <1>7 DEF Update, UpdateSettings, Change, BeginChange, OneEvent, Idle, GoTo
<1>8. ASSUME NEW c \in Clients, ChangeToken(c)
      PROVE  HeldInv'
  BY <1>8 DEF ChangeToken, SetServerToken, Change, BeginChange, OneEvent, Idle, GoTo
<1>9. ASSUME NEW c \in Clients, ChangeStep(c), SetUploadLimit(c)
      PROVE  HeldInv'
  BY <1>9 DEF ChangeStep, SetUploadLimit, GoTo
<1>10. ASSUME NEW c \in Clients, ChangeStep(c), SetDownloadLimit(c)
      PROVE  HeldInv'
  BY <1>10 DEF ChangeStep, SetDownloadLimit, GoTo
<1>11. ASSUME NEW c \in Clients, ChangeStep(c), WriteTmp(c)
      PROVE  HeldInv'
  BY <1>11 DEF ChangeStep, WriteTmp, GoTo
<1>12. ASSUME NEW c \in Clients, EndChange(c)
      PROVE  HeldInv'
  BY <1>12 DEF EndChange, RenameTmp, GoTo
<1>13. CASE Clock
  BY <1>13 DEF Clock, PassTime, OneEvent
<1>14. CASE Upload
  <2>1. /\ settings.patch.cap \in Nat /\ today \in Nat /\ fresh \in Nat
        /\ today' \in Nat /\ fresh' \in Nat /\ today' >= today
        /\ settled => today' - fresh' = today - fresh
    BY <1>14, SettingsFields DEF Upload, CountSample, CountToday, StatsTypeOK, SettingsTypeOK
  <2>2. UNCHANGED <<settings, hour, cur, inNight, tickAt, nightPaused, uploadPaused, downloadPaused, settled>>
    BY <1>14 DEF Upload, CountSample, CountToday
  <2>3. (settings.patch.cap > 0 /\ today' - fresh' >= settings.patch.cap /\ settled) => today - fresh >= settings.patch.cap
    BY <2>1
  <2>4. today >= settings.patch.cap => today' >= settings.patch.cap
    BY <2>1
  <2> QED
    BY <2>2, <2>3, <2>4
<1>15. CASE Restart
  BY <1>15 DEF Restart, ReloadSettings, ReloadStats, LoseUnsaved, OneEvent
<1>16. CASE UNCHANGED vars
  BY <1>16 DEF vars
<1> HIDE DEF settingsVars, limitVars, fileVars, statsVars, clockVars, countVars, historyOfDays, tickVars, flagVars, historyVars, TypeOK, LoopTypeOK, HistoryTypeOK, HeldInv, CapHolds, Night
<1>17. QED
  BY <1>1, <1>2, <1>3, <1>4, <1>5, <1>6, <1>7, <1>8, <1>9, <1>10, <1>11, <1>12, <1>13, <1>14, <1>15, <1>16 DEF Next, Tick, ChangeStep

\* Updates that met a tick are noted.
LEMMA MeetStep ==
  ASSUME TypeOK, MeetInv, [Next]_vars
  PROVE  MeetInv'
<1> USE DEF settingsVars, limitVars, fileVars, statsVars, clockVars, countVars, historyOfDays, tickVars, flagVars, historyVars,
        TypeOK, SettingsTypeOK, LoopTypeOK, HistoryTypeOK, MeetInv, InTick, ReadSets, Applying
<1>1. CASE Sample
  BY <1>1 DEF Sample, DrainSamples
<1>2. CASE CheckDailyLimit
  BY <1>2 DEF CheckDailyLimit
<1>3. CASE ScheduleUpload
  BY <1>3 DEF ScheduleUpload, NightLimit
<1>4. CASE ScheduleDownload
  BY <1>4 DEF ScheduleDownload, NightLimit
<1>5. CASE NightPause
  BY <1>5 DEF NightPause
<1>6. CASE Persist
  BY <1>6 DEF Persist, PersistStats
<1>7. ASSUME NEW c \in Clients, NEW p \in Patches, Update(c, p)
      PROVE  MeetInv'
  BY <1>7 DEF Update, UpdateSettings, Change, BeginChange, OneEvent, Idle, GoTo
<1>8. ASSUME NEW c \in Clients, ChangeToken(c)
      PROVE  MeetInv'
  BY <1>8 DEF ChangeToken, SetServerToken, Change, BeginChange, OneEvent, Idle, GoTo
<1>9. ASSUME NEW c \in Clients, ChangeStep(c), SetUploadLimit(c)
      PROVE  MeetInv'
  BY <1>9 DEF ChangeStep, SetUploadLimit, GoTo
<1>10. ASSUME NEW c \in Clients, ChangeStep(c), SetDownloadLimit(c)
      PROVE  MeetInv'
  BY <1>10 DEF ChangeStep, SetDownloadLimit, GoTo
<1>11. ASSUME NEW c \in Clients, ChangeStep(c), WriteTmp(c)
      PROVE  MeetInv'
  BY <1>11 DEF ChangeStep, WriteTmp, GoTo
<1>12. ASSUME NEW c \in Clients, EndChange(c)
      PROVE  MeetInv'
  BY <1>12 DEF EndChange, RenameTmp, GoTo
<1>13. CASE Clock
  BY <1>13 DEF Clock, PassTime, OneEvent
<1>14. CASE Upload
  BY <1>14 DEF Upload, CountSample, CountToday, OneEvent
<1>15. CASE Restart
  BY <1>15 DEF Restart, ReloadSettings, ReloadStats, LoseUnsaved, OneEvent
<1>16. CASE UNCHANGED vars
  BY <1>16 DEF vars
<1> HIDE DEF settingsVars, limitVars, fileVars, statsVars, clockVars, countVars, historyOfDays, tickVars, flagVars, historyVars, TypeOK, SettingsTypeOK, LoopTypeOK, HistoryTypeOK, MeetInv, InTick, ReadSets, Applying
<1>17. QED
  BY <1>1, <1>2, <1>3, <1>4, <1>5, <1>6, <1>7, <1>8, <1>9, <1>10, <1>11, <1>12, <1>13, <1>14, <1>15, <1>16 DEF Next, Tick, ChangeStep

\* The limits follow the settings and the night.
LEMMA LimitStep ==
  ASSUME TypeOK, MeetInv, LimitInv, [Next]_vars
  PROVE  LimitInv'
<1> USE SettingsFields DEF settingsVars, limitVars, fileVars, statsVars, clockVars, countVars, historyOfDays, tickVars, flagVars, historyVars,
        TypeOK, SettingsTypeOK, LoopTypeOK, HistoryTypeOK, MeetInv, InTick, ReadSets, LimitInv, Due, Applying
<1>1. CASE Sample
  BY <1>1 DEF Sample, DrainSamples
<1>2. CASE CheckDailyLimit
  BY <1>2 DEF CheckDailyLimit
<1>3. CASE ScheduleUpload
  BY <1>3 DEF ScheduleUpload, NightLimit
<1>4. CASE ScheduleDownload
  BY <1>4 DEF ScheduleDownload, NightLimit
<1>5. CASE NightPause
  BY <1>5 DEF NightPause
<1>6. CASE Persist
  BY <1>6 DEF Persist, PersistStats
<1>7. ASSUME NEW c \in Clients, NEW p \in Patches, Update(c, p)
      PROVE  LimitInv'
  BY <1>7 DEF Update, UpdateSettings, Change, BeginChange, OneEvent, Idle, GoTo
<1>8. ASSUME NEW c \in Clients, ChangeToken(c)
      PROVE  LimitInv'
  BY <1>8 DEF ChangeToken, SetServerToken, Change, BeginChange, OneEvent, Idle, GoTo
<1>9. ASSUME NEW c \in Clients, ChangeStep(c), SetUploadLimit(c)
      PROVE  LimitInv'
  BY <1>9 DEF ChangeStep, SetUploadLimit, GoTo
<1>10. ASSUME NEW c \in Clients, ChangeStep(c), SetDownloadLimit(c)
      PROVE  LimitInv'
  BY <1>10 DEF ChangeStep, SetDownloadLimit, GoTo
<1>11. ASSUME NEW c \in Clients, ChangeStep(c), WriteTmp(c)
      PROVE  LimitInv'
  BY <1>11 DEF ChangeStep, WriteTmp, GoTo
<1>12. ASSUME NEW c \in Clients, EndChange(c)
      PROVE  LimitInv'
  BY <1>12 DEF EndChange, RenameTmp, GoTo
<1>13. CASE Clock
  BY <1>13 DEF Clock, PassTime, OneEvent
<1>14. CASE Upload
  BY <1>14 DEF Upload, CountSample, CountToday, OneEvent
<1>15. CASE Restart
  BY <1>15 DEF Restart, ReloadSettings, ReloadStats, LoseUnsaved, OneEvent
<1>16. CASE UNCHANGED vars
  BY <1>16 DEF vars
<1> HIDE DEF settingsVars, limitVars, fileVars, statsVars, clockVars, countVars, historyOfDays, tickVars, flagVars, historyVars, TypeOK, SettingsTypeOK, LoopTypeOK, HistoryTypeOK, MeetInv, InTick, ReadSets, LimitInv, Due, Applying
<1>17. QED
  BY <1>1, <1>2, <1>3, <1>4, <1>5, <1>6, <1>7, <1>8, <1>9, <1>10, <1>11, <1>12, <1>13, <1>14, <1>15, <1>16 DEF Next, Tick, ChangeStep

LEMMA InitHolds == Init => IndInv
<1> SUFFICES ASSUME Init PROVE IndInv
  OBVIOUS
<1> USE SettingsFields, SettingsAssumption, DayStatsAssumption, StatsLoopAssumption
        DEF Init, SettingsInit, StatsInit
<1>1. SettingsTypeOK
  BY DEF SettingsTypeOK, Contents, Defaults
<1>2. StatsTypeOK
  <2>1. statsFile \in [Dates -> Nat]
    BY DEF Dates
  <2> QED
    BY <2>1 DEF StatsTypeOK, Dates
<1>3. LoopTypeOK /\ HistoryTypeOK
  <2>1. Defaults \in AllSettings
    BY DEF AllSettings, Defaults
  <2>2. events \in 0 .. MaxEvents /\ persistTick \in 0 .. 1
    OBVIOUS
  <2> QED
    BY <2>1, <2>2 DEF LoopTypeOK, HistoryTypeOK
<1>4. FileInv
  BY DEF FileInv, Idle, LoadSettings
<1>5. CountInv
  BY DEF CountInv, SavedOf, BlocksCountedOnce, ChartMatchesToday, Dates
<1>6. HeldInv
  BY DEF HeldInv
<1>7. MeetInv
  BY DEF MeetInv, InTick, ReadSets, Applying
<1>8. LimitInv
  BY DEF LimitInv, Due, Defaults
<1> QED
  BY <1>1, <1>2, <1>3, <1>4, <1>5, <1>6, <1>7, <1>8 DEF IndInv, TypeOK

LEMMA IndStep == IndInv /\ [Next]_vars => IndInv'
<1> SUFFICES ASSUME IndInv, [Next]_vars PROVE IndInv'
  OBVIOUS
<1>1. TypeOK'
  BY SettingsStep, StatsStep, LoopStepTyped, HistoryStep DEF IndInv, TypeOK
<1>2. StatsTypeOK'
  BY <1>1 DEF TypeOK
<1> QED
  BY <1>1, <1>2, FileStep, CountStep, HeldStep, MeetStep, LimitStep DEF IndInv

LEMMA Inductive == Spec => []IndInv
BY InitHolds, IndStep, PTL DEF Spec

-----------------------------------------------------------------------------
\* The variables of the settings, the statistics and the loop have their types,
\* for any number of clients, patches, dates and restarts.
THEOREM StatsLoopTypeCorrect == Spec => []TypeOK
<1>1. IndInv => TypeOK
  BY DEF IndInv
<1> QED
  BY <1>1, Inductive, PTL

\* Between ticks, transfers are held exactly as the schedule and the daily limit
\* say, as long as the hour and the settings are those the tick read.
THEOREM TransfersHeldAsScheduled == Spec => []HeldAsScheduled
<1>1. IndInv => HeldAsScheduled
  BY DEF IndInv, HeldInv, HeldAsScheduled
<1> QED
  BY <1>1, Inductive, PTL

\* The rate limits are those of the settings or of the night, unless an update
\* met a tick, the night or another update.
THEOREM LimitsKept == Spec => []LimitsFollowSettings
<1>1. IndInv => LimitsFollowSettings
  <2> SUFFICES ASSUME IndInv, tickAt = "asleep", ~stale, \A c \in Clients : ~Applying(c)
               PROVE  /\ upLimit = Due(nightApplied, settings.patch.nup, settings.patch.up)
                      /\ downLimit = Due(nightApplied, settings.patch.ndown, settings.patch.down)
    BY DEF LimitsFollowSettings, Due
  <2> QED
    BY DEF IndInv, LimitInv, Applying
<1> QED
  BY <1>1, Inductive, PTL

\* The last answered settings are on file at every step of every store, and are
\* those in force, unless requests met.
THEOREM AnsweredSettingsSurvive == Spec => []SettingsSurvive
<1>1. IndInv => SettingsSurvive
  BY DEF IndInv, FileInv, SettingsSurvive
<1> QED
  BY <1>1, Inductive, PTL

\* Every block is counted on exactly one date.
THEOREM BlocksCounted == Spec => []BlocksCountedOnce
<1>1. IndInv => BlocksCountedOnce
  BY DEF IndInv, CountInv
<1> QED
  BY <1>1, Inductive, PTL

\* The chart of the day shows the blocks that its total counts.
THEOREM ChartKept == Spec => []ChartMatchesToday
<1>1. IndInv => ChartMatchesToday
  BY DEF IndInv, CountInv
<1> QED
  BY <1>1, Inductive, PTL

\* No step takes a saved block back.
THEOREM SavedDaysKept == Spec => SavedDaysStay
<1> DEFINE Stay == \A d \in Dates : statsFile'[d] >= statsFile[d]
<1>1. ASSUME IndInv, [Next]_vars
      PROVE  Stay
  <2>1. CASE statsFile' = statsFile
    <3>1. \A d \in Dates : statsFile[d] \in Nat
      BY <1>1 DEF IndInv, TypeOK, StatsTypeOK
    <3> QED
      BY <2>1, <3>1
  <2>2. CASE statsFile' = days
    <3>1. \A d \in Dates : statsFile[d] <= days[d]
      BY <1>1 DEF IndInv, CountInv, SavedOf
    <3>2. \A d \in Dates : statsFile[d] \in Nat /\ days[d] \in Nat
      BY <1>1 DEF IndInv, TypeOK, StatsTypeOK
    <3> QED
      BY <2>2, <3>1, <3>2
  <2>3. statsFile' = statsFile \/ statsFile' = days
    <3> USE DEF statsVars, clockVars, countVars, historyOfDays
    <3>1. CASE Tick
      BY <3>1 DEF Tick, Sample, DrainSamples, CheckDailyLimit, ScheduleUpload,
                  ScheduleDownload, NightPause, Persist, PersistStats
    <3>2. CASE Clock \/ Upload \/ Restart
      BY <3>2 DEF Clock, PassTime, Upload, CountSample, CountToday, Restart, ReloadStats, LoseUnsaved
    <3>3. CASE UNCHANGED vars
      BY <3>3 DEF vars
    <3>4. CASE \E c \in Clients : \/ \E p \in Patches : Update(c, p)
                                  \/ ChangeToken(c) \/ ChangeStep(c) \/ EndChange(c)
      BY <3>4 DEF Update, ChangeToken, BeginChange, ChangeStep, EndChange
    <3> QED
      BY <1>1, <3>1, <3>2, <3>3, <3>4 DEF Next
  <2> QED
    BY <2>1, <2>2, <2>3
<1>2. IndInv /\ [Next]_vars => [Stay]_vars
  BY <1>1
<1> QED
  BY <1>2, Inductive, PTL DEF Spec, SavedDaysStay
=============================================================================
