------------------------------- MODULE DayStats --------------------------------
(***************************************************************************)
(* The traffic statistics (torrente/stats.go): recordUp counts a block in  *)
(* the sample buffer and, under statsMu, in the totals of today; the tick  *)
(* drains the buffer, closes the day when the date has changed, and every  *)
(* other tick saves the closed days in stats.json.                         *)
(*                                                                         *)
(* Bytes are blocks.  Downloads and connections are counted in the same    *)
(* way and left out, as are the countries and the free-space samples.      *)
(***************************************************************************)
EXTENDS Integers

CONSTANTS Hours,      \* hours of a day
          MaxDate     \* bound: the last date

ASSUME DayStatsAssumption == Hours \in Nat \ {0} /\ MaxDate \in Nat \ {0}

VARIABLES date, hour,   \* time.Now
          counting,     \* recordUp calls between their two counters
          buffer,       \* minBufUp
          samples,      \* the sum of stats.minutes, the chart of the day
          today,        \* stats.day
          dayKey,       \* the date that today belongs to
          days,         \* stats.days, the closed days
          statsFile,    \* the days in stats.json
          credited,     \* history: blocks counted on each date
          unsaved,      \* history: those counted since a save held them
          lost,         \* history: those that a restart took away
          straddled     \* history: calls that the closing of a day met

clockVars == <<date, hour>>
historyOfDays == <<credited, unsaved, lost>>
countVars == <<counting, buffer, samples, today, dayKey, days, historyOfDays, straddled>>
statsVars == <<clockVars, countVars, statsFile>>

Dates == 0 .. MaxDate

StatsTypeOK ==
  /\ date \in Dates /\ hour \in 0 .. Hours - 1
  /\ counting \in Nat /\ buffer \in Nat /\ samples \in Nat /\ today \in Nat
  /\ dayKey \in Dates
  /\ days \in [Dates -> Nat] /\ statsFile \in [Dates -> Nat]
  /\ credited \in [Dates -> Nat] /\ unsaved \in [Dates -> Nat] /\ lost \in [Dates -> Nat]
  /\ straddled \in Nat

\* The process starts on date 1; a block was sent on date 0, and saved.
StatsInit ==
  /\ date = 1 /\ hour \in 0 .. Hours - 1
  /\ counting = 0 /\ buffer = 0 /\ samples = 0 /\ today = 0
  /\ dayKey = date
  /\ statsFile = [d \in Dates |-> IF d < date THEN 1 ELSE 0]
  /\ days = statsFile /\ credited = statsFile
  /\ unsaved = [d \in Dates |-> 0] /\ lost = unsaved
  /\ straddled = 0

PassTime ==
  /\ \/ hour < Hours - 1 /\ hour' = hour + 1 /\ UNCHANGED date
     \/ hour = Hours - 1 /\ hour' = 0 /\ date < MaxDate /\ date' = date + 1
  /\ UNCHANGED <<countVars, statsFile>>

\* recordUp of a block: the atomic counter ...
CountSample ==
  /\ counting' = counting + 1
  /\ buffer' = buffer + 1
  /\ UNCHANGED <<clockVars, samples, today, dayKey, days, historyOfDays, straddled, statsFile>>

\* ... then, under statsMu, the totals of today.
CountToday ==
  /\ counting > 0
  /\ counting' = counting - 1
  /\ today' = today + 1
  /\ credited' = [credited EXCEPT ![dayKey] = @ + 1]
  /\ unsaved' = [unsaved EXCEPT ![dayKey] = @ + 1]
  /\ UNCHANGED <<clockVars, buffer, samples, dayKey, days, lost, straddled, statsFile>>

\* The closed day is counted into the next one.
DrainKeepsToday ==
  /\ buffer' = 0
  /\ samples' = IF date = dayKey THEN samples + buffer ELSE 0
  /\ days' = [days EXCEPT ![dayKey] = @ + (IF date = dayKey THEN 0 ELSE today)]
  /\ dayKey' = date
  /\ UNCHANGED <<clockVars, counting, today, historyOfDays, straddled, statsFile>>

\* The chart goes on over midnight.
DrainKeepsSamples ==
  /\ buffer' = 0 /\ samples' = samples + buffer
  /\ IF date = dayKey
       THEN UNCHANGED <<today, dayKey, days, straddled>>
       ELSE /\ days' = [days EXCEPT ![dayKey] = @ + today]
            /\ today' = 0 /\ dayKey' = date /\ straddled' = counting
  /\ UNCHANGED <<clockVars, counting, historyOfDays, statsFile>>

\* statsTick, the part under statsMu: the samples are dropped with their day.
DrainSamples ==
  /\ buffer' = 0
  /\ IF date = dayKey
       THEN /\ samples' = samples + buffer
            /\ UNCHANGED <<today, dayKey, days, straddled>>
       ELSE /\ samples' = 0 /\ today' = 0
            /\ days' = [days EXCEPT ![dayKey] = @ + today]
            /\ dayKey' = date
            /\ straddled' = counting
  /\ UNCHANGED <<clockVars, counting, historyOfDays, statsFile>>

\* persistStats: the loop is the only one that saves, and the temporary file
\* counts only once it is renamed.  The day that is not over is not saved.
PersistStats ==
  /\ statsFile' = days
  /\ unsaved' = [d \in Dates |-> IF d = dayKey THEN unsaved[d] ELSE 0]
  /\ UNCHANGED <<clockVars, counting, buffer, samples, today, dayKey, days, credited, lost, straddled>>

\* What no save holds is gone when the process stops.
LoseUnsaved ==
  /\ lost' = [d \in Dates |-> lost[d] + unsaved[d]]
  /\ unsaved' = [d \in Dates |-> 0]
  /\ UNCHANGED credited

\* The file is not read at the start.
ReloadNothing ==
  /\ counting' = 0 /\ buffer' = 0 /\ samples' = 0 /\ today' = 0
  /\ dayKey' = date
  /\ days' = [k \in Dates |-> 0]
  /\ LoseUnsaved /\ straddled' = 0
  /\ UNCHANGED <<clockVars, statsFile>>

\* The process starts again: InitStats.
ReloadStats ==
  /\ counting' = 0 /\ buffer' = 0 /\ samples' = 0 /\ today' = 0
  /\ dayKey' = date
  /\ days' = statsFile
  /\ LoseUnsaved /\ straddled' = 0
  /\ UNCHANGED <<clockVars, statsFile>>
=============================================================================
