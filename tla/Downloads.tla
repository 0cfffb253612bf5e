------------------------------ MODULE Downloads -------------------------------
(***************************************************************************)
(* The download manager (dl/dl.go: Add, run, waitScheduled, waitRepeat;    *)
(* dl/extra.go: recordHistory, loadHistory, ClearHistory): the life of the *)
(* tasks and the history of their runs, in memory and on disk.             *)
(*                                                                         *)
(*   none -> wait -> cycle -> work -> end -> save -> over                  *)
(*           wait -> over      cycle <- between <- work                    *)
(*                                                                         *)
(* The history is the sequence of the tasks whose runs it holds; the sums  *)
(* over all runs stand for it too.  Its file is written like the records   *)
(* of torrents, through one temporary file and outside the lock, so its    *)
(* saves are those of SavedFile.                                           *)
(*                                                                         *)
(* Left out: the cut at 500 entries (the sums stay), profiles, the list    *)
(* and its totals.                                                         *)
(***************************************************************************)
EXTENDS Crawl, SavedFile

CONSTANTS Clearer,      \* who calls ClearHistory
          MaxCycles,    \* bound: cycles of a task that repeats
          MaxStops,     \* bound: tasks that are stopped by the user
          MaxEvents     \* bound: calls of ClearHistory and restarts

ASSUME DownloadsAssumption ==
  /\ Clearer \notin Tasks /\ Callers = Tasks \union {Clearer}
  /\ NoFile \notin Seq(Tasks) /\ Empty \notin Seq(Tasks) /\ Broken \notin Seq(Tasks)
  /\ NoFile # Empty /\ NoFile # Broken /\ Empty # Broken
  /\ MaxCycles \in Nat \ {0} /\ MaxStops \in Nat /\ MaxEvents \in Nat

VARIABLES pc,          \* where run is
          state,       \* Task.State
          cycles,      \* Task.Cycles
          runs,        \* Manager.history, and what Manager.base sums up
          clearing,    \* ClearHistory has not removed the file yet
          events,      \* calls of ClearHistory and restarts so far
          solo,        \* history: no other save met that of the task
          overlapped,  \* history: saves met, and none was alone since
          fate         \* history: what the last answer on a run promised

runVars     == <<pc, state, cycles>>
historyVars == <<runs, saveVars, fileVars>>
clearVars   == <<clearing, events>>
promiseVars == <<solo, overlapped, fate>>
vars == <<streamsVars, crawlVars, runVars, historyVars, clearVars, promiseVars>>

\* A run is listed, and counted in the sums, once.
RunLists == {list \in Seq(Tasks) : IsInjective(list)}

TypeOK ==
  /\ StreamsTypeOK /\ CrawlTypeOK
  /\ pc \in [Tasks -> {"none", "wait", "cycle", "work", "between", "end", "save",
                       "over", "lost"}]
  /\ state \in [Tasks -> {"none", "running", "scheduled", "stopped", "error", "done"}]
  /\ cycles \in [Tasks -> 0 .. MaxCycles]
  /\ runs \in RunLists
  /\ snap \in [Callers -> RunLists]
  /\ saveAt \in [Callers -> {"no", "open", "write", "rename"}]
  /\ fd \in [Callers -> {"none", "tmp", "rec", "gone"}]
  /\ {tmpFile, recFile} \subseteq {NoFile, Empty, Broken} \union RunLists
  /\ clearing \in BOOLEAN /\ events \in 0 .. MaxEvents
  /\ solo \in [Callers -> BOOLEAN] /\ overlapped \in BOOLEAN
  /\ fate \in [Tasks -> {"none", "kept", "gone"}]

Init ==
  /\ StreamsInit /\ CrawlInit /\ runs = <<>>
  /\ snap = [c \in Callers |-> <<>>]
  /\ saveAt = [c \in Callers |-> "no"]
  /\ fd = [c \in Callers |-> "none"]
  /\ tmpFile = NoFile /\ recFile = NoFile
  /\ pc = [t \in Tasks |-> "none"]
  /\ state = [t \in Tasks |-> "none"]
  /\ cycles = [t \in Tasks |-> 0]
  /\ clearing = FALSE /\ events = 0
  /\ solo = [c \in Callers |-> FALSE] /\ overlapped = FALSE
  /\ fate = [t \in Tasks |-> "none"]

GoTo(t, next) == pc' = [pc EXCEPT ![t] = next]

-----------------------------------------------------------------------------
Add(t, o) ==
  /\ pc[t] = "none"
  /\ GoTo(t, "wait")
  /\ opts' = [opts EXCEPT ![t] = o]
  /\ state' = [state EXCEPT ![t] = IF o.startAt THEN "scheduled" ELSE "running"]
  /\ UNCHANGED <<stopped, due, reason, countVars, stream, crawlVars, cycles,
                 historyVars, clearVars, promiseVars>>

\* A task that is stopped before its time ends with no record and no notice.
StopWaiting(t) ==
  /\ pc[t] = "wait" /\ opts[t].startAt /\ stopped[t]
  /\ GoTo(t, "over")
  /\ state' = [state EXCEPT ![t] = "stopped"]
  /\ UNCHANGED <<streamsVars, crawlVars, cycles, historyVars, clearVars, promiseVars>>

\* The time has come, or none was set.  The state stays scheduled.
Begin(t) ==
  /\ pc[t] = "wait"
  /\ Poll(t)
  /\ GoTo(t, "cycle")
  /\ UNCHANGED <<opts, stopped, due, countVars, stream, crawlVars, state, cycles,
                 historyVars, clearVars, promiseVars>>

\* A cycle starts, with streams or with a walk and its workers.
Cycle(t) ==
  /\ pc[t] = "cycle"
  /\ CASE stopped[t]    -> GoTo(t, "end") /\ UNCHANGED <<stream, crawlVars>>
       [] ~stopped[t] /\ opts[t].crawl
                        -> GoTo(t, "work") /\ Launch(t, "idle") /\ StartWalk(t)
       [] OTHER         -> GoTo(t, "work") /\ Launch(t, "top") /\ UNCHANGED crawlVars
  /\ UNCHANGED <<opts, stopped, due, reason, countVars, state, cycles, historyVars,
                 clearVars, promiseVars>>

\* After a cycle the task ends or waits for the next one.  The limits are looked
\* at after a cycle of streams, and before a wait: a crawl that does not repeat
\* ends without a reason if its limit is reached after its last file.
CycleOver(t) ==
  /\ cycles' = [cycles EXCEPT ![t] = @ + 1]
  /\ IF opts[t].crawl /\ ~opts[t].repeat THEN UNCHANGED reason ELSE Poll(t)
  /\ GoTo(t, IF opts[t].repeat /\ ~Halts(t) THEN "between" ELSE "end")
  /\ UNCHANGED <<opts, stopped, due, countVars, stream, crawlVars, state, historyVars,
                 clearVars, promiseVars>>

\* Variant with the bug: the cycle of a crawl does not wait for the workers.
EndCycleEarly(t) ==
  /\ pc[t] = "work" /\ walk[t] = "gone"
  /\ opts[t].crawl \/ \A s \in Slots : stream[t][s] = Gone
  /\ CycleOver(t)

EndCycle(t) ==
  /\ pc[t] = "work" /\ walk[t] = "gone"
  /\ \A s \in Slots : stream[t][s] = Gone
  /\ CycleOver(t)

\* waitRepeat looks at the user's flag only: a limit of time that is reached
\* here ends the task after one more, empty cycle.
NextCycle(t) ==
  /\ pc[t] = "between"
  /\ stopped[t] \/ cycles[t] < MaxCycles
  /\ GoTo(t, IF stopped[t] THEN "end" ELSE "cycle")
  /\ UNCHANGED <<streamsVars, crawlVars, state, cycles, historyVars, clearVars,
                 promiseVars>>

-----------------------------------------------------------------------------
FinalState(t) ==
  CASE stopped[t]                        -> "stopped"
    [] ~stopped[t] /\ reason[t] # ""     -> "done"
    [] ~stopped[t] /\ reason[t] = "" /\ error[t] -> "error"
    [] OTHER                             -> "done"

\* A save, or the removal of the file, begins: those under way are not alone.
Meet(c) ==
  LET others == clearing \/ \E d \in Callers \ {c} : Saving(d)
  IN  /\ solo' = [d \in Callers |-> d = c /\ ~others]
      /\ overlapped' = (overlapped \/ others)

\* Variant with the bug: the snapshot is taken before the run is added.
ConcludeBefore(t) ==
  /\ pc[t] = "end"
  /\ state' = [state EXCEPT ![t] = FinalState(t)]
  /\ runs' = Append(runs, t)
  /\ BeginSave(t, runs)
  /\ Meet(t)
  /\ GoTo(t, "save")
  /\ UNCHANGED <<streamsVars, crawlVars, cycles, clearVars,
                 fate>>

\* The final state, and the first half of recordHistory.
Conclude(t) ==
  /\ pc[t] = "end"
  /\ state' = [state EXCEPT ![t] = FinalState(t)]
  /\ runs' = Append(runs, t)
  /\ BeginSave(t, runs')
  /\ Meet(t)
  /\ GoTo(t, "save")
  /\ UNCHANGED <<streamsVars, crawlVars, cycles, clearVars, fate>>

SaveStep(t) ==
  /\ OpenFile(t) \/ WriteFile(t)
  /\ UNCHANGED <<streamsVars, crawlVars, runVars, runs, clearVars, promiseVars>>

\* The run is on record, and its end is announced.
SaveEnd(t) ==
  /\ RenameFile(t)
  /\ GoTo(t, "over")
  /\ overlapped' = (overlapped /\ ~solo[t])
  /\ solo' = [solo EXCEPT ![t] = FALSE]
  /\ fate' = [fate EXCEPT ![t] = IF t \in Range(runs) THEN "kept" ELSE "none"]
  /\ UNCHANGED <<streamsVars, crawlVars, state, cycles, runs, clearVars>>

\* ClearHistory empties the memory (that of an empty history changes nothing) ...
Clear ==
  /\ ~clearing /\ events < MaxEvents
  /\ runs # <<>> \/ recFile # NoFile
  /\ runs' = <<>>
  /\ clearing' = TRUE /\ events' = events + 1
  /\ Meet(Clearer)
  /\ fate' = [t \in Tasks |-> "none"]
  /\ UNCHANGED <<streamsVars, crawlVars, runVars, saveVars, fileVars>>

\* ... and then removes the file.
ClearEnd ==
  /\ clearing
  /\ clearing' = FALSE
  /\ recFile' = NoFile
  /\ fd' = [c \in Callers |-> IF fd[c] = "rec" THEN "gone" ELSE fd[c]]
  /\ overlapped' = (overlapped /\ ~solo[Clearer])
  /\ solo' = [solo EXCEPT ![Clearer] = FALSE]
  /\ fate' = [t \in Tasks |-> IF pc[t] \in {"over", "lost"} /\ t \notin Range(runs)
                                THEN "gone" ELSE fate[t]]
  /\ UNCHANGED <<streamsVars, crawlVars, runVars, runs, snap, saveAt, tmpFile, events>>

\* What is known of a task after a restart: of one that was under way, nothing.
Forget(f, nothing) == [t \in Tasks |-> IF pc[t] = "over" THEN f[t] ELSE nothing]

\* The process stops and starts again: the tasks are gone, loadHistory reads the
\* file.  What overlapped saves may have broken is promised no longer.
Restart ==
  /\ events < MaxEvents
  /\ events' = events + 1
  /\ pc' = [t \in Tasks |-> IF pc[t] \in {"none", "over"} THEN pc[t] ELSE "lost"]
  /\ opts' = Forget(opts, NoJob)
  /\ stopped' = Forget(stopped, FALSE)
  /\ due' = Forget(due, {}) /\ reason' = Forget(reason, "")
  /\ error' = Forget(error, FALSE)
  /\ files' = Forget(files, 0) /\ loopsDone' = Forget(loopsDone, 0)
  /\ stream' = Forget(stream, [s \in Slots |-> Gone])
  /\ walk' = Forget(walk, "gone")
  /\ dirs' = Forget(dirs, 0) /\ crawled' = Forget(crawled, 0)
  /\ toSend' = Forget(toSend, 0) /\ queue' = Forget(queue, 0)
  /\ found' = Forget(found, 0)
  /\ state' = Forget(state, "none") /\ cycles' = Forget(cycles, 0)
  /\ runs' = Load(recFile)
  /\ ForgetSaves
  /\ clearing' = FALSE
  /\ solo' = [c \in Callers |-> FALSE] /\ overlapped' = FALSE
  /\ fate' = [t \in Tasks |-> IF overlapped THEN "none" ELSE fate[t]]

-----------------------------------------------------------------------------
\* What the task's goroutines do outside the manager.
managerVars == <<runVars, historyVars, clearVars, promiseVars>>

Answered(t, s) ==
  /\ \/ Succeeds(t, s) /\ UNCHANGED crawlVars
     \/ Fetched(t, s)
     \/ \E halted \in BOOLEAN : NotFetched(t, s, halted)
     \/ \E halted \in BOOLEAN, counted \in 0 .. 1 :
          Fails(t, s, halted, counted) /\ UNCHANGED crawlVars
  /\ UNCHANGED managerVars

StreamStep(t, s) ==
  /\ \/ Pass(t, s) /\ UNCHANGED crawlVars
     \/ WaitOver(t, s) /\ UNCHANGED crawlVars
     \/ Take(t, s) \/ Leave(t, s) \/ FetchAgain(t, s)
  /\ UNCHANGED managerVars

Listed(t) ==
  /\ \E new \in 0 .. MaxDirs, n \in 0 .. MaxFound : WalkRead(t, new, n)
  /\ UNCHANGED managerVars

WalkStep(t) == (WalkNext(t) \/ WalkSend(t)) /\ UNCHANGED managerVars

RunStep(t) ==
  \/ StopWaiting(t) \/ Begin(t) \/ Cycle(t) \/ EndCycle(t) \/ NextCycle(t)
  \/ Conclude(t) \/ SaveStep(t) \/ SaveEnd(t)

\* Once its final state is chosen, neither a stop nor a limit changes a task.
Concluded(t) == pc[t] \in {"save", "over"}

User(t) ==
  \/ \E o \in JobsOf[t] : Add(t, o)
  \/ /\ ~Concluded(t) /\ Cardinality({u \in Tasks : stopped[u]}) < MaxStops
     /\ Stop(t)
     /\ UNCHANGED <<crawlVars, managerVars>>

Limit(t) ==
  /\ ~Concluded(t)
  /\ \E limit \in {"size", "time"} : LimitReached(t, limit)
  /\ UNCHANGED <<crawlVars, managerVars>>

Next ==
  \/ \E t \in Tasks :
       \/ User(t) \/ Limit(t) \/ RunStep(t) \/ WalkStep(t) \/ Listed(t)
       \/ \E s \in Slots : StreamStep(t, s) \/ Answered(t, s)
  \/ Clear \/ ClearEnd
  \/ Restart

\* Of the goroutines of a task that can go on, one does, and the time of day
\* comes; servers need not answer.
Progress(t) == RunStep(t) \/ WalkStep(t) \/ \E s \in Slots : StreamStep(t, s)

Fairness == \A t \in Tasks : WF_vars(Progress(t))

Spec     == Init /\ [][Next]_vars
LiveSpec == Spec /\ Fairness

-----------------------------------------------------------------------------
\* A number of files that ends the task is passed by no more than what the other
\* streams had under way: each tests it before a request, then counts one file,
\* of an upload two, and one more for each attempt that a digest failed
\* (stopReached, dl.go:569).
FilesLimited ==
  \A t \in Tasks :
    opts[t] # NoJob /\ opts[t].stopFiles > 0 =>
      files[t] <= opts[t].stopFiles - 1
                    + StreamsOf(opts[t]) * IF opts[t].up THEN opts[t].retries + 2 ELSE 1

\* A task that says done, and names no condition that ended it, has done all it
\* was asked for in every cycle: each loop of each stream, or every file that
\* the walk found (run, dl.go:545).
DoneIsComplete ==
  \A t \in Tasks :
    pc[t] \in {"save", "over"} /\ state[t] = "done" /\ reason[t] = "" =>
      IF opts[t].crawl THEN files[t] = found[t]
      ELSE /\ loopsDone[t] = cycles[t] * StreamsOf(opts[t]) * opts[t].loops
           /\ opts[t].up \/ files[t] = loopsDone[t]

\* The history file tells the truth at every moment, so also after a crash at
\* any step of a save: a run whose end was announced is on it, one that was
\* cleared is not.  Saves that met each other, or the removal of the file, are
\* outside this promise (recordHistory, extra.go:213).
HistorySurvives ==
  ~overlapped =>
    \A t \in Tasks :
      /\ fate[t] = "kept" => t \in Range(Load(recFile))
      /\ fate[t] = "gone" => t \notin Range(Load(recFile))

\* A task that the user stops, or whose work is finite, ends, unless a server
\* leaves it without an answer for good: the client has no deadline (newClient,
\* dl.go:861), and nothing but the arrival of data lets a request see the stop.
Waits(t)  == walk[t] = "read" \/ \E s \in Slots : InRequest(t, s)
Finite(t) == opts[t] # NoJob /\ ~opts[t].repeat /\ (opts[t].crawl \/ opts[t].loops > 0)

TaskEnds ==
  \A t \in Tasks :
    <>(stopped[t] \/ Finite(t)) => <>(pc[t] \in {"over", "lost"}) \/ <>[]Waits(t)
=============================================================================
