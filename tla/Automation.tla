------------------------------ MODULE Automation ------------------------------
(***************************************************************************)
(* The automation tick (torrente/stats.go statsTick and applySchedule for  *)
(* the share goals, torrente/automation.go for the disk guard and the      *)
(* download queue) against the API calls of module Engine.  Free space is  *)
(* whatever the tick reads.  The tick is one goroutine:                    *)
(*                                                                         *)
(*   idle -> goals -> sample -> guard -> guardPause -> scan -> excess ->   *)
(*   count -> start -> idle                                                *)
(*                                                                         *)
(* A phase that visits every torrent is one step for each visit, because   *)
(* other goroutines need only Torrent.mu to change a torrent that was or   *)
(* was not visited yet.  In "guard", "release" and "scan" the tick holds   *)
(* Engine.mu.                                                              *)
(***************************************************************************)
EXTENDS Engine

VARIABLES tick,     \* where the tick is
          cur,      \* the settings the tick works with
          spaces,   \* the free space it read, against the guard's two thresholds
          todo,     \* objects the phase has not visited
          victim,   \* the object it is acting on, Nobody for none
          active,   \* queueTick: objects that were downloading
          waiting,  \* queueTick: objects that were waiting for a slot
          slots     \* queueTick: slots left, counting starts and torrents that still run

tickVars == <<tick, cur, spaces, todo, victim, active, waiting, slots>>
vars     == <<engineVars, tickVars>>

Levels    == {"low", "middle", "high"}
TickSteps == {"idle", "goals", "goalRemove", "goalStopped", "goalStop", "sample",
              "release", "guard", "guardPause", "scan", "excess", "excessPause",
              "count", "start", "lookup", "resume"}

(* Where the tick is about to do something to its victim. *)
ActsOnVictim ==
  {"goalRemove", "goalStopped", "goalStop", "excessPause", "lookup", "resume"}

TypeOK ==
  /\ EngineTypeOK
  /\ tick \in TickSteps
  /\ cur \in SettingsSet
  /\ spaces \in [Roots -> Levels]
  /\ todo \in SUBSET Objects
  /\ victim \in Objects \union {Nobody}
  /\ active \in SUBSET Objects
  /\ waiting \in SUBSET Objects
  /\ slots \in Int
  /\ tick \in ActsOnVictim => victim \in Objects

Init ==
  /\ EngineInit
  /\ tick = "idle"
  /\ cur = settings
  /\ spaces = [r \in Roots |-> "high"]
  /\ todo = {}
  /\ victim = Nobody
  /\ active = {}
  /\ waiting = {}
  /\ slots = 0

(* Who needs Engine.mu waits while the tick holds it. *)
EngineMuFree == tick \notin {"release", "guard", "scan"}

Oldest(o, S) == o \in S /\ \A p \in S : o <= p

Visit(o) == o \in todo /\ todo' = todo \ {o}

-----------------------------------------------------------------------------
(* statsTick reads the settings; applySchedule lists the torrents. *)
TickStart ==
  /\ tick = "idle"
  /\ cur' = settings
  /\ IF settings.goal = "off"
     THEN tick' = "sample" /\ todo' = {}
     ELSE tick' = "goals" /\ todo' = TableObjs
  /\ spaces' = [r \in Roots |-> "high"]
  /\ victim' = Nobody
  /\ active' = {} /\ waiting' = {} /\ slots' = 0
  /\ disturbed' = FALSE /\ upgraded' = {}
  /\ UNCHANGED <<tableVars, state, flagVars, complete, stored, settling, settings, callVars, pausedBy>>

(* One torrent of the list: whether its goal is reached depends on counters *)
(* and times that are not modelled.                                         *)
GoalCheck(o, reached) ==
  /\ tick = "goals"
  /\ Visit(o)
  /\ reached => state[o] = "seeding"
  /\ IF reached
     THEN victim' = o /\ tick' = IF cur.goal = "remove" THEN "goalRemove" ELSE "goalStop"
     ELSE UNCHANGED <<tick, victim>>
  /\ UNCHANGED <<engineVars, cur, spaces, active, waiting, slots>>

(* RemoveTorrent(t.ID): it looks the ID up again. *)
GoalRemove ==
  /\ tick = "goalRemove"
  /\ victim' = torrents[idOf[victim]]
  /\ torrents' = [torrents EXCEPT ![idOf[victim]] = Nobody]
  /\ tick' = IF torrents[idOf[victim]] = Nobody THEN "goals" ELSE "goalStopped"
  /\ UNCHANGED <<idOf, state, flagVars, dataVars, settings, callVars, pausedBy, disturbed,
                 cur, spaces, todo, active, waiting, slots>>

GoalStop ==
  /\ tick \in {"goalStopped", "goalStop"}
  /\ IF tick = "goalStop" THEN SetState(victim, "paused", "goal")
                          ELSE SetState(victim, "stopped", "none")
  /\ tick' = "goals"
  /\ UNCHANGED <<tableVars, flagVars, dataVars, settings, callVars, disturbed,
                 cur, spaces, todo, victim, active, waiting, slots>>

GoalsDone ==
  /\ tick = "goals" /\ todo = {}
  /\ tick' = "sample"
  /\ victim' = Nobody
  /\ UNCHANGED <<engineVars, cur, spaces, todo, active, waiting, slots>>

-----------------------------------------------------------------------------
(* diskGuardTick: free space is read before Engine.mu is taken. *)
Sample ==
  /\ tick = "sample"
  /\ todo' = TableObjs
  /\ IF cur.guard THEN spaces' \in [Roots -> Levels] /\ tick' = "guard"
                  ELSE tick' = "release" /\ UNCHANGED spaces
  /\ UNCHANGED <<engineVars, cur, victim, active, waiting, slots>>

(* The guard is off: a torrent it paused goes to the queue. *)
ReleaseVisit(o) ==
  /\ tick = "release"
  /\ Visit(o)
  /\ guardPaused' = [guardPaused EXCEPT ![o] = FALSE]
  /\ queued' = [queued EXCEPT ![o] = @ \/ (guardPaused[o] /\ state[o] = "paused")]
  /\ UNCHANGED <<tableVars, state, dataVars, settings, callVars, pausedBy, disturbed,
                 tick, cur, spaces, victim, active, waiting, slots>>

(* Variant with the bug: a torrent that carries the flag is taken to be paused. *)
GuardVisitSkipsFlagged(o) ==
  /\ tick = "guard"
  /\ Visit(o)
  /\ LET pause   == state[o] = "downloading" /\ spaces[Root(o)] = "low" /\ ~guardPaused[o]
         recover == guardPaused[o] /\ state[o] = "paused" /\ spaces[Root(o)] = "high"
     IN  /\ guardPaused' = [guardPaused EXCEPT ![o] = (@ \/ pause) /\ ~recover]
         /\ queued' = [queued EXCEPT ![o] = (@ /\ ~pause) \/ recover]
         /\ active' = IF pause THEN active \union {o} ELSE active
  /\ UNCHANGED <<tableVars, state, dataVars, settings, callVars, pausedBy, disturbed,
                 tick, cur, spaces, victim, waiting, slots>>

(* The guard is on: active collects the torrents to pause (toPause). *)
GuardVisit(o) ==
  /\ tick = "guard"
  /\ Visit(o)
  /\ LET pause   == state[o] = "downloading" /\ spaces[Root(o)] = "low"
         recover == guardPaused[o] /\ state[o] = "paused" /\ spaces[Root(o)] = "high"
     IN  /\ guardPaused' = [guardPaused EXCEPT ![o] = (@ \/ pause) /\ ~recover]
         /\ queued' = [queued EXCEPT ![o] = (@ /\ ~pause) \/ recover]
         /\ active' = IF pause THEN active \union {o} ELSE active
  /\ UNCHANGED <<tableVars, state, dataVars, settings, callVars, pausedBy, disturbed,
                 tick, cur, spaces, victim, waiting, slots>>

GuardDone ==
  /\ tick \in {"release", "guard"} /\ todo = {}
  /\ tick' = "guardPause"
  /\ todo' = active
  /\ active' = {}
  /\ UNCHANGED <<engineVars, cur, spaces, victim, waiting, slots>>

GuardPause(o) ==
  /\ tick = "guardPause"
  /\ Visit(o)
  /\ SetState(o, "paused", "guard")
  /\ UNCHANGED <<tableVars, flagVars, dataVars, settings, callVars, disturbed,
                 tick, cur, spaces, victim, active, waiting, slots>>

GuardPauseDone ==
  /\ tick = "guardPause" /\ todo = {}
  /\ tick' = "scan"
  /\ todo' = TableObjs
  /\ UNCHANGED <<engineVars, cur, spaces, victim, active, waiting, slots>>

-----------------------------------------------------------------------------
(* queueTick *)
QueueVisit(o) ==
  /\ tick = "scan"
  /\ Visit(o)
  /\ active' = IF state[o] = "downloading" THEN active \union {o} ELSE active
  /\ waiting' = IF queued[o] /\ state[o] = "paused" THEN waiting \union {o} ELSE waiting
  /\ UNCHANGED <<engineVars, tick, cur, spaces, victim, slots>>

(* Variant with the bug: the limit lets one more torrent run. *)
BeyondLimitByOne(S) ==
  {o \in S : cur.max > 0 /\ Cardinality({p \in S : p < o}) > cur.max}

(* The newest torrents of S beyond the limit. *)
BeyondLimit(S) ==
  {o \in S : cur.max > 0 /\ Cardinality({p \in S : p < o}) >= cur.max}

QueueScanned ==
  /\ tick = "scan" /\ todo = {}
  /\ tick' = "excess"
  /\ todo' = BeyondLimit(active)
  /\ UNCHANGED <<engineVars, cur, spaces, victim, active, waiting, slots>>

(* Variant with the bug: the torrent is not marked as waiting. *)
ExcessFlagForgotten(o) ==
  /\ tick = "excess" /\ Oldest(o, todo)
  /\ Visit(o)
  /\ victim' = o
  /\ tick' = "excessPause"
  /\ UNCHANGED <<engineVars, cur, spaces, active, waiting, slots>>

ExcessFlag(o) ==
  /\ tick = "excess" /\ Oldest(o, todo)
  /\ Visit(o)
  /\ victim' = o
  /\ queued' = [queued EXCEPT ![o] = TRUE]
  /\ tick' = "excessPause"
  /\ UNCHANGED <<tableVars, state, guardPaused, dataVars, settings, callVars, pausedBy, disturbed,
                 cur, spaces, active, waiting, slots>>

ExcessPause ==
  /\ tick = "excessPause"
  /\ SetState(victim, "paused", "queue")
  /\ victim' = Nobody
  /\ tick' = "excess"
  /\ UNCHANGED <<tableVars, flagVars, dataVars, settings, callVars, disturbed,
                 cur, spaces, todo, active, waiting, slots>>

(* Variant with the bug: one slot too few. *)
ExcessDoneKeepsSlot ==
  /\ tick = "excess" /\ todo = {}
  /\ IF cur.max = 0
     THEN tick' = "start" /\ todo' = waiting /\ slots' = Cardinality(waiting)
     ELSE tick' = "count" /\ todo' = active /\ slots' = cur.max - 1
  /\ UNCHANGED <<engineVars, cur, spaces, victim, active, waiting>>

(* A limit of zero means unlimited: a slot for each waiting torrent.  Else  *)
(* the torrents of active that still run are counted.                       *)
ExcessDone ==
  /\ tick = "excess" /\ todo = {}
  /\ IF cur.max = 0
     THEN tick' = "start" /\ todo' = waiting /\ slots' = Cardinality(waiting)
     ELSE tick' = "count" /\ todo' = active /\ slots' = cur.max
  /\ UNCHANGED <<engineVars, cur, spaces, victim, active, waiting>>

CountVisit(o) ==
  /\ tick = "count"
  /\ Visit(o)
  /\ slots' = IF state[o] = "downloading" THEN slots - 1 ELSE slots
  /\ UNCHANGED <<engineVars, tick, cur, spaces, victim, active, waiting>>

CountDone ==
  /\ tick = "count" /\ todo = {}
  /\ tick' = "start"
  /\ todo' = waiting
  /\ UNCHANGED <<engineVars, cur, spaces, victim, active, waiting, slots>>

(* The longest waiting torrent leaves the queue, then Resume(t.ID). *)
StartNext(o) ==
  /\ tick = "start" /\ slots > 0 /\ Oldest(o, todo)
  /\ Visit(o)
  /\ victim' = o
  /\ queued' = [queued EXCEPT ![o] = FALSE]
  /\ tick' = "lookup"
  /\ UNCHANGED <<tableVars, state, guardPaused, dataVars, settings, callVars, pausedBy, disturbed,
                 cur, spaces, active, waiting, slots>>

(* Variant with the bug: the torrent is taken to be in the table still. *)
StartLookupUnchecked ==
  /\ tick = "lookup"
  /\ victim' = torrents[idOf[victim]]
  /\ tick' = "resume"
  /\ UNCHANGED <<engineVars, cur, spaces, todo, active, waiting, slots>>

StartLookup ==
  /\ tick = "lookup"
  /\ victim' = torrents[idOf[victim]]
  /\ tick' = IF victim' = Nobody THEN "start" ELSE "resume"
  /\ UNCHANGED <<engineVars, cur, spaces, todo, active, waiting, slots>>

StartResume ==
  /\ tick = "resume"
  /\ SetState(victim, WantedState(victim), "none")
  /\ slots' = slots - 1
  /\ victim' = Nobody
  /\ tick' = "start"
  /\ UNCHANGED <<tableVars, flagVars, dataVars, settings, callVars, disturbed,
                 cur, spaces, todo, active, waiting>>

TickEnd ==
  /\ tick = "start"
  /\ slots <= 0 \/ todo = {}
  /\ tick' = "idle"
  /\ todo' = {} /\ active' = {}
  /\ slots' = 0
  /\ UNCHANGED <<engineVars, cur, spaces, victim, waiting>>

-----------------------------------------------------------------------------
TickStep ==
  \/ TickStart
  \/ \E o \in Objects, reached \in BOOLEAN : GoalCheck(o, reached)
  \/ GoalRemove
  \/ GoalStop
  \/ GoalsDone
  \/ Sample
  \/ \E o \in Objects : ReleaseVisit(o)
  \/ \E o \in Objects : GuardVisit(o)
  \/ GuardDone
  \/ \E o \in Objects : GuardPause(o)
  \/ GuardPauseDone
  \/ \E o \in Objects : QueueVisit(o)
  \/ QueueScanned
  \/ \E o \in Objects : ExcessFlag(o)
  \/ ExcessPause
  \/ ExcessDone
  \/ \E o \in Objects : CountVisit(o)
  \/ CountDone
  \/ \E o \in Objects : StartNext(o)
  \/ StartLookup
  \/ StartResume
  \/ TickEnd

(* The steps of a request that take Engine.mu. *)
TableCall(c) ==
  \/ \E i \in FileIds, scan \in BOOLEAN : AddCheck(c, i, scan)
  \/ \E i \in MagnetIds, noLength \in BOOLEAN : AddMagnet(c, i, noLength)
  \/ AddInsert(c)
  \/ \E i \in Ids : Lookup(c, i, "pause")
  \/ \E i \in Ids : Lookup(c, i, "resume")
  \/ \E i \in Ids : RemoveEntry(c, i)

ObjectCall(c) ==
  \/ AddDecide(c)
  \/ AddStart(c)
  \/ Pause(c)
  \/ Resume(c)
  \/ RemoveStop(c)

(* What a request does once it has begun. *)
CallStep(c) == (EngineMuFree /\ AddInsert(c)) \/ ObjectCall(c)

EnvStep ==
  \/ EngineMuFree /\ (\E c \in Callers : TableCall(c)) /\ UNCHANGED tickVars
  \/ (\E c \in Callers : ObjectCall(c)) /\ UNCHANGED tickVars
  \/ EngineMuFree /\ (\E s \in SettingsSet : UpdateSettings(s)) /\ UNCHANGED tickVars
  \/ (\E o \in Objects : FinishDownload(o)) /\ UNCHANGED tickVars
  \/ (\E o \in Objects, scan \in BOOLEAN : InstallMetadata(o, scan)) /\ UNCHANGED tickVars
  \/ (\E o \in Objects : SettleState(o)) /\ UNCHANGED tickVars

Next == TickStep \/ EnvStep

(* A download that runs finishes, metadata arrives and is installed to the   *)
(* end.  Each can happen only finitely often, so that fairness to all of     *)
(* them is fairness to each.                                                 *)
SessionStep ==
  \E o \in Objects :
    \/ state[o] = "downloading" /\ FinishDownload(o)
    \/ \E scan \in BOOLEAN : InstallMetadata(o, scan)
    \/ SettleState(o)

(* The stats loop runs for ever, a request that has begun goes on, and the   *)
(* peers serve.                                                              *)
Fairness ==
  /\ WF_tickVars(TickStep)
  /\ \A c \in Callers : WF_callVars(CallStep(c))
  /\ WF_dataVars(SessionStep)

Spec     == Init /\ [][Next]_vars
LiveSpec == Spec /\ Fairness

-----------------------------------------------------------------------------
Running == {o \in TableObjs : state[o] = "downloading"}

(* Those the tick answers for: upgradeMagnet starts a torrent without asking *)
(* the queue or the guard, and only the next tick sees to it.                *)
RunningOld == Running \ upgraded

(* A tick that no API call met. *)
TickWasAlone == tick = "idle" /\ ~disturbed

(* automation.go: queueTick keeps at most MaxActiveDownloads torrents        *)
(* downloading.  Right after a tick that no API call met this is so, however *)
(* the disk guard, the share goals and downloads that finish meanwhile       *)
(* changed the torrents the limit was computed from.  Torrents whose         *)
(* metadata was installed since the tick began come on top.                  *)
QueueLimitAfterTick ==
  TickWasAlone /\ cur.max > 0 => Cardinality(RunningOld) <= cur.max

(* What the automation paused it can start again: such a torrent carries a   *)
(* flag that a later tick acts on, whatever the user and the tick do to it   *)
(* in between, except on its very way back to work.                          *)
AutoPausedCarriesFlag ==
  \A o \in TableObjs : state[o] = "paused" /\ pausedBy[o] \in {"queue", "guard"} =>
     \/ queued[o] \/ guardPaused[o]
     \/ victim = o /\ tick \in {"lookup", "resume"}

(* README: when a root dips below the floor, all downloading torrents on it  *)
(* pause.  A tick that no API call met leaves a torrent running on a root it *)
(* saw low only if the queue started it or its metadata was installed since. *)
GuardHoldsUnlessQueued ==
  TickWasAlone /\ cur.guard =>
     \A o \in RunningOld : spaces[Root(o)] = "low" => o \in waiting

(* settings.go: torrents the guard paused resume once free space recovers,   *)
(* and the torrents the queue paused start as slots free up.  Neither stays  *)
(* paused for ever on a root that has space, unless somebody else pauses it  *)
(* or removes it, or a torrent that is complete keeps downloading: AddTorrent *)
(* and AddMagnet set a state that they decided on before a session that a    *)
(* peer opened meanwhile finished the download.                              *)
Overlooked(o) == state[o] = "downloading" /\ stored[o] /\ complete[o] /\ o \notin settling

Stranded(o) ==
  /\ InTable(o) /\ state[o] = "paused" /\ pausedBy[o] \in {"queue", "guard"}
  /\ spaces[Root(o)] = "high"
  /\ \A p \in Objects : ~Overlooked(p)

AutoPausedRestarts == \A o \in Objects : []<>~Stranded(o)
=============================================================================
