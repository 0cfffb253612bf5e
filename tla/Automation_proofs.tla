-------------------------- MODULE Automation_proofs --------------------------
(***************************************************************************)
(* Proofs about Automation, for any number of torrents, IDs, roots and     *)
(* concurrent API calls, any settings and any number of ticks.             *)
(***************************************************************************)
EXTENDS Automation, FiniteSetTheorems, TLAPS

Held == todo \union active \union waiting

(* An ID leads to an object of that ID; who holds an object holds one that  *)
(* was created.                                                             *)
TableInv ==
  /\ \A i \in Ids : torrents[i] # Nobody => idOf[torrents[i]] = i
  /\ \A o \in Held : idOf[o] # NoId
  /\ tick \in ActsOnVictim => idOf[victim] # NoId
  /\ \A c \in Callers : callPc[c] # "idle" => callObj[c] \in Objects /\ idOf[callObj[c]] # NoId

TypeInv == TypeOK /\ TableInv

(* An object that AddTorrent has not inserted yet is known to its request   *)
(* only; an object that is not created is known to nobody.                  *)
FreshInv ==
  /\ \A o \in Objects : idOf[o] = NoId => pausedBy[o] = "none"
  /\ \A c \in Callers : callPc[c] = "insert" =>
       /\ pausedBy[callObj[c]] = "none"
       /\ ~InTable(callObj[c])
       /\ callObj[c] \notin Held
       /\ tick \in ActsOnVictim => victim # callObj[c]
       /\ \A d \in Callers \ {c} : callPc[d] # "idle" => callObj[d] # callObj[c]

(* The tick pauses only what it has marked.  The flags are the tick's own,  *)
(* no request touches them.                                                 *)
MarkInv ==
  /\ tick \in {"goals", "goalRemove", "goalStopped", "goalStop", "sample", "release"} => active = {}
  /\ tick = "guard" => \A o \in active : guardPaused[o] /\ o \notin todo
  /\ tick = "guardPause" => \A o \in todo : guardPaused[o]
  /\ tick = "excessPause" => queued[victim]

FlagInv == TypeInv /\ FreshInv /\ MarkInv /\ AutoPausedCarriesFlag

-----------------------------------------------------------------------------
LEMMA WaitersCounted ==
  ASSUME TypeOK PROVE Cardinality(waiting) \in Int
<1>1. IsFiniteSet(Objects)
  BY FS_Interval, EngineAssumption DEF Objects
<1>2. IsFiniteSet(waiting)
  BY <1>1, FS_Subset DEF TypeOK
<1> QED
  BY <1>2, FS_CardinalityType

LEMMA TableObjsCreated ==
  ASSUME TypeInv
  PROVE  TableObjs \subseteq Objects /\ \A o \in TableObjs : idOf[o] # NoId
BY EngineAssumption DEF TypeInv, TypeOK, EngineTypeOK, TableInv, TableObjs, Objects, Nobody

LEMMA LimitTyped ==
  ASSUME TypeOK PROVE cur.max \in Nat /\ cur.max \in Int
BY EngineAssumption DEF TypeOK

LEMMA TypeInit == Init => TypeInv
<1> SUFFICES ASSUME Init PROVE TypeInv
  OBVIOUS
<1>1. EngineTypeOK
  <2>1. ops \in 0 .. MaxOps
    BY EngineAssumption DEF Init, EngineInit
  <2> QED
    BY <2>1 DEF Init, EngineInit, EngineTypeOK, States, Pausers, CallSteps
<1>2. TypeOK
  BY <1>1 DEF Init, EngineInit, TypeOK, Nobody, TickSteps, Levels, ActsOnVictim, EngineTypeOK
<1>3. TableInv
  BY DEF Init, EngineInit, TableInv, Held, ActsOnVictim, Nobody
<1> QED
  BY <1>2, <1>3 DEF TypeInv

(* The steps of the environment, one by one. *)
LEMMA EnvCases ==
  ASSUME EnvStep
  PROVE  /\ UNCHANGED tickVars
         /\ \/ \E c \in Callers, i \in Ids, scan \in BOOLEAN : AddCheck(c, i, scan)
            \/ \E c \in Callers : AddInsert(c)
            \/ \E c \in Callers, i \in Ids, step \in {"pause", "resume"} : Lookup(c, i, step)
            \/ \E c \in Callers, i \in Ids : RemoveEntry(c, i)
            \/ \E c \in Callers : AddDecide(c)
            \/ \E c \in Callers : AddStart(c)
            \/ \E c \in Callers : Pause(c)
            \/ \E c \in Callers : Resume(c)
            \/ \E c \in Callers : RemoveStop(c)
            \/ \E s \in SettingsSet : UpdateSettings(s)
            \/ \E o \in Objects : FinishDownload(o)
            \/ \E c \in Callers, i \in Ids, noLength \in BOOLEAN : AddMagnet(c, i, noLength)
            \/ \E o \in Objects, scan \in BOOLEAN : InstallMetadata(o, scan)
            \/ \E o \in Objects : SettleState(o)
BY EngineAssumption DEF EnvStep, TableCall, ObjectCall

(* A step of a request, or the end of a download, keeps every object where  *)
(* it belongs.                                                              *)
LEMMA EnvTyped ==
  ASSUME TypeInv, EnvStep
  PROVE  TypeInv'
<1> USE EngineAssumption
    DEF TypeInv, TypeOK, EngineTypeOK, TableInv, Held, Objects, Nobody, States, Pausers, CallSteps,
        TickSteps, Levels, ActsOnVictim,
        tableVars, flagVars, dataVars, tickVars
<1>1. CASE (\E c \in Callers, i \in Ids, scan \in BOOLEAN : AddCheck(c, i, scan)) /\ UNCHANGED tickVars
  BY <1>1 DEF AddCheck, Create, Begin, Call
<1>2. CASE (\E c \in Callers : AddInsert(c)) /\ UNCHANGED tickVars
  BY <1>2 DEF AddInsert, Call
<1>3. CASE (\E c \in Callers, i \in Ids, step \in {"pause", "resume"} : Lookup(c, i, step)) /\ UNCHANGED tickVars
  BY <1>3 DEF Lookup, Begin, Call, CountOp
<1>4. CASE (\E c \in Callers, i \in Ids : RemoveEntry(c, i)) /\ UNCHANGED tickVars
  BY <1>4 DEF RemoveEntry, Begin, Call, CountOp
<1>5. CASE (\E c \in Callers : AddDecide(c)) /\ UNCHANGED tickVars
  BY <1>5 DEF AddDecide, Call
<1>6. CASE (\E c \in Callers : AddStart(c)) /\ UNCHANGED tickVars
  BY <1>6 DEF AddStart, Return, Call, SetState
<1>7. CASE (\E c \in Callers : Pause(c)) /\ UNCHANGED tickVars
  BY <1>7 DEF Pause, Return, Call, SetState
<1>8. CASE (\E c \in Callers : Resume(c)) /\ UNCHANGED tickVars
  BY <1>8 DEF Resume, WantedState, Return, Call, SetState
<1>9. CASE (\E c \in Callers : RemoveStop(c)) /\ UNCHANGED tickVars
  BY <1>9 DEF RemoveStop, Return, Call, SetState
<1>10. CASE (\E s \in SettingsSet : UpdateSettings(s)) /\ UNCHANGED tickVars
  <2>1. PICK s \in SettingsSet : UpdateSettings(s)
    BY <1>10
  <2>2. /\ settings' = s /\ ops' = ops + 1 /\ ops < MaxOps /\ disturbed' = TRUE
        /\ UNCHANGED <<torrents, idOf, state, queued, guardPaused, complete, stored, settling, upgraded,
                       callPc, callObj, pausedBy, tickVars>>
    BY <1>10, <2>1 DEF UpdateSettings, CountOp
  <2>3. ops' \in 0 .. MaxOps
    BY <2>2
  <2>4. EngineTypeOK'
    BY <2>2, <2>3
  <2>5. TypeOK' /\ TableInv'
    BY <2>2, <2>4
  <2> QED
    BY <2>5
<1>11. CASE (\E o \in Objects : FinishDownload(o)) /\ UNCHANGED tickVars
  BY <1>11 DEF FinishDownload, callVars
<1>12. CASE (\E c \in Callers, i \in Ids, noLength \in BOOLEAN : AddMagnet(c, i, noLength)) /\ UNCHANGED tickVars
  BY <1>12 DEF AddMagnet, Create, Begin, Call
<1>13. CASE (\E o \in Objects, scan \in BOOLEAN : InstallMetadata(o, scan)) /\ UNCHANGED tickVars
  BY <1>13 DEF InstallMetadata, SetState, callVars
<1>14. CASE (\E o \in Objects : SettleState(o)) /\ UNCHANGED tickVars
  BY <1>14 DEF SettleState, SetState, callVars
<1> QED
  BY <1>1, <1>2, <1>3, <1>4, <1>5, <1>6, <1>7, <1>8, <1>9, <1>10, <1>11, <1>12, <1>13, <1>14, EnvCases

(* So does every step of the tick. *)
LEMMA TickTyped ==
  ASSUME TypeInv, TickStep
  PROVE  TypeInv'
<1> USE EngineAssumption
    DEF TypeInv, TypeOK, EngineTypeOK, TableInv, Held, Objects, Nobody, States, Pausers, CallSteps,
        TickSteps, Levels, ActsOnVictim,
        tableVars, flagVars, dataVars, callVars
<1>1. CASE TickStart
  <2>1. /\ tick' \in {"sample", "goals"} /\ todo' \in {{}, TableObjs}
        /\ cur' = settings /\ spaces' = [r \in Roots |-> "high"]
        /\ victim' = Nobody /\ active' = {} /\ waiting' = {} /\ slots' = 0
        /\ disturbed' = FALSE
        /\ upgraded' = {}
        /\ UNCHANGED <<tableVars, state, flagVars, complete, stored, settling, settings, callVars, pausedBy>>
    BY <1>1 DEF TickStart
  <2>2. EngineTypeOK' /\ idOf' = idOf /\ torrents' = torrents
    BY <2>1
  <2>3. TypeOK'
    BY <2>1, <2>2, TableObjsCreated
  <2>4. TableInv'
    BY <2>1, <2>2, TableObjsCreated
  <2> QED
    BY <2>3, <2>4
<1>2. CASE \E o \in Objects, reached \in BOOLEAN : GoalCheck(o, reached)
  BY <1>2 DEF GoalCheck, Visit, engineVars
<1>3. CASE GoalRemove
  BY <1>3 DEF GoalRemove
<1>4. CASE GoalStop
  BY <1>4 DEF GoalStop, SetState
<1>5. CASE GoalsDone
  BY <1>5 DEF GoalsDone, engineVars
<1>6. CASE Sample
  BY <1>6, TableObjsCreated DEF Sample, engineVars
<1>7. CASE \E o \in Objects : ReleaseVisit(o)
  BY <1>7 DEF ReleaseVisit, Visit
<1>8. CASE \E o \in Objects : GuardVisit(o)
  BY <1>8 DEF GuardVisit, Visit
<1>9. CASE GuardDone
  BY <1>9 DEF GuardDone, engineVars
<1>10. CASE \E o \in Objects : GuardPause(o)
  BY <1>10 DEF GuardPause, Visit, SetState
<1>11. CASE GuardPauseDone
  BY <1>11, TableObjsCreated DEF GuardPauseDone, engineVars
<1>12. CASE \E o \in Objects : QueueVisit(o)
  BY <1>12 DEF QueueVisit, Visit, engineVars
<1>13. CASE QueueScanned
  BY <1>13 DEF QueueScanned, BeyondLimit, engineVars
<1>14. CASE \E o \in Objects : ExcessFlag(o)
  BY <1>14 DEF ExcessFlag, Visit
<1>15. CASE ExcessPause
  BY <1>15 DEF ExcessPause, SetState
<1>16. CASE ExcessDone
  BY <1>16, WaitersCounted, LimitTyped DEF ExcessDone, engineVars
<1>17. CASE \E o \in Objects : CountVisit(o)
  BY <1>17 DEF CountVisit, Visit, engineVars
<1>18. CASE CountDone
  BY <1>18 DEF CountDone, engineVars
<1>19. CASE \E o \in Objects : StartNext(o)
  BY <1>19 DEF StartNext, Visit
<1>20. CASE StartLookup
  BY <1>20 DEF StartLookup, engineVars
<1>21. CASE StartResume
  BY <1>21 DEF StartResume, SetState, WantedState
<1>22. CASE TickEnd
  <2>1. /\ tick' = "idle" /\ todo' = {} /\ active' = {} /\ slots' = 0
        /\ UNCHANGED <<engineVars, cur, spaces, victim, waiting>>
    BY <1>22 DEF TickEnd
  <2>2. EngineTypeOK' /\ idOf' = idOf /\ torrents' = torrents
    BY <2>1 DEF engineVars
  <2>3. TypeOK'
    BY <2>1, <2>2
  <2>4. TableInv'
    BY <2>1, <2>2 DEF engineVars
  <2> QED
    BY <2>3, <2>4
<1> QED
  BY <1>1, <1>2, <1>3, <1>4, <1>5, <1>6, <1>7, <1>8, <1>9, <1>10, <1>11, <1>12, <1>13, <1>14, <1>15, <1>16, <1>17, <1>18, <1>19, <1>20, <1>21, <1>22 DEF TickStep

LEMMA TypeNext == TypeInv /\ [Next]_vars => TypeInv'
<1> SUFFICES ASSUME TypeInv, [Next]_vars PROVE TypeInv'
  OBVIOUS
<1>1. CASE Next
  BY <1>1, TickTyped, EnvTyped DEF Next
<1>2. CASE UNCHANGED vars
  BY <1>2 DEF vars, engineVars, tableVars, dataVars, flagVars, dataVars, callVars, tickVars, TypeInv, TypeOK,
              EngineTypeOK, TableInv, Held
<1> QED
  BY <1>1, <1>2

(* Every variable of the engine and of the tick has its type, and whatever  *)
(* step of AddTorrent, RemoveTorrent and the tick meets which other, the    *)
(* tick acts on a torrent that exists.                                      *)
THEOREM AutomationTypeCorrect == Spec => []TypeOK
<1>1. TypeInv => TypeOK
  BY DEF TypeInv
<1> QED
  BY <1>1, TypeInit, TypeNext, PTL DEF Spec

-----------------------------------------------------------------------------
(* A torrent that is being added stays unknown to everybody else. *)
LEMMA FreshEnv ==
  ASSUME TypeInv, FreshInv, EnvStep
  PROVE  FreshInv'
<1> USE EngineAssumption
    DEF TypeInv, TypeOK, EngineTypeOK, TableInv, Held, Objects, Nobody, ActsOnVictim,
        FreshInv, InTable, tableVars, flagVars, callVars, engineVars, tickVars
<1>1. CASE (\E c \in Callers, i \in Ids, scan \in BOOLEAN : AddCheck(c, i, scan)) /\ UNCHANGED tickVars
  <2>1. PICK c \in Callers, i \in Ids, scan \in BOOLEAN : AddCheck(c, i, scan)
    BY <1>1
  <2>2. PICK o \in Objects : /\ idOf[o] = NoId
                            /\ idOf' = [idOf EXCEPT ![o] = i]
                            /\ Begin(c, "insert", o)
    BY <2>1 DEF AddCheck, Create
  <2>3. UNCHANGED <<torrents, pausedBy, tickVars>>
    BY <1>1, <2>1 DEF AddCheck, Create
  <2>4. /\ pausedBy[o] = "none" /\ ~InTable(o) /\ o \notin Held
        /\ tick \in ActsOnVictim => victim # o
        /\ \A d \in Callers : callPc[d] # "idle" => callObj[d] # o
    <3>1. ~InTable(o)
      <4>1. \A j \in Ids : torrents[j] = o => idOf[o] = j /\ j # NoId
        OBVIOUS
      <4> QED
        BY <2>2, <4>1
    <3>2. o \notin Held /\ (tick \in ActsOnVictim => victim # o)
      BY <2>2
    <3>3. \A d \in Callers : callPc[d] # "idle" => callObj[d] # o
      BY <2>2
    <3>4. pausedBy[o] = "none"
      BY <2>2
    <3> QED
      BY <3>1, <3>2, <3>3, <3>4
  <2>5. \A p \in Objects : idOf'[p] = NoId => pausedBy'[p] = "none"
    BY <2>2, <2>3
  <2>6. /\ callPc' = [callPc EXCEPT ![c] = "insert"]
        /\ callObj' = [callObj EXCEPT ![c] = o]
        /\ callPc[c] = "idle"
    BY <2>2 DEF Begin, Call
  <2> QED
    BY <2>3, <2>4, <2>5, <2>6
<1>2. CASE (\E c \in Callers : AddInsert(c)) /\ UNCHANGED tickVars
  BY <1>2 DEF AddInsert, Call
<1>3. CASE (\E c \in Callers, i \in Ids, step \in {"pause", "resume"} : Lookup(c, i, step)) /\ UNCHANGED tickVars
  BY <1>3 DEF Lookup, Begin, Call, CountOp
<1>4. CASE (\E c \in Callers, i \in Ids : RemoveEntry(c, i)) /\ UNCHANGED tickVars
  BY <1>4 DEF RemoveEntry, Begin, Call, CountOp
<1>5. CASE (\E c \in Callers : AddDecide(c)) /\ UNCHANGED tickVars
  BY <1>5 DEF AddDecide, Call
<1>6. CASE (\E c \in Callers : AddStart(c)) /\ UNCHANGED tickVars
  BY <1>6 DEF AddStart, Return, Call, SetState
<1>7. CASE (\E c \in Callers : Pause(c)) /\ UNCHANGED tickVars
  BY <1>7 DEF Pause, Return, Call, SetState
<1>8. CASE (\E c \in Callers : Resume(c)) /\ UNCHANGED tickVars
  BY <1>8 DEF Resume, WantedState, Return, Call, SetState
<1>9. CASE (\E c \in Callers : RemoveStop(c)) /\ UNCHANGED tickVars
  BY <1>9 DEF RemoveStop, Return, Call, SetState
<1>10. CASE (\E s \in SettingsSet : UpdateSettings(s)) /\ UNCHANGED tickVars
  BY <1>10 DEF UpdateSettings, CountOp
<1>11. CASE (\E o \in Objects : FinishDownload(o)) /\ UNCHANGED tickVars
  BY <1>11 DEF FinishDownload
<1>12. CASE (\E c \in Callers, i \in Ids, noLength \in BOOLEAN : AddMagnet(c, i, noLength)) /\ UNCHANGED tickVars
  BY <1>12 DEF AddMagnet, Create, Begin, Call
<1>13. CASE (\E o \in Objects, scan \in BOOLEAN : InstallMetadata(o, scan)) /\ UNCHANGED tickVars
  BY <1>13 DEF InstallMetadata, SetState
<1>14. CASE (\E o \in Objects : SettleState(o)) /\ UNCHANGED tickVars
  BY <1>14 DEF SettleState, SetState
<1> QED
  BY <1>1, <1>2, <1>3, <1>4, <1>5, <1>6, <1>7, <1>8, <1>9, <1>10, <1>11, <1>12, <1>13, <1>14, EnvCases

LEMMA FreshTick ==
  ASSUME TypeInv, FreshInv, TickStep
  PROVE  FreshInv'
<1> USE EngineAssumption
    DEF TypeInv, TypeOK, EngineTypeOK, TableInv, Held, Objects, Nobody, ActsOnVictim,
        FreshInv, InTable, TableObjs, tableVars, flagVars, callVars, engineVars, tickVars
<1>1. CASE TickStart
  BY <1>1, TableObjsCreated DEF TickStart
<1>2. CASE \E o \in Objects, reached \in BOOLEAN : GoalCheck(o, reached)
  BY <1>2 DEF GoalCheck, Visit
<1>3. CASE GoalRemove
  BY <1>3 DEF GoalRemove
<1>4. CASE GoalStop
  BY <1>4 DEF GoalStop, SetState
<1>5. CASE GoalsDone
  BY <1>5 DEF GoalsDone
<1>6. CASE Sample
  BY <1>6, TableObjsCreated DEF Sample
<1>7. CASE \E o \in Objects : ReleaseVisit(o)
  BY <1>7 DEF ReleaseVisit, Visit
<1>8. CASE \E o \in Objects : GuardVisit(o)
  BY <1>8 DEF GuardVisit, Visit
<1>9. CASE GuardDone
  BY <1>9 DEF GuardDone
<1>10. CASE \E o \in Objects : GuardPause(o)
  BY <1>10 DEF GuardPause, Visit, SetState
<1>11. CASE GuardPauseDone
  BY <1>11, TableObjsCreated DEF GuardPauseDone
<1>12. CASE \E o \in Objects : QueueVisit(o)
  BY <1>12 DEF QueueVisit, Visit
<1>13. CASE QueueScanned
  BY <1>13 DEF QueueScanned, BeyondLimit
<1>14. CASE \E o \in Objects : ExcessFlag(o)
  BY <1>14 DEF ExcessFlag, Visit
<1>15. CASE ExcessPause
  BY <1>15 DEF ExcessPause, SetState
<1>16. CASE ExcessDone
  BY <1>16, LimitTyped, WaitersCounted DEF ExcessDone
<1>17. CASE \E o \in Objects : CountVisit(o)
  BY <1>17 DEF CountVisit, Visit
<1>18. CASE CountDone
  BY <1>18 DEF CountDone
<1>19. CASE \E o \in Objects : StartNext(o)
  BY <1>19 DEF StartNext, Visit
<1>20. CASE StartLookup
  BY <1>20 DEF StartLookup
<1>21. CASE StartResume
  BY <1>21 DEF StartResume, SetState, WantedState
<1>22. CASE TickEnd
  BY <1>22 DEF TickEnd
<1> QED
  BY <1>1, <1>2, <1>3, <1>4, <1>5, <1>6, <1>7, <1>8, <1>9, <1>10, <1>11, <1>12, <1>13, <1>14, <1>15, <1>16, <1>17, <1>18, <1>19, <1>20, <1>21, <1>22 DEF TickStep

(* The tick finds the marks it made. *)
LEMMA MarkEnv ==
  ASSUME TypeInv, MarkInv, EnvStep
  PROVE  MarkInv'
<1> USE EngineAssumption
    DEF TypeInv, TypeOK, EngineTypeOK, MarkInv, ActsOnVictim, tableVars, flagVars, callVars, engineVars, tickVars
<1>1. CASE (\E c \in Callers, i \in Ids, scan \in BOOLEAN : AddCheck(c, i, scan)) /\ UNCHANGED tickVars
  BY <1>1 DEF AddCheck, Create, Begin, Call
<1>2. CASE (\E c \in Callers : AddInsert(c)) /\ UNCHANGED tickVars
  BY <1>2 DEF AddInsert, Call
<1>3. CASE (\E c \in Callers, i \in Ids, step \in {"pause", "resume"} : Lookup(c, i, step)) /\ UNCHANGED tickVars
  BY <1>3 DEF Lookup, Begin, Call, CountOp
<1>4. CASE (\E c \in Callers, i \in Ids : RemoveEntry(c, i)) /\ UNCHANGED tickVars
  BY <1>4 DEF RemoveEntry, Begin, Call, CountOp
<1>5. CASE (\E c \in Callers : AddDecide(c)) /\ UNCHANGED tickVars
  BY <1>5 DEF AddDecide, Call
<1>6. CASE (\E c \in Callers : AddStart(c)) /\ UNCHANGED tickVars
  BY <1>6 DEF AddStart, Return, Call, SetState
<1>7. CASE (\E c \in Callers : Pause(c)) /\ UNCHANGED tickVars
  BY <1>7 DEF Pause, Return, Call, SetState
<1>8. CASE (\E c \in Callers : Resume(c)) /\ UNCHANGED tickVars
  BY <1>8 DEF Resume, WantedState, Return, Call, SetState
<1>9. CASE (\E c \in Callers : RemoveStop(c)) /\ UNCHANGED tickVars
  BY <1>9 DEF RemoveStop, Return, Call, SetState
<1>10. CASE (\E s \in SettingsSet : UpdateSettings(s)) /\ UNCHANGED tickVars
  BY <1>10 DEF UpdateSettings, CountOp
<1>11. CASE (\E o \in Objects : FinishDownload(o)) /\ UNCHANGED tickVars
  BY <1>11 DEF FinishDownload
<1>12. CASE (\E c \in Callers, i \in Ids, noLength \in BOOLEAN : AddMagnet(c, i, noLength)) /\ UNCHANGED tickVars
  BY <1>12 DEF AddMagnet, Create, Begin, Call
<1>13. CASE (\E o \in Objects, scan \in BOOLEAN : InstallMetadata(o, scan)) /\ UNCHANGED tickVars
  BY <1>13 DEF InstallMetadata, SetState
<1>14. CASE (\E o \in Objects : SettleState(o)) /\ UNCHANGED tickVars
  BY <1>14 DEF SettleState, SetState
<1> QED
  BY <1>1, <1>2, <1>3, <1>4, <1>5, <1>6, <1>7, <1>8, <1>9, <1>10, <1>11, <1>12, <1>13, <1>14, EnvCases

LEMMA MarkTick ==
  ASSUME TypeInv, MarkInv, TickStep
  PROVE  MarkInv'
<1> USE EngineAssumption
    DEF TypeInv, TypeOK, EngineTypeOK, MarkInv, ActsOnVictim, tableVars, flagVars, callVars, engineVars, tickVars
<1>1. CASE TickStart
  BY <1>1, TableObjsCreated DEF TickStart
<1>2. CASE \E o \in Objects, reached \in BOOLEAN : GoalCheck(o, reached)
  BY <1>2 DEF GoalCheck, Visit
<1>3. CASE GoalRemove
  BY <1>3 DEF GoalRemove
<1>4. CASE GoalStop
  BY <1>4 DEF GoalStop, SetState
<1>5. CASE GoalsDone
  BY <1>5 DEF GoalsDone
<1>6. CASE Sample
  BY <1>6, TableObjsCreated DEF Sample
<1>7. CASE \E o \in Objects : ReleaseVisit(o)
  BY <1>7 DEF ReleaseVisit, Visit
<1>8. CASE \E o \in Objects : GuardVisit(o)
  <2>1. PICK o \in Objects : GuardVisit(o)
    BY <1>8
  <2>2. tick' = "guard" /\ todo' = todo \ {o} /\ active' \subseteq active \union {o}
    BY <2>1 DEF GuardVisit, Visit
  <2>3. ASSUME NEW p \in active' PROVE guardPaused'[p] /\ p \notin todo'
    <3>1. CASE p # o
      BY <2>1, <2>2, <2>3, <3>1 DEF GuardVisit
    <3>2. CASE p = o
      <4>1. o \notin active
        BY <2>1 DEF GuardVisit, Visit
      <4>2. state[o] = "downloading" /\ spaces[Root(o)] = "low"
        BY <2>1, <2>3, <3>2, <4>1 DEF GuardVisit
      <4>3. guardPaused'[o]
        BY <2>1, <4>2 DEF GuardVisit
      <4> QED
        BY <2>2, <3>2, <4>3
    <3> QED
      BY <3>1, <3>2
  <2> QED
    BY <2>2, <2>3
<1>9. CASE GuardDone
  BY <1>9 DEF GuardDone
<1>10. CASE \E o \in Objects : GuardPause(o)
  BY <1>10 DEF GuardPause, Visit, SetState
<1>11. CASE GuardPauseDone
  BY <1>11, TableObjsCreated DEF GuardPauseDone
<1>12. CASE \E o \in Objects : QueueVisit(o)
  BY <1>12 DEF QueueVisit, Visit
<1>13. CASE QueueScanned
  BY <1>13 DEF QueueScanned, BeyondLimit
<1>14. CASE \E o \in Objects : ExcessFlag(o)
  BY <1>14 DEF ExcessFlag, Visit
<1>15. CASE ExcessPause
  BY <1>15 DEF ExcessPause, SetState
<1>16. CASE ExcessDone
  BY <1>16, LimitTyped, WaitersCounted DEF ExcessDone
<1>17. CASE \E o \in Objects : CountVisit(o)
  BY <1>17 DEF CountVisit, Visit
<1>18. CASE CountDone
  BY <1>18 DEF CountDone
<1>19. CASE \E o \in Objects : StartNext(o)
  BY <1>19 DEF StartNext, Visit
<1>20. CASE StartLookup
  BY <1>20 DEF StartLookup
<1>21. CASE StartResume
  BY <1>21 DEF StartResume, SetState, WantedState
<1>22. CASE TickEnd
  BY <1>22 DEF TickEnd
<1> QED
  BY <1>1, <1>2, <1>3, <1>4, <1>5, <1>6, <1>7, <1>8, <1>9, <1>10, <1>11, <1>12, <1>13, <1>14, <1>15, <1>16, <1>17, <1>18, <1>19, <1>20, <1>21, <1>22 DEF TickStep

(* Neither a request nor the tick leaves a torrent paused without its flag. *)
LEMMA FlagEnv ==
  ASSUME TypeInv, FreshInv, AutoPausedCarriesFlag, EnvStep
  PROVE  AutoPausedCarriesFlag'
<1> USE EngineAssumption
    DEF TypeInv, TypeOK, EngineTypeOK, TableInv, Held, Objects, Nobody, ActsOnVictim,
        FreshInv, AutoPausedCarriesFlag, TableObjs, InTable, tableVars, flagVars, callVars, engineVars, tickVars
<1>1. CASE (\E c \in Callers, i \in Ids, scan \in BOOLEAN : AddCheck(c, i, scan)) /\ UNCHANGED tickVars
  BY <1>1 DEF AddCheck, Create, Begin, Call
<1>2. CASE (\E c \in Callers : AddInsert(c)) /\ UNCHANGED tickVars
  BY <1>2 DEF AddInsert, Call
<1>3. CASE (\E c \in Callers, i \in Ids, step \in {"pause", "resume"} : Lookup(c, i, step)) /\ UNCHANGED tickVars
  BY <1>3 DEF Lookup, Begin, Call, CountOp
<1>4. CASE (\E c \in Callers, i \in Ids : RemoveEntry(c, i)) /\ UNCHANGED tickVars
  BY <1>4 DEF RemoveEntry, Begin, Call, CountOp
<1>5. CASE (\E c \in Callers : AddDecide(c)) /\ UNCHANGED tickVars
  BY <1>5 DEF AddDecide, Call
<1>6. CASE (\E c \in Callers : AddStart(c)) /\ UNCHANGED tickVars
  BY <1>6 DEF AddStart, Return, Call, SetState
<1>7. CASE (\E c \in Callers : Pause(c)) /\ UNCHANGED tickVars
  BY <1>7 DEF Pause, Return, Call, SetState
<1>8. CASE (\E c \in Callers : Resume(c)) /\ UNCHANGED tickVars
  BY <1>8 DEF Resume, WantedState, Return, Call, SetState
<1>9. CASE (\E c \in Callers : RemoveStop(c)) /\ UNCHANGED tickVars
  BY <1>9 DEF RemoveStop, Return, Call, SetState
<1>10. CASE (\E s \in SettingsSet : UpdateSettings(s)) /\ UNCHANGED tickVars
  BY <1>10 DEF UpdateSettings, CountOp
<1>11. CASE (\E o \in Objects : FinishDownload(o)) /\ UNCHANGED tickVars
  BY <1>11 DEF FinishDownload
<1>12. CASE (\E c \in Callers, i \in Ids, noLength \in BOOLEAN : AddMagnet(c, i, noLength)) /\ UNCHANGED tickVars
  BY <1>12 DEF AddMagnet, Create, Begin, Call
<1>13. CASE (\E o \in Objects, scan \in BOOLEAN : InstallMetadata(o, scan)) /\ UNCHANGED tickVars
  BY <1>13 DEF InstallMetadata, SetState
<1>14. CASE (\E o \in Objects : SettleState(o)) /\ UNCHANGED tickVars
  BY <1>14 DEF SettleState, SetState
<1> QED
  BY <1>1, <1>2, <1>3, <1>4, <1>5, <1>6, <1>7, <1>8, <1>9, <1>10, <1>11, <1>12, <1>13, <1>14, EnvCases

LEMMA FlagTick ==
  ASSUME TypeInv, MarkInv, AutoPausedCarriesFlag, TickStep
  PROVE  AutoPausedCarriesFlag'
<1> USE EngineAssumption
    DEF TypeInv, TypeOK, EngineTypeOK, TableInv, Held, Objects, Nobody, ActsOnVictim,
        MarkInv, AutoPausedCarriesFlag, TableObjs, tableVars, flagVars, callVars, engineVars, tickVars
<1>1. CASE TickStart
  BY <1>1, TableObjsCreated DEF TickStart
<1>2. CASE \E o \in Objects, reached \in BOOLEAN : GoalCheck(o, reached)
  BY <1>2 DEF GoalCheck, Visit
<1>3. CASE GoalRemove
  BY <1>3 DEF GoalRemove
<1>4. CASE GoalStop
  BY <1>4 DEF GoalStop, SetState
<1>5. CASE GoalsDone
  BY <1>5 DEF GoalsDone
<1>6. CASE Sample
  BY <1>6, TableObjsCreated DEF Sample
<1>7. CASE \E o \in Objects : ReleaseVisit(o)
  BY <1>7 DEF ReleaseVisit, Visit
<1>8. CASE \E o \in Objects : GuardVisit(o)
  BY <1>8 DEF GuardVisit, Visit
<1>9. CASE GuardDone
  BY <1>9 DEF GuardDone
<1>10. CASE \E o \in Objects : GuardPause(o)
  BY <1>10 DEF GuardPause, Visit, SetState
<1>11. CASE GuardPauseDone
  BY <1>11, TableObjsCreated DEF GuardPauseDone
<1>12. CASE \E o \in Objects : QueueVisit(o)
  BY <1>12 DEF QueueVisit, Visit
<1>13. CASE QueueScanned
  BY <1>13 DEF QueueScanned, BeyondLimit
<1>14. CASE \E o \in Objects : ExcessFlag(o)
  BY <1>14 DEF ExcessFlag, Visit
<1>15. CASE ExcessPause
  BY <1>15 DEF ExcessPause, SetState
<1>16. CASE ExcessDone
  BY <1>16, LimitTyped, WaitersCounted DEF ExcessDone
<1>17. CASE \E o \in Objects : CountVisit(o)
  BY <1>17 DEF CountVisit, Visit
<1>18. CASE CountDone
  BY <1>18 DEF CountDone
<1>19. CASE \E o \in Objects : StartNext(o)
  BY <1>19 DEF StartNext, Visit
<1>20. CASE StartLookup
  <2> SUFFICES ASSUME NEW o \in TableObjs, state[o] = "paused", pausedBy[o] \in {"queue", "guard"},
                      ~queued[o], ~guardPaused[o]
               PROVE  victim' = o /\ tick' \in {"lookup", "resume"}
    BY <1>20 DEF StartLookup
  <2>1. victim = o
    BY <1>20 DEF StartLookup
  <2>2. torrents[idOf[o]] = o /\ o # Nobody
    OBVIOUS
  <2> QED
    BY <1>20, <2>1, <2>2 DEF StartLookup
<1>21. CASE StartResume
  BY <1>21 DEF StartResume, SetState, WantedState
<1>22. CASE TickEnd
  BY <1>22 DEF TickEnd
<1> QED
  BY <1>1, <1>2, <1>3, <1>4, <1>5, <1>6, <1>7, <1>8, <1>9, <1>10, <1>11, <1>12, <1>13, <1>14, <1>15, <1>16, <1>17, <1>18, <1>19, <1>20, <1>21, <1>22 DEF TickStep

LEMMA FlagInit == Init => FlagInv
<1> SUFFICES ASSUME Init PROVE FlagInv
  OBVIOUS
<1>1. TypeInv
  BY TypeInit
<1>2. FreshInv /\ MarkInv /\ AutoPausedCarriesFlag
  BY DEF Init, EngineInit, FreshInv, MarkInv, AutoPausedCarriesFlag, TableObjs, Objects, Nobody
<1> QED
  BY <1>1, <1>2 DEF FlagInv

LEMMA FlagNext == FlagInv /\ [Next]_vars => FlagInv'
<1> SUFFICES ASSUME FlagInv, [Next]_vars PROVE FlagInv'
  OBVIOUS
<1>1. CASE Next
  BY <1>1, TypeNext, FreshEnv, FreshTick, MarkEnv, MarkTick, FlagEnv, FlagTick DEF Next, FlagInv
<1>2. CASE UNCHANGED vars
  <2>1. TypeInv'
    BY <1>2, TypeNext DEF FlagInv
  <2>2. FreshInv' /\ MarkInv' /\ AutoPausedCarriesFlag'
    BY <1>2 DEF vars, engineVars, tableVars, dataVars, flagVars, dataVars, callVars, tickVars, FlagInv, FreshInv,
                MarkInv, AutoPausedCarriesFlag, InTable, TableObjs, Held
  <2> QED
    BY <2>1, <2>2 DEF FlagInv
<1> QED
  BY <1>1, <1>2

(* A torrent of the table that the queue or the disk guard paused always    *)
(* carries a flag that a later tick acts on, so the automation strands none *)
(* of them, whatever pauses, resumes, removals and additions come between.  *)
THEOREM AutoPausedNotStranded == Spec => []AutoPausedCarriesFlag
<1>1. FlagInv => AutoPausedCarriesFlag
  BY DEF FlagInv
<1> QED
  BY <1>1, FlagInit, FlagNext, PTL DEF Spec

-----------------------------------------------------------------------------
(* What an undisturbed tick knows about the torrents that run on a root it  *)
(* saw low: the guard has them still to visit or to pause, and later on     *)
(* only the queue can have started them.                                    *)
RunsLow(o) == o \in RunningOld /\ spaces[Root(o)] = "low"

AfterGuard == {"scan", "excess", "excessPause", "count", "start", "lookup", "resume", "idle"}

AloneInv ==
  /\ tick = "release" => ~cur.guard
  /\ ~disturbed =>
       /\ tick = "guard" => \A o \in Objects : RunsLow(o) => o \in todo \union active
       /\ tick = "guardPause" /\ cur.guard => \A o \in Objects : RunsLow(o) => o \in todo
       /\ tick \in AfterGuard /\ cur.guard => \A o \in Objects : RunsLow(o) => o \in waiting
       /\ tick \in AfterGuard \ {"idle"} => waiting \subseteq TableObjs
       /\ tick = "scan" => todo \subseteq TableObjs
       /\ tick = "start" => todo \subseteq waiting
       /\ tick \in {"lookup", "resume"} => victim \in waiting /\ todo \subseteq waiting
       /\ tick \in {"goals", "goalRemove", "goalStopped", "goalStop", "sample", "release", "guard",
                   "guardPause"} => waiting = {}

GuardInv == TypeInv /\ AloneInv

LEMMA AloneEnv ==
  ASSUME TypeInv, AloneInv, EnvStep
  PROVE  AloneInv'
<1> USE EngineAssumption
    DEF TypeInv, TypeOK, EngineTypeOK, TableInv, Held, Objects, Nobody, ActsOnVictim,
        AloneInv, AfterGuard, RunsLow, RunningOld, Running, Root, TableObjs, tableVars, flagVars, dataVars, callVars, engineVars, tickVars
<1>1. CASE (\E c \in Callers, i \in Ids, scan \in BOOLEAN : AddCheck(c, i, scan)) /\ UNCHANGED tickVars
  BY <1>1 DEF AddCheck, Create, Begin, Call
<1>2. CASE (\E c \in Callers : AddInsert(c)) /\ UNCHANGED tickVars
  BY <1>2 DEF AddInsert, Call
<1>3. CASE (\E c \in Callers, i \in Ids, step \in {"pause", "resume"} : Lookup(c, i, step)) /\ UNCHANGED tickVars
  BY <1>3 DEF Lookup, Begin, Call, CountOp
<1>4. CASE (\E c \in Callers, i \in Ids : RemoveEntry(c, i)) /\ UNCHANGED tickVars
  BY <1>4 DEF RemoveEntry, Begin, Call, CountOp
<1>5. CASE (\E c \in Callers : AddDecide(c)) /\ UNCHANGED tickVars
  BY <1>5 DEF AddDecide, Call
<1>6. CASE (\E c \in Callers : AddStart(c)) /\ UNCHANGED tickVars
  BY <1>6 DEF AddStart, Return, Call, SetState
<1>7. CASE (\E c \in Callers : Pause(c)) /\ UNCHANGED tickVars
  BY <1>7 DEF Pause, Return, Call, SetState
<1>8. CASE (\E c \in Callers : Resume(c)) /\ UNCHANGED tickVars
  BY <1>8 DEF Resume, WantedState, Return, Call, SetState
<1>9. CASE (\E c \in Callers : RemoveStop(c)) /\ UNCHANGED tickVars
  BY <1>9 DEF RemoveStop, Return, Call, SetState
<1>10. CASE (\E s \in SettingsSet : UpdateSettings(s)) /\ UNCHANGED tickVars
  BY <1>10 DEF UpdateSettings, CountOp
<1>11. CASE (\E o \in Objects : FinishDownload(o)) /\ UNCHANGED tickVars
  BY <1>11 DEF FinishDownload
<1>12. CASE (\E c \in Callers, i \in Ids, noLength \in BOOLEAN : AddMagnet(c, i, noLength)) /\ UNCHANGED tickVars
  BY <1>12 DEF AddMagnet, Create, Begin, Call
<1>13. CASE (\E o \in Objects, scan \in BOOLEAN : InstallMetadata(o, scan)) /\ UNCHANGED tickVars
  BY <1>13 DEF InstallMetadata, SetState
<1>14. CASE (\E o \in Objects : SettleState(o)) /\ UNCHANGED tickVars
  BY <1>14 DEF SettleState, SetState
<1> QED
  BY <1>1, <1>2, <1>3, <1>4, <1>5, <1>6, <1>7, <1>8, <1>9, <1>10, <1>11, <1>12, <1>13, <1>14, EnvCases

LEMMA AloneTick ==
  ASSUME TypeInv, AloneInv, TickStep
  PROVE  AloneInv'
<1> USE EngineAssumption
    DEF TypeInv, TypeOK, EngineTypeOK, TableInv, Held, Objects, Nobody, ActsOnVictim,
        AloneInv, AfterGuard, TickSteps, Levels, RunsLow, RunningOld, Running, Root, TableObjs, tableVars, flagVars, dataVars, callVars, engineVars, tickVars
<1>1. CASE TickStart
  BY <1>1, TableObjsCreated DEF TickStart
<1>2. CASE \E o \in Objects, reached \in BOOLEAN : GoalCheck(o, reached)
  BY <1>2 DEF GoalCheck, Visit
<1>3. CASE GoalRemove
  BY <1>3 DEF GoalRemove
<1>4. CASE GoalStop
  BY <1>4 DEF GoalStop, SetState
<1>5. CASE GoalsDone
  BY <1>5 DEF GoalsDone
<1>6. CASE Sample
  BY <1>6, TableObjsCreated DEF Sample
<1>7. CASE \E o \in Objects : ReleaseVisit(o)
  BY <1>7 DEF ReleaseVisit, Visit
<1>8. CASE \E o \in Objects : GuardVisit(o)
  BY <1>8 DEF GuardVisit, Visit
<1>9. CASE GuardDone
  BY <1>9 DEF GuardDone
<1>10. CASE \E o \in Objects : GuardPause(o)
  BY <1>10 DEF GuardPause, Visit, SetState
<1>11. CASE GuardPauseDone
  BY <1>11, TableObjsCreated DEF GuardPauseDone
<1>12. CASE \E o \in Objects : QueueVisit(o)
  BY <1>12 DEF QueueVisit, Visit
<1>13. CASE QueueScanned
  BY <1>13 DEF QueueScanned, BeyondLimit
<1>14. CASE \E o \in Objects : ExcessFlag(o)
  BY <1>14 DEF ExcessFlag, Visit
<1>15. CASE ExcessPause
  BY <1>15 DEF ExcessPause, SetState
<1>16. CASE ExcessDone
  BY <1>16, LimitTyped, WaitersCounted DEF ExcessDone
<1>17. CASE \E o \in Objects : CountVisit(o)
  BY <1>17 DEF CountVisit, Visit
<1>18. CASE CountDone
  BY <1>18 DEF CountDone
<1>19. CASE \E o \in Objects : StartNext(o)
  BY <1>19 DEF StartNext, Visit
<1>20. CASE StartLookup
  <2>1. ASSUME ~disturbed PROVE victim' = victim /\ tick' = "resume"
    <3>1. victim \in TableObjs
      BY <1>20, <2>1 DEF StartLookup
    <3>2. torrents[idOf[victim]] = victim /\ victim # Nobody
      BY <3>1
    <3> QED
      BY <1>20, <3>2 DEF StartLookup
  <2>2. /\ tick = "lookup" /\ tick' \in {"start", "resume"}
        /\ UNCHANGED <<engineVars, cur, spaces, todo, active, waiting, slots>>
    BY <1>20 DEF StartLookup
  <2> QED
    BY <2>1, <2>2
<1>21. CASE StartResume
  BY <1>21 DEF StartResume, SetState, WantedState
<1>22. CASE TickEnd
  BY <1>22 DEF TickEnd
<1> QED
  BY <1>1, <1>2, <1>3, <1>4, <1>5, <1>6, <1>7, <1>8, <1>9, <1>10, <1>11, <1>12, <1>13, <1>14, <1>15, <1>16, <1>17, <1>18, <1>19, <1>20, <1>21, <1>22 DEF TickStep

LEMMA GuardInit == Init => GuardInv
<1> SUFFICES ASSUME Init PROVE GuardInv
  OBVIOUS
<1>1. TypeInv
  BY TypeInit
<1>2. AloneInv
  BY DEF Init, EngineInit, AloneInv, AfterGuard, RunsLow, RunningOld, Running, TableObjs, Nobody
<1> QED
  BY <1>1, <1>2 DEF GuardInv

LEMMA GuardNext == GuardInv /\ [Next]_vars => GuardInv'
<1> SUFFICES ASSUME GuardInv, [Next]_vars PROVE GuardInv'
  OBVIOUS
<1>1. CASE Next
  BY <1>1, TypeNext, AloneEnv, AloneTick DEF Next, GuardInv
<1>2. CASE UNCHANGED vars
  <2>1. TypeInv'
    BY <1>2, TypeNext DEF GuardInv
  <2>2. AloneInv'
    BY <1>2 DEF vars, engineVars, tableVars, dataVars, flagVars, dataVars, callVars, tickVars, GuardInv, AloneInv,
                AfterGuard, RunsLow, RunningOld, Running, Root, TableObjs
  <2> QED
    BY <2>1, <2>2 DEF GuardInv
<1> QED
  BY <1>1, <1>2

(* A tick that no API call met leaves a torrent running on a root the disk  *)
(* guard saw low only if the queue half of the same tick started it.        *)
THEOREM GuardPausesLowRoots == Spec => []GuardHoldsUnlessQueued
<1>1. GuardInv => GuardHoldsUnlessQueued
  BY EngineAssumption DEF GuardInv, AloneInv, AfterGuard, RunsLow, RunningOld, Running, TableObjs, TickWasAlone,
     GuardHoldsUnlessQueued, TypeInv, TypeOK, EngineTypeOK, Nobody
<1> QED
  BY <1>1, GuardInit, GuardNext, PTL DEF Spec

-----------------------------------------------------------------------------
(* The limit of the queue.  A set of torrents without those beyond the limit *)
(* has no more than the limit: two of them would come after equally many.   *)
LEMMA WithinLimit ==
  ASSUME TypeInv, cur.max > 0, NEW S \in SUBSET Objects
  PROVE  /\ IsFiniteSet(S \ BeyondLimit(S))
         /\ Cardinality(S \ BeyondLimit(S)) <= cur.max
<1> DEFINE T         == S \ BeyondLimit(S)
           before(o) == {p \in S : p < o}
           Ranks     == 0 .. cur.max - 1
           rank      == [o \in T |-> Cardinality(before(o))]
<1>1. cur.max \in Nat /\ IsFiniteSet(Objects)
  BY LimitTyped, FS_Interval, EngineAssumption DEF TypeInv, Objects
<1>2. IsFiniteSet(S) /\ IsFiniteSet(T)
  <2>1. T \in SUBSET Objects
    OBVIOUS
  <2> QED
    BY <1>1, <2>1, FS_Subset
<1>3. ASSUME NEW o \in S PROVE IsFiniteSet(before(o)) /\ Cardinality(before(o)) \in Nat
  <2>1. before(o) \in SUBSET S
    OBVIOUS
  <2> QED
    BY <1>2, <2>1, FS_Subset, FS_CardinalityType
<1>4. ASSUME NEW o \in T PROVE Cardinality(before(o)) \in 0 .. cur.max - 1
  <2>1. ~(Cardinality(before(o)) >= cur.max)
    BY <1>4 DEF BeyondLimit
  <2> HIDE DEF before
  <2> QED
    BY <1>1, <1>3, <2>1
<1>5. ASSUME NEW x \in T, NEW y \in T, x < y PROVE rank[x] # rank[y]
  <2>1. before(x) \union {x} \in SUBSET before(y) /\ x \notin before(x)
    <3>1. x \in S /\ y \in S /\ \A p \in S : p \in Int
      BY EngineAssumption DEF Objects
    <3> HIDE DEF T
    <3> QED
      BY <1>5, <3>1
  <2>2. Cardinality(before(x) \union {x}) = Cardinality(before(x)) + 1
    BY <1>3, <2>1, FS_AddElement
  <2>3. Cardinality(before(x) \union {x}) <= Cardinality(before(y))
    BY <1>3, <2>1, FS_Subset
  <2>4. rank[x] = Cardinality(before(x)) /\ rank[y] = Cardinality(before(y))
    OBVIOUS
  <2>5. Cardinality(before(x)) \in Nat /\ Cardinality(before(y)) \in Nat
    BY <1>3
  <2> HIDE DEF before, rank
  <2> QED
    BY <2>2, <2>3, <2>4, <2>5
<1>6. \A x, y \in T : rank[x] = rank[y] => x = y
  <2> SUFFICES ASSUME NEW x \in T, NEW y \in T, x # y PROVE rank[x] # rank[y]
    OBVIOUS
  <2>1. x < y \/ y < x
    BY DEF Objects
  <2> QED
    BY <1>5, <2>1
<1>7. rank \in [T -> Ranks]
  BY <1>4
<1> HIDE DEF T, rank
<1>8. /\ IsFiniteSet(Ranks) /\ Cardinality(Ranks) = cur.max
      /\ Cardinality(T) \in Nat
  <2>1. cur.max - 1 \in Int /\ 0 \in Int /\ ~(0 > cur.max - 1) /\ cur.max - 1 - 0 + 1 = cur.max
    BY <1>1
  <2> QED
    BY <1>2, <2>1, FS_Interval, FS_CardinalityType
<1>9. ~(cur.max < Cardinality(T))
  <2> SUFFICES ASSUME cur.max < Cardinality(T) PROVE FALSE
    OBVIOUS
  <2> HIDE DEF Ranks
  <2>1. Cardinality(Ranks) < Cardinality(T)
    BY <1>8
  <2>2. \E x, y \in T : x # y /\ rank[x] = rank[y]
    BY <1>2, <1>7, <1>8, <2>1, FS_PigeonHole
  <2> QED
    BY <1>6, <2>2
<1> QED
  BY <1>1, <1>2, <1>8, <1>9 DEF T

(* What an undisturbed tick knows about the number of torrents that run: the *)
(* queue has seen those that run or will see them, pauses those beyond the  *)
(* limit, and takes a slot for each of the others before it starts any.     *)
Within(S, n) == IsFiniteSet(S) /\ Cardinality(S) <= n

LimitInv ==
  ~disturbed /\ cur.max > 0 =>
    /\ tick = "scan" => RunningOld \subseteq todo \union active
    /\ tick = "excess" => RunningOld \subseteq (active \ BeyondLimit(active)) \union todo
    /\ tick = "excessPause" =>
         RunningOld \subseteq (active \ BeyondLimit(active)) \union todo \union {victim}
    /\ tick = "count" => /\ RunningOld \subseteq active \ BeyondLimit(active)
                         /\ Within(RunningOld \ todo, cur.max - slots)
    /\ tick \in {"start", "lookup", "resume"} => Within(RunningOld, cur.max - slots)
    /\ tick \in {"start", "lookup", "resume", "idle"} => Within(RunningOld, cur.max)
    /\ tick \in {"lookup", "resume"} => slots > 0

LEMMA WithinTyped ==
  ASSUME TypeInv
  PROVE  /\ cur.max \in Int /\ slots \in Int /\ RunningOld \in SUBSET Objects
         /\ \A S \in SUBSET Objects : IsFiniteSet(S) /\ Cardinality(S) \in Nat
<1>1. RunningOld \in SUBSET Objects
  BY TableObjsCreated DEF RunningOld, Running
<1>2. IsFiniteSet(Objects)
  BY FS_Interval, EngineAssumption DEF Objects
<1>3. \A S \in SUBSET Objects : IsFiniteSet(S) /\ Cardinality(S) \in Nat
  BY <1>2, FS_Subset, FS_CardinalityType
<1> QED
  BY <1>1, <1>3, LimitTyped DEF TypeInv, TypeOK

LEMMA WithinFewer ==
  ASSUME NEW n \in Int, NEW S, Within(S, n), NEW T \in SUBSET S
  PROVE  Within(T, n)
<1>1. IsFiniteSet(T) /\ Cardinality(T) <= Cardinality(S)
  BY FS_Subset DEF Within
<1>2. Cardinality(T) \in Nat /\ Cardinality(S) \in Nat
  BY <1>1, FS_CardinalityType DEF Within
<1> QED
  BY <1>1, <1>2 DEF Within

LEMMA WithinOneMore ==
  ASSUME NEW n \in Int, NEW S, Within(S, n), NEW x, NEW T \in SUBSET (S \union {x})
  PROVE  Within(T, n + 1)
<1>1. IsFiniteSet(S \union {x}) /\ Cardinality(S \union {x}) <= n + 1
  <2>1. Cardinality(S) \in Nat
    BY FS_CardinalityType DEF Within
  <2> QED
    BY <2>1, FS_AddElement DEF Within
<1>2. Within(S \union {x}, n + 1) /\ n + 1 \in Int
  BY <1>1 DEF Within
<1> QED
  BY <1>2, WithinFewer

(* Fewer torrents run when none of the tick's own variables changes. *)
LEMMA LimitFewer ==
  ASSUME TypeInv, LimitInv, UNCHANGED <<disturbed, tickVars>>, RunningOld' \subseteq RunningOld
  PROVE  LimitInv'
<1>1. UNCHANGED <<disturbed, tick, cur, todo, victim, active, slots>>
  BY DEF tickVars
<1>2. cur.max \in Int /\ cur.max - slots \in Int /\ (RunningOld' \ todo) \in SUBSET (RunningOld \ todo)
  BY WithinTyped
<1>3. \A n \in Int : Within(RunningOld, n) => Within(RunningOld', n)
  BY WithinFewer
<1>4. \A n \in Int : Within(RunningOld \ todo, n) => Within(RunningOld' \ todo, n)
  BY <1>2, WithinFewer
<1>5. BeyondLimit(active)' = BeyondLimit(active)
  BY <1>1 DEF BeyondLimit
<1>6. /\ Within(RunningOld, cur.max) => Within(RunningOld, cur.max)'
      /\ Within(RunningOld, cur.max - slots) => Within(RunningOld, cur.max - slots)'
      /\ Within(RunningOld \ todo, cur.max - slots) => Within(RunningOld \ todo, cur.max - slots)'
  BY <1>1, <1>2, <1>3, <1>4
<1> QED
  BY <1>1, <1>5, <1>6 DEF LimitInv


LEMMA LimitEnv ==
  ASSUME TypeInv, LimitInv, EnvStep
  PROVE  LimitInv'
<1>1. CASE disturbed'
  BY <1>1 DEF LimitInv
<1>2. CASE ~disturbed'
  <2>1. \E o \in Objects : \/ FinishDownload(o) \/ SettleState(o)
                           \/ \E scan \in BOOLEAN : InstallMetadata(o, scan)
    BY <1>2 DEF EnvStep, TableCall, ObjectCall, AddCheck, AddMagnet, AddInsert, Lookup, RemoveEntry,
       Begin, AddDecide, AddStart, Pause, Resume, RemoveStop, Return, Call, UpdateSettings
  <2>2. PICK o \in Objects : \/ FinishDownload(o) \/ SettleState(o)
                            \/ \E scan \in BOOLEAN : InstallMetadata(o, scan)
    BY <2>1
  <2>3. UNCHANGED tickVars /\ UNCHANGED <<disturbed, torrents>>
    <3>1. UNCHANGED <<disturbed, torrents>>
      BY <2>2 DEF FinishDownload, SettleState, InstallMetadata, tableVars
    <3>2. UNCHANGED tickVars
      BY DEF EnvStep
    <3> QED
      BY <3>1, <3>2
  <2>4. \A p \in Objects : state'[p] = "downloading" /\ p \notin upgraded' =>
                            state[p] = "downloading" /\ p \notin upgraded
    BY <2>2 DEF FinishDownload, SettleState, InstallMetadata, SetState, TypeInv, TypeOK, EngineTypeOK
  <2>5. RunningOld' \subseteq RunningOld
    BY <2>3, <2>4, WithinTyped, TableObjsCreated DEF RunningOld, Running, TableObjs
  <2> QED
    BY <2>3, <2>5, LimitFewer
<1> QED
  BY <1>1, <1>2

LEMMA LimitTick ==
  ASSUME TypeInv, LimitInv, TickStep
  PROVE  LimitInv'
<1> DEFINE Kept  == active \ BeyondLimit(active)
           spare == cur.max - slots
<1>1. /\ cur.max \in Int /\ slots \in Int /\ spare \in Int
      /\ RunningOld \in SUBSET Objects /\ active \in SUBSET Objects /\ todo \in SUBSET Objects
  BY WithinTyped DEF TypeInv, TypeOK
<1>4. \A S : S \ {} = S
  OBVIOUS
<1>6. CASE tick' \in TickSteps \ ({"scan", "excess", "excessPause", "count"}
                                   \union {"start", "lookup", "resume", "idle"})
  BY <1>6 DEF LimitInv, TickSteps
<1>7. CASE GuardPauseDone
  <2>1. tick' = "scan" /\ todo' = TableObjs /\ UNCHANGED engineVars
    BY <1>7 DEF GuardPauseDone
  <2> QED
    BY <2>1 DEF LimitInv, RunningOld, Running, TableObjs, engineVars, tableVars, dataVars
<1>8. CASE \E o \in Objects : QueueVisit(o)
  <2> PICK o \in Objects : QueueVisit(o)
    BY <1>8
  <2>1. /\ tick = "scan" /\ tick' = "scan" /\ todo' = todo \ {o}
        /\ active' = IF state[o] = "downloading" THEN active \union {o} ELSE active
        /\ UNCHANGED <<disturbed, cur, state, torrents, upgraded>>
    BY DEF QueueVisit, Visit, engineVars, tableVars, dataVars
  <2> QED
    BY <2>1 DEF LimitInv, RunningOld, Running, TableObjs
<1>9. CASE QueueScanned
  <2>1. /\ tick = "scan" /\ todo = {} /\ tick' = "excess" /\ todo' = BeyondLimit(active)
        /\ UNCHANGED <<disturbed, cur, active, state, torrents, upgraded>>
    BY <1>9 DEF QueueScanned, engineVars, tableVars, dataVars
  <2>2. BeyondLimit(active)' = BeyondLimit(active) /\ RunningOld' = RunningOld
    BY <2>1 DEF BeyondLimit, RunningOld, Running, TableObjs
  <2> QED
    BY <2>1, <2>2 DEF LimitInv
<1>10. CASE \E o \in Objects : ExcessFlag(o)
  <2> PICK o \in Objects : ExcessFlag(o)
    BY <1>10
  <2>1. /\ tick = "excess" /\ tick' = "excessPause" /\ todo' = todo \ {o} /\ victim' = o
        /\ UNCHANGED <<disturbed, cur, active, state, torrents, upgraded>>
    BY DEF ExcessFlag, Visit, tableVars, dataVars
  <2>2. BeyondLimit(active)' = BeyondLimit(active) /\ RunningOld' = RunningOld
    BY <2>1 DEF BeyondLimit, RunningOld, Running, TableObjs
  <2> QED
    BY <2>1, <2>2 DEF LimitInv
<1>11. CASE ExcessPause
  <2>1. /\ tick = "excessPause" /\ tick' = "excess" /\ state' = [state EXCEPT ![victim] = "paused"]
        /\ UNCHANGED <<disturbed, cur, active, todo, torrents, upgraded>>
    BY <1>11 DEF ExcessPause, SetState, tableVars, dataVars
  <2>2. BeyondLimit(active)' = BeyondLimit(active) /\ RunningOld' \subseteq RunningOld \ {victim}
    BY <2>1, <1>1 DEF BeyondLimit, RunningOld, Running, TableObjs, TypeInv, TypeOK, EngineTypeOK
  <2> QED
    BY <2>1, <2>2 DEF LimitInv
<1>12. CASE ExcessDone
  <2> SUFFICES ASSUME ~disturbed', cur'.max > 0 PROVE LimitInv'
    BY DEF LimitInv
  <2>1. /\ tick = "excess" /\ todo = {} /\ tick' = "count" /\ todo' = active /\ slots' = cur.max
        /\ UNCHANGED <<disturbed, cur, active, state, torrents, upgraded>> /\ ~disturbed /\ cur.max > 0
    BY <1>1, <1>12 DEF ExcessDone, engineVars, tableVars, dataVars
  <2>2. BeyondLimit(active)' = BeyondLimit(active) /\ RunningOld' = RunningOld
    BY <2>1 DEF BeyondLimit, RunningOld, Running, TableObjs
  <2>3. RunningOld \subseteq active \ BeyondLimit(active)
    BY <2>1 DEF LimitInv
  <2>4. Within(RunningOld \ todo, cur.max - slots)'
    <3>1. RunningOld' \ todo' = {} /\ cur'.max - slots' = 0
      BY <1>1, <2>1, <2>2, <2>3
    <3> QED
      BY <3>1, FS_EmptySet DEF Within
  <2> QED
    BY <2>1, <2>2, <2>3, <2>4 DEF LimitInv
<1>13. CASE \E o \in Objects : CountVisit(o)
  <2> SUFFICES ASSUME ~disturbed', cur'.max > 0 PROVE LimitInv'
    BY DEF LimitInv
  <2> PICK o \in Objects : CountVisit(o)
    BY <1>13
  <2>1. /\ tick = "count" /\ tick' = "count" /\ o \in todo /\ todo' = todo \ {o}
        /\ slots' = IF state[o] = "downloading" THEN slots - 1 ELSE slots
        /\ UNCHANGED <<disturbed, cur, active, state, torrents, upgraded>> /\ ~disturbed /\ cur.max > 0
    BY DEF CountVisit, Visit, engineVars, tableVars, dataVars
  <2>2. BeyondLimit(active)' = BeyondLimit(active) /\ RunningOld' = RunningOld
    BY <2>1 DEF BeyondLimit, RunningOld, Running, TableObjs
  <2>3. RunningOld \subseteq active \ BeyondLimit(active) /\ Within(RunningOld \ todo, spare)
    BY <2>1 DEF LimitInv
  <2>4. Within(RunningOld' \ todo', cur'.max - slots')
    <3>1. CASE state[o] = "downloading"
      <4>1. (RunningOld \ todo') \in SUBSET ((RunningOld \ todo) \union {o})
        BY <2>1
      <4>2. cur'.max - slots' = spare + 1
        BY <1>1, <2>1, <3>1
      <4> HIDE DEF spare
      <4> QED
        BY <1>1, <2>2, <2>3, <4>1, <4>2, WithinOneMore
    <3>2. CASE state[o] # "downloading"
      <4>1. RunningOld \ todo' = RunningOld \ todo
        BY <2>1, <3>2 DEF RunningOld, Running
      <4> QED
        BY <2>1, <2>2, <2>3, <3>2, <4>1
    <3> QED
      BY <3>1, <3>2
  <2>5. Within(RunningOld \ todo, cur.max - slots)'
    BY <2>4
  <2> QED
    BY <2>1, <2>2, <2>3, <2>5 DEF LimitInv
<1>14. CASE CountDone
  <2> SUFFICES ASSUME ~disturbed', cur'.max > 0 PROVE LimitInv'
    BY DEF LimitInv
  <2>1. /\ tick = "count" /\ todo = {} /\ tick' = "start"
        /\ UNCHANGED <<disturbed, cur, slots, state, torrents, upgraded>> /\ ~disturbed /\ cur.max > 0
    BY <1>14 DEF CountDone, engineVars, tableVars, dataVars
  <2>2. RunningOld' = RunningOld
    BY <2>1 DEF RunningOld, Running, TableObjs
  <2>3. RunningOld \subseteq Kept /\ Within(RunningOld, spare)
    BY <1>4, <2>1 DEF LimitInv
  <2>4. Within(Kept, cur.max)
    BY <1>1, <2>1, WithinLimit DEF Within
  <2> HIDE DEF Kept
  <2>5. Within(RunningOld, cur.max)
    BY <1>1, <2>3, <2>4, WithinFewer
  <2>6. Within(RunningOld, cur.max)' /\ Within(RunningOld, cur.max - slots)'
    BY <2>1, <2>2, <2>3, <2>5
  <2> QED
    BY <2>1, <2>6 DEF LimitInv
<1>15. CASE (\E o \in Objects : StartNext(o)) \/ StartLookup
  <2> SUFFICES ASSUME ~disturbed', cur'.max > 0 PROVE LimitInv'
    BY DEF LimitInv
  <2>1. /\ tick \in {"start", "lookup"} /\ tick' \in {"start", "lookup", "resume"}
        /\ tick' = "lookup" => slots > 0
        /\ tick' = "resume" => tick = "lookup"
        /\ UNCHANGED <<disturbed, cur, slots, state, torrents, upgraded>> /\ ~disturbed /\ cur.max > 0
    BY <1>15 DEF StartNext, StartLookup, engineVars, tableVars, dataVars
  <2>2. RunningOld' = RunningOld
    BY <2>1 DEF RunningOld, Running, TableObjs
  <2>3. Within(RunningOld, spare) /\ Within(RunningOld, cur.max) /\ (tick = "lookup" => slots > 0)
    BY <2>1 DEF LimitInv
  <2>4. Within(RunningOld, cur.max)' /\ Within(RunningOld, cur.max - slots)'
    BY <2>1, <2>2, <2>3
  <2> QED
    BY <2>1, <2>3, <2>4 DEF LimitInv
<1>16. CASE StartResume
  <2> SUFFICES ASSUME ~disturbed', cur'.max > 0 PROVE LimitInv'
    BY DEF LimitInv
  <2>1. /\ tick = "resume" /\ tick' = "start" /\ slots' = slots - 1
        /\ state' = [state EXCEPT ![victim] = WantedState(victim)]
        /\ UNCHANGED <<disturbed, cur, torrents, upgraded>> /\ ~disturbed /\ cur.max > 0
    BY <1>16 DEF StartResume, SetState, tableVars, dataVars
  <2>2. RunningOld' \in SUBSET (RunningOld \union {victim})
    BY <2>1, TableObjsCreated DEF RunningOld, Running, TableObjs, TypeInv, TypeOK, EngineTypeOK
  <2>3. Within(RunningOld, spare) /\ slots > 0
    BY <2>1 DEF LimitInv
  <2>4. Within(RunningOld', spare + 1)
    <3> HIDE DEF spare
    <3> QED
      BY <1>1, <2>2, <2>3, WithinOneMore
  <2>5. Within(RunningOld, cur.max - slots)'
    <3>1. cur'.max - slots' = spare + 1
      BY <1>1, <2>1
    <3> QED
      BY <2>4, <3>1
  <2>6. Within(RunningOld, cur.max)'
    <3>1. IsFiniteSet(RunningOld') /\ Cardinality(RunningOld') <= spare + 1
      BY <2>4 DEF Within
    <3>2. Cardinality(RunningOld') \in Nat
      BY <3>1, FS_CardinalityType
    <3>3. Cardinality(RunningOld') <= cur.max
      BY <1>1, <2>3, <3>1, <3>2
    <3> QED
      BY <2>1, <3>1, <3>3 DEF Within
  <2> QED
    BY <2>1, <2>5, <2>6 DEF LimitInv
<1>17. CASE TickEnd
  <2> SUFFICES ASSUME ~disturbed', cur'.max > 0 PROVE LimitInv'
    BY DEF LimitInv
  <2>1. /\ tick = "start" /\ tick' = "idle"
        /\ UNCHANGED <<disturbed, cur, state, torrents, upgraded>> /\ ~disturbed /\ cur.max > 0
    BY <1>17 DEF TickEnd, engineVars, tableVars, dataVars
  <2>2. RunningOld' = RunningOld /\ Within(RunningOld, cur.max)
    BY <2>1 DEF RunningOld, Running, TableObjs, LimitInv
  <2>3. Within(RunningOld, cur.max)'
    BY <2>1, <2>2
  <2> QED
    BY <2>1, <2>3 DEF LimitInv
<1>18. CASE TickStart \/ (\E o \in Objects, reached \in BOOLEAN : GoalCheck(o, reached))
            \/ GoalRemove \/ GoalStop \/ GoalsDone \/ Sample
            \/ (\E o \in Objects : ReleaseVisit(o)) \/ (\E o \in Objects : GuardVisit(o))
            \/ GuardDone \/ (\E o \in Objects : GuardPause(o))
  <2>1. tick' \in {"goals", "goalRemove", "goalStopped", "goalStop", "sample", "release", "guard",
                   "guardPause"}
    BY <1>18 DEF TickStart, GoalCheck, GoalRemove, GoalStop, GoalsDone, Sample, ReleaseVisit,
       GuardVisit, GuardDone, GuardPause
  <2> QED
    BY <1>6, <2>1 DEF TickSteps
<1> QED
  BY <1>7, <1>8, <1>9, <1>10, <1>11, <1>12, <1>13, <1>14, <1>15, <1>16, <1>17, <1>18 DEF TickStep

(* Right after a tick that no API call met no more torrents run than the     *)
(* limit allows, whatever the guard and the goals did, and whichever         *)
(* downloads finished, while it counted (queueTick, automation.go).          *)
THEOREM QueueKeepsLimit == Spec => []QueueLimitAfterTick
<1>1. Init => TypeInv /\ LimitInv
  <2> SUFFICES ASSUME Init PROVE TypeInv /\ LimitInv
    OBVIOUS
  <2>1. TypeInv
    BY TypeInit
  <2>2. tick = "idle" /\ RunningOld = {}
    BY DEF Init, EngineInit, RunningOld, Running, TableObjs, Nobody
  <2>3. cur.max > 0 => Within(RunningOld, cur.max)
    BY <2>1, <2>2, LimitTyped, FS_EmptySet DEF Within, TypeInv
  <2> QED
    BY <2>1, <2>2, <2>3 DEF LimitInv
<1>2. TypeInv /\ LimitInv /\ [Next]_vars => (TypeInv /\ LimitInv)'
  <2> SUFFICES ASSUME TypeInv, LimitInv, [Next]_vars PROVE TypeInv' /\ LimitInv'
    OBVIOUS
  <2>1. CASE UNCHANGED vars
    <3>1. UNCHANGED <<disturbed, tickVars, torrents, state, upgraded>>
      BY <2>1 DEF vars, engineVars, tableVars, dataVars
    <3>2. RunningOld' = RunningOld
      BY <3>1 DEF RunningOld, Running, TableObjs
    <3> QED
      BY <3>1, <3>2, LimitFewer, TypeNext
  <2> QED
    BY <2>1, TypeNext, LimitEnv, LimitTick DEF Next
<1>3. TypeInv /\ LimitInv => QueueLimitAfterTick
  BY DEF LimitInv, TickWasAlone, QueueLimitAfterTick, Within
<1> QED
  BY <1>1, <1>2, <1>3, PTL DEF Spec

=============================================================================
