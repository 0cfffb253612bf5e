------------------------------- MODULE Streams --------------------------------
(***************************************************************************)
(* The transfers of a download task (dl/dl.go: loopShard, stopReached, Stop;*)
(* dl/extra.go: pushOnce).  A task runs one or more streams, goroutines    *)
(* that each repeat one request: a download, or an upload of zeros.        *)
(*                                                                         *)
(*   top -> ask -> top ... -> gone          a failed request is tried again *)
(*          ask -> wait -> ask              after a wait, if one is set    *)
(*                                                                         *)
(* The user's stop is a flag; the conditions that end a task by themselves *)
(* (bytes, files, minutes since it was added) are tested where it is.      *)
(*                                                                         *)
(* Left out: where the bytes go, speeds, the log, the wait between loops   *)
(* (it tests the flag, as the top of the loop does), a negative number of  *)
(* retries, which Add lets through.                                        *)
(***************************************************************************)
EXTENDS Integers, FiniteSets, FiniteSetsExt

CONSTANTS Tasks,         \* download tasks
          JobsOf,        \* the options that each may be given
          MaxStreams,    \* streams at most, 16 in the code
          CrawlWorkers,  \* workers of a crawl that names no number, 6
          NoJob          \* options of a task that was not added

Jobs == [crawl : BOOLEAN, up : BOOLEAN, disk : BOOLEAN,
         conn : Nat, loops : Nat,             \* streams; loops of each, 0: endless
         retries : Nat, wait : BOOLEAN,       \* more attempts; RetryWait > 0
         startAt : BOOLEAN, repeat : BOOLEAN,
         stopFiles : Nat,                     \* ends at this many files, 0: off
         limits : SUBSET {"size", "time"}]    \* StopMB, StopMin are set

ASSUME StreamsAssumption ==
  /\ IsFiniteSet(Tasks)
  /\ MaxStreams \in Nat \ {0} /\ CrawlWorkers \in 2 .. MaxStreams
  /\ DOMAIN JobsOf = Tasks
  /\ \A t \in Tasks : \A o \in JobsOf[t] :
       /\ o \in Jobs
       /\ o.up => ~o.crawl /\ ~o.disk
       /\ o.conn <= MaxStreams
  /\ NoJob \notin UNION {JobsOf[t] : t \in Tasks}

VARIABLES opts,      \* Task.opts
          stopped,   \* Task.stopped
          due,       \* limits of size and time that are reached
          reason,    \* Task.stopReason
          error,     \* Task.Error is set
          files,     \* Task.Files
          loopsDone, \* Task.LoopsDone
          stream     \* where each goroutine of each task is

countVars   == <<error, files, loopsDone>>
streamsVars == <<opts, stopped, due, reason, countVars, stream>>

Gone    == [at |-> "gone", loop |-> 0, tries |-> 0]
Slots   == 1 .. MaxStreams
Reasons == {"", "size", "files", "time"}

\* Disk mode writes one file and runs one stream; a crawl has workers.
StreamsOf(o) ==
  CASE o.crawl                         -> IF o.conn < 2 THEN CrawlWorkers ELSE o.conn
    [] ~o.crawl /\ ~o.disk /\ o.conn > 1 -> o.conn
    [] OTHER                           -> 1

StreamsTypeOK ==
  /\ \A t \in Tasks : opts[t] \in JobsOf[t] \union {NoJob}
  /\ stopped \in [Tasks -> BOOLEAN]
  /\ due \in [Tasks -> SUBSET {"size", "time"}]
  /\ reason \in [Tasks -> Reasons]
  /\ error \in [Tasks -> BOOLEAN]
  /\ files \in [Tasks -> Nat] /\ loopsDone \in [Tasks -> Nat]
  /\ \A t \in Tasks : \A s \in Slots :
       /\ stream[t][s].at \in {"gone", "top", "ask", "wait", "idle"}
       /\ stream[t][s] = Gone \/ /\ opts[t] # NoJob
                                 /\ stream[t][s].loop \in 0 .. opts[t].loops
                                 /\ stream[t][s].tries \in 0 .. opts[t].retries + 1

StreamsInit ==
  /\ opts = [t \in Tasks |-> NoJob]
  /\ stopped = [t \in Tasks |-> FALSE]
  /\ due = [t \in Tasks |-> {}]
  /\ reason = [t \in Tasks |-> ""]
  /\ error = [t \in Tasks |-> FALSE]
  /\ files = [t \in Tasks |-> 0]
  /\ loopsDone = [t \in Tasks |-> 0]
  /\ stream = [t \in Tasks |-> [s \in Slots |-> Gone]]

-----------------------------------------------------------------------------
\* stopReached, and the first reason it declares.
Full(t)    == opts[t].stopFiles > 0 /\ files[t] >= opts[t].stopFiles
Reached(t) == due[t] # {} \/ Full(t)
First(t)   == IF "size" \in due[t] THEN "size" ELSE IF Full(t) THEN "files" ELSE "time"

\* dlStopped: the flag is tested first, and alone if it is set.
Halts(t) == stopped[t] \/ Reached(t)

Poll(t) ==
  reason' = IF ~stopped[t] /\ Reached(t) /\ reason[t] = ""
              THEN [reason EXCEPT ![t] = First(t)] ELSE reason

InRequest(t, s) == stream[t][s].at = "ask"

\* copyStop looks between two reads of a download; an upload never looks.
SeesHalt(t) == Halts(t) /\ ~opts[t].up

\* An upload counts its file in pushOnce, and once more as a loop.
Counts(o) == IF o.up THEN 2 ELSE 1

\* A limit of the task is reached: of size while it transfers, of time whenever.
LimitReached(t, limit) ==
  /\ opts[t] # NoJob /\ limit \in opts[t].limits \ due[t]
  /\ limit = "size" => \E s \in Slots : InRequest(t, s)
  /\ due' = [due EXCEPT ![t] = @ \union {limit}]
  /\ UNCHANGED <<opts, stopped, reason, countVars, stream>>

\* Stop and Remove, which stops the task and takes it from the list.
Stop(t) ==
  /\ opts[t] # NoJob /\ ~stopped[t]
  /\ stopped' = [stopped EXCEPT ![t] = TRUE]
  /\ UNCHANGED <<opts, due, reason, countVars, stream>>

\* run starts the goroutines of a cycle.
Launch(t, at) ==
  stream' = [stream EXCEPT ![t] = [s \in Slots |->
               IF s <= StreamsOf(opts[t]) THEN [Gone EXCEPT !.at = at] ELSE Gone]]

\* Variant with the bug: the top of the loop tests the user's flag alone.
PassUnlimited(t, s) ==
  /\ stream[t][s].at = "top"
  /\ stream' = [stream EXCEPT ![t][s] =
       IF stopped[t] \/ (opts[t].loops > 0 /\ @.loop = opts[t].loops) THEN Gone
       ELSE [@ EXCEPT !.at = "ask", !.tries = 1]]
  /\ UNCHANGED <<opts, stopped, due, reason, countVars>>

\* The top of the loop: the stream has done its loops, or the task is to stop,
\* or the first attempt begins.
Pass(t, s) ==
  LET more == opts[t].loops = 0 \/ stream[t][s].loop < opts[t].loops
  IN  /\ stream[t][s].at = "top"
      /\ IF more THEN Poll(t) ELSE UNCHANGED reason
      /\ stream' = [stream EXCEPT ![t][s] =
           IF more /\ ~Halts(t) THEN [@ EXCEPT !.at = "ask", !.tries = 1] ELSE Gone]
      /\ UNCHANGED <<opts, stopped, due, countVars>>

\* The request ends well.
Succeeds(t, s) ==
  /\ InRequest(t, s) /\ ~opts[t].crawl
  /\ loopsDone' = [loopsDone EXCEPT ![t] = @ + 1]
  /\ files' = [files EXCEPT ![t] = @ + Counts(opts[t])]
  /\ stream' = [stream EXCEPT ![t][s] =
       [at |-> "top", loop |-> IF opts[t].loops = 0 THEN 0 ELSE @.loop + 1, tries |-> 0]]
  /\ UNCHANGED <<opts, stopped, due, reason, error>>

\* The next attempt, at once or after a wait.
Retry(t, s) ==
  stream' = [stream EXCEPT ![t][s].at = IF opts[t].wait THEN "wait" ELSE "ask",
                           ![t][s].tries = @ + 1]

\* The request fails.  halted: it saw that the task is to stop, which is a failure
\* like any other.  counted: a digest that differs fails an upload which has
\* counted its file.
Fails(t, s, halted, counted) ==
  /\ InRequest(t, s) /\ ~opts[t].crawl
  /\ halted => SeesHalt(t)
  /\ counted = 1 => opts[t].up
  /\ IF halted THEN Poll(t) ELSE UNCHANGED reason
  /\ files' = [files EXCEPT ![t] = @ + counted]
  /\ IF stream[t][s].tries <= opts[t].retries
       THEN Retry(t, s) /\ UNCHANGED <<error, loopsDone>>
       ELSE /\ loopsDone' = [loopsDone EXCEPT ![t] = @ + 1]
            /\ error' = [error EXCEPT ![t] = TRUE]
            /\ stream' = [stream EXCEPT ![t][s] = Gone]
  /\ UNCHANGED <<opts, stopped, due>>

\* The wait before the next attempt looks at the user's flag only.
WaitOver(t, s) ==
  /\ stream[t][s].at = "wait" /\ ~opts[t].crawl
  /\ stream' = [stream EXCEPT ![t][s] =
                  IF stopped[t] THEN Gone ELSE [@ EXCEPT !.at = "ask"]]
  /\ UNCHANGED <<opts, stopped, due, reason, countVars>>
=============================================================================
