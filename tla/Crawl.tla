-------------------------------- MODULE Crawl ---------------------------------
(***************************************************************************)
(* A crawl (dl/crawl.go): one goroutine walks the directories of a site    *)
(* and sends the files it finds to a bounded channel; workers, the streams *)
(* of the task, fetch them.  After a stop the workers drain the channel,   *)
(* so that the walk is not left behind at a full one.                      *)
(*                                                                         *)
(* Left out: the depth and the filters (a directory has any number of      *)
(* files to send), the names (a URL is walked once).                       *)
(***************************************************************************)
EXTENDS Streams

CONSTANTS QueueCap,   \* capacity of the channel, 512 in the code
          MaxDirs,    \* bound: directories of the site
          MaxFound    \* bound: files a task finds

ASSUME CrawlAssumption ==
  QueueCap \in Nat \ {0} /\ MaxDirs \in Nat \ {0} /\ MaxFound \in Nat

VARIABLES walk,     \* where the walk is
          dirs,     \* directories it knows and has not visited
          crawled,  \* directories visited in this cycle
          toSend,   \* files of this directory that it has not sent
          queue,    \* files in the channel
          found     \* Task.Found

walkVars  == <<walk, dirs, crawled, toSend>>
crawlVars == <<walkVars, queue, found>>

CrawlTypeOK ==
  /\ walk \in [Tasks -> {"gone", "next", "read", "send"}]
  /\ dirs \in [Tasks -> Nat] /\ crawled \in [Tasks -> Nat] /\ toSend \in [Tasks -> Nat]
  /\ queue \in [Tasks -> 0 .. QueueCap]
  /\ found \in [Tasks -> Nat]

CrawlInit ==
  /\ walk = [t \in Tasks |-> "gone"]
  /\ dirs = [t \in Tasks |-> 0] /\ crawled = [t \in Tasks |-> 0]
  /\ toSend = [t \in Tasks |-> 0] /\ queue = [t \in Tasks |-> 0]
  /\ found = [t \in Tasks |-> 0]

\* startCrawl.
StartWalk(t) ==
  /\ walk' = [walk EXCEPT ![t] = "next"]
  /\ dirs' = [dirs EXCEPT ![t] = 1]
  /\ crawled' = [crawled EXCEPT ![t] = 0]
  /\ UNCHANGED <<toSend, queue, found>>

-----------------------------------------------------------------------------
\* The walk takes the next directory, or ends: it has none, or is to stop.
WalkNext(t) ==
  /\ walk[t] = "next"
  /\ IF dirs[t] = 0 THEN UNCHANGED reason ELSE Poll(t)
  /\ IF dirs[t] = 0 \/ Halts(t)
       THEN walk' = [walk EXCEPT ![t] = "gone"] /\ UNCHANGED <<dirs, crawled>>
       ELSE /\ walk' = [walk EXCEPT ![t] = "read"]
            /\ dirs' = [dirs EXCEPT ![t] = @ - 1]
            /\ crawled' = [crawled EXCEPT ![t] = @ + 1]
  /\ UNCHANGED <<opts, stopped, due, countVars, stream, toSend, queue, found>>

\* The server lists the directory: new directories and n files.  A listing that
\* fails is logged and has neither.  Found counts the file that is being sent.
WalkRead(t, new, n) ==
  /\ walk[t] = "read"
  /\ crawled[t] + dirs[t] + new <= MaxDirs /\ found[t] + n <= MaxFound
  /\ walk' = [walk EXCEPT ![t] = IF n = 0 THEN "next" ELSE "send"]
  /\ dirs' = [dirs EXCEPT ![t] = @ + new]
  /\ toSend' = [toSend EXCEPT ![t] = n]
  /\ found' = [found EXCEPT ![t] = @ + Min({n, 1})]
  /\ UNCHANGED <<streamsVars, crawled, queue>>

\* The walk blocks here while the channel is full.
WalkSend(t) ==
  /\ walk[t] = "send" /\ queue[t] < QueueCap
  /\ queue' = [queue EXCEPT ![t] = @ + 1]
  /\ toSend' = [toSend EXCEPT ![t] = @ - 1]
  /\ walk' = [walk EXCEPT ![t] = IF toSend[t] = 1 THEN "next" ELSE "send"]
  /\ found' = [found EXCEPT ![t] = @ + IF toSend[t] = 1 THEN 0 ELSE 1]
  /\ UNCHANGED <<streamsVars, dirs, crawled>>

\* Variant with the bug: a worker that is to stop leaves the channel alone.
TakeOrLeave(t, s) ==
  /\ stream[t][s].at = "idle" /\ queue[t] > 0
  /\ IF Halts(t)
       THEN stream' = [stream EXCEPT ![t][s] = Gone] /\ UNCHANGED queue
       ELSE /\ stream' = [stream EXCEPT ![t][s].at = "ask", ![t][s].tries = 1]
            /\ queue' = [queue EXCEPT ![t] = @ - 1]
  /\ Poll(t)
  /\ UNCHANGED <<opts, stopped, due, countVars, walkVars, found>>

\* A worker takes a file from the channel; it drops it if the task is to stop.
Take(t, s) ==
  /\ stream[t][s].at = "idle" /\ queue[t] > 0
  /\ queue' = [queue EXCEPT ![t] = @ - 1]
  /\ Poll(t)
  /\ stream' = IF Halts(t) THEN stream
               ELSE [stream EXCEPT ![t][s].at = "ask", ![t][s].tries = 1]
  /\ UNCHANGED <<opts, stopped, due, countVars, walkVars, found>>

\* The channel is closed and empty.
Leave(t, s) ==
  /\ stream[t][s].at = "idle" /\ queue[t] = 0 /\ walk[t] = "gone"
  /\ stream' = [stream EXCEPT ![t][s] = Gone]
  /\ UNCHANGED <<opts, stopped, due, reason, countVars, crawlVars>>

Idle == [Gone EXCEPT !.at = "idle"]

Fetched(t, s) ==
  /\ InRequest(t, s) /\ opts[t].crawl
  /\ files' = [files EXCEPT ![t] = @ + 1]
  /\ stream' = [stream EXCEPT ![t][s] = Idle]
  /\ UNCHANGED <<opts, stopped, due, reason, error, loopsDone, crawlVars>>

\* The file fails (halted: copyStop ended it): after the user's stop that is no
\* error, nor is it before the last attempt.
NotFetched(t, s, halted) ==
  LET last == stream[t][s].tries = opts[t].retries + 1
  IN  /\ InRequest(t, s) /\ opts[t].crawl
      /\ halted => SeesHalt(t)
      /\ IF halted THEN Poll(t) ELSE UNCHANGED reason
      /\ IF stopped[t] \/ last THEN stream' = [stream EXCEPT ![t][s] = Idle] ELSE Retry(t, s)
      /\ error' = [error EXCEPT ![t] = @ \/ (last /\ ~stopped[t])]
      /\ UNCHANGED <<opts, stopped, due, files, loopsDone, crawlVars>>

\* The wait of a worker is one sleep; then it looks at the user's flag.
FetchAgain(t, s) ==
  /\ stream[t][s].at = "wait" /\ opts[t].crawl
  /\ stream' = [stream EXCEPT ![t][s] =
                  IF stopped[t] THEN Idle ELSE [@ EXCEPT !.at = "ask"]]
  /\ UNCHANGED <<opts, stopped, due, reason, countVars, crawlVars>>
=============================================================================
