----------------------------- MODULE MCDownloads ------------------------------
(***************************************************************************)
(* Downloads for TLC.  Two tasks: big is given one of several rich sets of *)
(* options, small is one download to a file.                               *)
(***************************************************************************)
EXTENDS Downloads

CONSTANTS big, small

Single == [crawl |-> FALSE, up |-> FALSE, disk |-> TRUE, conn |-> 2, loops |-> 1,
           retries |-> 0, wait |-> FALSE, startAt |-> FALSE, repeat |-> FALSE,
           stopFiles |-> 0, limits |-> {}]

\* Two streams of two loops, until there is a file or for some minutes.
Streamed == [Single EXCEPT !.disk = FALSE, !.loops = 2, !.stopFiles = 1,
               !.limits = {"time"}]

\* The same for one loop each, to their end.
Twice == [Streamed EXCEPT !.loops = 1, !.stopFiles = 0, !.limits = {}]

\* An upload at a time of every day, tried twice, until three files are counted.
Uploads == [Single EXCEPT !.up = TRUE, !.disk = FALSE, !.conn = 1, !.retries = 1,
              !.wait = TRUE, !.startAt = TRUE, !.repeat = TRUE, !.stopFiles = 3]

\* A crawl until there are two files.
Crawls == [Single EXCEPT !.crawl = TRUE, !.conn = 0, !.retries = 1, !.wait = TRUE,
             !.stopFiles = 2]

MCJobsOf == (big :> {Streamed, Twice, Uploads, Crawls}) @@ (small :> {Single})
=============================================================================
