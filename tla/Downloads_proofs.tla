--------------------------- MODULE Downloads_proofs ---------------------------
(***************************************************************************)
(* Proofs about Downloads, for any number of tasks, streams, loops and     *)
(* attempts, any site, and any number of stops, clears and restarts.       *)
(***************************************************************************)
EXTENDS Downloads, FiniteSetTheorems, TLAPS

StreamType == [at : {"gone", "top", "ask", "wait", "idle"}, loop : Nat, tries : Nat]

(* Numbers are bounded below, where a task says how. *)
TaskType ==
  /\ opts \in [Tasks -> Jobs \union {NoJob}]
  /\ stopped \in [Tasks -> BOOLEAN] /\ due \in [Tasks -> SUBSET {"size", "time"}]
  /\ reason \in [Tasks -> Reasons] /\ error \in [Tasks -> BOOLEAN]
  /\ files \in [Tasks -> Nat] /\ loopsDone \in [Tasks -> Nat]
  /\ stream \in [Tasks -> [Slots -> StreamType]]
  /\ CrawlTypeOK
  /\ pc \in [Tasks -> {"none", "wait", "cycle", "work", "between", "end", "save",
                       "over", "lost"}]
  /\ state \in [Tasks -> {"none", "running", "scheduled", "stopped", "error", "done"}]
  /\ cycles \in [Tasks -> Nat]

(* A task has options from its addition to the end of the process; its walk  *)
(* and its streams live, and its channel is filled, only within a cycle.     *)
Placed(t) ==
  /\ opts[t] \in JobsOf[t] \union {NoJob}
  /\ opts[t] = NoJob <=> pc[t] \in {"none", "lost"}
  /\ opts[t] = NoJob => files[t] = 0 /\ loopsDone[t] = 0 /\ found[t] = 0
  /\ walk[t] # "gone" \/ queue[t] > 0 => pc[t] = "work" /\ opts[t].crawl
  /\ walk[t] = "send" => toSend[t] > 0
  /\ pc[t] \in {"none", "wait"} => cycles[t] = 0
  /\ pc[t] \in {"cycle", "work"} => cycles[t] < MaxCycles
  /\ cycles[t] <= MaxCycles

(* A stream that has an attempt has a loop left for it. *)
Fits(o, str) ==
  /\ str.at = "gone" => str = Gone
  /\ str.loop <= o.loops /\ str.tries <= o.retries + 1
  /\ str.at = "idle" => o.crawl
  /\ str.at = "top" => ~o.crawl
  /\ str.at \in {"ask", "wait"} =>
       str.tries > 0 /\ (~o.crawl /\ o.loops > 0 => str.loop < o.loops)

Slotted(t) ==
  \A s \in Slots :
    stream[t][s] # Gone =>
      pc[t] = "work" /\ s <= StreamsOf(opts[t]) /\ Fits(opts[t], stream[t][s])

(* A worker leaves a crawl only when all that the walk found is taken. *)
Drained(t) ==
  opts[t] # NoJob =>
    \A s \in 1 .. StreamsOf(opts[t]) :
      stream[t][s] = Gone => walk[t] = "gone" /\ queue[t] = 0

-----------------------------------------------------------------------------
(* The files that a request under way can still count: one for a download;  *)
(* for an upload one for each attempt but the last, and two for that.  Each  *)
(* is a pair, so that all can be counted.                                   *)
PerStream(o) == IF o.up THEN o.retries + 2 ELSE 1

Coming(o, row) ==
  {f \in Slots \X (1 .. PerStream(o)) :
     /\ row[f[1]].at \in {"ask", "wait"}
     /\ o.up => f[2] + row[f[1]].tries <= o.retries + 3}

Limited(t) ==
  opts[t] # NoJob /\ opts[t].stopFiles > 0 =>
    files[t] + Cardinality(Coming(opts[t], stream[t]))
      <= opts[t].stopFiles - 1 + StreamsOf(opts[t]) * PerStream(opts[t])

-----------------------------------------------------------------------------
(* Nothing has ended the task, or gone wrong in it, so far. *)
Clean(t) == ~stopped[t] /\ reason[t] = "" /\ ~error[t]

Busy(row) == {s \in Slots : row[s].at \in {"ask", "wait"}}

(* The loops of this cycle that are done. *)
LoopsOf(o, row) ==
  {l \in (1 .. StreamsOf(o)) \X (1 .. o.loops) :
     row[l[1]] = Gone \/ l[2] <= row[l[1]].loop}

Fulfilled(t) ==
  opts[t] # NoJob /\ Clean(t) =>
    IF opts[t].crawl
      THEN found[t] = files[t] + queue[t] + Cardinality(Busy(stream[t]))
                        + IF walk[t] = "send" THEN 1 ELSE 0
      ELSE /\ opts[t].up \/ files[t] = loopsDone[t]
           /\ IF pc[t] # "work"
                THEN loopsDone[t] = cycles[t] * StreamsOf(opts[t]) * opts[t].loops
                ELSE IF opts[t].loops = 0
                THEN \A s \in 1 .. StreamsOf(opts[t]) : stream[t][s] # Gone
                ELSE loopsDone[t] = cycles[t] * StreamsOf(opts[t]) * opts[t].loops
                                      + Cardinality(LoopsOf(opts[t], stream[t]))

(* A task that says done did not say why only if nothing ended it. *)
Honest(t) ==
  pc[t] \in {"save", "over"} /\ state[t] = "done" /\ reason[t] = "" => Clean(t)

TaskGood(t) ==
  Placed(t) /\ Slotted(t) /\ Drained(t) /\ Limited(t) /\ Fulfilled(t) /\ Honest(t)

TaskInv == TaskType /\ \A t \in Tasks : TaskGood(t)

-----------------------------------------------------------------------------
(* The history: as in Persistence_proofs, but the requests are the ends of   *)
(* tasks, which are about different runs, and the removal of the file.       *)
Ended == {t \in Tasks : pc[t] \in {"save", "over", "lost"}}

FileType(file) == file \in {NoFile, Empty, Broken} \union RunLists

HistoryType ==
  /\ runs \in RunLists /\ snap \in [Callers -> RunLists]
  /\ saveAt \in [Callers -> {"no", "open", "write", "rename"}]
  /\ fd \in [Callers -> {"none", "tmp", "rec", "gone"}]
  /\ FileType(tmpFile) /\ FileType(recFile)
  /\ clearing \in BOOLEAN /\ events \in 0 .. MaxEvents
  /\ solo \in [Callers -> BOOLEAN] /\ overlapped \in BOOLEAN
  /\ fate \in [Tasks -> {"none", "kept", "gone"}]

(* A save is made at the end of a task, and at no other time. *)
SaversEnd == \A c \in Callers : Saving(c) <=> c \in Tasks /\ pc[c] = "save"

(* Every list holds only runs that have ended, so an end is new to all.  A   *)
(* promise is about a task whose end was announced.                          *)
ListInv ==
  /\ Range(runs) \subseteq Ended
  /\ \A c \in Callers : Range(snap[c]) \subseteq Ended
  /\ Range(Load(tmpFile)) \subseteq Ended /\ Range(Load(recFile)) \subseteq Ended
  /\ \A t \in Tasks : fate[t] # "none" => pc[t] \in {"over", "lost"}

MemoryInv ==
  \A t \in Tasks : /\ fate[t] = "kept" => t \in Range(runs)
                   /\ fate[t] = "gone" => t \notin Range(runs)

(* A save that is alone saves the list as it is, through a temporary file    *)
(* that nobody else has touched; a removal that is alone, of an empty list.  *)
SoloInv ==
  /\ \A c \in Callers : solo[c] =>
       /\ \A d \in Callers : Saving(d) => d = c
       /\ clearing => c = Clearer
       /\ c = Clearer => clearing /\ runs = <<>>
       /\ c # Clearer => Saving(c) /\ snap[c] = runs
       /\ saveAt[c] = "write" => tmpFile = Empty /\ fd[c] = "tmp"
       /\ saveAt[c] = "rename" => tmpFile = snap[c]
  /\ ~overlapped => /\ \A c \in Callers : Saving(c) => solo[c]
                    /\ clearing => solo[Clearer]

FileInv ==
  ~overlapped =>
    IF clearing THEN \A t \in Tasks : fate[t] = "none"
    ELSE \A t \in Tasks : ~Saving(t) => (t \in Range(Load(recFile)) <=> t \in Range(runs))

HistoryInv == HistoryType /\ SaversEnd /\ ListInv /\ MemoryInv /\ SoloInv /\ FileInv

-----------------------------------------------------------------------------
(* Tasks, streams and walks.                                                *)

LEMMA StreamsTyped ==
  ASSUME NEW t \in Tasks, NEW o \in JobsOf[t]
  PROVE  /\ o \in Jobs /\ o # NoJob /\ StreamsOf(o) \in 1 .. MaxStreams
         /\ o.up => ~o.crawl
<1>1. o \in Jobs /\ (o.up => ~o.crawl /\ ~o.disk) /\ o.conn <= MaxStreams /\ o # NoJob
  BY StreamsAssumption
<1>2. MaxStreams \in Nat \ {0} /\ CrawlWorkers \in 2 .. MaxStreams
  BY StreamsAssumption, Zenon
<1>3. o.conn \in Nat
  BY <1>1 DEF Jobs
<1> QED
  BY <1>1, <1>2, <1>3 DEF StreamsOf

LEMMA GoneTyped ==
  /\ Gone \in StreamType /\ Gone.at = "gone"
  /\ \A at \in {"top", "idle"} :
       /\ [Gone EXCEPT !.at = at] \in StreamType /\ [Gone EXCEPT !.at = at].at = at
       /\ [Gone EXCEPT !.at = at].loop = 0 /\ [Gone EXCEPT !.at = at].tries = 0
       /\ [Gone EXCEPT !.at = at] # Gone
BY DEF Gone, StreamType

(* A poll gives the first reason; one that finds a reason to stop leaves it. *)
LEMMA Polled ==
  ASSUME TaskType, NEW t \in Tasks, Poll(t)
  PROVE  /\ reason' \in [Tasks -> Reasons]
         /\ \A u \in Tasks : u # t \/ reason[t] # "" => reason'[u] = reason[u]
         /\ Halts(t) => stopped[t] \/ reason'[t] # ""
<1>1. First(t) \in Reasons /\ First(t) # ""
  BY DEF First, Reasons
<1>2. CASE ~stopped[t] /\ Reached(t) /\ reason[t] = ""
  <2>1. reason' = [reason EXCEPT ![t] = First(t)]
    BY <1>2 DEF Poll
  <2> QED
    BY <1>1, <1>2, <2>1 DEF TaskType
<1>3. CASE ~(~stopped[t] /\ Reached(t) /\ reason[t] = "")
  BY <1>3 DEF Poll, TaskType, Halts
<1> QED
  BY <1>2, <1>3

(* What a step does not touch keeps what is said of it. *)
Same(u) ==
  /\ opts'[u] = opts[u] /\ stopped'[u] = stopped[u] /\ reason'[u] = reason[u]
  /\ error'[u] = error[u] /\ files'[u] = files[u] /\ loopsDone'[u] = loopsDone[u]
  /\ stream'[u] = stream[u] /\ walk'[u] = walk[u] /\ toSend'[u] = toSend[u]
  /\ queue'[u] = queue[u] /\ found'[u] = found[u]
  /\ pc'[u] = pc[u] /\ state'[u] = state[u] /\ cycles'[u] = cycles[u]

LEMMA SameKeeps ==
  ASSUME NEW u \in Tasks, Same(u)
  PROVE  /\ Placed(u) => Placed(u)'
         /\ Slotted(u) => Slotted(u)'
         /\ Drained(u) => Drained(u)'
         /\ Limited(u) => Limited(u)'
         /\ Fulfilled(u) => Fulfilled(u)'
         /\ Honest(u) => Honest(u)'
<1>1. Placed(u) => Placed(u)'
  BY DEF Same, Placed
<1>2. Slotted(u) => Slotted(u)'
  BY DEF Same, Slotted
<1>3. Drained(u) => Drained(u)'
  BY DEF Same, Drained
<1>4. Limited(u) => Limited(u)'
  BY DEF Same, Limited
<1>5. Fulfilled(u) => Fulfilled(u)'
  BY DEF Same, Fulfilled, Clean
<1>6. Honest(u) => Honest(u)'
  BY DEF Same, Honest, Clean
<1> QED
  BY <1>1, <1>2, <1>3, <1>4, <1>5, <1>6

(* Stream s of t turns to str, and no other moves. *)
Turns(t, s, str) ==
  /\ str \in StreamType /\ stream' \in [Tasks -> [Slots -> StreamType]]
  /\ stream'[t][s] = str
  /\ \A r \in Slots : r # s => stream'[t][r] = stream[t][r]
  /\ \A u \in Tasks : u # t => stream'[u] = stream[u]

LEMMA OneTurns ==
  ASSUME TaskType, NEW t \in Tasks, NEW s \in Slots, NEW str \in StreamType,
         stream' = [stream EXCEPT ![t][s] = str]
  PROVE  Turns(t, s, str)
BY DEF TaskType, Turns

LEMMA RetryTurns ==
  ASSUME TaskType, NEW t \in Tasks, NEW s \in Slots, Retry(t, s)
  PROVE  \E str \in StreamType :
           /\ Turns(t, s, str) /\ str.at \in {"ask", "wait"}
           /\ str.loop = stream[t][s].loop /\ str.tries = stream[t][s].tries + 1
<1> DEFINE next == IF opts[t].wait THEN "wait" ELSE "ask"
           old == stream[t][s]
           more == old.tries + 1
           str == [old EXCEPT !.at = next, !.tries = more]
<1>1. old \in StreamType /\ next \in {"ask", "wait"} /\ more \in Nat
  BY DEF TaskType, StreamType
<1>2. stream' = [stream EXCEPT ![t][s] = str]
  BY DEF Retry, TaskType
<1> HIDE DEF next, more, old
<1>3. /\ str \in StreamType /\ str.at = next /\ str.loop = old.loop /\ str.tries = more
  BY <1>1 DEF StreamType
<1> HIDE DEF str
<1> QED
  BY <1>1, <1>2, <1>3, OneTurns DEF old, more

LEMMA AskTurns ==
  ASSUME TaskType, NEW t \in Tasks, NEW s \in Slots, NEW n \in Nat
  PROVE  /\ [stream[t][s] EXCEPT !.at = "ask", !.tries = n] \in StreamType
         /\ [stream[t][s] EXCEPT !.at = "ask", !.tries = n].at = "ask"
         /\ [stream[t][s] EXCEPT !.at = "ask", !.tries = n].tries = n
         /\ [stream[t][s] EXCEPT !.at = "ask", !.tries = n].loop = stream[t][s].loop
         /\ [stream[t][s] EXCEPT !.at = "ask"] \in StreamType
         /\ [stream[t][s] EXCEPT !.at = "ask"].at = "ask"
         /\ [stream[t][s] EXCEPT !.at = "ask"].tries = stream[t][s].tries
         /\ [stream[t][s] EXCEPT !.at = "ask"].loop = stream[t][s].loop
<1>1. stream[t][s] \in StreamType
  BY DEF TaskType
<1> QED
  BY <1>1 DEF StreamType

-----------------------------------------------------------------------------
(* The steps of a stream.  What none of them touches: *)
Stays ==
  /\ opts' = opts /\ stopped' = stopped /\ due' = due
  /\ walk' = walk /\ dirs' = dirs /\ crawled' = crawled /\ toSend' = toSend /\ found' = found
  /\ pc' = pc /\ state' = state /\ cycles' = cycles

(* What they touch of their task alone: *)
Counted(t) ==
  /\ files' \in [Tasks -> Nat] /\ loopsDone' \in [Tasks -> Nat]
  /\ error' \in [Tasks -> BOOLEAN] /\ queue' \in [Tasks -> 0 .. QueueCap]
  /\ reason' \in [Tasks -> Reasons]
  /\ \A u \in Tasks : u # t =>
       /\ files'[u] = files[u] /\ loopsDone'[u] = loopsDone[u] /\ error'[u] = error[u]
       /\ queue'[u] = queue[u] /\ reason'[u] = reason[u]

LEMMA StreamFrame ==
  ASSUME TaskType, NEW t \in Tasks, Stays, Counted(t),
         stream' \in [Tasks -> [Slots -> StreamType]],
         \A u \in Tasks : u # t => stream'[u] = stream[u]
  PROVE  TaskType' /\ \A u \in Tasks : u # t => Same(u)
<1>1. TaskType'
  BY DEF TaskType, CrawlTypeOK, Stays, Counted
<1>2. ASSUME NEW u \in Tasks, u # t PROVE Same(u)
  BY <1>2 DEF Stays, Counted, Same
<1> QED
  BY <1>1, <1>2

LEMMA TurnFits ==
  ASSUME TaskInv, NEW t \in Tasks, NEW s \in Slots, NEW str,
         Stays, Counted(t), Turns(t, s, str), stream[t][s] # Gone,
         str # Gone => Fits(opts[t], str),
         str = Gone /\ opts[t].crawl => walk[t] = "gone" /\ queue'[t] = 0,
         queue'[t] <= queue[t]
  PROVE  /\ Placed(t)' /\ Slotted(t)' /\ Drained(t)' /\ Honest(t)'
         /\ pc[t] = "work" /\ opts[t] \in JobsOf[t]
<1>1. /\ Placed(t) /\ Slotted(t) /\ Drained(t)
      /\ opts'[t] = opts[t] /\ walk'[t] = walk[t] /\ toSend'[t] = toSend[t]
      /\ found'[t] = found[t] /\ pc'[t] = pc[t] /\ cycles'[t] = cycles[t]
  BY DEF TaskInv, TaskGood, Stays
<1>2. /\ pc[t] = "work" /\ opts[t] # NoJob /\ opts[t] \in JobsOf[t]
      /\ s <= StreamsOf(opts[t])
  BY <1>1 DEF Slotted, Placed
<1>3. queue[t] \in 0 .. QueueCap /\ queue'[t] \in 0 .. QueueCap /\ QueueCap \in Nat
  BY CrawlAssumption DEF TaskInv, TaskType, CrawlTypeOK, Counted
<1>4. Placed(t)'
  BY <1>1, <1>2, <1>3 DEF Placed
<1>5. Slotted(t)'
  <2> SUFFICES ASSUME NEW r \in Slots, stream'[t][r] # Gone
               PROVE  r <= StreamsOf(opts[t]) /\ Fits(opts[t], stream'[t][r])
    BY <1>1, <1>2 DEF Slotted, Fits
  <2>1. CASE r = s
    BY <1>2, <2>1 DEF Turns
  <2>2. CASE r # s
    BY <1>1, <2>2 DEF Turns, Slotted
  <2> QED
    BY <2>1, <2>2
<1>6. Drained(t)'
  <2> SUFFICES ASSUME NEW r \in 1 .. StreamsOf(opts[t]), stream'[t][r] = Gone
               PROVE  walk[t] = "gone" /\ queue'[t] = 0
    BY <1>1 DEF Drained
  <2>0. r \in Slots
    BY <1>2, StreamsTyped, StreamsAssumption DEF Slots
  <2>1. CASE r = s
    <3>1. CASE opts[t].crawl
      BY <2>1, <3>1 DEF Turns
    <3>2. CASE ~opts[t].crawl
      BY <1>1, <1>3, <3>2 DEF Placed
    <3> QED
      BY <3>1, <3>2
  <2>2. CASE r # s
    BY <1>1, <1>2, <1>3, <2>0, <2>2 DEF Turns, Drained
  <2> QED
    BY <2>1, <2>2
<1>7. Honest(t)'
  BY <1>1, <1>2 DEF Honest
<1> QED
  BY <1>2, <1>4, <1>5, <1>6, <1>7

-----------------------------------------------------------------------------
(* Counting.                                                                *)
LEMMA SlotsTyped == IsFiniteSet(Slots) /\ MaxStreams \in Nat
<1>1. MaxStreams \in Nat
  BY StreamsAssumption, Zenon
<1> QED
  BY <1>1, FS_Interval DEF Slots

LEMMA FirstNumbers ==
  ASSUME NEW n \in Nat
  PROVE  IsFiniteSet(1 .. n) /\ Cardinality(1 .. n) = n
BY FS_Interval

LEMMA Fewer ==
  ASSUME NEW S, IsFiniteSet(S), NEW T \in SUBSET S
  PROVE  /\ IsFiniteSet(T) /\ Cardinality(T) \in Nat /\ Cardinality(S) \in Nat
         /\ Cardinality(T) <= Cardinality(S)
         /\ \A x \in S : x \notin T => Cardinality(T) + 1 <= Cardinality(S)
         /\ \A x, y \in S : x \notin T /\ y \notin T /\ x # y =>
              Cardinality(T) + 2 <= Cardinality(S)
<1>1. /\ IsFiniteSet(T) /\ Cardinality(T) \in Nat /\ Cardinality(S) \in Nat
      /\ Cardinality(T) <= Cardinality(S)
  BY FS_Subset, FS_CardinalityType
<1>2. ASSUME NEW x \in S, x \notin T PROVE Cardinality(T) + 1 <= Cardinality(S)
  <2>1. IsFiniteSet(S \ {x}) /\ Cardinality(S \ {x}) = Cardinality(S) - 1
    BY FS_RemoveElement
  <2>2. Cardinality(T) <= Cardinality(S \ {x})
    BY <1>2, <2>1, FS_Subset
  <2> QED
    BY <1>1, <2>1, <2>2
<1>3. ASSUME NEW x \in S, NEW y \in S, x \notin T, y \notin T, x # y
      PROVE  Cardinality(T) + 2 <= Cardinality(S)
  <2>1. IsFiniteSet(S \ {x}) /\ Cardinality(S \ {x}) = Cardinality(S) - 1
    BY FS_RemoveElement
  <2>2. /\ IsFiniteSet((S \ {x}) \ {y})
        /\ Cardinality((S \ {x}) \ {y}) = Cardinality(S \ {x}) - 1
    BY <1>3, <2>1, FS_RemoveElement
  <2>3. Cardinality(T) <= Cardinality((S \ {x}) \ {y})
    BY <1>3, <2>2, FS_Subset
  <2> QED
    BY <1>1, <2>1, <2>2, <2>3
<1> QED
  BY <1>1, <1>2, <1>3

LEMMA PerStreamTyped ==
  ASSUME NEW o \in Jobs
  PROVE  /\ o.retries \in Nat /\ o.loops \in Nat /\ o.stopFiles \in Nat
         /\ o.up \in BOOLEAN /\ PerStream(o) \in Nat \ {0}
         /\ PerStream(o) = IF o.up THEN o.retries + 2 ELSE 1
BY DEF Jobs, PerStream

(* No more is coming than each stream can count. *)
LEMMA ComingBounded ==
  ASSUME NEW t \in Tasks, NEW o \in JobsOf[t], NEW row,
         \A s \in Slots : row[s].at \in {"ask", "wait"} => s <= StreamsOf(o)
  PROVE  /\ IsFiniteSet(Coming(o, row)) /\ Cardinality(Coming(o, row)) \in Nat
         /\ Cardinality(Coming(o, row)) <= StreamsOf(o) * PerStream(o)
<1> DEFINE All == (1 .. StreamsOf(o)) \X (1 .. PerStream(o))
<1>1. StreamsOf(o) \in Nat /\ PerStream(o) \in Nat
  BY StreamsTyped, SlotsTyped, PerStreamTyped
<1>2. /\ IsFiniteSet(1 .. StreamsOf(o)) /\ Cardinality(1 .. StreamsOf(o)) = StreamsOf(o)
      /\ IsFiniteSet(1 .. PerStream(o)) /\ Cardinality(1 .. PerStream(o)) = PerStream(o)
  BY <1>1, FirstNumbers, Zenon
<1>3. IsFiniteSet(All) /\ Cardinality(All) = StreamsOf(o) * PerStream(o)
  BY <1>2, FS_Product
<1>4. Coming(o, row) \in SUBSET All
  BY <1>1, SlotsTyped DEF Coming, Slots
<1> HIDE DEF All
<1> QED
  BY <1>3, <1>4, Fewer

(* Stream s of a task turns from an attempt: *)
LEMMA ComingSpent ==
  ASSUME NEW o \in Jobs, NEW row, NEW next, NEW s \in Slots,
         IsFiniteSet(Coming(o, row)),
         row[s].at \in {"ask", "wait"}, row[s].tries \in 1 .. o.retries + 1,
         \A r \in Slots : r # s => next[r] = row[r]
  PROVE  \* to another, of which an upload has one less,
         /\ next[s].at \in {"ask", "wait"} /\ next[s].tries = row[s].tries =>
              Cardinality(Coming(o, next)) <= Cardinality(Coming(o, row))
         /\ next[s].at \in {"ask", "wait"} /\ next[s].tries = row[s].tries + 1 =>
              Cardinality(Coming(o, next)) + (IF o.up THEN 1 ELSE 0)
                <= Cardinality(Coming(o, row))
         \* or to none.
         /\ next[s].at \notin {"ask", "wait"} =>
              Cardinality(Coming(o, next)) + (IF o.up THEN 2 ELSE 1)
                <= Cardinality(Coming(o, row))
<1> DEFINE old == Coming(o, row)
           new == Coming(o, next)
           n == PerStream(o)
           top == <<s, o.retries + 3 - row[s].tries>>
<1>1. o.retries \in Nat /\ n \in Nat /\ n = IF o.up THEN o.retries + 2 ELSE 1
  BY PerStreamTyped
<1>2. <<s, 1>> \in old
  BY <1>1 DEF Coming
<1>3. o.up => <<s, 2>> \in old /\ top \in old
  BY <1>1 DEF Coming
<1>4. CASE next[s].at \in {"ask", "wait"} /\ next[s].tries = row[s].tries
  <2>1. new \in SUBSET old
    BY <1>4 DEF Coming
  <2> HIDE DEF old, new
  <2>2. Cardinality(new) <= Cardinality(old)
    BY <2>1, Fewer DEF old
  <2>3. next[s].tries # row[s].tries + 1
    BY <1>1, <1>4
  <2> QED
    BY <1>4, <2>2, <2>3 DEF old, new
<1>5. CASE next[s].at \in {"ask", "wait"} /\ next[s].tries = row[s].tries + 1
  <2>1. new \in SUBSET old
    <3> SUFFICES ASSUME NEW f \in new PROVE f \in old
      OBVIOUS
    <3>1. CASE f[1] = s
      BY <1>1, <1>5, <3>1 DEF Coming
    <3>2. CASE f[1] # s
      BY <3>2 DEF Coming
    <3> QED
      BY <3>1, <3>2
  <2>2. o.up => top \notin new
    BY <1>1, <1>5 DEF Coming
  <2>3. o.up => top \in old
    BY <1>3
  <2>4. next[s].tries # row[s].tries
    BY <1>1, <1>5
  <2> HIDE DEF old, new, top
  <2>5. /\ Cardinality(new) \in Nat /\ Cardinality(new) <= Cardinality(old)
        /\ o.up => Cardinality(new) + 1 <= Cardinality(old)
    BY <2>1, <2>2, <2>3, Fewer DEF old
  <2>6. Cardinality(new) + (IF o.up THEN 1 ELSE 0) <= Cardinality(old)
    BY <2>5
  <2> QED
    BY <1>5, <2>4, <2>6 DEF old, new
<1>6. CASE next[s].at \notin {"ask", "wait"}
  <2>1. new \in SUBSET old /\ <<s, 1>> \notin new /\ <<s, 2>> \notin new
    BY <1>6 DEF Coming
  <2>2. <<s, 1>> # <<s, 2>>
    OBVIOUS
  <2> HIDE DEF old, new
  <2>3. /\ Cardinality(new) \in Nat /\ Cardinality(new) + 1 <= Cardinality(old)
        /\ o.up => Cardinality(new) + 2 <= Cardinality(old)
    BY <1>2, <1>3, <2>1, <2>2, Fewer DEF old
  <2>4. Cardinality(new) + (IF o.up THEN 2 ELSE 1) <= Cardinality(old)
    BY <2>3
  <2> QED
    BY <1>6, <2>4 DEF old, new
<1> QED
  BY <1>4, <1>5, <1>6


(* The workers that fetch a file. *)
LEMMA BusyCounted ==
  ASSUME NEW row, NEW next, NEW s \in Slots, \A r \in Slots : r # s => next[r] = row[r]
  PROVE  /\ Cardinality(Busy(row)) \in Nat /\ Cardinality(Busy(next)) \in Nat
         /\ (row[s].at \in {"ask", "wait"} <=> next[s].at \in {"ask", "wait"}) =>
              Cardinality(Busy(next)) = Cardinality(Busy(row))
         /\ row[s].at \notin {"ask", "wait"} /\ next[s].at \in {"ask", "wait"} =>
              Cardinality(Busy(next)) = Cardinality(Busy(row)) + 1
         /\ row[s].at \in {"ask", "wait"} /\ next[s].at \notin {"ask", "wait"} =>
              Cardinality(Busy(row)) = Cardinality(Busy(next)) + 1
<1>1. /\ IsFiniteSet(Busy(row)) /\ Cardinality(Busy(row)) \in Nat
      /\ IsFiniteSet(Busy(next)) /\ Cardinality(Busy(next)) \in Nat
  BY SlotsTyped, FS_Subset, FS_CardinalityType DEF Busy
<1>2. (row[s].at \in {"ask", "wait"} <=> next[s].at \in {"ask", "wait"}) =>
        Busy(next) = Busy(row)
  BY DEF Busy
<1>3. row[s].at \notin {"ask", "wait"} /\ next[s].at \in {"ask", "wait"} =>
        Busy(next) = Busy(row) \union {s} /\ s \notin Busy(row)
  BY DEF Busy
<1>4. row[s].at \in {"ask", "wait"} /\ next[s].at \notin {"ask", "wait"} =>
        Busy(row) = Busy(next) \union {s} /\ s \notin Busy(next)
  BY DEF Busy
<1>5. /\ s \notin Busy(row) => Cardinality(Busy(row) \union {s}) = Cardinality(Busy(row)) + 1
      /\ s \notin Busy(next) =>
           Cardinality(Busy(next) \union {s}) = Cardinality(Busy(next)) + 1
  BY <1>1, FS_AddElement
<1> QED
  BY <1>1, <1>2, <1>3, <1>4, <1>5

(* The loops of a cycle: all of them once all streams are gone ... *)
LEMMA LoopsCounted ==
  ASSUME NEW t \in Tasks, NEW o \in JobsOf[t], NEW row
  PROVE  /\ IsFiniteSet(LoopsOf(o, row)) /\ Cardinality(LoopsOf(o, row)) \in Nat
         /\ (\A s \in Slots : row[s] = Gone) =>
              Cardinality(LoopsOf(o, row)) = StreamsOf(o) * o.loops
         /\ (\A s \in 1 .. StreamsOf(o) : row[s] # Gone /\ row[s].loop = 0) =>
              Cardinality(LoopsOf(o, row)) = 0
<1> DEFINE All == (1 .. StreamsOf(o)) \X (1 .. o.loops)
<1>1. StreamsOf(o) \in Nat /\ o.loops \in Nat /\ \A s \in 1 .. StreamsOf(o) : s \in Slots
  BY StreamsTyped, SlotsTyped, PerStreamTyped DEF Slots
<1>2. /\ IsFiniteSet(1 .. StreamsOf(o)) /\ Cardinality(1 .. StreamsOf(o)) = StreamsOf(o)
      /\ IsFiniteSet(1 .. o.loops) /\ Cardinality(1 .. o.loops) = o.loops
  BY <1>1, FirstNumbers, Zenon
<1>3. IsFiniteSet(All) /\ Cardinality(All) = StreamsOf(o) * o.loops
  BY <1>2, FS_Product
<1>4. LoopsOf(o, row) \in SUBSET All
  BY DEF LoopsOf
<1>5. (\A s \in Slots : row[s] = Gone) => LoopsOf(o, row) = All
  BY <1>1 DEF LoopsOf
<1>6. (\A s \in 1 .. StreamsOf(o) : row[s] # Gone /\ row[s].loop = 0) => LoopsOf(o, row) = {}
  BY <1>1 DEF LoopsOf
<1> HIDE DEF All
<1> QED
  BY <1>3, <1>4, <1>5, <1>6, Fewer, FS_EmptySet

(* ... and one more when a stream has done one. *)
LEMMA LoopsTurned ==
  ASSUME NEW t \in Tasks, NEW o \in JobsOf[t], NEW row, NEW next,
         row \in [Slots -> StreamType], next \in [Slots -> StreamType],
         NEW s \in 1 .. StreamsOf(o), row[s] # Gone, row[s].loop <= o.loops,
         \A r \in Slots : r # s => next[r] = row[r]
  PROVE  /\ next[s] # Gone /\ next[s].loop = row[s].loop =>
              Cardinality(LoopsOf(o, next)) = Cardinality(LoopsOf(o, row))
         /\ next[s] = Gone /\ row[s].loop = o.loops =>
              Cardinality(LoopsOf(o, next)) = Cardinality(LoopsOf(o, row))
         /\ next[s] # Gone /\ row[s].loop < o.loops /\ next[s].loop = row[s].loop + 1 =>
              Cardinality(LoopsOf(o, next)) = Cardinality(LoopsOf(o, row)) + 1
<1>1. StreamsOf(o) \in Nat /\ o.loops \in Nat /\ \A r \in 1 .. StreamsOf(o) : r \in Slots
  BY StreamsTyped, SlotsTyped, PerStreamTyped DEF Slots
<1>2. \A r \in Slots : row[r].loop \in Nat /\ next[r].loop \in Nat
  BY DEF StreamType
<1>3. next[s] # Gone /\ next[s].loop = row[s].loop => LoopsOf(o, next) = LoopsOf(o, row)
  BY <1>1, <1>2 DEF LoopsOf
<1>4. next[s] = Gone /\ row[s].loop = o.loops => LoopsOf(o, next) = LoopsOf(o, row)
  BY <1>1, <1>2 DEF LoopsOf
<1>5. ASSUME next[s] # Gone, row[s].loop < o.loops, next[s].loop = row[s].loop + 1
      PROVE  Cardinality(LoopsOf(o, next)) = Cardinality(LoopsOf(o, row)) + 1
  <2> DEFINE l == <<s, row[s].loop + 1>>
  <2>1. l \notin LoopsOf(o, row)
    BY <1>1, <1>2 DEF LoopsOf
  <2>2. LoopsOf(o, next) = LoopsOf(o, row) \union {l}
    <3>1. ASSUME NEW k \in (1 .. StreamsOf(o)) \X (1 .. o.loops)
          PROVE  k \in LoopsOf(o, next) <=> k \in LoopsOf(o, row) \union {l}
      <4>1. CASE k[1] = s
        BY <1>1, <1>2, <1>5, <4>1 DEF LoopsOf
      <4>2. CASE k[1] # s
        BY <1>1, <4>2 DEF LoopsOf
      <4> QED
        BY <4>1, <4>2
    <3>2. l \in (1 .. StreamsOf(o)) \X (1 .. o.loops)
      BY <1>1, <1>2, <1>5
    <3> QED
      BY <3>1, <3>2 DEF LoopsOf
  <2> HIDE DEF l
  <2> QED
    BY <2>1, <2>2, LoopsCounted, FS_AddElement
<1> QED
  BY <1>3, <1>4, <1>5


-----------------------------------------------------------------------------
(* What each step of a stream must leave: *)
StepGood(t) == TaskType' /\ TaskGood(t)' /\ \A u \in Tasks : u # t => Same(u)

(* An attempt that ends, or turns to the next, has counted what it may. *)
LEMMA TurnLimited ==
  ASSUME TaskInv, NEW t \in Tasks, NEW s \in Slots, NEW str,
         Stays, Counted(t), Turns(t, s, str), stream[t][s] # Gone,
         \/ /\ stream[t][s].at \in {"ask", "wait"}
            /\ \/ /\ str.at \in {"ask", "wait"} /\ str.tries = stream[t][s].tries
                  /\ files'[t] = files[t]
               \/ /\ str.at \in {"ask", "wait"} /\ str.tries = stream[t][s].tries + 1
                  /\ files'[t] <= files[t] + IF opts[t].up THEN 1 ELSE 0
               \/ /\ str.at \notin {"ask", "wait"}
                  /\ files'[t] <= files[t] + IF opts[t].up THEN 2 ELSE 1
         \/ /\ stream[t][s].at \notin {"ask", "wait"} /\ str.at \notin {"ask", "wait"}
            /\ files'[t] = files[t]
  PROVE  Limited(t)'
<1> DEFINE o == opts[t]
           row == stream[t]
           next == stream'[t]
           most == StreamsOf(o) * PerStream(o)
<1>1. /\ Placed(t) /\ Slotted(t) /\ Limited(t) /\ opts'[t] = o
      /\ files[t] \in Nat /\ files'[t] \in Nat
  BY DEF TaskInv, TaskGood, Stays, TaskType, Counted
<1>2. o \in JobsOf[t] /\ Fits(o, row[s])
  BY <1>1 DEF Slotted, Placed
<1>3. o \in Jobs
  BY <1>2, StreamsTyped
<1>4. o.retries \in Nat /\ o.stopFiles \in Nat /\ PerStream(o) \in Nat /\ StreamsOf(o) \in Nat
  BY <1>2, <1>3, PerStreamTyped, StreamsTyped, SlotsTyped
<1>5. \A r \in Slots : row[r].at \in {"ask", "wait"} => r <= StreamsOf(o)
  BY <1>1, GoneTyped DEF Slotted
<1>6. IsFiniteSet(Coming(o, row)) /\ Cardinality(Coming(o, row)) \in Nat
  BY <1>2, <1>5, ComingBounded
<1>7. next[s] = str /\ \A r \in Slots : r # s => next[r] = row[r]
  BY DEF Turns
<1>8. IsFiniteSet(Coming(o, next)) /\ Cardinality(Coming(o, next)) \in Nat
  <2>1. \A r \in Slots : next[r].at \in {"ask", "wait"} => r <= StreamsOf(o)
    BY <1>1, <1>5, <1>7 DEF Slotted
  <2> QED
    BY <1>2, <2>1, ComingBounded
<1>9. files'[t] + Cardinality(Coming(o, next)) <= files[t] + Cardinality(Coming(o, row))
  <2>1. CASE row[s].at \in {"ask", "wait"}
    <3>1. row[s].tries \in 1 .. o.retries + 1
      <4>1. row[s].tries \in Nat
        BY DEF TaskInv, TaskType, StreamType
      <4> QED
        BY <1>2, <1>4, <2>1, <4>1 DEF Fits
    <3>2. o.up \in BOOLEAN
      BY <1>3, PerStreamTyped
    <3> HIDE DEF o, row, next
    <3>3. CASE /\ str.at \in {"ask", "wait"} /\ str.tries = row[s].tries
               /\ files'[t] = files[t]
      BY <1>1, <1>3, <1>6, <1>7, <1>8, <2>1, <3>1, <3>3, ComingSpent
    <3>4. CASE /\ str.at \in {"ask", "wait"} /\ str.tries = row[s].tries + 1
               /\ files'[t] <= files[t] + IF o.up THEN 1 ELSE 0
      <4>1. Cardinality(Coming(o, next)) + (IF o.up THEN 1 ELSE 0)
              <= Cardinality(Coming(o, row))
        BY <1>3, <1>6, <1>7, <2>1, <3>1, <3>4, ComingSpent
      <4> QED
        BY <1>1, <1>6, <1>8, <3>2, <3>4, <4>1
    <3>5. CASE /\ str.at \notin {"ask", "wait"}
               /\ files'[t] <= files[t] + IF o.up THEN 2 ELSE 1
      <4>1. Cardinality(Coming(o, next)) + (IF o.up THEN 2 ELSE 1)
              <= Cardinality(Coming(o, row))
        BY <1>3, <1>6, <1>7, <2>1, <3>1, <3>5, ComingSpent
      <4> QED
        BY <1>1, <1>6, <1>8, <3>2, <3>5, <4>1
    <3> QED
      BY <2>1, <3>3, <3>4, <3>5 DEF o, row
  <2>2. CASE row[s].at \notin {"ask", "wait"}
    <3>1. str.at \notin {"ask", "wait"} /\ files'[t] = files[t]
      BY <2>2
    <3>2. Coming(o, next) = Coming(o, row)
      BY <1>7, <2>2, <3>1 DEF Coming
    <3> QED
      BY <1>1, <1>6, <3>1, <3>2
  <2> QED
    BY <2>1, <2>2
<1>10. o # NoJob /\ most \in Nat
  BY <1>2, <1>4, StreamsTyped
<1> HIDE DEF most
<1>11. o.stopFiles > 0 => files'[t] + Cardinality(Coming(o, next)) <= o.stopFiles - 1 + most
  <2>1. o.stopFiles > 0 => files[t] + Cardinality(Coming(o, row)) <= o.stopFiles - 1 + most
    BY <1>1, <1>10 DEF Limited, most
  <2> HIDE DEF o, row, next
  <2> QED
    BY <1>1, <1>4, <1>6, <1>8, <1>9, <1>10, <2>1
<1> QED
  BY <1>1, <1>11 DEF Limited, most

(* A first attempt begins when the number of files is not reached. *)
LEMMA AskLimited ==
  ASSUME TaskInv, NEW t \in Tasks, NEW s \in Slots, NEW str,
         Stays, Counted(t), Turns(t, s, str), stream[t][s] # Gone,
         ~Full(t), files'[t] = files[t]
  PROVE  Limited(t)'
<1> DEFINE o == opts[t]
           next == stream'[t]
           most == StreamsOf(o) * PerStream(o)
<1>1. /\ Placed(t) /\ Slotted(t) /\ opts'[t] = o /\ files[t] \in Nat /\ files'[t] = files[t]
  BY DEF TaskInv, TaskGood, Stays, TaskType, Counted
<1>2. o \in JobsOf[t] /\ s <= StreamsOf(o)
  BY <1>1 DEF Slotted, Placed
<1>3. o.stopFiles \in Nat /\ PerStream(o) \in Nat /\ StreamsOf(o) \in Nat
  BY <1>2, PerStreamTyped, StreamsTyped, SlotsTyped
<1>4. \A r \in Slots : next[r].at \in {"ask", "wait"} => r <= StreamsOf(o)
  BY <1>1, <1>2, GoneTyped DEF Slotted, Turns
<1>5. Cardinality(Coming(o, next)) \in Nat /\ Cardinality(Coming(o, next)) <= most
  BY <1>2, <1>4, ComingBounded
<1>6. o.stopFiles > 0 => files[t] <= o.stopFiles - 1
  BY <1>1, <1>3 DEF Full
<1>7. most \in Nat
  BY <1>3
<1> HIDE DEF most
<1>8. o.stopFiles > 0 => files'[t] + Cardinality(Coming(o, next)) <= o.stopFiles - 1 + most
  <2> HIDE DEF o, next
  <2> QED
    BY <1>1, <1>3, <1>5, <1>6, <1>7
<1> QED
  BY <1>1, <1>8 DEF Limited, most


(* As long as nothing has ended the task, a loop that is done is counted, *)
LEMMA TurnLoops ==
  ASSUME TaskInv, NEW t \in Tasks, NEW s \in Slots, NEW str,
         Stays, Counted(t), Turns(t, s, str), stream[t][s] # Gone, ~opts[t].crawl,
         Clean(t)' =>
           /\ Clean(t)
           /\ \/ /\ str # Gone /\ str.loop = stream[t][s].loop
                 /\ loopsDone'[t] = loopsDone[t]
                 /\ opts[t].up \/ files'[t] = files[t]
              \/ /\ str = Gone /\ opts[t].loops > 0 /\ stream[t][s].loop = opts[t].loops
                 /\ loopsDone'[t] = loopsDone[t] /\ files'[t] = files[t]
              \/ /\ str # Gone /\ loopsDone'[t] = loopsDone[t] + 1
                 /\ opts[t].up \/ files'[t] = files[t] + 1
                 /\ opts[t].loops > 0 => /\ stream[t][s].loop < opts[t].loops
                                         /\ str.loop = stream[t][s].loop + 1
  PROVE  Fulfilled(t)'
<1> DEFINE o == opts[t]
           row == stream[t]
           next == stream'[t]
           before == cycles[t] * StreamsOf(o) * o.loops
<1> SUFFICES ASSUME Clean(t)' PROVE Fulfilled(t)'
  BY DEF Fulfilled
<1>1. /\ Placed(t) /\ Slotted(t) /\ Fulfilled(t) /\ Clean(t)
      /\ opts'[t] = o /\ pc'[t] = pc[t] /\ cycles'[t] = cycles[t]
      /\ files[t] \in Nat /\ loopsDone[t] \in Nat /\ cycles[t] \in Nat
  BY DEF TaskInv, TaskGood, Stays, TaskType
<1>2. o \in JobsOf[t] /\ o # NoJob /\ s <= StreamsOf(o) /\ pc[t] = "work" /\ row[s].loop <= o.loops
  BY <1>1 DEF Slotted, Placed, Fits
<1>3. o.loops \in Nat /\ StreamsOf(o) \in Nat
  BY <1>2, StreamsTyped, PerStreamTyped, SlotsTyped
<1>4. s \in 1 .. StreamsOf(o) /\ \A r \in 1 .. StreamsOf(o) : r \in Slots
  BY <1>2, <1>3, StreamsTyped, SlotsTyped DEF Slots
<1>5. /\ row \in [Slots -> StreamType] /\ next \in [Slots -> StreamType]
      /\ next[s] = str /\ \A r \in Slots : r # s => next[r] = row[r]
  BY DEF Turns, TaskInv, TaskType
<1>6. /\ o.up \/ files[t] = loopsDone[t]
      /\ o.loops = 0 => \A r \in 1 .. StreamsOf(o) : row[r] # Gone
      /\ o.loops # 0 => loopsDone[t] = before + Cardinality(LoopsOf(o, row))
  BY <1>1, <1>2 DEF Fulfilled
<1>7. before \in Nat
  BY <1>1, <1>3
<1>8. o.up \/ files'[t] = loopsDone'[t]
  BY <1>1, <1>6
<1>9. o.loops = 0 => \A r \in 1 .. StreamsOf(o) : next[r] # Gone
  BY <1>4, <1>5, <1>6
<1>10. o.loops # 0 => loopsDone'[t] = before + Cardinality(LoopsOf(o, next))
  <2> SUFFICES ASSUME o.loops # 0
               PROVE  loopsDone'[t] = before + Cardinality(LoopsOf(o, next))
    OBVIOUS
  <2>1. Cardinality(LoopsOf(o, row)) \in Nat
    BY <1>2, LoopsCounted
  <2>2. \/ /\ next[s] # Gone /\ next[s].loop = row[s].loop /\ loopsDone'[t] = loopsDone[t]
        \/ /\ next[s] = Gone /\ row[s].loop = o.loops /\ loopsDone'[t] = loopsDone[t]
        \/ /\ next[s] # Gone /\ loopsDone'[t] = loopsDone[t] + 1
           /\ row[s].loop < o.loops /\ next[s].loop = row[s].loop + 1
    BY <1>1, <1>3, <1>5
  <2>3. /\ next[s] # Gone /\ next[s].loop = row[s].loop =>
             Cardinality(LoopsOf(o, next)) = Cardinality(LoopsOf(o, row))
        /\ next[s] = Gone /\ row[s].loop = o.loops =>
             Cardinality(LoopsOf(o, next)) = Cardinality(LoopsOf(o, row))
        /\ next[s] # Gone /\ row[s].loop < o.loops /\ next[s].loop = row[s].loop + 1 =>
             Cardinality(LoopsOf(o, next)) = Cardinality(LoopsOf(o, row)) + 1
    BY <1>2, <1>4, <1>5, LoopsTurned
  <2>4. loopsDone[t] = before + Cardinality(LoopsOf(o, row))
    BY <1>6
  <2> HIDE DEF o, row, next, before
  <2> QED
    BY <1>1, <1>7, <2>1, <2>2, <2>3, <2>4
<1> HIDE DEF before
<1> QED
  BY <1>1, <1>2, <1>8, <1>9, <1>10 DEF Fulfilled, before

(* and a file that was found is in the channel, fetched, or under way. *)
LEMMA TurnFiles ==
  ASSUME TaskInv, NEW t \in Tasks, NEW s \in Slots, NEW str,
         Stays, Counted(t), Turns(t, s, str), opts[t].crawl,
         Clean(t)' =>
           /\ Clean(t)
           /\ \/ /\ stream[t][s].at \in {"ask", "wait"} <=> str.at \in {"ask", "wait"}
                 /\ files'[t] = files[t] /\ queue'[t] = queue[t]
              \/ /\ stream[t][s].at \notin {"ask", "wait"} /\ str.at \in {"ask", "wait"}
                 /\ files'[t] = files[t] /\ queue'[t] = queue[t] - 1
              \/ /\ stream[t][s].at \in {"ask", "wait"} /\ str.at \notin {"ask", "wait"}
                 /\ files'[t] = files[t] + 1 /\ queue'[t] = queue[t]
  PROVE  Fulfilled(t)'
<1> DEFINE row == stream[t]
           next == stream'[t]
           walked == IF walk[t] = "send" THEN 1 ELSE 0
<1> SUFFICES ASSUME Clean(t)', opts[t] # NoJob PROVE Fulfilled(t)'
  BY DEF Fulfilled, Stays
<1>1. /\ Fulfilled(t) /\ Clean(t)
      /\ opts'[t] = opts[t] /\ walk'[t] = walk[t] /\ found'[t] = found[t]
      /\ files[t] \in Nat /\ queue[t] \in 0 .. QueueCap /\ QueueCap \in Nat
      /\ files'[t] \in Nat /\ queue'[t] \in 0 .. QueueCap /\ found[t] \in Nat
  BY CrawlAssumption DEF TaskInv, TaskGood, Stays, TaskType, CrawlTypeOK, Counted
<1>2. found[t] = files[t] + queue[t] + Cardinality(Busy(row)) + walked
  BY <1>1 DEF Fulfilled
<1>3. next[s] = str /\ \A r \in Slots : r # s => next[r] = row[r]
  BY DEF Turns
<1>4. walked \in Nat
  OBVIOUS
<1>5. /\ Cardinality(Busy(row)) \in Nat /\ Cardinality(Busy(next)) \in Nat
      /\ (row[s].at \in {"ask", "wait"} <=> next[s].at \in {"ask", "wait"}) =>
           Cardinality(Busy(next)) = Cardinality(Busy(row))
      /\ row[s].at \notin {"ask", "wait"} /\ next[s].at \in {"ask", "wait"} =>
           Cardinality(Busy(next)) = Cardinality(Busy(row)) + 1
      /\ row[s].at \in {"ask", "wait"} /\ next[s].at \notin {"ask", "wait"} =>
           Cardinality(Busy(row)) = Cardinality(Busy(next)) + 1
  BY <1>3, BusyCounted
<1>6. \/ /\ row[s].at \in {"ask", "wait"} <=> next[s].at \in {"ask", "wait"}
         /\ files'[t] = files[t] /\ queue'[t] = queue[t]
      \/ /\ row[s].at \notin {"ask", "wait"} /\ next[s].at \in {"ask", "wait"}
         /\ files'[t] = files[t] /\ queue'[t] = queue[t] - 1
      \/ /\ row[s].at \in {"ask", "wait"} /\ next[s].at \notin {"ask", "wait"}
         /\ files'[t] = files[t] + 1 /\ queue'[t] = queue[t]
  BY <1>3
<1> HIDE DEF row, next, walked
<1>7. found[t] = files'[t] + queue'[t] + Cardinality(Busy(next)) + walked
  BY <1>1, <1>2, <1>4, <1>5, <1>6
<1> QED
  BY <1>1, <1>7 DEF Fulfilled, next, walked


LEMMA TurnGood ==
  ASSUME TaskInv, NEW t \in Tasks, NEW s \in Slots, NEW str,
         Stays, Counted(t), Turns(t, s, str), stream[t][s] # Gone,
         str # Gone => Fits(opts[t], str),
         str = Gone /\ opts[t].crawl => walk[t] = "gone" /\ queue'[t] = 0,
         queue'[t] <= queue[t], Limited(t)', Fulfilled(t)'
  PROVE  StepGood(t)
<1>1. TaskType' /\ \A u \in Tasks : u # t => Same(u)
  BY StreamFrame DEF Turns, TaskInv
<1>2. Placed(t)' /\ Slotted(t)' /\ Drained(t)' /\ Honest(t)'
  BY TurnFits
<1> QED
  BY <1>1, <1>2 DEF StepGood, TaskGood

LEMMA QueueTyped ==
  ASSUME TaskType, NEW t \in Tasks
  PROVE  queue[t] \in 0 .. QueueCap /\ queue[t] \in Nat /\ QueueCap \in Nat
<1>1. QueueCap \in Nat
  BY CrawlAssumption, Zenon
<1> QED
  BY <1>1 DEF TaskType, CrawlTypeOK

(* Where a stream that moves is. *)
LEMMA StreamPlaced ==
  ASSUME TaskInv, NEW t \in Tasks, NEW s \in Slots, stream[t][s].at # "gone"
  PROVE  /\ stream[t][s] \in StreamType /\ stream[t][s] # Gone
         /\ pc[t] = "work" /\ opts[t] \in JobsOf[t] /\ opts[t] \in Jobs
         /\ Fits(opts[t], stream[t][s])
         /\ opts[t].retries \in Nat /\ opts[t].loops \in Nat /\ opts[t].up \in BOOLEAN
         /\ opts[t].up => ~opts[t].crawl
         /\ stream[t][s].loop \in Nat /\ stream[t][s].tries \in Nat
<1>1. stream[t][s] \in StreamType /\ stream[t][s] # Gone /\ Slotted(t) /\ Placed(t)
  BY GoneTyped DEF TaskInv, TaskType, TaskGood
<1>2. pc[t] = "work" /\ opts[t] \in JobsOf[t] /\ Fits(opts[t], stream[t][s])
  BY <1>1 DEF Slotted, Placed
<1>3. opts[t] \in Jobs /\ (opts[t].up => ~opts[t].crawl)
  BY <1>2, StreamsTyped
<1>4. stream[t][s].loop \in Nat /\ stream[t][s].tries \in Nat
  BY <1>1 DEF StreamType
<1> QED
  BY <1>1, <1>2, <1>3, <1>4, PerStreamTyped

LEMMA PassGood ==
  ASSUME TaskInv, NEW t \in Tasks, NEW s \in Slots, Pass(t, s),
         UNCHANGED crawlVars, UNCHANGED managerVars
  PROVE  StepGood(t)
<1> DEFINE old == stream[t][s]
           more == opts[t].loops = 0 \/ old.loop < opts[t].loops
<1>1. old.at = "top" /\ TaskType
  BY DEF Pass, TaskInv
<1>2. /\ old \in StreamType /\ old # Gone /\ Fits(opts[t], old)
      /\ opts[t].retries \in Nat /\ opts[t].loops \in Nat /\ old.loop \in Nat
  BY <1>1, StreamPlaced
<1>3. Stays /\ files' = files /\ loopsDone' = loopsDone /\ error' = error /\ queue' = queue
  BY DEF Pass, Stays, countVars, crawlVars, walkVars, managerVars, runVars
<1>4. /\ reason' \in [Tasks -> Reasons]
      /\ \A u \in Tasks : u # t \/ reason[t] # "" => reason'[u] = reason[u]
      /\ more /\ Halts(t) => stopped[t] \/ reason'[t] # ""
  BY <1>1, Polled DEF Pass, TaskType
<1>5. Counted(t) /\ queue'[t] <= queue[t]
  <2>1. Counted(t)
    BY <1>1, <1>3, <1>4 DEF Counted, TaskType, CrawlTypeOK
  <2>2. queue'[t] = queue[t] /\ queue[t] \in Nat
    BY <1>1, <1>3, QueueTyped
  <2> QED
    BY <2>1, <2>2
<1>6. Clean(t)' => Clean(t)
  BY <1>3, <1>4 DEF Clean, Stays
<1>7. ~opts[t].crawl
  BY <1>1, <1>2 DEF Fits
<1>8. CASE more /\ ~Halts(t)
  <2> DEFINE str == [old EXCEPT !.at = "ask", !.tries = 1]
  <2>1. /\ str \in StreamType /\ str.at = "ask" /\ str.tries = 1 /\ str.loop = old.loop
    BY <1>2 DEF StreamType
  <2>2. stream' = [stream EXCEPT ![t][s] = str]
    BY <1>8 DEF Pass
  <2> HIDE DEF str
  <2>3. Turns(t, s, str)
    BY <1>1, <2>1, <2>2, OneTurns
  <2>4. Fits(opts[t], str) /\ str # Gone
    BY <1>2, <1>7, <1>8, <2>1, GoneTyped DEF Fits
  <2>5. Limited(t)'
    BY <1>2, <1>3, <1>5, <1>8, <2>3, AskLimited DEF Halts, Reached
  <2>6. Fulfilled(t)'
    BY <1>2, <1>3, <1>5, <1>6, <1>7, <2>1, <2>3, <2>4, TurnLoops
  <2> QED
    BY <1>2, <1>3, <1>5, <2>3, <2>4, <2>5, <2>6, TurnGood
<1>9. CASE ~(more /\ ~Halts(t))
  <2>1. stream' = [stream EXCEPT ![t][s] = Gone]
    BY <1>9 DEF Pass
  <2>2. Turns(t, s, Gone)
    BY <1>1, <2>1, OneTurns, GoneTyped
  <2>3. Limited(t)'
    BY <1>1, <1>2, <1>3, <1>5, <2>2, GoneTyped, TurnLimited
  <2>4. Clean(t)' => opts[t].loops > 0 /\ old.loop = opts[t].loops
    <3>1. ~more => opts[t].loops > 0 /\ old.loop = opts[t].loops
      BY <1>2 DEF Fits
    <3> HIDE DEF more
    <3>2. Clean(t)' => ~more
      BY <1>3, <1>4, <1>9 DEF Clean, Stays
    <3> QED
      BY <3>1, <3>2
  <2>5. Fulfilled(t)'
    BY <1>2, <1>3, <1>5, <1>6, <1>7, <2>2, <2>4, TurnLoops
  <2> QED
    BY <1>2, <1>3, <1>5, <1>7, <2>2, <2>3, <2>5, TurnGood
<1> QED
  BY <1>8, <1>9


(* A step that leaves all counts and the channel alone. *)
LEMMA Uncounted ==
  ASSUME TaskInv, NEW t \in Tasks, Stays,
         files' = files, loopsDone' = loopsDone, error' = error, queue' = queue, reason' = reason
  PROVE  /\ Counted(t) /\ queue'[t] <= queue[t] /\ queue'[t] = queue[t]
         /\ files'[t] <= files[t] + 1 /\ files'[t] <= files[t] + 2
         /\ Clean(t)' => Clean(t) /\ ~stopped[t]
<1>1. Counted(t)
  BY DEF Counted, TaskInv, TaskType, CrawlTypeOK
<1>2. queue'[t] = queue[t] /\ queue[t] \in Nat
  BY QueueTyped DEF TaskInv
<1>3. files'[t] = files[t] /\ files[t] \in Nat
  BY DEF TaskInv, TaskType
<1>4. Clean(t)' => Clean(t) /\ ~stopped[t]
  BY DEF Clean, Stays
<1> QED
  BY <1>1, <1>2, <1>3, <1>4

LEMMA WaitOverGood ==
  ASSUME TaskInv, NEW t \in Tasks, NEW s \in Slots, WaitOver(t, s),
         UNCHANGED crawlVars, UNCHANGED managerVars
  PROVE  StepGood(t)
<1> DEFINE old == stream[t][s]
<1>1. old.at = "wait" /\ ~opts[t].crawl /\ TaskType
  BY DEF WaitOver, TaskInv
<1>2. /\ old \in StreamType /\ old # Gone /\ Fits(opts[t], old) /\ opts[t].up \in BOOLEAN
  BY <1>1, StreamPlaced
<1>3. /\ Stays /\ files' = files /\ loopsDone' = loopsDone /\ error' = error
      /\ queue' = queue /\ reason' = reason
  BY DEF WaitOver, Stays, countVars, crawlVars, walkVars, managerVars, runVars
<1>4. /\ Counted(t) /\ queue'[t] <= queue[t]
      /\ files'[t] <= files[t] + 1 /\ files'[t] <= files[t] + 2
      /\ Clean(t)' => Clean(t) /\ ~stopped[t]
  BY <1>3, Uncounted
<1>5. CASE stopped[t]
  <2>1. stream' = [stream EXCEPT ![t][s] = Gone]
    BY <1>5 DEF WaitOver
  <2>2. Turns(t, s, Gone)
    BY <1>1, <2>1, OneTurns, GoneTyped
  <2>3. Limited(t)'
    BY <1>1, <1>2, <1>3, <1>4, <2>2, GoneTyped, TurnLimited
  <2>4. Fulfilled(t)'
    BY <1>4, <1>5 DEF Fulfilled
  <2> QED
    BY <1>1, <1>2, <1>3, <1>4, <2>2, <2>3, <2>4, TurnGood
<1>6. CASE ~stopped[t]
  <2> DEFINE str == [old EXCEPT !.at = "ask"]
  <2>1. str \in StreamType /\ str.at = "ask" /\ str.tries = old.tries /\ str.loop = old.loop
    BY <1>2 DEF StreamType
  <2>2. stream' = [stream EXCEPT ![t][s] = str]
    BY <1>6 DEF WaitOver
  <2> HIDE DEF str
  <2>3. Turns(t, s, str)
    BY <1>1, <2>1, <2>2, OneTurns
  <2>4. Fits(opts[t], str) /\ str # Gone
    BY <1>1, <1>2, <2>1, GoneTyped DEF Fits
  <2>5. Limited(t)'
    BY <1>1, <1>2, <1>3, <1>4, <2>1, <2>3, TurnLimited
  <2>6. Fulfilled(t)'
    BY <1>1, <1>2, <1>3, <1>4, <2>1, <2>3, <2>4, TurnLoops
  <2> QED
    BY <1>2, <1>3, <1>4, <2>3, <2>4, <2>5, <2>6, TurnGood
<1> QED
  BY <1>5, <1>6

LEMMA IdleTyped ==
  /\ Idle \in StreamType /\ Idle # Gone /\ Idle.at = "idle"
  /\ \A o \in Jobs : o.crawl => Fits(o, Idle)
BY GoneTyped, PerStreamTyped DEF Idle, Fits

LEMMA FetchAgainGood ==
  ASSUME TaskInv, NEW t \in Tasks, NEW s \in Slots, FetchAgain(t, s), UNCHANGED managerVars
  PROVE  StepGood(t)
<1> DEFINE old == stream[t][s]
<1>1. old.at = "wait" /\ opts[t].crawl /\ TaskType
  BY DEF FetchAgain, TaskInv
<1>2. /\ old \in StreamType /\ old # Gone /\ Fits(opts[t], old) /\ opts[t].up \in BOOLEAN
      /\ opts[t] \in Jobs
  BY <1>1, StreamPlaced
<1>3. /\ Stays /\ files' = files /\ loopsDone' = loopsDone /\ error' = error
      /\ queue' = queue /\ reason' = reason
  BY DEF FetchAgain, Stays, countVars, crawlVars, walkVars, managerVars, runVars
<1>4. /\ Counted(t) /\ queue'[t] <= queue[t] /\ queue'[t] = queue[t]
      /\ files'[t] <= files[t] + 1 /\ files'[t] <= files[t] + 2
      /\ Clean(t)' => Clean(t) /\ ~stopped[t]
  BY <1>3, Uncounted
<1>5. CASE stopped[t]
  <2>1. stream' = [stream EXCEPT ![t][s] = Idle]
    BY <1>5 DEF FetchAgain
  <2>2. Turns(t, s, Idle)
    BY <1>1, <2>1, OneTurns, IdleTyped
  <2>3. Limited(t)'
    BY <1>1, <1>2, <1>3, <1>4, <2>2, IdleTyped, TurnLimited
  <2>4. Fulfilled(t)'
    BY <1>4, <1>5 DEF Fulfilled
  <2> QED
    BY <1>1, <1>2, <1>3, <1>4, <2>2, <2>3, <2>4, IdleTyped, TurnGood
<1>6. CASE ~stopped[t]
  <2> DEFINE str == [old EXCEPT !.at = "ask"]
  <2>1. str \in StreamType /\ str.at = "ask" /\ str.tries = old.tries /\ str.loop = old.loop
    BY <1>2 DEF StreamType
  <2>2. stream' = [stream EXCEPT ![t][s] = str]
    BY <1>6 DEF FetchAgain
  <2> HIDE DEF str
  <2>3. Turns(t, s, str)
    BY <1>1, <2>1, <2>2, OneTurns
  <2>4. Fits(opts[t], str) /\ str # Gone
    BY <1>1, <1>2, <2>1, GoneTyped DEF Fits
  <2>5. Limited(t)'
    BY <1>1, <1>2, <1>3, <1>4, <2>1, <2>3, TurnLimited
  <2>6. Fulfilled(t)'
    BY <1>1, <1>3, <1>4, <2>1, <2>3, TurnFiles
  <2> QED
    BY <1>2, <1>3, <1>4, <2>3, <2>4, <2>5, <2>6, TurnGood
<1> QED
  BY <1>5, <1>6

LEMMA LeaveGood ==
  ASSUME TaskInv, NEW t \in Tasks, NEW s \in Slots, Leave(t, s), UNCHANGED managerVars
  PROVE  StepGood(t)
<1> DEFINE old == stream[t][s]
<1>1. old.at = "idle" /\ queue[t] = 0 /\ walk[t] = "gone" /\ TaskType
  BY DEF Leave, TaskInv
<1>2. old \in StreamType /\ old # Gone /\ Fits(opts[t], old)
  BY <1>1, StreamPlaced
<1>3. /\ Stays /\ files' = files /\ loopsDone' = loopsDone /\ error' = error
      /\ queue' = queue /\ reason' = reason
  BY DEF Leave, Stays, countVars, crawlVars, walkVars, managerVars, runVars
<1>4. /\ Counted(t) /\ queue'[t] <= queue[t] /\ queue'[t] = queue[t]
      /\ Clean(t)' => Clean(t)
  BY <1>3, Uncounted
<1>5. Turns(t, s, Gone)
  <2>1. stream' = [stream EXCEPT ![t][s] = Gone]
    BY DEF Leave
  <2> QED
    BY <1>1, <2>1, OneTurns, GoneTyped
<1>6. Limited(t)'
  BY <1>1, <1>2, <1>3, <1>4, <1>5, GoneTyped, TurnLimited
<1>7. opts[t].crawl
  BY <1>1, <1>2 DEF Fits
<1>8. Fulfilled(t)'
  BY <1>1, <1>3, <1>4, <1>5, <1>7, GoneTyped, TurnFiles
<1> QED
  BY <1>1, <1>2, <1>3, <1>4, <1>5, <1>6, <1>8, TurnGood

LEMMA TakeGood ==
  ASSUME TaskInv, NEW t \in Tasks, NEW s \in Slots, Take(t, s), UNCHANGED managerVars
  PROVE  StepGood(t)
<1> DEFINE old == stream[t][s]
<1>1. old.at = "idle" /\ queue[t] > 0 /\ TaskType
  BY DEF Take, TaskInv
<1>2. /\ old \in StreamType /\ old # Gone /\ Fits(opts[t], old) /\ opts[t].retries \in Nat
  BY <1>1, StreamPlaced
<1>3. /\ Stays /\ files' = files /\ loopsDone' = loopsDone /\ error' = error
      /\ queue' = [queue EXCEPT ![t] = @ - 1]
  BY DEF Take, Stays, countVars, walkVars, managerVars, runVars
<1>4. /\ reason' \in [Tasks -> Reasons]
      /\ \A u \in Tasks : u # t \/ reason[t] # "" => reason'[u] = reason[u]
      /\ Halts(t) => stopped[t] \/ reason'[t] # ""
  BY <1>1, Polled DEF Take
<1>5. /\ queue'[t] = queue[t] - 1 /\ queue'[t] <= queue[t]
      /\ queue' \in [Tasks -> 0 .. QueueCap]
      /\ \A u \in Tasks : u # t => queue'[u] = queue[u]
  <2>1. queue \in [Tasks -> 0 .. QueueCap]
    BY <1>1 DEF TaskType, CrawlTypeOK
  <2>2. queue[t] - 1 \in 0 .. QueueCap /\ queue[t] - 1 <= queue[t]
    BY <1>1, QueueTyped
  <2> QED
    BY <1>3, <2>1, <2>2
<1>6. Counted(t)
  BY <1>1, <1>3, <1>4, <1>5 DEF Counted, TaskType
<1>7. Clean(t)' => Clean(t)
  BY <1>3, <1>4 DEF Clean, Stays
<1>8. opts[t].crawl
  BY <1>1, <1>2 DEF Fits
<1>9. CASE Halts(t)
  <2>1. stream' = stream
    BY <1>9 DEF Take
  <2>2. Turns(t, s, old)
    BY <1>1, <1>2, <2>1 DEF Turns, TaskType
  <2>3. Limited(t)'
    BY <1>1, <1>2, <1>3, <1>6, <2>2, TurnLimited
  <2>4. Fulfilled(t)'
    BY <1>3, <1>4, <1>9 DEF Fulfilled, Clean, Stays
  <2> QED
    BY <1>2, <1>3, <1>5, <1>6, <2>2, <2>3, <2>4, TurnGood
<1>10. CASE ~Halts(t)
  <2> DEFINE str == [old EXCEPT !.at = "ask", !.tries = 1]
  <2>1. /\ str \in StreamType /\ str.at = "ask" /\ str.tries = 1 /\ str.loop = old.loop
    BY <1>2 DEF StreamType
  <2>2. stream' = [stream EXCEPT ![t][s] = str]
    BY <1>1, <1>10 DEF Take, TaskType
  <2> HIDE DEF str
  <2>3. Turns(t, s, str)
    BY <1>1, <2>1, <2>2, OneTurns
  <2>4. Fits(opts[t], str) /\ str # Gone
    BY <1>2, <1>8, <2>1, GoneTyped DEF Fits
  <2>5. Limited(t)'
    BY <1>2, <1>3, <1>6, <1>10, <2>3, AskLimited DEF Halts, Reached
  <2>6. Fulfilled(t)'
    BY <1>1, <1>3, <1>5, <1>6, <1>7, <1>8, <2>1, <2>3, TurnFiles
  <2> QED
    BY <1>2, <1>3, <1>5, <1>6, <2>3, <2>4, <2>5, <2>6, TurnGood
<1> QED
  BY <1>9, <1>10


LEMMA SucceedsGood ==
  ASSUME TaskInv, NEW t \in Tasks, NEW s \in Slots, Succeeds(t, s),
         UNCHANGED crawlVars, UNCHANGED managerVars
  PROVE  StepGood(t)
<1> DEFINE old == stream[t][s]
           after == IF opts[t].loops = 0 THEN 0 ELSE old.loop + 1
           str == [at |-> "top", loop |-> after, tries |-> 0]
           n == Counts(opts[t])
<1>1. old.at = "ask" /\ ~opts[t].crawl /\ TaskType
  BY DEF Succeeds, InRequest, TaskInv
<1>2. /\ old \in StreamType /\ old # Gone /\ Fits(opts[t], old) /\ opts[t].up \in BOOLEAN
      /\ opts[t].retries \in Nat /\ opts[t].loops \in Nat /\ old.loop \in Nat
  BY <1>1, StreamPlaced
<1>3. /\ Stays /\ error' = error /\ queue' = queue /\ reason' = reason
      /\ files' = [files EXCEPT ![t] = @ + n] /\ loopsDone' = [loopsDone EXCEPT ![t] = @ + 1]
      /\ stream' = [stream EXCEPT ![t][s] = str]
  BY <1>1 DEF Succeeds, Stays, crawlVars, walkVars, managerVars, runVars, TaskType
<1>4. n \in Nat /\ n = IF opts[t].up THEN 2 ELSE 1
  BY <1>2 DEF Counts
<1>5. /\ after \in Nat /\ after <= opts[t].loops
      /\ opts[t].loops > 0 => old.loop < opts[t].loops /\ after = old.loop + 1
  BY <1>1, <1>2 DEF Fits
<1> HIDE DEF after, n
<1>6. str \in StreamType /\ str.at = "top" /\ str.loop = after /\ str.tries = 0
  BY <1>5 DEF StreamType
<1> HIDE DEF str
<1>7. Turns(t, s, str)
  BY <1>1, <1>3, <1>6, OneTurns
<1>8. str # Gone /\ Fits(opts[t], str)
  BY <1>1, <1>2, <1>5, <1>6, GoneTyped DEF Fits
<1>9. /\ files' \in [Tasks -> Nat] /\ loopsDone' \in [Tasks -> Nat]
      /\ files'[t] = files[t] + n /\ loopsDone'[t] = loopsDone[t] + 1
      /\ files[t] \in Nat /\ files'[t] <= files[t] + IF opts[t].up THEN 2 ELSE 1
      /\ \A u \in Tasks : u # t => files'[u] = files[u] /\ loopsDone'[u] = loopsDone[u]
  BY <1>1, <1>3, <1>4 DEF TaskType
<1>10. Counted(t)
  BY <1>1, <1>3, <1>9 DEF Counted, TaskType, CrawlTypeOK
<1>11. queue'[t] <= queue[t]
  BY <1>1, <1>3, QueueTyped
<1>12. Limited(t)'
  BY <1>1, <1>2, <1>3, <1>6, <1>7, <1>9, <1>10, TurnLimited
<1>13. Clean(t)' => Clean(t)
  BY <1>3 DEF Clean, Stays
<1>14. Fulfilled(t)'
  BY <1>1, <1>2, <1>3, <1>4, <1>5, <1>6, <1>7, <1>8, <1>9, <1>10, <1>13, TurnLoops
<1> QED
  BY <1>1, <1>2, <1>3, <1>7, <1>8, <1>10, <1>11, <1>12, <1>14, TurnGood

LEMMA FetchedGood ==
  ASSUME TaskInv, NEW t \in Tasks, NEW s \in Slots, Fetched(t, s), UNCHANGED managerVars
  PROVE  StepGood(t)
<1> DEFINE old == stream[t][s]
<1>1. old.at = "ask" /\ opts[t].crawl /\ TaskType
  BY DEF Fetched, InRequest, TaskInv
<1>2. /\ old \in StreamType /\ old # Gone /\ opts[t] \in Jobs /\ opts[t].up \in BOOLEAN
  BY <1>1, StreamPlaced
<1>3. /\ Stays /\ loopsDone' = loopsDone /\ error' = error /\ queue' = queue
      /\ reason' = reason
      /\ files' = [files EXCEPT ![t] = @ + 1] /\ stream' = [stream EXCEPT ![t][s] = Idle]
  BY DEF Fetched, Stays, crawlVars, walkVars, managerVars, runVars
<1>4. Turns(t, s, Idle)
  BY <1>1, <1>3, OneTurns, IdleTyped
<1>5. /\ files' \in [Tasks -> Nat] /\ files'[t] = files[t] + 1 /\ files[t] \in Nat
      /\ files'[t] <= files[t] + IF opts[t].up THEN 2 ELSE 1
      /\ \A u \in Tasks : u # t => files'[u] = files[u]
  BY <1>1, <1>2, <1>3 DEF TaskType
<1>6. Counted(t)
  BY <1>1, <1>3, <1>5 DEF Counted, TaskType, CrawlTypeOK
<1>7. queue'[t] <= queue[t] /\ queue'[t] = queue[t]
  BY <1>1, <1>3, QueueTyped
<1>8. Limited(t)'
  BY <1>1, <1>2, <1>3, <1>4, <1>5, <1>6, IdleTyped, TurnLimited
<1>9. Clean(t)' => Clean(t)
  BY <1>3 DEF Clean, Stays
<1>10. Fulfilled(t)'
  BY <1>1, <1>3, <1>4, <1>5, <1>6, <1>7, <1>9, IdleTyped, TurnFiles
<1> QED
  BY <1>1, <1>2, <1>3, <1>4, <1>6, <1>7, <1>8, <1>10, IdleTyped, TurnGood

LEMMA NotFetchedGood ==
  ASSUME TaskInv, NEW t \in Tasks, NEW s \in Slots, NEW halted \in BOOLEAN,
         NotFetched(t, s, halted), UNCHANGED managerVars
  PROVE  StepGood(t)
<1> DEFINE old == stream[t][s]
           last == old.tries = opts[t].retries + 1
<1>1. old.at = "ask" /\ opts[t].crawl /\ TaskType
  BY DEF NotFetched, InRequest, TaskInv
<1>2. /\ old \in StreamType /\ old # Gone /\ Fits(opts[t], old) /\ opts[t].up \in BOOLEAN
      /\ opts[t] \in Jobs /\ opts[t].retries \in Nat /\ old.tries \in Nat
      /\ ~opts[t].up
  BY <1>1, StreamPlaced
<1>3. /\ Stays /\ files' = files /\ loopsDone' = loopsDone /\ queue' = queue
      /\ error' = [error EXCEPT ![t] = error[t] \/ (last /\ ~stopped[t])]
  BY <1>1 DEF NotFetched, Stays, crawlVars, walkVars, managerVars, runVars, TaskType
<1>4. /\ reason' \in [Tasks -> Reasons]
      /\ \A u \in Tasks : u # t \/ reason[t] # "" => reason'[u] = reason[u]
  <2>1. CASE halted
    BY <1>1, <2>1, Polled DEF NotFetched
  <2>2. CASE ~halted
    BY <1>1, <2>2 DEF NotFetched, TaskType
  <2> QED
    BY <2>1, <2>2
<1>5. /\ error' \in [Tasks -> BOOLEAN] /\ \A u \in Tasks : u # t => error'[u] = error[u]
      /\ ~error'[t] => ~error[t] /\ ~(last /\ ~stopped[t])
  <2> DEFINE now == error[t] \/ (last /\ ~stopped[t])
  <2>1. now \in BOOLEAN /\ error' = [error EXCEPT ![t] = now]
    BY <1>3
  <2>2. ~now => ~error[t] /\ ~(last /\ ~stopped[t])
    OBVIOUS
  <2>3. error \in [Tasks -> BOOLEAN]
    BY <1>1 DEF TaskType
  <2> HIDE DEF now
  <2>4. error'[t] = now
    BY <2>1, <2>3
  <2> QED
    BY <2>1, <2>2, <2>3, <2>4
<1>6. Counted(t)
  BY <1>1, <1>3, <1>4, <1>5 DEF Counted, TaskType, CrawlTypeOK
<1>7. /\ queue'[t] <= queue[t] /\ queue'[t] = queue[t]
      /\ files'[t] = files[t] /\ files[t] \in Nat
      /\ files'[t] <= files[t] + 1 /\ files'[t] <= files[t] + 0
  <2>1. files[t] \in Nat /\ files'[t] = files[t]
    BY <1>1, <1>3 DEF TaskType
  <2> QED
    BY <1>1, <1>3, <2>1, QueueTyped
<1>8. Clean(t)' => Clean(t) /\ ~stopped[t] /\ ~last
  BY <1>3, <1>4, <1>5 DEF Clean, Stays
<1>9. CASE stopped[t] \/ last
  <2>1. stream' = [stream EXCEPT ![t][s] = Idle]
    BY <1>9 DEF NotFetched
  <2>2. Turns(t, s, Idle)
    BY <1>1, <2>1, OneTurns, IdleTyped
  <2>3. Limited(t)'
    BY <1>1, <1>2, <1>3, <1>6, <1>7, <2>2, IdleTyped, TurnLimited
  <2>4. Fulfilled(t)'
    BY <1>8, <1>9 DEF Fulfilled
  <2> QED
    BY <1>1, <1>2, <1>3, <1>6, <1>7, <2>2, <2>3, <2>4, IdleTyped, TurnGood
<1>10. CASE ~(stopped[t] \/ last)
  <2>1. Retry(t, s)
    BY <1>10 DEF NotFetched
  <2>2. PICK str \in StreamType :
          /\ Turns(t, s, str) /\ str.at \in {"ask", "wait"}
          /\ str.loop = old.loop /\ str.tries = old.tries + 1
    BY <1>1, <2>1, RetryTurns
  <2>3. str # Gone /\ Fits(opts[t], str)
    BY <1>1, <1>2, <1>10, <2>2, GoneTyped DEF Fits
  <2>4. Limited(t)'
    BY <1>1, <1>2, <1>3, <1>6, <1>7, <2>2, TurnLimited
  <2>5. Fulfilled(t)'
    BY <1>1, <1>3, <1>6, <1>7, <1>8, <2>2, TurnFiles
  <2> QED
    BY <1>2, <1>3, <1>6, <1>7, <2>2, <2>3, <2>4, <2>5, TurnGood
<1> QED
  BY <1>9, <1>10

LEMMA FailsGood ==
  ASSUME TaskInv, NEW t \in Tasks, NEW s \in Slots, NEW halted \in BOOLEAN,
         NEW counted \in 0 .. 1, Fails(t, s, halted, counted),
         UNCHANGED crawlVars, UNCHANGED managerVars
  PROVE  StepGood(t)
<1> DEFINE old == stream[t][s]
<1>1. /\ old.at = "ask" /\ ~opts[t].crawl /\ TaskType
      /\ counted = 1 => opts[t].up
  BY DEF Fails, InRequest, TaskInv
<1>2. /\ old \in StreamType /\ old # Gone /\ Fits(opts[t], old) /\ opts[t].up \in BOOLEAN
      /\ opts[t].retries \in Nat /\ old.tries \in Nat
  BY <1>1, StreamPlaced
<1>3. /\ Stays /\ queue' = queue /\ files' = [files EXCEPT ![t] = @ + counted]
  BY DEF Fails, Stays, crawlVars, walkVars, managerVars, runVars
<1>4. /\ reason' \in [Tasks -> Reasons]
      /\ \A u \in Tasks : u # t \/ reason[t] # "" => reason'[u] = reason[u]
  <2>1. CASE halted
    BY <1>1, <2>1, Polled DEF Fails
  <2>2. CASE ~halted
    BY <1>1, <2>2 DEF Fails, TaskType
  <2> QED
    BY <2>1, <2>2
<1>5. /\ files' \in [Tasks -> Nat] /\ files'[t] = files[t] + counted
      /\ files[t] \in Nat /\ files'[t] <= files[t] + IF opts[t].up THEN 1 ELSE 0
      /\ files'[t] <= files[t] + IF opts[t].up THEN 2 ELSE 1
      /\ opts[t].up \/ files'[t] = files[t]
      /\ \A u \in Tasks : u # t => files'[u] = files[u]
  BY <1>1, <1>2, <1>3 DEF TaskType
<1>6. queue'[t] <= queue[t]
  BY <1>1, <1>3, QueueTyped
<1>7. CASE old.tries <= opts[t].retries
  <2>1. Retry(t, s) /\ error' = error /\ loopsDone' = loopsDone
    BY <1>7 DEF Fails
  <2>2. PICK str \in StreamType :
          /\ Turns(t, s, str) /\ str.at \in {"ask", "wait"}
          /\ str.loop = old.loop /\ str.tries = old.tries + 1
    BY <1>1, <2>1, RetryTurns
  <2>3. str # Gone /\ Fits(opts[t], str)
    BY <1>1, <1>2, <1>7, <2>2, GoneTyped DEF Fits
  <2>4. Counted(t)
    BY <1>1, <1>3, <1>4, <1>5, <2>1 DEF Counted, TaskType, CrawlTypeOK
  <2>5. Limited(t)'
    BY <1>1, <1>2, <1>3, <1>5, <2>2, <2>4, TurnLimited
  <2>6. Clean(t)' => Clean(t)
    BY <1>3, <1>4, <2>1 DEF Clean, Stays
  <2>7. Fulfilled(t)'
    BY <1>1, <1>2, <1>3, <1>5, <2>1, <2>2, <2>3, <2>4, <2>6, TurnLoops
  <2> QED
    BY <1>2, <1>3, <1>6, <2>2, <2>3, <2>4, <2>5, <2>7, TurnGood
<1>8. CASE ~(old.tries <= opts[t].retries)
  <2>1. /\ loopsDone' = [loopsDone EXCEPT ![t] = @ + 1] /\ error' = [error EXCEPT ![t] = TRUE]
        /\ stream' = [stream EXCEPT ![t][s] = Gone]
    BY <1>8 DEF Fails
  <2>2. Turns(t, s, Gone)
    BY <1>1, <2>1, OneTurns, GoneTyped
  <2>3. /\ loopsDone' \in [Tasks -> Nat] /\ error' \in [Tasks -> BOOLEAN] /\ error'[t]
        /\ \A u \in Tasks : u # t => loopsDone'[u] = loopsDone[u] /\ error'[u] = error[u]
    BY <1>1, <2>1 DEF TaskType
  <2>4. Counted(t)
    BY <1>1, <1>3, <1>4, <1>5, <2>3 DEF Counted, TaskType, CrawlTypeOK
  <2>5. Limited(t)'
    BY <1>1, <1>2, <1>3, <1>5, <2>2, <2>4, GoneTyped, TurnLimited
  <2>6. Fulfilled(t)'
    BY <2>3 DEF Fulfilled, Clean
  <2> QED
    BY <1>1, <1>2, <1>3, <1>6, <2>2, <2>4, <2>5, <2>6, TurnGood
<1> QED
  BY <1>7, <1>8


-----------------------------------------------------------------------------
(* The steps of a walk.                                                     *)
LEMMA WalkNextGood ==
  ASSUME TaskInv, NEW t \in Tasks, WalkNext(t), UNCHANGED managerVars
  PROVE  StepGood(t)
<1>1. /\ walk[t] = "next" /\ TaskType /\ TaskGood(t)
  BY DEF WalkNext, TaskInv
<1>2. /\ opts' = opts /\ stopped' = stopped /\ due' = due /\ error' = error /\ files' = files
      /\ loopsDone' = loopsDone /\ stream' = stream /\ toSend' = toSend /\ queue' = queue
      /\ found' = found /\ pc' = pc /\ state' = state /\ cycles' = cycles
  BY DEF WalkNext, countVars, managerVars, runVars
<1>3. /\ reason' \in [Tasks -> Reasons]
      /\ \A u \in Tasks : u # t \/ reason[t] # "" => reason'[u] = reason[u]
  <2>1. CASE dirs[t] = 0
    BY <1>1, <2>1 DEF WalkNext, TaskType
  <2>2. CASE dirs[t] # 0
    BY <1>1, <2>2, Polled DEF WalkNext
  <2> QED
    BY <2>1, <2>2
<1>4. /\ walk' \in [Tasks -> {"gone", "next", "read", "send"}]
      /\ walk'[t] \in {"gone", "read"} /\ \A u \in Tasks : u # t => walk'[u] = walk[u]
      /\ dirs' \in [Tasks -> Nat] /\ crawled' \in [Tasks -> Nat]
  <2>1. CASE dirs[t] = 0 \/ Halts(t)
    BY <1>1, <2>1 DEF WalkNext, TaskType, CrawlTypeOK
  <2>2. CASE ~(dirs[t] = 0 \/ Halts(t))
    <3>1. /\ walk' = [walk EXCEPT ![t] = "read"] /\ dirs' = [dirs EXCEPT ![t] = @ - 1]
          /\ crawled' = [crawled EXCEPT ![t] = @ + 1]
      BY <2>2 DEF WalkNext
    <3>2. dirs[t] - 1 \in Nat /\ crawled[t] + 1 \in Nat
      BY <1>1, <2>2 DEF TaskType, CrawlTypeOK
    <3> QED
      BY <1>1, <3>1, <3>2 DEF TaskType, CrawlTypeOK
  <2> QED
    BY <2>1, <2>2
<1>5. TaskType'
  BY <1>1, <1>2, <1>3, <1>4 DEF TaskType, CrawlTypeOK
<1>6. \A u \in Tasks : u # t => Same(u)
  BY <1>2, <1>3, <1>4 DEF Same
<1>7. Placed(t)' /\ Slotted(t)' /\ Limited(t)' /\ Honest(t)'
  <2>1. Placed(t)'
    BY <1>1, <1>2, <1>4 DEF TaskGood, Placed
  <2>2. Slotted(t)' /\ Limited(t)'
    BY <1>1, <1>2 DEF TaskGood, Slotted, Limited, Fits
  <2>3. Honest(t)'
    BY <1>1, <1>2 DEF TaskGood, Placed, Honest
  <2> QED
    BY <2>1, <2>2, <2>3
<1>8. Drained(t)'
  BY <1>1, <1>2, <1>4 DEF TaskGood, Drained
<1>9. Fulfilled(t)'
  <2>1. Clean(t)' => Clean(t)
    BY <1>2, <1>3 DEF Clean
  <2>2. walk[t] # "send" /\ walk'[t] # "send"
    BY <1>1, <1>4
  <2> QED
    BY <1>1, <1>2, <2>1, <2>2 DEF TaskGood, Fulfilled
<1> QED
  BY <1>5, <1>6, <1>7, <1>8, <1>9 DEF StepGood, TaskGood

LEMMA WalkReadGood ==
  ASSUME TaskInv, NEW t \in Tasks, NEW new \in 0 .. MaxDirs, NEW n \in 0 .. MaxFound,
         WalkRead(t, new, n), UNCHANGED managerVars
  PROVE  StepGood(t)
<1> DEFINE first == Min({n, 1})
           next == IF n = 0 THEN "next" ELSE "send"
<1>0. MaxDirs \in Nat /\ MaxFound \in Nat
  BY CrawlAssumption, Zenon
<1>1. walk[t] = "read" /\ TaskType /\ TaskGood(t)
  BY DEF WalkRead, TaskInv
<1>2. /\ opts' = opts /\ stopped' = stopped /\ due' = due /\ reason' = reason /\ error' = error
      /\ files' = files /\ loopsDone' = loopsDone /\ stream' = stream /\ crawled' = crawled
      /\ queue' = queue /\ pc' = pc /\ state' = state /\ cycles' = cycles
  BY DEF WalkRead, streamsVars, countVars, managerVars, runVars
<1>3. first = IF n = 0 THEN 0 ELSE 1
  <2>1. n \in Nat
    BY <1>0
  <2>2. \E x \in {n, 1} : \A y \in {n, 1} : x =< y
    BY <2>1, SMT
  <2>3. first \in {n, 1} /\ \A y \in {n, 1} : first =< y
    BY <2>2 DEF Min
  <2> HIDE DEF first
  <2> QED
    BY <2>1, <2>3
<1> HIDE DEF first
<1>4. /\ walk' = [walk EXCEPT ![t] = next] /\ dirs' = [dirs EXCEPT ![t] = @ + new]
      /\ toSend' = [toSend EXCEPT ![t] = n] /\ found' = [found EXCEPT ![t] = @ + first]
  BY DEF WalkRead, first
<1>5. next \in {"next", "send"} /\ (next = "send" <=> n # 0)
  OBVIOUS
<1> HIDE DEF next
<1>6. TaskType'
  BY <1>0, <1>1, <1>2, <1>3, <1>4, <1>5 DEF TaskType, CrawlTypeOK
<1>7. \A u \in Tasks : u # t => Same(u)
  BY <1>1, <1>2, <1>4 DEF Same, TaskType, CrawlTypeOK
<1>8. /\ walk'[t] = next /\ toSend'[t] = n /\ found'[t] = found[t] + first /\ found[t] \in Nat
  BY <1>1, <1>4 DEF TaskType, CrawlTypeOK
<1>9. opts[t] # NoJob /\ pc[t] = "work" /\ opts[t].crawl
  BY <1>1 DEF TaskGood, Placed
<1>10. Placed(t)'
  BY <1>0, <1>1, <1>2, <1>5, <1>8, <1>9 DEF TaskGood, Placed
<1>11. Slotted(t)' /\ Limited(t)'
  BY <1>1, <1>2 DEF TaskGood, Slotted, Limited, Fits
<1>12. Honest(t)'
  BY <1>2, <1>9 DEF Honest
<1>13. Drained(t)'
  BY <1>1, <1>2 DEF TaskGood, Drained
<1>14. Fulfilled(t)'
  <2>0. Clean(t)' => Clean(t)
    BY <1>2 DEF Clean
  <2> SUFFICES ASSUME Clean(t) PROVE Fulfilled(t)'
    BY <2>0 DEF Fulfilled
  <2> DEFINE busy == Cardinality(Busy(stream[t]))
  <2>1. busy \in Nat
    BY SlotsTyped, FS_Subset, FS_CardinalityType DEF Busy
  <2> HIDE DEF busy
  <2>2. found[t] = files[t] + queue[t] + busy + 0
    BY <1>1, <1>9 DEF TaskGood, Fulfilled, busy
  <2>3. files[t] \in Nat /\ queue[t] \in Nat
    BY <1>1, QueueTyped DEF TaskType
  <2>4. found'[t] = files[t] + queue[t] + busy + IF walk'[t] = "send" THEN 1 ELSE 0
    BY <1>3, <1>5, <1>8, <2>1, <2>2, <2>3
  <2> QED
    BY <1>2, <1>9, <2>4 DEF Fulfilled, busy
<1> QED
  BY <1>6, <1>7, <1>10, <1>11, <1>12, <1>13, <1>14 DEF StepGood, TaskGood

LEMMA WalkSendGood ==
  ASSUME TaskInv, NEW t \in Tasks, WalkSend(t), UNCHANGED managerVars
  PROVE  StepGood(t)
<1> DEFINE next == IF toSend[t] = 1 THEN "next" ELSE "send"
           more == IF toSend[t] = 1 THEN 0 ELSE 1
<1>1. walk[t] = "send" /\ queue[t] < QueueCap /\ TaskType /\ TaskGood(t)
  BY DEF WalkSend, TaskInv
<1>2. /\ opts' = opts /\ stopped' = stopped /\ due' = due /\ reason' = reason /\ error' = error
      /\ files' = files /\ loopsDone' = loopsDone /\ stream' = stream /\ crawled' = crawled
      /\ dirs' = dirs /\ pc' = pc /\ state' = state /\ cycles' = cycles
  BY DEF WalkSend, streamsVars, countVars, managerVars, runVars
<1>3. /\ walk' = [walk EXCEPT ![t] = next] /\ queue' = [queue EXCEPT ![t] = @ + 1]
      /\ toSend' = [toSend EXCEPT ![t] = @ - 1] /\ found' = [found EXCEPT ![t] = @ + more]
  BY DEF WalkSend
<1>4. toSend[t] > 0 /\ toSend[t] \in Nat
  BY <1>1 DEF TaskGood, Placed, TaskType, CrawlTypeOK
<1>5. /\ next \in {"next", "send"} /\ more \in {0, 1}
      /\ next = "send" <=> toSend[t] > 1
      /\ more = 1 <=> toSend[t] > 1
  BY <1>4
<1> HIDE DEF next, more
<1>6. queue[t] + 1 \in 0 .. QueueCap /\ queue[t] \in Nat
  BY <1>1, QueueTyped
<1>7. TaskType'
  <2>1. /\ queue' \in [Tasks -> 0 .. QueueCap] /\ found' \in [Tasks -> Nat]
        /\ toSend' \in [Tasks -> Nat]
    BY <1>1, <1>3, <1>4, <1>5, <1>6 DEF TaskType, CrawlTypeOK
  <2>2. walk' \in [Tasks -> {"gone", "next", "read", "send"}]
    BY <1>1, <1>3, <1>5 DEF TaskType, CrawlTypeOK
  <2> QED
    BY <1>1, <1>2, <2>1, <2>2 DEF TaskType, CrawlTypeOK
<1>8. \A u \in Tasks : u # t => Same(u)
  BY <1>1, <1>2, <1>3 DEF Same, TaskType, CrawlTypeOK
<1>9. /\ walk'[t] = next /\ toSend'[t] = toSend[t] - 1 /\ queue'[t] = queue[t] + 1
      /\ found'[t] = found[t] + more /\ found[t] \in Nat
  BY <1>1, <1>3 DEF TaskType, CrawlTypeOK
<1>10. opts[t] # NoJob /\ pc[t] = "work" /\ opts[t].crawl
  BY <1>1 DEF TaskGood, Placed
<1>11. Placed(t)'
  BY <1>1, <1>2, <1>4, <1>5, <1>9, <1>10 DEF TaskGood, Placed
<1>12. Slotted(t)' /\ Limited(t)'
  BY <1>1, <1>2 DEF TaskGood, Slotted, Limited, Fits
<1>13. Honest(t)'
  BY <1>2, <1>10 DEF Honest
<1>14. Drained(t)'
  BY <1>1, <1>2 DEF TaskGood, Drained
<1>15. Fulfilled(t)'
  <2>0. Clean(t)' => Clean(t)
    BY <1>2 DEF Clean
  <2> SUFFICES ASSUME Clean(t) PROVE Fulfilled(t)'
    BY <2>0 DEF Fulfilled
  <2> DEFINE busy == Cardinality(Busy(stream[t]))
  <2>1. busy \in Nat
    BY SlotsTyped, FS_Subset, FS_CardinalityType DEF Busy
  <2> HIDE DEF busy
  <2>2. found[t] = files[t] + queue[t] + busy + 1
    BY <1>1, <1>10 DEF TaskGood, Fulfilled, busy
  <2>3. files[t] \in Nat
    BY <1>1 DEF TaskType
  <2>4. found'[t] = files[t] + queue'[t] + busy + IF walk'[t] = "send" THEN 1 ELSE 0
    BY <1>4, <1>5, <1>6, <1>9, <2>1, <2>2, <2>3
  <2> QED
    BY <1>2, <1>10, <2>4 DEF Fulfilled, busy
<1> QED
  BY <1>7, <1>8, <1>11, <1>12, <1>13, <1>14, <1>15 DEF StepGood, TaskGood


-----------------------------------------------------------------------------
(* The user, the limits, and run.                                           *)
LEMMA StopGood ==
  ASSUME TaskInv, NEW t \in Tasks, ~Concluded(t), Stop(t), UNCHANGED crawlVars,
         UNCHANGED managerVars
  PROVE  StepGood(t)
<1>1. TaskType /\ TaskGood(t) /\ pc[t] \notin {"save", "over"}
  BY DEF TaskInv, Concluded
<1>2. /\ opts' = opts /\ stopped' = [stopped EXCEPT ![t] = TRUE] /\ due' = due
      /\ reason' = reason /\ error' = error /\ files' = files /\ loopsDone' = loopsDone
      /\ stream' = stream /\ walk' = walk /\ dirs' = dirs /\ crawled' = crawled
      /\ toSend' = toSend /\ queue' = queue /\ found' = found
      /\ pc' = pc /\ state' = state /\ cycles' = cycles
  BY DEF Stop, countVars, crawlVars, walkVars, managerVars, runVars
<1>3. TaskType' /\ stopped'[t] /\ \A u \in Tasks : u # t => Same(u)
  BY <1>1, <1>2 DEF TaskType, CrawlTypeOK, Same
<1>4. Placed(t)' /\ Slotted(t)' /\ Drained(t)' /\ Limited(t)'
  <2>1. Placed(t)'
    BY <1>1, <1>2 DEF TaskGood, Placed
  <2>2. Slotted(t)' /\ Drained(t)' /\ Limited(t)'
    BY <1>1, <1>2 DEF TaskGood, Slotted, Drained, Limited
  <2> QED
    BY <2>1, <2>2
<1>5. Fulfilled(t)' /\ Honest(t)'
  BY <1>1, <1>2, <1>3 DEF Fulfilled, Clean, Honest
<1> QED
  BY <1>3, <1>4, <1>5 DEF StepGood, TaskGood

LEMMA LimitGood ==
  ASSUME TaskInv, NEW t \in Tasks, NEW limit \in {"size", "time"}, LimitReached(t, limit),
         UNCHANGED crawlVars, UNCHANGED managerVars
  PROVE  TaskType' /\ \A u \in Tasks : Same(u)
<1>1. TaskType
  BY DEF TaskInv
<1>2. /\ opts' = opts /\ stopped' = stopped /\ due' = [due EXCEPT ![t] = @ \union {limit}]
      /\ reason' = reason /\ error' = error /\ files' = files /\ loopsDone' = loopsDone
      /\ stream' = stream /\ walk' = walk /\ dirs' = dirs /\ crawled' = crawled
      /\ toSend' = toSend /\ queue' = queue /\ found' = found
      /\ pc' = pc /\ state' = state /\ cycles' = cycles
  BY DEF LimitReached, countVars, crawlVars, walkVars, managerVars, runVars
<1> QED
  BY <1>1, <1>2 DEF TaskType, CrawlTypeOK, Same

(* A row without streams has nothing under way. *)
LEMMA RestingRow ==
  ASSUME NEW o, NEW row, \A s \in Slots : row[s].at \notin {"ask", "wait"}
  PROVE  Cardinality(Coming(o, row)) = 0 /\ Cardinality(Busy(row)) = 0
<1>1. Coming(o, row) = {} /\ Busy(row) = {}
  BY DEF Coming, Busy
<1> QED
  BY <1>1, FS_EmptySet

(* Outside a cycle a task has no stream, no walk and nothing in its channel. *)
LEMMA AtRest ==
  ASSUME TaskInv, NEW t \in Tasks, pc[t] # "work"
  PROVE  /\ \A s \in Slots : stream[t][s] = Gone
         /\ walk[t] = "gone" /\ queue[t] = 0
<1>1. Slotted(t) /\ Placed(t) /\ queue[t] \in Nat
  BY QueueTyped DEF TaskInv, TaskGood
<1> QED
  BY <1>1 DEF Slotted, Placed

(* Steps of run that only move it, between cycles. *)
LEMMA MovedGood ==
  ASSUME TaskInv, NEW t \in Tasks, NEW place,
         pc[t] \notin {"none", "work", "lost"},
         place \in {"cycle", "between", "end", "save", "over"}, GoTo(t, place),
         place = "cycle" => cycles[t] < MaxCycles,
         UNCHANGED <<opts, stopped, due, countVars, stream, crawlVars, cycles>>,
         reason' \in [Tasks -> Reasons],
         \A u \in Tasks : u # t \/ reason[t] # "" => reason'[u] = reason[u],
         state' \in [Tasks -> {"none", "running", "scheduled", "stopped", "error", "done"}],
         \A u \in Tasks : u # t => state'[u] = state[u],
         Honest(t)'
  PROVE  StepGood(t)
<1>1. /\ opts' = opts /\ stopped' = stopped /\ due' = due /\ error' = error /\ files' = files
      /\ loopsDone' = loopsDone /\ stream' = stream /\ walk' = walk /\ dirs' = dirs
      /\ crawled' = crawled /\ toSend' = toSend /\ queue' = queue /\ found' = found
      /\ cycles' = cycles /\ pc' = [pc EXCEPT ![t] = place]
  BY DEF countVars, crawlVars, walkVars, GoTo
<1>2. TaskType /\ TaskGood(t)
  BY DEF TaskInv
<1>3. pc'[t] = place /\ \A u \in Tasks : u # t => pc'[u] = pc[u]
  BY <1>1, <1>2 DEF TaskType
<1>4. TaskType' /\ \A u \in Tasks : u # t => Same(u)
  <2>1. pc' \in [Tasks -> {"none", "wait", "cycle", "work", "between", "end", "save",
                           "over", "lost"}]
    BY <1>1, <1>2 DEF TaskType
  <2>2. TaskType'
    BY <1>1, <1>2, <2>1 DEF TaskType, CrawlTypeOK
  <2>3. \A u \in Tasks : u # t => Same(u)
    BY <1>1, <1>3 DEF Same
  <2> QED
    BY <2>2, <2>3
<1>5. /\ \A s \in Slots : stream[t][s] = Gone
      /\ walk[t] = "gone" /\ queue[t] = 0
  BY AtRest
<1>6. Placed(t)'
  BY <1>1, <1>2, <1>3, <1>5 DEF TaskGood, Placed
<1>7. Slotted(t)' /\ Drained(t)' /\ Limited(t)'
  BY <1>1, <1>2, <1>5 DEF TaskGood, Slotted, Drained, Limited
<1>8. Fulfilled(t)'
  <2>1. Clean(t)' => Clean(t)
    BY <1>1 DEF Clean
  <2>2. pc[t] # "work" /\ pc'[t] # "work"
    BY <1>3
  <2> QED
    BY <1>1, <1>2, <2>1, <2>2 DEF TaskGood, Fulfilled
<1> QED
  BY <1>4, <1>6, <1>7, <1>8 DEF StepGood, TaskGood

LEMMA AddGood ==
  ASSUME TaskInv, NEW t \in Tasks, NEW o \in JobsOf[t], Add(t, o)
  PROVE  StepGood(t)
<1>1. TaskType /\ TaskGood(t) /\ pc[t] = "none"
  BY DEF TaskInv, Add
<1>2. /\ opts' = [opts EXCEPT ![t] = o] /\ pc' = [pc EXCEPT ![t] = "wait"]
      /\ state' = [state EXCEPT ![t] = IF o.startAt THEN "scheduled" ELSE "running"]
      /\ stopped' = stopped /\ due' = due /\ reason' = reason /\ error' = error
      /\ files' = files /\ loopsDone' = loopsDone /\ stream' = stream
      /\ walk' = walk /\ dirs' = dirs /\ crawled' = crawled
      /\ toSend' = toSend /\ queue' = queue /\ found' = found /\ cycles' = cycles
  BY DEF Add, GoTo, countVars, crawlVars, walkVars
<1>3. o \in Jobs /\ o # NoJob
  BY StreamsTyped
<1>4. TaskType'
  BY <1>1, <1>2, <1>3 DEF TaskType, CrawlTypeOK
<1>5. \A u \in Tasks : u # t => Same(u)
  BY <1>1, <1>2 DEF Same, TaskType
<1>6. /\ \A s \in Slots : stream[t][s] = Gone
      /\ walk[t] = "gone" /\ queue[t] = 0
  BY <1>1, AtRest
<1>7. /\ opts'[t] = o /\ pc'[t] = "wait"
      /\ opts[t] = NoJob /\ files[t] = 0 /\ loopsDone[t] = 0 /\ found[t] = 0 /\ cycles[t] = 0
  BY <1>1, <1>2 DEF TaskType, TaskGood, Placed
<1>8. Placed(t)'
  <2>1. MaxCycles \in Nat
    BY DownloadsAssumption, Zenon
  <2> QED
    BY <1>2, <1>3, <1>6, <1>7, <2>1 DEF Placed
<1>9. Slotted(t)' /\ Drained(t)' /\ Honest(t)'
  BY <1>2, <1>6, <1>7 DEF Slotted, Drained, Honest
<1>10. Cardinality(Coming(o, stream[t])) = 0 /\ Cardinality(Busy(stream[t])) = 0
  BY <1>6, GoneTyped, RestingRow
<1>11. /\ o.stopFiles \in Nat /\ StreamsOf(o) \in Nat /\ PerStream(o) \in Nat /\ o.loops \in Nat
       /\ StreamsOf(o) * PerStream(o) \in Nat
  BY <1>3, StreamsTyped, SlotsTyped, PerStreamTyped
<1>12. Limited(t)'
  BY <1>2, <1>7, <1>10, <1>11 DEF Limited
<1>13. Fulfilled(t)'
  <2>1. 0 * StreamsOf(o) * o.loops = 0
    BY <1>11
  <2>2. walk'[t] # "send" /\ pc'[t] # "work"
    BY <1>2, <1>6, <1>7
  <2> QED
    BY <1>2, <1>6, <1>7, <1>10, <2>1, <2>2 DEF Fulfilled
<1> QED
  BY <1>4, <1>5, <1>8, <1>9, <1>12, <1>13 DEF StepGood, TaskGood


LEMMA WaitingGood ==
  ASSUME TaskInv, NEW t \in Tasks, StopWaiting(t) \/ Begin(t)
  PROVE  StepGood(t)
<1>1. TaskType /\ TaskGood(t) /\ pc[t] = "wait"
  BY DEF TaskInv, StopWaiting, Begin
<1>2. CASE StopWaiting(t)
  <2>1. /\ GoTo(t, "over") /\ state' = [state EXCEPT ![t] = "stopped"] /\ reason' = reason
        /\ UNCHANGED <<opts, stopped, due, countVars, stream, crawlVars, cycles>>
    BY <1>2 DEF StopWaiting, streamsVars
  <2>2. /\ state' \in [Tasks -> {"none", "running", "scheduled", "stopped", "error", "done"}]
        /\ \A u \in Tasks : u # t => state'[u] = state[u]
        /\ state'[t] = "stopped"
    BY <1>1, <2>1 DEF TaskType
  <2>3. Honest(t)'
    BY <2>2 DEF Honest
  <2>4. reason' \in [Tasks -> Reasons]
    BY <1>1, <2>1 DEF TaskType
  <2> QED
    BY <1>1, <2>1, <2>2, <2>3, <2>4, MovedGood
<1>3. CASE Begin(t)
  <2>1. /\ GoTo(t, "cycle") /\ state' = state
        /\ UNCHANGED <<opts, stopped, due, countVars, stream, crawlVars, cycles>>
    BY <1>3 DEF Begin
  <2>2. /\ reason' \in [Tasks -> Reasons]
        /\ \A u \in Tasks : u # t \/ reason[t] # "" => reason'[u] = reason[u]
    BY <1>1, <1>3, Polled DEF Begin
  <2>3. state' \in [Tasks -> {"none", "running", "scheduled", "stopped", "error", "done"}]
    BY <1>1, <2>1 DEF TaskType
  <2>4. pc'[t] = "cycle"
    BY <1>1, <2>1 DEF GoTo, TaskType
  <2>5. Honest(t)'
    BY <2>4 DEF Honest
  <2>6. cycles[t] < MaxCycles
    <3>1. MaxCycles \in Nat \ {0}
      BY DownloadsAssumption, Zenon
    <3> QED
      BY <1>1, <3>1 DEF TaskGood, Placed
  <2> QED
    BY <1>1, <2>1, <2>2, <2>3, <2>5, <2>6, MovedGood
<1> QED
  BY <1>2, <1>3

(* A cycle starts its streams: none has done a loop or taken a file. *)
LEMMA LaunchGood ==
  ASSUME TaskInv, NEW t \in Tasks, pc[t] = "cycle", GoTo(t, "work"),
         NEW at \in {"top", "idle"}, Launch(t, at),
         at = "idle" <=> opts[t].crawl,
         \/ ~opts[t].crawl /\ UNCHANGED crawlVars
         \/ opts[t].crawl /\ StartWalk(t),
         UNCHANGED <<opts, stopped, due, reason, countVars, state, cycles>>
  PROVE  StepGood(t)
<1> DEFINE o == opts[t]
           new == [Gone EXCEPT !.at = at]
           next == stream'[t]
<1>1. TaskType /\ TaskGood(t)
  BY DEF TaskInv
<1>2. /\ opts' = opts /\ stopped' = stopped /\ due' = due /\ reason' = reason /\ error' = error
      /\ files' = files /\ loopsDone' = loopsDone /\ state' = state /\ cycles' = cycles
      /\ toSend' = toSend /\ queue' = queue /\ found' = found
      /\ pc' = [pc EXCEPT ![t] = "work"]
  BY DEF countVars, GoTo, crawlVars, walkVars, StartWalk
<1>3. /\ walk' \in [Tasks -> {"gone", "next", "read", "send"}]
      /\ walk'[t] \in {"gone", "next"} /\ (walk'[t] # "gone" => o.crawl)
      /\ \A u \in Tasks : u # t => walk'[u] = walk[u]
      /\ dirs' \in [Tasks -> Nat] /\ crawled' \in [Tasks -> Nat]
  <2>1. CASE ~o.crawl
    <3>1. walk' = walk /\ dirs' = dirs /\ crawled' = crawled
      BY <2>1 DEF crawlVars, walkVars
    <3>2. walk[t] = "gone"
      BY AtRest
    <3> QED
      BY <1>1, <3>1, <3>2 DEF TaskType, CrawlTypeOK
  <2>2. CASE o.crawl
    <3>1. /\ walk' = [walk EXCEPT ![t] = "next"] /\ dirs' = [dirs EXCEPT ![t] = 1]
          /\ crawled' = [crawled EXCEPT ![t] = 0]
      BY <2>2 DEF StartWalk
    <3>2. /\ walk \in [Tasks -> {"gone", "next", "read", "send"}]
          /\ dirs \in [Tasks -> Nat] /\ crawled \in [Tasks -> Nat]
      BY <1>1 DEF TaskType, CrawlTypeOK
    <3>3. walk' \in [Tasks -> {"gone", "next", "read", "send"}] /\ walk'[t] = "next"
      BY <3>1, <3>2
    <3> QED
      BY <2>2, <3>1, <3>2, <3>3
  <2> QED
    BY <2>1, <2>2
<1>4. /\ new \in StreamType /\ new.at = at /\ new.loop = 0 /\ new.tries = 0 /\ new # Gone
      /\ Gone \in StreamType
  BY GoneTyped
<1> HIDE DEF new
<1>5. stream' = [stream EXCEPT ![t] = [s \in Slots |-> IF s <= StreamsOf(o) THEN new ELSE Gone]]
  BY DEF Launch, new
<1>6. /\ stream' \in [Tasks -> [Slots -> StreamType]]
      /\ \A s \in Slots : next[s] = IF s <= StreamsOf(o) THEN new ELSE Gone
      /\ \A u \in Tasks : u # t => stream'[u] = stream[u]
  BY <1>1, <1>4, <1>5 DEF TaskType
<1>7. pc'[t] = "work" /\ (\A u \in Tasks : u # t => pc'[u] = pc[u])
  BY <1>1, <1>2 DEF TaskType
<1>8. TaskType'
  <2>1. pc' \in [Tasks -> {"none", "wait", "cycle", "work", "between", "end", "save",
                           "over", "lost"}]
    BY <1>1, <1>2 DEF TaskType
  <2> QED
    BY <1>1, <1>2, <1>3, <1>6, <2>1 DEF TaskType, CrawlTypeOK
<1>9. \A u \in Tasks : u # t => Same(u)
  BY <1>2, <1>3, <1>6, <1>7 DEF Same
<1>10. /\ o # NoJob /\ o \in JobsOf[t] /\ opts'[t] = o /\ walk[t] = "gone" /\ queue[t] = 0
       /\ cycles[t] < MaxCycles /\ cycles[t] \in Nat
       /\ \A s \in Slots : stream[t][s] = Gone
  BY <1>1, <1>2, AtRest DEF TaskGood, Placed, TaskType
<1>11. /\ o \in Jobs /\ o.loops \in Nat /\ o.retries \in Nat /\ StreamsOf(o) \in Nat
       /\ \A s \in 1 .. StreamsOf(o) : s \in Slots /\ s <= StreamsOf(o)
  BY <1>10, StreamsTyped, SlotsTyped, PerStreamTyped DEF Slots
<1>12. Placed(t)'
  BY <1>1, <1>2, <1>3, <1>7, <1>10 DEF TaskGood, Placed
<1>13. Slotted(t)'
  <2>1. Fits(o, new)
    BY <1>4, <1>11 DEF Fits
  <2> QED
    BY <1>2, <1>6, <1>7, <2>1 DEF Slotted, Fits
<1>14. Drained(t)' /\ Honest(t)'
  <2>1. \A s \in 1 .. StreamsOf(o) : next[s] # Gone
    BY <1>4, <1>6, <1>11
  <2> QED
    BY <1>2, <1>7, <2>1 DEF Drained, Honest
<1>15. /\ \A s \in Slots : stream[t][s].at \notin {"ask", "wait"}
       /\ \A s \in Slots : next[s].at \notin {"ask", "wait"}
  BY <1>4, <1>6, <1>10, GoneTyped
<1>16. /\ Cardinality(Coming(o, stream[t])) = 0 /\ Cardinality(Busy(stream[t])) = 0
       /\ Cardinality(Coming(o, next)) = 0 /\ Cardinality(Busy(next)) = 0
  BY <1>15, RestingRow
<1>17. Limited(t)'
  BY <1>1, <1>2, <1>16 DEF TaskGood, Limited
<1>18. Fulfilled(t)'
  <2>0. Clean(t)' => Clean(t)
    BY <1>2 DEF Clean
  <2> SUFFICES ASSUME Clean(t) PROVE Fulfilled(t)'
    BY <2>0 DEF Fulfilled
  <2>1. CASE o.crawl
    <3>1. found[t] = files[t] + queue[t] + 0 + 0
      BY <1>1, <1>10, <1>16, <2>1 DEF TaskGood, Fulfilled
    <3>2. walk'[t] # "send"
      BY <1>3
    <3> QED
      BY <1>2, <1>16, <2>1, <3>1, <3>2 DEF Fulfilled
  <2>2. CASE ~o.crawl
    <3> DEFINE before == cycles[t] * StreamsOf(o) * o.loops
    <3>1. (o.up \/ files[t] = loopsDone[t]) /\ loopsDone[t] = before /\ before \in Nat
      BY <1>1, <1>10, <1>11, <2>2 DEF TaskGood, Fulfilled
    <3> HIDE DEF before
    <3>2. \A s \in 1 .. StreamsOf(o) : next[s] # Gone /\ next[s].loop = 0
      BY <1>4, <1>6, <1>11
    <3>3. Cardinality(LoopsOf(o, next)) = 0
      BY <1>10, <3>2, LoopsCounted
    <3>4. loopsDone[t] = before + Cardinality(LoopsOf(o, next))
      BY <3>1, <3>3
    <3> QED
      BY <1>2, <1>7, <2>2, <3>1, <3>2, <3>4 DEF Fulfilled, before
  <2> QED
    BY <2>1, <2>2
<1> QED
  BY <1>8, <1>9, <1>12, <1>13, <1>14, <1>17, <1>18 DEF StepGood, TaskGood

LEMMA CycleGood ==
  ASSUME TaskInv, NEW t \in Tasks, Cycle(t)
  PROVE  StepGood(t)
<1>1. TaskType /\ TaskGood(t) /\ pc[t] = "cycle"
  BY DEF TaskInv, Cycle
<1>2. UNCHANGED <<opts, stopped, due, reason, countVars, state, cycles>>
  BY DEF Cycle
<1>3. CASE stopped[t]
  <2>1. GoTo(t, "end") /\ UNCHANGED <<stream, crawlVars>>
    BY <1>3 DEF Cycle
  <2>2. /\ reason' \in [Tasks -> Reasons] /\ reason' = reason /\ state' = state
        /\ state' \in [Tasks -> {"none", "running", "scheduled", "stopped", "error", "done"}]
        /\ pc'[t] = "end"
    BY <1>1, <1>2, <2>1 DEF TaskType, GoTo
  <2>3. Honest(t)'
    BY <2>2 DEF Honest
  <2> QED
    BY <1>1, <1>2, <2>1, <2>2, <2>3, MovedGood
<1>4. CASE ~stopped[t] /\ opts[t].crawl
  <2>1. GoTo(t, "work") /\ Launch(t, "idle") /\ StartWalk(t)
    BY <1>4 DEF Cycle
  <2> QED
    BY <1>1, <1>2, <1>4, <2>1, LaunchGood
<1>5. CASE ~stopped[t] /\ ~opts[t].crawl
  <2>1. GoTo(t, "work") /\ Launch(t, "top") /\ UNCHANGED crawlVars
    BY <1>5 DEF Cycle
  <2> QED
    BY <1>1, <1>2, <1>5, <2>1, LaunchGood
<1> QED
  BY <1>3, <1>4, <1>5


(* A cycle is over when its streams are gone: every loop is done. *)
LEMMA EndCycleGood ==
  ASSUME TaskInv, NEW t \in Tasks, EndCycle(t)
  PROVE  StepGood(t)
<1> DEFINE o == opts[t]
           place == IF o.repeat /\ ~Halts(t) THEN "between" ELSE "end"
<1>1. /\ TaskType /\ TaskGood(t) /\ pc[t] = "work" /\ walk[t] = "gone"
      /\ \A s \in Slots : stream[t][s] = Gone
  BY DEF TaskInv, EndCycle
<1>2. /\ opts' = opts /\ stopped' = stopped /\ due' = due /\ error' = error /\ files' = files
      /\ loopsDone' = loopsDone /\ stream' = stream /\ walk' = walk /\ dirs' = dirs
      /\ crawled' = crawled /\ toSend' = toSend /\ queue' = queue /\ found' = found
      /\ state' = state /\ cycles' = [cycles EXCEPT ![t] = @ + 1]
      /\ pc' = [pc EXCEPT ![t] = place]
  BY DEF EndCycle, CycleOver, countVars, crawlVars, walkVars, GoTo
<1>3. place \in {"between", "end"}
  OBVIOUS
<1> HIDE DEF place
<1>4. /\ reason' \in [Tasks -> Reasons]
      /\ \A u \in Tasks : u # t \/ reason[t] # "" => reason'[u] = reason[u]
  <2>1. CASE Poll(t)
    BY <1>1, <2>1, Polled
  <2>2. CASE reason' = reason
    BY <1>1, <2>2 DEF TaskType
  <2> QED
    BY <2>1, <2>2 DEF EndCycle, CycleOver
<1>5. /\ pc'[t] = place /\ cycles'[t] = cycles[t] + 1 /\ cycles[t] \in Nat
      /\ \A u \in Tasks : u # t => pc'[u] = pc[u] /\ cycles'[u] = cycles[u]
  BY <1>1, <1>2 DEF TaskType
<1>6. TaskType'
  <2>1. pc' \in [Tasks -> {"none", "wait", "cycle", "work", "between", "end", "save",
                           "over", "lost"}]
    BY <1>1, <1>2, <1>3 DEF TaskType
  <2>2. cycles' \in [Tasks -> Nat]
    BY <1>1, <1>2 DEF TaskType
  <2> QED
    BY <1>1, <1>2, <1>4, <2>1, <2>2 DEF TaskType, CrawlTypeOK
<1>7. \A u \in Tasks : u # t => Same(u)
  BY <1>2, <1>4, <1>5 DEF Same
<1>8. /\ o # NoJob /\ o \in JobsOf[t] /\ o \in Jobs /\ o.loops \in Nat /\ StreamsOf(o) \in Nat
      /\ 1 \in 1 .. StreamsOf(o) /\ 1 \in Slots
  <2>1. o # NoJob /\ o \in JobsOf[t]
    BY <1>1 DEF TaskGood, Placed
  <2> QED
    BY <2>1, StreamsTyped, SlotsTyped, PerStreamTyped DEF Slots
<1>9. queue[t] = 0
  BY <1>1, <1>8 DEF TaskGood, Drained
<1>10. MaxCycles \in Nat
  BY DownloadsAssumption, Zenon
<1>11. Placed(t)'
  BY <1>1, <1>2, <1>3, <1>5, <1>8, <1>9, <1>10 DEF TaskGood, Placed
<1>12. Slotted(t)' /\ Drained(t)' /\ Limited(t)' /\ Honest(t)'
  <2>1. Slotted(t)' /\ Drained(t)'
    BY <1>1, <1>2, <1>9 DEF Slotted, Drained
  <2>2. Limited(t)'
    BY <1>1, <1>2 DEF TaskGood, Limited
  <2>3. Honest(t)'
    BY <1>3, <1>5 DEF Honest
  <2> QED
    BY <2>1, <2>2, <2>3
<1>13. Fulfilled(t)'
  <2>0. Clean(t)' => Clean(t)
    BY <1>2, <1>4 DEF Clean
  <2> SUFFICES ASSUME Clean(t) PROVE Fulfilled(t)'
    BY <2>0 DEF Fulfilled
  <2>1. CASE o.crawl
    BY <1>1, <1>2, <2>1 DEF TaskGood, Fulfilled, Clean
  <2>2. CASE ~o.crawl
    <3> DEFINE before == cycles[t] * StreamsOf(o) * o.loops
    <3>1. /\ o.up \/ files[t] = loopsDone[t]
          /\ o.loops = 0 => \A s \in 1 .. StreamsOf(o) : stream[t][s] # Gone
          /\ o.loops # 0 => loopsDone[t] = before + Cardinality(LoopsOf(o, stream[t]))
      BY <1>1, <1>8, <2>2 DEF TaskGood, Fulfilled
    <3>2. o.loops # 0
      BY <1>1, <1>8, <3>1
    <3>3. Cardinality(LoopsOf(o, stream[t])) = StreamsOf(o) * o.loops
      BY <1>1, <1>8, LoopsCounted
    <3>4. (cycles[t] + 1) * StreamsOf(o) * o.loops = before + StreamsOf(o) * o.loops
      <4>1. \A a, b, c \in Nat : (a + 1) * b * c = a * b * c + b * c
        BY SMT
      <4> QED
        BY <1>5, <1>8, <4>1
    <3>5. loopsDone[t] = (cycles[t] + 1) * StreamsOf(o) * o.loops
      BY <3>1, <3>2, <3>3, <3>4
    <3>6. loopsDone'[t] = cycles'[t] * StreamsOf(opts'[t]) * opts'[t].loops
      BY <1>2, <1>5, <3>5
    <3>7. pc'[t] # "work"
      BY <1>3, <1>5
    <3> QED
      BY <1>2, <2>2, <3>1, <3>6, <3>7 DEF Fulfilled
  <2> QED
    BY <2>1, <2>2
<1> QED
  BY <1>6, <1>7, <1>11, <1>12, <1>13 DEF StepGood, TaskGood

LEMMA NextCycleGood ==
  ASSUME TaskInv, NEW t \in Tasks, NextCycle(t)
  PROVE  StepGood(t)
<1> DEFINE place == IF stopped[t] THEN "end" ELSE "cycle"
<1>1. /\ TaskType /\ pc[t] = "between" /\ place \in {"cycle", "end"}
      /\ place = "cycle" => cycles[t] < MaxCycles
  BY DEF TaskInv, NextCycle
<1>2. /\ GoTo(t, place) /\ reason' = reason /\ state' = state
      /\ UNCHANGED <<opts, stopped, due, countVars, stream, crawlVars, cycles>>
  BY DEF NextCycle, streamsVars
<1> HIDE DEF place
<1>3. /\ reason' \in [Tasks -> Reasons]
      /\ state' \in [Tasks -> {"none", "running", "scheduled", "stopped", "error", "done"}]
      /\ pc'[t] = place
  BY <1>1, <1>2 DEF TaskType, GoTo
<1>4. Honest(t)'
  BY <1>1, <1>3 DEF Honest
<1> QED
  BY <1>1, <1>2, <1>3, <1>4, MovedGood

(* The state that is chosen says done, for no reason, only of a clean task. *)
LEMMA ConcludeGood ==
  ASSUME TaskInv, NEW t \in Tasks, Conclude(t)
  PROVE  StepGood(t)
<1>1. TaskType /\ pc[t] = "end"
  BY DEF TaskInv, Conclude
<1>2. /\ GoTo(t, "save") /\ state' = [state EXCEPT ![t] = FinalState(t)]
      /\ stopped' = stopped /\ reason' = reason /\ error' = error
      /\ UNCHANGED <<opts, stopped, due, countVars, stream, crawlVars, cycles>>
  BY DEF Conclude, streamsVars, countVars
<1>3. /\ FinalState(t) \in {"stopped", "done", "error"}
      /\ FinalState(t) = "done" /\ reason[t] = "" => Clean(t)
  BY DEF FinalState, Clean
<1>4. /\ state' \in [Tasks -> {"none", "running", "scheduled", "stopped", "error", "done"}]
      /\ state'[t] = FinalState(t) /\ \A u \in Tasks : u # t => state'[u] = state[u]
      /\ reason' \in [Tasks -> Reasons]
  BY <1>1, <1>2, <1>3 DEF TaskType
<1>5. Honest(t)'
  BY <1>2, <1>3, <1>4 DEF Honest, Clean
<1> QED
  BY <1>1, <1>2, <1>4, <1>5, MovedGood

LEMMA SaveEndGood ==
  ASSUME TaskInv, NEW t \in Tasks, pc[t] = "save", SaveEnd(t)
  PROVE  StepGood(t)
<1>1. TaskType /\ TaskGood(t)
  BY DEF TaskInv
<1>2. /\ GoTo(t, "over") /\ state' = state
      /\ stopped' = stopped /\ reason' = reason /\ error' = error
      /\ UNCHANGED <<opts, stopped, due, countVars, stream, crawlVars, cycles>>
  BY DEF SaveEnd, streamsVars, countVars
<1>3. /\ state' \in [Tasks -> {"none", "running", "scheduled", "stopped", "error", "done"}]
      /\ reason' \in [Tasks -> Reasons]
  BY <1>1, <1>2 DEF TaskType
<1>4. Honest(t)'
  BY <1>1, <1>2 DEF TaskGood, Honest, Clean
<1> QED
  BY <1>2, <1>3, <1>4, MovedGood


LEMMA RestartGood ==
  ASSUME TaskInv, Restart
  PROVE  TaskInv'
<1>1. TaskType /\ \A u \in Tasks : TaskGood(u)
  BY DEF TaskInv
<1>2. /\ pc' = [t \in Tasks |-> IF pc[t] \in {"none", "over"} THEN pc[t] ELSE "lost"]
      /\ opts' = Forget(opts, NoJob) /\ stopped' = Forget(stopped, FALSE)
      /\ due' = Forget(due, {}) /\ reason' = Forget(reason, "")
      /\ error' = Forget(error, FALSE) /\ files' = Forget(files, 0)
      /\ loopsDone' = Forget(loopsDone, 0)
      /\ stream' = Forget(stream, [s \in Slots |-> Gone])
      /\ walk' = Forget(walk, "gone") /\ dirs' = Forget(dirs, 0)
      /\ crawled' = Forget(crawled, 0) /\ toSend' = Forget(toSend, 0)
      /\ queue' = Forget(queue, 0) /\ found' = Forget(found, 0)
      /\ state' = Forget(state, "none") /\ cycles' = Forget(cycles, 0)
  BY DEF Restart
<1>3. TaskType'
  <2>1. /\ opts' \in [Tasks -> Jobs \union {NoJob}] /\ stopped' \in [Tasks -> BOOLEAN]
        /\ error' \in [Tasks -> BOOLEAN] /\ due' \in [Tasks -> SUBSET {"size", "time"}]
        /\ reason' \in [Tasks -> Reasons]
    BY <1>1, <1>2 DEF TaskType, Forget, Reasons
  <2>2. /\ files' \in [Tasks -> Nat] /\ loopsDone' \in [Tasks -> Nat]
        /\ cycles' \in [Tasks -> Nat] /\ dirs' \in [Tasks -> Nat]
        /\ crawled' \in [Tasks -> Nat] /\ toSend' \in [Tasks -> Nat]
        /\ found' \in [Tasks -> Nat]
    BY <1>1, <1>2 DEF TaskType, CrawlTypeOK, Forget
  <2>3. stream' \in [Tasks -> [Slots -> StreamType]]
    <3>1. [s \in Slots |-> Gone] \in [Slots -> StreamType]
      BY GoneTyped
    <3> QED
      BY <1>1, <1>2, <3>1 DEF TaskType, Forget
  <2>4. queue' \in [Tasks -> 0 .. QueueCap]
    <3>1. 0 \in 0 .. QueueCap
      BY CrawlAssumption
    <3> QED
      BY <1>1, <1>2, <3>1 DEF TaskType, CrawlTypeOK, Forget
  <2>5. /\ walk' \in [Tasks -> {"gone", "next", "read", "send"}]
        /\ pc' \in [Tasks -> {"none", "wait", "cycle", "work", "between", "end", "save",
                              "over", "lost"}]
        /\ state' \in [Tasks -> {"none", "running", "scheduled", "stopped", "error", "done"}]
    BY <1>1, <1>2 DEF TaskType, CrawlTypeOK, Forget
  <2> QED
    BY <2>1, <2>2, <2>3, <2>4, <2>5 DEF TaskType, CrawlTypeOK
<1>4. ASSUME NEW u \in Tasks, pc[u] = "over" PROVE TaskGood(u)'
  <2>1. Same(u)
    BY <1>2, <1>4 DEF Same, Forget
  <2> QED
    BY <1>1, <2>1, SameKeeps DEF TaskGood
<1>5. ASSUME NEW u \in Tasks, pc[u] # "over" PROVE TaskGood(u)'
  <2>1. /\ opts'[u] = NoJob /\ pc'[u] \in {"none", "lost"} /\ files'[u] = 0
        /\ loopsDone'[u] = 0 /\ found'[u] = 0 /\ walk'[u] = "gone" /\ queue'[u] = 0
        /\ cycles'[u] = 0 /\ \A s \in Slots : stream'[u][s] = Gone
    BY <1>2, <1>5 DEF Forget
  <2>2. MaxCycles \in Nat
    BY DownloadsAssumption, Zenon
  <2>3. Placed(u)'
    BY <2>1, <2>2 DEF Placed
  <2>4. Slotted(u)' /\ Drained(u)' /\ Limited(u)' /\ Fulfilled(u)' /\ Honest(u)'
    BY <2>1 DEF Slotted, Drained, Limited, Fulfilled, Honest
  <2> QED
    BY <2>3, <2>4 DEF TaskGood
<1> QED
  BY <1>3, <1>4, <1>5 DEF TaskInv

LEMMA TaskInit == Init => TaskInv
<1> SUFFICES ASSUME Init PROVE TaskInv
  OBVIOUS
<1>1. [s \in Slots |-> Gone] \in [Slots -> StreamType] /\ 0 \in 0 .. QueueCap
  BY GoneTyped, CrawlAssumption
<1>2. TaskType
  BY <1>1 DEF Init, StreamsInit, CrawlInit, TaskType, CrawlTypeOK, Reasons
<1>3. ASSUME NEW u \in Tasks PROVE TaskGood(u)
  <2>1. /\ opts[u] = NoJob /\ pc[u] = "none" /\ files[u] = 0
        /\ loopsDone[u] = 0 /\ found[u] = 0 /\ walk[u] = "gone" /\ queue[u] = 0
        /\ cycles[u] = 0 /\ \A s \in Slots : stream[u][s] = Gone
    BY DEF Init, StreamsInit, CrawlInit
  <2>2. MaxCycles \in Nat
    BY DownloadsAssumption, Zenon
  <2>3. Placed(u)
    BY <2>1, <2>2 DEF Placed
  <2>4. Slotted(u) /\ Drained(u) /\ Limited(u) /\ Fulfilled(u) /\ Honest(u)
    BY <2>1 DEF Slotted, Drained, Limited, Fulfilled, Honest
  <2> QED
    BY <2>3, <2>4 DEF TaskGood
<1> QED
  BY <1>2, <1>3 DEF TaskInv

LEMMA TaskStep ==
  ASSUME TaskInv, SaversEnd, [Next]_vars
  PROVE  TaskInv'
<1>1. ASSUME NEW t \in Tasks, StepGood(t) PROVE TaskInv'
  <2>1. \A u \in Tasks : u # t => TaskGood(u)'
    BY <1>1, SameKeeps DEF TaskInv, StepGood, TaskGood
  <2> QED
    BY <1>1, <2>1 DEF TaskInv, StepGood
<1>2. ASSUME TaskType', \A u \in Tasks : Same(u) PROVE TaskInv'
  BY <1>2, SameKeeps DEF TaskInv, TaskGood
<1>3. ASSUME NEW t \in Tasks, User(t) PROVE TaskInv'
  <2>1. ASSUME NEW o \in JobsOf[t], Add(t, o) PROVE StepGood(t)
    BY <2>1, AddGood
  <2>2. ASSUME ~Concluded(t), Stop(t), UNCHANGED <<crawlVars, managerVars>>
        PROVE  StepGood(t)
    BY <2>2, StopGood
  <2> QED
    BY <1>1, <1>3, <2>1, <2>2 DEF User
<1>4. ASSUME NEW t \in Tasks, Limit(t) PROVE TaskInv'
  BY <1>2, <1>4, LimitGood DEF Limit
<1>5. ASSUME UNCHANGED <<streamsVars, crawlVars, runVars>> PROVE TaskInv'
  <2>1. TaskType'
    BY <1>5 DEF TaskInv, TaskType, CrawlTypeOK, streamsVars, countVars, crawlVars, walkVars,
                runVars
  <2>2. \A u \in Tasks : Same(u)
    BY <1>5 DEF Same, streamsVars, countVars, crawlVars, walkVars, runVars
  <2> QED
    BY <1>2, <2>1, <2>2
<1>6. ASSUME NEW t \in Tasks, RunStep(t) PROVE TaskInv'
  <2>1. CASE StopWaiting(t) \/ Begin(t)
    BY <1>1, <2>1, WaitingGood
  <2>2. CASE Cycle(t) \/ EndCycle(t) \/ NextCycle(t) \/ Conclude(t)
    BY <1>1, <2>2, CycleGood, EndCycleGood, NextCycleGood, ConcludeGood
  <2>3. CASE SaveStep(t)
    BY <1>5, <2>3 DEF SaveStep
  <2>4. CASE SaveEnd(t)
    <3>1. pc[t] = "save"
      BY <2>4, DownloadsAssumption DEF SaversEnd, SaveEnd, RenameFile, Saving
    <3> QED
      BY <1>1, <2>4, <3>1, SaveEndGood
  <2> QED
    BY <1>6, <2>1, <2>2, <2>3, <2>4 DEF RunStep
<1>7. ASSUME NEW t \in Tasks, WalkStep(t) PROVE TaskInv'
  BY <1>1, <1>7, WalkNextGood, WalkSendGood DEF WalkStep
<1>8. ASSUME NEW t \in Tasks, Listed(t) PROVE TaskInv'
  BY <1>1, <1>8, WalkReadGood DEF Listed
<1>9. ASSUME NEW t \in Tasks, NEW s \in Slots, StreamStep(t, s) PROVE TaskInv'
  <2>1. UNCHANGED managerVars
    BY <1>9 DEF StreamStep
  <2>2. CASE Pass(t, s) /\ UNCHANGED crawlVars
    BY <1>1, <2>1, <2>2, PassGood
  <2>3. CASE WaitOver(t, s) /\ UNCHANGED crawlVars
    BY <1>1, <2>1, <2>3, WaitOverGood
  <2>4. CASE Take(t, s) \/ Leave(t, s) \/ FetchAgain(t, s)
    BY <1>1, <2>1, <2>4, TakeGood, LeaveGood, FetchAgainGood
  <2> QED
    BY <1>9, <2>2, <2>3, <2>4 DEF StreamStep
<1>10. ASSUME NEW t \in Tasks, NEW s \in Slots, Answered(t, s) PROVE TaskInv'
  <2>1. UNCHANGED managerVars
    BY <1>10 DEF Answered
  <2>2. CASE Succeeds(t, s) /\ UNCHANGED crawlVars
    BY <1>1, <2>1, <2>2, SucceedsGood
  <2>3. CASE Fetched(t, s)
    BY <1>1, <2>1, <2>3, FetchedGood
  <2>4. CASE \E halted \in BOOLEAN : NotFetched(t, s, halted)
    BY <1>1, <2>1, <2>4, NotFetchedGood
  <2>5. CASE \E halted \in BOOLEAN, counted \in 0 .. 1 :
               Fails(t, s, halted, counted) /\ UNCHANGED crawlVars
    BY <1>1, <2>1, <2>5, FailsGood
  <2> QED
    BY <1>10, <2>2, <2>3, <2>4, <2>5 DEF Answered
<1>11. CASE Clear \/ ClearEnd \/ UNCHANGED vars
  BY <1>5, <1>11 DEF Clear, ClearEnd, vars
<1>12. CASE Restart
  BY <1>12, RestartGood
<1> QED
  BY <1>3, <1>4, <1>6, <1>7, <1>8, <1>9, <1>10, <1>11, <1>12 DEF Next

-----------------------------------------------------------------------------
(* The history.  Lists of runs first.                                       *)

LEMMA AppendNew ==
  ASSUME NEW list \in RunLists, NEW t \in Tasks, t \notin Range(list)
  PROVE  /\ Append(list, t) \in RunLists
         /\ Range(Append(list, t)) = Range(list) \union {t}
<1> DEFINE more == Append(list, t)
<1>1. /\ list \in Seq(Tasks) /\ more \in Seq(Tasks) /\ Len(list) \in Nat
      /\ DOMAIN list = 1 .. Len(list) /\ DOMAIN more = 1 .. Len(list) + 1
      /\ more[Len(list) + 1] = t /\ \A i \in 1 .. Len(list) : more[i] = list[i]
  BY DEF RunLists
<1>2. IsInjective(more)
  <2> SUFFICES ASSUME NEW i \in 1 .. Len(list) + 1, NEW j \in 1 .. Len(list) + 1,
                      more[i] = more[j]
               PROVE  i = j
    BY <1>1 DEF IsInjective
  <2>1. CASE i \in 1 .. Len(list) /\ j \in 1 .. Len(list)
    BY <2>1, <1>1 DEF RunLists, IsInjective
  <2>2. CASE i = Len(list) + 1 /\ j \in 1 .. Len(list)
    BY <2>2, <1>1 DEF Range
  <2>3. CASE j = Len(list) + 1 /\ i \in 1 .. Len(list)
    BY <2>3, <1>1 DEF Range
  <2> QED BY <2>1, <2>2, <2>3, <1>1
<1>3. Range(more) = Range(list) \union {t}
  BY <1>1 DEF Range
<1> QED BY <1>1, <1>2, <1>3 DEF RunLists

LEMMA NoRuns == <<>> \in RunLists /\ Range(<<>>) = {}
BY DEF RunLists, IsInjective, Range

(* A list is not one of the marks of a file that holds none. *)
LEMMA Loaded ==
  /\ \A list \in RunLists : list \notin {NoFile, Empty, Broken} /\ Load(list) = list
  /\ \A file \in {NoFile, Empty, Broken} : Load(file) = <<>>
  /\ \A file : FileType(file) => Load(file) \in RunLists
<1>1. \A list \in RunLists : list \notin {NoFile, Empty, Broken}
  BY DownloadsAssumption DEF RunLists
<1> QED
  BY <1>1, NoRuns DEF Load, FileType

LEMMA Written ==
  /\ \A file, list : Over(file, list) \subseteq {list, Broken}
  /\ \A list : Over(Empty, list) = {list}
BY DEF Over

LEMMA HistoryInit == Init => HistoryInv
<1> SUFFICES ASSUME Init PROVE HistoryInv
  OBVIOUS
<1>0. MaxEvents \in Nat
  BY DownloadsAssumption, Zenon
<1>1. HistoryType
  <2>1. /\ snap = [c \in Callers |-> <<>>] /\ saveAt = [c \in Callers |-> "no"]
        /\ fd = [c \in Callers |-> "none"] /\ tmpFile = NoFile /\ recFile = NoFile
        /\ clearing = FALSE /\ events = 0 /\ runs = <<>> /\ overlapped = FALSE
        /\ solo = [c \in Callers |-> FALSE] /\ fate = [t \in Tasks |-> "none"]
    BY DEF Init
  <2>2. runs \in RunLists /\ snap \in [Callers -> RunLists] /\ events \in 0 .. MaxEvents
    BY <1>0, <2>1, NoRuns
  <2>3. FileType(tmpFile) /\ FileType(recFile)
    BY <2>1 DEF FileType
  <2>4. /\ saveAt \in [Callers -> {"no", "open", "write", "rename"}]
        /\ fd \in [Callers -> {"none", "tmp", "rec", "gone"}]
        /\ fate \in [Tasks -> {"none", "kept", "gone"}]
    BY <2>1
  <2>5. /\ clearing \in BOOLEAN /\ overlapped \in BOOLEAN
        /\ solo \in [Callers -> BOOLEAN]
    BY <2>1
  <2> QED
    BY <2>2, <2>3, <2>4, <2>5 DEF HistoryType
<1>2. Load(NoFile) = <<>>
  BY Loaded
<1>3. SaversEnd /\ SoloInv /\ MemoryInv
  BY DownloadsAssumption DEF Init, SaversEnd, Saving, SoloInv, MemoryInv
<1>4. ListInv /\ FileInv
  BY <1>2, NoRuns DEF Init, ListInv, FileInv
<1> QED
  BY <1>1, <1>3, <1>4 DEF HistoryInv

(* With the promises of tasks that are over, what the file keeps follows. *)
LEMMA HistoryKept ==
  ASSUME HistoryInv
  PROVE  HistorySurvives
<1> SUFFICES ASSUME ~overlapped, NEW t \in Tasks, fate[t] # "none"
             PROVE  t \in Range(Load(recFile)) <=> t \in Range(runs)
  BY DEF HistoryInv, MemoryInv, HistoryType, HistorySurvives
<1>1. ~Saving(t) /\ ~clearing
  BY DownloadsAssumption DEF HistoryInv, SaversEnd, ListInv, FileInv
<1> QED
  BY <1>1 DEF HistoryInv, FileInv

(* Steps of tasks that are not at their end. *)
LEMMA QuietHistory ==
  ASSUME HistoryInv, UNCHANGED <<historyVars, clearVars, promiseVars>>,
         \A u \in Tasks : /\ pc'[u] = "save" <=> pc[u] = "save"
                          /\ pc[u] \in {"over", "lost"} => pc'[u] = pc[u]
  PROVE  HistoryInv'
<1>1. /\ runs' = runs /\ snap' = snap /\ saveAt' = saveAt /\ fd' = fd /\ tmpFile' = tmpFile
      /\ recFile' = recFile /\ clearing' = clearing /\ events' = events
      /\ solo' = solo /\ overlapped' = overlapped /\ fate' = fate
  BY DEF historyVars, clearVars, promiseVars, saveVars, fileVars
<1>2. HistoryType'
  BY <1>1 DEF HistoryInv, HistoryType, FileType
<1>3. SaversEnd'
  BY <1>1 DEF HistoryInv, SaversEnd, Saving
<1>4. Ended \subseteq Ended'
  BY DEF Ended
<1>5. ListInv'
  BY <1>1, <1>4 DEF HistoryInv, ListInv
<1>6. MemoryInv' /\ SoloInv' /\ FileInv'
  BY <1>1 DEF HistoryInv, MemoryInv, SoloInv, FileInv, Saving
<1> QED
  BY <1>2, <1>3, <1>5, <1>6 DEF HistoryInv

(* One task moves on, and neither starts nor ends a save. *)
LEMMA MovesOn ==
  ASSUME TaskInv, HistoryInv, NEW t \in Tasks,
         UNCHANGED <<historyVars, clearVars, promiseVars>>,
         NEW place, pc' = [pc EXCEPT ![t] = place], place # "save",
         pc[t] \notin {"save", "over", "lost"}
  PROVE  HistoryInv'
<1>1. \A u \in Tasks : pc'[u] = IF u = t THEN place ELSE pc[u]
  BY DEF TaskInv, TaskType
<1> QED
  BY <1>1, QuietHistory


(* The end of a task: its run is new to every list.  The save is alone if no *)
(* other save, and no removal, is under way.                                *)
LEMMA ConcludeHistory ==
  ASSUME TaskInv, HistoryInv, NEW t \in Tasks, Conclude(t)
  PROVE  HistoryInv'
<1> DEFINE more == Append(runs, t)
           others == clearing \/ \E d \in Callers \ {t} : Saving(d)
<1>1. /\ pc[t] = "end" /\ pc' = [pc EXCEPT ![t] = "save"] /\ runs' = more
      /\ snap' = [snap EXCEPT ![t] = runs'] /\ saveAt' = [saveAt EXCEPT ![t] = "open"]
      /\ fd' = fd /\ tmpFile' = tmpFile /\ recFile' = recFile
      /\ clearing' = clearing /\ events' = events /\ fate' = fate
      /\ solo' = [d \in Callers |-> d = t /\ ~others] /\ overlapped' = (overlapped \/ others)
  BY DEF Conclude, GoTo, BeginSave, fileVars, clearVars, Meet
<1>2. /\ t \in Callers /\ Tasks \subseteq Callers /\ t # Clearer
      /\ HistoryType /\ t \notin Range(runs)
      /\ \A u \in Tasks : pc'[u] = IF u = t THEN "save" ELSE pc[u]
  BY <1>1, DownloadsAssumption DEF HistoryInv, ListInv, Ended, TaskInv, TaskType
<1>3. more \in RunLists /\ Range(more) = Range(runs) \union {t}
  BY <1>2, AppendNew DEF HistoryType
<1> HIDE DEF more
<1>4. HistoryType'
  BY <1>1, <1>2, <1>3 DEF HistoryType, FileType
<1>5. \A c \in Callers : Saving(c)' <=> Saving(c) \/ c = t
  BY <1>1, <1>2 DEF HistoryType, Saving
<1>6. SaversEnd'
  BY <1>2, <1>5 DEF HistoryInv, SaversEnd
<1>7. ListInv'
  <2>1. Ended \subseteq Ended' /\ t \in Ended'
    BY <1>1, <1>2 DEF Ended
  <2>2. \A c \in Callers : snap'[c] = IF c = t THEN more ELSE snap[c]
    BY <1>1, <1>2 DEF HistoryType
  <2>3. \A u \in Tasks : fate'[u] # "none" => pc'[u] \in {"over", "lost"}
    BY <1>1, <1>2 DEF HistoryInv, ListInv
  <2> QED
    BY <1>1, <1>3, <2>1, <2>2, <2>3 DEF HistoryInv, ListInv
<1>8. MemoryInv'
  BY <1>1, <1>3 DEF HistoryInv, MemoryInv, ListInv
<1>9. SoloInv'
  BY <1>1, <1>2, <1>5 DEF SoloInv, HistoryType
<1>10. FileInv'
  <2> SUFFICES ASSUME ~overlapped'
               PROVE  /\ ~clearing
                      /\ \A u \in Tasks : ~Saving(u)' =>
                           (u \in Range(Load(recFile)) <=> u \in Range(more))
    BY <1>1 DEF FileInv
  <2>1. ~overlapped /\ ~clearing
    BY <1>1 DEF HistoryInv, HistoryType
  <2> QED
    BY <1>2, <1>3, <1>5, <2>1 DEF HistoryInv, FileInv
<1> QED
  BY <1>4, <1>6, <1>7, <1>8, <1>9, <1>10 DEF HistoryInv

(* A save that is alone finds the temporary file as it has left it, and does *)
(* not touch the file.                                                      *)
LEMMA SaveStepHistory ==
  ASSUME HistoryInv, NEW t \in Tasks, SaveStep(t)
  PROVE  HistoryInv'
<1>1. /\ t \in Callers /\ Saving(t) /\ t # Clearer /\ HistoryType
  BY DownloadsAssumption DEF HistoryInv, SaveStep, OpenFile, WriteFile, Saving
<1>2. /\ UNCHANGED <<pc, runs, snap, clearing, events, solo, overlapped, fate>>
      /\ saveAt' = [saveAt EXCEPT ![t] = saveAt'[t]] /\ saveAt'[t] \in {"write", "rename"}
  BY <1>1 DEF SaveStep, OpenFile, WriteFile, runVars, clearVars, promiseVars, HistoryType
<1>3. /\ fd' \in [Callers -> {"none", "tmp", "rec", "gone"}]
      /\ tmpFile' \in {tmpFile, Empty, Broken, snap[t]}
      /\ recFile' \in {recFile, Broken, snap[t]}
  <2>1. CASE OpenFile(t)
    BY <1>1, <2>1 DEF OpenFile, HistoryType
  <2>2. CASE WriteFile(t)
    <3>1. fd' \in [Callers -> {"none", "tmp", "rec", "gone"}]
      BY <1>1, <2>2 DEF WriteFile, HistoryType
    <3>2. CASE fd[t] = "tmp"
      BY <2>2, <3>1, <3>2, Written DEF WriteFile
    <3>3. CASE fd[t] = "rec"
      BY <2>2, <3>1, <3>3, Written DEF WriteFile
    <3>4. CASE fd[t] \notin {"tmp", "rec"}
      BY <2>2, <3>1, <3>4 DEF WriteFile, fileVars
    <3> QED
      BY <3>2, <3>3, <3>4
  <2> QED
    BY <2>1, <2>2 DEF SaveStep
<1>4. snap[t] \in RunLists /\ Range(snap[t]) \subseteq Ended
  BY <1>1 DEF HistoryInv, HistoryType, ListInv
<1>5. HistoryType'
  BY <1>1, <1>2, <1>3, <1>4 DEF HistoryType, FileType
<1>6. \A c \in Callers : Saving(c)' <=> Saving(c)
  BY <1>1, <1>2 DEF Saving, HistoryType
<1>7. SaversEnd' /\ MemoryInv'
  BY <1>2, <1>6 DEF HistoryInv, SaversEnd, MemoryInv
<1>8. ListInv'
  <2>1. Ended' = Ended
    BY <1>2 DEF Ended
  <2>2. Range(Load(tmpFile')) \subseteq Ended /\ Range(Load(recFile')) \subseteq Ended
    BY <1>3, <1>4, Loaded, NoRuns DEF HistoryInv, ListInv
  <2> QED
    BY <1>2, <2>1, <2>2 DEF HistoryInv, ListInv
<1>9. solo[t] => /\ recFile' = recFile
                 /\ saveAt'[t] = "write" => tmpFile' = Empty /\ fd'[t] = "tmp"
                 /\ saveAt'[t] = "rename" => tmpFile' = snap[t]
  <2> SUFFICES ASSUME solo[t]
               PROVE  /\ recFile' = recFile
                      /\ saveAt'[t] = "write" => tmpFile' = Empty /\ fd'[t] = "tmp"
                      /\ saveAt'[t] = "rename" => tmpFile' = snap[t]
    OBVIOUS
  <2>1. CASE OpenFile(t)
    BY <1>1, <2>1 DEF OpenFile, HistoryType
  <2>2. CASE WriteFile(t)
    <3>1. tmpFile = Empty /\ fd[t] = "tmp"
      BY <1>1, <2>2 DEF WriteFile, HistoryInv, SoloInv
    <3> QED
      BY <1>1, <2>2, <3>1, Written DEF WriteFile, HistoryType
  <2> QED
    BY <2>1, <2>2 DEF SaveStep
<1>10. \A c \in Callers : solo[c] => c = t
  BY <1>1 DEF HistoryInv, SoloInv
<1>11. SoloInv'
  BY <1>1, <1>2, <1>6, <1>9, <1>10 DEF HistoryInv, SoloInv
<1>12. FileInv'
  <2>1. ~overlapped => recFile' = recFile
    BY <1>1, <1>9 DEF HistoryInv, SoloInv
  <2> QED
    BY <1>1, <1>2, <1>6, <2>1, DownloadsAssumption DEF HistoryInv, FileInv
<1> QED
  BY <1>5, <1>7, <1>8, <1>11, <1>12 DEF HistoryInv

(* A save that was alone leaves the file as the memory is; from then on, what *)
(* is promised of the run holds of both.                                    *)
LEMMA SaveEndHistory ==
  ASSUME TaskInv, HistoryInv, NEW t \in Tasks, SaveEnd(t)
  PROVE  HistoryInv'
<1>1. /\ t \in Callers /\ Tasks \subseteq Callers /\ saveAt[t] = "rename" /\ Saving(t)
      /\ t # Clearer /\ HistoryType /\ pc[t] = "save"
  BY DownloadsAssumption DEF HistoryInv, SaversEnd, SaveEnd, RenameFile, Saving
<1>2. /\ UNCHANGED <<runs, clearing, events>>
      /\ pc' = [pc EXCEPT ![t] = "over"]
      /\ saveAt' = [saveAt EXCEPT ![t] = "no"] /\ snap' = [snap EXCEPT ![t] = <<>>]
      /\ overlapped' = (overlapped /\ ~solo[t]) /\ solo' = [solo EXCEPT ![t] = FALSE]
      /\ fate' = [fate EXCEPT ![t] = IF t \in Range(runs) THEN "kept" ELSE "none"]
  BY DEF SaveEnd, RenameFile, GoTo, clearVars
<1>3. /\ fd' \in [Callers -> {"none", "tmp", "rec", "gone"}]
      /\ tmpFile' \in {tmpFile, NoFile} /\ recFile' \in {recFile, tmpFile}
      /\ tmpFile # NoFile => recFile' = tmpFile
  BY <1>1 DEF SaveEnd, RenameFile, HistoryType, fileVars
<1>4. HistoryType'
  BY <1>1, <1>2, <1>3, NoRuns DEF HistoryType, FileType
<1>5. /\ \A c \in Callers : Saving(c)' <=> Saving(c) /\ c # t
      /\ \A u \in Tasks : pc'[u] = IF u = t THEN "over" ELSE pc[u]
  BY <1>1, <1>2 DEF Saving, HistoryType, TaskInv, TaskType
<1>6. SaversEnd'
  BY <1>1, <1>5 DEF HistoryInv, SaversEnd
<1>7. ListInv'
  <2>1. Ended \subseteq Ended'
    BY <1>5 DEF Ended
  <2>2. Range(Load(tmpFile')) \subseteq Ended /\ Range(Load(recFile')) \subseteq Ended
    BY <1>3, Loaded, NoRuns DEF HistoryInv, ListInv
  <2>3. \A c \in Callers : snap'[c] = IF c = t THEN <<>> ELSE snap[c]
    BY <1>1, <1>2 DEF HistoryType
  <2>4. \A u \in Tasks : fate'[u] # "none" => pc'[u] \in {"over", "lost"}
    BY <1>1, <1>2, <1>5 DEF HistoryInv, ListInv, HistoryType
  <2> QED
    BY <1>2, <2>1, <2>2, <2>3, <2>4, NoRuns DEF HistoryInv, ListInv
<1>8. MemoryInv'
  BY <1>1, <1>2 DEF HistoryInv, MemoryInv, HistoryType
<1>9. \A c \in Callers : ~solo'[c]
  BY <1>1, <1>2 DEF HistoryInv, SoloInv, HistoryType
<1>10. ~overlapped' => solo[t]
  BY <1>1, <1>2 DEF HistoryInv, SoloInv
<1>11. ~overlapped' => ~clearing /\ \A c \in Callers : ~Saving(c)'
  BY <1>1, <1>5, <1>10 DEF HistoryInv, SoloInv
<1>12. SoloInv'
  BY <1>2, <1>9, <1>11 DEF SoloInv
<1>13. FileInv'
  <2> SUFFICES ASSUME ~overlapped'
               PROVE  ~clearing /\ Load(recFile') = runs
    BY <1>2 DEF FileInv
  <2>1. tmpFile = runs /\ runs \in RunLists
    BY <1>1, <1>10 DEF HistoryInv, SoloInv, HistoryType
  <2> QED
    BY <1>3, <1>11, <2>1, Loaded
<1> QED
  BY <1>4, <1>6, <1>7, <1>8, <1>12, <1>13 DEF HistoryInv


(* A clear empties the memory, and promises nothing until the file is gone. *)
LEMMA ClearHistory ==
  ASSUME HistoryInv, Clear
  PROVE  HistoryInv'
<1> DEFINE others == \E d \in Callers \ {Clearer} : Saving(d)
<1>1. /\ ~clearing /\ runs' = <<>> /\ clearing' = TRUE /\ events < MaxEvents
      /\ events' = events + 1
      /\ UNCHANGED <<pc, snap, saveAt, fd, tmpFile, recFile>>
      /\ fate' = [t \in Tasks |-> "none"]
      /\ solo' = [d \in Callers |-> d = Clearer /\ ~others]
      /\ overlapped' = (overlapped \/ others)
  BY DEF Clear, Meet, runVars, saveVars, fileVars
<1>2. HistoryType /\ ~Saving(Clearer) /\ Clearer \in Callers
  BY DownloadsAssumption DEF HistoryInv, SaversEnd
<1>3. HistoryType'
  <2>1. MaxEvents \in Nat
    BY DownloadsAssumption, Zenon
  <2>2. events' \in 0 .. MaxEvents
    BY <1>1, <1>2, <2>1 DEF HistoryType
  <2> QED
    BY <1>1, <1>2, <2>2, NoRuns DEF HistoryType, FileType
<1>4. \A c \in Callers : Saving(c)' <=> Saving(c)
  BY <1>1 DEF Saving
<1>5. SaversEnd' /\ MemoryInv'
  BY <1>1, <1>4 DEF HistoryInv, SaversEnd, MemoryInv
<1>6. ListInv'
  <2>1. Ended' = Ended
    BY <1>1 DEF Ended
  <2> QED
    BY <1>1, <2>1, NoRuns DEF HistoryInv, ListInv
<1>7. SoloInv'
  <2>1. ASSUME NEW c \in Callers, solo'[c]
        PROVE  c = Clearer /\ \A d \in Callers : ~Saving(d)
    BY <1>1, <1>2, <2>1
  <2>2. ~overlapped' => solo'[Clearer] /\ \A d \in Callers : ~Saving(d)
    BY <1>1, <1>2
  <2> QED
    BY <1>1, <1>4, <2>1, <2>2 DEF SoloInv, Saving
<1>8. FileInv'
  BY <1>1 DEF FileInv
<1> QED
  BY <1>3, <1>5, <1>6, <1>7, <1>8 DEF HistoryInv

(* A removal that was alone leaves no file, as no run is in memory. *)
LEMMA ClearEndHistory ==
  ASSUME HistoryInv, ClearEnd
  PROVE  HistoryInv'
<1>1. /\ clearing /\ clearing' = FALSE /\ recFile' = NoFile
      /\ fd' = [c \in Callers |-> IF fd[c] = "rec" THEN "gone" ELSE fd[c]]
      /\ overlapped' = (overlapped /\ ~solo[Clearer])
      /\ solo' = [solo EXCEPT ![Clearer] = FALSE]
      /\ fate' = [t \in Tasks |-> IF pc[t] \in {"over", "lost"} /\ t \notin Range(runs)
                                    THEN "gone" ELSE fate[t]]
      /\ UNCHANGED <<pc, runs, snap, saveAt, tmpFile, events>>
  BY DEF ClearEnd, runVars
<1>2. /\ HistoryType /\ ~Saving(Clearer) /\ Clearer \in Callers
      /\ Load(NoFile) = <<>>
  BY DownloadsAssumption, Loaded DEF HistoryInv, SaversEnd
<1>3. HistoryType'
  BY <1>1, <1>2 DEF HistoryType, FileType
<1>4. \A c \in Callers : Saving(c)' <=> Saving(c)
  BY <1>1 DEF Saving
<1>5. SaversEnd' /\ MemoryInv'
  BY <1>1, <1>4 DEF HistoryInv, SaversEnd, MemoryInv
<1>6. ListInv'
  <2>1. Ended' = Ended
    BY <1>1 DEF Ended
  <2> QED
    BY <1>1, <1>2, <2>1, NoRuns DEF HistoryInv, ListInv
<1>7. \A c \in Callers : ~solo'[c]
  BY <1>1, <1>2 DEF HistoryInv, SoloInv, HistoryType
<1>8. ~overlapped' => solo[Clearer]
  BY <1>1 DEF HistoryInv, SoloInv
<1>9. ~overlapped' => runs = <<>> /\ \A c \in Callers : ~Saving(c)
  BY <1>2, <1>8 DEF HistoryInv, SoloInv
<1>10. SoloInv'
  BY <1>1, <1>4, <1>7, <1>9 DEF SoloInv
<1>11. FileInv'
  BY <1>1, <1>2, <1>9 DEF FileInv
<1> QED
  BY <1>3, <1>5, <1>6, <1>10, <1>11 DEF HistoryInv

(* A restart reads what the file holds: if no saves had met, what was promised. *)
LEMMA RestartHistory ==
  ASSUME HistoryInv, Restart
  PROVE  HistoryInv'
<1>1. /\ pc' = [t \in Tasks |-> IF pc[t] \in {"none", "over"} THEN pc[t] ELSE "lost"]
      /\ runs' = Load(recFile) /\ events < MaxEvents /\ events' = events + 1
      /\ snap' = [c \in Callers |-> <<>>] /\ saveAt' = [c \in Callers |-> "no"]
      /\ fd' = [c \in Callers |-> "none"] /\ tmpFile' = tmpFile /\ recFile' = recFile
      /\ clearing' = FALSE /\ solo' = [c \in Callers |-> FALSE] /\ overlapped' = FALSE
      /\ fate' = [t \in Tasks |-> IF overlapped THEN "none" ELSE fate[t]]
  BY DEF Restart, ForgetSaves, fileVars
<1>2. HistoryType /\ HistorySurvives
  BY HistoryKept DEF HistoryInv
<1>3. HistoryType'
  <2>1. MaxEvents \in Nat
    BY DownloadsAssumption, Zenon
  <2>2. events' \in 0 .. MaxEvents
    BY <1>1, <1>2, <2>1 DEF HistoryType
  <2>3. Load(recFile) \in RunLists
    BY <1>2, Loaded DEF HistoryType
  <2>4. fate' \in [Tasks -> {"none", "kept", "gone"}]
    BY <1>1, <1>2 DEF HistoryType
  <2> QED
    BY <1>1, <1>2, <2>2, <2>3, <2>4, NoRuns DEF HistoryType, FileType
<1>4. \A c \in Callers : ~Saving(c)' /\ ~solo'[c]
  BY <1>1 DEF Saving
<1>5. SaversEnd'
  BY <1>1, <1>4 DEF SaversEnd
<1>6. ListInv'
  <2>1. Ended \subseteq Ended'
    BY <1>1 DEF Ended
  <2>2. \A t \in Tasks : fate'[t] # "none" => pc'[t] \in {"over", "lost"}
    BY <1>1 DEF HistoryInv, ListInv
  <2> QED
    BY <1>1, <2>1, <2>2, NoRuns DEF HistoryInv, ListInv
<1>7. MemoryInv'
  BY <1>1, <1>2 DEF MemoryInv, HistorySurvives
<1>8. SoloInv'
  BY <1>1, <1>4 DEF SoloInv
<1>9. FileInv'
  BY <1>1 DEF FileInv
<1> QED
  BY <1>3, <1>5, <1>6, <1>7, <1>8, <1>9 DEF HistoryInv

LEMMA HistoryStep ==
  ASSUME TaskInv, HistoryInv, [Next]_vars
  PROVE  HistoryInv'
<1>1. ASSUME UNCHANGED <<pc, historyVars, clearVars, promiseVars>> PROVE HistoryInv'
  BY <1>1, QuietHistory
<1>2. ASSUME NEW t \in Tasks, User(t) \/ Limit(t) \/ WalkStep(t) \/ Listed(t) PROVE HistoryInv'
  <2>1. ASSUME NEW o \in JobsOf[t], Add(t, o) PROVE HistoryInv'
    BY <2>1, MovesOn DEF Add, GoTo
  <2>2. CASE UNCHANGED managerVars
    BY <1>1, <2>2 DEF managerVars, runVars
  <2> QED
    BY <1>2, <2>1, <2>2 DEF User, Limit, WalkStep, Listed
<1>3. ASSUME NEW t \in Tasks, RunStep(t) PROVE HistoryInv'
  <2>1. CASE StopWaiting(t) \/ Begin(t)
    BY <2>1, MovesOn DEF StopWaiting, Begin, GoTo
  <2>2. CASE Cycle(t)
    <3>1. \E place \in {"end", "work"} : GoTo(t, place)
      BY <2>2 DEF Cycle
    <3> QED
      BY <2>2, <3>1, MovesOn DEF Cycle, GoTo
  <2>3. CASE EndCycle(t)
    <3>1. \E place \in {"end", "between"} : GoTo(t, place)
      BY <2>3 DEF EndCycle, CycleOver
    <3> QED
      BY <2>3, <3>1, MovesOn DEF EndCycle, CycleOver, GoTo
  <2>4. CASE NextCycle(t)
    <3>1. \E place \in {"end", "cycle"} : GoTo(t, place)
      BY <2>4 DEF NextCycle
    <3> QED
      BY <2>4, <3>1, MovesOn DEF NextCycle, GoTo
  <2>5. CASE Conclude(t) \/ SaveStep(t) \/ SaveEnd(t)
    BY <2>5, ConcludeHistory, SaveStepHistory, SaveEndHistory
  <2> QED
    BY <1>3, <2>1, <2>2, <2>3, <2>4, <2>5 DEF RunStep
<1>4. ASSUME NEW t \in Tasks, NEW s \in Slots, StreamStep(t, s) \/ Answered(t, s)
      PROVE  HistoryInv'
  BY <1>1, <1>4 DEF StreamStep, Answered, managerVars, runVars
<1>5. CASE UNCHANGED vars
  BY <1>1, <1>5 DEF vars, runVars
<1> QED
  BY <1>2, <1>3, <1>4, <1>5, ClearHistory, ClearEndHistory, RestartHistory DEF Next

DownloadsInv == TaskInv /\ HistoryInv

LEMMA DownloadsInvariant == Spec => []DownloadsInv
<1>1. Init => DownloadsInv
  BY TaskInit, HistoryInit DEF DownloadsInv
<1>2. DownloadsInv /\ [Next]_vars => DownloadsInv'
  BY TaskStep, HistoryStep DEF DownloadsInv, HistoryInv
<1> QED
  BY <1>1, <1>2, PTL DEF Spec


-----------------------------------------------------------------------------
(* What the runs check. *)

(* The variables of the manager, of its tasks and of the history file have   *)
(* their types, and a stream its numbers, in every reachable state (dl.go).  *)
THEOREM DownloadsTypeCorrect == Spec => []TypeOK
<1>1. ASSUME DownloadsInv PROVE TypeOK
  <2>1. TaskType /\ HistoryType /\ \A t \in Tasks : Placed(t) /\ Slotted(t)
    BY <1>1 DEF DownloadsInv, TaskInv, TaskGood, HistoryInv
  <2>2. ASSUME NEW t \in Tasks, NEW s \in Slots
        PROVE  /\ opts[t] \in JobsOf[t] \union {NoJob}
               /\ stream[t][s].at \in {"gone", "top", "ask", "wait", "idle"}
               /\ stream[t][s] = Gone \/ /\ opts[t] # NoJob
                                         /\ stream[t][s].loop \in 0 .. opts[t].loops
                                         /\ stream[t][s].tries \in 0 .. opts[t].retries + 1
    <3>1. Placed(t) /\ Slotted(t) /\ stream[t][s] \in StreamType
      BY <2>1, <2>2 DEF TaskType
    <3>2. CASE stream[t][s] = Gone
      BY <3>1, <3>2 DEF Placed, StreamType
    <3>3. CASE stream[t][s] # Gone
      <4>1. pc[t] = "work" /\ Fits(opts[t], stream[t][s])
        BY <3>1, <3>3, <2>2 DEF Slotted
      <4>2. opts[t] # NoJob /\ opts[t] \in JobsOf[t]
        BY <3>1, <4>1 DEF Placed
      <4>3. opts[t].loops \in Nat /\ opts[t].retries \in Nat
        BY <4>2, StreamsTyped DEF Jobs
      <4> QED
        BY <3>1, <4>1, <4>2, <4>3 DEF Fits, StreamType
    <3> QED
      BY <3>2, <3>3
  <2>3. StreamsTypeOK
    <3>1. \A t \in Tasks : opts[t] \in JobsOf[t] \union {NoJob}
      BY <2>1 DEF Placed
    <3> QED
      BY <2>1, <2>2, <3>1 DEF StreamsTypeOK, TaskType
  <2>4. cycles \in [Tasks -> 0 .. MaxCycles]
    <3>1. MaxCycles \in Nat
      BY DownloadsAssumption, Zenon
    <3> QED
      BY <2>1, <3>1 DEF TaskType, Placed
  <2> QED
    BY <2>1, <2>3, <2>4 DEF TypeOK, TaskType, HistoryType, FileType
<1> QED
  BY <1>1, DownloadsInvariant, PTL

(* A number of files that ends a task is passed by no more than what the other *)
(* streams had under way (stopReached, dl.go:569): a request is begun only     *)
(* below the number, and each counts at most PerStream files before the next.  *)
THEOREM FilesStayLimited == Spec => []FilesLimited
<1>1. ASSUME DownloadsInv PROVE FilesLimited
  <2> SUFFICES ASSUME NEW t \in Tasks, opts[t] # NoJob, opts[t].stopFiles > 0
               PROVE  files[t] <= opts[t].stopFiles - 1
                        + StreamsOf(opts[t])
                            * IF opts[t].up THEN opts[t].retries + 2 ELSE 1
    BY DEF FilesLimited
  <2> DEFINE most == StreamsOf(opts[t]) * PerStream(opts[t])
             coming == Cardinality(Coming(opts[t], stream[t]))
  <2>1. /\ TaskType /\ Placed(t) /\ files[t] \in Nat
        /\ files[t] + coming <= opts[t].stopFiles - 1 + most
    BY <1>1 DEF DownloadsInv, TaskInv, TaskGood, TaskType, Limited
  <2>2. opts[t] \in JobsOf[t] /\ opts[t].stopFiles \in Nat
    BY <2>1, StreamsTyped DEF Placed, Jobs
  <2>3. most \in Nat
    BY <2>2, PerStreamTyped, StreamsTyped
  <2>4. coming \in Nat
    <3>1. \A s \in Slots : stream[t][s].at \in {"ask", "wait"} => s <= StreamsOf(opts[t])
      BY <1>1, GoneTyped DEF DownloadsInv, TaskInv, TaskGood, Slotted
    <3> QED
      BY <2>2, <3>1, ComingBounded
  <2> HIDE DEF most, coming
  <2>5. files[t] <= opts[t].stopFiles - 1 + most
    BY <2>1, <2>2, <2>3, <2>4
  <2> QED
    BY <2>5 DEF most, PerStream
<1> QED
  BY <1>1, DownloadsInvariant, PTL

(* Outside a cycle, a clean crawl has all that its walk found. *)
LEMMA AllFetched ==
  ASSUME TaskInv, NEW t \in Tasks, pc[t] # "work", opts[t] # NoJob, Clean(t), opts[t].crawl
  PROVE  files[t] = found[t]
<1>1. walk[t] = "gone" /\ queue[t] = 0 /\ Cardinality(Busy(stream[t])) = 0
  BY AtRest, RestingRow, GoneTyped
<1>2. found[t] = files[t] + queue[t] + Cardinality(Busy(stream[t])) + 0
  BY <1>1 DEF TaskInv, TaskGood, Fulfilled
<1>3. files[t] \in Nat
  BY DEF TaskInv, TaskType
<1> QED
  BY <1>1, <1>2, <1>3

(* A task that says done, and names no condition that ended it, has done all  *)
(* that it was asked for (run, dl.go:545).                                   *)
THEOREM DoneMeansComplete == Spec => []DoneIsComplete
<1>1. ASSUME DownloadsInv PROVE DoneIsComplete
  <2> SUFFICES ASSUME NEW t \in Tasks, pc[t] \in {"save", "over"}, state[t] = "done",
                      reason[t] = ""
               PROVE  IF opts[t].crawl THEN files[t] = found[t]
                      ELSE /\ loopsDone[t] = cycles[t] * StreamsOf(opts[t]) * opts[t].loops
                           /\ opts[t].up \/ files[t] = loopsDone[t]
    BY DEF DoneIsComplete
  <2>1. TaskType /\ TaskGood(t)
    BY <1>1 DEF DownloadsInv, TaskInv
  <2>2. Clean(t) /\ opts[t] # NoJob
    BY <2>1 DEF TaskGood, Honest, Placed
  <2>3. CASE opts[t].crawl
    BY <1>1, <2>2, <2>3, AllFetched DEF DownloadsInv
  <2>4. CASE ~opts[t].crawl
    BY <2>1, <2>2, <2>4 DEF TaskGood, Fulfilled
  <2> QED
    BY <2>3, <2>4
<1> QED
  BY <1>1, DownloadsInvariant, PTL

(* The history file tells the truth at every moment, and so after a crash at  *)
(* any step of a save, unless saves met each other or the removal of the file *)
(* (recordHistory, loadHistory, ClearHistory, extra.go:213).                 *)
THEOREM HistoryKeepsPromises == Spec => []HistorySurvives
<1>1. DownloadsInv => HistorySurvives
  BY HistoryKept DEF DownloadsInv
<1> QED
  BY <1>1, DownloadsInvariant, PTL

=============================================================================
