# Digitalis in TLA+

Digitalis is a BitTorrent client with a web interface: one Go process that
downloads and seeds torrents, keeps them within limits and schedules, and
remembers them over restarts.  This directory holds TLA+ modules of its
concurrent core, TLC configurations that check them on small instances, and
theorems that TLAPS proves for every value of the constants.

Paths below are relative to the repository (`torrente/peer.go`); `PROJECT.json`
maps every definition to the lines it models.

## 1. The system

### Components, their state and operations

| Component | State | Operations | Modules |
|---|---|---|---|
| Piece store (`storage/storage.go`) | blocks on disk, a bit per present piece | WriteBlock, VerifyPiece, SetPresent | PieceStore |
| Picker (`torrente/picker.go`) | reserved, peerHaveCount, skip mask, streaming window, under `picker.mu` | addPeer, delPeer, peerBitfield, peerHave, acquire, release, SetPriority, setSkip | Picker |
| Peer session (`torrente/peer.go`) | amChoked, peer bitfield, currentPiece, outstanding, pendingBlocks; local to one goroutine | connect, choke, unchoke, have, bitfield, cancel, piece, pumpRequests, handlePiece, abortPiece, unregisterSession | PeerSession |
| Selection (`torrente/selective.go`, `sequential.go`) | the files that are skipped | SetSkippedFiles, the streaming window | Transfer |
| Torrent table (`torrente/torrent.go`) | `Engine.torrents` under `e.mu`; State, Queued, GuardPaused under each torrent's own `mu` | AddTorrent, Pause, Resume, RemoveTorrent | Engine |
| Automation (`torrente/automation.go`, `stats.go`) | the locals of one tick | share goals, disk guard, queue | Automation |
| Records (`web/persist.go`, `web.go`) | the list in memory under `recordsMu`, torrents.json, torrents.json.tmp | persistRecord, dropRecord, edits, restoreRecords | SavedFile, Records, Persistence |
| Trash (`torrente/automation.go`) | `<root>/.trash`, trash.json, `trashMu` | trashOrRemove, EmptyTrash, purgeTrash | Trash |
| Settings (`torrente/settings.go`) | `Engine.settings`, two rate limits, settings.json and its temporary file | UpdateSettings, SetServerToken, AddDisk, RemoveDisk, storeSettings, LoadSettings | Settings |
| Statistics (`torrente/stats.go`) | sample buffer, chart and totals of today, closed days, stats.json | recordUp, statsTick, persistStats, InitStats | DayStats |
| Stats loop (`torrente/stats.go`) | nightApplied, nightPaused, uploadPaused, downloadPaused, persistTick | the tick every 30 seconds | StatsLoop |
| Metadata exchange (`torrente/extend.go`, `discovery.go`) | MetaSize, MetaChunks, storage, State; per session what the peer told and what was asked | extended handshake, data, reject, requestMetaPieces, upgradeMagnet | Metadata, MetadataRegister |
| Connections (`torrente/torrent.go`, `peer.go`, `discovery.go`) | sessions, connecting, under `e.mu`; the places a batch has in hand | connectPeers, connectDiscovered, connectToPeer, handleIncoming, RemoveTorrent | Connections |
| DHT (`dht/dht.go`, `torrente/dhtbridge.go`) | next, pend, a channel per query; per search its frontier, per announcer its tokens | query, readLoop, GetPeers, Announce | Dht |
| Download manager (`dl/`) | per task its options, flags and counters; the queue of a crawl; the history and its file | Add, Stop, run, loopShard, startCrawl, waitRepeat, recordHistory, ClearHistory | Streams, Crawl, Downloads, SavedFile |
| Feeds (`web/rss.go`) | the slice of feeds with what each has seen, under `rssMu` | rssPollLoop, pollRSS, pollAllRSS, createRSS, deleteRSS | Feeds |
| Backup (`web/backup.go`) | none of its own | importBackup | Records, Persistence |
| Trackers, rate limiter, WebSocket hub | announce counts; tokens; clients and their buffers | announce; wait; broadcast | not modelled |
| Codecs, metainfo, categories, countries, HTTP handlers, notifications, web page | none of their own | pure functions and I/O | not modelled |

### How they interact

- Each peer session is a goroutine that reads messages and calls the picker and
  the store.  Sessions of one torrent share both, and the torrent's `State`.
- The web API calls the engine from one goroutine per request; the engine tells
  the web server of events (`notify`) in goroutines of their own, which drop or
  change records.
- One goroutine, the stats loop, closes days, applies the night schedule, and
  runs the automation, all against the requests.
- Trackers, the peers of a torrent (PEX) and the DHT tell the engine addresses,
  each from goroutines of their own; they meet in the tables of connections.
- A download task runs a goroutine per stream or worker; they share the counters
  and flags of the task, and all tasks share one history.
- torrents.json, settings.json and the history of downloads are written to a
  temporary file, trash.json under a lock; all are read once at the start;
  stats.json is written by the stats loop only.

### What is hard

Locks are held for a few lines at a time (`e.mu`, each torrent's `mu`,
`picker.mu`, `recordsMu`, `trashMu`, `statsMu`), and most operations take
several, one after the other: what was read under one is acted upon under the
next.  Files are saved outside the locks that guard what they hold.  The process
may stop between any two steps.  Peers choke, disconnect, announce things twice
and send blocks with wrong bytes; datagrams are lost, late and doubled; servers
fail or stay silent.  Timers work on settings they copied a moment
ago.  `hazards` in `PROJECT.json` lists forty such places by line, with the
properties that would catch them going wrong.

### What makes each component correct

- *Transfer*: a piece has one downloader; no reservation outlives its session;
  what is announced as present has the right hash and stays; the rarity
  counters are exact; the download finishes, and whoever finishes it notices.
- *Automation*: after a tick the limit of downloads is kept, no torrent runs on a
  root without space, and whatever was paused automatically starts again.
- *Persistence*: what was answered is on file at every moment; a restart brings
  back what ran; nothing in the trash is forgotten.
- *Metadata*: what is installed is what the chunks make, and is right; it arrives
  if an honest peer stays; the state then tells what is on the disk.
- *Connections*: no peer is dialled twice at once, a key is free again when its
  goroutine ends, and batches that overlap exceed the limit by a known number.
- *DHT*: an answer reaches the query it answers, nobody waits for ever, nothing is
  left in the table.
- *Downloads*: a task ends, says done only if all was done, keeps to its limit of
  files, and what was announced as finished is on file.
- *Feeds*: an entry is handed over once, and is marked in its own feed.
- *Settings and statistics*: transfers are held when the schedule or the daily
  limit says so, and only then; limits, settings and counts survive each other
  and a restart.

## 2. The modules

    PieceStore <- Picker <- PeerSession <- Transfer <- MCTransfer
                                              ^------ TransferLive
                                              ^------ Transfer_proofs
                                              (INSTANCE PieceBoard)
    Engine <- Automation <- MCAutomation, Automation_proofs
    SavedFile <- Records
    Records, Trash <- Persistence <- MCPersistence, Persistence_proofs
    Settings, DayStats <- StatsLoop <- MCStatsLoop, StatsLoop_proofs
    Metadata <- MCMetadata, Metadata_proofs          (INSTANCE MetadataRegister)
    Connections <- MCConnections
    Streams <- Crawl
    Crawl, SavedFile <- Downloads <- MCDownloads, Downloads_proofs
    Dht <- MCDht
    Connections, Dht <- Discovery_proofs
    Feeds <- MCFeeds, Feeds_proofs

An arrow is EXTENDS.  An action is a lock region of the code, or several where
what runs between them commutes with everything else; the comments in the
modules say which.  Properties stand at the end of the module that composes.
Some definitions state a plausible mistake (`DelPeerKeepsPiece`,
`RecordFirst`): they are no part of any specification, and `mutants` in
`PROJECT.json` says which definition each replaces to show that a property can
fail.

### Transfer: one torrent being downloaded

`PieceStore` keeps, for each block on disk, whether it is missing, right or wrong
(`disk`), and the present pieces.  What a piece message carries is a sequence of
blocks of any length, as nothing in `handlePiece` compares it with the request: a
long one is written into the pieces behind (`overrun` is a history variable: those
it reached after their hash check), an empty one counts as a block received
(`empties`).  `Picker` is `picker.go` operation by
operation, `acquire` as one step under `picker.mu` with its three ways to choose
(rarest, earliest, the window).  `PeerSession` is the goroutine: `pc` tells where
it stands between two lock regions of `handlePiece`, `pumpRequests` and
`unregisterSession`.  `Transfer` adds the state of the torrent, SetSkippedFiles
(`callPc`: mask, installation, check, seeding), Pause, Resume, the streaming
window and the flag of the night pause.  `PieceBoard` is what the sessions promise
each other without any of this: a piece is claimed, and given back or finished by
who claimed it; `stolen` is where the board loses track.  `stolen` is a history variable: the
pieces that a torn-down session released although they belonged to another one.

Left out or simplified: `acquire` reads the present pieces under the store's own
lock within its one step; waits for the rate limiter; payloads that are no
multiple of a block (the block that is written in part is wrong, or what it was);
sessions of a torrent without metadata; indices out of range; a torrent of size zero; `Move`.

### Automation: the tick against the API

`Engine` has objects rather than IDs: a request or the tick may hold an object
that is no longer in the table.  `Automation` is the tick, a step for each torrent
it visits.  `EngineMuFree` says when `e.mu` is free for others.  Free space is one
of three levels (below the floor, between the two thresholds, above both) and is
whatever the tick reads; that a share goal is reached is a free choice.
`disturbed` tells whether a call met the tick, `pausedBy` who paused a torrent.

A torrent comes from a file or from a magnet.  A magnet has no storage until its
metadata arrives: `InstallMetadata` and `SettleState` are the two lock regions of
`upgradeMagnet` that change the torrent's state, under its own lock only, so at any
moment of a tick, and whoever paused it.  Until then its `complete` tells what
`wantedComplete` answers without storage, that the magnet gives no length
(`torrent.go:178`), so Resume may turn it to seeding.  `upgraded` is a history
variable: the magnets whose metadata was installed since the tick began.

Simplified: a torrent keeps its directory; of its sessions there are only
`FinishDownload`, the check of a finished torrent with its state change, and the
arrival of the metadata, whose exchange is in Metadata.

### Persistence: records, trash, restarts

`SavedFile` is a file that is written through one temporary file, outside any
lock: the save as its three system calls (truncate, write, rename), and what
overlapping saves can leave.  `Records` has the list in memory as a list (its
order matters to the walk of `restoreRecords`, which shares its array with
`dropRecord`), and the import of a backup, which replaces the list and then adds
its torrents one by one.  `Trash` has `trashMu`, the directories and trash.json.
`Persistence` runs the requests, the share goals, the watch folder, the restore
walk, the purge and crashes.  `fate` is what was promised for a torrent by the
last answer; `crossed` are the torrents that two requests met on; `overlapped`
says that two saves met; `orphans` are directories moved just before a crash.

Simplified: the engine's own addition and removal are one step each; a record is
its ID; saveTrash is one step under `trashMu`; a write that fails and the loss of
power are left out (no file is synced); the restore walk that reads while the
list is compacted may fail on what it reads.

### Stats loop: settings, statistics, schedule

`Settings` has the requests that change settings: the change under `e.mu`, each
limit, and the store in two steps, where a save that meets another may leave a
torn file (`Records` takes such a save apart).  `DayStats` has the counters;
bytes are blocks, hours are the slots of a small day.  `StatsLoop` is the tick,
a step for each lock region, with requests, sent blocks, passing hours and
restarts.  History variables: `settled` (no hour has passed and no setting has
changed since the tick read them), `fresh` (blocks since the daily limit was
checked), `stale` and `tickMet` (an update met a tick, the night or another
update), `credited` and `straddled` (where each block was counted), `unsaved` and
`lost` (what no save has held yet, and what of this a restart took away).
Simplified: the share goals and the automation part of the tick are in
Automation; downloads and connections are counted like uploads; the limits on
the command line are zero; countries and free-space samples are left out.

### Metadata: a magnet becomes a torrent

A session's goroutine is at one of the places where it gives `Torrent.mu` up: the
reading of the shared storage, the examination of an assembly outside the lock,
the installation, the state check after it, the reset.  Chunks have a length and
are right or wrong; sizes are claimed by peers, honest or not.  `MetadataRegister`
is the abstract specification: a register written once, with the right metadata,
after all chunks were gathered; chunks are only dropped all together.  Its
parameters are substituted by `metaSize`, the indexes of the chunks and `storage`.

Simplified: chunks over a restart (they are not saved); each peer keeps its ids.

### Connections: who is connected

`connecting`, and for each goroutine that dials or was dialled where it is.  An
announce (`room`, `todo`) gives `e.mu` up after each dial and keeps its count;
`Discovered` keeps the lock.  Announces of a removed torrent, and its sessions,
go on, as in the code.  One torrent; addresses that are malformed or our own
are left out.

### DHT: queries by number

`pend` maps numbers to queries, `flight` holds the answers that the network may
still deliver, at any time and any number of times, or never.  A query is who asks
and which node; its channel is `got`.  Searches ask some nodes of their frontier at
once, and go on when all have returned; announcers ask one after the other.  What
an answer says is chosen when it is read.  `reused` is a history variable: a
number was taken while an earlier query, or a late answer to one, still used it.
That a late answer survives until its number comes round again is allowed once
(the bound stands in `Enter`).

### Downloads: tasks and their history

`Streams` has the goroutines that transfer (a request is one step that answers,
fails, or never does), with retries, the flag of the user's stop, and the limits,
which are tested where the code tests them.  `Crawl` has the walk, the bounded
channel and the workers.  `Downloads` has `run` with its schedule, cycles and final
state, and the history, which is written like the records.  `due` is chosen by the
environment: the bytes or the time a task may use are up.

Simplified: bytes, speeds, the log, profiles, where data goes; the depth and the
filters of a crawl; the cut of the history at 500 entries.

### Feeds: polls that meet

A poll works on a copy of its feed (the loop, the bulk poll) or on a pointer into
the slice (`pollRSS`), which a deletion compacts.  Entries are numbered in the
order of publication; a document has the last `Window` of them, newest first.
`met` and `mixed` are history variables: feeds on which polls met, and feeds that
such a pointer slid over.

Simplified: when a poll is due; `Recent`; rss.json; what becomes of an entry that
was handed over (an addition that fails is not tried again, `rss.go:261`).

## 3. The runs

### Runs that pass

- **transfer_picker**: two sessions that come and go over two pieces of one
  block with rarest-first picking, and messages of one or two blocks, so that one
  about the first piece can reach the second.  A peer has the second piece or both:
  with rarest-first picking they are all different cases.  Two sessions, two pieces and the teardown of
  one while the other acquires are what every race over a reservation needs.  The
  transfer implements `PieceBoard` (`ImplementsBoard`), so a verified piece is not
  taken back and a session works on one piece at a time.  There are no Cancel
  messages and failed sends in this run (they would multiply its states); for them
  the theorems stand alone.
- **transfer_select**: one session, a SetSkippedFiles call, pause, resume, the
  night pause, a streaming window, one fault of the peer and messages of no, one
  or two blocks: no interleaving of the check under the torrent's lock with the
  installation of a mask misses the completion.  That two sessions do not miss it
  either is the theorem CompletionNotMissed.
- **transfer_live**: two helpful peers, two pieces of two blocks, a request
  window of two, with blocks that are wrong the first time and one message without
  data.  The download finishes, and every hash check sees whole pieces, but on the
  connection of that message.
- **automation_tick**: a torrent from a file and a magnet on one root, settings
  with the limit and the guard, with the limit and a removing goal, and with a
  stopping goal, and one further call: the removal of the first (its slot goes
  to nobody, its object lives on), a pause or resume of the magnet (before or after
  its metadata), or other settings.  The limit and the guard hold after every tick
  for torrents whose metadata was not installed since it began, the flags always,
  and what was paused starts again.
- **persistence**: three torrents, two requests at a time out of four, one crash
  anywhere.  Three torrents are the fewest for which the walk over a compacted
  list can skip one and meet another twice.
- **stats_loop**: two requests, two hours a day, two dates, three settings (no
  limits; a night that wraps midnight with a cap; a night with a full pause and
  a daily limit), and three events out of requests, blocks, hours and restarts.
  A rollover, a change and a restart can all meet one tick, and a block, a closed
  day and a restart before the save show what is lost.
- **magnet**: an honest peer and one that claims other sizes and sends wrong
  chunks whenever it likes, three sizes (one too large to be taken), a window of one
  request, storage that cannot be created, and a user who pauses, resumes and
  removes.  Only the right metadata is installed, and the exchange implements the
  register.  The metadata arrives if from some time on no assembly fails
  (`Setback`) and the size claimed first was right; without the first of these
  premises TLC shows a peer that puts a wrong chunk into every assembly.
- **connections**: two announces, discovered peers and an incoming connection
  compete for two places among five peers.  With two announces of two places
  the bound of `DialsBounded`, four dials, is reached.
- **dht**: a search of two rounds and an announcer among two nodes, one of which
  is known at first, with two numbers, so that numbers wrap in the middle of a
  round.  The answers either give peers and a token, or a token and nodes.
- **downloads**: a task with two streams, with an upload repeated daily, or with a
  crawl of two directories through a channel of one place, next to a task of one
  file; one stop, one clearing of the history or crash.  The crawl ends at as many
  files as its site may have, so the limit may be reached after the last look at
  it.
- **feeds**: two feeds, two polls at once, three polls in all, a document of two
  entries and a list of three marks: the smallest list for which `HandedOnce`
  holds (with two it fails).  A poll may hand over as many entries as the document
  has, so the limit on them (`rss.go:266`) never cuts in the run; the theorem
  EntriesHandedOnce is for any limit.

### The run that finds a disagreement

**transfer_large_piece**: a piece of more than 16 blocks (256 KiB) is hashed after
its first 16, fails, and is asked for again in the same way (`peer.go:427`), where
the comment says that all blocks of the piece are received (`peer.go:428`).  The
passing runs check what remains true, `VerifiesWholeSmallPiece`.

### Where the code does less than it says

The properties are stated so that they hold of the code; each of these exceptions
was seen in a counterexample to the stronger statement.

| The code | What a comment or the documentation says | Property that remains |
|---|---|---|
| a session that ends releases its piece twice, the second time perhaps that of another session (`peer.go:192`) | a piece is reserved to at most one session (`picker.go:9`) | ExclusiveUnlessStolen |
| files selected again while seeding leave the torrent seeding (`selective.go:45`) | SetSkippedFiles re-evaluates the state (`selective.go:14`) | NoMissedCompletion |
| the queue starts a torrent on a root that the guard saw low in the same tick (`automation.go:159`) | all downloading torrents on that root pause (`README.md:157`) | GuardHoldsUnlessQueued |
| two saves share a temporary file, and an answered torrent is not on file (`persist.go:54`) | saveRecords writes atomically (`persist.go:47`) | RecordsSurvive |
| the purge of the trash is started by a test that a reset counter never passes, so at the start only (`stats.go:172`) | the trash is purged after N days (`README.md:161`) | none: an expired directory stays |
| messages of ut_metadata are recognised by the id that the peer chose for itself (`extend.go:86`) | magnets resolve straight from peers (`README.md:42`) | MetadataArrives, for peers with the same id |
| a piece message is written and counted whatever its length, into the pieces behind too (`peer.go:421`, `storage.go:284`) | PiecePresent reports whether a piece is present & verified (`storage.go:117`) | PresentIsVerified, VerifiesWholeSmallPiece |
| the metadata of a magnet starts a torrent that the user, the queue or the guard paused (`discovery.go:109`) | queueTick keeps at most MaxActiveDownloads torrents downloading (`automation.go:144`); all downloading torrents on that root pause (`README.md:157`) | QueueLimitAfterTick, GuardHoldsUnlessQueued, but for metadata installed since the tick began |
| AddTorrent and AddMagnet set a state decided earlier, perhaps after a session of a peer that connected has finished the download: the torrent is complete, stays downloading and keeps its slot (`torrent.go:365`, `torrent.go:418`) | excess torrents pause and start again in add order as slots free up (`automation.go:144`) | AutoPausedRestarts, while there is no such torrent |
| one peer that sends a wrong chunk after each reset spoils every assembly (`extend.go:286`) | a corrupt assembly is dropped so other peers can serve fresh chunks instead of looping forever on bad bytes (`extend.go:284`) | MetadataArrives, if assemblies fail only finitely often |
| a restart loses the counts of the day in progress, and of a day that closed since the last save (`stats.go:555`) | statistics survive restarts (`README.md:48`) | BlocksCountedOnce, but for what no save held; SavedDaysStay |
| an update of the settings that meets another, a tick or the night leaves limits that are not those of the settings (`settings.go:211`) | during the window the rate is capped at that of the night (`settings.go:66`) | LimitsFollowSettings; put right when the next night ends |
| a title with a keyword is taken whatever the blacklist says (`rss.go:324`) | the title must contain none of these (`rss.go:37`) | HandedOnce, of what `Matches` takes |

Two more were found by reading; both work on real time and are not modelled.  The
throttle of downloads (`dl/dl.go:981`) converts its sleep to whole seconds before it
scales it, so a limit above the size of one chunk a second limits nothing.  The
rate limiter of torrents (`torrente/rate.go:42`) keeps no more tokens than one
second brings, so with a limit below the size of a block its `wait` never returns.

### Bounds

`MaxFaults` bounds the Cancel messages and failed sends of a connection, `Lengths`
the blocks that a piece message carries, `Bitfields` what peers announce at once,
`MaxObjects` the torrents ever added, `SettingsSet` and `Requests` the settings and
calls that come (`FileIds` and `MagnetIds` say how a torrent is added), `MaxOps` the
requests, `MaxDirs` the
directories of the trash, `MaxRestarts` the crashes, `MaxDate` and `MaxEvents` the
time and the events of the stats loop.  An import counts as two of `MaxOps`.  In
Downloads, `MaxDirs` and `MaxFound` bound the site of a crawl, `MaxCycles` the
repeats, `MaxStops` the tasks that are stopped, `MaxEvents` clearings and crashes;
in Feeds, `MaxEntries` what a site publishes and `MaxPolls` the polls.  They stand
in guards of the actions of the environment and never stop the code's own steps.
Deadlock is checked in all runs but those of Persistence, Downloads and Feeds,
where everything stops once the requests and events are used up.

### Fairness

- `TransferLive`: the goroutine of a session runs (weak fairness).  A peer
  connects, sends its bitfield, and answers each request in the end, also across
  a choke (strong fairness: a choke may disable the answer for a while).  The
  property assumes that every peer stops choking at some time.
- `Automation`: the stats loop runs for ever and a request that began goes on
  (weak fairness of the tick and of each call).  The sessions do (weak fairness of
  `SessionStep`) while a torrent downloads, metadata is missing, or an installation
  is half done: each of these can happen only as often as there are torrents, so
  fairness to all of them together is fairness to each.
- `Metadata`: sessions run (weak fairness), and ask again from time to time (strong
  fairness of `TopPoll`, as 20 seconds pass now and then at the top of the loop); an
  honest peer that is connected tells its size and answers each request in the end
  (strong fairness, because the session may be busy with another message; answers
  are not lost, as they come over one connection).  Nothing is assumed of the other
  peer, and nothing bounds its wrong chunks: that they spoil only finitely many
  assemblies is a premise of the property.
- `Downloads`: each goroutine of a task runs (weak fairness of `Progress`).  Nothing
  is assumed of servers: `TaskEnds` excepts tasks that wait for one for ever.
- `Dht`: each goroutine that asks or searches runs (weak fairness); no datagram need
  arrive.

## 4. What is proved

TLAPS checks the following for all values of the constants that satisfy the
assumptions the modules name (`StoreAssumption`, `PickerAssumption`,
`SessionAssumption`, `TransferAssumption`, `EngineAssumption`, `RecordsAssumption`,
`TrashAssumption`, `PersistenceAssumption`, `SettingsAssumption`,
`DayStatsAssumption`, `StatsLoopAssumption`, `MetadataAssumption`,
`ConnectionsAssumption`, `DhtAssumption`, `StreamsAssumption`, `CrawlAssumption`,
`DownloadsAssumption`, `FeedsAssumption`).  These say that the bounds are natural
numbers, sessions and tasks are finitely many, special values are no members of the
sets they are added to, settings, options and answers have their fields, goroutines
that dial are not connections that come in, and whoever clears the history is no task.
Every safety invariant, every action property and both refinements that the passing
runs check are proved.

| Module | Theorems | Inductive invariant |
|---|---|---|
| Transfer_proofs | TypeCorrect, NoReservationLeaks, ExclusiveDownloads, OnlyVerifiedPieces, VerifiedPiecesStay, TransferImplementsBoard, SmallPiecesVerifiedWhole, RarityCountsExact, CompletionNotMissed | `TypeInv`: types, and a session that finishes a piece has one. `OwnerInv`: a connected session is registered, and its piece is reserved to it unless stolen. `DataInv`: a session's piece is not present, and the verdict of a check stands, unless stolen, or overrun by a message about another piece. `RequestInv`: each block of the piece is outstanding or on disk, but on connections with an empty message. Rarity: the counter is the cardinality of the set of announcers. The refinement of `PieceBoard` shows a piece as finished when it is present, as held by its owner before that, and as lost when it is stolen: each lock region of a session is one step of the board or none. |
| Automation_proofs | AutomationTypeCorrect, QueueKeepsLimit, AutoPausedNotStranded, GuardPausesLowRoots | `LimitInv`: what runs is what the queue has seen or will see in this tick; those within the limit, magnets started since the tick began aside, number no more than the limit, because they have different ranks below it (pigeonhole); and the queue takes a slot for each of them before it starts another. `FlagInv`: an object not yet inserted is known to its request only (`FreshInv`), and the tick pauses only what it has marked (`MarkInv`). `GuardInv`: what a tick that nobody met has seen so far (`AloneInv`). |
| Persistence_proofs | PersistenceTypeCorrect, TableMatchesRecords, AnsweredRequestsSurvive, TrashKeepsTrack | `SafeInv`: nothing is promised while a request is under way (`PromiseInv`), memory keeps all promises (`MemoryInv`), a save that is alone writes what is in memory (`SoloInv`), and the file is memory but for that save (`FileInv`). `MatchInv`: a torrent is on record exactly if it runs or the restore or an import will still add it, but for what the one request on it has yet to do (`Matched`); the array that the restore walks is that of the records, and what lies behind their end is spoilt (`ArrayInv`). `TrashInv`: who holds `trashMu` has read the list. |
| StatsLoop_proofs | StatsLoopTypeCorrect, TransfersHeldAsScheduled, LimitsKept, AnsweredSettingsSurvive, BlocksCounted, ChartKept, SavedDaysKept | `IndInv`: what a tick has established at each of its steps (`HeldInv`), what an update that met nothing may rely on (`MeetInv`), which limit is already due (`LimitInv`), the file against the request under way (`FileInv`), and what is saved and unsaved of a date is what memory counts of it, nothing being closed of a date that is not over (`CountInv`). |
| Metadata_proofs | MetadataTypeCorrect, AssemblyExaminedAlone, StateMatchesDisk, ExchangeImplementsRegister | `AssemblyInv`: who examines the metadata outside the lock holds an assembly of all its chunks, nobody else does, and none is installed yet (`HoldInv`). `SettleInv`: after the installation the state can only err while the session that installed has not looked at the disk. The refinement maps the initial states to initial states of the register and each step to a step or a stutter. |
| Discovery_proofs | ConnectionsTypeCorrect, KeysAreHeldByDials, DialsStayBounded; DhtTypeCorrect, TableListsTheWaiting, TokensComeFromTheirNode | `DialInv`: a goroutine has a peer exactly while it runs, and an announce has at most `MaxConnections` places in hand. That goroutines have different peers is what lets one of them give its key back. `PlacesInv`: the dials and the places in hand together stay within the bound; the places are counted as pairs of an announce and a number, so that no sum over a set is needed. `ClientInv`: who is listed waits under that number without an answer, reused or not (`ListedInv`); while no number is reused, who waits without an answer is listed under a number of its own, and what comes under it comes from the node it asked (`OwnInv`). |
| Downloads_proofs | DownloadsTypeCorrect, FilesStayLimited, DoneMeansComplete, HistoryKeepsPromises | `TaskInv`: options, streams and walk agree with where `run` is (`Placed`, `Slotted`, `Drained`); the files counted and those that requests under way can still count stay within the bound (`Limited`, which counts the latter as pairs); while nothing has ended the task, files and loops are those asked for but for what the streams hold (`Fulfilled`); a task that says done without a reason was never ended (`Honest`). `HistoryInv`: as for the records, with the removal of the file as one more save (`MemoryInv`, `SoloInv`, `FileInv`), and lists hold only runs that have ended (`ListInv`). |
| Feeds_proofs | FeedsTypeCorrect, EntriesHandedOnce, SeenStayOwn | `FeedsInv`: two polls share no feed but those in `met` and `mixed` (`Alone`); marks are in the order in which entries can have been seen together (`Marked`); so a full list of different marks has no room for one that a document can still show below its oldest (pigeonhole), and the mark that is forgotten is out of reach. What was handed over and is in reach is marked (`Once`), and each poll knows of it (`Knows`). |

Each argument is the usual one: the initial states satisfy the invariant, every
action preserves it (one lemma or step per action, and per conjunct that the
action can disturb), and it implies the property.  The invariants are needed
because the properties are not inductive: that two sessions do not share a piece,
for example, depends on the table of reservations agreeing with what each session
believes, between any two of its lock regions.

### What is only model-checked

Liveness under fairness (`EventuallySeeding`, `AutoPausedRestarts`,
`MetadataArrives`, `TaskEnds`, `LookupsEnd`) is out of the prover's reach, and so is
that the runs without `CHECK_DEADLOCK FALSE` have no deadlock: both speak of enabled
actions.

## 5. The plan

Done: 1 Transfer; 2 Engine and Automation; 3 SavedFile, Records, Trash,
Persistence; 4 Settings, DayStats, StatsLoop; their theorems; 5 Metadata with its
abstract register, Connections; 6 Streams, Crawl, Downloads; 7 Feeds, the import of
a backup; 8 Dht; the theorems of Metadata, Connections and Dht; 9 the theorems of
Downloads and Feeds; 10 QueueLimitAfterTick, RecordsMatchTable, DialsBounded.

Next, in this order:

11. **Refinement** of an atomic register by SavedFile, for saves that do not meet
    (that of the piece board by Transfer is done).
12. **Algorithms** as operators against reference definitions: the skip mask, the
    files that a range of a piece reaches, the token bucket.

### Not modelled

The codecs, metainfo, categories and countries are pure functions over data that
no property here tells apart.  HTTP handlers, streaming, the exchanges with
trackers and notifications are I/O around operations that are modelled.  The list
of trackers with its statistics only shows what announces did.  The rate limiter
works on real time.  The hub shows pages what they can ask for again.  Moving a
torrent copies files between steps that no other operation waits for.  The web
page is not part of the process.
