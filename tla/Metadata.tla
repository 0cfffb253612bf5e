------------------------------ MODULE Metadata ------------------------------
(***************************************************************************)
(* A magnet collects its metadata from several peers (torrente/extend.go)  *)
(* and becomes a torrent with storage (upgradeMagnet, discovery.go).       *)
(*                                                                         *)
(* Each session is one goroutine.  A turn of its loop (peerSession.run)    *)
(* looks at the shared storage, may ask for chunks again, and handles one  *)
(* message; handlers that take Torrent.mu more than once are several steps:*)
(*                                                                         *)
(*   off -> top -> (poll ->) read (-> data) -> ask -> top                  *)
(*                           read -> upgrade -> install -> settle -> ask   *)
(*                                   upgrade -> reset -> ask               *)
(*                                                                         *)
(* Content is abstract: a chunk has a length and is right or not, and an   *)
(* assembly matches the info hash when its size and all its chunks are     *)
(* right.  Sizes are in bytes, with small chunks.                          *)
(*                                                                         *)
(* Left out: the chunks over a restart (they are not saved), peers told by *)
(* PEX (see Connections), the pieces downloaded later (see Transfer).      *)
(***************************************************************************)
EXTENDS Integers, FiniteSets

CONSTANTS Sessions,      \* connection slots, one peer each
          Honest,        \* those whose peers serve the metadata of the hash
          MetaId,        \* the id under which each peer takes ut_metadata
          ChunkSize,     \* metadataChunkSize, 16384 in the code
          MaxMetaSize,   \* maxMetaSize, 4 MiB in the code
          Window,        \* new requests of one call, 4 in the code
          TrueSize,      \* length of the metadata with the right hash
          Sizes,         \* lengths that peers claim
          LengthGiven    \* the magnet link tells the length of the data

ASSUME MetadataAssumption ==
  /\ Honest \subseteq Sessions
  /\ MetaId \in [Sessions -> Nat \ {0}]
  /\ ChunkSize \in Nat \ {0} /\ MaxMetaSize \in Nat /\ Window \in Nat \ {0}
  /\ TrueSize \in Sizes /\ Sizes \subseteq Nat \ {0}
  /\ LengthGiven \in BOOLEAN

VARIABLES metaSize,   \* Torrent.MetaSize, 0 until a peer claims one
          chunks,     \* Torrent.MetaChunks
          storage,    \* Torrent.storage: the metadata it was made from
          state,      \* Torrent.State
          listed,     \* the torrent is in Engine.torrents
          complete,   \* the data of the torrent is on the disk already
          at,         \* where each session's goroutine is
          knows,      \* the peer's id is known (peerMetaID)
          asked,      \* chunks requested and not answered (metaReqAt)
          synced,     \* the session did its initial sync
          assembly    \* the assembly in the session's hands

torrentVars == <<metaSize, chunks, storage>>
userVars    == <<state, listed, complete>>
loopVars    == <<knows, asked, synced, assembly>>
vars        == <<torrentVars, userVars, at, loopVars>>

utMetadataID == 2
None == "none"

NChunks(size) == (size + ChunkSize - 1) \div ChunkSize

ChunkLen(size, i) == IF size - i * ChunkSize < ChunkSize THEN size - i * ChunkSize
                     ELSE ChunkSize

Indexes == UNION {0 .. NChunks(size) - 1 : size \in Sizes}
Chunk   == [len : 1 .. ChunkSize, right : BOOLEAN]
Steps   == {"off", "top", "poll", "read", "data", "ask", "upgrade", "install", "settle",
            "reset"}

TypeOK ==
  /\ metaSize \in Sizes \union {0}
  /\ DOMAIN chunks \subseteq Indexes /\ \A i \in DOMAIN chunks : chunks[i] \in Chunk
  /\ storage \in {None, "right", "wrong"}
  /\ state \in {"downloading", "seeding", "paused", "stopped"}
  /\ listed \in BOOLEAN /\ complete \in BOOLEAN
  /\ at \in [Sessions -> Steps]
  /\ knows \in [Sessions -> BOOLEAN]
  /\ asked \in [Sessions -> SUBSET Indexes]
  /\ synced \in [Sessions -> BOOLEAN]
  /\ assembly \in [Sessions -> {None, "right", "wrong"}]

NoChunks == [i \in {} |-> None]

Init ==
  /\ metaSize = 0 /\ chunks = NoChunks /\ storage = None
  /\ state = "downloading" /\ listed = TRUE /\ complete \in BOOLEAN
  /\ at = [s \in Sessions |-> "off"]
  /\ knows = [s \in Sessions |-> FALSE]
  /\ asked = [s \in Sessions |-> {}]
  /\ synced = [s \in Sessions |-> FALSE]
  /\ assembly = [s \in Sessions |-> None]

Goto(s, step) == at' = [at EXCEPT ![s] = step]

-----------------------------------------------------------------------------
\* A connection is registered: run starts, with its sync if there is storage.
Open(s) ==
  /\ at[s] = "off"
  /\ Goto(s, "top")
  /\ synced' = [synced EXCEPT ![s] = storage # None]
  /\ UNCHANGED <<torrentVars, userVars, knows, asked, assembly>>

\* The top of the loop: sync once storage has appeared, then read ...
TopRead(s) ==
  /\ at[s] = "top"
  /\ synced' = [synced EXCEPT ![s] = storage # None]
  /\ Goto(s, "read")
  /\ UNCHANGED <<torrentVars, userVars, knows, asked, assembly>>

\* ... or first ask again, when 20 seconds have passed since the last time.
TopPoll(s) ==
  /\ at[s] = "top" /\ storage = None /\ knows[s]
  /\ Goto(s, "poll")
  /\ UNCHANGED <<torrentVars, userVars, loopVars>>

\* requestMetaPieces: requests older than 15 seconds count as lost; the first
\* Window chunks that are neither here nor requested are requested.
Missing(expired, s) ==
  (0 .. NChunks(metaSize) - 1) \ (DOMAIN chunks \union (asked[s] \ expired))

RequestMeta(s) ==
  IF storage # None \/ ~knows[s] \/ metaSize = 0 \/ metaSize > MaxMetaSize
    THEN UNCHANGED asked
    ELSE \E expired \in SUBSET asked[s] :
           LET missing == Missing(expired, s)
               sent    == {i \in missing : Cardinality({j \in missing : j < i}) < Window}
           IN  asked' = [asked EXCEPT ![s] = (@ \ expired) \union sent]

Poll(s) ==
  /\ at[s] = "poll"
  /\ RequestMeta(s)
  /\ Goto(s, "read")
  /\ UNCHANGED <<torrentVars, userVars, knows, synced, assembly>>

\* The end of a handler: most of them ask for more.
Ask(s) ==
  /\ at[s] = "ask"
  /\ RequestMeta(s)
  /\ Goto(s, "top")
  /\ UNCHANGED <<torrentVars, userVars, knows, synced, assembly>>

-----------------------------------------------------------------------------
\* handlePeerExtHandshake: the first size that any peer claims stays.  Only an
\* honest peer surely tells the id under which it takes ut_metadata.
RecvHandshake(s, size) ==
  /\ at[s] = "read"
  /\ \E told \in BOOLEAN :
       (s \in Honest => told) /\ knows' = [knows EXCEPT ![s] = told]
  /\ metaSize' = IF metaSize = 0 THEN size ELSE metaSize
  /\ Goto(s, "ask")
  /\ UNCHANGED <<chunks, storage, userVars, asked, synced, assembly>>

\* A message is for ut_metadata if it has the id that the peer, not we, chose.
Understood(s) == knows[s] /\ MetaId[s] = utMetadataID

Fits(i, chunk) == i < NChunks(metaSize) /\ chunk.len = ChunkLen(metaSize, i)

\* metaAssembledUnlocked over the chunks cs: the assembly, or none yet.
Assembled(cs) ==
  IF DOMAIN cs # 0 .. NChunks(metaSize) - 1 THEN None
  ELSE IF metaSize = TrueSize /\ \A i \in DOMAIN cs : cs[i].right THEN "right" ELSE "wrong"

With(i, chunk) == [j \in DOMAIN chunks \union {i} |-> IF j = i THEN chunk ELSE chunks[j]]

\* recvMetaPiece: a chunk that is of no use is dropped, ...
DropData(s, i, chunk) ==
  /\ storage # None \/ metaSize = 0 \/ ~Fits(i, chunk) \/ i \in DOMAIN chunks
  /\ Goto(s, IF storage = None /\ metaSize # 0 /\ Fits(i, chunk) THEN "ask" ELSE "top")
  /\ UNCHANGED <<chunks, assembly>>

\* Variant with the bug: a chunk that is here already is stored again.
StoreAgain(s, i, chunk) ==
  /\ storage = None /\ metaSize # 0 /\ Fits(i, chunk)
  /\ chunks' = With(i, chunk)
  /\ assembly' = [assembly EXCEPT ![s] = Assembled(chunks')]
  /\ Goto(s, IF assembly'[s] = None THEN "ask" ELSE "upgrade")

\* ... another is stored, and the last one completes an assembly.
StoreData(s, i, chunk) ==
  /\ storage = None /\ metaSize # 0 /\ Fits(i, chunk) /\ i \notin DOMAIN chunks
  /\ chunks' = With(i, chunk)
  /\ assembly' = [assembly EXCEPT ![s] = Assembled(chunks')]
  /\ Goto(s, IF assembly'[s] = None THEN "ask" ELSE "upgrade")

RecvData(s, i, chunk) ==
  /\ at[s] \in {"read", "data"} /\ Understood(s)
  /\ asked' = [asked EXCEPT ![s] = @ \ {i}]
  /\ DropData(s, i, chunk) \/ StoreData(s, i, chunk)
  /\ UNCHANGED <<metaSize, storage, userVars, knows, synced>>

\* serveMetaPiece of an honest peer that we asked for chunk i; it is silent
\* about chunks beyond its end.
Served(s, i) ==
  /\ s \in Honest /\ i \in asked[s] /\ i * ChunkSize < TrueSize
  /\ RecvData(s, i, [len |-> ChunkLen(TrueSize, i), right |-> TRUE])

\* A data message can claim the size too, before its chunk is looked at.
RecvSize(s, size) ==
  /\ at[s] = "read" /\ Understood(s) /\ s \notin Honest
  /\ metaSize' = IF metaSize = 0 THEN size ELSE metaSize
  /\ Goto(s, "data")
  /\ UNCHANGED <<chunks, storage, userVars, loopVars>>

\* Another peer sends any chunk, asked for or not, as often as it likes.
Forged(s, i, chunk) ==
  /\ s \notin Honest
  /\ RecvData(s, i, chunk)

RecvReject(s, i) ==
  /\ at[s] = "read" /\ Understood(s) /\ s \notin Honest
  /\ asked' = [asked EXCEPT ![s] = @ \ {i}]
  /\ Goto(s, "ask")
  /\ UNCHANGED <<torrentVars, userVars, knows, synced, assembly>>

\* Anything else: the loop goes round, also after data for no chunk at all.  A
\* bitfield and a Have that arrive before the sync are dropped, whether or not
\* there is storage by now.
RecvOther(s) ==
  /\ at[s] \in {"read", "data"}
  /\ Goto(s, "top")
  /\ UNCHANGED <<torrentVars, userVars, loopVars>>

-----------------------------------------------------------------------------
\* Variant with the bug: the hash is not compared.
UpgradeUnchecked(s) ==
  /\ at[s] = "upgrade"
  /\ Goto(s, "install")
  /\ UNCHANGED <<torrentVars, userVars, loopVars>>

\* upgradeMagnet: parse, compare the hash, create the storage, which can fail.
Upgrade(s) ==
  /\ at[s] = "upgrade"
  /\ assembly[s] # None
  /\ (assembly[s] = "right" /\ Goto(s, "install")) \/ Goto(s, "reset")
  /\ UNCHANGED <<torrentVars, userVars, loopVars>>

\* Variant with the bug: the state stays what it was.
InstallQuietly(s) ==
  /\ at[s] = "install"
  /\ storage' = IF storage = None THEN assembly[s] ELSE storage
  /\ Goto(s, IF storage = None THEN "settle" ELSE "ask")
  /\ assembly' = [assembly EXCEPT ![s] = None]
  /\ UNCHANGED <<metaSize, chunks, userVars, knows, asked, synced>>

\* Its first critical section: the storage of the first assembly stays.
Install(s) ==
  /\ at[s] = "install"
  /\ storage' = IF storage = None THEN assembly[s] ELSE storage
  /\ state' = IF storage = None THEN "downloading" ELSE state
  /\ Goto(s, IF storage = None THEN "settle" ELSE "ask")
  /\ assembly' = [assembly EXCEPT ![s] = None]
  /\ UNCHANGED <<metaSize, chunks, listed, complete, knows, asked, synced>>

\* Its second one: a torrent whose data is all there seeds, whatever the user
\* asked for in between.
Settle(s) ==
  /\ at[s] = "settle"
  /\ state' = IF complete THEN "seeding" ELSE state
  /\ Goto(s, "ask")
  /\ UNCHANGED <<torrentVars, listed, complete, loopVars>>

\* Variant with the bug: the chunks of the bad assembly stay.
ResetOwn(s) ==
  /\ at[s] = "reset"
  /\ asked' = [asked EXCEPT ![s] = {}]
  /\ assembly' = [assembly EXCEPT ![s] = None]
  /\ Goto(s, "ask")
  /\ UNCHANGED <<chunks, metaSize, storage, userVars, knows, synced>>

\* The assembly was bad: its chunks go.
Reset(s) ==
  /\ at[s] = "reset"
  /\ chunks' = NoChunks
  /\ asked' = [asked EXCEPT ![s] = {}]
  /\ assembly' = [assembly EXCEPT ![s] = None]
  /\ Goto(s, "ask")
  /\ UNCHANGED <<metaSize, storage, userVars, knows, synced>>

\* The connection ends, or no message came for 120 seconds.
Close(s) ==
  /\ at[s] = "read"
  /\ Goto(s, "off")
  /\ knows' = [knows EXCEPT ![s] = FALSE]
  /\ asked' = [asked EXCEPT ![s] = {}]
  /\ synced' = [synced EXCEPT ![s] = FALSE]
  /\ UNCHANGED <<torrentVars, userVars, assembly>>

-----------------------------------------------------------------------------
Pause ==
  /\ listed
  /\ state' = "paused"
  /\ UNCHANGED <<torrentVars, listed, complete, at, loopVars>>

\* Resume asks wantedComplete, which without storage goes by the length that
\* the magnet link gave.
Resume ==
  /\ listed
  /\ state' = IF (IF storage = None THEN ~LengthGiven ELSE complete) THEN "seeding"
              ELSE "downloading"
  /\ UNCHANGED <<torrentVars, listed, complete, at, loopVars>>

\* RemoveTorrent: the stop it offers to each session finds none that waits for
\* it, so the sessions go on with the torrent they have.
Remove ==
  /\ listed
  /\ listed' = FALSE /\ state' = "stopped"
  /\ UNCHANGED <<torrentVars, complete, at, loopVars>>

Claims(s) == IF s \in Honest THEN {TrueSize} ELSE Sizes \union {0}

SessionNext(s) ==
  \/ Open(s) \/ TopRead(s) \/ TopPoll(s) \/ Poll(s) \/ Ask(s)
  \/ \E size \in Claims(s) : RecvHandshake(s, size) \/ RecvSize(s, size)
  \/ \E i \in Indexes :
       \/ Served(s, i) \/ RecvReject(s, i)
       \/ \E chunk \in Chunk : Forged(s, i, chunk)
  \/ RecvOther(s)
  \/ Upgrade(s) \/ Install(s) \/ Settle(s) \/ Reset(s) \/ Close(s)

Next == (\E s \in Sessions : SessionNext(s)) \/ Pause \/ Resume \/ Remove

\* A goroutine runs on, time passes, and an honest peer says hello, answers and
\* keeps the connection alive.
SessionFairness(s) ==
  /\ WF_vars(TopRead(s)) /\ SF_vars(TopPoll(s)) /\ WF_vars(Poll(s)) /\ WF_vars(Ask(s))
  /\ WF_vars(Upgrade(s)) /\ WF_vars(Install(s)) /\ WF_vars(Settle(s)) /\ WF_vars(Reset(s))
  /\ WF_vars(RecvOther(s))

PeerFairness(s) ==
  /\ SF_vars(~knows[s] /\ RecvHandshake(s, TrueSize))
  /\ SF_vars(\E i \in Indexes : Served(s, i))

Spec == Init /\ [][Next]_vars

LiveSpec ==
  /\ Spec
  /\ \A s \in Sessions : SessionFairness(s)
  /\ \A s \in Honest : PeerFairness(s)

-----------------------------------------------------------------------------
\* What upgradeMagnet examines outside the lock is still what is stored, and
\* only one session examines: nobody adds to a full set of chunks, and only
\* that session clears it.
AssemblyIsChunks ==
  /\ \A i \in DOMAIN chunks : Fits(i, chunks[i])
  /\ \A s \in Sessions : assembly[s] # None => assembly[s] = Assembled(chunks)
  /\ \A s, r \in Sessions : assembly[s] # None /\ assembly[r] # None => s = r

\* Once the metadata is here the state tells what is on the disk, also for a
\* magnet that was resumed, and so marked as seeding, before.
StateTellsDisk ==
  storage # None /\ (\A s \in Sessions : at[s] # "settle") =>
    (state = "seeding" => complete) /\ (state = "downloading" => ~complete)

\* A chunk with wrong bytes is kept, or a right assembly finds no storage.
Setback ==
  \/ \E i \in DOMAIN chunks' \ DOMAIN chunks : ~chunks'[i].right
  \/ \E s \in Sessions : at[s] = "upgrade" /\ assembly[s] = "right" /\ at'[s] = "reset"

\* An honest peer that stays connected is enough, unless another one was the
\* first to claim a size and lied, or setbacks never end: one peer that sends
\* a wrong chunk after every reset spoils every assembly.  Setbacks that end
\* leave nothing behind that keeps the metadata from arriving, in whatever
\* state of the others they came.
\* README.md:42: magnets resolve to full metadata straight from peers.
\* extend.go:284: dropping a corrupt assembly lets others serve fresh chunks.
MetadataArrives ==
  \A s \in Honest :
    /\ <>[](at[s] # "off")
    /\ [](metaSize \in {0, TrueSize})
    /\ <>[][~Setback]_vars
    => <>(storage = "right")

\* The promise: sizes and metadata are written once, chunks are only dropped
\* all together and only when all were there.
Register == INSTANCE MetadataRegister WITH size <- metaSize, got <- DOMAIN chunks,
                                           value <- storage
ImplementsRegister == Register!Spec
=============================================================================
