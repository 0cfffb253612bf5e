------------------------------ MODULE Transfer ------------------------------
(***************************************************************************)
(* One torrent being downloaded: its peer sessions, the picker, the pieces *)
(* on disk, and the user operations and engine checks that meet them:      *)
(* SetSkippedFiles, Pause, Resume, the streaming window and the flag that  *)
(* blocks downloads (night pause).                                         *)
(***************************************************************************)
EXTENDS PeerSession

CONSTANTS Callers,      \* concurrent SetSkippedFiles calls
          Windows,      \* bound: the arguments SetPriority is called with
          Bitfields,    \* bound: the bitfields that peers send
          UserOps       \* bound: which of pause, resume, block happen

ASSUME TransferAssumption ==
  /\ Windows \subseteq (-1 .. NPieces) \X (-1 .. NPieces)
  /\ Bitfields \subseteq SUBSET Pieces
  /\ UserOps \subseteq {"pause", "resume", "block"}

VARIABLES state,        \* Torrent.State
          downBlocked,  \* Engine.DownloadBlocked()
          selection,    \* the pieces no selected file needs (skippedFiles)
          callPc,       \* where each SetSkippedFiles call is
          callMask      \* the mask the call computed

userVars == <<state, downBlocked, selection, callPc, callMask>>
vars     == <<storeVars, pickerVars, sessionVars, userVars>>

States    == {"downloading", "seeding", "paused"}
CallSteps == {"idle", "install", "check", "seed"}

TypeOK ==
  /\ StoreTypeOK
  /\ PickerTypeOK
  /\ SessionTypeOK
  /\ state \in States
  /\ downBlocked \in BOOLEAN
  /\ selection \in SUBSET Pieces
  /\ callPc \in [Callers -> CallSteps]
  /\ callMask \in [Callers -> SUBSET Pieces]

(* AddTorrent: storage.New has scanned the files. *)
Init ==
  /\ StoreInit
  /\ PickerInit
  /\ SessionInit
  /\ state = IF WantedComplete THEN "seeding" ELSE "downloading"
  /\ downBlocked = FALSE
  /\ selection = {}
  /\ callPc = [c \in Callers |-> "idle"]
  /\ callMask = [c \in Callers |-> {}]

-----------------------------------------------------------------------------
(* The end of handlePiece, under Torrent.mu: the torrent turns to seeding   *)
(* with its completion notice.                                              *)
CheckComplete(s) ==
  /\ pc[s] = "check"
  /\ state' = IF WantedComplete /\ state = "downloading" THEN "seeding" ELSE state
  /\ Goto(s, "pump")
  /\ UNCHANGED <<storeVars, pickerVars, loopVars, pieceVars, verdict, stolen,
                 downBlocked, selection, callPc, callMask>>

(* SetSkippedFiles, one critical section after the other: the mask is       *)
(* built under Torrent.mu, installed under picker.mu, the state is checked  *)
(* under Torrent.mu, and set in setState under Torrent.mu again.            *)
BuildMask(c, M) ==
  /\ callPc[c] = "idle"
  /\ selection' = M
  /\ callMask' = [callMask EXCEPT ![c] = M]
  /\ callPc' = [callPc EXCEPT ![c] = "install"]
  /\ UNCHANGED <<storeVars, pickerVars, sessionVars, state, downBlocked>>

InstallMask(c) ==
  /\ callPc[c] = "install"
  /\ SetSkip(callMask[c])
  /\ callPc' = [callPc EXCEPT ![c] = "check"]
  /\ callMask' = [callMask EXCEPT ![c] = {}]
  /\ UNCHANGED <<storeVars, sessionVars, state, downBlocked, selection>>

(* Variant with the bug: the call does not look at the state again. *)
CheckSelectionForgotten(c) ==
  /\ callPc[c] = "check"
  /\ callPc' = [callPc EXCEPT ![c] = "idle"]
  /\ UNCHANGED <<storeVars, pickerVars, sessionVars, state, downBlocked, selection, callMask>>

CheckSelection(c) ==
  /\ callPc[c] = "check"
  /\ callPc' = [callPc EXCEPT ![c] =
                  IF state = "downloading" /\ WantedComplete THEN "seed" ELSE "idle"]
  /\ UNCHANGED <<storeVars, pickerVars, sessionVars, state, downBlocked, selection, callMask>>

SeedSelection(c) ==
  /\ callPc[c] = "seed"
  /\ state' = "seeding"
  /\ callPc' = [callPc EXCEPT ![c] = "idle"]
  /\ UNCHANGED <<storeVars, pickerVars, sessionVars, downBlocked, selection, callMask>>

Pause ==
  /\ "pause" \in UserOps
  /\ state' = "paused"
  /\ UNCHANGED <<storeVars, pickerVars, sessionVars, downBlocked, selection, callPc, callMask>>

Resume ==
  /\ "resume" \in UserOps
  /\ state' = IF WantedComplete THEN "seeding" ELSE "downloading"
  /\ UNCHANGED <<storeVars, pickerVars, sessionVars, downBlocked, selection, callPc, callMask>>

(* applySchedule at an edge of the night window. *)
ToggleDownloadBlocked ==
  /\ "block" \in UserOps
  /\ downBlocked' = ~downBlocked
  /\ UNCHANGED <<storeVars, pickerVars, sessionVars, state, selection, callPc, callMask>>

SetPriorityPieces(lo, hi) ==
  /\ SetPriority(lo, hi)
  /\ UNCHANGED <<storeVars, sessionVars, userVars>>

-----------------------------------------------------------------------------
SessionStep(s) ==
  \/ Pump(s, downBlocked) /\ UNCHANGED userVars
  \/ VerifyPiece(s) /\ UNCHANGED userVars
  \/ MarkPiece(s) /\ UNCHANGED userVars
  \/ FinishPiece(s) /\ UNCHANGED userVars
  \/ AbortPiece(s) /\ UNCHANGED userVars
  \/ ReleaseTorn(s) /\ UNCHANGED userVars
  \/ CheckComplete(s)

PeerStep(s) ==
  \/ Connect(s) /\ UNCHANGED userVars
  \/ RecvChoke(s) /\ UNCHANGED userVars
  \/ RecvUnchoke(s) /\ UNCHANGED userVars
  \/ \E i \in Pieces : RecvHave(s, i) /\ UNCHANGED userVars
  \/ \E S \in Bitfields : RecvBitfield(s, S) /\ UNCHANGED userVars
  \/ \E b \in Blocks : RecvCancel(s, b) /\ UNCHANGED userVars
  \/ \E b \in Blocks, data \in Payloads : RecvBlock(s, b, data) /\ UNCHANGED userVars
  \/ \E b \in Blocks, data \in Payloads \union {<< >>} : BlockWriteFails(s, b, data) /\ UNCHANGED userVars
  \/ DropPeer(s) /\ UNCHANGED userVars

SelectStep(c) ==
  \/ \E M \in SUBSET Pieces : BuildMask(c, M)
  \/ InstallMask(c)
  \/ CheckSelection(c)
  \/ SeedSelection(c)

UserStep ==
  \/ Pause
  \/ Resume
  \/ ToggleDownloadBlocked
  \/ \E w \in Windows : SetPriorityPieces(w[1], w[2])

Next ==
  \/ \E s \in Sessions : SessionStep(s) \/ PeerStep(s)
  \/ \E c \in Callers : SelectStep(c)
  \/ UserStep

Spec == Init /\ [][Next]_vars

-----------------------------------------------------------------------------
Live(s) == pc[s] \notin {"none", "torn"}

(* A piece is reserved to a session only while that session is connected    *)
(* and downloads that piece: when a session ends, no step order leaves a    *)
(* reservation behind that would keep every other session off the piece.    *)
NoLeakedReservation ==
  \A i \in Pieces : reserved[i] # NoSession =>
     Live(reserved[i]) /\ currentPiece[reserved[i]] = i

(* The rarity counters are what the connected peers announced, whatever     *)
(* order have, bitfield and disconnect come in, duplicates included.        *)
HaveCountExact ==
  \A i \in Pieces : peerHaveCount[i] = Cardinality({s \in Sessions : i \in coveredBy[s]})

(* Exclusive download is lost in one way only: a session that ends releases *)
(* its piece after it went to another session.                              *)
ExclusiveUnlessStolen ==
  \A s, u \in Sessions :
     Live(s) /\ Live(u) /\ currentPiece[s] = currentPiece[u] /\ currentPiece[s] # NoPiece
       => s = u \/ currentPiece[s] \in stolen

(* storage.go: PiecePresent reports whether a piece is present and verified. *)
(* A piece once marked is what the hash check saw: no session writes to it   *)
(* afterwards, unless its reservation was stolen or a message about an       *)
(* earlier piece was too long (handlePiece writes whatever length came).     *)
PresentIsVerified ==
  \A i \in present : HashOK(i) \/ i \in stolen \union overrun

(* A verified piece, which peers were told about, is not taken back. *)
PresentStays ==
  [][\A i \in present : i \in present' \/ i \in stolen]_vars

(* handlePiece: all blocks of this piece received, verify. *)
VerifiesWholePiece ==
  \A s \in Sessions : pc[s] = "verify" =>
     \A b \in Blocks : disk[currentPiece[s]][b] # "none"

(* The same for pieces of at most RequestWindow blocks and a connection      *)
(* without a Cancel message, a failed send or a piece message without data,  *)
(* which counts as a block received: the two counters of requests agree.     *)
VerifiesWholeSmallPiece ==
  \A s \in Sessions \ empties :
     pc[s] = "verify" /\ faults[s] = 0 /\ NBlocks <= RequestWindow =>
        \A b \in Blocks : disk[currentPiece[s]][b] # "none"

(* A torrent with every wanted piece does not stay downloading: whichever   *)
(* session or SetSkippedFiles call completed it is about to check.          *)
NoMissedCompletion ==
  state = "downloading" /\ WantedComplete =>
     \/ \E s \in Sessions : pc[s] \in {"done", "check"}
     \/ \E c \in Callers : callPc[c] \in {"check", "seed"}

(* The sessions implement the board: a piece is claimed by one session, which *)
(* alone marks it present or gives it up (picker.go, handlePiece), whatever   *)
(* locks are given up in between, until a teardown releases the piece of      *)
(* another session (peer.go, unregisterSession).                             *)
Board == INSTANCE PieceBoard WITH
  Workers  <- Sessions, Nobody <- NoSession,
  holder   <- [i \in Pieces |-> IF i \in present \union stolen THEN NoSession
                                ELSE reserved[i]],
  finished <- present \ stolen,
  lost     <- stolen

ImplementsBoard == Board!Spec
=============================================================================
