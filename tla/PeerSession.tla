---------------------------- MODULE PeerSession ----------------------------
(***************************************************************************)
(* The message loop of a peer session (torrente/peer.go) for a torrent     *)
(* that has its metadata.  A session is one goroutine: it blocks in        *)
(* ReadMessage (pc = "idle"), handles one message and comes back.  A       *)
(* handler that takes picker.mu, Storage.mu or Torrent.mu more than once   *)
(* is one action for each of these critical sections, and pc says which    *)
(* comes next; what the goroutine does between them is its own business.   *)
(*                                                                         *)
(*   none -> idle -> pump -> idle            requests                      *)
(*           idle -> verify -> mark -> done -> check -> pump               *)
(*                             mark -> fail -> pump                        *)
(*           idle -> torn -> none            the connection ends           *)
(***************************************************************************)
EXTENDS Picker

CONSTANTS RequestWindow,  \* requests in flight per session (requestWindow, 16 in the code)
          MaxFaults,      \* bound: Cancel messages and failed sends over one connection
          Lengths         \* bound: the lengths of a payload in blocks (0 .. 128 in the
                          \* code: ReadMessage takes messages of up to 2 MiB)

ASSUME SessionAssumption ==
  RequestWindow \in Nat \ {0} /\ MaxFaults \in Nat /\ Lengths \subseteq Nat

VARIABLES pc,             \* where the session's goroutine is
          amChoked,       \* the peer chokes us
          peerBits,       \* the session's copy of the peer's bitfield
          currentPiece,   \* the piece being downloaded, NoPiece for none
          outstanding,    \* blocks of currentPiece requested and not received
          pendingBlocks,  \* the counter kept beside outstanding
          verdict,        \* result of the hash check, before SetPresent
          faults,         \* Cancel messages and failed sends so far (MaxFaults bounds it)
          empties,        \* history: connections over which a piece message had no data
          stolen          \* history: pieces whose reservation was released by
                          \* the teardown of a session that did not own it

loopVars    == <<amChoked, peerBits, faults, empties>>
pieceVars   == <<currentPiece, outstanding, pendingBlocks>>
sessionVars == <<pc, amChoked, peerBits, currentPiece, outstanding, pendingBlocks,
                 verdict, faults, empties, stolen>>

NoPiece == -1
Steps   == {"none", "idle", "pump", "verify", "mark", "done", "check", "fail", "torn"}

SessionTypeOK ==
  /\ pc \in [Sessions -> Steps]
  /\ amChoked \in [Sessions -> BOOLEAN]
  /\ peerBits \in [Sessions -> SUBSET Pieces]
  /\ currentPiece \in [Sessions -> Pieces \union {NoPiece}]
  /\ outstanding \in [Sessions -> SUBSET Blocks]
  /\ pendingBlocks \in [Sessions -> Int]
  /\ verdict \in [Sessions -> BOOLEAN]
  /\ faults \in [Sessions -> 0 .. MaxFaults]
  /\ empties \in SUBSET Sessions
  /\ stolen \in SUBSET Pieces

SessionInit ==
  /\ pc = [s \in Sessions |-> "none"]
  /\ amChoked = [s \in Sessions |-> TRUE]
  /\ peerBits = [s \in Sessions |-> {}]
  /\ currentPiece = [s \in Sessions |-> NoPiece]
  /\ outstanding = [s \in Sessions |-> {}]
  /\ pendingBlocks = [s \in Sessions |-> 0]
  /\ verdict = [s \in Sessions |-> FALSE]
  /\ faults = [s \in Sessions |-> 0]
  /\ empties = {}
  /\ stolen = {}

Goto(s, step) == pc' = [pc EXCEPT ![s] = step]

(* abortPiece and newPeerSession: no current piece, nothing requested. *)
ForgetPiece(s) ==
  /\ currentPiece' = [currentPiece EXCEPT ![s] = NoPiece]
  /\ outstanding' = [outstanding EXCEPT ![s] = {}]
  /\ pendingBlocks' = [pendingBlocks EXCEPT ![s] = 0]

-----------------------------------------------------------------------------
(* registerSession, then run up to its loop with doInitialSync.  The three  *)
(* lock regions touch nothing of another session.                           *)
Connect(s) ==
  /\ pc[s] = "none"
  /\ AddPeer(s)
  /\ Goto(s, "idle")
  /\ UNCHANGED <<storeVars, loopVars, pieceVars, verdict, stolen>>

RecvChoke(s) ==
  /\ pc[s] = "idle"
  /\ amChoked' = [amChoked EXCEPT ![s] = TRUE]
  /\ UNCHANGED <<storeVars, pickerVars, pc, peerBits, pieceVars, verdict, faults, empties, stolen>>

RecvUnchoke(s) ==
  /\ pc[s] = "idle"
  /\ amChoked' = [amChoked EXCEPT ![s] = FALSE]
  /\ Goto(s, "pump")
  /\ UNCHANGED <<storeVars, pickerVars, peerBits, pieceVars, verdict, faults, empties, stolen>>

PumpIfFree(s) == Goto(s, IF currentPiece[s] = NoPiece THEN "pump" ELSE "idle")

RecvHave(s, i) ==
  /\ pc[s] = "idle"
  /\ peerBits' = [peerBits EXCEPT ![s] = @ \union {i}]
  /\ PeerHas(s, {i})
  /\ PumpIfFree(s)
  /\ UNCHANGED <<storeVars, amChoked, pieceVars, verdict, faults, empties, stolen>>

(* setFrom replaces the session's copy, the picker only adds. *)
RecvBitfield(s, S) ==
  /\ pc[s] = "idle"
  /\ peerBits' = [peerBits EXCEPT ![s] = S]
  /\ PeerHas(s, S)
  /\ PumpIfFree(s)
  /\ UNCHANGED <<storeVars, amChoked, pieceVars, verdict, faults, empties, stolen>>

(* The peer withdraws a request it made to us; the handler applies it to    *)
(* the blocks we asked of the peer.                                         *)
RecvCancel(s, b) ==
  /\ pc[s] = "idle"
  /\ faults[s] < MaxFaults
  /\ faults' = [faults EXCEPT ![s] = @ + 1]
  /\ outstanding' = [outstanding EXCEPT ![s] = @ \ {b}]
  /\ pendingBlocks' = [pendingBlocks EXCEPT ![s] = @ - 1]
  /\ UNCHANGED <<storeVars, pickerVars, pc, amChoked, peerBits, currentPiece, verdict,
                 empties, stolen>>

-----------------------------------------------------------------------------
(* Variant with the bug: the window is filled one request short. *)
NextRequestsShort(out, pending) ==
  {b \in Blocks \ out : Cardinality({c \in Blocks \ out : c < b}) < RequestWindow - pending - 1}

(* The blocks the request loop sends for a piece: the first ones that are   *)
(* not outstanding, until pending reaches the window.                       *)
NextRequests(out, pending) ==
  {b \in Blocks \ out : Cardinality({c \in Blocks \ out : c < b}) < RequestWindow - pending}

SentRequests(s, R) ==
  /\ outstanding' = [outstanding EXCEPT ![s] = @ \union R]
  /\ pendingBlocks' = [pendingBlocks EXCEPT ![s] = @ + Cardinality(R)]

(* The requests of the loop: all of them, or those before the one whose     *)
(* send fails, which leaves the piece to this session.                      *)
RequestBlocks(s, i) ==
  LET R == NextRequests(outstanding[s], pendingBlocks[s])
  IN  /\ currentPiece' = [currentPiece EXCEPT ![s] = i]
      /\ \/ SentRequests(s, R) /\ UNCHANGED faults
         \/ \E b \in R : /\ faults[s] < MaxFaults
                         /\ faults' = [faults EXCEPT ![s] = @ + 1]
                         /\ SentRequests(s, {c \in R : c < b})

MayRequest(s, blocked) ==
  ~amChoked[s] /\ ~blocked /\ pendingBlocks[s] < RequestWindow

(* pumpRequests; blocked is Engine.DownloadBlocked().  acquire is its only  *)
(* access to shared state.                                                  *)
Pump(s, blocked) ==
  /\ pc[s] = "pump"
  /\ Goto(s, "idle")
  /\ \/ /\ ~MayRequest(s, blocked)
        /\ UNCHANGED <<pickerVars, pieceVars, faults>>
     \/ /\ MayRequest(s, blocked)
        /\ currentPiece[s] # NoPiece
        /\ RequestBlocks(s, currentPiece[s])
        /\ UNCHANGED pickerVars
     \/ /\ MayRequest(s, blocked)
        /\ currentPiece[s] = NoPiece
        /\ \E i \in Acquirable(peerBits[s]) : Acquire(s, i) /\ RequestBlocks(s, i)
     \/ /\ MayRequest(s, blocked)
        /\ currentPiece[s] = NoPiece
        /\ Acquirable(peerBits[s]) = {}
        /\ AcquireNothing
        /\ UNCHANGED <<pieceVars, faults>>
  /\ UNCHANGED <<storeVars, amChoked, peerBits, verdict, empties, stolen>>

-----------------------------------------------------------------------------
(* What a piece message may carry: nothing checks that it is one block. *)
Payloads == UNION {[1 .. n -> {"bad", "good"}] : n \in Lengths}

(* The pieces whose hash check is behind them, marked or about to be. *)
Checked == present \union {currentPiece[s] : s \in {u \in Sessions : pc[u] = "mark" /\ verdict[u]}}

(* handlePiece for a block of the current piece that is outstanding; any    *)
(* other block is ignored.  The block counts as received whatever came with *)
(* it, and all of it is written.  The write succeeds.                       *)
RecvBlock(s, b, data) ==
  /\ pc[s] = "idle"
  /\ currentPiece[s] # NoPiece
  /\ b \in outstanding[s]
  /\ outstanding' = [outstanding EXCEPT ![s] = @ \ {b}]
  /\ pendingBlocks' = [pendingBlocks EXCEPT ![s] = @ - 1]
  /\ FitsFiles(currentPiece[s], b, data)
  /\ WriteBlock(currentPiece[s], b, data, Checked)
  /\ empties' = IF DOMAIN data = {} THEN empties \union {s} ELSE empties
  /\ Goto(s, IF outstanding[s] = {b} /\ pendingBlocks[s] = 1 THEN "verify" ELSE "idle")
  /\ UNCHANGED <<pickerVars, amChoked, peerBits, faults, currentPiece, verdict, stolen>>

(* The write fails, data being what it got to disk, or runs over the end of *)
(* the last file: abortPiece, and no pumpRequests.                          *)
BlockWriteFails(s, b, data) ==
  /\ pc[s] = "idle"
  /\ currentPiece[s] # NoPiece
  /\ b \in outstanding[s]
  /\ WriteBlock(currentPiece[s], b, data, Checked)
  /\ Release(currentPiece[s])
  /\ ForgetPiece(s)
  /\ UNCHANGED <<peers, coveredBy, peerHaveCount, skip, priority,
                 pc, loopVars, verdict, stolen>>

(* VerifyPiece, first half: the piece is read under the lock, hashed outside. *)
VerifyPiece(s) ==
  /\ pc[s] = "verify"
  /\ verdict' = [verdict EXCEPT ![s] = HashOK(currentPiece[s])]
  /\ Goto(s, "mark")
  /\ UNCHANGED <<storeVars, pickerVars, loopVars, pieceVars, stolen>>

(* VerifyPiece, second half. *)
MarkPiece(s) ==
  /\ pc[s] = "mark"
  /\ SetPresent(currentPiece[s], verdict[s])
  /\ verdict' = [verdict EXCEPT ![s] = FALSE]
  /\ Goto(s, IF verdict[s] THEN "done" ELSE "fail")
  /\ UNCHANGED <<pickerVars, loopVars, pieceVars, stolen>>

(* A verified piece: release it and tell the peer. *)
FinishPiece(s) ==
  /\ pc[s] = "done"
  /\ Release(currentPiece[s])
  /\ currentPiece' = [currentPiece EXCEPT ![s] = NoPiece]
  /\ Goto(s, "check")
  /\ UNCHANGED <<storeVars, peers, coveredBy, peerHaveCount, skip, priority,
                 loopVars, outstanding, pendingBlocks, verdict, stolen>>

(* Variant with the bug: no pumpRequests after a hash mismatch. *)
AbortPieceUnpumped(s) ==
  /\ pc[s] = "fail"
  /\ Release(currentPiece[s])
  /\ ForgetPiece(s)
  /\ Goto(s, "idle")
  /\ UNCHANGED <<storeVars, peers, coveredBy, peerHaveCount, skip, priority,
                 loopVars, verdict, stolen>>

(* Hash mismatch: abortPiece, then pumpRequests. *)
AbortPiece(s) ==
  /\ pc[s] = "fail"
  /\ Release(currentPiece[s])
  /\ ForgetPiece(s)
  /\ Goto(s, "pump")
  /\ UNCHANGED <<storeVars, peers, coveredBy, peerHaveCount, skip, priority,
                 loopVars, verdict, stolen>>

-----------------------------------------------------------------------------
(* ReadMessage fails; unregisterSession up to and with picker.delPeer. *)
DropPeer(s) ==
  /\ pc[s] = "idle"
  /\ DelPeer(s)
  /\ Goto(s, "torn")
  /\ UNCHANGED <<storeVars, loopVars, pieceVars, verdict, stolen>>

(* The rest of unregisterSession: release(currentPiece), whoever owns it by *)
(* now.  The session object is discarded, its fields return to their        *)
(* initial values for the next connection.                                  *)
ReleaseTorn(s) ==
  /\ pc[s] = "torn"
  /\ IF currentPiece[s] = NoPiece
     THEN UNCHANGED <<reserved, stolen>>
     ELSE /\ Release(currentPiece[s])
          /\ stolen' = IF reserved[currentPiece[s]] \in {s, NoSession} THEN stolen
                       ELSE stolen \union {currentPiece[s]}
  /\ ForgetPiece(s)
  /\ amChoked' = [amChoked EXCEPT ![s] = TRUE]
  /\ peerBits' = [peerBits EXCEPT ![s] = {}]
  /\ faults' = [faults EXCEPT ![s] = 0]
  /\ empties' = empties \ {s}
  /\ Goto(s, "none")
  /\ UNCHANGED <<storeVars, peers, coveredBy, peerHaveCount, skip, priority, verdict>>
=============================================================================
