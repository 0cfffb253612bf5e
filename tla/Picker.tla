------------------------------- MODULE Picker -------------------------------
(***************************************************************************)
(* The piece picker of one torrent (torrente/picker.go).  Every operation  *)
(* is one critical section of picker.mu.  The map coveredBy is a total     *)
(* function here; peers is its set of keys.                                *)
(***************************************************************************)
EXTENDS PieceStore, FiniteSets

CONSTANTS Sessions,     \* peer session objects
          NoSession,    \* the owner of a piece that is not reserved
          RarestFrom    \* torrents of at least this many pieces pick rarest first (30 in the code)

ASSUME PickerAssumption ==
  /\ IsFiniteSet(Sessions)
  /\ NoSession \notin Sessions
  /\ RarestFrom \in Nat

VARIABLES reserved,       \* piece -> the session that downloads it
          peers,          \* the sessions addPeer registered
          coveredBy,      \* session -> the pieces its peer announced
          peerHaveCount,  \* piece -> how many registered peers have it
          skip,           \* the pieces that are not wanted
          priority        \* <<lo, hi>>: the streaming window, lo = -1 when off

pickerVars == <<reserved, peers, coveredBy, peerHaveCount, skip, priority>>

PriorityOff == <<-1, -1>>
Window      == priority[1] .. priority[2]

PickerTypeOK ==
  /\ reserved \in [Pieces -> Sessions \union {NoSession}]
  /\ peers \in SUBSET Sessions
  /\ coveredBy \in [Sessions -> SUBSET Pieces]
  /\ peerHaveCount \in [Pieces -> Nat]
  /\ skip \in SUBSET Pieces
  /\ priority \in (-1 .. NPieces) \X (-1 .. NPieces)

PickerInit ==
  /\ reserved = [i \in Pieces |-> NoSession]
  /\ peers = {}
  /\ coveredBy = [s \in Sessions |-> {}]
  /\ peerHaveCount = [i \in Pieces |-> 0]
  /\ skip = {}
  /\ priority = PriorityOff

-----------------------------------------------------------------------------
AddPeer(s) ==
  /\ peers' = peers \union {s}
  /\ UNCHANGED <<reserved, coveredBy, peerHaveCount, skip, priority>>

(* Variant with the bug: a repeated announcement is counted again. *)
PeerHasCountsAgain(s, S) ==
  /\ peers' = peers \union {s}
  /\ coveredBy' = [coveredBy EXCEPT ![s] = @ \union S]
  /\ peerHaveCount' = [i \in Pieces |-> IF i \in S THEN peerHaveCount[i] + 1
                                                   ELSE peerHaveCount[i]]
  /\ UNCHANGED <<reserved, skip, priority>>

(* peerHave and peerBitfield: only pieces new to this session are counted. *)
PeerHas(s, S) ==
  /\ peers' = peers \union {s}
  /\ coveredBy' = [coveredBy EXCEPT ![s] = @ \union S]
  /\ peerHaveCount' = [i \in Pieces |->
                         IF i \in S \ coveredBy[s] THEN peerHaveCount[i] + 1
                                                   ELSE peerHaveCount[i]]
  /\ UNCHANGED <<reserved, skip, priority>>

Owned(s) == {i \in Pieces : reserved[i] = s}

(* reservedFor finds one reservation of s; delPeer deletes that one. *)
DropOwnReservation(s) ==
  \/ Owned(s) = {} /\ UNCHANGED reserved
  \/ \E i \in Owned(s) : reserved' = [reserved EXCEPT ![i] = NoSession]

(* Variant with the bug: a session that ends keeps its reservation. *)
DelPeerKeepsPiece(s) ==
  /\ peers' = peers \ {s}
  /\ coveredBy' = [coveredBy EXCEPT ![s] = {}]
  /\ peerHaveCount' = [i \in Pieces |->
                         IF i \in coveredBy[s] /\ peerHaveCount[i] > 0
                         THEN peerHaveCount[i] - 1 ELSE peerHaveCount[i]]
  /\ UNCHANGED <<reserved, skip, priority>>

(* Variant with the bug: every counter goes down, announced or not. *)
DelPeerUnclamped(s) ==
  /\ peers' = peers \ {s}
  /\ coveredBy' = [coveredBy EXCEPT ![s] = {}]
  /\ peerHaveCount' = [i \in Pieces |-> peerHaveCount[i] - 1]
  /\ IF s \in peers THEN DropOwnReservation(s) ELSE UNCHANGED reserved
  /\ UNCHANGED <<skip, priority>>

DelPeer(s) ==
  /\ peers' = peers \ {s}
  /\ coveredBy' = [coveredBy EXCEPT ![s] = {}]
  /\ peerHaveCount' = [i \in Pieces |->
                         IF i \in coveredBy[s] /\ peerHaveCount[i] > 0
                         THEN peerHaveCount[i] - 1 ELSE peerHaveCount[i]]
  /\ IF s \in peers THEN DropOwnReservation(s) ELSE UNCHANGED reserved
  /\ UNCHANGED <<skip, priority>>

(* release does not look at the owner. *)
Release(i) == reserved' = [reserved EXCEPT ![i] = NoSession]

-----------------------------------------------------------------------------
(* Variants with a bug: a reserved piece, or one already on disk, is handed out. *)
CandidatesReserved(has) == has \ (skip \union present)
CandidatesPresent(has)  == {i \in has \ skip : reserved[i] = NoSession}

(* What acquire may hand to a session whose peer claims the pieces has. *)
Candidates(has) ==
  {i \in has \ (skip \union present) : reserved[i] = NoSession}

Earliest(S) == {i \in S : \A j \in S : i <= j}
Rarest(S)   == {i \in S : \A j \in S : peerHaveCount[i] <= peerHaveCount[j]}

Acquirable(has) ==
  LET C == Candidates(has)
  IN  IF NPieces < RarestFrom THEN Earliest(C)
      ELSE IF priority[1] >= 0 /\ C \intersect Window # {}
           THEN Earliest(C \intersect Window)
           ELSE Rarest(C)

(* acquire scans the whole window unless it finds a piece there, and clears *)
(* it when nothing of it is missing.                                        *)
WindowDone ==
  NPieces >= RarestFrom /\ priority[1] >= 0 /\ Window \subseteq skip \union present

Acquire(s, i) ==
  /\ reserved' = [reserved EXCEPT ![i] = s]
  /\ priority' = IF WindowDone THEN PriorityOff ELSE priority
  /\ UNCHANGED <<peers, coveredBy, peerHaveCount, skip>>

AcquireNothing ==
  /\ priority' = IF WindowDone THEN PriorityOff ELSE priority
  /\ UNCHANGED <<reserved, peers, coveredBy, peerHaveCount, skip>>

-----------------------------------------------------------------------------
(* SetPriority(lo, hi) for a torrent that has its metadata. *)
ClampedWindow(lo, hi) ==
  IF hi < lo THEN PriorityOff
  ELSE <<IF lo < 0 THEN 0 ELSE lo, IF hi >= NPieces THEN NPieces - 1 ELSE hi>>

SetPriority(lo, hi) ==
  /\ priority' = ClampedWindow(lo, hi)
  /\ UNCHANGED <<reserved, peers, coveredBy, peerHaveCount, skip>>

SetSkip(mask) ==
  /\ skip' = mask
  /\ UNCHANGED <<reserved, peers, coveredBy, peerHaveCount, priority>>

(* Torrent.wantedComplete: every piece that is not skipped is on disk. *)
WantedComplete == Pieces \ skip \subseteq present
=============================================================================
