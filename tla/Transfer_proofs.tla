-------------------------- MODULE Transfer_proofs --------------------------
(***************************************************************************)
(* Proofs about Transfer, for any number of pieces, blocks, sessions and   *)
(* concurrent SetSkippedFiles calls.                                       *)
(***************************************************************************)
EXTENDS Transfer, FiniteSetTheorems, TLAPS

(* A session in the middle of finishing a piece has one. *)
BusyHasPiece ==
  \A s \in Sessions : pc[s] \in {"verify", "mark", "done", "fail"} => currentPiece[s] \in Pieces

TypeInv == TypeOK /\ BusyHasPiece

(* The blocks a session is about to request are finitely many blocks. *)
LEMMA RequestsAreBlocks ==
  ASSUME NEW out, NEW pending, NEW R \in SUBSET NextRequests(out, pending)
  PROVE  R \subseteq Blocks /\ IsFiniteSet(R) /\ Cardinality(R) \in Nat
<1>1. IsFiniteSet(Blocks)
  BY FS_Interval, StoreAssumption DEF Blocks
<1>2. R \subseteq Blocks
  BY DEF NextRequests
<1>3. IsFiniteSet(R)
  BY <1>1, <1>2, FS_Subset
<1> QED
  BY <1>2, <1>3, FS_CardinalityType

(* Requesting blocks of a piece keeps the counters of the session typed. *)
LEMMA RequestBlocksTyped ==
  ASSUME TypeOK, NEW s \in Sessions, NEW i \in Pieces, RequestBlocks(s, i)
  PROVE  /\ currentPiece' \in [Sessions -> Pieces \union {NoPiece}]
         /\ outstanding' \in [Sessions -> SUBSET Blocks]
         /\ pendingBlocks' \in [Sessions -> Int]
         /\ faults' \in [Sessions -> 0 .. MaxFaults]
         /\ currentPiece' = [currentPiece EXCEPT ![s] = i]
<1> DEFINE R == NextRequests(outstanding[s], pendingBlocks[s])
<1>1. PICK Q \in SUBSET R : SentRequests(s, Q)
  <2>1. CASE SentRequests(s, R)
    BY <2>1
  <2>2. CASE \E b \in R : SentRequests(s, {c \in R : c < b})
    <3>1. PICK b \in R : SentRequests(s, {c \in R : c < b})
      BY <2>2
    <3>2. {c \in R : c < b} \in SUBSET R
      OBVIOUS
    <3> QED BY <3>1, <3>2
  <2> QED BY <2>1, <2>2 DEF RequestBlocks
<1>2. Q \subseteq Blocks /\ Cardinality(Q) \in Nat
  BY RequestsAreBlocks
<1>3. /\ currentPiece' \in [Sessions -> Pieces \union {NoPiece}]
      /\ currentPiece' = [currentPiece EXCEPT ![s] = i]
  BY DEF RequestBlocks, TypeOK, SessionTypeOK
<1>4. outstanding' \in [Sessions -> SUBSET Blocks]
  BY <1>1, <1>2 DEF SentRequests, TypeOK, SessionTypeOK
<1>5. pendingBlocks' \in [Sessions -> Int]
  BY <1>1, <1>2 DEF SentRequests, TypeOK, SessionTypeOK
<1>6. faults' \in [Sessions -> 0 .. MaxFaults]
  <2>1. CASE faults' = faults
    BY <2>1 DEF TypeOK, SessionTypeOK
  <2>2. CASE faults[s] < MaxFaults /\ faults' = [faults EXCEPT ![s] = @ + 1]
    <3>1. faults[s] + 1 \in 0 .. MaxFaults
      BY <2>2, SessionAssumption DEF TypeOK, SessionTypeOK
    <3> QED BY <2>2, <3>1 DEF TypeOK, SessionTypeOK
  <2> QED BY <2>1, <2>2 DEF RequestBlocks
<1> QED
  BY <1>3, <1>4, <1>5, <1>6

(* What acquire hands out: a wanted piece of this torrent that is neither on  *)
(* disk nor reserved.                                                         *)
LEMMA AcquirableFree ==
  ASSUME TypeOK, NEW s \in Sessions, NEW i \in Acquirable(peerBits[s])
  PROVE  i \in Pieces /\ i \notin present /\ i \notin skip /\ reserved[i] = NoSession
<1>1. i \in Candidates(peerBits[s])
  BY DEF Acquirable, Earliest, Rarest
<1> QED
  BY <1>1 DEF Candidates, TypeOK, SessionTypeOK

(* The data of a message are blocks written wrong or right.                   *)
LEMMA PayloadBlocks ==
  ASSUME NEW data \in Payloads \union {<< >>}
  PROVE  /\ \A k \in DOMAIN data : data[k] \in {"bad", "good"}
         /\ DOMAIN data # {} => 1 \in DOMAIN data
<1>1. CASE data = << >>
  <2>1. DOMAIN data = {}
    BY <1>1
  <2> QED BY <2>1
<1>2. CASE data \in Payloads
  <2>1. PICK n \in Lengths : data \in [1 .. n -> {"bad", "good"}]
    BY <1>2 DEF Payloads
  <2>2. n \in Nat /\ DOMAIN data = 1 .. n
    BY <2>1, SessionAssumption
  <2> QED BY <2>1, <2>2
<1> QED
  BY <1>1, <1>2

(* What a write changes: no block is unwritten by it, the block it was asked  *)
(* for holds its first element, and a piece of another index that it got to   *)
(* is in overrun if it had been checked.                                      *)
LEMMA WriteEffect ==
  ASSUME TypeOK, NEW i \in Pieces, NEW b \in Blocks, NEW data \in Payloads \union {<< >>},
         NEW checked \in SUBSET Pieces, WriteBlock(i, b, data, checked)
  PROVE  /\ disk' \in [Pieces -> [Blocks -> Quality]]
         /\ present' = present
         /\ overrun' \in SUBSET Pieces /\ overrun \subseteq overrun'
         /\ \A j \in checked \ {i} : j \in overrun' \/ disk'[j] = disk[j]
         /\ \A j \in Pieces, c \in Blocks : disk[j][c] # "none" => disk'[j][c] # "none"
         /\ DOMAIN data # {} => disk'[i][b] # "none"
<1> USE PayloadBlocks DEF TypeOK, StoreTypeOK
<1>1. \A j \in Pieces, c \in Blocks :
        disk'[j][c] = IF Element(i, b, j, c) \in DOMAIN data THEN data[Element(i, b, j, c)]
                                                             ELSE disk[j][c]
  BY DEF WriteBlock
<1>2. disk' \in [Pieces -> [Blocks -> Quality]]
  BY DEF WriteBlock, Quality
<1>3. overrun' \in SUBSET Pieces /\ overrun \subseteq overrun' /\ present' = present
  BY DEF WriteBlock
<1>4. ASSUME NEW j \in checked \ {i}, j \notin overrun' PROVE disk'[j] = disk[j]
  <2>1. \A c \in Blocks : Element(i, b, j, c) \notin DOMAIN data
    BY <1>4 DEF WriteBlock, Reached
  <2>2. \A c \in Blocks : disk'[j][c] = disk[j][c]
    BY <1>1, <2>1
  <2>3. disk'[j] \in [Blocks -> Quality] /\ disk[j] \in [Blocks -> Quality]
    BY <1>2
  <2> QED BY <2>2, <2>3
<1>5. \A j \in Pieces, c \in Blocks : disk[j][c] # "none" => disk'[j][c] # "none"
  BY <1>1
<1>6. DOMAIN data # {} => disk'[i][b] # "none"
  <2>1. Place(i, b) \in Int
    BY StoreAssumption DEF Place, Pieces, Blocks
  <2>2. Element(i, b, i, b) = 1
    BY <2>1 DEF Element
  <2> QED BY <1>1, <2>2
<1> QED
  BY <1>2, <1>3, <1>4, <1>5, <1>6

-----------------------------------------------------------------------------
(* What Init gives. *)
LEMMA InitTypeInv == Init => TypeInv
<1> SUFFICES ASSUME Init PROVE TypeInv
  OBVIOUS
<1>1. StoreTypeOK
  BY DEF Init, StoreInit, StoreTypeOK
<1>2. PickerTypeOK
  BY StoreAssumption DEF Init, PickerInit, PickerTypeOK, PriorityOff
<1>3. SessionTypeOK /\ BusyHasPiece
  BY SessionAssumption DEF Init, SessionInit, SessionTypeOK, BusyHasPiece, Steps
<1>4. /\ state \in States
      /\ downBlocked \in BOOLEAN
      /\ selection \in SUBSET Pieces
      /\ callPc \in [Callers -> CallSteps]
      /\ callMask \in [Callers -> SUBSET Pieces]
  BY DEF Init, States, CallSteps
<1> QED
  BY <1>1, <1>2, <1>3, <1>4 DEF TypeInv, TypeOK

(* Every session step and every message keeps the types. *)
LEMMA SessionTypeStep ==
  ASSUME TypeInv, NEW s \in Sessions, SessionStep(s) \/ PeerStep(s)
  PROVE  TypeInv'
<1>1. ASSUME Connect(s), UNCHANGED userVars
      PROVE  TypeInv'
  BY <1>1
  DEF Connect, AddPeer, Goto, Steps, TypeInv, TypeOK, StoreTypeOK, PickerTypeOK, SessionTypeOK, BusyHasPiece, storeVars, pickerVars, sessionVars, userVars, loopVars, pieceVars
<1>2. ASSUME RecvChoke(s), UNCHANGED userVars
      PROVE  TypeInv'
  BY <1>2
  DEF RecvChoke, TypeInv, TypeOK, StoreTypeOK, PickerTypeOK, SessionTypeOK, BusyHasPiece, storeVars, pickerVars, sessionVars, userVars, loopVars, pieceVars
<1>3. ASSUME RecvUnchoke(s), UNCHANGED userVars
      PROVE  TypeInv'
  BY <1>3
  DEF RecvUnchoke, Goto, Steps, TypeInv, TypeOK, StoreTypeOK, PickerTypeOK, SessionTypeOK, BusyHasPiece, storeVars, pickerVars, sessionVars, userVars, loopVars, pieceVars
<1>4. ASSUME NEW i \in Pieces, RecvHave(s, i), UNCHANGED userVars
      PROVE  TypeInv'
  BY <1>4
  DEF RecvHave, PeerHas, PumpIfFree, Goto, Steps, TypeInv, TypeOK, StoreTypeOK, PickerTypeOK, SessionTypeOK, BusyHasPiece, storeVars, pickerVars, sessionVars, userVars, loopVars, pieceVars
<1>5. ASSUME NEW S \in Bitfields, RecvBitfield(s, S), UNCHANGED userVars
      PROVE  TypeInv'
  BY <1>5, TransferAssumption
  DEF RecvBitfield, PeerHas, PumpIfFree, Goto, Steps, TypeInv, TypeOK, StoreTypeOK, PickerTypeOK, SessionTypeOK, BusyHasPiece, storeVars, pickerVars, sessionVars, userVars, loopVars, pieceVars
<1>6. ASSUME NEW b \in Blocks, RecvCancel(s, b), UNCHANGED userVars
      PROVE  TypeInv'
  BY <1>6, SessionAssumption
  DEF RecvCancel, TypeInv, TypeOK, StoreTypeOK, PickerTypeOK, SessionTypeOK, BusyHasPiece, storeVars, pickerVars, sessionVars, userVars, loopVars, pieceVars
<1>7. ASSUME NEW b \in Blocks, NEW data \in Payloads, RecvBlock(s, b, data), UNCHANGED userVars
      PROVE  TypeInv'
  <2>1. Checked \in SUBSET Pieces
    BY DEF Checked, TypeInv, TypeOK, StoreTypeOK, BusyHasPiece
  <2>2. StoreTypeOK'
    BY <1>7, <2>1, WriteEffect DEF RecvBlock, NoPiece, TypeInv, TypeOK, StoreTypeOK, SessionTypeOK
  <2>3. PickerTypeOK' /\ SessionTypeOK' /\ BusyHasPiece'
    BY <1>7 DEF RecvBlock, Goto, Steps, pickerVars, NoPiece,
                TypeInv, TypeOK, PickerTypeOK, SessionTypeOK, BusyHasPiece
  <2> QED BY <1>7, <2>2, <2>3 DEF userVars, TypeInv, TypeOK
<1>8. ASSUME NEW b \in Blocks, NEW data \in Payloads \union {<< >>}, BlockWriteFails(s, b, data), UNCHANGED userVars
      PROVE  TypeInv'
  <2>1. Checked \in SUBSET Pieces
    BY DEF Checked, TypeInv, TypeOK, StoreTypeOK, BusyHasPiece
  <2>2. StoreTypeOK'
    BY <1>8, <2>1, WriteEffect
    DEF BlockWriteFails, NoPiece, TypeInv, TypeOK, StoreTypeOK, SessionTypeOK
  <2>3. PickerTypeOK' /\ SessionTypeOK' /\ BusyHasPiece'
    BY <1>8 DEF BlockWriteFails, Release, ForgetPiece, loopVars,
                TypeInv, TypeOK, PickerTypeOK, SessionTypeOK, BusyHasPiece
  <2> QED BY <1>8, <2>2, <2>3 DEF userVars, TypeInv, TypeOK
<1>9. ASSUME DropPeer(s), UNCHANGED userVars
      PROVE  TypeInv'
  <2>1. \A i \in Pieces : peerHaveCount'[i] \in Nat
    BY <1>9 DEF DropPeer, DelPeer, TypeInv, TypeOK, PickerTypeOK
  <2>2. peerHaveCount' \in [Pieces -> Nat]
    BY <1>9, <2>1 DEF DropPeer, DelPeer
  <2>3. reserved' \in [Pieces -> Sessions \union {NoSession}]
    BY <1>9 DEF DropPeer, DelPeer, DropOwnReservation, TypeInv, TypeOK, PickerTypeOK
  <2>4. PickerTypeOK'
    BY <1>9, <2>2, <2>3 DEF DropPeer, DelPeer, TypeInv, TypeOK, PickerTypeOK
  <2>5. SessionTypeOK' /\ BusyHasPiece'
    BY <1>9 DEF DropPeer, Goto, Steps, loopVars, pieceVars,
                TypeInv, TypeOK, SessionTypeOK, BusyHasPiece
  <2> QED
    BY <1>9, <2>4, <2>5 DEF DropPeer, storeVars, userVars, TypeInv, TypeOK, StoreTypeOK
<1>10. ASSUME Pump(s, downBlocked), UNCHANGED userVars
      PROVE  TypeInv'
  <2>1. storeVars' = storeVars /\ StoreTypeOK'
    BY <1>10 DEF Pump, storeVars, TypeInv, TypeOK, StoreTypeOK
  <2>2. PickerTypeOK'
    <3>1. CASE UNCHANGED pickerVars
      BY <3>1 DEF TypeInv, TypeOK, PickerTypeOK, pickerVars
    <3>2. ASSUME NEW i \in Acquirable(peerBits[s]), Acquire(s, i) PROVE PickerTypeOK'
      <4>1. reserved' \in [Pieces -> Sessions \union {NoSession}]
        BY <3>2 DEF Acquire, TypeInv, TypeOK, PickerTypeOK
      <4>2. priority' \in (-1 .. NPieces) \X (-1 .. NPieces)
        BY <3>2, StoreAssumption DEF Acquire, PriorityOff, TypeInv, TypeOK, PickerTypeOK
      <4> QED BY <3>2, <4>1, <4>2 DEF Acquire, TypeInv, TypeOK, PickerTypeOK
    <3>3. CASE AcquireNothing
      BY <3>3, StoreAssumption DEF AcquireNothing, PriorityOff, TypeInv, TypeOK, PickerTypeOK
    <3> QED BY <1>10, <3>1, <3>2, <3>3 DEF Pump
  <2>3. /\ currentPiece' \in [Sessions -> Pieces \union {NoPiece}]
        /\ outstanding' \in [Sessions -> SUBSET Blocks]
        /\ pendingBlocks' \in [Sessions -> Int]
        /\ faults' \in [Sessions -> 0 .. MaxFaults]
    <3>1. CASE UNCHANGED <<pieceVars, faults>>
      BY <3>1 DEF TypeInv, TypeOK, SessionTypeOK, pieceVars
    <3>2. CASE currentPiece[s] # NoPiece /\ RequestBlocks(s, currentPiece[s])
      <4>1. currentPiece[s] \in Pieces
        BY <3>2 DEF TypeInv, TypeOK, SessionTypeOK
      <4> QED BY <3>2, <4>1, RequestBlocksTyped DEF TypeInv
    <3>3. ASSUME NEW i \in Acquirable(peerBits[s]), RequestBlocks(s, i)
          PROVE  /\ currentPiece' \in [Sessions -> Pieces \union {NoPiece}]
                 /\ outstanding' \in [Sessions -> SUBSET Blocks]
                 /\ pendingBlocks' \in [Sessions -> Int]
                 /\ faults' \in [Sessions -> 0 .. MaxFaults]
      <4>1. i \in Pieces
        BY AcquirableFree DEF TypeInv
      <4> QED BY <3>3, <4>1, RequestBlocksTyped DEF TypeInv
    <3> QED BY <1>10, <3>1, <3>2, <3>3 DEF Pump
  <2>4. SessionTypeOK' /\ BusyHasPiece'
    <3>1. /\ pc[s] = "pump" /\ pc' = [pc EXCEPT ![s] = "idle"]
          /\ UNCHANGED <<amChoked, peerBits, verdict, empties, stolen>>
      BY <1>10 DEF Pump, Goto
    <3>2. currentPiece' = [currentPiece EXCEPT ![s] = currentPiece'[s]]
      <4>1. CASE UNCHANGED pieceVars
        BY <4>1 DEF pieceVars, TypeInv, TypeOK, SessionTypeOK
      <4>2. CASE \E i \in Pieces \union {NoPiece} \union Acquirable(peerBits[s]) : RequestBlocks(s, i)
        BY <4>2 DEF RequestBlocks, TypeInv, TypeOK, SessionTypeOK
      <4> QED BY <1>10, <4>1, <4>2 DEF Pump, TypeInv, TypeOK, SessionTypeOK
    <3> QED
      BY <2>3, <3>1, <3>2 DEF Steps, TypeInv, TypeOK, SessionTypeOK, BusyHasPiece
  <2> QED BY <1>10, <2>1, <2>2, <2>4 DEF userVars, TypeInv, TypeOK
<1>11. ASSUME VerifyPiece(s), UNCHANGED userVars
      PROVE  TypeInv'
  BY <1>11
  DEF VerifyPiece, HashOK, Goto, Steps, TypeInv, TypeOK, StoreTypeOK, PickerTypeOK, SessionTypeOK, BusyHasPiece, storeVars, pickerVars, sessionVars, userVars, loopVars, pieceVars
<1>12. ASSUME MarkPiece(s), UNCHANGED userVars
      PROVE  TypeInv'
  BY <1>12
  DEF MarkPiece, SetPresent, Goto, Steps, TypeInv, TypeOK, StoreTypeOK, PickerTypeOK, SessionTypeOK, BusyHasPiece, storeVars, pickerVars, sessionVars, userVars, loopVars, pieceVars
<1>13. ASSUME FinishPiece(s), UNCHANGED userVars
      PROVE  TypeInv'
  BY <1>13
  DEF FinishPiece, Release, Goto, Steps, TypeInv, TypeOK, StoreTypeOK, PickerTypeOK, SessionTypeOK, BusyHasPiece, storeVars, pickerVars, sessionVars, userVars, loopVars, pieceVars
<1>14. ASSUME AbortPiece(s), UNCHANGED userVars
      PROVE  TypeInv'
  BY <1>14
  DEF AbortPiece, Release, ForgetPiece, Goto, Steps, TypeInv, TypeOK, StoreTypeOK, PickerTypeOK, SessionTypeOK, BusyHasPiece, storeVars, pickerVars, sessionVars, userVars, loopVars, pieceVars
<1>15. ASSUME ReleaseTorn(s), UNCHANGED userVars
      PROVE  TypeInv'
  <2>1. reserved' \in [Pieces -> Sessions \union {NoSession}] /\ stolen' \in SUBSET Pieces
    <3>1. CASE currentPiece[s] = NoPiece
      BY <1>15, <3>1 DEF ReleaseTorn, TypeInv, TypeOK, PickerTypeOK, SessionTypeOK
    <3>2. CASE currentPiece[s] \in Pieces /\ currentPiece[s] # NoPiece
      BY <1>15, <3>2 DEF ReleaseTorn, Release, TypeInv, TypeOK, PickerTypeOK, SessionTypeOK
    <3> QED BY <3>1, <3>2 DEF TypeInv, TypeOK, SessionTypeOK
  <2>2. PickerTypeOK'
    BY <1>15, <2>1 DEF ReleaseTorn, TypeInv, TypeOK, PickerTypeOK
  <2>3. SessionTypeOK' /\ BusyHasPiece'
    BY <1>15, <2>1, SessionAssumption
    DEF ReleaseTorn, ForgetPiece, Goto, Steps, TypeInv, TypeOK, SessionTypeOK, BusyHasPiece
  <2> QED
    BY <1>15, <2>2, <2>3 DEF ReleaseTorn, storeVars, userVars, TypeInv, TypeOK, StoreTypeOK
<1>16. ASSUME CheckComplete(s)
      PROVE  TypeInv'
  BY <1>16
  DEF CheckComplete, Goto, Steps, States, TypeInv, TypeOK, StoreTypeOK, PickerTypeOK, SessionTypeOK, BusyHasPiece, storeVars, pickerVars, sessionVars, userVars, loopVars, pieceVars
<1> QED
  BY <1>1, <1>2, <1>3, <1>4, <1>5, <1>6, <1>7, <1>8, <1>9, <1>10, <1>11, <1>12, <1>13, <1>14, <1>15, <1>16 DEF SessionStep, PeerStep

(* So do the user's operations. *)
LEMMA UserTypeStep ==
  ASSUME TypeInv, (\E c \in Callers : SelectStep(c)) \/ UserStep
  PROVE  TypeInv'
<1>1. StoreTypeOK' /\ SessionTypeOK' /\ BusyHasPiece'
  BY DEF SelectStep, BuildMask, InstallMask, CheckSelection, SeedSelection, UserStep, Pause,
         Resume, ToggleDownloadBlocked, SetPriorityPieces, storeVars, sessionVars,
         TypeInv, TypeOK, StoreTypeOK, SessionTypeOK, BusyHasPiece
<1>2. PickerTypeOK'
  <2>1. ASSUME NEW c \in Callers, SelectStep(c) PROVE PickerTypeOK'
    BY <2>1 DEF SelectStep, BuildMask, InstallMask, SetSkip, CheckSelection, SeedSelection,
                pickerVars, TypeInv, TypeOK, PickerTypeOK
  <2>2. CASE Pause \/ Resume \/ ToggleDownloadBlocked
    BY <2>2 DEF Pause, Resume, ToggleDownloadBlocked, pickerVars, TypeInv, TypeOK, PickerTypeOK
  <2>3. ASSUME NEW w \in Windows, SetPriorityPieces(w[1], w[2]) PROVE PickerTypeOK'
    <3>1. w[1] \in -1 .. NPieces /\ w[2] \in -1 .. NPieces
      BY TransferAssumption
    <3>2. ClampedWindow(w[1], w[2]) \in (-1 .. NPieces) \X (-1 .. NPieces)
      BY <3>1, StoreAssumption DEF ClampedWindow, PriorityOff
    <3> QED BY <2>3, <3>2 DEF SetPriorityPieces, SetPriority, TypeInv, TypeOK, PickerTypeOK
  <2> QED BY <2>1, <2>2, <2>3 DEF UserStep
<1>3. /\ state' \in States
      /\ downBlocked' \in BOOLEAN
      /\ selection' \in SUBSET Pieces
      /\ callPc' \in [Callers -> CallSteps]
      /\ callMask' \in [Callers -> SUBSET Pieces]
  BY DEF SelectStep, BuildMask, InstallMask, CheckSelection, SeedSelection, UserStep, Pause,
         Resume, ToggleDownloadBlocked, SetPriorityPieces, userVars, TypeInv, TypeOK,
         States, CallSteps
<1> QED
  BY <1>1, <1>2, <1>3 DEF TypeInv, TypeOK

LEMMA TypeInvStep == TypeInv /\ [Next]_vars => TypeInv'
<1> SUFFICES ASSUME TypeInv, [Next]_vars PROVE TypeInv'
  OBVIOUS
<1>1. CASE UNCHANGED vars
  BY <1>1 DEF vars, storeVars, pickerVars, sessionVars, userVars,
              TypeInv, TypeOK, StoreTypeOK, PickerTypeOK, SessionTypeOK, BusyHasPiece
<1> QED
  BY <1>1, SessionTypeStep, UserTypeStep DEF Next

(* Type correctness: in every reachable state of the transfer each variable   *)
(* has its type, and a session that finishes a piece has one.                 *)
THEOREM TypeCorrect == Spec => [](TypeOK /\ BusyHasPiece)
<1> QED
  BY InitTypeInv, TypeInvStep, PTL DEF Spec, TypeInv

-----------------------------------------------------------------------------
(* Who owns a piece.  A live session is registered with the picker, a session *)
(* that is not connected has no piece, a reservation names the piece its      *)
(* owner downloads, and the other way round unless the piece was stolen.      *)
LiveRegistered   == \A s \in Sessions : Live(s) => s \in peers
NoneHasNoPiece   == \A s \in Sessions : pc[s] = "none" => currentPiece[s] = NoPiece
OwnsCurrentPiece ==
  \A s \in Sessions :
     Live(s) /\ currentPiece[s] # NoPiece /\ currentPiece[s] \notin stolen
       => reserved[currentPiece[s]] = s

OwnerInv == LiveRegistered /\ NoneHasNoPiece /\ NoLeakedReservation /\ OwnsCurrentPiece

LEMMA InitOwnerInv == Init => OwnerInv
  BY DEF Init, PickerInit, SessionInit, OwnerInv, LiveRegistered, NoneHasNoPiece,
         NoLeakedReservation, OwnsCurrentPiece, Live

(* A step that moves a connected session to another place of its loop and     *)
(* touches neither reservations nor current pieces.                           *)
LEMMA OwnerMove ==
  ASSUME TypeInv, OwnerInv, NEW s \in Sessions, Live(s),
         NEW step \in Steps \ {"none", "torn"},
         pc' = [pc EXCEPT ![s] = step],
         UNCHANGED <<reserved, currentPiece, stolen>>, peers \subseteq peers'
  PROVE  OwnerInv'
<1>1. \A u \in Sessions : (Live(u)' <=> Live(u)) /\ (pc'[u] = "none" <=> pc[u] = "none")
  BY DEF Live, TypeInv, TypeOK, SessionTypeOK
<1>2. LiveRegistered' /\ NoneHasNoPiece'
  BY <1>1 DEF OwnerInv, LiveRegistered, NoneHasNoPiece
<1>3. NoLeakedReservation'
  BY <1>1, PickerAssumption
  DEF OwnerInv, NoLeakedReservation, TypeInv, TypeOK, PickerTypeOK, SessionTypeOK, Live
<1>4. OwnsCurrentPiece'
  BY <1>1 DEF OwnerInv, OwnsCurrentPiece
<1> QED
  BY <1>2, <1>3, <1>4 DEF OwnerInv

(* A step of a connected session that releases its own piece.                 *)
LEMMA OwnerRelease ==
  ASSUME TypeInv, OwnerInv, NEW s \in Sessions, Live(s), currentPiece[s] \in Pieces,
         NEW step \in Steps \ {"none", "torn"},
         pc' = [pc EXCEPT ![s] = step],
         Release(currentPiece[s]),
         currentPiece' = [currentPiece EXCEPT ![s] = NoPiece],
         UNCHANGED <<peers, stolen>>
  PROVE  OwnerInv'
<1>1. \A u \in Sessions : (Live(u)' <=> Live(u)) /\ (pc'[u] = "none" <=> pc[u] = "none")
  BY DEF Live, TypeInv, TypeOK, SessionTypeOK
<1>2. LiveRegistered' /\ NoneHasNoPiece'
  BY <1>1 DEF OwnerInv, LiveRegistered, NoneHasNoPiece, TypeInv, TypeOK, SessionTypeOK
<1>3. ASSUME NEW i \in Pieces, reserved'[i] # NoSession
      PROVE  /\ pc'[reserved'[i]] \notin {"none", "torn"}
             /\ currentPiece'[reserved'[i]] = i
  <2>1. i # currentPiece[s] /\ reserved'[i] = reserved[i] /\ reserved[i] \in Sessions
    BY <1>3 DEF Release, TypeInv, TypeOK, PickerTypeOK
  <2>2. Live(reserved[i]) /\ currentPiece[reserved[i]] = i
    BY <1>3, <2>1 DEF OwnerInv, NoLeakedReservation
  <2> QED
    <3>1. reserved[i] # s
      BY <2>1, <2>2
    <3> QED
      BY <2>1, <2>2, <3>1 DEF Live, TypeInv, TypeOK, SessionTypeOK
<1>4. ASSUME NEW u \in Sessions, Live(u)', currentPiece'[u] # NoPiece,
             currentPiece'[u] \notin stolen'
      PROVE  reserved'[currentPiece'[u]] = u
  <2>1. u # s /\ currentPiece'[u] = currentPiece[u] /\ Live(u)
    BY <1>1, <1>4 DEF TypeInv, TypeOK, SessionTypeOK
  <2>2. reserved[currentPiece[u]] = u
    BY <1>4, <2>1 DEF OwnerInv, OwnsCurrentPiece
  <2>3. currentPiece[u] # currentPiece[s]
    BY <1>4, <2>1, <2>2 DEF OwnerInv, OwnsCurrentPiece, NoPiece, Pieces
  <2>4. currentPiece[u] \in Pieces
    BY <1>4, <2>1 DEF TypeInv, TypeOK, SessionTypeOK
  <2> QED
    BY <2>1, <2>2, <2>3, <2>4 DEF Release, TypeInv, TypeOK, PickerTypeOK
<1> QED
  BY <1>2, <1>3, <1>4 DEF OwnerInv, NoLeakedReservation, OwnsCurrentPiece, Live
(* A session that takes a piece nobody has reserved.                          *)
LEMMA OwnerAcquire ==
  ASSUME TypeInv, OwnerInv, NEW s \in Sessions, pc[s] = "pump", currentPiece[s] = NoPiece,
         NEW i \in Pieces, reserved[i] = NoSession,
         reserved' = [reserved EXCEPT ![i] = s],
         currentPiece' = [currentPiece EXCEPT ![s] = i],
         pc' = [pc EXCEPT ![s] = "idle"],
         UNCHANGED <<peers, stolen>>
  PROVE  OwnerInv'
<1>1. \A u \in Sessions : (Live(u)' <=> Live(u)) /\ (pc'[u] = "none" <=> pc[u] = "none")
  BY DEF Live, TypeInv, TypeOK, SessionTypeOK
<1>2. LiveRegistered' /\ NoneHasNoPiece'
  BY <1>1 DEF OwnerInv, LiveRegistered, NoneHasNoPiece, TypeInv, TypeOK, SessionTypeOK
<1>3. ASSUME NEW j \in Pieces, reserved'[j] # NoSession
      PROVE  /\ pc'[reserved'[j]] \notin {"none", "torn"}
             /\ currentPiece'[reserved'[j]] = j
  <2>1. CASE j = i
    BY <2>1 DEF TypeInv, TypeOK, SessionTypeOK, PickerTypeOK
  <2>2. CASE j # i
    <3>1. reserved'[j] = reserved[j] /\ reserved[j] \in Sessions
      BY <1>3, <2>2 DEF TypeInv, TypeOK, PickerTypeOK
    <3>2. Live(reserved[j]) /\ currentPiece[reserved[j]] = j
      BY <1>3, <3>1 DEF OwnerInv, NoLeakedReservation
    <3>3. reserved[j] # s
      BY <3>2 DEF NoPiece, Pieces
    <3> QED
      BY <3>1, <3>2, <3>3 DEF Live, TypeInv, TypeOK, SessionTypeOK
  <2> QED BY <2>1, <2>2
<1>4. ASSUME NEW u \in Sessions, Live(u)', currentPiece'[u] # NoPiece,
             currentPiece'[u] \notin stolen'
      PROVE  reserved'[currentPiece'[u]] = u
  <2>1. CASE u = s
    BY <2>1 DEF TypeInv, TypeOK, SessionTypeOK, PickerTypeOK
  <2>2. CASE u # s
    <3>1. currentPiece'[u] = currentPiece[u] /\ Live(u) /\ currentPiece[u] \in Pieces
      BY <1>1, <1>4, <2>2 DEF TypeInv, TypeOK, SessionTypeOK
    <3>2. reserved[currentPiece[u]] = u
      BY <1>4, <3>1 DEF OwnerInv, OwnsCurrentPiece
    <3>3. currentPiece[u] # i
      BY <3>2, PickerAssumption
    <3> QED BY <3>1, <3>2, <3>3 DEF TypeInv, TypeOK, PickerTypeOK
  <2> QED BY <2>1, <2>2
<1> QED
  BY <1>2, <1>3, <1>4 DEF OwnerInv, NoLeakedReservation, OwnsCurrentPiece, Live

(* unregisterSession, first half: the picker drops the one reservation the    *)
(* session has.                                                               *)
LEMMA OwnerDrop ==
  ASSUME TypeInv, OwnerInv, NEW s \in Sessions, DropPeer(s)
  PROVE  OwnerInv'
<1>1. /\ pc[s] = "idle" /\ s \in peers
      /\ pc' = [pc EXCEPT ![s] = "torn"]
      /\ UNCHANGED <<currentPiece, stolen>>
      /\ peers' = peers \ {s}
  BY DEF DropPeer, DelPeer, Goto, pieceVars, OwnerInv, LiveRegistered, Live
<1>2. \A u \in Sessions : Live(u)' <=> Live(u) /\ u # s
  BY <1>1 DEF Live, TypeInv, TypeOK, SessionTypeOK
<1>3. DropOwnReservation(s)
  BY <1>1 DEF DropPeer, DelPeer
<1>4. \A i \in Pieces : reserved'[i] = IF reserved[i] = s THEN NoSession ELSE reserved[i]
  <2>1. \A i \in Pieces : reserved[i] = s => i = currentPiece[s]
    BY PickerAssumption DEF OwnerInv, NoLeakedReservation
  <2>2. CASE Owned(s) = {} /\ UNCHANGED reserved
    BY <2>2 DEF Owned
  <2>3. ASSUME NEW i \in Owned(s), reserved' = [reserved EXCEPT ![i] = NoSession]
        PROVE  \A j \in Pieces : reserved'[j] = IF reserved[j] = s THEN NoSession ELSE reserved[j]
    BY <2>1, <2>3 DEF Owned, TypeInv, TypeOK, PickerTypeOK
  <2> QED BY <1>3, <2>2, <2>3 DEF DropOwnReservation
<1>5. LiveRegistered' /\ NoneHasNoPiece'
  BY <1>1, <1>2 DEF OwnerInv, LiveRegistered, NoneHasNoPiece, TypeInv, TypeOK, SessionTypeOK
<1>6. NoLeakedReservation'
  <2> SUFFICES ASSUME NEW i \in Pieces, reserved'[i] # NoSession
               PROVE  /\ pc'[reserved'[i]] \notin {"none", "torn"}
                      /\ currentPiece'[reserved'[i]] = i
    BY DEF NoLeakedReservation, Live
  <2>1. reserved'[i] = reserved[i] /\ reserved[i] # s /\ reserved[i] \in Sessions
    BY <1>4 DEF TypeInv, TypeOK, PickerTypeOK
  <2>2. Live(reserved[i]) /\ currentPiece[reserved[i]] = i
    BY <2>1 DEF OwnerInv, NoLeakedReservation
  <2> QED BY <1>1, <2>1, <2>2 DEF Live, TypeInv, TypeOK, SessionTypeOK
<1>7. OwnsCurrentPiece'
  BY <1>1, <1>2, <1>4 DEF OwnerInv, OwnsCurrentPiece, TypeInv, TypeOK, SessionTypeOK
<1> QED
  BY <1>5, <1>6, <1>7 DEF OwnerInv
(* unregisterSession, second half: whoever loses the piece here is recorded   *)
(* in stolen.                                                                 *)
LEMMA OwnerReleaseTorn ==
  ASSUME TypeInv, OwnerInv, NEW s \in Sessions, ReleaseTorn(s)
  PROVE  OwnerInv'
<1>1. /\ pc[s] = "torn"
      /\ pc' = [pc EXCEPT ![s] = "none"]
      /\ currentPiece' = [currentPiece EXCEPT ![s] = NoPiece]
      /\ UNCHANGED peers
  BY DEF ReleaseTorn, ForgetPiece, Goto
<1>2. \A u \in Sessions : Live(u)' <=> Live(u)
  BY <1>1 DEF Live, TypeInv, TypeOK, SessionTypeOK
<1>3. /\ stolen \subseteq stolen'
      /\ \A i \in Pieces :
           \/ reserved'[i] = reserved[i]
           \/ i = currentPiece[s] /\ reserved'[i] = NoSession
      /\ currentPiece[s] \in stolen' \/ reserved[currentPiece[s]] \in {s, NoSession}
           \/ UNCHANGED reserved
  <2>1. CASE currentPiece[s] = NoPiece
    BY <2>1 DEF ReleaseTorn
  <2>2. CASE currentPiece[s] # NoPiece
    BY <2>2 DEF ReleaseTorn, Release, TypeInv, TypeOK, PickerTypeOK, SessionTypeOK
  <2> QED BY <2>1, <2>2
<1>4. LiveRegistered' /\ NoneHasNoPiece'
  BY <1>1, <1>2 DEF OwnerInv, LiveRegistered, NoneHasNoPiece, TypeInv, TypeOK, SessionTypeOK
<1>5. NoLeakedReservation'
  <2> SUFFICES ASSUME NEW i \in Pieces, reserved'[i] # NoSession
               PROVE  /\ pc'[reserved'[i]] \notin {"none", "torn"}
                      /\ currentPiece'[reserved'[i]] = i
    BY DEF NoLeakedReservation, Live
  <2>1. reserved'[i] = reserved[i] /\ reserved[i] \in Sessions
    BY <1>3 DEF TypeInv, TypeOK, PickerTypeOK
  <2>2. Live(reserved[i]) /\ currentPiece[reserved[i]] = i
    BY <2>1 DEF OwnerInv, NoLeakedReservation
  <2>3. reserved[i] # s
    BY <1>1, <2>2 DEF Live
  <2> QED BY <1>1, <2>1, <2>2, <2>3 DEF Live, TypeInv, TypeOK, SessionTypeOK
<1>6. OwnsCurrentPiece'
  <2> SUFFICES ASSUME NEW u \in Sessions, Live(u)', currentPiece'[u] # NoPiece,
                      currentPiece'[u] \notin stolen'
               PROVE  reserved'[currentPiece'[u]] = u
    BY DEF OwnsCurrentPiece
  <2>1. u # s /\ Live(u) /\ currentPiece'[u] = currentPiece[u] /\ currentPiece[u] \in Pieces
    BY <1>1, <1>2 DEF Live, TypeInv, TypeOK, SessionTypeOK
  <2>2. reserved[currentPiece[u]] = u
    BY <1>3, <2>1 DEF OwnerInv, OwnsCurrentPiece
  <2>3. currentPiece[u] = currentPiece[s] => UNCHANGED reserved
    BY <1>3, <2>1, <2>2, PickerAssumption
  <2> QED BY <1>3, <2>1, <2>2, <2>3
<1> QED
  BY <1>4, <1>5, <1>6 DEF OwnerInv

(* registerSession: a new session has no piece.                               *)
LEMMA OwnerConnect ==
  ASSUME TypeInv, OwnerInv, NEW s \in Sessions, Connect(s)
  PROVE  OwnerInv'
<1>1. /\ pc[s] = "none" /\ currentPiece[s] = NoPiece
      /\ pc' = [pc EXCEPT ![s] = "idle"]
      /\ peers' = peers \union {s}
      /\ UNCHANGED <<reserved, currentPiece, stolen>>
  BY DEF Connect, AddPeer, Goto, pieceVars, OwnerInv, NoneHasNoPiece
<1>2. \A u \in Sessions : Live(u)' <=> Live(u) \/ u = s
  BY <1>1 DEF Live, TypeInv, TypeOK, SessionTypeOK
<1>3. LiveRegistered' /\ NoneHasNoPiece'
  BY <1>1, <1>2 DEF OwnerInv, LiveRegistered, NoneHasNoPiece, TypeInv, TypeOK, SessionTypeOK
<1>4. NoLeakedReservation'
  BY <1>1, <1>2, PickerAssumption
  DEF OwnerInv, NoLeakedReservation, TypeInv, TypeOK, PickerTypeOK
<1>5. OwnsCurrentPiece'
  BY <1>1, <1>2 DEF OwnerInv, OwnsCurrentPiece
<1> QED
  BY <1>3, <1>4, <1>5 DEF OwnerInv

LEMMA OwnerSessionStep ==
  ASSUME TypeInv, OwnerInv, NEW s \in Sessions, SessionStep(s)
  PROVE  OwnerInv'
<1>1. CASE Pump(s, downBlocked)
  <2>1. CASE UNCHANGED <<pickerVars, currentPiece>>
    BY <1>1, <2>1, OwnerMove DEF Pump, Goto, pickerVars, Live, Steps
  <2>2. ASSUME NEW i \in Acquirable(peerBits[s]), currentPiece[s] = NoPiece,
               Acquire(s, i), RequestBlocks(s, i)
        PROVE  OwnerInv'
    <3>1. i \in Pieces /\ reserved[i] = NoSession
      BY AcquirableFree DEF TypeInv
    <3> QED
      BY <1>1, <2>2, <3>1, OwnerAcquire DEF Pump, Goto, Acquire, RequestBlocks
  <2>3. CASE AcquireNothing /\ UNCHANGED pieceVars
    BY <1>1, <2>3, OwnerMove DEF Pump, Goto, AcquireNothing, pieceVars, Live, Steps
  <2>4. ASSUME RequestBlocks(s, currentPiece[s]) PROVE UNCHANGED currentPiece
    BY <2>4 DEF RequestBlocks, TypeInv, TypeOK, SessionTypeOK
  <2> QED
    BY <1>1, <2>1, <2>2, <2>3, <2>4 DEF Pump, pieceVars
<1>2. CASE VerifyPiece(s)
  BY <1>2, OwnerMove DEF VerifyPiece, Goto, pickerVars, pieceVars, Live, Steps
<1>3. CASE MarkPiece(s)
  <2>1. CASE verdict[s]
    BY <1>3, <2>1, OwnerMove DEF MarkPiece, Goto, pickerVars, pieceVars, Live, Steps
  <2>2. CASE ~verdict[s]
    BY <1>3, <2>2, OwnerMove DEF MarkPiece, Goto, pickerVars, pieceVars, Live, Steps
  <2> QED BY <2>1, <2>2
<1>4. CASE FinishPiece(s)
  <2>1. currentPiece[s] \in Pieces
    BY <1>4 DEF FinishPiece, TypeInv, BusyHasPiece
  <2> QED BY <1>4, <2>1, OwnerRelease DEF FinishPiece, Goto, Live, Steps
<1>5. CASE AbortPiece(s)
  <2>1. currentPiece[s] \in Pieces
    BY <1>5 DEF AbortPiece, TypeInv, BusyHasPiece
  <2> QED BY <1>5, <2>1, OwnerRelease DEF AbortPiece, ForgetPiece, Goto, Live, Steps
<1>6. CASE ReleaseTorn(s)
  BY <1>6, OwnerReleaseTorn
<1>7. CASE CheckComplete(s)
  BY <1>7, OwnerMove DEF CheckComplete, Goto, pickerVars, pieceVars, Live, Steps
<1> QED
  BY <1>1, <1>2, <1>3, <1>4, <1>5, <1>6, <1>7 DEF SessionStep

LEMMA OwnerPeerStep ==
  ASSUME TypeInv, OwnerInv, NEW s \in Sessions, PeerStep(s)
  PROVE  OwnerInv'
<1> USE DEF Live, Steps
<1>0. ASSUME UNCHANGED pc PROVE pc' = [pc EXCEPT ![s] = pc[s]] /\ pc[s] \in Steps
  BY <1>0 DEF TypeInv, TypeOK, SessionTypeOK
<1>1. CASE Connect(s)
  BY <1>1, OwnerConnect
<1>2. CASE RecvChoke(s)
  BY <1>0, <1>2, OwnerMove DEF RecvChoke, pickerVars, pieceVars
<1>3. CASE RecvUnchoke(s)
  BY <1>3, OwnerMove DEF RecvUnchoke, Goto, pickerVars, pieceVars
<1>4. ASSUME NEW S, pc[s] = "idle", PeerHas(s, S), PumpIfFree(s), UNCHANGED <<pieceVars, stolen>>
      PROVE  OwnerInv'
  <2>1. CASE currentPiece[s] = NoPiece
    BY <1>4, <2>1, OwnerMove DEF PeerHas, PumpIfFree, Goto, pieceVars
  <2>2. CASE currentPiece[s] # NoPiece
    BY <1>4, <2>2, OwnerMove DEF PeerHas, PumpIfFree, Goto, pieceVars
  <2> QED BY <2>1, <2>2
<1>5. ASSUME NEW i \in Pieces, RecvHave(s, i) PROVE OwnerInv'
  BY <1>4, <1>5 DEF RecvHave
<1>6. ASSUME NEW S \in Bitfields, RecvBitfield(s, S) PROVE OwnerInv'
  BY <1>4, <1>6 DEF RecvBitfield
<1>7. ASSUME NEW b \in Blocks, RecvCancel(s, b) PROVE OwnerInv'
  BY <1>0, <1>7, OwnerMove DEF RecvCancel, pickerVars
<1>8. ASSUME NEW b \in Blocks, NEW data, RecvBlock(s, b, data) PROVE OwnerInv'
  <2>1. CASE pc' = [pc EXCEPT ![s] = "verify"]
    BY <1>8, <2>1, OwnerMove DEF RecvBlock, pickerVars
  <2>2. CASE pc' = [pc EXCEPT ![s] = "idle"]
    BY <1>8, <2>2, OwnerMove DEF RecvBlock, pickerVars
  <2> QED BY <1>8, <2>1, <2>2 DEF RecvBlock, Goto
<1>9. ASSUME NEW b \in Blocks, NEW data, BlockWriteFails(s, b, data) PROVE OwnerInv'
  <2>1. currentPiece[s] \in Pieces
    BY <1>9 DEF BlockWriteFails, TypeInv, TypeOK, SessionTypeOK
  <2> QED BY <1>0, <1>9, <2>1, OwnerRelease DEF BlockWriteFails, ForgetPiece
<1>10. CASE DropPeer(s)
  BY <1>10, OwnerDrop
<1> QED
  BY <1>1, <1>2, <1>3, <1>5, <1>6, <1>7, <1>8, <1>9, <1>10 DEF PeerStep

(* The user's operations and idle steps leave ownership alone.                *)
LEMMA OwnerFrame ==
  ASSUME OwnerInv, (\E c \in Callers : SelectStep(c)) \/ UserStep \/ UNCHANGED vars
  PROVE  OwnerInv'
<1>1. UNCHANGED <<reserved, peers, pc, currentPiece, stolen>>
  BY DEF SelectStep, BuildMask, InstallMask, SetSkip, CheckSelection, SeedSelection, UserStep,
         Pause, Resume, ToggleDownloadBlocked, SetPriorityPieces, SetPriority,
         vars, pickerVars, sessionVars
<1> QED
  BY <1>1 DEF OwnerInv, LiveRegistered, NoneHasNoPiece, NoLeakedReservation, OwnsCurrentPiece, Live

LEMMA OwnerInvStep == TypeInv /\ OwnerInv /\ [Next]_vars => OwnerInv'
  BY OwnerSessionStep, OwnerPeerStep, OwnerFrame DEF Next

(* When a session ends, by whatever order of its last steps and those of the  *)
(* others, no piece stays reserved to it.                                     *)
THEOREM NoReservationLeaks == Spec => []NoLeakedReservation
<1>1. Init => TypeInv /\ OwnerInv
  BY InitTypeInv, InitOwnerInv
<1>2. (TypeInv /\ OwnerInv) /\ [Next]_vars => (TypeInv /\ OwnerInv)'
  BY TypeInvStep, OwnerInvStep
<1>3. TypeInv /\ OwnerInv => NoLeakedReservation
  BY DEF OwnerInv
<1> QED
  BY <1>1, <1>2, <1>3, PTL DEF Spec

(* Two connected sessions download the same piece only after a session that   *)
(* ended released it on behalf of another one.                                *)
THEOREM ExclusiveDownloads == Spec => []ExclusiveUnlessStolen
<1>1. Init => TypeInv /\ OwnerInv
  BY InitTypeInv, InitOwnerInv
<1>2. (TypeInv /\ OwnerInv) /\ [Next]_vars => (TypeInv /\ OwnerInv)'
  BY TypeInvStep, OwnerInvStep
<1>3. TypeInv /\ OwnerInv => ExclusiveUnlessStolen
  BY DEF OwnerInv, OwnsCurrentPiece, ExclusiveUnlessStolen
<1> QED
  BY <1>1, <1>2, <1>3, PTL DEF Spec

-----------------------------------------------------------------------------
(***************************************************************************)
(* What is on disk: only verified pieces are marked present, they stay, a  *)
(* piece that fits the request window is verified when all of it was       *)
(* written, and completion is not missed.                                  *)
(***************************************************************************)
(* A positive verdict that is about to be recorded is still right, and a      *)
(* piece somebody downloads is not present, unless the piece was stolen or a  *)
(* message about another piece wrote to it.                                   *)
VerdictStands ==
  \A s \in Sessions :
     pc[s] = "mark" /\ verdict[s]
        => HashOK(currentPiece[s]) \/ currentPiece[s] \in stolen \union overrun
CurrentNotPresent ==
  \A s \in Sessions :
     Live(s) /\ pc[s] # "done" /\ currentPiece[s] \in present => currentPiece[s] \in stolen

DataInv == PresentIsVerified /\ VerdictStands /\ CurrentNotPresent
Inv     == TypeInv /\ OwnerInv

LEMMA InvInit == Init => Inv
  BY InitTypeInv, InitOwnerInv DEF Inv

LEMMA InvStep == Inv /\ [Next]_vars => Inv'
  BY TypeInvStep, OwnerInvStep DEF Inv

LEMMA InitDataInv == Init => DataInv
  BY DEF Init, StoreInit, SessionInit, DataInv, PresentIsVerified, VerdictStands,
         CurrentNotPresent, Live, HashOK

(* Two live sessions share only a stolen piece.                               *)
LEMMA SharedIsStolen ==
  ASSUME Inv, NEW s \in Sessions, NEW u \in Sessions, s # u, Live(s), Live(u),
         currentPiece[s] \in Pieces, currentPiece[u] = currentPiece[s]
  PROVE  currentPiece[s] \in stolen
BY DEF Inv, OwnerInv, OwnsCurrentPiece, NoPiece, Pieces

(* Nothing but the session's place, requests and knowledge of the peer moves. *)
LEMMA DataFrame ==
  ASSUME Inv, DataInv, UNCHANGED <<disk, present, overrun>>, stolen \subseteq stolen',
         NEW s \in Sessions,
         \/ currentPiece' = currentPiece /\ verdict' = verdict
         \/ /\ currentPiece' = [currentPiece EXCEPT ![s] = NoPiece]
            /\ verdict' = verdict,
         \A u \in Sessions : pc'[u] = "mark" => pc[u] = "mark" /\ currentPiece'[u] = currentPiece[u],
         \A u \in Sessions :
            currentPiece'[u] # NoPiece /\ pc'[u] \notin {"none", "torn", "done"}
              => pc[u] \notin {"none", "torn", "done"}
  PROVE  DataInv'
<1>1. PresentIsVerified'
  BY DEF DataInv, PresentIsVerified, HashOK
<1>2. VerdictStands'
  BY DEF DataInv, VerdictStands, HashOK
<1>3. CurrentNotPresent'
  <2> SUFFICES ASSUME NEW u \in Sessions, pc'[u] \notin {"none", "torn", "done"},
                      currentPiece'[u] \in present
               PROVE  currentPiece'[u] \in stolen'
    BY DEF CurrentNotPresent, Live
  <2>1. currentPiece'[u] # NoPiece
    BY DEF Inv, TypeInv, TypeOK, StoreTypeOK, Pieces, NoPiece
  <2>2. currentPiece'[u] = currentPiece[u]
    BY <2>1 DEF Inv, TypeInv, TypeOK, SessionTypeOK
  <2> QED BY <2>1, <2>2 DEF DataInv, CurrentNotPresent, Live
<1> QED
  BY <1>1, <1>2, <1>3 DEF DataInv

(* A write goes to the current piece of a live session.                       *)
LEMMA DataWrite ==
  ASSUME Inv, DataInv, NEW s \in Sessions, pc[s] = "idle", currentPiece[s] \in Pieces,
         NEW b \in Blocks, NEW data \in Payloads \union {<< >>},
         WriteBlock(currentPiece[s], b, data, Checked),
         UNCHANGED <<stolen, verdict>>,
         currentPiece' = currentPiece \/ currentPiece' = [currentPiece EXCEPT ![s] = NoPiece],
         \E step \in {"idle", "verify"} : pc' = [pc EXCEPT ![s] = step]
  PROVE  DataInv'
<1> DEFINE i == currentPiece[s]
<1>0. TypeOK /\ Checked \in SUBSET Pieces
  BY DEF Checked, Inv, TypeInv, TypeOK, StoreTypeOK, BusyHasPiece
<1>1. /\ \A j \in Checked \ {i} : j \in overrun' \/ disk'[j] = disk[j]
      /\ present' = present /\ overrun \subseteq overrun'
  BY <1>0, WriteEffect
<1>2. i \in present => i \in stolen
  BY DEF DataInv, CurrentNotPresent, Live
<1>3. PresentIsVerified'
  <2> SUFFICES ASSUME NEW j \in present, j \notin stolen, j \notin overrun'
               PROVE  \A c \in Blocks : disk'[j][c] = "good"
    BY <1>1 DEF PresentIsVerified, HashOK
  <2>1. disk'[j] = disk[j]
    BY <1>1, <1>2 DEF Checked
  <2> QED BY <1>1, <2>1 DEF DataInv, PresentIsVerified, HashOK
<1>4. VerdictStands'
  <2> SUFFICES ASSUME NEW u \in Sessions, pc'[u] = "mark", verdict[u],
                      currentPiece'[u] \notin stolen, currentPiece'[u] \notin overrun'
               PROVE  \A c \in Blocks : disk'[currentPiece'[u]][c] = "good"
    BY DEF VerdictStands, HashOK
  <2>0. u # s /\ pc[u] = "mark"
    BY DEF Inv, TypeInv, TypeOK, SessionTypeOK
  <2>1. /\ u # s /\ pc[u] = "mark" /\ currentPiece'[u] = currentPiece[u]
        /\ currentPiece[u] \in Pieces
    BY <2>0 DEF Inv, TypeInv, BusyHasPiece, TypeOK, SessionTypeOK
  <2>2. currentPiece[u] # i
    BY <2>1, SharedIsStolen DEF Live
  <2>3. HashOK(currentPiece[u])
    BY <1>1, <2>1 DEF DataInv, VerdictStands
  <2>4. disk'[currentPiece[u]] = disk[currentPiece[u]]
    <3>1. currentPiece[u] \in Checked
      BY <2>1 DEF Checked
    <3> QED BY <1>1, <2>1, <2>2, <3>1
  <2> QED BY <2>1, <2>3, <2>4 DEF HashOK
<1>5. CurrentNotPresent'
  <2> SUFFICES ASSUME NEW u \in Sessions, pc'[u] \notin {"none", "torn", "done"},
                      currentPiece'[u] \in present
               PROVE  currentPiece'[u] \in stolen
    BY <1>1 DEF CurrentNotPresent, Live
  <2>1. currentPiece'[u] # NoPiece
    BY DEF Inv, TypeInv, TypeOK, StoreTypeOK, Pieces, NoPiece
  <2>2. currentPiece'[u] = currentPiece[u] /\ pc[u] \notin {"none", "torn", "done"}
    BY <2>1 DEF Inv, TypeInv, TypeOK, SessionTypeOK
  <2> QED BY <2>2 DEF DataInv, CurrentNotPresent, Live
<1> QED
  BY <1>3, <1>4, <1>5 DEF DataInv
(* SetPresent at the end of VerifyPiece.                                      *)
LEMMA DataMark ==
  ASSUME Inv, DataInv, NEW s \in Sessions, MarkPiece(s)
  PROVE  DataInv'
<1> DEFINE i == currentPiece[s]
<1>1. /\ pc[s] = "mark" /\ i \in Pieces
      /\ present' = IF verdict[s] THEN present \union {i} ELSE present \ {i}
      /\ verdict' = [verdict EXCEPT ![s] = FALSE]
      /\ pc' = [pc EXCEPT ![s] = IF verdict[s] THEN "done" ELSE "fail"]
      /\ UNCHANGED <<disk, overrun, currentPiece, stolen>>
  BY DEF MarkPiece, SetPresent, Goto, pieceVars, Inv, TypeInv, BusyHasPiece
<1>2. PresentIsVerified'
  BY <1>1 DEF DataInv, PresentIsVerified, VerdictStands, HashOK
<1>3. VerdictStands'
  BY <1>1 DEF DataInv, VerdictStands, HashOK, Inv, TypeInv, TypeOK, SessionTypeOK
<1>4. CurrentNotPresent'
  <2> SUFFICES ASSUME NEW u \in Sessions, pc'[u] \notin {"none", "torn", "done"},
                      currentPiece[u] \in present'
               PROVE  currentPiece[u] \in stolen
    BY <1>1 DEF CurrentNotPresent, Live
  <2>1. CASE u = s
    BY <1>1, <2>1 DEF Inv, TypeInv, TypeOK, SessionTypeOK
  <2>2. CASE u # s
    <3>1. Live(u) /\ pc[u] # "done"
      BY <1>1, <2>2 DEF Live, Inv, TypeInv, TypeOK, SessionTypeOK
    <3>2. CASE currentPiece[u] = i
      BY <1>1, <2>2, <3>1, <3>2, SharedIsStolen DEF Live
    <3>3. CASE currentPiece[u] # i
      BY <1>1, <3>1, <3>3 DEF DataInv, CurrentNotPresent
    <3> QED BY <3>2, <3>3
  <2> QED BY <2>1, <2>2
<1> QED
  BY <1>2, <1>3, <1>4 DEF DataInv

LEMMA DataSessionStep ==
  ASSUME Inv, DataInv, NEW s \in Sessions, SessionStep(s)
  PROVE  DataInv'
<1> USE DEF Inv, TypeInv, TypeOK, SessionTypeOK
<1>1. CASE Pump(s, downBlocked)
  <2>1. /\ pc[s] = "pump" /\ pc' = [pc EXCEPT ![s] = "idle"]
        /\ UNCHANGED <<disk, present, overrun, stolen, verdict>>
    BY <1>1 DEF Pump, Goto, storeVars
  <2>2. CASE UNCHANGED currentPiece
    BY <2>1, <2>2, DataFrame
  <2>3. ASSUME NEW i \in Acquirable(peerBits[s]), RequestBlocks(s, i)
        PROVE  DataInv'
    <3>1. i \in Pieces /\ i \notin present /\ currentPiece' = [currentPiece EXCEPT ![s] = i]
      BY <2>3, AcquirableFree DEF RequestBlocks
    <3>2. PresentIsVerified' /\ VerdictStands'
      BY <2>1, <3>1 DEF DataInv, PresentIsVerified, VerdictStands, HashOK
    <3>3. CurrentNotPresent'
      BY <2>1, <3>1 DEF DataInv, CurrentNotPresent, Live
    <3> QED BY <3>2, <3>3 DEF DataInv
  <2>4. ASSUME RequestBlocks(s, currentPiece[s]) PROVE UNCHANGED currentPiece
    BY <2>4 DEF RequestBlocks
  <2> QED
    BY <1>1, <2>2, <2>3, <2>4 DEF Pump, pieceVars
<1>2. CASE VerifyPiece(s)
  <2>1. /\ pc[s] = "verify" /\ pc' = [pc EXCEPT ![s] = "mark"]
        /\ verdict' = [verdict EXCEPT ![s] = HashOK(currentPiece[s])]
        /\ UNCHANGED <<disk, present, overrun, stolen, currentPiece>>
    BY <1>2 DEF VerifyPiece, Goto, storeVars, pieceVars
  <2>2. PresentIsVerified' /\ CurrentNotPresent'
    BY <2>1 DEF DataInv, PresentIsVerified, CurrentNotPresent, Live, HashOK
  <2>3. VerdictStands'
    BY <2>1 DEF DataInv, VerdictStands, HashOK
  <2> QED BY <2>2, <2>3 DEF DataInv
<1>3. CASE MarkPiece(s)
  BY <1>3, DataMark
<1>4. CASE FinishPiece(s)
  BY <1>4, DataFrame DEF FinishPiece, Goto, storeVars
<1>5. CASE AbortPiece(s)
  BY <1>5, DataFrame DEF AbortPiece, ForgetPiece, Goto, storeVars
<1>6. CASE ReleaseTorn(s)
  <2>1. stolen \subseteq stolen'
    BY <1>6 DEF ReleaseTorn
  <2> QED BY <1>6, <2>1, DataFrame DEF ReleaseTorn, ForgetPiece, Goto, storeVars
<1>7. CASE CheckComplete(s)
  BY <1>7, DataFrame DEF CheckComplete, Goto, storeVars, pieceVars
<1> QED
  BY <1>1, <1>2, <1>3, <1>4, <1>5, <1>6, <1>7 DEF SessionStep

LEMMA DataPeerStep ==
  ASSUME Inv, DataInv, NEW s \in Sessions, PeerStep(s)
  PROVE  DataInv'
<1> USE DEF Inv, TypeInv, TypeOK, SessionTypeOK
<1>1. CASE Connect(s)
  <2>1. currentPiece[s] = NoPiece
    BY <1>1 DEF Connect, OwnerInv, NoneHasNoPiece
  <2> QED BY <1>1, <2>1, DataFrame DEF Connect, Goto, storeVars, pieceVars
<1>2. CASE RecvChoke(s)
  BY <1>2, DataFrame DEF RecvChoke, storeVars, pieceVars
<1>3. CASE RecvUnchoke(s)
  BY <1>3, DataFrame DEF RecvUnchoke, Goto, storeVars, pieceVars
<1>4. ASSUME NEW i \in Pieces, RecvHave(s, i) PROVE DataInv'
  BY <1>4, DataFrame DEF RecvHave, PumpIfFree, Goto, storeVars, pieceVars
<1>5. ASSUME NEW S \in Bitfields, RecvBitfield(s, S) PROVE DataInv'
  BY <1>5, DataFrame DEF RecvBitfield, PumpIfFree, Goto, storeVars, pieceVars
<1>6. ASSUME NEW b \in Blocks, RecvCancel(s, b) PROVE DataInv'
  BY <1>6, DataFrame DEF RecvCancel, storeVars
<1>7. ASSUME NEW b \in Blocks, NEW data \in Payloads, RecvBlock(s, b, data) PROVE DataInv'
  BY <1>7, DataWrite DEF RecvBlock, Goto, NoPiece
<1>8. ASSUME NEW b \in Blocks, NEW data \in Payloads \union {<< >>}, BlockWriteFails(s, b, data) PROVE DataInv'
  <2>1. pc' = [pc EXCEPT ![s] = "idle"]
    BY <1>8 DEF BlockWriteFails
  <2> QED BY <1>8, <2>1, DataWrite DEF BlockWriteFails, ForgetPiece
<1>9. CASE DropPeer(s)
  BY <1>9, DataFrame DEF DropPeer, Goto, storeVars, pieceVars
<1> QED
  BY <1>1, <1>2, <1>3, <1>4, <1>5, <1>6, <1>7, <1>8, <1>9 DEF PeerStep

LEMMA DataInvStep == Inv /\ DataInv /\ [Next]_vars => DataInv'
<1> SUFFICES ASSUME Inv, DataInv, [Next]_vars PROVE DataInv'
  OBVIOUS
<1>1. CASE (\E c \in Callers : SelectStep(c)) \/ UserStep \/ UNCHANGED vars
  <2>1. UNCHANGED <<disk, present, overrun, stolen, pc, currentPiece, verdict>>
    BY <1>1 DEF SelectStep, BuildMask, InstallMask, CheckSelection, SeedSelection, UserStep,
       Pause, Resume, ToggleDownloadBlocked, SetPriorityPieces, vars, storeVars, sessionVars
  <2> QED
    BY <2>1 DEF DataInv, PresentIsVerified, VerdictStands, CurrentNotPresent, Live, HashOK
<1> QED
  BY <1>1, DataSessionStep, DataPeerStep DEF Next

(* The pieces marked present are those whose data passes the hash check,      *)
(* unless the reservation of the piece was stolen or a message about another  *)
(* piece was too long.                                                        *)
THEOREM OnlyVerifiedPieces == Spec => []PresentIsVerified
<1>1. Init => Inv /\ DataInv
  BY InvInit, InitDataInv
<1>2. (Inv /\ DataInv) /\ [Next]_vars => (Inv /\ DataInv)'
  BY InvStep, DataInvStep
<1>3. Inv /\ DataInv => PresentIsVerified
  BY DEF DataInv
<1> QED
  BY <1>1, <1>2, <1>3, PTL DEF Spec

(* The only step that can take a piece back is SetPresent after a failed      *)
(* check, and it never meets a piece that is present.                         *)
LEMMA PresentStaysStep ==
  ASSUME Inv, DataInv, [Next]_vars
  PROVE  [\A i \in present : i \in present' \/ i \in stolen]_vars
<1>1. ASSUME NEW s \in Sessions, MarkPiece(s)
      PROVE  \A i \in present : i \in present' \/ i \in stolen
  BY <1>1 DEF MarkPiece, SetPresent, DataInv, CurrentNotPresent, Live
<1>2. \A s \in Sessions : SessionStep(s) => MarkPiece(s) \/ UNCHANGED present
  BY DEF SessionStep, Pump, VerifyPiece, FinishPiece, AbortPiece, ReleaseTorn, CheckComplete, storeVars
<1>3. \A s \in Sessions : PeerStep(s) => UNCHANGED present
  <2> SUFFICES ASSUME NEW s \in Sessions, PeerStep(s) PROVE UNCHANGED present
    OBVIOUS
  <2>1. CASE Connect(s) \/ RecvChoke(s) \/ RecvUnchoke(s) \/ DropPeer(s)
    BY <2>1 DEF Connect, RecvChoke, RecvUnchoke, DropPeer, storeVars
  <2>2. CASE \E i \in Pieces : RecvHave(s, i)
    BY <2>2 DEF RecvHave, storeVars
  <2>3. CASE \E S \in Bitfields : RecvBitfield(s, S)
    BY <2>3 DEF RecvBitfield, storeVars
  <2>4. CASE \E b \in Blocks : RecvCancel(s, b)
    BY <2>4 DEF RecvCancel, storeVars
  <2>5. CASE \E b \in Blocks, data \in Payloads \union {<< >>} :
                RecvBlock(s, b, data) \/ BlockWriteFails(s, b, data)
    BY <2>5 DEF RecvBlock, BlockWriteFails, WriteBlock, storeVars
  <2> QED
    BY <2>1, <2>2, <2>3, <2>4, <2>5 DEF PeerStep
<1>4. (\E c \in Callers : SelectStep(c)) \/ UserStep \/ UNCHANGED vars => UNCHANGED present
  BY DEF SelectStep, BuildMask, InstallMask, CheckSelection, SeedSelection, UserStep, Pause, Resume,
         ToggleDownloadBlocked, SetPriorityPieces, vars, storeVars
<1> QED BY <1>1, <1>2, <1>3, <1>4 DEF Next

(* A verified piece stays present.                                            *)
THEOREM VerifiedPiecesStay == Spec => PresentStays
<1>1. Init => Inv /\ DataInv
  BY InvInit, InitDataInv
<1>2. (Inv /\ DataInv) /\ [Next]_vars => (Inv /\ DataInv)'
  BY InvStep, DataInvStep
<1>3. Inv /\ DataInv /\ [Next]_vars => [\A i \in present : i \in present' \/ i \in stolen]_vars
  BY PresentStaysStep
<1> QED
  BY <1>1, <1>2, <1>3, PTL DEF Spec, PresentStays
-----------------------------------------------------------------------------
(* The two counters of requests.  Nothing is outstanding while a piece is     *)
(* being finished, nor without a piece unless a fault was met, and every      *)
(* block of a small piece is outstanding or written unless a message of that  *)
(* connection had no data.                                                    *)
NothingOutstanding(s) == outstanding[s] = {} /\ pendingBlocks[s] = 0

FinishingIsQuiet ==
  \A s \in Sessions : pc[s] \in {"verify", "mark", "done"} => NothingOutstanding(s)
IdleIsQuiet ==
  \A s \in Sessions : faults[s] = 0 /\ currentPiece[s] = NoPiece => NothingOutstanding(s)
AllRequested ==
  \A s \in Sessions \ empties :
     faults[s] = 0 /\ currentPiece[s] # NoPiece /\ NBlocks <= RequestWindow =>
        \A b \in Blocks : b \in outstanding[s] \/ disk[currentPiece[s]][b] # "none"

RequestInv == FinishingIsQuiet /\ IdleIsQuiet /\ AllRequested

LEMMA InitRequestInv == Init => RequestInv
  BY DEF Init, SessionInit, RequestInv, FinishingIsQuiet, IdleIsQuiet, AllRequested,
         NothingOutstanding

(* With nothing outstanding the whole of a small piece is requested.          *)
LEMMA WholePieceRequested ==
  ASSUME NBlocks <= RequestWindow
  PROVE  NextRequests({}, 0) = Blocks
<1>1. IsFiniteSet(Blocks) /\ Cardinality(Blocks) = NBlocks
  BY FS_Interval, StoreAssumption DEF Blocks
<1>2. ASSUME NEW b \in Blocks
      PROVE  Cardinality({c \in Blocks \ {} : c < b}) < RequestWindow - 0
  <2> DEFINE S == {c \in Blocks \ {} : c < b}
  <2>1. S \subseteq Blocks /\ b \notin S
    BY StoreAssumption DEF Blocks
  <2>2. IsFiniteSet(S) /\ Cardinality(S) <= Cardinality(Blocks)
        /\ (Cardinality(S) = Cardinality(Blocks) => S = Blocks)
    BY <1>1, <2>1, FS_Subset
  <2>3. Cardinality(S) \in Nat
    BY <2>2, FS_CardinalityType
  <2>4. Cardinality(S) < NBlocks
    BY <1>1, <2>1, <2>2, <2>3, StoreAssumption
  <2>5. Cardinality(S) < RequestWindow - 0
    BY <2>3, <2>4, StoreAssumption, SessionAssumption
  <2> QED BY <2>5
<1> QED
  BY <1>2 DEF NextRequests

(* A step that leaves requests, pieces and faults alone, writes nothing, and  *)
(* finishes no piece that was not being finished.                             *)
LEMMA RequestFrame ==
  ASSUME Inv, RequestInv, UNCHANGED <<disk, currentPiece, outstanding, pendingBlocks, faults, empties>>,
         \A u \in Sessions : pc'[u] \in {"verify", "mark", "done"}
                             => pc[u] \in {"verify", "mark", "done"}
  PROVE  RequestInv'
BY DEF RequestInv, FinishingIsQuiet, IdleIsQuiet, AllRequested, NothingOutstanding

(* A write of a session leaves no block unwritten.                            *)
LEMMA WritesStay ==
  ASSUME Inv, NEW i \in Pieces, NEW b \in Blocks, NEW data \in Payloads \union {<< >>},
         WriteBlock(i, b, data, Checked)
  PROVE  /\ \A j \in Pieces, c \in Blocks : disk[j][c] # "none" => disk'[j][c] # "none"
         /\ DOMAIN data # {} => disk'[i][b] # "none"
<1>1. TypeOK /\ Checked \in SUBSET Pieces
  BY DEF Checked, Inv, TypeInv, TypeOK, StoreTypeOK, BusyHasPiece
<1> QED
  BY <1>1, WriteEffect

(* A step of s that forgets its piece, or has just finished it.               *)
LEMMA RequestForget ==
  ASSUME Inv, RequestInv, NEW s \in Sessions,
         \A j \in Pieces, c \in Blocks : disk[j][c] # "none" => disk'[j][c] # "none",
         currentPiece' = [currentPiece EXCEPT ![s] = NoPiece],
         NothingOutstanding(s)',
         \A u \in Sessions \ {s} : /\ outstanding'[u] = outstanding[u]
                                   /\ pendingBlocks'[u] = pendingBlocks[u]
                                   /\ faults'[u] = faults[u] /\ pc'[u] = pc[u]
                                   /\ u \in empties => u \in empties'
  PROVE  RequestInv'
<1>1. FinishingIsQuiet'
  BY DEF RequestInv, FinishingIsQuiet, NothingOutstanding
<1>2. IdleIsQuiet'
  BY DEF RequestInv, IdleIsQuiet, NothingOutstanding, Inv, TypeInv, TypeOK, SessionTypeOK
<1>3. AllRequested'
  <2> SUFFICES ASSUME NEW u \in Sessions \ empties', faults'[u] = 0, currentPiece'[u] # NoPiece,
                      NBlocks <= RequestWindow, NEW b \in Blocks
               PROVE  b \in outstanding'[u] \/ disk'[currentPiece'[u]][b] # "none"
    BY DEF AllRequested
  <2>1. /\ u # s /\ currentPiece'[u] = currentPiece[u] /\ currentPiece[u] \in Pieces
        /\ faults[u] = 0 /\ outstanding'[u] = outstanding[u] /\ u \notin empties
    BY DEF Inv, TypeInv, TypeOK, SessionTypeOK
  <2>2. b \in outstanding[u] \/ disk[currentPiece[u]][b] # "none"
    BY <2>1 DEF RequestInv, AllRequested, NoPiece, Pieces
  <2> QED BY <2>1, <2>2
<1> QED
  BY <1>1, <1>2, <1>3 DEF RequestInv

(* pumpRequests asks for blocks of piece i.                                   *)
LEMMA RequestPump ==
  ASSUME Inv, RequestInv, NEW s \in Sessions, pc[s] = "pump", NEW i \in Pieces,
         i = currentPiece[s] \/ currentPiece[s] = NoPiece,
         RequestBlocks(s, i), pc' = [pc EXCEPT ![s] = "idle"], UNCHANGED <<disk, empties>>
  PROVE  RequestInv'
<1> DEFINE R == NextRequests(outstanding[s], pendingBlocks[s])
<1> USE DEF Inv, TypeInv, TypeOK, SessionTypeOK
<1>1. \A u \in Sessions \ {s} : /\ currentPiece'[u] = currentPiece[u] /\ pc'[u] = pc[u]
                                 /\ outstanding'[u] = outstanding[u]
                                 /\ pendingBlocks'[u] = pendingBlocks[u]
                                 /\ faults'[u] = faults[u]
  BY DEF RequestBlocks, SentRequests
<1>2. currentPiece'[s] = i /\ i # NoPiece
  BY DEF RequestBlocks, NoPiece, Pieces
<1>3. outstanding[s] \subseteq outstanding'[s]
  <2>1. \E Q : outstanding' = [outstanding EXCEPT ![s] = @ \union Q]
    BY DEF RequestBlocks, SentRequests
  <2> QED BY <2>1
<1>4. faults'[s] = 0 => faults[s] = 0 /\ outstanding'[s] = outstanding[s] \union R
  <2>1. CASE SentRequests(s, R) /\ UNCHANGED faults
    BY <2>1 DEF SentRequests
  <2>2. CASE faults' = [faults EXCEPT ![s] = @ + 1]
    <3>1. faults'[s] = faults[s] + 1 /\ faults[s] \in 0 .. MaxFaults
      BY <2>2
    <3> QED BY <3>1, SessionAssumption
  <2> QED BY <2>1, <2>2 DEF RequestBlocks
<1>5. FinishingIsQuiet' /\ IdleIsQuiet'
  BY <1>1, <1>2 DEF RequestInv, FinishingIsQuiet, IdleIsQuiet, NothingOutstanding
<1>6. AllRequested'
  <2> SUFFICES ASSUME NEW u \in Sessions \ empties', faults'[u] = 0, currentPiece'[u] # NoPiece,
                      NBlocks <= RequestWindow, NEW b \in Blocks
               PROVE  b \in outstanding'[u] \/ disk[currentPiece'[u]][b] # "none"
    BY DEF AllRequested
  <2>1. CASE u # s
    BY <1>1, <2>1 DEF RequestInv, AllRequested
  <2>2. CASE u = s /\ currentPiece[s] # NoPiece
    BY <1>2, <1>3, <1>4, <2>2 DEF RequestInv, AllRequested
  <2>3. CASE u = s /\ currentPiece[s] = NoPiece
    <3>1. outstanding[s] = {} /\ pendingBlocks[s] = 0
      BY <1>4, <2>3 DEF RequestInv, IdleIsQuiet, NothingOutstanding
    <3>2. R = Blocks
      BY <3>1, WholePieceRequested
    <3> QED BY <1>4, <2>3, <3>2
  <2> QED BY <2>1, <2>2, <2>3
<1> QED
  BY <1>5, <1>6 DEF RequestInv
LEMMA RequestSessionStep ==
  ASSUME Inv, RequestInv, NEW s \in Sessions, SessionStep(s)
  PROVE  RequestInv'
<1> USE DEF Inv, TypeInv, TypeOK, SessionTypeOK
<1>1. CASE Pump(s, downBlocked)
  <2>1. pc[s] = "pump" /\ pc' = [pc EXCEPT ![s] = "idle"]
        /\ UNCHANGED <<disk, empties>>
    BY <1>1 DEF Pump, Goto, storeVars
  <2>2. CASE UNCHANGED <<pieceVars, faults>>
    BY <2>1, <2>2, RequestFrame DEF pieceVars
  <2>3. CASE currentPiece[s] # NoPiece /\ RequestBlocks(s, currentPiece[s])
    BY <2>1, <2>3, RequestPump
  <2>4. ASSUME NEW i \in Acquirable(peerBits[s]), currentPiece[s] = NoPiece, RequestBlocks(s, i)
        PROVE  RequestInv'
    <3>1. i \in Pieces
      BY AcquirableFree
    <3> QED BY <2>1, <2>4, <3>1, RequestPump
  <2> QED
    BY <1>1, <2>2, <2>3, <2>4 DEF Pump
<1>2. CASE VerifyPiece(s)
  BY <1>2, RequestFrame DEF VerifyPiece, Goto, storeVars, pieceVars, loopVars
<1>3. CASE MarkPiece(s)
  BY <1>3, RequestFrame DEF MarkPiece, SetPresent, Goto, pieceVars, loopVars
<1>4. CASE FinishPiece(s)
  <2>1. NothingOutstanding(s)'
    BY <1>4 DEF FinishPiece, RequestInv, FinishingIsQuiet, NothingOutstanding
  <2> QED BY <1>4, <2>1, RequestForget DEF FinishPiece, Goto, storeVars, loopVars
<1>5. CASE AbortPiece(s)
  <2>1. NothingOutstanding(s)'
    BY <1>5 DEF AbortPiece, ForgetPiece, NothingOutstanding
  <2> QED BY <1>5, <2>1, RequestForget DEF AbortPiece, ForgetPiece, Goto, storeVars, loopVars
<1>6. CASE ReleaseTorn(s)
  <2>1. NothingOutstanding(s)'
    BY <1>6 DEF ReleaseTorn, ForgetPiece, NothingOutstanding
  <2> QED BY <1>6, <2>1, RequestForget DEF ReleaseTorn, ForgetPiece, Goto, storeVars
<1>7. CASE CheckComplete(s)
  BY <1>7, RequestFrame DEF CheckComplete, Goto, storeVars, pieceVars, loopVars
<1> QED
  BY <1>1, <1>2, <1>3, <1>4, <1>5, <1>6, <1>7 DEF SessionStep

(* handlePiece: a block arrives and is written.                               *)
LEMMA RequestReceive ==
  ASSUME Inv, RequestInv, NEW s \in Sessions, NEW b \in Blocks, NEW data \in Payloads,
         RecvBlock(s, b, data)
  PROVE  RequestInv'
<1> DEFINE i == currentPiece[s]
<1> USE DEF Inv, TypeInv, TypeOK, SessionTypeOK
<1>1. /\ i \in Pieces /\ b \in outstanding[s]
      /\ outstanding' = [outstanding EXCEPT ![s] = @ \ {b}]
      /\ pendingBlocks' = [pendingBlocks EXCEPT ![s] = @ - 1]
      /\ WriteBlock(i, b, data, Checked)
      /\ empties' = IF DOMAIN data = {} THEN empties \union {s} ELSE empties
      /\ pc' = [pc EXCEPT ![s] = IF outstanding[s] = {b} /\ pendingBlocks[s] = 1
                                  THEN "verify" ELSE "idle"]
      /\ UNCHANGED <<currentPiece, faults>>
  BY DEF RecvBlock, Goto, NoPiece
<1>2. /\ \A j \in Pieces, c \in Blocks : disk[j][c] # "none" => disk'[j][c] # "none"
      /\ s \in empties' \/ disk'[i][b] # "none"
  BY <1>1, WritesStay
<1>3. FinishingIsQuiet'
  BY <1>1 DEF RequestInv, FinishingIsQuiet, NothingOutstanding
<1>4. IdleIsQuiet'
  BY <1>1 DEF RequestInv, IdleIsQuiet, NothingOutstanding, NoPiece, Pieces
<1>5. AllRequested'
  <2> SUFFICES ASSUME NEW u \in Sessions \ empties', faults[u] = 0, currentPiece[u] # NoPiece,
                      NBlocks <= RequestWindow, NEW c \in Blocks
               PROVE  c \in outstanding'[u] \/ disk'[currentPiece[u]][c] # "none"
    BY <1>1 DEF AllRequested
  <2>1. c \in outstanding[u] \/ disk[currentPiece[u]][c] # "none"
    BY <1>1 DEF RequestInv, AllRequested
  <2>2. currentPiece[u] \in Pieces
    OBVIOUS
  <2>3. c \in outstanding[u] => c \in outstanding'[u] \/ (u = s /\ c = b)
    BY <1>1
  <2> QED BY <1>2, <2>1, <2>2, <2>3
<1> QED
  BY <1>3, <1>4, <1>5 DEF RequestInv

LEMMA RequestPeerStep ==
  ASSUME Inv, RequestInv, NEW s \in Sessions, PeerStep(s)
  PROVE  RequestInv'
<1> USE DEF Inv, TypeInv, TypeOK, SessionTypeOK
<1>1. CASE Connect(s)
  BY <1>1, RequestFrame DEF Connect, Goto, storeVars, pieceVars, loopVars
<1>2. CASE RecvChoke(s)
  BY <1>2, RequestFrame DEF RecvChoke, storeVars, pieceVars
<1>3. CASE RecvUnchoke(s)
  BY <1>3, RequestFrame DEF RecvUnchoke, Goto, storeVars, pieceVars
<1>4. ASSUME NEW i \in Pieces, RecvHave(s, i) PROVE RequestInv'
  BY <1>4, RequestFrame DEF RecvHave, PumpIfFree, Goto, storeVars, pieceVars
<1>5. ASSUME NEW S \in Bitfields, RecvBitfield(s, S) PROVE RequestInv'
  BY <1>5, RequestFrame DEF RecvBitfield, PumpIfFree, Goto, storeVars, pieceVars
<1>6. ASSUME NEW b \in Blocks, RecvCancel(s, b) PROVE RequestInv'
  <2>1. /\ pc[s] = "idle" /\ faults'[s] # 0
        /\ UNCHANGED <<disk, pc, currentPiece, empties>>
        /\ \A u \in Sessions \ {s} : /\ outstanding'[u] = outstanding[u]
                                      /\ pendingBlocks'[u] = pendingBlocks[u]
                                      /\ faults'[u] = faults[u]
    BY <1>6, SessionAssumption DEF RecvCancel, storeVars
  <2>2. FinishingIsQuiet'
    BY <2>1 DEF RequestInv, FinishingIsQuiet, NothingOutstanding
  <2>3. IdleIsQuiet'
    BY <2>1 DEF RequestInv, IdleIsQuiet, NothingOutstanding
  <2>4. AllRequested'
    BY <2>1 DEF RequestInv, AllRequested
  <2> QED BY <2>2, <2>3, <2>4 DEF RequestInv
<1>7. ASSUME NEW b \in Blocks, NEW data \in Payloads, RecvBlock(s, b, data) PROVE RequestInv'
  BY <1>7, RequestReceive
<1>8. ASSUME NEW b \in Blocks, NEW data \in Payloads \union {<< >>}, BlockWriteFails(s, b, data) PROVE RequestInv'
  <2>1. currentPiece[s] \in Pieces /\ WriteBlock(currentPiece[s], b, data, Checked)
    BY <1>8 DEF BlockWriteFails, NoPiece
  <2>2. \A j \in Pieces, c \in Blocks : disk[j][c] # "none" => disk'[j][c] # "none"
    BY <2>1, WritesStay
  <2>3. NothingOutstanding(s)'
    BY <1>8 DEF BlockWriteFails, ForgetPiece, NothingOutstanding
  <2> QED BY <1>8, <2>2, <2>3, RequestForget DEF BlockWriteFails, ForgetPiece, loopVars
<1>9. CASE DropPeer(s)
  BY <1>9, RequestFrame DEF DropPeer, Goto, storeVars, pieceVars, loopVars
<1> QED
  BY <1>1, <1>2, <1>3, <1>4, <1>5, <1>6, <1>7, <1>8, <1>9 DEF PeerStep

LEMMA RequestInvStep == Inv /\ RequestInv /\ [Next]_vars => RequestInv'
<1> SUFFICES ASSUME Inv, RequestInv, [Next]_vars PROVE RequestInv'
  OBVIOUS
<1>1. CASE (\E c \in Callers : SelectStep(c)) \/ UserStep \/ UNCHANGED vars
  <2>1. UNCHANGED <<disk, currentPiece, outstanding, pendingBlocks, faults, empties, pc>>
    BY <1>1 DEF SelectStep, BuildMask, InstallMask, CheckSelection, SeedSelection, UserStep,
       Pause, Resume, ToggleDownloadBlocked, SetPriorityPieces, vars, storeVars, sessionVars
  <2> QED BY <2>1, RequestFrame
<1> QED
  BY <1>1, RequestSessionStep, RequestPeerStep DEF Next

(* A piece that fits the request window is hashed only after each of its      *)
(* blocks was written, on connections without a Cancel, a failed send or a    *)
(* piece message without data.                                                *)
THEOREM SmallPiecesVerifiedWhole == Spec => []VerifiesWholeSmallPiece
<1>1. Init => Inv /\ RequestInv
  BY InvInit, InitRequestInv
<1>2. (Inv /\ RequestInv) /\ [Next]_vars => (Inv /\ RequestInv)'
  BY InvStep, RequestInvStep
<1>3. Inv /\ RequestInv => VerifiesWholeSmallPiece
  <2> SUFFICES ASSUME Inv, RequestInv, NEW s \in Sessions \ empties, pc[s] = "verify", faults[s] = 0,
                      NBlocks <= RequestWindow, NEW b \in Blocks
               PROVE  disk[currentPiece[s]][b] # "none"
    BY DEF VerifiesWholeSmallPiece
  <2>1. currentPiece[s] # NoPiece
    BY DEF Inv, TypeInv, BusyHasPiece, NoPiece, Pieces
  <2>2. outstanding[s] = {}
    BY DEF RequestInv, FinishingIsQuiet, NothingOutstanding
  <2> QED BY <2>1, <2>2 DEF RequestInv, AllRequested
<1> QED
  BY <1>1, <1>2, <1>3, PTL DEF Spec
-----------------------------------------------------------------------------
(* The rarity counters.                                                       *)
Announcers(i) == {s \in Sessions : i \in coveredBy[s]}

LEMMA AnnouncersFinite ==
  ASSUME NEW i
  PROVE  IsFiniteSet(Announcers(i)) /\ Cardinality(Announcers(i)) \in Nat
<1>1. IsFiniteSet(Announcers(i))
  BY FS_Subset, PickerAssumption DEF Announcers
<1> QED
  BY <1>1, FS_CardinalityType

(* peerHave and peerBitfield count a session once for a piece.                *)
LEMMA CountPeerHas ==
  ASSUME TypeInv, HaveCountExact, NEW s \in Sessions, NEW S \in SUBSET Pieces, PeerHas(s, S)
  PROVE  HaveCountExact'
<1> SUFFICES ASSUME NEW i \in Pieces
             PROVE  peerHaveCount'[i] = Cardinality(Announcers(i)')
  BY DEF HaveCountExact, Announcers
<1>1. peerHaveCount[i] = Cardinality(Announcers(i))
  BY DEF HaveCountExact, Announcers
<1>2. CASE i \in S \ coveredBy[s]
  <2>1. Announcers(i)' = Announcers(i) \union {s} /\ s \notin Announcers(i)
    BY <1>2 DEF PeerHas, Announcers, TypeInv, TypeOK, PickerTypeOK
  <2>2. Cardinality(Announcers(i)') = Cardinality(Announcers(i)) + 1
    BY <2>1, AnnouncersFinite, FS_AddElement
  <2>3. peerHaveCount'[i] = peerHaveCount[i] + 1
    BY <1>2 DEF PeerHas
  <2> QED BY <1>1, <2>2, <2>3
<1>3. CASE i \notin S \ coveredBy[s]
  <2>1. Announcers(i)' = Announcers(i)
    BY <1>3 DEF PeerHas, Announcers, TypeInv, TypeOK, PickerTypeOK
  <2>2. peerHaveCount'[i] = peerHaveCount[i]
    BY <1>3 DEF PeerHas
  <2> QED BY <1>1, <2>1, <2>2
<1> QED
  BY <1>2, <1>3

(* delPeer takes back what the session announced.                             *)
LEMMA CountDelPeer ==
  ASSUME TypeInv, HaveCountExact, NEW s \in Sessions, DelPeer(s)
  PROVE  HaveCountExact'
<1> SUFFICES ASSUME NEW i \in Pieces
             PROVE  peerHaveCount'[i] = Cardinality(Announcers(i)')
  BY DEF HaveCountExact, Announcers
<1>1. peerHaveCount[i] = Cardinality(Announcers(i))
  BY DEF HaveCountExact, Announcers
<1>2. CASE i \in coveredBy[s]
  <2>1. Announcers(i)' = Announcers(i) \ {s} /\ s \in Announcers(i)
    BY <1>2 DEF DelPeer, Announcers, TypeInv, TypeOK, PickerTypeOK
  <2>2. Cardinality(Announcers(i)') = Cardinality(Announcers(i)) - 1
    BY <2>1, AnnouncersFinite, FS_RemoveElement
  <2>3. Cardinality(Announcers(i)) > 0
    BY <2>1, AnnouncersFinite, FS_EmptySet
  <2>4. peerHaveCount'[i] = peerHaveCount[i] - 1
    BY <1>1, <1>2, <2>3 DEF DelPeer
  <2> QED BY <1>1, <2>2, <2>4
<1>3. CASE i \notin coveredBy[s]
  <2>1. Announcers(i)' = Announcers(i)
    BY <1>3 DEF DelPeer, Announcers, TypeInv, TypeOK, PickerTypeOK
  <2>2. peerHaveCount'[i] = peerHaveCount[i]
    BY <1>3 DEF DelPeer
  <2> QED BY <1>1, <2>1, <2>2
<1> QED
  BY <1>2, <1>3

LEMMA CountStep == TypeInv /\ HaveCountExact /\ [Next]_vars => HaveCountExact'
<1> SUFFICES ASSUME TypeInv, HaveCountExact, [Next]_vars PROVE HaveCountExact'
  OBVIOUS
<1>1. CASE UNCHANGED <<coveredBy, peerHaveCount>>
  BY <1>1 DEF HaveCountExact
<1>2. ASSUME NEW s \in Sessions, PeerStep(s) PROVE HaveCountExact'
  <2>1. ASSUME NEW i \in Pieces, RecvHave(s, i) PROVE HaveCountExact'
    BY <2>1, CountPeerHas DEF RecvHave
  <2>2. ASSUME NEW S \in Bitfields, RecvBitfield(s, S) PROVE HaveCountExact'
    BY <2>2, TransferAssumption, CountPeerHas DEF RecvBitfield
  <2>3. CASE DropPeer(s)
    BY <2>3, CountDelPeer DEF DropPeer
  <2> QED
    BY <1>1, <1>2, <2>1, <2>2, <2>3
    DEF PeerStep, Connect, AddPeer, RecvChoke, RecvUnchoke, RecvCancel, RecvBlock,
        BlockWriteFails, Release, pickerVars
<1>3. ASSUME NEW s \in Sessions, SessionStep(s) PROVE HaveCountExact'
  BY <1>1, <1>3
  DEF SessionStep, Pump, Acquire, AcquireNothing, VerifyPiece, MarkPiece, FinishPiece,
      AbortPiece, ReleaseTorn, Release, CheckComplete, pickerVars
<1>4. CASE (\E c \in Callers : SelectStep(c)) \/ UserStep \/ UNCHANGED vars
  BY <1>1, <1>4
  DEF SelectStep, BuildMask, InstallMask, SetSkip, CheckSelection, SeedSelection, UserStep,
      Pause, Resume, ToggleDownloadBlocked, SetPriorityPieces, SetPriority, vars, pickerVars
<1> QED
  BY <1>2, <1>3, <1>4 DEF Next

(* The rarity counter of a piece is the number of connected peers that        *)
(* announced it, whatever they announced twice.                               *)
THEOREM RarityCountsExact == Spec => []HaveCountExact
<1>1. Init => HaveCountExact
  <2> SUFFICES ASSUME Init, NEW i \in Pieces
               PROVE  peerHaveCount[i] = Cardinality({s \in Sessions : i \in coveredBy[s]})
    BY DEF HaveCountExact
  <2>1. {s \in Sessions : i \in coveredBy[s]} = {} /\ peerHaveCount[i] = 0
    BY DEF Init, PickerInit
  <2> QED BY <2>1, FS_EmptySet
<1>2. (TypeInv /\ HaveCountExact) /\ [Next]_vars => (TypeInv /\ HaveCountExact)'
  BY TypeInvStep, CountStep
<1> QED
  BY InitTypeInv, <1>1, <1>2, PTL DEF Spec

-----------------------------------------------------------------------------
(* Completion: the step that makes the torrent complete leaves its author on  *)
(* the way to the state check.                                                *)
SomeoneChecks ==
  \/ \E s \in Sessions : pc[s] \in {"done", "check"}
  \/ \E c \in Callers : callPc[c] \in {"check", "seed"}

LEMMA CompletionStep == TypeInv /\ NoMissedCompletion /\ [Next]_vars => NoMissedCompletion'
<1> SUFFICES ASSUME TypeInv, NoMissedCompletion, [Next]_vars,
                    state' = "downloading", WantedComplete'
             PROVE  SomeoneChecks'
  BY DEF NoMissedCompletion, SomeoneChecks
<1> USE DEF SomeoneChecks, TypeInv, TypeOK, SessionTypeOK, StoreTypeOK
<1>1. CASE UNCHANGED <<present, skip, state, pc, callPc>>
  BY <1>1 DEF NoMissedCompletion, WantedComplete
<1>2. ASSUME NEW s \in Sessions, SessionStep(s)
      PROVE  SomeoneChecks'
  <2>1. ASSUME UNCHANGED <<present, skip, state, callPc>>, pc[s] \notin {"done", "check"},
               \A u \in Sessions \ {s} : pc'[u] = pc[u]
        PROVE  SomeoneChecks'
    BY <2>1 DEF NoMissedCompletion, WantedComplete
  <2>2. CASE Pump(s, downBlocked) /\ UNCHANGED userVars
    BY <2>1, <2>2
    DEF Pump, Goto, Acquire, AcquireNothing, storeVars, pickerVars, userVars
  <2>3. CASE VerifyPiece(s) /\ UNCHANGED userVars
    BY <2>1, <2>3 DEF VerifyPiece, Goto, storeVars, pickerVars, userVars
  <2>4. CASE MarkPiece(s) /\ UNCHANGED userVars
    <3>1. CASE verdict[s]
      BY <2>4, <3>1 DEF MarkPiece, Goto
    <3>2. CASE ~verdict[s]
      <4>1. WantedComplete
        BY <2>4, <3>2 DEF MarkPiece, SetPresent, WantedComplete, pickerVars
      <4>2. /\ pc[s] = "mark" /\ state = "downloading" /\ UNCHANGED callPc
            /\ \A u \in Sessions \ {s} : pc'[u] = pc[u]
        BY <2>4 DEF MarkPiece, Goto, userVars
      <4> QED BY <4>1, <4>2 DEF NoMissedCompletion
    <3> QED BY <3>1, <3>2
  <2>5. CASE FinishPiece(s) /\ UNCHANGED userVars
    BY <2>5 DEF FinishPiece, Goto
  <2>6. CASE AbortPiece(s) /\ UNCHANGED userVars
    BY <2>1, <2>6 DEF AbortPiece, Goto, storeVars, userVars
  <2>7. CASE ReleaseTorn(s) /\ UNCHANGED userVars
    BY <2>1, <2>7 DEF ReleaseTorn, Goto, storeVars, userVars
  <2>8. CASE CheckComplete(s)
    BY <2>8 DEF CheckComplete, WantedComplete, storeVars, pickerVars
  <2> QED
    BY <1>2, <2>2, <2>3, <2>4, <2>5, <2>6, <2>7, <2>8 DEF SessionStep
<1>3. ASSUME NEW s \in Sessions, PeerStep(s)
      PROVE  SomeoneChecks'
  <2>1. UNCHANGED <<present, skip, state, callPc>>
    BY <1>3 DEF PeerStep, Connect, AddPeer, RecvChoke, RecvUnchoke, RecvHave, RecvBitfield,
       PeerHas, RecvCancel, RecvBlock, BlockWriteFails, WriteBlock, DropPeer, DelPeer,
       storeVars, pickerVars, userVars
  <2>2. (pc[s] \in {"none", "idle"}) /\ \A u \in Sessions \ {s} : pc'[u] = pc[u]
    BY <1>3 DEF PeerStep, Connect, RecvChoke, RecvUnchoke, RecvHave, RecvBitfield, PumpIfFree,
       Goto, RecvCancel, RecvBlock, BlockWriteFails, DropPeer
  <2> QED BY <2>1, <2>2 DEF NoMissedCompletion, WantedComplete
<1>4. ASSUME NEW c \in Callers, SelectStep(c)
      PROVE  SomeoneChecks'
  <2>1. UNCHANGED <<present, pc>> /\ \A d \in Callers \ {c} : callPc'[d] = callPc[d]
    BY <1>4 DEF SelectStep, BuildMask, InstallMask, CheckSelection, SeedSelection,
                storeVars, sessionVars
  <2>2. CASE \E M \in SUBSET Pieces : BuildMask(c, M)
    BY <2>1, <2>2 DEF BuildMask, NoMissedCompletion, WantedComplete, pickerVars
  <2>3. CASE InstallMask(c)
    BY <2>3 DEF InstallMask
  <2>4. CASE CheckSelection(c)
    BY <2>1, <2>4 DEF CheckSelection, NoMissedCompletion, WantedComplete, pickerVars, storeVars
  <2>5. CASE SeedSelection(c)
    BY <2>5 DEF SeedSelection
  <2> QED BY <1>4, <2>2, <2>3, <2>4, <2>5 DEF SelectStep
<1>5. CASE UserStep
  <2>1. UNCHANGED <<present, skip, pc, callPc>>
    BY <1>5 DEF UserStep, Pause, Resume, ToggleDownloadBlocked, SetPriorityPieces, SetPriority,
                storeVars, pickerVars, sessionVars, userVars
  <2>2. state = "downloading"
    BY <1>5, <2>1 DEF UserStep, Pause, Resume, ToggleDownloadBlocked, SetPriorityPieces,
                      userVars, WantedComplete
  <2> QED BY <2>1, <2>2 DEF NoMissedCompletion, WantedComplete
<1> QED
  BY <1>1, <1>2, <1>3, <1>4, <1>5
  DEF Next, vars, storeVars, pickerVars, sessionVars, userVars

(* A torrent that has all it wants does not stay downloading: somebody is     *)
(* about to look.                                                             *)
THEOREM CompletionNotMissed == Spec => []NoMissedCompletion
<1>1. Init => NoMissedCompletion
  BY DEF Init, NoMissedCompletion
<1>2. (TypeInv /\ NoMissedCompletion) /\ [Next]_vars => (TypeInv /\ NoMissedCompletion)'
  BY TypeInvStep, CompletionStep
<1> QED
  BY InitTypeInv, <1>1, <1>2, PTL DEF Spec

-----------------------------------------------------------------------------
(* The board of pieces.  A step moves at most one piece on it.               *)
Unseen(i) == i \in present \union stolen

LEMMA BoardStutter ==
  ASSUME UNCHANGED <<reserved, present, stolen>>
  PROVE  UNCHANGED Board!vars
BY DEF Board!vars

LEMMA BoardInit == Init => Board!Init
BY DEF Init, StoreInit, PickerInit, SessionInit, Board!Init

(* Only what is not present and not stolen is seen to be reserved.            *)
LEMMA BoardMove ==
  ASSUME Inv, NEW i \in Pieces, NEW o, reserved' = [reserved EXCEPT ![i] = o],
         UNCHANGED <<present, stolen>>, Unseen(i)
  PROVE  UNCHANGED Board!vars
BY DEF Board!vars, Unseen, Inv, TypeInv, TypeOK, PickerTypeOK

(* A session without a piece has claimed nothing.                             *)
LEMMA BoardClaim ==
  ASSUME Inv, NEW s \in Sessions, currentPiece[s] = NoPiece,
         NEW i \in Acquirable(peerBits[s]), Acquire(s, i), UNCHANGED <<present, stolen>>
  PROVE  [Board!Next]_(Board!vars)
<1>1. /\ i \in Pieces /\ i \notin present /\ reserved[i] = NoSession
      /\ reserved' = [reserved EXCEPT ![i] = s]
  <2>1. TypeOK
    BY DEF Inv, TypeInv
  <2> QED
    BY <2>1, AcquirableFree DEF Acquire
<1>2. \A j \in Pieces : reserved[j] # s
  BY PickerAssumption DEF Inv, OwnerInv, NoLeakedReservation, NoPiece, Pieces
<1>3. CASE i \in stolen
  BY <1>1, <1>3, BoardMove DEF Unseen
<1>4. CASE i \notin stolen
  <2>1. reserved \in [Pieces -> Sessions \union {NoSession}] /\ s # NoSession
    BY PickerAssumption DEF Inv, TypeInv, TypeOK, PickerTypeOK
  <2>2. Board!Missing(i)
    BY <1>1, <1>4 DEF Board!Missing
  <2>3. Board!Claim(s, i)
    BY <1>1, <1>2, <1>4, <2>1, <2>2 DEF Board!Claim
  <2> QED
    BY <1>1, <2>3 DEF Board!Next
<1> QED
  BY <1>3, <1>4

(* Letting go of a piece that is nobody else's.                               *)
LEMMA BoardGiveBack ==
  ASSUME Inv, NEW s \in Sessions, NEW i \in Pieces, Unseen(i) \/ reserved[i] = s,
         Release(i), UNCHANGED <<present, stolen>>
  PROVE  [Board!Next]_(Board!vars)
<1>1. CASE Unseen(i)
  BY <1>1, BoardMove DEF Release
<1>2. CASE ~Unseen(i) /\ reserved[i] = s
  <2>1. Board!GiveBack(s, i)
    BY <1>2 DEF Board!GiveBack, Unseen, Release, Inv, TypeInv, TypeOK, PickerTypeOK
  <2> QED
    BY <2>1 DEF Board!Next
<1> QED
  BY <1>1, <1>2

(* A connected session lets go of the piece it downloads.                     *)
LEMMA BoardReleaseOwn ==
  ASSUME Inv, NEW s \in Sessions, Live(s), currentPiece[s] \in Pieces,
         Release(currentPiece[s]), UNCHANGED <<present, stolen>>
  PROVE  [Board!Next]_(Board!vars)
<1>1. Unseen(currentPiece[s]) \/ reserved[currentPiece[s]] = s
  BY DEF Inv, OwnerInv, OwnsCurrentPiece, NoPiece, Pieces, Unseen
<1> QED
  BY <1>1, BoardGiveBack

(* Only who has claimed a piece finishes it, and no finished piece is taken   *)
(* back by a check that fails.                                                *)
LEMMA BoardMark ==
  ASSUME Inv, DataInv, NEW s \in Sessions, MarkPiece(s)
  PROVE  [Board!Next]_(Board!vars)
<1>0. PICK i \in Pieces : i = currentPiece[s]
  BY DEF MarkPiece, Inv, TypeInv, BusyHasPiece
<1>1. /\ pc[s] = "mark"
      /\ present' = IF verdict[s] THEN present \union {i} ELSE present \ {i}
      /\ UNCHANGED <<reserved, stolen>>
  BY <1>0 DEF MarkPiece, SetPresent, pickerVars
<1>2. i \in present => i \in stolen
  BY <1>0, <1>1 DEF DataInv, CurrentNotPresent, Live
<1>3. CASE verdict[s] /\ i \notin stolen
  <2>1. reserved[i] = s
    BY <1>0, <1>1, <1>3 DEF Inv, OwnerInv, OwnsCurrentPiece, Live, NoPiece, Pieces
  <2>2. Board!Finish(s, i)
    BY <1>1, <1>2, <1>3, <2>1 DEF Board!Finish
  <2> QED
    BY <2>2 DEF Board!Next
<1>4. CASE ~(verdict[s] /\ i \notin stolen)
  BY <1>1, <1>2, <1>4 DEF Board!vars
<1> QED
  BY <1>3, <1>4

(* The teardown of a session owns nothing any more: what it releases is free, *)
(* or lost.                                                                   *)
LEMMA BoardReleaseTorn ==
  ASSUME Inv, NEW s \in Sessions, ReleaseTorn(s)
  PROVE  [Board!Next]_(Board!vars)
<1>0. UNCHANGED present /\ pc[s] = "torn"
  BY DEF ReleaseTorn, storeVars
<1>1. CASE currentPiece[s] = NoPiece
  BY <1>0, <1>1, BoardStutter DEF ReleaseTorn
<1>2. CASE currentPiece[s] # NoPiece
  <2>0. PICK i \in Pieces : i = currentPiece[s]
    BY <1>2 DEF Inv, TypeInv, TypeOK, SessionTypeOK
  <2>1. /\ reserved' = [reserved EXCEPT ![i] = NoSession]
        /\ stolen' = IF reserved[i] \in {s, NoSession} THEN stolen ELSE stolen \union {i}
    BY <1>2, <2>0 DEF ReleaseTorn, Release
  <2>2. reserved[i] # s
    BY <1>0, PickerAssumption DEF Inv, OwnerInv, NoLeakedReservation, Live
  <2>3. CASE reserved[i] = NoSession
    <3>1. reserved' = reserved
      BY <2>1, <2>3 DEF Inv, TypeInv, TypeOK, PickerTypeOK
    <3> QED
      BY <1>0, <2>1, <2>3, <3>1, BoardStutter
  <2>4. CASE reserved[i] # NoSession /\ i \in stolen
    BY <1>0, <2>1, <2>2, <2>4, BoardMove DEF Unseen
  <2>5. CASE reserved[i] # NoSession /\ i \notin stolen
    <3>1. Board!Lose(i)
      BY <1>0, <2>1, <2>2, <2>5
      DEF Board!Lose, Board!Missing, Inv, TypeInv, TypeOK, PickerTypeOK
    <3> QED
      BY <3>1 DEF Board!Next
  <2> QED
    BY <2>3, <2>4, <2>5
<1> QED
  BY <1>1, <1>2

LEMMA BoardSessionStep ==
  ASSUME Inv, DataInv, NEW s \in Sessions, SessionStep(s)
  PROVE  [Board!Next]_(Board!vars)
<1>1. CASE Pump(s, downBlocked)
  <2>1. UNCHANGED <<present, stolen>>
    BY <1>1 DEF Pump, storeVars
  <2>2. CASE UNCHANGED reserved
    BY <2>1, <2>2, BoardStutter
  <2>3. ASSUME currentPiece[s] = NoPiece, NEW i \in Acquirable(peerBits[s]), Acquire(s, i)
        PROVE  [Board!Next]_(Board!vars)
    BY <2>1, <2>3, BoardClaim
  <2> QED
    BY <1>1, <2>2, <2>3 DEF Pump, pickerVars, AcquireNothing
<1>2. CASE VerifyPiece(s) \/ CheckComplete(s)
  BY <1>2, BoardStutter DEF VerifyPiece, CheckComplete, storeVars, pickerVars
<1>3. CASE MarkPiece(s)
  BY <1>3, BoardMark
<1>4. CASE FinishPiece(s) \/ AbortPiece(s)
  <2>1. /\ Live(s) /\ currentPiece[s] \in Pieces
        /\ Release(currentPiece[s]) /\ UNCHANGED <<present, stolen>>
    BY <1>4 DEF FinishPiece, AbortPiece, storeVars, Live, Inv, TypeInv, BusyHasPiece
  <2> QED
    BY <2>1, BoardReleaseOwn
<1>5. CASE ReleaseTorn(s)
  BY <1>5, BoardReleaseTorn
<1> QED
  BY <1>1, <1>2, <1>3, <1>4, <1>5 DEF SessionStep

LEMMA BoardPeerStep ==
  ASSUME Inv, NEW s \in Sessions, PeerStep(s)
  PROVE  [Board!Next]_(Board!vars)
<1>1. CASE Connect(s) \/ RecvChoke(s) \/ RecvUnchoke(s)
  BY <1>1, BoardStutter DEF Connect, AddPeer, RecvChoke, RecvUnchoke, storeVars, pickerVars
<1>2. CASE \E i \in Pieces : RecvHave(s, i)
  BY <1>2, BoardStutter DEF RecvHave, PeerHas, storeVars
<1>3. CASE \E S \in Bitfields : RecvBitfield(s, S)
  BY <1>3, BoardStutter DEF RecvBitfield, PeerHas, storeVars
<1>4. CASE \E b \in Blocks : RecvCancel(s, b)
  BY <1>4, BoardStutter DEF RecvCancel, storeVars, pickerVars
<1>5. CASE \E b \in Blocks, data \in Payloads : RecvBlock(s, b, data)
  BY <1>5, BoardStutter DEF RecvBlock, WriteBlock, pickerVars
<1>6. ASSUME NEW b \in Blocks, NEW data \in Payloads \union {<< >>}, BlockWriteFails(s, b, data)
      PROVE  [Board!Next]_(Board!vars)
  <2>1. /\ Live(s) /\ currentPiece[s] \in Pieces
        /\ Release(currentPiece[s]) /\ UNCHANGED <<present, stolen>>
    BY <1>6 DEF BlockWriteFails, WriteBlock, Live, Inv, TypeInv, TypeOK, SessionTypeOK
  <2> QED
    BY <2>1, BoardReleaseOwn
<1>7. CASE DropPeer(s)
  <2>1. UNCHANGED <<present, stolen>> /\ (DropOwnReservation(s) \/ UNCHANGED reserved)
    BY <1>7 DEF DropPeer, DelPeer, storeVars
  <2>2. CASE UNCHANGED reserved
    BY <2>1, <2>2, BoardStutter
  <2>3. CASE \E i \in Owned(s) : reserved' = [reserved EXCEPT ![i] = NoSession]
    <3>1. PICK i \in Pieces : reserved[i] = s /\ Release(i)
      BY <2>3 DEF Owned, Release
    <3> QED
      BY <2>1, <3>1, BoardGiveBack
  <2> QED
    BY <2>1, <2>2, <2>3 DEF DropOwnReservation
<1> QED
  BY <1>1, <1>2, <1>3, <1>4, <1>5, <1>6, <1>7 DEF PeerStep

LEMMA BoardStep ==
  ASSUME Inv, DataInv, [Next]_vars
  PROVE  [Board!Next]_(Board!vars)
<1>1. CASE (\E c \in Callers : SelectStep(c)) \/ UserStep \/ UNCHANGED vars
  <2>1. UNCHANGED <<reserved, present, stolen>>
    BY <1>1 DEF SelectStep, BuildMask, InstallMask, CheckSelection, SeedSelection, UserStep,
       Pause, Resume, ToggleDownloadBlocked, SetPriorityPieces, SetPriority, SetSkip,
       vars, storeVars, sessionVars, pickerVars
  <2> QED
    BY <2>1, BoardStutter
<1> QED
  BY <1>1, BoardSessionStep, BoardPeerStep DEF Next

(* The sessions implement the board: who claims a piece alone finishes it or  *)
(* gives it back, one piece at a time, and a finished piece stays, unless a   *)
(* teardown released it on behalf of another session.                         *)
THEOREM TransferImplementsBoard == Spec => ImplementsBoard
<1>1. Init => Inv /\ DataInv
  BY InvInit, InitDataInv
<1>2. (Inv /\ DataInv) /\ [Next]_vars => (Inv /\ DataInv)'
  BY InvStep, DataInvStep
<1>3. Inv /\ DataInv /\ [Next]_vars => [Board!Next]_(Board!vars)
  BY BoardStep
<1> QED
  BY <1>1, <1>2, <1>3, BoardInit, PTL DEF Spec, ImplementsBoard, Board!Spec
=============================================================================
