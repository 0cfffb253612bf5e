---------------------------- MODULE TransferLive ----------------------------
(***************************************************************************)
(* Does the download finish?  Transfer with peers that have every piece,   *)
(* stay connected and answer what was requested, right away or later, in   *)
(* any order, across a choke, the first time perhaps with wrong bytes, and *)
(* once with no bytes at all.                                              *)
(* Writes succeed, nobody pauses or blocks.  What remains is the code's    *)
(* own business: that some session is pumped whenever work is left.        *)
(***************************************************************************)
EXTENDS Transfer

HelpfulBitfield(s) == peerBits[s] # Pieces /\ RecvBitfield(s, Pieces)
HelpfulUnchoke(s)  == amChoked[s] /\ RecvUnchoke(s)
GoodBlock(s, b)    == RecvBlock(s, b, <<"good">>)
FirstBadBlock(s, b) ==
  currentPiece[s] # NoPiece /\ disk[currentPiece[s]][b] = "none" /\ RecvBlock(s, b, <<"bad">>)
FirstEmptyBlock(s) == empties = {} /\ RecvBlock(s, 0, << >>)

PeerArrives(s) == Connect(s) \/ HelpfulBitfield(s) \/ HelpfulUnchoke(s)

LiveNext ==
  \/ \E s \in Sessions : SessionStep(s)
  \/ \E s \in Sessions :
       /\ \/ PeerArrives(s)
          \/ RecvChoke(s)
          \/ \E b \in Blocks : GoodBlock(s, b) \/ FirstBadBlock(s, b)
          \/ FirstEmptyBlock(s)
       /\ UNCHANGED userVars

(* The goroutine of a session runs whenever it can; a peer connects, sends   *)
(* its bitfield, unchokes and answers each request in the end.               *)
Fairness ==
  \A s \in Sessions :
    /\ WF_vars(SessionStep(s))
    /\ WF_vars(Connect(s) /\ UNCHANGED userVars)
    /\ SF_vars(HelpfulBitfield(s) /\ UNCHANGED userVars)
    /\ SF_vars(HelpfulUnchoke(s) /\ UNCHANGED userVars)
    /\ \A b \in Blocks : SF_vars(GoodBlock(s, b) /\ UNCHANGED userVars)

LiveSpec == Init /\ [][LiveNext]_vars /\ Fairness

KeepsUnchoked == \A s \in Sessions : <>[]~amChoked[s]

(* If every peer chokes us only finitely often, the torrent is completed and *)
(* turns to seeding: pieces are asked for again after a hash mismatch, each  *)
(* finished piece leads to the next, and the last one to the state check.    *)
EventuallySeeding == KeepsUnchoked => <>[](state = "seeding" /\ present = Pieces)
=============================================================================
