----------------------------- MODULE PieceStore -----------------------------
(***************************************************************************)
(* The data of one torrent on disk and its table of verified pieces        *)
(* (storage/storage.go).  A block on disk is what the properties can tell  *)
(* apart: never written, written with wrong bytes, written with the bytes  *)
(* the torrent describes.  Every operation below is one critical section   *)
(* of Storage.mu.                                                          *)
(***************************************************************************)
EXTENDS Integers, Sequences

CONSTANTS NPieces,   \* number of pieces of the torrent
          NBlocks    \* number of blocks (16 KiB requests) in a piece

ASSUME StoreAssumption == NPieces \in Nat \ {0} /\ NBlocks \in Nat \ {0}

VARIABLES disk,      \* disk[i][b]: what block b of piece i holds
          present,   \* the pieces whose Present flag is set
          overrun    \* history: pieces that a message about another piece
                     \* wrote to after their hash check

storeVars == <<disk, present, overrun>>

Pieces  == 0 .. NPieces - 1
Blocks  == 0 .. NBlocks - 1
Quality == {"none", "bad", "good"}

StoreTypeOK ==
  /\ disk \in [Pieces -> [Blocks -> Quality]]
  /\ present \in SUBSET Pieces
  /\ overrun \in SUBSET Pieces

(* verifyPiece: the SHA-1 of the piece on disk is the one of the metainfo. *)
HashOK(i) == \A b \in Blocks : disk[i][b] = "good"

(* New: the files may hold anything; scanExistingPieces verifies each piece. *)
StoreInit ==
  /\ disk \in [Pieces -> [Blocks -> Quality]]
  /\ present = {i \in Pieces : HashOK(i)}
  /\ overrun = {}

(* The pieces of a torrent follow each other without a gap. *)
Place(i, b) == i * NBlocks + b

(* The element of data that a write at block b of piece i puts into block c  *)
(* of piece j, and the pieces such a write gets to: writeAt stops where data *)
(* ends, not where the block or the piece does.                              *)
Element(i, b, j, c) == Place(j, c) - Place(i, b) + 1
Reached(i, b, data) ==
  {j \in Pieces : \E c \in Blocks : Element(i, b, j, c) \in DOMAIN data}

FitsFiles(i, b, data) == Place(i, b) + Len(data) <= NPieces * NBlocks

(* data holds what the blocks from b of piece i on contain afterwards.  A    *)
(* block that is written in part is bad, or what it was before.  checked are *)
(* the pieces that passed their hash check.                                  *)
WriteBlock(i, b, data, checked) ==
  /\ disk' = [j \in Pieces |-> [c \in Blocks |->
               IF Element(i, b, j, c) \in DOMAIN data THEN data[Element(i, b, j, c)]
                                                      ELSE disk[j][c]]]
  /\ overrun' = overrun \union ((Reached(i, b, data) \ {i}) \intersect checked)
  /\ UNCHANGED present

(* Variant with the bug: the result of the hash check is not looked at. *)
SetPresentAlways(i, ok) ==
  /\ present' = present \union {i}
  /\ UNCHANGED <<disk, overrun>>

(* SetPresent: both directions, a piece can be marked absent again. *)
SetPresent(i, ok) ==
  /\ present' = IF ok THEN present \union {i} ELSE present \ {i}
  /\ UNCHANGED <<disk, overrun>>
=============================================================================
