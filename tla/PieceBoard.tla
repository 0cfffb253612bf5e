----------------------------- MODULE PieceBoard ------------------------------
(***************************************************************************)
(* What the sessions of a torrent promise each other, without messages,    *)
(* requests or locks: a board of pieces.  A worker claims a missing piece, *)
(* one at a time, and only who has claimed it gives it back or finishes    *)
(* it.  A finished piece is finished for good.  The board loses track of a *)
(* piece only while it is claimed or finished, and then promises nothing   *)
(* more about it.                                                          *)
(***************************************************************************)
CONSTANTS Pieces, Workers, Nobody

VARIABLES holder,    \* who has claimed each piece
          finished,  \* the pieces that are verified
          lost       \* the pieces that the board lost track of

vars == <<holder, finished, lost>>

Missing(i) == i \notin finished \union lost /\ holder[i] = Nobody

Init == /\ holder = [i \in Pieces |-> Nobody]
        /\ finished \in SUBSET Pieces
        /\ lost = {}

Claim(w, i) ==
  /\ Missing(i)
  /\ \A j \in Pieces : holder[j] # w
  /\ holder' = [holder EXCEPT ![i] = w]
  /\ UNCHANGED <<finished, lost>>

GiveBack(w, i) ==
  /\ holder[i] = w
  /\ holder' = [holder EXCEPT ![i] = Nobody]
  /\ UNCHANGED <<finished, lost>>

Finish(w, i) ==
  /\ holder[i] = w
  /\ holder' = [holder EXCEPT ![i] = Nobody]
  /\ finished' = finished \union {i}
  /\ UNCHANGED lost

Lose(i) ==
  /\ ~Missing(i) /\ i \notin lost
  /\ holder' = [holder EXCEPT ![i] = Nobody]
  /\ finished' = finished \ {i}
  /\ lost' = lost \union {i}

Next ==
  \E i \in Pieces :
    \/ Lose(i)
    \/ \E w \in Workers : Claim(w, i) \/ GiveBack(w, i) \/ Finish(w, i)

Spec == Init /\ [][Next]_vars
=============================================================================
