----------------------------- MODULE MCTransfer -----------------------------
(* Transfer for TLC: sessions are interchangeable, and so are the callers. *)
EXTENDS Transfer, TLC

Symmetry == Permutations(Sessions) \union Permutations(Callers)

StreamWindow == {<<1, 1>>}
=============================================================================
