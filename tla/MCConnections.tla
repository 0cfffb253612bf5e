--------------------------- MODULE MCConnections ---------------------------
(***************************************************************************)
(* Connections for TLC.  Addresses are interchangeable, so are the announces. *)
(***************************************************************************)
EXTENDS Connections, TLC

Symmetry == Permutations(Peers) \union Permutations(Announces)
=============================================================================
