-------------------------------- MODULE MCDht ---------------------------------
(***************************************************************************)
(* Dht for TLC: two kinds of answers (and failures), and so few numbers that they wrap. *)
(***************************************************************************)
EXTENDS Dht

Answer(peers, token, nodes) == [peers |-> peers, token |-> token, nodes |-> nodes]

MCAnswers == {Answer(TRUE, TRUE, {}), Answer(FALSE, TRUE, Nodes)}
=============================================================================
