---------------------------- MODULE MCAutomation ----------------------------
(* Automation for TLC: two IDs, and settings that make the limit, the guard *)
(* and both goals matter.                                                   *)
EXTENDS Automation

CONSTANTS ida, idb, root

OneRoot == [i \in {ida, idb} |-> root]

MCSettings == {[max |-> 1, guard |-> TRUE, goal |-> "off"],
               [max |-> 1, guard |-> FALSE, goal |-> "remove"],
               [max |-> 0, guard |-> FALSE, goal |-> "stop"]}

MCRequests == {<<"remove", ida>>, <<"pause", idb>>, <<"resume", idb>>}
=============================================================================
