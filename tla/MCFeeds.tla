------------------------------- MODULE MCFeeds --------------------------------
(***************************************************************************)
(* Feeds for TLC: two feeds and two polls at once; every title but the     *)
(* second has the keyword, one of them a blacklisted word too.             *)
(***************************************************************************)
EXTENDS Feeds, TLC

CONSTANTS f1, f2, p1, p2, show, cam

MCWords   == <<{show}, {}, {show, cam}, {show}>>
Symmetric == Permutations(Ids) \union Permutations(Pollers)
=============================================================================
