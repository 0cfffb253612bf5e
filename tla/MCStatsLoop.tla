------------------------------ MODULE MCStatsLoop ------------------------------
(* StatsLoop for TLC: two hours a day; no limits, or a night that wraps     *)
(* midnight with a cap, or a night with a full pause and a daily limit.     *)
EXTENDS StatsLoop, TLC

CONSTANTS c1, c2

Free   == [up |-> 0, down |-> 0, cap |-> 0, night |-> FALSE, nup |-> 0, ndown |-> 0,
           pause |-> FALSE, start |-> 0, end |-> 0]
Capped == [Free EXCEPT !.up = 3, !.down = 4, !.night = TRUE, !.nup = 1, !.start = 1, !.end = 0]
Paused == [Free EXCEPT !.cap = 1, !.night = TRUE, !.ndown = 2, !.pause = TRUE, !.end = 1]

MCPatches == {Free, Capped, Paused}
Symmetric == Permutations(Clients)
=============================================================================
