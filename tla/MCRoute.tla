------------------------------- MODULE MCRoute -------------------------------
(* Instances of Route for TLC: two metrics and two or three next hops.     *)
EXTENDS Route, TLC

CONSTANTS r1, r2, gwA, gwB, gwC

OneSlot   == {100 :> gwA}
OneRoute  == {100 :> gwA @@ 200 :> NoVia}
TwoRoutes == {100 :> gwA @@ 200 :> gwB}
EitherRoute == OneRoute \cup TwoRoutes
Backup    == {100 :> gwA @@ 200 :> gwB @@ 300 :> NoVia}
AddSecond == {<<200, gwB>>}
AddThird  == {<<300, gwC>>}
NoAdd     == {}

NoKill    == {}
KillSwitch == PCs \ {"idle", "done"}
=============================================================================
