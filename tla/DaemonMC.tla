-------------------------------- MODULE DaemonMC --------------------------------
(* Small instances of Daemon: one automation, two runs, two tick loops. *)
EXTENDS Daemon, TLC

CONSTANTS a1, none, r1, r2, l1, l2, gateway

OneAuto  == {a1}
TwoRuns  == {r1, r2}
TwoLoops == {l1, l2}
OneTask  == {gateway}
NoOrOne  == {0, 1}
OffOrTwo == {0, 2}
Symmetry == Permutations(TwoRuns) \cup Permutations(TwoLoops)
=============================================================================
