-------------------------------- MODULE StreamMC --------------------------------
(* Two turns of one session. *)
EXTENDS Stream

CONSTANTS t1, t2, none, s1

TwoTurns    == {t1, t2}
OneSession  == {s1}
BothInFirst == [t \in TwoTurns |-> s1]
=============================================================================
