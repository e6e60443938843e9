-------------------------- MODULE TurnLifecycleMC --------------------------
(***************************************************************************)
(* Instances of TurnLifecycle for TLC.                                     *)
(***************************************************************************)
EXTENDS TurnLifecycle, TLC

CONSTANTS t1, t2, s1, s2

TwoTurns == {t1, t2}
OneTurn == {t1}

OneSession == {s1}

\* the first message of a chat has no session id; the others carry one
FirstAndOther == t1 :> None @@ t2 :> s1
BothInSession == t1 :> s1 @@ t2 :> s1
OnlyFirst     == t1 :> None

=============================================================================
