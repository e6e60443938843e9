------------------------------ MODULE DeliveryMC ------------------------------
(* Instances of Delivery: the dispatch tasks of one or two turns. *)
EXTENDS Delivery, TLC

CONSTANTS s1, s2

OneSender  == {s1}
TwoSenders == {s1, s2}
NoOthers   == {}
AllOthers  == {Everyone, Elsewhere}
TaskSymmetry == Permutations(TwoSenders)
=============================================================================
