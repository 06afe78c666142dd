----------------------------- MODULE MCTSQueue -----------------------------
(* Instances of TSQueue for TLC.                                           *)
EXTENDS TSQueue

CONSTANTS main, w1, w2, w3, w4, m1, m2

Main == {main}
TwoProducers == {main, w4}
ThreeWorkers == {w1, w2, w3}
TwoMessages == {m1, m2}
EmptyOrOne == {0, 1}
=============================================================================
