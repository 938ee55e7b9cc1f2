------------------------- MODULE MCConnectionManager -------------------------
(* Instances of ConnectionManager for TLC.                                 *)
EXTENDS ConnectionManager, TLC

CONSTANTS n1, n2, n3

OneNode    == <<n1>>
TwoNodes   == <<n1, n2>>
ThreeNodes == <<n1, n2, n3>>

SenderSymmetry == Permutations(Senders)
=============================================================================
