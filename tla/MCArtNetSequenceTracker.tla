---------------------- MODULE MCArtNetSequenceTracker ----------------------
(* Instance of ArtNetSequenceTracker for TLC: one universe, two consoles    *)
(* and a cycle of five with two steps ahead, the proportions of 255 and 127.*)
EXTENDS ArtNetSequenceTracker, TLC

CONSTANTS e1, e2

MCEndpoints == {e1, e2}
MCSymmetry == Permutations(MCEndpoints)
=============================================================================
