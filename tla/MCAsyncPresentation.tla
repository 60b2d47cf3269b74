------------------------ MODULE MCAsyncPresentation ------------------------
(* AsyncPresentation for TLC: the code's banks, two universes. *)
EXTENDS AsyncPresentation

CONSTANTS u1, u2, in1, in2, in3, out1, out2

MCUniverses == {u1, u2}
MCInputBanks == {in1, in2, in3}
MCOutputBanks == {out1, out2}
=============================================================================
