------------------------- MODULE MCRealtimePlayback -------------------------
(* Instance of RealtimePlayback for TLC: two universes, two offsets and two *)
(* byte values, so a mask can gain, lose or keep an offset.                 *)
EXTENDS RealtimePlayback

CONSTANTS u1, u2, o1, o2

MCUniverses == {u1, u2}
MCOffsets == {o1, o2}
MCBytes == {0, 1}
=============================================================================
