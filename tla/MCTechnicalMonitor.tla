------------------------ MODULE MCTechnicalMonitor ------------------------
(* Instance of TechnicalMonitor for TLC: two universes and payloads of one  *)
(* and two channels, so that a short packet can follow a long one.          *)
EXTENDS TechnicalMonitor

MCPayloads == {<<1>>, <<2>>, <<2, 1>>}
=============================================================================
