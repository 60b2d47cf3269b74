---------------------------- MODULE MCMvrXchange ----------------------------
(* MvrXchange for TLC: one station of the group, with or without the own   *)
(* one, which discovery finds like any other.                              *)
EXTENDS MvrXchange

CONSTANTS own, desk, received

MCStations == {desk}
MCBothStations == {own, desk}
MCPaths == {received}
MCNameOf == [s \in {desk} |-> [at |-> FALSE, station |-> "Desk", group |-> ""]]
=============================================================================
