---------------------------- MODULE CtConnectionsMC ----------------------------
(* A small instance of CtConnections for TLC.                               *)
EXTENDS CtConnections

CONSTANTS c1, c2

TwoConnections == {c1, c2}

(* The busy one is the connector's, the other one the listener's.           *)
OfTheConnector == {c1}

(* One connection with traffic beside one that only sends its heartbeat.    *)
BusyAndQuiet == [c \in TwoConnections |-> IF c = c1 THEN 2 ELSE 0]
===============================================================================
