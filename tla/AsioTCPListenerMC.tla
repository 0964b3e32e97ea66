--------------------------- MODULE AsioTCPListenerMC ---------------------------
(* A small instance of AsioTCPListener for TLC.                             *)
EXTENDS AsioTCPListener

CONSTANTS c1, c2

TwoConnections == {c1, c2}
===============================================================================
