-------------------------- MODULE AsioTCPConnectorMC --------------------------
(* A small instance of AsioTCPConnector for TLC.                            *)
EXTENDS AsioTCPConnector

Limits == {0, 1, 2}
===============================================================================
