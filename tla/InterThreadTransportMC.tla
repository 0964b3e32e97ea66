------------------------ MODULE InterThreadTransportMC ------------------------
(* Small instances of InterThreadTransport for TLC.                         *)
EXTENDS InterThreadTransport

CONSTANTS listener, connector    \* two connection types

BothTypes == {listener, connector}
OneType == {listener}
None == {}
FirstMessage == {<<1, 1>>}
FirstConnection == {1}
SecondConnection == {2}
===============================================================================
