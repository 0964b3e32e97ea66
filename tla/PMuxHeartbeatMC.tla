---------------------------- MODULE PMuxHeartbeatMC ----------------------------
(* The smallest times at which every deadline can be met late, with the     *)
(* timeout as short as HeartbeatAssumption allows.                          *)
EXTENDS PMuxHeartbeat
===============================================================================
