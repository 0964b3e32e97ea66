----------------------------- MODULE PMuxFramingMC -----------------------------
(* A small instance of PMuxFraming for TLC.                                 *)
EXTENDS PMuxFraming

(* A type that is refused and one that is not; payloads around the limit,   *)
(* whose first bytes could be taken for a header's.                         *)
SomeTypes == {0, 7}
SomePayloads == {<<>>, <<9>>, <<0, 0>>, <<1, 2, 3>>}

Foreign(n, t, f, content) ==
  [length |-> n, type |-> t, flags |-> f, payload |-> content]

(* Another version, the longest payload that is accepted, one that is too   *)
(* long, in the highest byte of the length, a heartbeat with a payload, and *)
(* one with a type, which is accepted.                                      *)
SomeForeignFrames ==
  {Foreign(0, 7, 3, <<>>), Foreign(3, 7, 2, <<4, 5, 6>>),
   Foreign(16777216, 7, 2, <<>>), Foreign(1, 0, 34, <<8>>),
   Foreign(0, 5, 34, <<>>)}
===============================================================================
