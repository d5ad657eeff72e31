---------------------------- MODULE MCNodeFirmware ----------------------------
(* Three images, the first of one block, two to update to.                   *)
EXTENDS NodeFirmware

CONSTANTS f1, f2, f3
Images == {f1, f2, f3}
Sizes == [f \in Images |-> IF f = f1 THEN 1 ELSE IF f = f2 THEN 3 ELSE 2]
===============================================================================
