------------------------------ MODULE MCFsClc ------------------------------
(* CLC10 on its own: three instances, one of them without a FRMSYNC output, *)
(* and three pins the board may route in every possible way.                *)
EXTENDS TdmFsClc

MCOwners   == 0..2
MCSsOwners == {0, 1}
MCPins     == 1..3
=============================================================================
