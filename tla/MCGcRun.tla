------------------------------ MODULE MCGcRun ------------------------------
(* GcRun with two small entries; 4 stands for the units K and up. *)
EXTENDS GcRun, TLC

CONSTANTS a, b

MCPaths == {a, b}
MCSize == a :> 1 @@ b :> 3

Halves(half, unit) == [num |-> "finite", half |-> half, unit |-> unit]
NoNumber(num) == [num |-> num, half |-> 0, unit |-> 1]
MCSizeArgs == {Halves(-1, 4), Halves(1, 4), Halves(7, 1), Halves(99, 4),
               NoNumber("nan"), NoNumber("inf")}
=============================================================================
