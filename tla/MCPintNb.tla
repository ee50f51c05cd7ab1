------------------------------ MODULE MCPintNb ------------------------------
(* Both cores run threads that assign a1; a2 is assigned on one core only.   *)
EXTENDS PintNb

CONSTANTS c1, c2, a1, a2

SharedArray == [c \in Core |-> IF c = c1 THEN {a1} ELSE {a1, a2}]
MixedSize == [a \in Array |-> IF a = a1 THEN 3 ELSE 1]
=============================================================================
