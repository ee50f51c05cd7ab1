------------------------------ MODULE MCPintMem -----------------------------
(* Statements and values are interchangeable; cores are not: the kernel      *)
(* gives each a slice by its number.                                         *)
EXTENDS PintMem, TLC

Interchangeable == Permutations(Stmt) \cup Permutations(Value)
=============================================================================
