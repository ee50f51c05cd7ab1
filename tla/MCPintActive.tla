---------------------------- MODULE MCPintActive ----------------------------
(* PintActive on a small reconvergent network: x reads the process signal p,  *)
(* and y reads p, q and x, so that one change of p wakes y twice.  z reads q  *)
(* and is not queued at the start.                                            *)
EXTENDS PintActive, TLC

CONSTANTS p, q, x, y, z

MCInputs == x :> {p} @@ y :> {p, q, x} @@ z :> {q}
MCFanout == p :> <<x, y>> @@ q :> <<y, z>> @@ x :> <<y>> @@ y :> <<>> @@ z :> <<>>
MCInitVal == [t \in {p, q, x, y, z} |-> 0]
\* x = ~p, y = p ^ q ^ x, z = ~q
MCEval(l, m) ==
    CASE l = x -> 1 - m[p]
      [] l = y -> (m[p] + m[q] + m[x]) % 2
      [] l = z -> 1 - m[q]
=============================================================================
