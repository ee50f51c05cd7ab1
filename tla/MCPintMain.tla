---------------------------- MODULE MCPintMain -----------------------------
(* PintMain on a design where an edge of the nonblocking target n1 wakes the   *)
(* clocked blocks s1 and s2, the delayed continuous assignment l1 reads n1,    *)
(* and a change of l1 wakes s2 again.                                          *)
EXTENDS PintMain, TLC

CONSTANTS n1, l1, s1, s2

MCSList == n1 :> <<s1, s2>> @@ l1 :> <<s2>>
MCPList == n1 :> {s1} @@ l1 :> {s1}
MCLList == n1 :> <<l1>> @@ l1 :> <<>>
=============================================================================
