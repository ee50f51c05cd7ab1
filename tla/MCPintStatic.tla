---------------------------- MODULE MCPintStatic ----------------------------
(* PintStatic with four always blocks, of which b can be in the table twice.   *)
(* Block a, which drives the signal that c3 waits for as a clock divider does, *)
(* is in a long list, whose table is screened, and in a short one, whose table *)
(* is executed in strides unless the list that a appends makes it too long.    *)
EXTENDS PintStatic, TLC

CONSTANTS a, b, c3, d

MixedLists == {<<a, b, c3, d>>, <<b, c3>>, <<c3>>, <<a>>}
ShortLists == {<<a, b>>, <<b, c3>>, <<c3>>}
MCWakes == a :> <<c3>> @@ b :> <<>> @@ c3 :> <<>> @@ d :> <<>>
MCPList == a :> {c3} @@ b :> {a} @@ c3 :> {} @@ d :> {}
=============================================================================
