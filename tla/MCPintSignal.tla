----------------------------- MODULE MCPintSignal -----------------------------
(* Three sorts of designs: assignments without shadow, with all list sizes;    *)
(* shadows of processes that run one after the other; and shadows on several   *)
(* cores, of processes that assign parts, all, or one of each, beside a        *)
(* process without shadow or not.                                              *)
EXTENDS PintSignal

CONSTANTS p1, p2, MaxNum

Num(k) == [pos : 0..k, any : 0..k, neg : 0..k]

MCDesigns ==
  [parallel : {FALSE}, part : {{}}, whole : {{}}, others : {FALSE}, shadow : {"char"},
   kinds : {Kind}, array : BOOLEAN, num : Num(MaxNum), bits : {Bit4}]
  \cup
  [parallel : {FALSE}, part : {{p1}}, whole : {{p2}}, others : {FALSE},
   shadow : {"char", "int"}, kinds : {{"nb"}}, array : BOOLEAN,
   num : {[pos |-> 1, any |-> 1, neg |-> 1]}, bits : {{BIT4_0, BIT4_1, BIT4_X}}]
  \cup
  [parallel : {TRUE}, part : {{}, {p1}, {p1, p2}}, whole : {{}, {p2}}, others : BOOLEAN,
   shadow : {"char"}, kinds : {{"char"}}, array : {FALSE},
   num : {[pos |-> 1, any |-> 0, neg |-> 0]}, bits : {{BIT4_0, BIT4_1}}]
=============================================================================
