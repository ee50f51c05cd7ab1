------------------------------- MODULE PintEdge -------------------------------
(***************************************************************************)
(* Edges of four-state signals and the lists of what to run for them.      *)
(*                                                                         *)
(* The run time finds the edge of an assignment in five ways, by the kind  *)
(* of the assignment, from the two values of bit 0 in three encodings; the *)
(* edge then selects a slice of the signal's lists: the always blocks      *)
(* (s_list), the named and dynamic waits (e_list) and, for an array, the   *)
(* entries of a word.  A list holds the entries of posedge, then those of  *)
(* any change, then those of negedge.                                      *)
(***************************************************************************)
EXTENDS Integers

\* Bits of two bits each: the value and, above it, the mark of x and z.
BIT4_0 == 0
BIT4_1 == 1
BIT4_Z == 2
BIT4_X == 3
Bit4 == 0..3

pint_nonedge == 0
pint_negedge == 1
pint_posedge == 2
pint_otherchange == 3
Edge == 0..3

\* A vector: bit 0, which decides the edge, and the bits above it.
Vector == [lsb : Bit4, rest : {0, 1}]

\* A char & 0x11: bit 0 in its encoding with the mark in bit 4.
Char11(b) == (b % 2) + 16 * (b \div 2)

\* edge, of nonblocking assignments.
edge(f, t) ==
  IF f = t THEN pint_nonedge
  ELSE IF f = BIT4_1 /\ t = BIT4_0 THEN pint_negedge
  ELSE IF f = BIT4_0 /\ t = BIT4_1 THEN pint_posedge
  ELSE IF <<f, t>> \in {<<BIT4_0, BIT4_X>>, <<BIT4_0, BIT4_Z>>,
                        <<BIT4_X, BIT4_1>>, <<BIT4_Z, BIT4_1>>} THEN pint_posedge
  ELSE IF <<f, t>> \in {<<BIT4_1, BIT4_X>>, <<BIT4_1, BIT4_Z>>,
                        <<BIT4_X, BIT4_0>>, <<BIT4_Z, BIT4_0>>} THEN pint_negedge
  ELSE pint_nonedge

\* The decision edge_char and edge_1bit share.
Decide11(f, t, same) ==
  IF t > 0 /\ f = 0 THEN pint_posedge
  ELSE IF t = 0 /\ f > 0 THEN pint_negedge
  ELSE IF t # 1 /\ f = 1 THEN pint_negedge
  ELSE IF t = 1 /\ f # 1 THEN pint_posedge
  ELSE same

\* edge_char, of vectors of up to four bits.
edge_char(from, to) ==
  IF to = from THEN pint_nonedge
  ELSE Decide11(Char11(from.lsb), Char11(to.lsb), pint_otherchange)

\* edge_1bit, of bit 0 alone.
edge_1bit(f, t) ==
  Decide11(f, t, IF t = f THEN pint_nonedge ELSE pint_otherchange)

\* edge_int, of wider vectors.
edge_int(from, to) ==
  LET ft == <<from.lsb, to.lsb>> IN
  IF ft \in {<<BIT4_0, BIT4_1>>, <<BIT4_0, BIT4_X>>, <<BIT4_0, BIT4_Z>>,
             <<BIT4_X, BIT4_1>>, <<BIT4_Z, BIT4_1>>} THEN pint_posedge
  ELSE IF ft \in {<<BIT4_1, BIT4_0>>, <<BIT4_1, BIT4_X>>, <<BIT4_1, BIT4_Z>>,
                  <<BIT4_X, BIT4_0>>, <<BIT4_Z, BIT4_0>>} THEN pint_negedge
  ELSE pint_nonedge

\* get_edge<true>, of copies between signals.
get_edge(from, to) ==
  LET f == Char11(from.lsb)
      t == Char11(to.lsb)
  IN IF from = to THEN pint_nonedge
     ELSE IF f = 0 /\ t # 0 THEN pint_posedge
     ELSE IF f = 1 /\ t # 1 THEN pint_negedge
     ELSE IF f # 1 /\ t = 1 THEN pint_posedge
     ELSE IF f # 0 /\ t = 0 THEN pint_negedge
     ELSE pint_otherchange

\* The five kinds of assignment.
Kind == {"nb", "char", "bit", "int", "copy"}
EdgeFound(kind, from, to) ==
  CASE kind = "nb"   -> edge(from.lsb, to.lsb)
    [] kind = "char" -> edge_char(from, to)
    [] kind = "bit"  -> edge_1bit(Char11(from.lsb), Char11(to.lsb))
    [] kind = "int"  -> edge_int(from, to)
    [] kind = "copy" -> get_edge(from, to)
-----------------------------------------------------------------------------
(* The lists, with n.pos entries of posedge, n.any and n.neg. *)

Nums == [pos : Nat, any : Nat, neg : Nat]
Total(n) == n.pos + n.any + n.neg

\* Entries skipped, and entries taken, for an edge: the same in all lists.
Skip(n, e) == IF e = pint_posedge THEN 0 ELSE n.pos
thread_num(n, e) ==
  IF e = pint_posedge THEN n.pos + n.any
  ELSE IF e = pint_negedge THEN n.any + n.neg
  ELSE n.any

\* An s_list and the list of an array have a head of 3 words and entries of
\* 2; an e_list a head of 5 and entries of 1.
Layout == [s |-> [head |-> 3, size |-> 2], e |-> [head |-> 5, size |-> 1]]
Address(l, i) == l.head + l.size * i

\* Where the slice of an edge starts.
ListStart(l, n, e) == l.head + l.size * Skip(n, e)

\* The addresses the run time visits.
Visited(l, n, e) ==
  {ListStart(l, n, e) + l.size * j : j \in 0..(thread_num(n, e) - 1)}

\* Of the entries of an array, those of the assigned word or of every word.
AllWords == -1  \* 0xffffffff
OfWord(entry_word, w) == entry_word = w \/ entry_word = AllWords

\* The words of the array's entries: each sort of word occurs in turn.
EntryWord(i) == IF i % 3 = 2 THEN AllWords ELSE i % 3
EntryAt(l, address) == (address - l.head) \div l.size
-----------------------------------------------------------------------------
(* The reference: what a change must run. *)

\* The edges of IEEE 1364, from the two values of bit 0.
IsPosedge(f, t) == f # t /\ (f = BIT4_0 \/ t = BIT4_1)
IsNegedge(f, t) == f # t /\ (f = BIT4_1 \/ t = BIT4_0)

Sort(n, i) ==
  IF i < n.pos THEN "pos" ELSE IF i < n.pos + n.any THEN "any" ELSE "neg"
Wakes(sort, from, to) ==
  \/ sort = "any"
  \/ sort = "pos" /\ IsPosedge(from.lsb, to.lsb)
  \/ sort = "neg" /\ IsNegedge(from.lsb, to.lsb)

\* The addresses of the entries that are sensitive to a change.
Sensitive(l, n, from, to) ==
  {Address(l, i) : i \in {j \in 0..(Total(n) - 1) : Wakes(Sort(n, j), from, to)}}
=============================================================================
