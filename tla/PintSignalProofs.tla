--------------------------- MODULE PintSignalProofs ---------------------------
(***************************************************************************)
(* Theorems about PintSignal: for any processes, words, lists of any       *)
(* length and mix of assignments, the signal receives what is assigned and *)
(* a change runs exactly the sensitive entries.                            *)
(***************************************************************************)
EXTENDS PintSignal, TLAPS

(* Edges and slices *)

\* Each of the five ways to find an edge agrees with the edges of the standard,
\* for any change of the vector.
LEMMA EdgeDecided ==
  ASSUME NEW kind \in Kind, NEW from \in Vector, NEW to \in Vector, from # to
  PROVE  LET e == EdgeFound(kind, from, to) IN
         /\ e \in Edge
         /\ e = pint_posedge <=> IsPosedge(from.lsb, to.lsb)
         /\ e = pint_negedge <=> IsNegedge(from.lsb, to.lsb)
<1> DEFINE f == from.lsb  t == to.lsb
<1>1. f \in {0, 1, 2, 3} /\ t \in {0, 1, 2, 3}
  BY DEF Vector, Bit4
<1>2. /\ Char11(f) = IF f = 0 THEN 0 ELSE IF f = 1 THEN 1 ELSE IF f = 2 THEN 16 ELSE 17
      /\ Char11(t) = IF t = 0 THEN 0 ELSE IF t = 1 THEN 1 ELSE IF t = 2 THEN 16 ELSE 17
  BY <1>1 DEF Char11
<1> USE DEF pint_nonedge, pint_negedge, pint_posedge, pint_otherchange,
            BIT4_0, BIT4_1, BIT4_X, BIT4_Z, IsPosedge, IsNegedge, Edge
<1>3. CASE kind = "nb"
  <2>1. EdgeFound(kind, from, to) = edge(f, t)
    BY ONLY <1>3 DEF EdgeFound
  <2> QED BY <1>1, <2>1 DEF edge
<1>4. CASE kind = "char"
  <2>1. EdgeFound(kind, from, to) = edge_char(from, to)
    BY ONLY <1>4 DEF EdgeFound
  <2> QED BY <1>1, <1>2, <2>1 DEF edge_char, Decide11
<1>5. CASE kind = "bit"
  <2>1. EdgeFound(kind, from, to) = edge_1bit(Char11(f), Char11(t))
    BY ONLY <1>5 DEF EdgeFound
  <2> QED BY <1>1, <1>2, <2>1 DEF edge_1bit, Decide11
<1>6. CASE kind = "int"
  <2>1. EdgeFound(kind, from, to) = edge_int(from, to)
    BY ONLY <1>6 DEF EdgeFound
  <2> QED BY <1>1, <2>1 DEF edge_int
<1>7. CASE kind = "copy"
  <2>1. EdgeFound(kind, from, to) = get_edge(from, to)
    BY ONLY <1>7 DEF EdgeFound
  <2> QED BY <1>1, <1>2, <2>1 DEF get_edge
<1> QED BY <1>3, <1>4, <1>5, <1>6, <1>7 DEF Kind

\* The slice that pint_process_event_list cuts for the edge it is given holds
\* the entries sensitive to the change: i = Skip + j relates the two.
LEMMA SliceIsSensitive ==
  ASSUME NEW kind \in Kind, NEW from \in Vector, NEW to \in Vector, from # to,
         NEW n \in Nums, NEW l \in {Layout.s, Layout.e}
  PROVE  Visited(l, n, EdgeFound(kind, from, to)) = Sensitive(l, n, from, to)
<1> DEFINE e == EdgeFound(kind, from, to)
           f == from.lsb
           t == to.lsb
           In(i) == i \in 0..(Total(n) - 1) /\ Wakes(Sort(n, i), from, to)
           Taken(i) == Skip(n, e) <= i /\ i < Skip(n, e) + thread_num(n, e)
<1>1. n.pos \in Nat /\ n.any \in Nat /\ n.neg \in Nat
  BY DEF Nums
<1>2. /\ e = pint_posedge <=> IsPosedge(f, t)
      /\ e = pint_negedge <=> IsNegedge(f, t)
      /\ e \in Edge
  BY EdgeDecided
<1>3. ASSUME NEW i \in Int PROVE In(i) <=> Taken(i)
  BY <1>1, <1>2 DEF Wakes, Sort, Total, Skip, thread_num, Edge,
                    pint_nonedge, pint_negedge, pint_posedge, pint_otherchange
<1>4. l.head \in Int /\ l.size \in {1, 2}
  BY DEF Layout
<1>5. /\ Skip(n, e) \in Nat /\ thread_num(n, e) \in Nat /\ Total(n) \in Nat
  BY <1>1 DEF Skip, thread_num, Total
<1>6. ASSUME NEW j \in 0..(thread_num(n, e) - 1)
      PROVE  /\ Taken(Skip(n, e) + j)
             /\ ListStart(l, n, e) + l.size * j = Address(l, Skip(n, e) + j)
  BY <1>4, <1>5 DEF ListStart, Address
<1>7. ASSUME NEW i \in Int, Taken(i)
      PROVE  /\ i - Skip(n, e) \in 0..(thread_num(n, e) - 1)
             /\ ListStart(l, n, e) + l.size * (i - Skip(n, e)) = Address(l, i)
  BY <1>4, <1>5, <1>7 DEF ListStart, Address
<1> QED
  BY <1>3, <1>5, <1>6, <1>7 DEF Visited, Sensitive

(* Masked copies *)

\* pint_mask_copy_* of vectors is a vector.
LEMMA WithVector ==
  ASSUME NEW v \in Vector, NEW B \in SUBSET Part, NEW new \in Vector
  PROVE  With(v, B, new) \in Vector
BY DEF With, Vector, Part

\* Storing what was assigned is storing all, if the rest is unchanged.
LEMMA WithSame ==
  ASSUME NEW v \in Vector, NEW B \in SUBSET Part, NEW new \in Vector,
         \A b \in Part \ B : new[b] = v[b]
  PROVE  With(v, B, new) = new
BY DEF With, Vector, Part
-----------------------------------------------------------------------------
(* The invariant *)

\* Only the processes of the design run.
Running == \A p \in Proc : at[p] # "out" => p \in Procs
\* Without cores to run them on, one process runs at a time.
Alone ==
  ~design.parallel => \A p, q \in Proc : at[p] # "out" /\ at[q] # "out" => p = q
\* The mask holds the parts this invocation has assigned.
MaskMade == \A p \in Proc : needs_mask(p) => MASK[p] = made[p]
\* Nothing has stored since: what a process has not assigned is in its copy as
\* it is in the signal.
Copied ==
  \A p \in Proc : at[p] # "out" /\ ~stale[p] =>
    \A b \in Part \ made[p] : TMP[p][b] = sig[0][b]
\* Something has only when another process assigns the signal, on another core.
StaleHow ==
  \A p \in Proc : stale[p] => design.parallel /\ (design.others \/ \E q \in Procs : q # p)
\* A process that does not assign parts has assigned all of the signal or none.
MadeWhole == \A p \in Proc : p \notin design.part => made[p] \in {{}, Part}
\* The edge found by the only process that runs is still that of the change it
\* is about to make.
Found ==
  ~design.parallel => \A p \in Proc : at[p] = "store" =>
    /\ change_flag[p] = EdgeFound(design.shadow, sig[0], TMP[p])
    /\ sig[0] # TMP[p]
ShadowInv == Running /\ Alone /\ MaskMade /\ Copied /\ StaleHow /\ MadeWhole /\ Found
SignalInv == Receives /\ RunsSensitive /\ ShadowInv

\* What SignalAssumption gives for the design at hand.
LEMMA DesignTypes ==
  ASSUME design \in Designs
  PROVE  /\ design.part \subseteq Proc /\ design.whole \subseteq Proc
         /\ design.shadow \in Kind /\ design.kinds \subseteq Kind
         /\ design.num \in Nums /\ 0 \in Words
         /\ Given \subseteq Vector
         /\ \A p \in Proc : Targets(p) \subseteq SUBSET Part
<1>1. Given \subseteq Vector
  BY SignalAssumption DEF Given, Vector
<1>2. \A p \in Proc : Targets(p) \subseteq SUBSET Part
  BY DEF Targets
<1> QED BY <1>1, <1>2, SignalAssumption DEF Words

\* The values that the variables of an invocation are reset to.
LEMMA ResetTypes == pint_nonedge \in Edge /\ Blank \in Vector
  BY DEF pint_nonedge, Edge, Blank, Vector, Part, Bit4

\* The generated initial values satisfy the invariant.
LEMMA SignalInit == Init => SignalInv
<1> SUFFICES ASSUME Init PROVE SignalInv
  OBVIOUS
<1>1. design \in Designs /\ 0 \in Words
  BY SignalAssumption DEF Init, Words
<1>2. [lsb |-> BIT4_X, rest |-> 1] \in Vector
  BY DEF Vector, Bit4, BIT4_X
<1>3. TypeOK
  BY <1>1, <1>2, ResetTypes DEF Init, TypeOK
<1>4. ShadowInv
  BY DEF Init, ShadowInv, Running, Alone, MaskMade, Copied, StaleHow, MadeWhole, Found
<1>5. RunsSensitive
  BY <1>1 DEF Init, RunsSensitive
<1> QED BY <1>3, <1>4, <1>5 DEF SignalInv, Receives, Init

\* A change whose edge was found from the values before and after it runs the
\* sensitive entries, of the word only if the signal is an array.
LEMMA ChangeRuns ==
  ASSUME TypeOK, NEW w \in Words, NEW to \in Vector, to # sig[w],
         NEW kind \in Kind, Change(w, to, EdgeFound(kind, sig[w], to)),
         design' = design
  PROVE  RunsSensitive'
<1> DEFINE from == sig[w]
           e == EdgeFound(kind, from, to)
<1>1. from \in Vector /\ design.num \in Nums
  BY DesignTypes DEF TypeOK
<1>2. \A l \in {Layout.s, Layout.e} :
        Visited(l, design.num, e) = Sensitive(l, design.num, from, to)
  BY <1>1, SliceIsSensitive
<1>3. last' = [word |-> w, from |-> from] /\ sig'[w] = to
  BY DEF Change, TypeOK
<1>4. CASE design.array
  <2>1. ran' = [s |-> {a \in Visited(Layout.s, design.num, e) :
                        OfWord(EntryWord(EntryAt(Layout.s, a)), w)}, e |-> {}]
    BY <1>4 DEF Change, RunArrList
  <2>2. {a \in Visited(Layout.s, design.num, e) :
            OfWord(EntryWord(EntryAt(Layout.s, a)), w)}
        = {a \in Sensitive(Layout.s, design.num, from, to) :
            EntryWord(EntryAt(Layout.s, a)) \in {w, AllWords}}
    BY <1>2 DEF OfWord
  <2> QED BY <1>3, <1>4, <2>1, <2>2 DEF RunsSensitive
<1>5. CASE ~design.array
  <2>1. ran' = [s |-> Visited(Layout.s, design.num, e),
                e |-> Visited(Layout.e, design.num, e)]
    BY <1>5 DEF Change, RunLists
  <2> QED BY <1>2, <1>3, <1>5, <2>1 DEF RunsSensitive
<1> QED BY <1>4, <1>5

\* An invocation that leaves, with or without a store, disturbs no other: the store
\* makes the copies of the others stale.
LEMMA LeaveKeeps ==
  ASSUME SignalInv, NEW p \in Proc, Leave(p), at[p] # "out", design' = design,
         \/ sig' = sig /\ stale' = [stale EXCEPT ![p] = FALSE]
         \/ /\ \E v \in Vector : sig' = [sig EXCEPT ![0] = v]
            /\ stale' = [StaleAfter(0) EXCEPT ![p] = FALSE]
  PROVE  ShadowInv'
<1> USE DEF SignalInv, Receives, ShadowInv, TypeOK
<1>1. /\ at' = [at EXCEPT ![p] = "out"]
      /\ \A q \in Proc : q # p => /\ TMP'[q] = TMP[q] /\ MASK'[q] = MASK[q]
                                  /\ made'[q] = made[q]
                                  /\ change_flag'[q] = change_flag[q]
      /\ MASK'[p] = {} /\ made'[p] = {}
  BY DEF Leave
<1>2. Running' /\ Alone'
  BY <1>1 DEF Running, Alone, Procs
<1>3. MaskMade' /\ MadeWhole'
  BY <1>1 DEF MaskMade, MadeWhole, needs_mask, Procs
<1>4. ~design.parallel => \A q \in Proc : at'[q] = "out"
  BY <1>1 DEF Alone
<1>5. Found'
  BY <1>4 DEF Found
<1>6. p \in Procs
  BY DEF Running
<1>7. Copied' /\ StaleHow'
  <2>1. CASE sig' = sig /\ stale' = [stale EXCEPT ![p] = FALSE]
    BY <1>1, <2>1 DEF Copied, StaleHow, Procs
  <2>2. CASE stale' = [StaleAfter(0) EXCEPT ![p] = FALSE]
    <3>1. \A q \in Proc : stale'[q] = (q # p /\ (stale[q] \/ at[q] # "out"))
      BY <2>2 DEF StaleAfter
    <3>2. Copied'
      BY <1>1, <3>1 DEF Copied
    <3>3. StaleHow'
      BY <1>6, <3>1 DEF StaleHow, Alone, Procs
    <3> QED BY <3>2, <3>3
  <2> QED BY <2>1, <2>2
<1> QED BY <1>2, <1>3, <1>5, <1>7

\* Every step keeps the invariant.  A masked process stores what it made, and so does
\* one that made all or whose copy is not stale; the only other case sets lost.
LEMMA SignalNext ==
  ASSUME SignalInv, [Next]_vars
  PROVE  SignalInv'
<1> USE DEF SignalInv, Receives
<1>0. /\ design.part \subseteq Proc /\ design.whole \subseteq Proc
      /\ design.shadow \in Kind /\ design.kinds \subseteq Kind
      /\ design.num \in Nums /\ 0 \in Words
      /\ Given \subseteq Vector
      /\ \A p \in Proc : Targets(p) \subseteq SUBSET Part
  BY DesignTypes DEF TypeOK
<1>1. ASSUME NEW p \in Proc, Enter(p) PROVE SignalInv'
  <2>1. TypeOK'
    BY <1>0, <1>1 DEF Enter, TypeOK, Words
  <2>2. Running' /\ Alone' /\ MaskMade' /\ Found' /\ MadeWhole'
    BY <1>1 DEF Enter, ShadowInv, Running, Alone, MaskMade, Found, MadeWhole, TypeOK, Procs,
                needs_mask
  <2>3. Copied' /\ StaleHow'
    BY <1>1 DEF Enter, ShadowInv, Copied, StaleHow, TypeOK, Procs
  <2>4. (\A w \in Words : sig[w] = value[w] \/ (w = 0 /\ lost))' /\ RunsSensitive'
    BY <1>1 DEF Enter, RunsSensitive, Words
  <2> QED BY <2>1, <2>2, <2>3, <2>4 DEF ShadowInv
<1>2. ASSUME NEW p \in Proc, NEW B \in Targets(p), NEW new \in Given,
             Assign(p, B, new)
      PROVE  SignalInv'
  <2>0. B \in SUBSET Part /\ With(TMP[p], B, new) \in Vector
    BY <1>0, WithVector DEF TypeOK
  <2>1. TypeOK'
    BY <1>2, <2>0 DEF Assign, TypeOK, MaskAfter, Words
  <2>2. Running' /\ Alone' /\ Found' /\ StaleHow'
    BY <1>2 DEF Assign, ShadowInv, Running, Alone, Found, StaleHow, TypeOK, Procs
  <2>3. MaskMade'
    BY <1>2 DEF Assign, ShadowInv, MaskMade, MaskAfter, TypeOK, Procs, needs_mask
  <2>4. Copied'
    <3> SUFFICES ASSUME NEW q \in Proc, at[q] # "out", ~stale[q], NEW b \in Part \ made'[q]
                 PROVE  TMP'[q][b] = sig[0][b]
      BY <1>2 DEF Copied, Assign
    <3>1. CASE q = p
      BY <1>2, <3>1 DEF Assign, ShadowInv, Copied, TypeOK, With
    <3>2. CASE q # p
      BY <1>2, <3>2 DEF Assign, ShadowInv, Copied, TypeOK
    <3> QED BY <3>1, <3>2
  <2>5. MadeWhole'
    <3>1. p \notin design.part => B = Part
      BY DEF Targets
    <3>2. made' = [made EXCEPT ![p] = @ \cup B] /\ design' = design
      BY <1>2 DEF Assign
    <3>3. p \notin design.part => made'[p] = Part
      BY <2>0, <3>1, <3>2 DEF TypeOK
    <3> QED BY <3>2, <3>3 DEF ShadowInv, MadeWhole, TypeOK
  <2>6. (\A w \in Words : sig[w] = value[w] \/ (w = 0 /\ lost))' /\ RunsSensitive'
    BY <1>2 DEF Assign, RunsSensitive, Words
  <2> QED BY <2>1, <2>2, <2>3, <2>4, <2>5, <2>6 DEF ShadowInv
<1>3. ASSUME NEW p \in Proc, LeaveUnchanged(p) PROVE SignalInv'
  <2>1. /\ value'[0] \in Vector /\ value' = [value EXCEPT ![0] = With(@, made[p], TMP[p])]
        /\ value[0] = sig[0] => value'[0] = sig[0]
    BY <1>0, <1>3, WithVector DEF LeaveUnchanged, Leave, With, TypeOK, Vector, Part
  <2>2. TypeOK'
    BY <1>0, <1>3, <2>1, ResetTypes DEF LeaveUnchanged, Leave, TypeOK, Words
  <2>3. at[p] # "out" /\ sig' = sig /\ design' = design /\ lost' = lost
        /\ stale' = [stale EXCEPT ![p] = FALSE] /\ Leave(p)
    BY <1>3 DEF LeaveUnchanged
  <2>4. ShadowInv'
    BY <2>3, LeaveKeeps
  <2>5. RunsSensitive'
    BY <1>3 DEF LeaveUnchanged, RunsSensitive
  <2>6. (\A w \in Words : sig[w] = value[w] \/ (w = 0 /\ lost))'
    BY <1>0, <2>1, <2>3 DEF Words, TypeOK
  <2> QED BY <2>2, <2>4, <2>5, <2>6
<1>4. ASSUME NEW p \in Proc, FindEdge(p) PROVE SignalInv'
  <2>1. sig[0] \in Vector /\ TMP[p] \in Vector
    BY <1>0 DEF TypeOK
  <2>2. EdgeBefore(p) \in Edge
    BY <1>0, <1>4, <2>1, EdgeDecided DEF FindEdge, EdgeBefore
  <2>3. TypeOK'
    BY <1>4, <2>2 DEF FindEdge, TypeOK, Words
  <2>4. Running' /\ Alone' /\ MaskMade' /\ Copied' /\ StaleHow' /\ MadeWhole'
    BY <1>4 DEF FindEdge, ShadowInv, Running, Alone, MaskMade, Copied, StaleHow, MadeWhole,
                TypeOK, Procs, needs_mask
  <2>5. Found'
    BY <1>4 DEF FindEdge, EdgeBefore, ShadowInv, Found, TypeOK
  <2>6. (\A w \in Words : sig[w] = value[w] \/ (w = 0 /\ lost))' /\ RunsSensitive'
    BY <1>4 DEF FindEdge, RunsSensitive, Words
  <2> QED BY <2>3, <2>4, <2>5, <2>6 DEF ShadowInv
<1>5. ASSUME NEW p \in Proc, Store(p) PROVE SignalInv'
  <2>0. /\ sig[0] \in Vector /\ TMP[p] \in Vector /\ value[0] \in Vector
        /\ made[p] \in SUBSET Part /\ at[p] = "store" /\ p \in Procs
        /\ stale[p] \in BOOLEAN /\ lost \in BOOLEAN
    BY <1>0, <1>5 DEF TypeOK, Store, ShadowInv, Running
  <2>1. ~stale[p] => With(sig[0], made[p], TMP[p]) = TMP[p]
    BY <2>0, WithSame DEF ShadowInv, Copied
  <2>2. ~design.parallel => ~stale[p]
    BY DEF ShadowInv, StaleHow
  <2>3. ~lost' => /\ ~lost
                  /\ Stored(p) = With(sig[0], made[p], TMP[p])
    <3> SUFFICES ASSUME ~lost' PROVE ~lost /\ Stored(p) = With(sig[0], made[p], TMP[p])
      OBVIOUS
    <3>1. ~lost /\ ~(stale[p] /\ made[p] = {} /\ ~needs_mask(p))
      BY <1>5, <2>0 DEF Store
    <3>2. CASE needs_mask(p)
      BY <3>1, <3>2 DEF Stored, ShadowInv, MaskMade
    <3>3. CASE ~needs_mask(p) /\ ~stale[p]
      BY <2>1, <3>1, <3>3 DEF Stored
    <3>4. CASE ~needs_mask(p) /\ stale[p]
      <4>1. made[p] # {} /\ p \notin design.part
        BY <3>1, <3>4 DEF needs_mask, ShadowInv, StaleHow
      <4>2. made[p] = Part
        BY <4>1 DEF ShadowInv, MadeWhole
      <4>3. With(sig[0], made[p], TMP[p]) = TMP[p]
        BY <2>0, <4>2, WithSame
      <4> QED BY <3>1, <3>4, <4>3 DEF Stored
    <3> QED BY <3>2, <3>3, <3>4
  <2>4. Stored(p) \in Vector /\ With(value[0], made[p], TMP[p]) \in Vector
    BY <2>0, WithVector DEF Stored, TypeOK
  <2>5. /\ sig' = [sig EXCEPT ![0] = Stored(p)]
        /\ value' = [value EXCEPT ![0] = With(value[0], made[p], TMP[p])]
    BY <1>5 DEF Store, Change, Leave
  <2>6. TypeOK'
    <3>1. /\ sig' \in [Words -> Vector] /\ value' \in [Words -> Vector] /\ design' = design
          /\ lost' \in BOOLEAN /\ stale' \in [Proc -> BOOLEAN]
      BY <1>5, <2>0, <2>4, <2>5 DEF Store, StaleAfter, TypeOK
    <3> QED
      BY <1>0, <1>5, <2>0, <3>1, ResetTypes DEF Store, Change, Leave, TypeOK, Words
  <2>7. ShadowInv'
    BY <1>5, <2>0, <2>4, <2>5, LeaveKeeps DEF Store
  <2>8. RunsSensitive'
    <3>1. CASE design.parallel
      BY <1>5, <3>1 DEF Store, RunsSensitive
    <3>2. CASE ~design.parallel
      <4>1. Stored(p) = TMP[p]
        BY <2>1, <2>2, <3>2 DEF Stored, ShadowInv, MaskMade
      <4>2. TMP[p] # sig[0] /\ change_flag[p] = EdgeFound(design.shadow, sig[0], TMP[p])
        BY <2>0, <3>2 DEF ShadowInv, Found
      <4> QED BY <1>0, <1>5, <2>0, <4>1, <4>2, ChangeRuns DEF Store
    <3> QED BY <3>1, <3>2
  <2>9. (\A w \in Words : sig[w] = value[w] \/ (w = 0 /\ lost))'
    <3>1. Words' = Words
      BY <1>5 DEF Store, Words
    <3>2. ASSUME NEW w \in Words, w # 0 PROVE sig'[w] = value'[w]
      BY <2>5, <3>2 DEF TypeOK
    <3>3. ~lost' => sig'[0] = value'[0]
      BY <1>0, <2>3, <2>5 DEF TypeOK
    <3> QED BY <3>1, <3>2, <3>3
  <2> QED BY <2>6, <2>7, <2>8, <2>9
<1>6. ASSUME NEW kind \in design.kinds, NEW w \in Words, NEW to \in Given,
             Direct(kind, w, to)
      PROVE  SignalInv'
  <2>1. to \in Vector /\ kind \in Kind
    BY <1>0
  <2>2. TypeOK' /\ (\A x \in Words : sig[x] = value[x] \/ (x = 0 /\ lost))'
    BY <1>6, <2>1 DEF Direct, Change, TypeOK, shadow, Words, StaleAfter
  <2>3. Running' /\ Alone' /\ MaskMade' /\ MadeWhole'
    BY <1>6 DEF Direct, shadow, ShadowInv, Running, Alone, MaskMade, MadeWhole, Procs, needs_mask
  <2>4. Copied' /\ StaleHow' /\ Found'
    <3>1. /\ sig' = [sig EXCEPT ![w] = to] /\ UNCHANGED <<design, at, TMP, made, change_flag>>
          /\ \A q \in Proc : stale'[q] = (stale[q] \/ (w = 0 /\ at[q] # "out"))
          /\ (design.parallel /\ design.others) \/ \A q \in Proc : at[q] = "out"
      BY <1>6 DEF Direct, Change, shadow, StaleAfter
    <3>2. w # 0 => sig'[0] = sig[0]
      BY <1>0, <3>1 DEF TypeOK
    <3>3. Copied'
      <4> SUFFICES ASSUME NEW q \in Proc, at[q] # "out", ~stale'[q], NEW b \in Part \ made[q]
                   PROVE  TMP[q][b] = sig'[0][b]
        BY <3>1 DEF Copied
      <4>1. ~stale[q] /\ w # 0
        BY <3>1
      <4> QED BY <3>2, <4>1 DEF ShadowInv, Copied
    <3>4. StaleHow'
      BY <3>1 DEF ShadowInv, StaleHow, Procs, TypeOK
    <3>5. Found'
      BY <3>1 DEF Found
    <3> QED BY <3>3, <3>4, <3>5
  <2>5. RunsSensitive'
    BY <1>6, <2>1, ChangeRuns DEF Direct
  <2> QED BY <2>2, <2>3, <2>4, <2>5 DEF ShadowInv
<1>7. CASE UNCHANGED vars
  BY <1>7 DEF vars, shadow, TypeOK, ShadowInv, Running, Alone, MaskMade, Copied, StaleHow,
              MadeWhole, Found, RunsSensitive, Procs, needs_mask, Words
<1> QED BY <1>1, <1>2, <1>3, <1>4, <1>5, <1>6, <1>7 DEF Next

\* The invariant holds always.
LEMMA SignalInvariant == Spec => []SignalInv
BY SignalInit, SignalNext, PTL DEF Spec

\* In every design each part of the signal holds what the completed assignments gave
\* it: PC_END and the masked store lose no assignment of another process, unless a
\* process without a mask, which assigned nothing itself, stored a stale copy.
THEOREM SignalReceives == Spec => []Receives
<1>1. SignalInv => Receives
  BY DEF SignalInv
<1> QED BY <1>1, SignalInvariant, PTL

\* Processes that run one after the other, and assignments of any kind without
\* shadow, run exactly the entries of the lists that are sensitive to the
\* change, for lists of any length.
THEOREM SignalRunsSensitive == Spec => []RunsSensitive
<1>1. SignalInv => RunsSensitive
  BY DEF SignalInv
<1> QED BY <1>1, SignalInvariant, PTL
=============================================================================
