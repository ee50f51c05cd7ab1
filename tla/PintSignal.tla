------------------------------ MODULE PintSignal ------------------------------
(***************************************************************************)
(* A signal, or an array of signals, and all that assigns it.              *)
(*                                                                         *)
(* A process that assigns a signal several times works on a shadow, as     *)
(* the code generator emits it (tgt-pint/pint.c, MULT_SIG_3): it starts by *)
(* copying the signal to TMP, assigns TMP, and stores TMP back at PC_END,  *)
(* when it ends or suspends itself.  If several processes assign the       *)
(* signal, one that assigns parts of it keeps a MASK of the bits to store. *)
(* Other assignments go to the signal at once.  An assignment that changes *)
(* the signal runs the entries of its lists that the edge selects          *)
(* (PintEdge).                                                             *)
(***************************************************************************)
EXTENDS PintEdge

CONSTANTS
  Proc,    \* the processes with a shadow
  Word,    \* the words of an array; shadows are of word 0
  Designs  \* what a design has of all this

ASSUME SignalAssumption ==
  /\ Word \subseteq Nat /\ 0 \in Word
  /\ \A d \in Designs :
       /\ d.parallel \in BOOLEAN   \* processes run on several cores
       /\ d.part \subseteq Proc    \* those that assign parts of the signal
       /\ d.whole \subseteq Proc   \* those that assign all of it
       /\ d.others \in BOOLEAN     \* a process without shadow assigns it too
       /\ d.shadow \in Kind        \* how PC_END finds an edge
       /\ d.kinds \subseteq Kind   \* and how assignments without shadow do
       /\ d.array \in BOOLEAN /\ d.num \in Nums
       /\ d.bits \subseteq Bit4    \* bound: the values given to bit 0

\* Scope: on several cores the signal has at most four bits, so that one
\* instruction stores it, masked or not.
ASSUME NarrowAssumption == \A d \in Designs : d.parallel => d.shadow = "char"

VARIABLES
  design,
  sig,                         \* each word
  at, TMP, MASK, change_flag,  \* of the invocation of each process
  made,   \* history: the parts an invocation has assigned
  value,  \* history: the words as the completed assignments leave them
  last,   \* history: the last change, its word and the value before it
  stale,  \* history: the signal was stored since the process copied it
  lost,   \* history: a stale copy was stored without a mask and unassigned
  ran     \* the entries run for it: addresses in the s_list and the e_list

shadow == <<at, TMP, MASK, change_flag, made>>
vars == <<design, sig, shadow, value, last, stale, lost, ran>>

Part == {"lsb", "rest"}
With(v, B, new) == [b \in Part |-> IF b \in B THEN new[b] ELSE v[b]]
Blank == [b \in Part |-> 0]

Procs == design.part \cup design.whole
Words == IF design.array THEN Word ELSE {0}
\* A process assigns every set of parts, or all of the signal.
Targets(p) == IF p \in design.part THEN SUBSET Part \ {{}} ELSE {Part}
Given == [lsb : design.bits, rest : {0, 1}]

\* pint_proc_mult_sig_needs_mask: assigned in several threads, with or without
\* a shadow, and in parts by this one.
needs_mask(p) == p \in design.part /\ (design.others \/ \E q \in Procs : q # p)

Init ==
  /\ design \in Designs
  /\ sig = [w \in Words |-> [lsb |-> BIT4_X, rest |-> 1]] /\ value = sig
  /\ at = [p \in Proc |-> "out"]
  /\ TMP = [p \in Proc |-> Blank] /\ MASK = [p \in Proc |-> {}]
  /\ change_flag = [p \in Proc |-> pint_nonedge] /\ made = [p \in Proc |-> {}]
  /\ last = [word |-> 0, from |-> [lsb |-> BIT4_X, rest |-> 1]]
  /\ stale = [p \in Proc |-> FALSE] /\ lost = FALSE
  /\ ran = [s |-> {}, e |-> {}]
-----------------------------------------------------------------------------
\* pint_process_event_list: the slices of both lists.
RunLists(e) ==
  ran' = [s |-> Visited(Layout.s, design.num, e), e |-> Visited(Layout.e, design.num, e)]

\* pint_process_arr_event_list: the entries of the word in the slice.
RunArrList(e, w) ==
  ran' = [s |-> {a \in Visited(Layout.s, design.num, e) :
                   OfWord(EntryWord(EntryAt(Layout.s, a)), w)},
          e |-> {}]

\* The signal is stored, and what its lists hold for the edge is run.
Change(w, to, e) ==
  /\ sig' = [sig EXCEPT ![w] = to]
  /\ last' = [word |-> w, from |-> sig[w]]
  /\ IF design.array THEN RunArrList(e, w) ELSE RunLists(e)

\* The copies that a store to a word leaves behind.
StaleAfter(w) == [p \in Proc |-> stale[p] \/ (w = 0 /\ at[p] # "out")]

\* An assignment without shadow that changes a word: by a process, on any core,
\* or in a phase of its own, as a nonblocking assignment is applied.
Direct(kind, w, to) ==
  /\ (design.parallel /\ design.others) \/ \A p \in Proc : at[p] = "out"
  /\ to # sig[w]
  /\ Change(w, to, EdgeFound(kind, sig[w], to))
  /\ value' = [value EXCEPT ![w] = to]
  /\ stale' = StaleAfter(w)
  /\ UNCHANGED <<design, shadow, lost>>
-----------------------------------------------------------------------------
\* The head of the generated thread.
Enter(p) ==
  /\ p \in Procs /\ at[p] = "out"
  /\ design.parallel \/ \A q \in Proc : at[q] = "out"
  /\ at' = [at EXCEPT ![p] = "body"]
  /\ TMP' = [TMP EXCEPT ![p] = sig[0]]
  /\ UNCHANGED <<design, sig, MASK, change_flag, made, value, last, stale, lost, ran>>

\* pint_set_mask.
MaskAfter(p, B) == IF needs_mask(p) THEN MASK[p] \cup B ELSE MASK[p]

\* An assignment of the body goes to the shadow.
Assign(p, B, new) ==
  /\ at[p] = "body"
  /\ TMP' = [TMP EXCEPT ![p] = With(TMP[p], B, new)]
  /\ MASK' = [MASK EXCEPT ![p] = MaskAfter(p, B)]
  /\ made' = [made EXCEPT ![p] = @ \cup B]
  /\ UNCHANGED <<design, sig, at, change_flag, value, last, stale, lost, ran>>

\* The invocation is over: its variables are gone, and the parts it assigned
\* have their values.
Leave(p) ==
  /\ at' = [at EXCEPT ![p] = "out"]
  /\ TMP' = [TMP EXCEPT ![p] = Blank] /\ MASK' = [MASK EXCEPT ![p] = {}]
  /\ change_flag' = [change_flag EXCEPT ![p] = pint_nonedge]
  /\ made' = [made EXCEPT ![p] = {}]
  /\ value' = [value EXCEPT ![0] = With(@, made[p], TMP[p])]

\* PC_END: nothing to store.
LeaveUnchanged(p) ==
  /\ at[p] = "body" /\ sig[0] = TMP[p]
  /\ Leave(p)
  /\ stale' = [stale EXCEPT ![p] = FALSE]
  /\ UNCHANGED <<design, sig, last, lost, ran>>

\* Mutant of EdgeBefore: the edge is taken the wrong way round.
EdgeBeforeReversed(p) == EdgeFound(design.shadow, TMP[p], sig[0])
EdgeBefore(p) == EdgeFound(design.shadow, sig[0], TMP[p])

\* PC_END: the signal and the shadow differ.
FindEdge(p) ==
  /\ at[p] = "body" /\ sig[0] # TMP[p]
  /\ change_flag' = [change_flag EXCEPT ![p] = EdgeBefore(p)]
  /\ at' = [at EXCEPT ![p] = "store"]
  /\ UNCHANGED <<design, sig, TMP, MASK, made, value, last, stale, lost, ran>>

\* Mutant of Stored: the mask is not used.
StoredWhole(p) == TMP[p]
\* pint_proc_gen_copy_code: a masked store is one instruction, uap.shm.
Stored(p) == IF needs_mask(p) THEN With(sig[0], MASK[p], TMP[p]) ELSE TMP[p]

\* The store, and the lists for the edge found before.
Store(p) ==
  /\ at[p] = "store"
  /\ Change(0, Stored(p), change_flag[p])
  /\ Leave(p)
  /\ stale' = [StaleAfter(0) EXCEPT ![p] = FALSE]
  /\ lost' = (lost \/ (stale[p] /\ made[p] = {} /\ ~needs_mask(p)))
  /\ UNCHANGED design

Next ==
  \/ \E p \in Proc : Enter(p) \/ LeaveUnchanged(p) \/ FindEdge(p) \/ Store(p)
  \/ \E p \in Proc : \E B \in Targets(p), new \in Given : Assign(p, B, new)
  \/ \E kind \in design.kinds, w \in Words, to \in Given : Direct(kind, w, to)

Spec == Init /\ [][Next]_vars
-----------------------------------------------------------------------------
TypeOK ==
  /\ design \in Designs
  /\ sig \in [Words -> Vector] /\ value \in [Words -> Vector]
  /\ at \in [Proc -> {"out", "body", "store"}]
  /\ TMP \in [Proc -> Vector]
  /\ MASK \in [Proc -> SUBSET Part] /\ made \in [Proc -> SUBSET Part]
  /\ change_flag \in [Proc -> Edge]
  /\ last \in [word : Words, from : Vector]
  /\ stale \in [Proc -> BOOLEAN] /\ lost \in BOOLEAN

\* The types hold, and each part of each word holds what the completed
\* assignments gave it, whatever others stored since a process copied the
\* signal.  One case is excepted: a process that assigns all of the signal
\* keeps no mask, so when an invocation of it assigns nothing, and another core
\* stored the signal meanwhile, PC_END stores the old copy over that.
Receives ==
  /\ TypeOK
  /\ \A w \in Words : sig[w] = value[w] \/ (w = 0 /\ lost)

\* When processes run one after the other, the entries run for a change are
\* the sensitive ones and no others: for each way to find an edge, each value
\* of bit 0, a change above bit 0 only, and any number of entries of each sort.
RunsSensitive ==
  LET from == last.from
      to == sig[last.word]
      Must(l) == IF from = to THEN {} ELSE Sensitive(l, design.num, from, to)
      OfLast(a) == EntryWord(EntryAt(Layout.s, a)) \in {last.word, AllWords}
  IN ~design.parallel =>
       ran = IF design.array
             THEN [s |-> {a \in Must(Layout.s) : OfLast(a)}, e |-> {}]
             ELSE [s |-> Must(Layout.s), e |-> Must(Layout.e)]
=============================================================================
