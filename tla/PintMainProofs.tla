---------------------------- MODULE PintMainProofs ----------------------------
(***************************************************************************)
(* Theorems about PintMain: no process is in two places or dropped, a bit  *)
(* means a queued entry, delays end on time, the loop stops only when idle *)
(* and, last, it implements the stratified event queue of PintRegions.     *)
(***************************************************************************)
EXTENDS PintMain, FiniteSetTheorems, SequenceTheorems, TLAPS

(* Sequences: how often a value occurs, and which values do. *)

\* A sequence is a function on its positions.
LEMMA SeqIs ==
  ASSUME NEW S, NEW s \in Seq(S)
  PROVE  /\ Len(s) \in Nat /\ DOMAIN s = 1 .. Len(s)
         /\ \A x \in 1 .. Len(s) : s[x] \in S
OBVIOUS

\* The positions of a value are finitely many.
LEMMA CountNat ==
  ASSUME NEW S, NEW s \in Seq(S), NEW t
  PROVE  IsFiniteSet({x \in DOMAIN s : s[x] = t}) /\ Count(s, t) \in Nat
<1>1. IsFiniteSet(1 .. Len(s))
  <2>1. 1 \in Int /\ Len(s) \in Int
    BY SeqIs
  <2> QED
    BY <2>1, FS_Interval, Zenon
<1>2. {x \in DOMAIN s : s[x] = t} \subseteq 1 .. Len(s)
  BY SeqIs
<1>3. IsFiniteSet({x \in DOMAIN s : s[x] = t})
  BY <1>1, <1>2, FS_Subset, Zenon
<1> QED
  BY <1>3, FS_CardinalityType, Zenon DEF Count

\* The empty sequence holds nothing.
LEMMA CountEmpty == \A t : Count(<<>>, t) = 0 /\ ToSet(<<>>) = {}
<1> TAKE t
<1>1. DOMAIN <<>> = {}
  OBVIOUS
<1>2. {x \in DOMAIN <<>> : <<>>[x] = t} = {} /\ ToSet(<<>>) = {}
  BY <1>1, Zenon DEF ToSet
<1> QED
  BY <1>2, FS_EmptySet, Zenon DEF Count

\* A value occurs where it is counted.
LEMMA CountIn ==
  ASSUME NEW S, NEW s \in Seq(S), NEW t
  PROVE  t \in ToSet(s) <=> Count(s, t) > 0
<1> DEFINE A == {x \in DOMAIN s : s[x] = t}
<1>1. IsFiniteSet(A) /\ Count(s, t) \in Nat /\ Count(s, t) = Cardinality(A)
  BY CountNat, Zenon DEF Count
<1>2. Cardinality(A) = 0 <=> A = {}
  BY <1>1, FS_EmptySet, Zenon
<1>3. t \in ToSet(s) <=> A # {}
  BY DEF ToSet
<1> HIDE DEF A
<1> QED
  BY <1>1, <1>2, <1>3

\* What is not among the values of a sequence is not counted.
LEMMA CountOther ==
  ASSUME NEW S, NEW s \in Seq(S), NEW t, t \notin S
  PROVE  Count(s, t) = 0 /\ t \notin ToSet(s)
<1>1. t \notin ToSet(s)
  BY SeqIs DEF ToSet
<1> QED
  BY <1>1, CountIn, CountNat

\* The values of a sequence.
LEMMA SetType ==
  ASSUME NEW S, NEW s \in Seq(S)
  PROVE  ToSet(s) \subseteq S /\ (ToSet(s) = {} <=> s = <<>>)
BY SeqIs DEF ToSet

\* One more value at the end.
LEMMA CountAppend ==
  ASSUME NEW S, NEW s \in Seq(S), NEW e \in S
  PROVE  /\ Append(s, e) \in Seq(S) /\ Len(Append(s, e)) = Len(s) + 1 /\ Append(s, e) # <<>>
         /\ ToSet(Append(s, e)) = ToSet(s) \cup {e}
         /\ \A t : Count(Append(s, e), t) = Count(s, t) + (IF e = t THEN 1 ELSE 0)
<1> DEFINE u == Append(s, e)
           n == Len(s)
<1>1. /\ u \in Seq(S) /\ Len(u) = n + 1 /\ n \in Nat /\ DOMAIN u = 1 .. n + 1 /\ DOMAIN s = 1 .. n
      /\ \A x \in 1 .. n : u[x] = s[x]
      /\ u[n + 1] = e
  OBVIOUS
<1> HIDE DEF u, n
<1>2. ToSet(u) = ToSet(s) \cup {e}
  <2>1. \A x \in 1 .. n + 1 : x \in 1 .. n \/ x = n + 1
    BY <1>1
  <2>2. 1 .. n \subseteq 1 .. n + 1 /\ n + 1 \in 1 .. n + 1
    BY <1>1
  <2> QED
    BY <1>1, <2>1, <2>2 DEF ToSet
<1>3. ASSUME NEW t PROVE Count(u, t) = Count(s, t) + (IF e = t THEN 1 ELSE 0)
  <2> DEFINE A == {x \in DOMAIN s : s[x] = t}
             B == {x \in DOMAIN u : u[x] = t}
  <2>1. /\ IsFiniteSet(A) /\ Count(s, t) = Cardinality(A) /\ Cardinality(A) \in Nat
        /\ Count(u, t) = Cardinality(B)
    BY CountNat, Zenon DEF Count
  <2>2. n + 1 \notin A
    BY <1>1
  <2>3. B = IF e = t THEN A \cup {n + 1} ELSE A
    BY <1>1
  <2>4. Cardinality(A \cup {n + 1}) = Cardinality(A) + 1
    BY <2>1, <2>2, FS_AddElement, Zenon
  <2> HIDE DEF A, B
  <2> QED
    BY <2>1, <2>3, <2>4
<1>4. u # <<>>
  BY <1>1
<1> QED
  BY <1>1, <1>2, <1>3, <1>4 DEF u, n

\* Two sequences in a row.
LEMMA CountConcat ==
  ASSUME NEW S, NEW s \in Seq(S), NEW u \in Seq(S)
  PROVE  /\ s \o u \in Seq(S)
         /\ ToSet(s \o u) = ToSet(s) \cup ToSet(u)
         /\ \A t : Count(s \o u, t) = Count(s, t) + Count(u, t)
<1> DEFINE w == s \o u
           n == Len(s)
           m == Len(u)
<1>1. /\ w \in Seq(S) /\ Len(w) = n + m /\ n \in Nat /\ m \in Nat
      /\ DOMAIN w = 1 .. n + m /\ DOMAIN s = 1 .. n /\ DOMAIN u = 1 .. m
      /\ \A x \in 1 .. n : w[x] = s[x]
      /\ \A x \in 1 .. m : w[n + x] = u[x]
  OBVIOUS
<1> HIDE DEF w, n, m
<1>0. /\ \A x \in 1 .. n + m : x \in 1 .. n \/ (x - n \in 1 .. m /\ n + (x - n) = x)
      /\ 1 .. n \subseteq 1 .. n + m /\ \A x \in 1 .. m : n + x \in 1 .. n + m
  BY <1>1
<1>2. ToSet(w) = ToSet(s) \cup ToSet(u)
  <2>1. ASSUME NEW v \in ToSet(w) PROVE v \in ToSet(s) \cup ToSet(u)
    <3>1. PICK x \in 1 .. n + m : w[x] = v
      BY <1>1 DEF ToSet
    <3>2. CASE x \in 1 .. n
      BY <1>1, <3>1, <3>2 DEF ToSet
    <3>3. CASE x - n \in 1 .. m /\ n + (x - n) = x
      BY <1>1, <3>1, <3>3 DEF ToSet
    <3> QED
      BY <1>0, <3>2, <3>3
  <2>2. ASSUME NEW v \in ToSet(s) PROVE v \in ToSet(w)
    BY <1>0, <1>1 DEF ToSet
  <2>3. ASSUME NEW v \in ToSet(u) PROVE v \in ToSet(w)
    <3>1. PICK x \in 1 .. m : u[x] = v
      BY <1>1 DEF ToSet
    <3>2. n + x \in DOMAIN w /\ w[n + x] = v
      BY <1>0, <1>1, <3>1
    <3> QED
      BY <3>2 DEF ToSet
  <2> QED
    BY <2>1, <2>2, <2>3
<1>3. ASSUME NEW t PROVE Count(w, t) = Count(s, t) + Count(u, t)
  <2> DEFINE A == {x \in DOMAIN s : s[x] = t}
             B == {x \in DOMAIN u : u[x] = t}
             C == {n + x : x \in B}
             W == {x \in DOMAIN w : w[x] = t}
  <2>1. /\ IsFiniteSet(A) /\ Count(s, t) = Cardinality(A) /\ Cardinality(A) \in Nat
        /\ IsFiniteSet(B) /\ Count(u, t) = Cardinality(B) /\ Cardinality(B) \in Nat
        /\ Count(w, t) = Cardinality(W)
    BY CountNat, Zenon DEF Count
  <2>2. IsFiniteSet(C) /\ Cardinality(C) = Cardinality(B)
    <3> DEFINE f == [x \in B |-> n + x]
    <3>1. f \in Bijection(B, C)
      <4>1. B \subseteq Nat /\ n \in Nat
        BY <1>1
      <4>2. f \in [B -> C]
        OBVIOUS
      <4>3. \A x, y \in B : f[x] = f[y] => x = y
        BY <4>1
      <4>4. \A c \in C : \E x \in B : f[x] = c
        OBVIOUS
      <4> HIDE DEF f, B, C
      <4> QED
        BY <4>2, <4>3, <4>4, Zenon DEF Bijection, Injection, Surjection, IsInjective
    <3> HIDE DEF f, C, B
    <3> QED
      BY <2>1, <3>1, FS_Bijection, Zenon DEF ExistsBijection
  <2>3. A \cap C = {}
    BY <1>1
  <2>4. W = A \cup C
    <3>1. ASSUME NEW x \in W PROVE x \in A \cup C
      <4>1. CASE x \in 1 .. n
        BY <1>1, <4>1
      <4>2. CASE x - n \in 1 .. m /\ n + (x - n) = x
        BY <1>1, <4>2
      <4> QED
        BY <1>0, <1>1, <4>1, <4>2
    <3>2. ASSUME NEW x \in A PROVE x \in W
      BY <1>1, <1>0
    <3>3. ASSUME NEW x \in C PROVE x \in W
      BY <1>1, <1>0
    <3> QED
      BY <3>1, <3>2, <3>3
  <2>5. Cardinality(A \cup C) = Cardinality(A) + Cardinality(C) - Cardinality(A \cap C)
    BY <2>1, <2>2, FS_Union, Zenon
  <2>6. Cardinality(A \cap C) = 0
    BY <2>3, FS_EmptySet, Zenon
  <2> HIDE DEF A, B, C, W
  <2> QED
    BY <2>1, <2>2, <2>4, <2>5, <2>6
<1> QED
  BY <1>1, <1>2, <1>3 DEF w

\* What is left from a position on: its value and what is left from the next.
LEMMA CountSub ==
  ASSUME NEW S, NEW s \in Seq(S), NEW n \in Nat, n < Len(s)
  PROVE  /\ SubSeq(s, n + 1, Len(s)) \in Seq(S) /\ SubSeq(s, n + 2, Len(s)) \in Seq(S)
         /\ s[n + 1] \in S
         /\ ToSet(SubSeq(s, n + 1, Len(s))) = {s[n + 1]} \cup ToSet(SubSeq(s, n + 2, Len(s)))
         /\ \A t : Count(SubSeq(s, n + 1, Len(s)), t) =
                      (IF s[n + 1] = t THEN 1 ELSE 0) + Count(SubSeq(s, n + 2, Len(s)), t)
<1> DEFINE a == SubSeq(s, n + 1, Len(s))
           b == SubSeq(s, n + 2, Len(s))
           e == s[n + 1]
           h == <<e>>
<1>1. Len(s) \in Nat /\ n + 1 \in 1 .. Len(s) /\ e \in S
  BY SeqIs
<1>2. a \in Seq(S) /\ b \in Seq(S) /\ h \in Seq(S)
  <2>1. \A x \in n + 1 .. Len(s) : s[x] \in S
    BY <1>1, SeqIs
  <2>2. n + 1 \in Int /\ n + 2 \in Int /\ Len(s) \in Int
    BY <1>1
  <2>3. a \in Seq(S)
    BY <2>1, <2>2, SubSeqProperties, Zenon
  <2>4. \A x \in n + 2 .. Len(s) : s[x] \in S
    BY <1>1, SeqIs
  <2>5. b \in Seq(S)
    BY <2>4, <2>2, SubSeqProperties, Zenon
  <2> QED
    BY <1>1, <2>3, <2>5
<1>3. a = h \o b
  <2>1. SubSeq(s, n + 1, Len(s)) = << s[n + 1] >> \o SubSeq(s, (n + 1) + 1, Len(s))
    <3>1. Len(s) \in n + 1 .. Len(s)
      BY <1>1
    <3> QED
      BY <1>1, <3>1, SubSeqRecursiveFirst, Zenon
  <2>2. (n + 1) + 1 = n + 2
    OBVIOUS
  <2> QED
    BY <2>1, <2>2
<1>4. ToSet(h) = {e} /\ \A t : Count(h, t) = IF e = t THEN 1 ELSE 0
  <2> DEFINE z == <<>>
  <2>0. z \in Seq(S) /\ h = Append(z, e) /\ ToSet(z) = {} /\ \A t : Count(z, t) = 0
    BY CountEmpty
  <2> HIDE DEF h, e, z
  <2>1. /\ ToSet(h) = ToSet(z) \cup {e}
        /\ \A t : Count(h, t) = Count(z, t) + (IF e = t THEN 1 ELSE 0)
    BY <1>1, <2>0, CountAppend
  <2> QED
    BY <2>0, <2>1
<1>5. /\ ToSet(a) = ToSet(h) \cup ToSet(b)
      /\ \A t : Count(a, t) = Count(h, t) + Count(b, t)
  <2> HIDE DEF a, b, h
  <2> QED
    BY <1>2, <1>3, CountConcat
<1> HIDE DEF a, b, h
<1> QED
  BY <1>1, <1>2, <1>4, <1>5 DEF a, b

\* Nothing is left past the end, and everything from the start.
LEMMA SubEnds ==
  ASSUME NEW S, NEW s \in Seq(S)
  PROVE  SubSeq(s, Len(s) + 1, Len(s)) = <<>> /\ SubSeq(s, 1, Len(s)) = s
<1>1. Len(s) \in Nat /\ Len(s) + 1 \in Int /\ Len(s) < Len(s) + 1
  BY SeqIs
<1> QED
  BY <1>1, SubSeqEmpty, SubSeqFull

\* The entry is gone and the others are still there.
LEMMA CountRemove ==
  ASSUME NEW S, NEW s \in Seq(S), NEW x \in DOMAIN s
  PROVE  /\ SwapRemove(s, x) \in Seq(S) /\ s[x] \in S
         /\ ToSet(s) = ToSet(SwapRemove(s, x)) \cup {s[x]}
         /\ \A t : Count(SwapRemove(s, x), t) = Count(s, t) - (IF s[x] = t THEN 1 ELSE 0)
<1> DEFINE n == Len(s)
           u == [s EXCEPT ![x] = Last(s)]
           r == SwapRemove(s, x)
<1>1. n \in Nat /\ DOMAIN s = 1 .. n /\ x \in 1 .. n /\ Last(s) = s[n] /\ n \in 1 .. n
      /\ \A y \in 1 .. n : s[y] \in S
  BY SeqIs DEF Last
<1>2. /\ u \in Seq(S) /\ Len(u) = n
      /\ \A y \in 1 .. n : u[y] = IF y = x THEN s[n] ELSE s[y]
  BY <1>1
<1>3. r = SubSeq(u, 1, n - 1)
  BY <1>2 DEF SwapRemove, Front
<1> HIDE DEF u, n
<1>4. /\ r \in Seq(S) /\ DOMAIN r = 1 .. n - 1
      /\ \A y \in 1 .. n - 1 : r[y] = IF y = x THEN s[n] ELSE s[y]
  <2>1. 1 \in Int /\ n - 1 \in Int /\ \A y \in 1 .. n - 1 : y \in 1 .. n /\ u[y] \in S
    BY <1>1, <1>2
  <2>2. /\ SubSeq(u, 1, n - 1) \in Seq(S)
        /\ Len(SubSeq(u, 1, n - 1)) = IF 1 <= n - 1 THEN (n - 1) - 1 + 1 ELSE 0
        /\ \A y \in 1 .. (n - 1) - 1 + 1 : SubSeq(u, 1, n - 1)[y] = u[1 + y - 1]
    BY <2>1, SubSeqProperties
  <2>3. /\ Len(r) = n - 1
        /\ \A y \in 1 .. n - 1 : r[y] = u[y]
    BY <1>1, <1>3, <2>2
  <2> HIDE DEF r
  <2> QED
    BY <1>1, <1>2, <1>3, <2>1, <2>2, <2>3, SeqIs
<1> HIDE DEF r
<1>5. \A y \in DOMAIN r : \E z \in DOMAIN s : r[y] = s[z]
  BY <1>1, <1>4
<1>6. ToSet(s) = ToSet(r) \cup {s[x]}
  <2>1. ToSet(r) \subseteq ToSet(s)
    BY <1>5 DEF ToSet
  <2>2. ASSUME NEW z \in 1 .. n, s[z] # s[x] PROVE s[z] \in ToSet(r)
    <3>1. CASE z = n
      <4>1. x \in 1 .. n - 1 /\ r[x] = s[z]
        BY <1>1, <1>4, <2>2, <3>1
      <4> QED
        BY <4>1, <1>4 DEF ToSet
    <3>2. CASE z # n
      <4>1. z \in 1 .. n - 1 /\ r[z] = s[z]
        BY <1>1, <1>4, <2>2, <3>2
      <4> QED
        BY <4>1, <1>4 DEF ToSet
    <3> QED
      BY <3>1, <3>2
  <2>3. s[x] \in ToSet(s)
    BY DEF ToSet
  <2>4. \A v \in ToSet(s) : \E z \in 1 .. n : s[z] = v
    BY <1>1 DEF ToSet
  <2> QED
    BY <2>1, <2>2, <2>3, <2>4
<1>7. ASSUME NEW t PROVE Count(r, t) = Count(s, t) - (IF s[x] = t THEN 1 ELSE 0)
  <2> DEFINE A == {y \in DOMAIN s : s[y] = t}
             B == {y \in DOMAIN r : r[y] = t}
  <2>1. /\ IsFiniteSet(A) /\ Count(s, t) = Cardinality(A) /\ Cardinality(A) \in Nat
        /\ Count(r, t) = Cardinality(B)
    BY CountNat, Zenon DEF Count
  <2>2. CASE s[n] # t
    <3>1. B = A \ {x}
      BY <1>1, <1>4, <2>2
    <3>2. x \in A <=> s[x] = t
      OBVIOUS
    <3>3. Cardinality(A \ {x}) = IF x \in A THEN Cardinality(A) - 1 ELSE Cardinality(A)
      BY <2>1, FS_RemoveElement, Zenon
    <3> HIDE DEF A, B
    <3> QED
      BY <2>1, <3>1, <3>2, <3>3
  <2>3. CASE s[n] = t
    <3>1. n \in A
      BY <1>1, <2>3
    <3>2. IsFiniteSet(A \ {n}) /\ Cardinality(A \ {n}) = Cardinality(A) - 1
      BY <2>1, <3>1, FS_RemoveElement, Zenon
    <3>3. CASE s[x] = t
      <4>1. B = A \ {n}
        BY <1>1, <1>4, <2>3, <3>3
      <4> HIDE DEF A, B
      <4> QED
        BY <2>1, <3>2, <3>3, <4>1
    <3>4. CASE s[x] # t
      <4>1. B = (A \ {n}) \cup {x} /\ x \notin A \ {n}
        BY <1>1, <1>4, <2>3, <3>4
      <4>2. Cardinality((A \ {n}) \cup {x}) = Cardinality(A \ {n}) + 1
        BY <3>2, <4>1, FS_AddElement, Zenon
      <4> HIDE DEF A, B
      <4> QED
        BY <2>1, <3>2, <3>4, <4>1, <4>2
    <3> QED
      BY <3>3, <3>4
  <2> QED
    BY <2>2, <2>3
<1> QED
  BY <1>1, <1>4, <1>5, <1>6, <1>7 DEF r

\* Without its last value.
LEMMA CountFront ==
  ASSUME NEW S, NEW s \in Seq(S), s # <<>>
  PROVE  /\ Front(s) \in Seq(S) /\ Last(s) \in S /\ ToSet(s) = ToSet(Front(s)) \cup {Last(s)}
         /\ \A t : Count(Front(s), t) = Count(s, t) - (IF Last(s) = t THEN 1 ELSE 0)
<1>1. Len(s) \in DOMAIN s /\ Last(s) = s[Len(s)]
  BY SeqIs DEF Last
<1>2. [s EXCEPT ![Len(s)] = Last(s)] = s
  BY <1>1, SeqIs
<1>3. SwapRemove(s, Len(s)) = Front(s)
  BY <1>2 DEF SwapRemove
<1>4. /\ Front(s) \in Seq(S) /\ s[Len(s)] \in S
      /\ ToSet(s) = ToSet(Front(s)) \cup {s[Len(s)]}
      /\ \A t : Count(Front(s), t) = Count(s, t) - (IF s[Len(s)] = t THEN 1 ELSE 0)
  BY <1>1, <1>3, CountRemove
<1> QED
  BY <1>1, <1>3, <1>4

\* An enumeration of a finite set is a sequence that holds each value once.
LEMMA Enumerates ==
  ASSUME NEW S, IsFiniteSet(S), NEW w \in SetToSeqs(S)
  PROVE  w \in Seq(S) /\ \A t : Count(w, t) <= 1
<1> DEFINE n == Cardinality(S)
<1>1. n \in Nat
  BY FS_CardinalityType
<1>2. w \in [1 .. n -> S] /\ \A x, y \in 1 .. n : x # y => w[x] # w[y]
  BY DEF SetToSeqs
<1> HIDE DEF n
<1>3. w \in Seq(S) /\ DOMAIN w = 1 .. n
  BY <1>1, <1>2
<1>4. ASSUME NEW t PROVE Count(w, t) <= 1
  <2> DEFINE A == {x \in DOMAIN w : w[x] = t}
  <2>1. CASE A = {}
    BY <2>1, FS_EmptySet DEF Count
  <2>2. CASE A # {}
    <3>1. PICK a : A = {a}
      BY <1>2, <1>3, <2>2
    <3>2. Cardinality({a}) = 1
      BY FS_Singleton, Zenon
    <3>3. Count(w, t) = Cardinality(A)
      BY DEF Count
    <3> HIDE DEF A
    <3> QED
      BY <3>1, <3>2, <3>3
  <2> QED
    BY <2>1, <2>2
<1> QED
  BY <1>3, <1>4

-----------------------------------------------------------------------------
(* The invariant. *)

\* What each queue holds.
QueueOK ==
  /\ q \in [QNames -> Seq(Threads \cup Nbs \cup Strobes)]
  /\ q["ACTIVE"] \in Seq(Procs \cup Lpms) /\ q["INACTIVE"] \in Seq(Procs \cup Lpms)
  /\ q["NBASSIGN"] \in Seq(Nbs) /\ q["DELAY0"] \in Seq(Procs) /\ q["MONITOR"] \in Seq(Strobes)

\* Where main is: its counters, and the queues it has found or left empty.
StageOK ==
  /\ cur # None => stage = "static" \/ (stage = "active" /\ active_head > 0)
  /\ stage = "active" => /\ active_head = Len(q["ACTIVE"]) /\ i <= active_head
                         /\ active_head = 0 => q["INACTIVE"] = <<>>
  /\ stage \in {"static", "nb", "delay0", "monitor", "future"} =>
       q["ACTIVE"] = <<>> /\ active_head = 0
  /\ stage = "static" => /\ i <= Len(static_table)
                         /\ i < Len(static_table) => j < Len(static_table[i + 1])
                         /\ i = Len(static_table) => j = 0
  /\ stage = "nb" => /\ i <= Len(q["NBASSIGN"])
                     /\ i = 0 => q["INACTIVE"] = <<>> /\ static_table = <<>>
  /\ stage \in {"delay0", "monitor", "future", "release", "dlpm", "stop"} =>
       q["INACTIVE"] = <<>> /\ static_table = <<>>
  /\ stage \in {"delay0", "monitor", "future"} => q["NBASSIGN"] = <<>>
  /\ stage \in {"monitor", "future", "release", "dlpm"} => q["DELAY0"] = <<>>
  /\ stage \in {"future", "release", "dlpm"} => q["MONITOR"] = <<>>
  /\ \A x \in DOMAIN static_table : static_table[x] # <<>>

\* Nothing pending is overdue.
TimeOK ==
  /\ \A x \in ToSet(future_q) : T <= future_T[x]
  /\ \A l \in ToSet(lpm_q) : T <= lpm_T[l]

\* A process has one place, and one entry on the list of an event.
PlaceOK == \A p \in Procs : Places(p) <= 1 /\ \A s \in Signals : Count(waiters[s], p) <= 1

FlagOK == BitMeansQueued /\ \A m \in Strobes : Count(q["MONITOR"], m) <= 1

MainInv == TypeOK /\ QueueOK /\ StageOK /\ TimeOK /\ PlaceOK /\ FlagOK

-----------------------------------------------------------------------------
(* Places. *)

Waits(p) == {s \in Signals : p \in ToSet(waiters[s])}

\* The terms of the sum, before and after a step.
LEMMA PlacesIs ==
  ASSUME NEW p
  PROVE  /\ Places(p) = (IF cur = p THEN 1 ELSE 0) + Count(ActiveLeft, p) + Count(q["INACTIVE"], p)
                        + Count(q["DELAY0"], p) + Count(future_q, p) + Cardinality(Waits(p))
         /\ Places(p)' = (IF cur' = p THEN 1 ELSE 0) + Count(ActiveLeft', p) + Count(q'["INACTIVE"], p)
                        + Count(q'["DELAY0"], p) + Count(future_q', p) + Cardinality(Waits(p)')
BY DEF Places, Waits

\* FlagOK after a step.
LEMMA FlagIs ==
  FlagOK' <=> /\ flags' \cap Nbs = ToSet(NbLeft') /\ \A n \in Nbs : Count(NbLeft', n) <= 1
              /\ \A l \in flags' \cap Lpms :
                    l \in {cur'} \cup ToSet(ActiveLeft') \cup ToSet(q'["INACTIVE"])
              /\ mflags' = ToSet(q'["MONITOR"])
              /\ \A m \in Strobes : Count(q'["MONITOR"], m) <= 1
BY DEF FlagOK, BitMeansQueued

\* What is left of the active queue and of the nonblocking assignments.
LEMMA LeftIs ==
  /\ ActiveLeft = IF stage = "active" THEN SubSeq(q["ACTIVE"], i + 1, active_head) ELSE q["ACTIVE"]
  /\ ActiveLeft' = IF stage' = "active" THEN SubSeq(q'["ACTIVE"], i' + 1, active_head') ELSE q'["ACTIVE"]
  /\ NbLeft = IF stage = "nb" THEN SubSeq(q["NBASSIGN"], i + 1, Len(q["NBASSIGN"])) ELSE q["NBASSIGN"]
  /\ NbLeft' = IF stage' = "nb" THEN SubSeq(q'["NBASSIGN"], i' + 1, Len(q'["NBASSIGN"])) ELSE q'["NBASSIGN"]
BY DEF ActiveLeft, NbLeft

\* The other queues stay as they are.
LEMMA Enqueued ==
  ASSUME QueueOK, NEW n \in QNames, NEW e \in Threads \cup Nbs \cup Strobes
  PROVE  /\ pint_enqueue_thread(q, n, e) \in [QNames -> Seq(Threads \cup Nbs \cup Strobes)]
         /\ pint_enqueue_thread(q, n, e)[n] = Append(q[n], e)
         /\ \A m \in QNames \ {n} : pint_enqueue_thread(q, n, e)[m] = q[m]
<1>1. q[n] \in Seq(Threads \cup Nbs \cup Strobes) /\ q \in [QNames -> Seq(Threads \cup Nbs \cup Strobes)]
  BY DEF QueueOK
<1>2. Append(q[n], e) \in Seq(Threads \cup Nbs \cup Strobes)
  BY <1>1
<1> QED
  BY <1>1, <1>2, Zenon DEF pint_enqueue_thread

\* ... and likewise when a list is added.
LEMMA AllEnqueued ==
  ASSUME QueueOK, NEW n \in QNames, NEW ts \in Seq(Threads \cup Nbs \cup Strobes)
  PROVE  /\ EnqueueAll(q, n, ts) \in [QNames -> Seq(Threads \cup Nbs \cup Strobes)]
         /\ EnqueueAll(q, n, ts)[n] = q[n] \o ts
         /\ \A m \in QNames \ {n} : EnqueueAll(q, n, ts)[m] = q[m]
<1>1. q[n] \in Seq(Threads \cup Nbs \cup Strobes) /\ q \in [QNames -> Seq(Threads \cup Nbs \cup Strobes)]
  BY DEF QueueOK
<1>2. q[n] \o ts \in Seq(Threads \cup Nbs \cup Strobes)
  BY <1>1
<1> QED
  BY <1>1, <1>2, Zenon DEF EnqueueAll

\* The swap.
LEMMA Swapped ==
  ASSUME QueueOK
  PROVE  /\ pint_swap_active_and_inactive_queue(q) \in [QNames -> Seq(Threads \cup Nbs \cup Strobes)]
         /\ pint_swap_active_and_inactive_queue(q)["ACTIVE"] = q["INACTIVE"]
         /\ pint_swap_active_and_inactive_queue(q)["INACTIVE"] = <<>>
         /\ \A m \in {"NBASSIGN", "DELAY0", "MONITOR"} : pint_swap_active_and_inactive_queue(q)[m] = q[m]
BY DEF QueueOK, pint_swap_active_and_inactive_queue, QNames

\* What is left is a list of processes and LPMs, and one of assignments.
LEMMA LeftType ==
  ASSUME TypeOK, QueueOK, StageOK
  PROVE  ActiveLeft \in Seq(Procs \cup Lpms) /\ NbLeft \in Seq(Nbs)
<1>1. ActiveLeft \in Seq(Procs \cup Lpms)
  <2>1. CASE stage # "active"
    BY <2>1, LeftIs DEF QueueOK
  <2>2. CASE stage = "active"
    <3>1. /\ active_head = Len(q["ACTIVE"]) /\ i \in Nat /\ q["ACTIVE"] \in Seq(Procs \cup Lpms)
          /\ Len(q["ACTIVE"]) \in Nat
      BY <2>2 DEF StageOK, TypeOK, QueueOK
    <3>2. /\ i + 1 \in Int /\ Len(q["ACTIVE"]) \in Int
          /\ \A x \in i + 1 .. Len(q["ACTIVE"]) : q["ACTIVE"][x] \in Procs \cup Lpms
      BY <3>1
    <3>3. SubSeq(q["ACTIVE"], i + 1, Len(q["ACTIVE"])) \in Seq(Procs \cup Lpms)
      BY <3>2, SubSeqProperties
    <3> QED
      BY <2>2, <3>1, <3>3, LeftIs
  <2> QED
    BY <2>1, <2>2
<1>2. NbLeft \in Seq(Nbs)
  <2>1. CASE stage # "nb"
    BY <2>1, LeftIs DEF QueueOK
  <2>2. CASE stage = "nb"
    <3>1. i \in Nat /\ q["NBASSIGN"] \in Seq(Nbs) /\ Len(q["NBASSIGN"]) \in Nat
      BY DEF TypeOK, QueueOK
    <3>2. /\ i + 1 \in Int /\ Len(q["NBASSIGN"]) \in Int
          /\ \A x \in i + 1 .. Len(q["NBASSIGN"]) : q["NBASSIGN"][x] \in Nbs
      BY <3>1
    <3>3. SubSeq(q["NBASSIGN"], i + 1, Len(q["NBASSIGN"])) \in Seq(Nbs)
      BY <3>2, SubSeqProperties
    <3> QED
      BY <2>2, <3>1, <3>3, LeftIs
  <2> QED
    BY <2>1, <2>2
<1> QED
  BY <1>1, <1>2

\* The terms of the sum are numbers.
LEMMA TermsNat ==
  ASSUME TypeOK, QueueOK, StageOK, NEW p
  PROVE  /\ Count(ActiveLeft, p) \in Nat /\ Count(q["INACTIVE"], p) \in Nat
         /\ Count(q["DELAY0"], p) \in Nat /\ Count(future_q, p) \in Nat
         /\ IsFiniteSet(Waits(p)) /\ Cardinality(Waits(p)) \in Nat /\ Places(p) \in Nat
         /\ \A s \in Signals : Count(waiters[s], p) \in Nat
<1>1. Count(ActiveLeft, p) \in Nat
  BY LeftType, CountNat
<1>2. Count(q["INACTIVE"], p) \in Nat
  BY CountNat DEF QueueOK
<1>3. Count(q["DELAY0"], p) \in Nat
  BY CountNat DEF QueueOK
<1>4. Count(future_q, p) \in Nat
  BY CountNat DEF TypeOK
<1>5. IsFiniteSet(Waits(p)) /\ Cardinality(Waits(p)) \in Nat
  <2>1. IsFiniteSet(Signals)
    BY NamesAssumption, FS_Union, Zenon DEF Signals
  <2>2. Waits(p) \subseteq Signals
    BY DEF Waits
  <2> QED
    BY <2>1, <2>2, FS_Subset, FS_CardinalityType, Zenon
<1>6. \A s \in Signals : Count(waiters[s], p) \in Nat
  <2>1. \A s \in Signals : waiters[s] \in Seq(Procs)
    BY DEF TypeOK
  <2> QED
    BY <2>1, CountNat
<1>7. Places(p) \in Nat
  BY <1>1, <1>2, <1>3, <1>4, <1>5, PlacesIs
<1> QED
  BY <1>1, <1>2, <1>3, <1>4, <1>5, <1>6, <1>7

\* What every step keeps: a process stays in its place or moves to another, unless
\* it was running and ends.
Kept == \A p \in Procs : Places(p)' = Places(p) \/ (cur = p /\ Places(p)' = 0)

\* A step that moves nothing.
LEMMA Still ==
  ASSUME PlaceOK, FlagOK, UNCHANGED <<future_q, waiters, flags, mflags, cur>>,
         ActiveLeft' = ActiveLeft, NbLeft' = NbLeft,
         \A n \in {"INACTIVE", "DELAY0", "MONITOR"} : q'[n] = q[n]
  PROVE  Kept /\ PlaceOK' /\ FlagOK'
<1>1. \A p \in Procs : Waits(p)' = Waits(p)
  BY DEF Waits
<1>2. \A p \in Procs : Places(p)' = Places(p)
  BY <1>1, PlacesIs
<1>3. PlaceOK'
  BY <1>2 DEF PlaceOK
<1>4. FlagOK'
  BY FlagIs DEF FlagOK, BitMeansQueued
<1> QED
  BY <1>2, <1>3, <1>4 DEF Kept

-----------------------------------------------------------------------------
(* Types, stages and times: main's steps. *)

Shape == TypeOK /\ QueueOK /\ StageOK /\ TimeOK

\* The next thread of the active queue is taken.
LEMMA RunActiveShape == ASSUME Shape, RunActive PROVE Shape'
<1>0. q["ACTIVE"][i + 1] \in Procs \cup Lpms /\ i + 1 \in Nat
  <2>1. q["ACTIVE"] \in Seq(Procs \cup Lpms) /\ i \in Nat /\ i < Len(q["ACTIVE"])
    BY DEF Shape, TypeOK, QueueOK, StageOK, RunActive
  <2> QED
    BY <2>1
<1>1. TypeOK'
  BY <1>0 DEF Shape, TypeOK, RunActive, queues, data, Threads
<1>2. QueueOK'
  BY DEF Shape, QueueOK, TypeOK, RunActive, queues, data, ctl, QNames
<1>3. StageOK'
  BY DEF Shape, QueueOK, TypeOK, StageOK, RunActive, queues, data, ctl, QNames
<1>4. TimeOK'
  BY DEF Shape, TypeOK, TimeOK, RunActive, queues, data, ctl
<1> QED
  BY <1>1, <1>2, <1>3, <1>4 DEF Shape

\* The queues are swapped.
LEMMA SwapActiveShape == ASSUME Shape, SwapActive PROVE Shape'
<1>1. TypeOK'
  BY MainAssumption, Swapped DEF Shape, TypeOK, SwapActive, queues, data, ctl, QNames
<1>2. QueueOK'
  BY Swapped DEF Shape, QueueOK, TypeOK, SwapActive, queues, data, ctl, QNames
<1>3. StageOK'
  BY Swapped DEF Shape, QueueOK, TypeOK, StageOK, SwapActive, queues, data, ctl, QNames
<1>4. TimeOK'
  BY Swapped DEF Shape, TypeOK, TimeOK, SwapActive, queues, data, ctl
<1> QED
  BY <1>1, <1>2, <1>3, <1>4 DEF Shape

\* The active queue came back empty.
LEMMA LeaveActiveShape == ASSUME Shape, LeaveActive PROVE Shape'
<1>1. TypeOK'
  BY MainAssumption DEF Shape, TypeOK, LeaveActive, queues, data, ctl, QNames
<1>2. QueueOK'
  BY DEF Shape, QueueOK, TypeOK, LeaveActive, queues, data, ctl, QNames
<1>3. StageOK'
  <2>1. /\ stage = "active" /\ cur = None /\ active_head = 0 /\ i' = 0 /\ j' = 0
        /\ stage' = IF static_table # <<>> THEN "static" ELSE "nb"
        /\ UNCHANGED <<q, static_table, future_q, lpm_q, waiters, active_head, cur, fuel>>
    BY DEF LeaveActive, queues
  <2>2. q["INACTIVE"] = <<>> /\ q["ACTIVE"] = <<>> /\ static_table \in Seq(Seq(Statics))
    BY <2>1 DEF Shape, QueueOK, TypeOK, StageOK
  <2>3. q["NBASSIGN"] \in Seq(Nbs)
    BY DEF Shape, QueueOK
  <2> QED
    BY <2>1, <2>2, <2>3, SMTT(60) DEF Shape, StageOK
<1>4. TimeOK'
  BY DEF Shape, TypeOK, TimeOK, LeaveActive, queues, data, ctl
<1> QED
  BY <1>1, <1>2, <1>3, <1>4 DEF Shape

\* A thread of the static table is looked at.
LEMMA RunStaticShape == ASSUME Shape, RunStatic PROVE Shape'
<1> DEFINE t == static_table[i + 1][j + 1]
<1>0. /\ stage = "static" /\ i \in Nat /\ j \in Nat /\ i < Len(static_table) /\ static_table \in Seq(Seq(Statics))
      /\ Len(static_table) \in Nat /\ Len(static_table[i + 1]) \in Nat /\ t \in Statics
  <2>1. /\ stage = "static" /\ i \in Nat /\ j \in Nat /\ i < Len(static_table) /\ static_table \in Seq(Seq(Statics))
        /\ j < Len(static_table[i + 1])
    BY DEF Shape, TypeOK, StageOK, RunStatic
  <2>2. static_table[i + 1] \in Seq(Statics)
    BY <2>1
  <2> QED
    BY <2>1, <2>2
<1>b. /\ cur' = IF event_flag[t] # 0 THEN t ELSE None
      /\ event_flag' = [event_flag EXCEPT ![t] = IF @ = 1 THEN 0 ELSE @]
      /\ IF j + 1 < Len(static_table[i + 1]) THEN i' = i /\ j' = j + 1 ELSE i' = i + 1 /\ j' = 0
  BY DEF RunStatic
<1>u. /\ UNCHANGED <<q, static_table, future_q, lpm_q, waiters, future_T, lpm_T, lpm_state, flags, mflags>>
      /\ UNCHANGED <<active_head, T, pint_stop, stage, fuel>>
  BY DEF RunStatic, queues
<1> HIDE DEF t
<1>1. TypeOK'
  <2>1. event_flag' \in [Statics -> {0, 1, 85}]
    BY <1>0, <1>b DEF Shape, TypeOK
  <2>2. cur' \in Threads \cup {None}
    BY <1>0, <1>b DEF Threads
  <2>3. i' \in Nat /\ j' \in Nat
    BY <1>0, <1>b
  <2> QED
    BY <2>1, <2>2, <2>3, <1>u DEF Shape, TypeOK
<1>2. QueueOK'
  BY <1>u DEF Shape, QueueOK
<1>3. StageOK'
  <2>1. /\ i' <= Len(static_table)
        /\ i' < Len(static_table) => j' < Len(static_table[i' + 1])
        /\ i' = Len(static_table) => j' = 0
    <3>1. CASE j + 1 < Len(static_table[i + 1])
      BY <3>1, <1>0, <1>b
    <3>2. CASE ~(j + 1 < Len(static_table[i + 1]))
      <4>1. i' = i + 1 /\ j' = 0
        BY <3>2, <1>b
      <4>2. \A x \in 1 .. Len(static_table) : static_table[x] \in Seq(Statics) /\ static_table[x] # <<>>
        BY <1>0 DEF Shape, StageOK
      <4>3. i + 1 < Len(static_table) => 0 < Len(static_table[(i + 1) + 1])
        <5> SUFFICES ASSUME i + 1 < Len(static_table)
                     PROVE  0 < Len(static_table[(i + 1) + 1])
          OBVIOUS
        <5>1. (i + 1) + 1 \in 1 .. Len(static_table)
          BY <1>0
        <5>2. static_table[(i + 1) + 1] \in Seq(Statics) /\ static_table[(i + 1) + 1] # <<>>
          BY <4>2, <5>1
        <5> QED
          BY <5>2
      <4> QED
        BY <4>1, <4>3, <1>0
    <3> QED
      BY <3>1, <3>2
  <2> QED
    BY <2>1, <1>u, <1>0 DEF Shape, StageOK
<1>4. TimeOK'
  BY <1>u DEF Shape, TimeOK
<1> QED
  BY <1>1, <1>2, <1>3, <1>4 DEF Shape

\* The static table is done.
LEMMA StaticDoneShape == ASSUME Shape, StaticDone PROVE Shape'
<1>1. TypeOK'
  BY MainAssumption, Swapped DEF Shape, TypeOK, StaticDone, queues, data, ctl, QNames
<1>2. QueueOK'
  BY Swapped DEF Shape, QueueOK, TypeOK, StaticDone, queues, data, ctl, QNames
<1>3. StageOK'
  BY Swapped DEF Shape, QueueOK, TypeOK, StageOK, StaticDone, queues, data, ctl, QNames
<1>4. TimeOK'
  BY Swapped DEF Shape, TypeOK, TimeOK, StaticDone, queues, data, ctl
<1> QED
  BY <1>1, <1>2, <1>3, <1>4 DEF Shape

\* What NbDone does.
LEMMA NbDoneIs ==
  ASSUME Shape, NbDone
  PROVE  /\ stage = "nb" /\ i \in Nat /\ q["ACTIVE"] = <<>> /\ active_head = 0 /\ i = Len(q["NBASSIGN"])
         /\ cur = None /\ QueueOK
         /\ i = 0 => q["INACTIVE"] = <<>> /\ static_table = <<>> /\ q["NBASSIGN"] = <<>>
         /\ q' \in [QNames -> Seq(Threads \cup Nbs \cup Strobes)]
         /\ q'["ACTIVE"] = q["INACTIVE"] /\ q'["INACTIVE"] = <<>> /\ q'["NBASSIGN"] = <<>>
         /\ q'["DELAY0"] = q["DELAY0"] /\ q'["MONITOR"] = q["MONITOR"]
         /\ active_head' = Len(q'["ACTIVE"]) /\ active_head' \in Nat /\ i' = 0
         /\ stage' = IF active_head' > 0 \/ static_table # <<>> THEN "active" ELSE "delay0"
         /\ active_head' = 0 => q'["ACTIVE"] = <<>>
         /\ UNCHANGED <<static_table, future_q, lpm_q, waiters, T, pint_stop, j, cur, fuel, future_T, lpm_T,
                        lpm_state, flags, mflags, event_flag>>
<1>0. /\ stage = "nb" /\ i \in Nat /\ q["ACTIVE"] = <<>> /\ active_head = 0 /\ i = Len(q["NBASSIGN"]) /\ cur = None
      /\ QueueOK /\ (i = 0 => q["INACTIVE"] = <<>> /\ static_table = <<>> /\ q["NBASSIGN"] = <<>>)
  <2>1. q["NBASSIGN"] \in Seq(Nbs)
    BY DEF Shape, QueueOK
  <2>2. Len(q["NBASSIGN"]) = 0 => q["NBASSIGN"] = <<>>
    BY <2>1
  <2> QED
    BY <2>2 DEF Shape, TypeOK, StageOK, NbDone
<1>q. /\ q' \in [QNames -> Seq(Threads \cup Nbs \cup Strobes)]
      /\ q'["ACTIVE"] = q["INACTIVE"] /\ q'["INACTIVE"] = <<>> /\ q'["NBASSIGN"] = <<>>
      /\ q'["DELAY0"] = q["DELAY0"] /\ q'["MONITOR"] = q["MONITOR"]
  <2>1. CASE i > 0
    BY <2>1, <1>0, Swapped DEF NbDone, QNames
  <2>2. CASE i = 0
    BY <2>2, <1>0 DEF NbDone, QueueOK
  <2> QED
    BY <2>1, <2>2, <1>0
<1>h. /\ active_head' = Len(q'["ACTIVE"]) /\ active_head' \in Nat /\ i' = 0
      /\ stage' = IF active_head' > 0 \/ static_table # <<>> THEN "active" ELSE "delay0"
      /\ active_head' = 0 => q'["ACTIVE"] = <<>>
  <2>1. q["INACTIVE"] \in Seq(Procs \cup Lpms)
    BY DEF Shape, QueueOK
  <2>2. Len(q["INACTIVE"]) \in Nat /\ (Len(q["INACTIVE"]) = 0 => q["INACTIVE"] = <<>>)
    BY <2>1
  <2>3. active_head' = IF i > 0 THEN Len(q["INACTIVE"]) ELSE active_head
    BY DEF NbDone
  <2>4. active_head' = Len(q["INACTIVE"])
    BY <2>3, <1>0
  <2>5. /\ i' = 0
        /\ stage' = IF active_head' > 0 \/ static_table # <<>> THEN "active" ELSE "delay0"
    BY DEF NbDone
  <2> QED
    BY <2>2, <2>4, <2>5, <1>q
<1>u. UNCHANGED <<static_table, future_q, lpm_q, waiters, data, T, pint_stop, j, cur, fuel, future_T, lpm_T,
                  lpm_state, flags, mflags, event_flag>>
  BY DEF NbDone, data
<1> QED
  BY <1>0, <1>q, <1>h, <1>u

\* Stage 2 is over.
LEMMA NbDoneShape == ASSUME Shape, NbDone PROVE Shape'
<1>1. TypeOK'
  <2>1. /\ q' \in [QNames -> Seq(Threads \cup Nbs \cup Strobes)] /\ active_head' \in Nat /\ i' \in Nat
        /\ stage' \in {"active", "delay0"}
        /\ UNCHANGED <<static_table, future_q, lpm_q, waiters, T, pint_stop, j, cur, fuel, future_T, lpm_T,
                       lpm_state, flags, mflags, event_flag>>
    BY NbDoneIs
  <2> QED
    BY <2>1 DEF Shape, TypeOK
<1>2. QueueOK'
  BY NbDoneIs DEF Shape, QueueOK
<1>3. StageOK'
  <2>1. CASE i > 0
    BY <2>1, NbDoneIs DEF Shape, StageOK
  <2>2. CASE i = 0
    BY <2>2, NbDoneIs DEF Shape, StageOK
  <2> QED
    BY <2>1, <2>2, NbDoneIs
<1>4. TimeOK'
  BY NbDoneIs DEF Shape, TimeOK
<1> QED
  BY <1>1, <1>2, <1>3, <1>4 DEF Shape

\* What RunDelay0 does.
LEMMA RunDelay0Is ==
  ASSUME Shape, RunDelay0
  PROVE  /\ stage = "delay0" /\ q["ACTIVE"] = <<>> /\ q["DELAY0"] \in Seq(Procs) /\ cur = None /\ QueueOK
         /\ q["INACTIVE"] = <<>> /\ static_table = <<>> /\ q["NBASSIGN"] = <<>> /\ q["DELAY0"] # <<>>
         /\ q' \in [QNames -> Seq(Threads \cup Nbs \cup Strobes)]
         /\ q'["ACTIVE"] = q["DELAY0"] /\ q'["ACTIVE"] \in Seq(Procs \cup Lpms) /\ q'["DELAY0"] = <<>>
         /\ \A m \in {"INACTIVE", "NBASSIGN", "MONITOR"} : q'[m] = q[m]
         /\ active_head' = Len(q'["ACTIVE"]) /\ active_head' \in Nat /\ i' = 0
         /\ stage' = IF pint_stop THEN "stop" ELSE "active"
         /\ UNCHANGED <<static_table, future_q, lpm_q, waiters, T, pint_stop, j, cur, fuel, future_T, lpm_T,
                        lpm_state, flags, mflags, event_flag>>
<1>0. /\ stage = "delay0" /\ q["ACTIVE"] = <<>> /\ q["DELAY0"] \in Seq(Procs) /\ cur = None /\ QueueOK
      /\ q["INACTIVE"] = <<>> /\ static_table = <<>> /\ q["NBASSIGN"] = <<>> /\ q["DELAY0"] # <<>>
  BY DEF Shape, QueueOK, StageOK, RunDelay0
<1>q. /\ q' \in [QNames -> Seq(Threads \cup Nbs \cup Strobes)]
      /\ q'["ACTIVE"] = q["DELAY0"] /\ q'["ACTIVE"] \in Seq(Procs \cup Lpms) /\ q'["DELAY0"] = <<>>
      /\ \A m \in {"INACTIVE", "NBASSIGN", "MONITOR"} : q'[m] = q[m]
  <2>1. q["DELAY0"] \in Seq(Threads \cup Nbs \cup Strobes) /\ q["DELAY0"] \in Seq(Procs \cup Lpms)
    BY <1>0 DEF Threads
  <2>2. /\ EnqueueAll(q, "ACTIVE", q["DELAY0"]) \in [QNames -> Seq(Threads \cup Nbs \cup Strobes)]
        /\ EnqueueAll(q, "ACTIVE", q["DELAY0"])["ACTIVE"] = q["ACTIVE"] \o q["DELAY0"]
        /\ \A m \in QNames \ {"ACTIVE"} : EnqueueAll(q, "ACTIVE", q["DELAY0"])[m] = q[m]
    <3>1. "ACTIVE" \in QNames
      BY DEF QNames
    <3> QED
      BY <1>0, <2>1, <3>1, AllEnqueued
  <2>3. <<>> \o q["DELAY0"] = q["DELAY0"]
    BY <1>0
  <2> QED
    BY <1>0, <2>1, <2>2, <2>3 DEF RunDelay0, QNames
<1>h. /\ active_head' = Len(q'["ACTIVE"]) /\ active_head' \in Nat /\ i' = 0
      /\ stage' = IF pint_stop THEN "stop" ELSE "active"
  BY <1>q DEF RunDelay0, LoopTop
<1>u. UNCHANGED <<static_table, future_q, lpm_q, waiters, data, T, pint_stop, j, cur, fuel, future_T, lpm_T,
                  lpm_state, flags, mflags, event_flag>>
  BY DEF RunDelay0, data
<1> QED
  BY <1>0, <1>q, <1>h, <1>u

\* The #0 threads become active.
LEMMA RunDelay0Shape == ASSUME Shape, RunDelay0 PROVE Shape'
<1>1. TypeOK'
  <2>1. /\ q' \in [QNames -> Seq(Threads \cup Nbs \cup Strobes)] /\ active_head' \in Nat /\ i' \in Nat
        /\ stage' \in {"active", "stop"}
        /\ UNCHANGED <<static_table, future_q, lpm_q, waiters, T, pint_stop, j, cur, fuel, future_T, lpm_T,
                       lpm_state, flags, mflags, event_flag>>
    BY RunDelay0Is
  <2> QED
    BY <2>1 DEF Shape, TypeOK
<1>2. QueueOK'
  BY RunDelay0Is DEF Shape, QueueOK
<1>3. StageOK'
  BY RunDelay0Is DEF Shape, StageOK
<1>4. TimeOK'
  BY RunDelay0Is DEF Shape, TimeOK
<1> QED
  BY <1>1, <1>2, <1>3, <1>4 DEF Shape

\* No #0 thread waits.
LEMMA NoDelay0Shape == ASSUME Shape, NoDelay0 PROVE Shape'
<1>1. TypeOK'
  BY MainAssumption DEF Shape, TypeOK, NoDelay0, queues, data, ctl, QNames
<1>2. QueueOK'
  BY DEF Shape, QueueOK, TypeOK, NoDelay0, queues, data, ctl, QNames
<1>3. StageOK'
  BY DEF Shape, QueueOK, TypeOK, StageOK, NoDelay0, queues, data, ctl, QNames
<1>4. TimeOK'
  BY DEF Shape, TypeOK, TimeOK, NoDelay0, queues, data, ctl
<1> QED
  BY <1>1, <1>2, <1>3, <1>4 DEF Shape

\* What RunMonitor does.
LEMMA RunMonitorIs ==
  ASSUME Shape, RunMonitor
  PROVE  /\ stage = "monitor" /\ q["ACTIVE"] = <<>> /\ q["INACTIVE"] = <<>> /\ cur = None /\ QueueOK
         /\ q["MONITOR"] \in Seq(Strobes) /\ q["MONITOR"] # <<>> /\ Front(q["MONITOR"]) \in Seq(Strobes)
         /\ static_table = <<>> /\ q["NBASSIGN"] = <<>> /\ q["DELAY0"] = <<>>
         /\ q' \in [QNames -> Seq(Threads \cup Nbs \cup Strobes)]
         /\ q'["MONITOR"] = Front(q["MONITOR"])
         /\ \A m \in {"ACTIVE", "INACTIVE", "NBASSIGN", "DELAY0"} : q'[m] = q[m]
         /\ UNCHANGED <<static_table, future_q, lpm_q, waiters, future_T, lpm_T, lpm_state, flags, event_flag>>
         /\ UNCHANGED <<active_head, T, pint_stop, stage, i, j, cur, fuel>>
         /\ mflags' = mflags \ {Last(q["MONITOR"])}
<1>0. /\ stage = "monitor" /\ q["ACTIVE"] = <<>> /\ q["INACTIVE"] = <<>> /\ cur = None /\ QueueOK
      /\ q["MONITOR"] \in Seq(Strobes) /\ q["MONITOR"] # <<>> /\ Front(q["MONITOR"]) \in Seq(Strobes)
      /\ static_table = <<>> /\ q["NBASSIGN"] = <<>> /\ q["DELAY0"] = <<>>
  <2>1. q["MONITOR"] \in Seq(Strobes) /\ q["MONITOR"] # <<>>
    BY DEF Shape, QueueOK, RunMonitor
  <2>2. Front(q["MONITOR"]) \in Seq(Strobes)
    BY <2>1, CountFront
  <2> QED
    BY <2>1, <2>2 DEF Shape, QueueOK, StageOK, RunMonitor
<1>q. /\ q' \in [QNames -> Seq(Threads \cup Nbs \cup Strobes)]
      /\ q'["MONITOR"] = Front(q["MONITOR"])
      /\ \A m \in {"ACTIVE", "INACTIVE", "NBASSIGN", "DELAY0"} : q'[m] = q[m]
  <2> DEFINE r == [q EXCEPT !["MONITOR"] = Front(@)]
  <2>1. /\ r \in [QNames -> Seq(Threads \cup Nbs \cup Strobes)] /\ r["MONITOR"] = Front(q["MONITOR"])
        /\ \A m \in {"ACTIVE", "INACTIVE", "NBASSIGN", "DELAY0"} : r[m] = q[m]
    BY <1>0 DEF QueueOK, QNames
  <2>2. q' = IF r["MONITOR"] = <<>> THEN pint_swap_active_and_inactive_queue(r) ELSE r
    BY DEF RunMonitor
  <2> HIDE DEF r
  <2>3. /\ pint_swap_active_and_inactive_queue(r) \in [QNames -> Seq(Threads \cup Nbs \cup Strobes)]
        /\ pint_swap_active_and_inactive_queue(r)["ACTIVE"] = r["INACTIVE"]
        /\ pint_swap_active_and_inactive_queue(r)["INACTIVE"] = <<>>
        /\ \A m \in {"NBASSIGN", "DELAY0", "MONITOR"} : pint_swap_active_and_inactive_queue(r)[m] = r[m]
    <3>1. \A m \in QNames : r[m] \in Seq(Threads \cup Nbs \cup Strobes)
      BY <2>1
    <3>2. "INACTIVE" \in QNames /\ <<>> \in Seq(Threads \cup Nbs \cup Strobes)
      BY DEF QNames
    <3> QED
      BY <2>1, <3>1, <3>2, Zenon DEF pint_swap_active_and_inactive_queue, QNames
  <2> QED
    BY <1>0, <2>1, <2>2, <2>3
<1>u. /\ UNCHANGED <<static_table, future_q, lpm_q, waiters, future_T, lpm_T, lpm_state, flags, event_flag>>
      /\ UNCHANGED <<active_head, T, pint_stop, stage, i, j, cur, fuel>>
      /\ mflags' = mflags \ {Last(q["MONITOR"])}
  BY DEF RunMonitor, ctl
<1> QED
  BY <1>0, <1>q, <1>u

\* A $strobe prints.
LEMMA RunMonitorShape == ASSUME Shape, RunMonitor PROVE Shape'
<1>1. TypeOK'
  BY RunMonitorIs DEF Shape, TypeOK
<1>2. QueueOK'
  BY RunMonitorIs DEF Shape, QueueOK
<1>3. StageOK'
  BY RunMonitorIs DEF Shape, StageOK
<1>4. TimeOK'
  BY RunMonitorIs DEF Shape, TimeOK
<1> QED
  BY <1>1, <1>2, <1>3, <1>4 DEF Shape

\* Every $strobe has printed.
LEMMA MonitorDoneShape == ASSUME Shape, MonitorDone PROVE Shape'
<1>1. TypeOK'
  BY MainAssumption DEF Shape, TypeOK, MonitorDone, queues, data, ctl, QNames
<1>2. QueueOK'
  BY DEF Shape, QueueOK, TypeOK, MonitorDone, queues, data, ctl, QNames
<1>3. StageOK'
  BY DEF Shape, QueueOK, TypeOK, StageOK, MonitorDone, queues, data, ctl, QNames
<1>4. TimeOK'
  BY DEF Shape, TypeOK, TimeOK, MonitorDone, queues, data, ctl
<1> QED
  BY <1>1, <1>2, <1>3, <1>4 DEF Shape

\* The time advances to the earliest entry.
LEMMA AdvanceFutureShape == ASSUME Shape, AdvanceFuture PROVE Shape'
<1>1. TypeOK'
  <2>1. T' \in 0 .. MaxT /\ stage' \in {"release", "dlpm"}
    BY DEF AdvanceFuture
  <2>2. UNCHANGED <<queues, data, active_head, pint_stop, i, j, cur, fuel>>
    BY DEF AdvanceFuture
  <2> QED
    BY <2>1, <2>2 DEF Shape, TypeOK, queues, data
<1>2. QueueOK'
  BY DEF Shape, QueueOK, TypeOK, AdvanceFuture, Earliest, queues, data, ctl, QNames
<1>3. StageOK'
  BY DEF Shape, QueueOK, TypeOK, StageOK, AdvanceFuture, Earliest, queues, data, ctl, QNames
<1>4. TimeOK'
  <2>1. PICK next \in 0 .. MaxT :
          /\ \A x \in DOMAIN future_q : next <= future_T[future_q[x]]
          /\ \A x \in DOMAIN lpm_q : next < lpm_T[lpm_q[x]]
          /\ T' = next
    BY DEF AdvanceFuture, Earliest
  <2>2. UNCHANGED <<future_q, future_T, lpm_q, lpm_T>>
    BY DEF AdvanceFuture, queues, data
  <2>3. \A x \in ToSet(future_q) : next <= future_T[x]
    BY <2>1 DEF ToSet, Shape, TypeOK
  <2>4. ASSUME NEW l \in ToSet(lpm_q) PROVE next <= lpm_T[l]
    <3>1. PICK x \in DOMAIN lpm_q : lpm_q[x] = l
      BY DEF ToSet
    <3>2. lpm_T[l] \in Int /\ next \in Int
      BY <2>1, <3>1, MainAssumption DEF Shape, TypeOK
    <3> QED
      BY <2>1, <3>1, <3>2
  <2> QED
    BY <2>1, <2>2, <2>3, <2>4 DEF TimeOK
<1> QED
  BY <1>1, <1>2, <1>3, <1>4 DEF Shape

\* The time advances to the earliest LPM.
LEMMA AdvanceLpmShape == ASSUME Shape, AdvanceLpm PROVE Shape'
<1>1. TypeOK'
  <2>1. T' \in 0 .. MaxT /\ stage' \in {"release", "dlpm"}
    BY DEF AdvanceLpm
  <2>2. UNCHANGED <<queues, data, active_head, pint_stop, i, j, cur, fuel>>
    BY DEF AdvanceLpm
  <2> QED
    BY <2>1, <2>2 DEF Shape, TypeOK, queues, data
<1>2. QueueOK'
  BY DEF Shape, QueueOK, TypeOK, AdvanceLpm, Earliest, queues, data, ctl, QNames
<1>3. StageOK'
  BY DEF Shape, QueueOK, TypeOK, StageOK, AdvanceLpm, Earliest, queues, data, ctl, QNames
<1>4. TimeOK'
  <2>1. PICK next \in 0 .. MaxT :
          /\ \A x \in DOMAIN lpm_q : next <= lpm_T[lpm_q[x]]
          /\ \A x \in DOMAIN future_q : next <= future_T[future_q[x]]
          /\ T' = next
    BY DEF AdvanceLpm, Earliest
  <2>2. UNCHANGED <<future_q, future_T, lpm_q, lpm_T>>
    BY DEF AdvanceLpm, queues, data
  <2>3. \A x \in ToSet(future_q) : next <= future_T[x]
    BY <2>1 DEF ToSet, Shape, TypeOK
  <2>4. ASSUME NEW l \in ToSet(lpm_q) PROVE next <= lpm_T[l]
    <3>1. PICK x \in DOMAIN lpm_q : lpm_q[x] = l
      BY DEF ToSet
    <3>2. lpm_T[l] \in Int /\ next \in Int
      BY <2>1, <3>1, MainAssumption DEF Shape, TypeOK
    <3> QED
      BY <2>1, <3>1, <3>2
  <2> QED
    BY <2>1, <2>2, <2>3, <2>4 DEF TimeOK
<1> QED
  BY <1>1, <1>2, <1>3, <1>4 DEF Shape

\* Nothing is pending: the simulation ends.
LEMMA NoFutureShape == ASSUME Shape, NoFuture PROVE Shape'
<1>1. TypeOK'
  BY MainAssumption DEF Shape, TypeOK, NoFuture, LoopTop, queues, data, ctl, QNames
<1>2. QueueOK'
  BY DEF Shape, QueueOK, TypeOK, NoFuture, LoopTop, queues, data, ctl, QNames
<1>3. StageOK'
  BY DEF Shape, QueueOK, TypeOK, StageOK, NoFuture, LoopTop, queues, data, ctl, QNames
<1>4. TimeOK'
  <2>1. T' = 0 /\ UNCHANGED <<future_q, future_T, lpm_q, lpm_T>>
    BY DEF NoFuture, queues, data
  <2>2. \A x \in ToSet(future_q) : 0 <= future_T[x]
    <3>1. ToSet(future_q) \subseteq FutureStructs /\ future_T \in [FutureStructs -> 0 .. MaxT]
      BY SetType DEF Shape, TypeOK
    <3> QED
      BY <3>1, MainAssumption
  <2>3. \A l \in ToSet(lpm_q) : 0 <= lpm_T[l]
    <3>1. ToSet(lpm_q) \subseteq Lpms /\ lpm_T \in [Lpms -> 0 .. MaxT]
      BY SetType DEF Shape, TypeOK
    <3> QED
      BY <3>1, MainAssumption
  <2> QED
    BY <2>1, <2>2, <2>3 DEF TimeOK
<1> QED
  BY <1>1, <1>2, <1>3, <1>4 DEF Shape

\* What ReleaseFuture does.
LEMMA ReleaseFutureIs ==
  ASSUME Shape, ReleaseFuture
  PROVE  /\ stage = "release" /\ cur = None /\ QueueOK
         /\ \E x \in DOMAIN future_q :
              /\ future_T[future_q[x]] = T /\ future_q' = SwapRemove(future_q, x)
              /\ IF future_q[x] \in Procs
                 THEN q' = pint_enqueue_thread(q, "ACTIVE", future_q[x]) /\ UNCHANGED flags
                 ELSE pint_enqueue_nb_thread_by_idx(future_q[x])
              /\ future_q' \in Seq(FutureStructs) /\ ToSet(future_q') \subseteq ToSet(future_q)
              /\ future_q[x] \in FutureStructs
              /\ future_q[x] \in Procs => q'["ACTIVE"] = Append(q["ACTIVE"], future_q[x]) /\ q'["NBASSIGN"] = q["NBASSIGN"]
              /\ future_q[x] \notin Procs =>
                   /\ future_q[x] \in Nbs /\ q'["ACTIVE"] = q["ACTIVE"]
                   /\ q'["NBASSIGN"] = IF future_q[x] \in flags THEN q["NBASSIGN"] ELSE Append(q["NBASSIGN"], future_q[x])
                   /\ flags' = flags \cup {future_q[x]}
         /\ q' \in [QNames -> Seq(Threads \cup Nbs \cup Strobes)]
         /\ q'["ACTIVE"] \in Seq(Procs \cup Lpms) /\ q'["NBASSIGN"] \in Seq(Nbs)
         /\ \A m \in {"INACTIVE", "DELAY0", "MONITOR"} : q'[m] = q[m]
         /\ flags' \subseteq Lpms \cup Nbs
         /\ UNCHANGED <<static_table, lpm_q, waiters, future_T, lpm_T, lpm_state, mflags, event_flag>>
         /\ UNCHANGED <<active_head, T, pint_stop, stage, i, j, cur, fuel>>
<1>0. stage = "release" /\ cur = None /\ QueueOK
  BY DEF Shape, StageOK, ReleaseFuture
<1>x. PICK x \in DOMAIN future_q :
        /\ future_T[future_q[x]] = T /\ future_q' = SwapRemove(future_q, x)
        /\ IF future_q[x] \in Procs
           THEN q' = pint_enqueue_thread(q, "ACTIVE", future_q[x]) /\ UNCHANGED flags
           ELSE pint_enqueue_nb_thread_by_idx(future_q[x])
        /\ future_q' \in Seq(FutureStructs) /\ ToSet(future_q') \subseteq ToSet(future_q)
        /\ future_q[x] \in FutureStructs
  <2>1. PICK x \in DOMAIN future_q :
          /\ future_T[future_q[x]] = T /\ future_q' = SwapRemove(future_q, x)
          /\ IF future_q[x] \in Procs
             THEN q' = pint_enqueue_thread(q, "ACTIVE", future_q[x]) /\ UNCHANGED flags
             ELSE pint_enqueue_nb_thread_by_idx(future_q[x])
    BY DEF ReleaseFuture, Due
  <2>2. future_q \in Seq(FutureStructs)
    BY DEF Shape, TypeOK
  <2> QED
    BY <2>1, <2>2, CountRemove
<1>q. /\ q' \in [QNames -> Seq(Threads \cup Nbs \cup Strobes)]
      /\ q'["ACTIVE"] \in Seq(Procs \cup Lpms) /\ q'["NBASSIGN"] \in Seq(Nbs)
      /\ \A m \in {"INACTIVE", "DELAY0", "MONITOR"} : q'[m] = q[m]
      /\ flags' \subseteq Lpms \cup Nbs
      /\ future_q[x] \in Procs => q'["ACTIVE"] = Append(q["ACTIVE"], future_q[x]) /\ q'["NBASSIGN"] = q["NBASSIGN"]
      /\ future_q[x] \notin Procs =>
           /\ future_q[x] \in Nbs /\ q'["ACTIVE"] = q["ACTIVE"]
           /\ q'["NBASSIGN"] = IF future_q[x] \in flags THEN q["NBASSIGN"] ELSE Append(q["NBASSIGN"], future_q[x])
           /\ flags' = flags \cup {future_q[x]}
  <2>0. flags \subseteq Lpms \cup Nbs /\ "ACTIVE" \in QNames /\ "NBASSIGN" \in QNames
    BY DEF Shape, TypeOK, QNames
  <2>1. CASE future_q[x] \in Procs
    <3>1. /\ pint_enqueue_thread(q, "ACTIVE", future_q[x]) \in [QNames -> Seq(Threads \cup Nbs \cup Strobes)]
          /\ pint_enqueue_thread(q, "ACTIVE", future_q[x])["ACTIVE"] = Append(q["ACTIVE"], future_q[x])
          /\ \A m \in QNames \ {"ACTIVE"} : pint_enqueue_thread(q, "ACTIVE", future_q[x])[m] = q[m]
      BY <1>0, <2>0, <2>1, Enqueued DEF Threads
    <3>2. Append(q["ACTIVE"], future_q[x]) \in Seq(Procs \cup Lpms)
      BY <1>0, <2>1 DEF QueueOK
    <3> QED
      BY <1>0, <1>x, <2>0, <2>1, <3>1, <3>2 DEF QueueOK, QNames
  <2>2. CASE future_q[x] \notin Procs
    <3>0. future_q[x] \in Nbs
      BY <1>x, <2>2 DEF FutureStructs
    <3>1. /\ pint_enqueue_thread(q, "NBASSIGN", future_q[x]) \in [QNames -> Seq(Threads \cup Nbs \cup Strobes)]
          /\ pint_enqueue_thread(q, "NBASSIGN", future_q[x])["NBASSIGN"] = Append(q["NBASSIGN"], future_q[x])
          /\ \A m \in QNames \ {"NBASSIGN"} : pint_enqueue_thread(q, "NBASSIGN", future_q[x])[m] = q[m]
      BY <1>0, <2>0, <3>0, Enqueued
    <3>2. Append(q["NBASSIGN"], future_q[x]) \in Seq(Nbs)
      BY <1>0, <3>0 DEF QueueOK
    <3> QED
      BY <1>0, <1>x, <2>0, <2>2, <3>0, <3>1, <3>2 DEF QueueOK, QNames, pint_enqueue_nb_thread_by_idx
  <2> QED
    BY <2>1, <2>2
<1>u. /\ UNCHANGED <<static_table, lpm_q, waiters, future_T, lpm_T, lpm_state, mflags, event_flag>>
      /\ UNCHANGED <<active_head, T, pint_stop, stage, i, j, cur, fuel>>
  BY DEF ReleaseFuture, ctl
<1> QED
  BY <1>0, <1>x, <1>q, <1>u

\* An entry of the future queue is released.
LEMMA ReleaseFutureShape == ASSUME Shape, ReleaseFuture PROVE Shape'
<1>1. TypeOK'
  <2>1. /\ future_q' \in Seq(FutureStructs) /\ flags' \subseteq Lpms \cup Nbs
        /\ q' \in [QNames -> Seq(Threads \cup Nbs \cup Strobes)]
        /\ UNCHANGED <<static_table, lpm_q, waiters, future_T, lpm_T, lpm_state, mflags, event_flag>>
        /\ UNCHANGED <<active_head, T, pint_stop, stage, i, j, cur, fuel>>
    BY ReleaseFutureIs
  <2> QED
    BY <2>1 DEF Shape, TypeOK
<1>2. QueueOK'
  BY ReleaseFutureIs DEF Shape, QueueOK
<1>3. StageOK'
  BY ReleaseFutureIs DEF Shape, StageOK
<1>4. TimeOK'
  BY ReleaseFutureIs DEF Shape, TimeOK
<1> QED
  BY <1>1, <1>2, <1>3, <1>4 DEF Shape

\* What ReleaseLpm does.
LEMMA ReleaseLpmIs ==
  ASSUME Shape, ReleaseLpm
  PROVE  /\ stage = "dlpm" /\ cur = None /\ QueueOK
         /\ \E x \in DOMAIN lpm_q :
              /\ lpm_T[lpm_q[x]] = T /\ lpm_q' = SwapRemove(lpm_q, x)
              /\ lpm_state' = [lpm_state EXCEPT ![lpm_q[x]] = "EXEC"]
              /\ lpm_q' \in Seq(Lpms) /\ ToSet(lpm_q') \subseteq ToSet(lpm_q) /\ lpm_q[x] \in Lpms
              /\ q'["ACTIVE"] = Append(q["ACTIVE"], lpm_q[x])
         /\ q' \in [QNames -> Seq(Threads \cup Nbs \cup Strobes)]
         /\ q'["ACTIVE"] \in Seq(Procs \cup Lpms)
         /\ \A m \in {"INACTIVE", "DELAY0", "MONITOR", "NBASSIGN"} : q'[m] = q[m]
         /\ UNCHANGED <<static_table, future_q, waiters, future_T, lpm_T, flags, mflags, event_flag>>
         /\ UNCHANGED <<active_head, T, pint_stop, stage, i, j, cur, fuel>>
<1>0. stage = "dlpm" /\ cur = None /\ QueueOK
  BY DEF Shape, StageOK, ReleaseLpm
<1>x. PICK x \in DOMAIN lpm_q :
        /\ lpm_T[lpm_q[x]] = T /\ lpm_q' = SwapRemove(lpm_q, x)
        /\ lpm_state' = [lpm_state EXCEPT ![lpm_q[x]] = "EXEC"]
        /\ q' = pint_enqueue_thread(q, "ACTIVE", lpm_q[x])
        /\ lpm_q' \in Seq(Lpms) /\ ToSet(lpm_q') \subseteq ToSet(lpm_q) /\ lpm_q[x] \in Lpms
  <2>1. PICK x \in DOMAIN lpm_q :
          /\ lpm_T[lpm_q[x]] = T /\ lpm_q' = SwapRemove(lpm_q, x)
          /\ lpm_state' = [lpm_state EXCEPT ![lpm_q[x]] = "EXEC"]
          /\ q' = pint_enqueue_thread(q, "ACTIVE", lpm_q[x])
    BY DEF ReleaseLpm, Due
  <2>2. lpm_q \in Seq(Lpms)
    BY DEF Shape, TypeOK
  <2>3. lpm_q' \in Seq(Lpms) /\ ToSet(lpm_q') \subseteq ToSet(lpm_q) /\ lpm_q[x] \in Lpms
    BY <2>1, <2>2, CountRemove
  <2> QED
    BY <2>1, <2>3, Zenon
<1>q. /\ q' \in [QNames -> Seq(Threads \cup Nbs \cup Strobes)]
      /\ q'["ACTIVE"] \in Seq(Procs \cup Lpms) /\ q'["ACTIVE"] = Append(q["ACTIVE"], lpm_q[x])
      /\ \A m \in {"INACTIVE", "DELAY0", "MONITOR", "NBASSIGN"} : q'[m] = q[m]
  <2>0. "ACTIVE" \in QNames
    BY DEF QNames
  <2>1. /\ pint_enqueue_thread(q, "ACTIVE", lpm_q[x]) \in [QNames -> Seq(Threads \cup Nbs \cup Strobes)]
        /\ pint_enqueue_thread(q, "ACTIVE", lpm_q[x])["ACTIVE"] = Append(q["ACTIVE"], lpm_q[x])
        /\ \A m \in QNames \ {"ACTIVE"} : pint_enqueue_thread(q, "ACTIVE", lpm_q[x])[m] = q[m]
    BY <1>0, <1>x, <2>0, Enqueued DEF Threads
  <2>2. Append(q["ACTIVE"], lpm_q[x]) \in Seq(Procs \cup Lpms)
    BY <1>0, <1>x DEF QueueOK
  <2> QED
    BY <1>x, <2>1, <2>2 DEF QNames
<1>u. /\ UNCHANGED <<static_table, future_q, waiters, future_T, lpm_T, flags, mflags, event_flag>>
      /\ UNCHANGED <<active_head, T, pint_stop, stage, i, j, cur, fuel>>
  BY DEF ReleaseLpm, ctl
<1> QED
  BY <1>0, <1>x, <1>q, <1>u

\* A delayed LPM is released.
LEMMA ReleaseLpmShape == ASSUME Shape, ReleaseLpm PROVE Shape'
<1>1. TypeOK'
  <2>1. lpm_state' \in [Lpms -> {"WAIT", "EXEC"}]
    BY ReleaseLpmIs DEF Shape, TypeOK
  <2> QED
    BY <2>1, ReleaseLpmIs DEF Shape, TypeOK
<1>2. QueueOK'
  BY ReleaseLpmIs DEF Shape, QueueOK
<1>3. StageOK'
  BY ReleaseLpmIs DEF Shape, StageOK
<1>4. TimeOK'
  BY ReleaseLpmIs DEF Shape, TimeOK
<1> QED
  BY <1>1, <1>2, <1>3, <1>4 DEF Shape

\* Everything due has been released.
LEMMA ReleaseDoneShape == ASSUME Shape, ReleaseDone PROVE Shape'
<1>1. TypeOK'
  BY MainAssumption DEF Shape, TypeOK, ReleaseDone, LoopTop, queues, data, ctl, QNames
<1>2. QueueOK'
  BY DEF Shape, QueueOK, TypeOK, ReleaseDone, LoopTop, queues, data, ctl, QNames
<1>3. StageOK'
  BY DEF Shape, QueueOK, TypeOK, StageOK, ReleaseDone, LoopTop, queues, data, ctl, QNames
<1>4. TimeOK'
  BY DEF Shape, TypeOK, TimeOK, ReleaseDone, LoopTop, queues, data, ctl
<1> QED
  BY <1>1, <1>2, <1>3, <1>4 DEF Shape

-----------------------------------------------------------------------------
(* Types, stages and times: the statements, and the assignments of stage 2. *)

\* The queue a change makes inactive.
LEMMA ChangedIs ==
  ASSUME Shape, NEW s \in Signals, NEW c, Changed(s, c)
  PROVE  /\ \E wake \in Seq(Lpms) :
              /\ q'["INACTIVE"] = q["INACTIVE"] \o (waiters[s] \o wake)
              /\ flags' = (flags \ c) \cup ToSet(wake)
         /\ q' \in [QNames -> Seq(Threads \cup Nbs \cup Strobes)]
         /\ q'["INACTIVE"] \in Seq(Procs \cup Lpms)
         /\ \A m \in QNames \ {"INACTIVE"} : q'[m] = q[m]
         /\ waiters[s] \in Seq(Procs) /\ waiters' = [waiters EXCEPT ![s] = <<>>]
         /\ waiters' \in [Signals -> Seq(Procs)]
         /\ flags' \subseteq Lpms \cup Nbs /\ event_flag' \in [Statics -> {0, 1, 85}]
         /\ static_table' = IF SList[s] = <<>> THEN static_table ELSE Append(static_table, SList[s])
         /\ SList[s] \in Seq(Statics)
<1>1. PICK wake \in Clear(LList[s], flags \ c) :
        /\ event_flag' = [x \in Statics |-> IF x \in PList[s] THEN 1 ELSE event_flag[x]]
        /\ static_table' = IF SList[s] = <<>> THEN static_table ELSE Append(static_table, SList[s])
        /\ q' = EnqueueAll(q, "INACTIVE", waiters[s] \o wake)
        /\ waiters' = [waiters EXCEPT ![s] = <<>>]
        /\ flags' = (flags \ c) \cup ToSet(wake)
  BY DEF Changed
<1>2. wake \in Seq(Lpms)
  <2> DEFINE S == ToSet(LList[s]) \ (flags \ c)
  <2>1. LList[s] \in Seq(Lpms)
    BY MainAssumption
  <2>2. S \subseteq Lpms
    BY <2>1, SetType
  <2>3. IsFiniteSet(S)
    BY <2>2, NamesAssumption, FS_Subset, Zenon
  <2>4. wake \in SetToSeqs(S)
    BY DEF Clear
  <2> HIDE DEF S
  <2>5. wake \in Seq(S)
    BY <2>3, <2>4, Enumerates
  <2> QED
    BY <2>2, <2>5
<1>3. waiters[s] \in Seq(Procs) /\ waiters' \in [Signals -> Seq(Procs)]
  BY <1>1 DEF Shape, TypeOK
<1>4. waiters[s] \o wake \in Seq(Procs \cup Lpms)
  BY <1>2, <1>3
<1>5. waiters[s] \o wake \in Seq(Threads \cup Nbs \cup Strobes)
  BY <1>4 DEF Threads
<1>6. /\ EnqueueAll(q, "INACTIVE", waiters[s] \o wake) \in [QNames -> Seq(Threads \cup Nbs \cup Strobes)]
      /\ EnqueueAll(q, "INACTIVE", waiters[s] \o wake)["INACTIVE"] = q["INACTIVE"] \o (waiters[s] \o wake)
      /\ \A m \in QNames \ {"INACTIVE"} : EnqueueAll(q, "INACTIVE", waiters[s] \o wake)[m] = q[m]
  <2>1. "INACTIVE" \in QNames /\ QueueOK
    BY DEF QNames, Shape
  <2> QED
    BY <1>5, <2>1, AllEnqueued
<1>7. q["INACTIVE"] \o (waiters[s] \o wake) \in Seq(Procs \cup Lpms)
  BY <1>4 DEF Shape, QueueOK
<1>8. flags' \subseteq Lpms \cup Nbs
  BY <1>1, <1>2, SetType DEF Shape, TypeOK
<1>9. event_flag' \in [Statics -> {0, 1, 85}] /\ SList[s] \in Seq(Statics)
  BY <1>1, MainAssumption DEF Shape, TypeOK
<1> HIDE DEF Changed
<1> QED
  BY <1>1, <1>2, <1>3, <1>6, <1>7, <1>8, <1>9

\* The static table only grows.
LEMMA TableGrows ==
  ASSUME Shape, NEW s \in Signals, NEW c, Changed(s, c)
  PROVE  /\ static_table' \in Seq(Seq(Statics)) /\ Len(static_table) \in Nat
         /\ Len(static_table') \in Nat /\ Len(static_table) <= Len(static_table')
         /\ DOMAIN static_table' = 1 .. Len(static_table')
         /\ \A x \in DOMAIN static_table : x \in DOMAIN static_table' /\ static_table'[x] = static_table[x]
         /\ \A x \in DOMAIN static_table' : static_table'[x] \in Seq(Statics) /\ static_table'[x] # <<>>
<1>1. /\ static_table' = IF SList[s] = <<>> THEN static_table ELSE Append(static_table, SList[s])
      /\ SList[s] \in Seq(Statics)
  BY ChangedIs
<1>2. static_table \in Seq(Seq(Statics)) /\ \A x \in DOMAIN static_table : static_table[x] # <<>>
  BY DEF Shape, TypeOK, StageOK
<1>3. CASE SList[s] = <<>>
  BY <1>1, <1>2, <1>3
<1>4. CASE SList[s] # <<>>
  BY <1>1, <1>2, <1>4
<1> QED
  BY <1>3, <1>4

\* A place in the table stays a place in it.
LEMMA TablePosition ==
  ASSUME NEW t, NEW u, NEW m \in Nat, NEW k \in Nat, Len(t) \in Nat, Len(u) \in Nat, Len(t) <= Len(u),
         \A x \in 1 .. Len(t) : u[x] = t[x], \A x \in 1 .. Len(u) : Len(u[x]) \in Nat /\ 0 < Len(u[x]),
         m <= Len(t), m < Len(t) => k < Len(t[m + 1]), m = Len(t) => k = 0
  PROVE  m <= Len(u) /\ (m < Len(u) => k < Len(u[m + 1])) /\ (m = Len(u) => k = 0)
OBVIOUS

\* A thread changes a signal.
LEMMA ThreadChanges ==
  ASSUME Shape, cur # None, NEW s \in Signals, NEW c, Changed(s, c),
         UNCHANGED <<future_q, lpm_q, future_T, lpm_T, mflags, active_head, T, pint_stop, stage, i, j>>,
         lpm_state' \in [Lpms -> {"WAIT", "EXEC"}], cur' \in {cur, None}, fuel' \in 0 .. Fuel
  PROVE  Shape'
<1>0. /\ q' \in [QNames -> Seq(Threads \cup Nbs \cup Strobes)] /\ q'["INACTIVE"] \in Seq(Procs \cup Lpms)
      /\ q'["ACTIVE"] = q["ACTIVE"] /\ q'["NBASSIGN"] = q["NBASSIGN"] /\ q'["DELAY0"] = q["DELAY0"]
      /\ q'["MONITOR"] = q["MONITOR"] /\ waiters' \in [Signals -> Seq(Procs)]
      /\ flags' \subseteq Lpms \cup Nbs /\ event_flag' \in [Statics -> {0, 1, 85}]
  BY ChangedIs DEF QNames
<1>t. /\ static_table' \in Seq(Seq(Statics)) /\ Len(static_table) \in Nat /\ Len(static_table') \in Nat
      /\ Len(static_table) <= Len(static_table') /\ DOMAIN static_table' = 1 .. Len(static_table')
      /\ \A x \in DOMAIN static_table : x \in DOMAIN static_table' /\ static_table'[x] = static_table[x]
      /\ \A x \in DOMAIN static_table' : static_table'[x] \in Seq(Statics) /\ static_table'[x] # <<>>
  BY TableGrows
<1>1. TypeOK'
  BY <1>0, <1>t DEF Shape, TypeOK
<1>2. QueueOK'
  BY <1>0 DEF Shape, QueueOK
<1>3. StageOK'
  <2>1. stage = "static" \/ (stage = "active" /\ active_head > 0)
    BY DEF Shape, StageOK
  <2>2. CASE stage = "active"
    BY <2>1, <2>2, <1>0, <1>t DEF Shape, StageOK
  <2>3. CASE stage = "static"
    <3>1. /\ static_table \in Seq(Seq(Statics)) /\ i \in Nat /\ j \in Nat /\ i <= Len(static_table) /\ (i < Len(static_table) => j < Len(static_table[i + 1]))
          /\ (i = Len(static_table) => j = 0) /\ DOMAIN static_table = 1 .. Len(static_table)
      BY <2>3 DEF Shape, StageOK, TypeOK
    <3>2. /\ i <= Len(static_table') /\ (i < Len(static_table') => j < Len(static_table'[i + 1]))
          /\ (i = Len(static_table') => j = 0)
      <4>1. \A x \in DOMAIN static_table' : Len(static_table'[x]) \in Nat /\ 0 < Len(static_table'[x])
        <5> SUFFICES ASSUME NEW x \in DOMAIN static_table'
                     PROVE  Len(static_table'[x]) \in Nat /\ 0 < Len(static_table'[x])
          OBVIOUS
        <5>1. static_table'[x] \in Seq(Statics) /\ static_table'[x] # <<>>
          BY <1>t
        <5> QED
          BY <5>1
      <4>2. /\ \A x \in 1 .. Len(static_table') : Len(static_table'[x]) \in Nat /\ 0 < Len(static_table'[x])
            /\ \A x \in 1 .. Len(static_table) : static_table'[x] = static_table[x]
        BY <3>1, <4>1, <1>t, Zenon
      <4> QED
        BY <3>1, <4>2, <1>t, TablePosition, Zenon
    <3>4. \A x \in DOMAIN static_table' : static_table'[x] # <<>>
      BY <1>t
    <3> QED
      BY <2>3, <3>2, <3>4, <1>0 DEF Shape, StageOK
  <2> QED
    BY <2>1, <2>2, <2>3
<1>4. TimeOK'
  BY DEF Shape, TimeOK
<1> QED
  BY <1>1, <1>2, <1>3, <1>4 DEF Shape

\* One statement less may be executed.
LEMMA Burnt == ASSUME Shape, Burn PROVE fuel' \in 0 .. Fuel
BY MainAssumption DEF Burn, Shape, TypeOK

\* The names are those of different things.
LEMMA Names ==
  /\ None \notin Procs /\ None \notin Statics /\ None \notin Lpms
  /\ Procs \cap Lpms = {} /\ Procs \cap Statics = {} /\ Procs \cap Nbs = {} /\ Procs \cap Strobes = {}
  /\ Lpms \cap Statics = {} /\ Lpms \cap Nbs = {} /\ Lpms \cap Strobes = {} /\ Nbs \cap Statics = {}
  /\ Nbs \cap Strobes = {} /\ Statics \cap Strobes = {}
BY NamesAssumption DEF Threads

\* A blocking assignment.
LEMMA AssignStmtShape == ASSUME Shape, NEW s \in Signals, AssignStmt(s) PROVE Shape'
<1>1. /\ UNCHANGED <<future_q, lpm_q, future_T, lpm_T, mflags, active_head, T, pint_stop, stage, i, j>>
      /\ lpm_state' = lpm_state /\ cur' = cur /\ Burn /\ Changed(s, {}) /\ cur # None
  BY Names DEF AssignStmt, ctl
<1>2. lpm_state' \in [Lpms -> {"WAIT", "EXEC"}]
  BY <1>1 DEF Shape, TypeOK
<1> QED
  BY <1>1, <1>2, Burnt, ThreadChanges

\* An LPM drives its output.
LEMMA LpmDrivesShape == ASSUME Shape, LpmDrives PROVE Shape'
<1>1. /\ UNCHANGED <<future_q, lpm_q, future_T, lpm_T, mflags, active_head, T, pint_stop, stage, i, j>>
      /\ lpm_state' = [lpm_state EXCEPT ![cur] = "WAIT"] /\ cur' = None /\ cur # None /\ cur \in Signals
  BY Names DEF LpmDrives, ctl, Signals
<1>2. lpm_state' \in [Lpms -> {"WAIT", "EXEC"}]
  BY <1>1 DEF Shape, TypeOK, LpmDrives
<1>3. CASE Changed(cur, {cur}) /\ Burn
  BY <1>1, <1>2, <1>3, Burnt, ThreadChanges
<1>4. CASE flags' = flags \ {cur} /\ UNCHANGED <<event_flag, static_table, q, waiters, fuel>>
  <2>1. TypeOK'
    BY <1>1, <1>2, <1>4 DEF Shape, TypeOK
  <2>2. QueueOK'
    BY <1>4 DEF Shape, QueueOK
  <2>3. StageOK'
    BY <1>1, <1>4 DEF Shape, StageOK
  <2>4. TimeOK'
    BY <1>1 DEF Shape, TimeOK
  <2> QED
    BY <2>1, <2>2, <2>3, <2>4 DEF Shape
<1> QED
  BY <1>3, <1>4 DEF LpmDrives

\* While a thread runs, main is where it was.
LEMMA ThreadStage ==
  ASSUME Shape, cur # None, q'["ACTIVE"] = q["ACTIVE"], UNCHANGED <<static_table, active_head, stage, i, j>>,
         cur' \in {cur, None}
  PROVE  StageOK'
<1>1. stage = "static" \/ (stage = "active" /\ active_head > 0)
  BY DEF Shape, StageOK
<1> QED
  BY <1>1 DEF Shape, StageOK

\* One more entry on a queue, of the kind it holds.
LEMMA EnqueuedOK ==
  ASSUME QueueOK, NEW n \in QNames, NEW e, q' = pint_enqueue_thread(q, n, e),
         n \in {"ACTIVE", "INACTIVE"} => e \in Procs \cup Lpms, n = "NBASSIGN" => e \in Nbs,
         n = "DELAY0" => e \in Procs, n = "MONITOR" => e \in Strobes
  PROVE  /\ QueueOK' /\ q' \in [QNames -> Seq(Threads \cup Nbs \cup Strobes)]
         /\ q'[n] = Append(q[n], e) /\ \A m \in QNames \ {n} : q'[m] = q[m]
<1>1. e \in Threads \cup Nbs \cup Strobes
  BY DEF QNames, Threads
<1>2. /\ q' \in [QNames -> Seq(Threads \cup Nbs \cup Strobes)]
      /\ q'[n] = Append(q[n], e) /\ \A m \in QNames \ {n} : q'[m] = q[m]
  BY <1>1, Enqueued
<1>3. ASSUME n = "ACTIVE" PROVE QueueOK'
  <2>1. q["ACTIVE"] \in Seq(Procs \cup Lpms) /\ e \in Procs \cup Lpms
    BY <1>3 DEF QueueOK
  <2>2. Append(q["ACTIVE"], e) \in Seq(Procs \cup Lpms)
    BY <2>1
  <2>3. q'["ACTIVE"] \in Seq(Procs \cup Lpms) /\ \A m \in QNames \ {"ACTIVE"} : q'[m] = q[m]
    BY <1>2, <1>3, <2>2
  <2> QED
    BY <1>2, <2>3 DEF QueueOK, QNames
<1>4. ASSUME n = "INACTIVE" PROVE QueueOK'
  <2>1. q["INACTIVE"] \in Seq(Procs \cup Lpms) /\ e \in Procs \cup Lpms
    BY <1>4 DEF QueueOK
  <2>2. Append(q["INACTIVE"], e) \in Seq(Procs \cup Lpms)
    BY <2>1
  <2>3. q'["INACTIVE"] \in Seq(Procs \cup Lpms) /\ \A m \in QNames \ {"INACTIVE"} : q'[m] = q[m]
    BY <1>2, <1>4, <2>2
  <2> QED
    BY <1>2, <2>3 DEF QueueOK, QNames
<1>5. ASSUME n = "NBASSIGN" PROVE QueueOK'
  <2>1. q["NBASSIGN"] \in Seq(Nbs) /\ e \in Nbs
    BY <1>5 DEF QueueOK
  <2>2. Append(q["NBASSIGN"], e) \in Seq(Nbs)
    BY <2>1
  <2>3. q'["NBASSIGN"] \in Seq(Nbs) /\ \A m \in QNames \ {"NBASSIGN"} : q'[m] = q[m]
    BY <1>2, <1>5, <2>2
  <2> QED
    BY <1>2, <2>3 DEF QueueOK, QNames
<1>6. ASSUME n = "DELAY0" PROVE QueueOK'
  <2>1. q["DELAY0"] \in Seq(Procs) /\ e \in Procs
    BY <1>6 DEF QueueOK
  <2>2. Append(q["DELAY0"], e) \in Seq(Procs)
    BY <2>1
  <2>3. q'["DELAY0"] \in Seq(Procs) /\ \A m \in QNames \ {"DELAY0"} : q'[m] = q[m]
    BY <1>2, <1>6, <2>2
  <2> QED
    BY <1>2, <2>3 DEF QueueOK, QNames
<1>7. ASSUME n = "MONITOR" PROVE QueueOK'
  <2>1. q["MONITOR"] \in Seq(Strobes) /\ e \in Strobes
    BY <1>7 DEF QueueOK
  <2>2. Append(q["MONITOR"], e) \in Seq(Strobes)
    BY <2>1
  <2>3. q'["MONITOR"] \in Seq(Strobes) /\ \A m \in QNames \ {"MONITOR"} : q'[m] = q[m]
    BY <1>2, <1>7, <2>2
  <2> QED
    BY <1>2, <2>3 DEF QueueOK, QNames
<1> QED
  BY <1>2, <1>3, <1>4, <1>5, <1>6, <1>7, Zenon DEF QNames

\* A nonblocking assignment is queued, or is queued already.
LEMMA NbEnqueued ==
  ASSUME TypeOK, QueueOK, NEW n \in Nbs, pint_enqueue_nb_thread_by_idx(n)
  PROVE  /\ QueueOK' /\ q' \in [QNames -> Seq(Threads \cup Nbs \cup Strobes)]
         /\ flags' = flags \cup {n} /\ flags' \subseteq Lpms \cup Nbs
         /\ q'["NBASSIGN"] = IF n \in flags THEN q["NBASSIGN"] ELSE Append(q["NBASSIGN"], n)
         /\ \A m \in {"ACTIVE", "INACTIVE", "DELAY0", "MONITOR"} : q'[m] = q[m]
<1>1. flags' = flags \cup {n} /\ flags' \subseteq Lpms \cup Nbs
  BY DEF TypeOK, pint_enqueue_nb_thread_by_idx
<1>2. CASE n \in flags
  <2>1. q' = q
    BY <1>2 DEF pint_enqueue_nb_thread_by_idx
  <2> QED
    BY <1>1, <1>2, <2>1 DEF QueueOK
<1>3. CASE n \notin flags
  <2>1. q' = pint_enqueue_thread(q, "NBASSIGN", n) /\ "NBASSIGN" \in QNames
    BY <1>3 DEF pint_enqueue_nb_thread_by_idx, QNames
  <2>2. /\ QueueOK' /\ q' \in [QNames -> Seq(Threads \cup Nbs \cup Strobes)]
        /\ q'["NBASSIGN"] = Append(q["NBASSIGN"], n) /\ \A m \in QNames \ {"NBASSIGN"} : q'[m] = q[m]
    BY <2>1, EnqueuedOK
  <2> QED
    BY <1>1, <1>3, <2>2 DEF QNames
<1> QED
  BY <1>2, <1>3

\* One more entry on the future queue, at a time not past.
LEMMA FutureEnqueued ==
  ASSUME Shape, NEW x \in FutureStructs, NEW d \in Delays, T + d <= MaxT, pint_enqueue_thread_future(x, T + d),
         UNCHANGED <<T, lpm_q, lpm_T>>
  PROVE  /\ TimeOK' /\ future_T' \in [FutureStructs -> 0 .. MaxT] /\ future_q' \in Seq(FutureStructs)
         /\ future_q' = Append(future_q, x) /\ ToSet(future_q') = ToSet(future_q) \cup {x}
         /\ future_T' = [future_T EXCEPT ![x] = T + d]
<1>1. future_T' = [future_T EXCEPT ![x] = T + d] /\ future_q' = Append(future_q, x)
  BY DEF pint_enqueue_thread_future
<1>2. /\ future_T \in [FutureStructs -> 0 .. MaxT] /\ future_q \in Seq(FutureStructs) /\ T \in Nat /\ d \in Nat
      /\ MaxT \in Nat
  BY MainAssumption DEF Shape, TypeOK
<1>3. T + d \in 0 .. MaxT /\ T <= T + d
  BY <1>2
<1>4. future_T' \in [FutureStructs -> 0 .. MaxT]
  BY <1>1, <1>2, <1>3
<1>5. future_q' \in Seq(FutureStructs) /\ ToSet(future_q') = ToSet(future_q) \cup {x}
  BY <1>1, <1>2, CountAppend
<1>6. \A y \in ToSet(future_q) : y \in FutureStructs /\ T <= future_T[y]
  BY <1>2, SetType DEF Shape, TimeOK
<1>7. \A y \in ToSet(future_q') : T <= future_T'[y]
  BY <1>1, <1>2, <1>3, <1>5, <1>6
<1> QED
  BY <1>1, <1>4, <1>5, <1>7 DEF Shape, TimeOK

\* n <= expression.
LEMMA NbAssignStmtShape == ASSUME Shape, NEW n \in Nbs, NbAssignStmt(n) PROVE Shape'
<1>1. /\ UNCHANGED <<static_table, future_q, lpm_q, waiters, future_T, lpm_T, lpm_state, mflags, event_flag>>
      /\ UNCHANGED <<active_head, T, pint_stop, stage, i, j, cur>>
      /\ cur # None /\ Burn /\ pint_enqueue_nb_thread_by_idx(n) /\ TypeOK /\ QueueOK
  BY Names DEF NbAssignStmt, ctl, Shape
<1>2. TypeOK'
  BY <1>1, Burnt, NbEnqueued DEF TypeOK
<1>3. StageOK'
  BY <1>1, NbEnqueued, ThreadStage
<1>4. TimeOK'
  BY <1>1 DEF Shape, TimeOK
<1> QED
  BY <1>1, <1>2, <1>3, <1>4, NbEnqueued DEF Shape

\* n <= #d expression.
LEMMA NbFutureStmtShape == ASSUME Shape, NEW n \in Nbs, NEW d \in Delays, NbFutureStmt(n, d) PROVE Shape'
<1>1. /\ UNCHANGED <<static_table, lpm_q, waiters, lpm_T, lpm_state, mflags, event_flag>>
      /\ UNCHANGED <<active_head, T, pint_stop, stage, i, j, cur>>
      /\ cur # None /\ Burn /\ TypeOK /\ QueueOK /\ T + d <= MaxT /\ n \in FutureStructs
  BY Names DEF NbFutureStmt, ctl, Shape, FutureStructs
<1>2. CASE pint_enqueue_thread_future(n, T + d) /\ UNCHANGED <<q, flags>>
  <2>1. TypeOK'
    BY <1>1, <1>2, Burnt, FutureEnqueued DEF TypeOK
  <2>2. QueueOK'
    BY <1>1, <1>2 DEF QueueOK
  <2>3. StageOK'
    BY <1>1, <1>2, ThreadStage
  <2> QED
    BY <1>1, <1>2, <2>1, <2>2, <2>3, FutureEnqueued DEF Shape
<1>3. CASE pint_enqueue_nb_thread_by_idx(n) /\ UNCHANGED <<future_T, future_q>>
  <2>1. TypeOK'
    BY <1>1, <1>3, Burnt, NbEnqueued DEF TypeOK
  <2>2. StageOK'
    BY <1>1, <1>3, NbEnqueued, ThreadStage
  <2>3. TimeOK'
    BY <1>1, <1>3 DEF Shape, TimeOK
  <2> QED
    BY <1>1, <1>3, <2>1, <2>2, <2>3, NbEnqueued DEF Shape
<1> QED
  BY <1>2, <1>3 DEF NbFutureStmt, pint_enqueue_nb_future

\* $strobe.
LEMMA StrobeStmtShape == ASSUME Shape, NEW m \in Strobes, StrobeStmt(m) PROVE Shape'
<1>1. /\ UNCHANGED <<static_table, future_q, lpm_q, waiters, future_T, lpm_T, lpm_state, flags, event_flag>>
      /\ UNCHANGED <<active_head, T, pint_stop, stage, i, j, cur>>
      /\ cur # None /\ Burn /\ TypeOK /\ QueueOK /\ mflags' = mflags \cup {m}
      /\ q' = IF m \in mflags THEN q ELSE pint_enqueue_thread(q, "MONITOR", m)
  BY Names DEF StrobeStmt, ctl, Shape
<1>2. QueueOK' /\ q'["ACTIVE"] = q["ACTIVE"] /\ q' \in [QNames -> Seq(Threads \cup Nbs \cup Strobes)]
  <2>1. CASE m \in mflags
    BY <1>1, <2>1 DEF QueueOK
  <2>2. CASE m \notin mflags
    <3>1. "MONITOR" \in QNames /\ q' = pint_enqueue_thread(q, "MONITOR", m)
      BY <1>1, <2>2 DEF QNames
    <3>2. /\ QueueOK' /\ q' \in [QNames -> Seq(Threads \cup Nbs \cup Strobes)]
          /\ \A k \in QNames \ {"MONITOR"} : q'[k] = q[k]
      BY <1>1, <3>1, EnqueuedOK
    <3> QED
      BY <3>2 DEF QNames
  <2> QED
    BY <2>1, <2>2
<1>3. TypeOK'
  BY <1>1, <1>2, Burnt DEF TypeOK
<1>4. StageOK'
  BY <1>1, <1>2, ThreadStage
<1>5. TimeOK'
  BY <1>1 DEF Shape, TimeOK
<1> QED
  BY <1>2, <1>3, <1>4, <1>5 DEF Shape

\* $finish.
LEMMA FinishStmtShape == ASSUME Shape, FinishStmt PROVE Shape'
<1>1. /\ UNCHANGED <<q, static_table, future_q, lpm_q, waiters, future_T, lpm_T, lpm_state, flags, mflags, event_flag>>
      /\ UNCHANGED <<active_head, T, stage, i, j, cur>> /\ pint_stop' \in BOOLEAN
      /\ cur # None /\ Burn
  BY Names DEF FinishStmt, queues, data
<1>2. TypeOK'
  BY <1>1, Burnt DEF Shape, TypeOK
<1>3. StageOK'
  BY <1>1, ThreadStage
<1> QED
  BY <1>1, <1>2, <1>3 DEF Shape, QueueOK, TimeOK

\* #d.
LEMMA DelayStmtShape == ASSUME Shape, NEW d \in Delays, DelayStmt(d) PROVE Shape'
<1>1. /\ UNCHANGED <<static_table, lpm_q, waiters, lpm_T, lpm_state, flags, mflags, event_flag>>
      /\ UNCHANGED <<active_head, T, pint_stop, stage, i, j>> /\ cur' = None
      /\ cur # None /\ Burn /\ TypeOK /\ QueueOK /\ T + d <= MaxT /\ cur \in FutureStructs /\ cur \in Procs
  BY Names DEF DelayStmt, ctl, Shape, FutureStructs
<1>2. CASE pint_enqueue_thread_future(cur, T + d) /\ UNCHANGED q
  <2>1. TypeOK'
    BY <1>1, <1>2, Burnt, FutureEnqueued DEF TypeOK
  <2>2. QueueOK'
    BY <1>1, <1>2 DEF QueueOK
  <2>3. StageOK'
    BY <1>1, <1>2, ThreadStage
  <2> QED
    BY <1>1, <1>2, <2>1, <2>2, <2>3, FutureEnqueued DEF Shape
<1>3. CASE q' = pint_enqueue_thread(q, "DELAY0", cur) /\ UNCHANGED <<future_T, future_q>>
  <2>0. /\ QueueOK' /\ q' \in [QNames -> Seq(Threads \cup Nbs \cup Strobes)] /\ q'["ACTIVE"] = q["ACTIVE"]
    <3>1. "DELAY0" \in QNames
      BY DEF QNames
    <3>2. /\ QueueOK' /\ q' \in [QNames -> Seq(Threads \cup Nbs \cup Strobes)]
          /\ \A k \in QNames \ {"DELAY0"} : q'[k] = q[k]
      BY <1>1, <1>3, <3>1, EnqueuedOK
    <3> QED
      BY <3>2 DEF QNames
  <2>1. TypeOK'
    BY <1>1, <1>3, <2>0, Burnt DEF TypeOK
  <2>2. StageOK'
    BY <1>1, <2>0, ThreadStage
  <2>3. TimeOK'
    BY <1>1, <1>3 DEF Shape, TimeOK
  <2> QED
    BY <2>0, <2>1, <2>2, <2>3 DEF Shape
<1> QED
  BY <1>2, <1>3 DEF DelayStmt

\* @(s).
LEMMA WaitStmtShape == ASSUME Shape, NEW s \in Signals, WaitStmt(s) PROVE Shape'
<1>1. /\ UNCHANGED <<q, static_table, future_q, lpm_q, future_T, lpm_T, lpm_state, flags, mflags, event_flag>>
      /\ UNCHANGED <<active_head, T, pint_stop, stage, i, j>> /\ cur' = None
      /\ cur # None /\ cur \in Procs /\ Burn /\ waiters' = [waiters EXCEPT ![s] = Append(@, cur)]
  BY Names DEF WaitStmt, pint_wait_on_event, ctl, data
<1>2. waiters' \in [Signals -> Seq(Procs)]
  BY <1>1 DEF Shape, TypeOK
<1>3. TypeOK'
  BY <1>1, <1>2, Burnt DEF Shape, TypeOK
<1>4. StageOK'
  BY <1>1, ThreadStage
<1> QED
  BY <1>1, <1>3, <1>4 DEF Shape, QueueOK, TimeOK

\* A thread returns.
LEMMA ThreadReturnsShape == ASSUME Shape, ThreadReturns PROVE Shape'
<1>1. /\ UNCHANGED <<q, static_table, future_q, lpm_q, waiters, future_T, lpm_T, lpm_state, flags, mflags, event_flag>>
      /\ UNCHANGED <<active_head, T, pint_stop, stage, i, j, fuel>> /\ cur' = None /\ cur # None
  BY Names DEF ThreadReturns, queues, ctl, data
<1>2. StageOK'
  BY <1>1, ThreadStage
<1> QED
  BY <1>1, <1>2 DEF Shape, TypeOK, QueueOK, TimeOK

\* An LPM waits for its delay.
LEMMA LpmWaitsShape == ASSUME Shape, NEW d \in Delays, LpmWaits(d) PROVE Shape'
<1>1. /\ UNCHANGED <<static_table, future_q, waiters, future_T, mflags, event_flag>>
      /\ UNCHANGED <<active_head, T, pint_stop, stage, i, j, fuel>> /\ cur' = None /\ flags' = flags \ {cur}
      /\ cur # None /\ TypeOK /\ QueueOK /\ T + d <= MaxT /\ cur \in Lpms
  BY Names DEF LpmWaits, ctl, Shape
<1>2. CASE pint_lpm_enqueue_thread_future(cur, T + d) /\ UNCHANGED <<lpm_state, q>>
  <2>1. lpm_T' = [lpm_T EXCEPT ![cur] = T + d] /\ lpm_q' = IF cur \in ToSet(lpm_q) THEN lpm_q ELSE Append(lpm_q, cur)
    BY <1>2 DEF pint_lpm_enqueue_thread_future
  <2>2. lpm_T \in [Lpms -> 0 .. MaxT] /\ lpm_q \in Seq(Lpms) /\ T \in Nat /\ d \in Nat /\ MaxT \in Nat
    BY <1>1, MainAssumption DEF TypeOK
  <2>3. T + d \in 0 .. MaxT /\ T <= T + d
    BY <1>1, <2>2
  <2>4. lpm_T' \in [Lpms -> 0 .. MaxT]
    BY <2>1, <2>2, <2>3
  <2>5. lpm_q' \in Seq(Lpms) /\ ToSet(lpm_q') = ToSet(lpm_q) \cup {cur}
    BY <1>1, <2>1, <2>2, CountAppend
  <2>6. \A y \in ToSet(lpm_q) : y \in Lpms /\ T <= lpm_T[y]
    BY <2>2, SetType DEF Shape, TimeOK
  <2>7. \A y \in ToSet(lpm_q') : T <= lpm_T'[y]
    BY <2>1, <2>2, <2>3, <2>5, <2>6
  <2>8. TypeOK'
    BY <1>1, <1>2, <2>4, <2>5 DEF TypeOK
  <2>9. StageOK'
    BY <1>1, <1>2, ThreadStage
  <2> QED
    BY <1>1, <1>2, <2>7, <2>8, <2>9 DEF Shape, QueueOK, TimeOK
<1>3. CASE /\ lpm_state' = [lpm_state EXCEPT ![cur] = "EXEC"]
           /\ q' = pint_enqueue_thread(q, "INACTIVE", cur) /\ UNCHANGED <<lpm_T, lpm_q>>
  <2>0. /\ QueueOK' /\ q' \in [QNames -> Seq(Threads \cup Nbs \cup Strobes)] /\ q'["ACTIVE"] = q["ACTIVE"]
    <3>1. "INACTIVE" \in QNames
      BY DEF QNames
    <3>2. /\ QueueOK' /\ q' \in [QNames -> Seq(Threads \cup Nbs \cup Strobes)]
          /\ \A k \in QNames \ {"INACTIVE"} : q'[k] = q[k]
      BY <1>1, <1>3, <3>1, EnqueuedOK
    <3> QED
      BY <3>2 DEF QNames
  <2>1. lpm_state' \in [Lpms -> {"WAIT", "EXEC"}]
    BY <1>1, <1>3 DEF TypeOK
  <2>2. TypeOK'
    BY <1>1, <1>3, <2>0, <2>1 DEF TypeOK
  <2>3. StageOK'
    BY <1>1, <2>0, ThreadStage
  <2>4. TimeOK'
    BY <1>1, <1>3 DEF Shape, TimeOK
  <2> QED
    BY <2>0, <2>2, <2>3, <2>4 DEF Shape
<1> QED
  BY <1>2, <1>3 DEF LpmWaits

\* A nonblocking assignment is applied.
LEMMA RunNbShape == ASSUME Shape, RunNb PROVE Shape'
<1>1. /\ stage = "nb" /\ i \in Nat /\ i < Len(q["NBASSIGN"]) /\ i' = i + 1 /\ q["NBASSIGN"] \in Seq(Nbs)
      /\ q["ACTIVE"] = <<>> /\ active_head = 0 /\ cur = None
      /\ UNCHANGED <<future_q, lpm_q, future_T, lpm_T, lpm_state, mflags, active_head, T, pint_stop, stage, j, cur, fuel>>
  BY DEF Shape, TypeOK, QueueOK, StageOK, RunNb
<1> DEFINE n == q["NBASSIGN"][i + 1]
<1>2. n \in Nbs /\ n \in Signals
  BY <1>1 DEF Signals
<1>3. Changed(n, {n}) \/ (flags' = flags \ {n} /\ UNCHANGED <<event_flag, static_table, q, waiters>>)
  BY DEF RunNb
<1> HIDE DEF n
<1>4. /\ q' \in [QNames -> Seq(Threads \cup Nbs \cup Strobes)] /\ q'["INACTIVE"] \in Seq(Procs \cup Lpms)
      /\ q'["ACTIVE"] = q["ACTIVE"] /\ q'["NBASSIGN"] = q["NBASSIGN"] /\ q'["DELAY0"] = q["DELAY0"]
      /\ q'["MONITOR"] = q["MONITOR"] /\ waiters' \in [Signals -> Seq(Procs)]
      /\ flags' \subseteq Lpms \cup Nbs /\ event_flag' \in [Statics -> {0, 1, 85}]
      /\ static_table' \in Seq(Seq(Statics)) /\ \A x \in DOMAIN static_table' : static_table'[x] # <<>>
  <2>1. CASE Changed(n, {n})
    <3>1. /\ q' \in [QNames -> Seq(Threads \cup Nbs \cup Strobes)] /\ q'["INACTIVE"] \in Seq(Procs \cup Lpms)
          /\ \A m \in QNames \ {"INACTIVE"} : q'[m] = q[m]
          /\ waiters' \in [Signals -> Seq(Procs)]
          /\ flags' \subseteq Lpms \cup Nbs /\ event_flag' \in [Statics -> {0, 1, 85}]
      BY <1>2, <2>1, ChangedIs
    <3>2. static_table' \in Seq(Seq(Statics)) /\ \A x \in DOMAIN static_table' : static_table'[x] # <<>>
      BY <1>2, <2>1, TableGrows
    <3> QED
      BY <3>1, <3>2 DEF QNames
  <2>2. CASE flags' = flags \ {n} /\ UNCHANGED <<event_flag, static_table, q, waiters>>
    BY <2>2 DEF Shape, TypeOK, QueueOK, StageOK
  <2> QED
    BY <1>3, <2>1, <2>2
<1>5. TypeOK'
  <2>1. i' \in Nat
    BY <1>1
  <2> QED
    BY <1>1, <1>4, <2>1, SMTT(30) DEF Shape, TypeOK
<1>6. QueueOK'
  BY <1>4 DEF Shape, QueueOK
<1>7. StageOK'
  <2>1. i + 1 <= Len(q["NBASSIGN"]) /\ i + 1 # 0
    BY <1>1
  <2> QED
    BY <1>1, <1>4, <2>1 DEF Shape, StageOK
<1>8. TimeOK'
  BY <1>1 DEF Shape, TimeOK
<1> QED
  BY <1>5, <1>6, <1>7, <1>8 DEF Shape

\* The types, stages and times of every step.
LEMMA NextShape == ASSUME Shape, [Next]_vars PROVE Shape'
<1>1. CASE UNCHANGED vars
  <2>1. TypeOK' /\ QueueOK'
    BY <1>1 DEF vars, queues, data, ctl, Shape, TypeOK, QueueOK
  <2>2. StageOK'
    BY <1>1 DEF vars, queues, data, ctl, Shape, StageOK
  <2>3. TimeOK'
    BY <1>1 DEF vars, queues, data, ctl, Shape, TimeOK
  <2> QED
    BY <2>1, <2>2, <2>3 DEF Shape
<1>2. CASE MainStep
  BY <1>2, RunActiveShape, SwapActiveShape, LeaveActiveShape, RunStaticShape, StaticDoneShape, RunNbShape,
     NbDoneShape, RunDelay0Shape, NoDelay0Shape, RunMonitorShape, MonitorDoneShape, AdvanceFutureShape,
     AdvanceLpmShape, NoFutureShape, ReleaseFutureShape, ReleaseLpmShape, ReleaseDoneShape, Zenon DEF MainStep
<1>3. CASE ThreadStep
  BY <1>3, AssignStmtShape, WaitStmtShape, NbAssignStmtShape, NbFutureStmtShape, StrobeStmtShape, DelayStmtShape,
     LpmWaitsShape, FinishStmtShape, ThreadReturnsShape, LpmDrivesShape, Zenon DEF ThreadStep
<1> QED
  BY <1>1, <1>2, <1>3 DEF Next

-----------------------------------------------------------------------------
(* Where the processes are, and what the bits say. *)

\* A process that keeps its place, or ends, has one place at most.
LEMMA Moved ==
  ASSUME Shape, PlaceOK, Kept, \A p \in Procs, s \in Signals : Count(waiters'[s], p) <= 1
  PROVE  PlaceOK'
<1> SUFFICES ASSUME NEW p \in Procs
             PROVE  Places(p)' <= 1 /\ \A s \in Signals : Count(waiters[s], p)' <= 1
  BY DEF PlaceOK
<1>1. Places(p)' <= 1
  BY DEF PlaceOK, Kept
<1>2. \A s \in Signals : Count(waiters[s], p)' = Count(waiters'[s], p)
  BY DEF Count
<1> QED
  BY <1>1, <1>2

\* The events' lists are as they were.
LEMMA WaitsSame == ASSUME PlaceOK, waiters' = waiters
  PROVE \A p \in Procs : Waits(p)' = Waits(p) /\ \A s \in Signals : Count(waiters'[s], p) <= 1
BY DEF Waits, PlaceOK

\* The places of a process when the events' lists are as they were.
LEMMA MovedQueued ==
  ASSUME Shape, PlaceOK, waiters' = waiters,
         \A p \in Procs :
            (IF cur' = p THEN 1 ELSE 0) + Count(ActiveLeft', p) + Count(q'["INACTIVE"], p)
               + Count(q'["DELAY0"], p) + Count(future_q', p)
               = (IF cur = p THEN 1 ELSE 0) + Count(ActiveLeft, p) + Count(q["INACTIVE"], p)
                 + Count(q["DELAY0"], p) + Count(future_q, p)
  PROVE  Kept /\ PlaceOK'
<1>1. \A p \in Procs : Places(p)' = Places(p)
  BY WaitsSame, PlacesIs
<1>2. Kept
  BY <1>1 DEF Kept
<1> QED
  BY <1>2, Moved, WaitsSame

\* The inactive queue becomes the active one.
LEMMA SwapMoves ==
  ASSUME Shape, PlaceOK, FlagOK, ActiveLeft = <<>>, ActiveLeft' = q["INACTIVE"], q'["INACTIVE"] = <<>>,
         q'["DELAY0"] = q["DELAY0"], q'["MONITOR"] = q["MONITOR"], NbLeft' = NbLeft,
         UNCHANGED <<future_q, waiters, flags, mflags, cur>>
  PROVE  Kept /\ PlaceOK' /\ FlagOK'
<1>1. ASSUME NEW p \in Procs
      PROVE  (IF cur' = p THEN 1 ELSE 0) + Count(ActiveLeft', p) + Count(q'["INACTIVE"], p)
               + Count(q'["DELAY0"], p) + Count(future_q', p)
               = (IF cur = p THEN 1 ELSE 0) + Count(ActiveLeft, p) + Count(q["INACTIVE"], p)
                 + Count(q["DELAY0"], p) + Count(future_q, p)
  <2>1. Count(ActiveLeft, p) = 0 /\ Count(q'["INACTIVE"], p) = 0 /\ Count(ActiveLeft', p) = Count(q["INACTIVE"], p)
    BY CountEmpty
  <2>2. Count(q["INACTIVE"], p) \in Nat /\ Count(q["DELAY0"], p) \in Nat /\ Count(future_q, p) \in Nat
    BY TermsNat DEF Shape
  <2> QED
    BY <2>1, <2>2
<1>2. Kept /\ PlaceOK'
  BY <1>1, MovedQueued
<1>3. ToSet(ActiveLeft) = {} /\ ToSet(ActiveLeft') = ToSet(q["INACTIVE"])
  BY CountEmpty
<1>4. FlagOK'
  BY <1>3, FlagIs DEF FlagOK, BitMeansQueued
<1> QED
  BY <1>2, <1>4

\* The whole of a list that main has not started is left, nothing of one it has finished.
LEMMA LeftEnds ==
  ASSUME NEW S, NEW s \in Seq(S)
  PROVE  SubSeq(s, 0 + 1, Len(s)) = s /\ SubSeq(s, Len(s) + 1, Len(s)) = <<>>
<1>1. 0 + 1 = 1
  OBVIOUS
<1> QED
  BY <1>1, SubEnds

\* The next thread of the active queue runs.
LEMMA RunActiveMoves == ASSUME Shape, PlaceOK, FlagOK, RunActive PROVE Kept /\ PlaceOK' /\ FlagOK'
<1>1. /\ stage = "active" /\ cur = None /\ i < active_head /\ i' = i + 1 /\ cur' = q["ACTIVE"][i + 1] /\ i \in Nat
      /\ UNCHANGED <<q, future_q, waiters, flags, mflags, active_head, stage>>
      /\ active_head = Len(q["ACTIVE"]) /\ q["ACTIVE"] \in Seq(Procs \cup Lpms)
  BY DEF RunActive, queues, data, Shape, StageOK, TypeOK, QueueOK
<1>2. (i + 1) + 1 = i + 2
  BY <1>1
<1>3. /\ ActiveLeft = SubSeq(q["ACTIVE"], i + 1, Len(q["ACTIVE"]))
      /\ ActiveLeft' = SubSeq(q["ACTIVE"], i + 2, Len(q["ACTIVE"])) /\ NbLeft' = NbLeft
  BY <1>1, <1>2, LeftIs
<1>4. /\ ToSet(ActiveLeft) = {cur'} \cup ToSet(ActiveLeft')
      /\ \A t : Count(ActiveLeft, t) = (IF cur' = t THEN 1 ELSE 0) + Count(ActiveLeft', t)
      /\ ActiveLeft' \in Seq(Procs \cup Lpms)
  <2> DEFINE s == q["ACTIVE"]
  <2>1. s \in Seq(Procs \cup Lpms) /\ i \in Nat /\ i < Len(s)
    BY <1>1
  <2>2. cur' = s[i + 1] /\ ActiveLeft = SubSeq(s, i + 1, Len(s)) /\ ActiveLeft' = SubSeq(s, i + 2, Len(s))
    BY <1>1, <1>3
  <2> HIDE DEF s
  <2>3. /\ SubSeq(s, i + 2, Len(s)) \in Seq(Procs \cup Lpms)
        /\ ToSet(SubSeq(s, i + 1, Len(s))) = {s[i + 1]} \cup ToSet(SubSeq(s, i + 2, Len(s)))
        /\ \A t : Count(SubSeq(s, i + 1, Len(s)), t) =
                    (IF s[i + 1] = t THEN 1 ELSE 0) + Count(SubSeq(s, i + 2, Len(s)), t)
    BY <2>1, CountSub
  <2> QED
    BY <2>2, <2>3, Zenon
<1>5. ASSUME NEW p \in Procs
      PROVE  (IF cur' = p THEN 1 ELSE 0) + Count(ActiveLeft', p) + Count(q'["INACTIVE"], p)
               + Count(q'["DELAY0"], p) + Count(future_q', p)
               = (IF cur = p THEN 1 ELSE 0) + Count(ActiveLeft, p) + Count(q["INACTIVE"], p)
                 + Count(q["DELAY0"], p) + Count(future_q, p)
  <2>1. Count(q["INACTIVE"], p) \in Nat /\ Count(q["DELAY0"], p) \in Nat /\ Count(future_q, p) \in Nat
    BY TermsNat DEF Shape
  <2>2. Count(ActiveLeft', p) \in Nat
    BY <1>4, CountNat
  <2>3. cur # p
    BY <1>1, Names
  <2>4. Count(ActiveLeft, p) = (IF cur' = p THEN 1 ELSE 0) + Count(ActiveLeft', p)
    BY <1>4, Zenon
  <2>5. q' = q /\ future_q' = future_q
    BY <1>1, Zenon
  <2> QED
    BY <2>1, <2>2, <2>3, <2>4, <2>5, SMTT(60)
<1>6. Kept /\ PlaceOK'
  BY <1>1, <1>5, MovedQueued
<1>7. FlagOK'
  <2>1. ASSUME NEW l \in flags' \cap Lpms
        PROVE  l \in {cur'} \cup ToSet(ActiveLeft') \cup ToSet(q'["INACTIVE"])
    <3>1. l \in {cur} \cup ToSet(ActiveLeft) \cup ToSet(q["INACTIVE"]) /\ l # cur
      BY <1>1, Names DEF FlagOK, BitMeansQueued
    <3> QED
      BY <1>1, <1>4, <3>1
  <2> QED
    BY <1>1, <1>3, <2>1, FlagIs DEF FlagOK, BitMeansQueued
<1> QED
  BY <1>6, <1>7

\* The queues are swapped.
LEMMA SwapActiveMoves == ASSUME Shape, PlaceOK, FlagOK, SwapActive PROVE Kept /\ PlaceOK' /\ FlagOK'
<1>1. /\ stage = "active" /\ i = active_head /\ i' = 0 /\ UNCHANGED <<future_q, waiters, flags, mflags, cur, stage>>
      /\ active_head' = Len(q["INACTIVE"]) /\ q' = pint_swap_active_and_inactive_queue(q) /\ QueueOK
      /\ q["ACTIVE"] \in Seq(Procs \cup Lpms) /\ q["INACTIVE"] \in Seq(Procs \cup Lpms) /\ active_head = Len(q["ACTIVE"])
  BY DEF SwapActive, data, Shape, StageOK, QueueOK
<1>2. /\ q'["ACTIVE"] = q["INACTIVE"] /\ q'["INACTIVE"] = <<>>
      /\ \A m \in {"NBASSIGN", "DELAY0", "MONITOR"} : q'[m] = q[m]
  BY <1>1, Swapped
<1>3. /\ ActiveLeft = SubSeq(q["ACTIVE"], Len(q["ACTIVE"]) + 1, Len(q["ACTIVE"]))
      /\ ActiveLeft' = SubSeq(q["INACTIVE"], 0 + 1, Len(q["INACTIVE"])) /\ NbLeft' = NbLeft
  BY <1>1, <1>2, LeftIs
<1>4. ActiveLeft = <<>> /\ ActiveLeft' = q["INACTIVE"]
  BY <1>1, <1>3, LeftEnds
<1> QED
  BY <1>1, <1>2, <1>3, <1>4, SwapMoves

\* The static table is done.
LEMMA StaticDoneMoves == ASSUME Shape, PlaceOK, FlagOK, StaticDone PROVE Kept /\ PlaceOK' /\ FlagOK'
<1>1. /\ stage = "static" /\ i' = 0 /\ UNCHANGED <<future_q, waiters, flags, mflags, cur>> /\ stage' = "active"
      /\ active_head' = Len(q["INACTIVE"]) /\ q' = pint_swap_active_and_inactive_queue(q) /\ QueueOK
      /\ q["ACTIVE"] = <<>> /\ q["INACTIVE"] \in Seq(Procs \cup Lpms)
  BY DEF StaticDone, data, Shape, StageOK, QueueOK
<1>2. /\ q'["ACTIVE"] = q["INACTIVE"] /\ q'["INACTIVE"] = <<>>
      /\ \A m \in {"NBASSIGN", "DELAY0", "MONITOR"} : q'[m] = q[m]
  BY <1>1, Swapped
<1>3. ActiveLeft = <<>> /\ ActiveLeft' = SubSeq(q["INACTIVE"], 0 + 1, Len(q["INACTIVE"])) /\ NbLeft' = NbLeft
  BY <1>1, <1>2, LeftIs
<1>4. ActiveLeft' = q["INACTIVE"]
  BY <1>1, <1>3, LeftEnds
<1> QED
  BY <1>1, <1>2, <1>3, <1>4, SwapMoves

\* Stage 2 is over.
LEMMA NbDoneMoves == ASSUME Shape, PlaceOK, FlagOK, NbDone PROVE Kept /\ PlaceOK' /\ FlagOK'
<1>1. /\ stage = "nb" /\ i' = 0 /\ UNCHANGED <<future_q, waiters, flags, mflags, cur>> /\ stage' # "nb"
      /\ q'["ACTIVE"] = q["INACTIVE"] /\ q'["INACTIVE"] = <<>> /\ q'["NBASSIGN"] = <<>>
      /\ q'["DELAY0"] = q["DELAY0"] /\ q'["MONITOR"] = q["MONITOR"] /\ q["ACTIVE"] = <<>>
      /\ active_head' = Len(q["INACTIVE"]) /\ i = Len(q["NBASSIGN"])
  BY NbDoneIs
<1>2. q["INACTIVE"] \in Seq(Procs \cup Lpms) /\ q["NBASSIGN"] \in Seq(Nbs)
  BY DEF Shape, QueueOK
<1>3. ActiveLeft = <<>> /\ NbLeft = SubSeq(q["NBASSIGN"], Len(q["NBASSIGN"]) + 1, Len(q["NBASSIGN"])) /\ NbLeft' = <<>>
  BY <1>1, LeftIs
<1>4. ActiveLeft' = IF stage' = "active" THEN SubSeq(q["INACTIVE"], 0 + 1, Len(q["INACTIVE"])) ELSE q["INACTIVE"]
  BY <1>1, LeftIs
<1>5. ActiveLeft' = q["INACTIVE"] /\ NbLeft' = NbLeft
  BY <1>2, <1>3, <1>4, LeftEnds
<1> QED
  BY <1>1, <1>3, <1>5, SwapMoves

\* The #0 threads become active.
LEMMA RunDelay0Moves == ASSUME Shape, PlaceOK, FlagOK, RunDelay0 PROVE Kept /\ PlaceOK' /\ FlagOK'
<1>1. /\ stage = "delay0" /\ i' = 0 /\ UNCHANGED <<future_q, waiters, flags, mflags, cur>> /\ stage' # "nb"
      /\ q'["ACTIVE"] = q["DELAY0"] /\ q'["DELAY0"] = <<>> /\ q'["NBASSIGN"] = q["NBASSIGN"]
      /\ q'["INACTIVE"] = q["INACTIVE"] /\ q'["MONITOR"] = q["MONITOR"] /\ q["ACTIVE"] = <<>>
      /\ active_head' = Len(q["DELAY0"]) /\ q["DELAY0"] \in Seq(Procs)
  BY RunDelay0Is
<1>2. /\ ActiveLeft = <<>> /\ NbLeft' = NbLeft
      /\ ActiveLeft' = IF stage' = "active" THEN SubSeq(q["DELAY0"], 0 + 1, Len(q["DELAY0"])) ELSE q["DELAY0"]
  BY <1>1, LeftIs
<1>3. ActiveLeft' = q["DELAY0"]
  BY <1>1, <1>2, LeftEnds
<1>4. ASSUME NEW p \in Procs
      PROVE  (IF cur' = p THEN 1 ELSE 0) + Count(ActiveLeft', p) + Count(q'["INACTIVE"], p)
               + Count(q'["DELAY0"], p) + Count(future_q', p)
               = (IF cur = p THEN 1 ELSE 0) + Count(ActiveLeft, p) + Count(q["INACTIVE"], p)
                 + Count(q["DELAY0"], p) + Count(future_q, p)
  <2>1. Count(ActiveLeft, p) = 0 /\ Count(q'["DELAY0"], p) = 0 /\ Count(ActiveLeft', p) = Count(q["DELAY0"], p)
    BY <1>1, <1>2, <1>3, CountEmpty
  <2>2. Count(q["INACTIVE"], p) \in Nat /\ Count(q["DELAY0"], p) \in Nat /\ Count(future_q, p) \in Nat
    BY TermsNat DEF Shape
  <2> QED
    BY <1>1, <2>1, <2>2
<1>5. Kept /\ PlaceOK'
  BY <1>1, <1>4, MovedQueued
<1>6. ToSet(ActiveLeft) = {}
  BY <1>2, CountEmpty
<1>7. FlagOK'
  BY <1>1, <1>2, <1>6, FlagIs DEF FlagOK, BitMeansQueued
<1> QED
  BY <1>5, <1>7

\* A static thread is picked, or returns.
LEMMA StillStatic ==
  ASSUME Shape, PlaceOK, FlagOK, cur \notin Procs \cup Lpms, cur' \notin Procs \cup Lpms,
         UNCHANGED <<future_q, waiters, flags, mflags, q>>, ActiveLeft' = ActiveLeft, NbLeft' = NbLeft
  PROVE  Kept /\ PlaceOK' /\ FlagOK'
<1>1. Kept /\ PlaceOK'
  <2>1. \A p \in Procs : cur # p /\ cur' # p
    OBVIOUS
  <2> QED
    BY <2>1, MovedQueued
<1>2. FlagOK'
  <2>1. \A l \in flags \cap Lpms : l \in ToSet(ActiveLeft) \cup ToSet(q["INACTIVE"])
    BY DEF FlagOK, BitMeansQueued
  <2> QED
    BY <2>1, FlagIs DEF FlagOK, BitMeansQueued
<1> QED
  BY <1>1, <1>2

\* The active queue came back empty.
LEMMA LeaveActiveMoves == ASSUME Shape, PlaceOK, FlagOK, LeaveActive PROVE Kept /\ PlaceOK' /\ FlagOK'
<1>1. /\ stage = "active" /\ active_head = 0 /\ i' = 0 /\ UNCHANGED <<q, future_q, waiters, flags, mflags, cur>>
      /\ stage' \in {"static", "nb"} /\ q["NBASSIGN"] \in Seq(Nbs) /\ q["ACTIVE"] \in Seq(Procs \cup Lpms)
      /\ Len(q["ACTIVE"]) = 0 /\ i <= 0 /\ i \in Nat
  BY DEF LeaveActive, queues, data, Shape, StageOK, QueueOK, TypeOK
<1>2. q["ACTIVE"] = <<>> /\ i = 0
  BY <1>1
<1>3. /\ ActiveLeft = SubSeq(q["ACTIVE"], 0 + 1, Len(q["ACTIVE"])) /\ ActiveLeft' = q["ACTIVE"]
      /\ NbLeft = q["NBASSIGN"]
      /\ NbLeft' = IF stage' = "nb" THEN SubSeq(q["NBASSIGN"], 0 + 1, Len(q["NBASSIGN"])) ELSE q["NBASSIGN"]
  BY <1>1, <1>2, LeftIs
<1>4. ActiveLeft' = ActiveLeft /\ NbLeft' = NbLeft
  BY <1>1, <1>3, LeftEnds
<1> QED
  BY <1>1, <1>4, Still

\* A thread of the static table is looked at.
LEMMA RunStaticMoves == ASSUME Shape, PlaceOK, FlagOK, RunStatic PROVE Kept /\ PlaceOK' /\ FlagOK'
<1>1. /\ stage = "static" /\ cur = None /\ UNCHANGED <<q, future_q, waiters, flags, mflags, stage>>
      /\ i < Len(static_table) /\ i \in Nat /\ j \in Nat /\ static_table \in Seq(Seq(Statics))
      /\ j < Len(static_table[i + 1])
      /\ cur' = IF event_flag[static_table[i + 1][j + 1]] # 0 THEN static_table[i + 1][j + 1] ELSE None
  BY DEF RunStatic, queues, Shape, StageOK, TypeOK
<1>2. static_table[i + 1] \in Seq(Statics)
  BY <1>1
<1>3. static_table[i + 1][j + 1] \in Statics
  BY <1>1, <1>2
<1>4. cur \notin Procs \cup Lpms /\ cur' \notin Procs \cup Lpms
  BY <1>1, <1>3, Names
<1>5. ActiveLeft' = ActiveLeft /\ NbLeft' = NbLeft
  BY <1>1, LeftIs
<1> QED
  BY <1>1, <1>4, <1>5, StillStatic

\* Steps between the later stages.
LEMMA StageMoves ==
  ASSUME Shape, PlaceOK, FlagOK, NoDelay0 \/ MonitorDone \/ AdvanceFuture \/ AdvanceLpm \/ NoFuture
  PROVE  Kept /\ PlaceOK' /\ FlagOK'
<1>1. /\ stage \notin {"active", "nb"} /\ stage' \notin {"active", "nb"}
      /\ UNCHANGED <<q, future_q, waiters, flags, mflags, cur>>
  BY DEF NoDelay0, MonitorDone, AdvanceFuture, AdvanceLpm, NoFuture, LoopTop, queues, data
<1>2. ActiveLeft' = ActiveLeft /\ NbLeft' = NbLeft
  BY <1>1, LeftIs
<1> QED
  BY <1>1, <1>2, Still

\* Everything due has been released.
LEMMA ReleaseDoneMoves == ASSUME Shape, PlaceOK, FlagOK, ReleaseDone PROVE Kept /\ PlaceOK' /\ FlagOK'
<1>1. /\ stage \notin {"active", "nb"} /\ stage' # "nb" /\ i' = 0 /\ active_head' = Len(q["ACTIVE"])
      /\ UNCHANGED <<q, future_q, waiters, flags, mflags, cur>> /\ q["ACTIVE"] \in Seq(Procs \cup Lpms)
  BY DEF ReleaseDone, LoopTop, queues, data, Shape, QueueOK
<1>2. /\ ActiveLeft = q["ACTIVE"] /\ NbLeft' = NbLeft
      /\ ActiveLeft' = IF stage' = "active" THEN SubSeq(q["ACTIVE"], 0 + 1, Len(q["ACTIVE"])) ELSE q["ACTIVE"]
  BY <1>1, LeftIs
<1>3. ActiveLeft' = ActiveLeft
  BY <1>1, <1>2, LeftEnds
<1> QED
  BY <1>1, <1>2, <1>3, Still

\* $finish.
LEMMA FinishStmtMoves == ASSUME Shape, PlaceOK, FlagOK, FinishStmt PROVE Kept /\ PlaceOK' /\ FlagOK'
<1>1. UNCHANGED <<q, future_q, waiters, flags, mflags, cur, stage, i, active_head>>
  BY DEF FinishStmt, queues, data
<1>2. ActiveLeft' = ActiveLeft /\ NbLeft' = NbLeft
  BY <1>1, LeftIs
<1> QED
  BY <1>1, <1>2, Still

\* A $strobe prints.
LEMMA RunMonitorMoves == ASSUME Shape, PlaceOK, FlagOK, RunMonitor PROVE Kept /\ PlaceOK' /\ FlagOK'
<1>1. /\ UNCHANGED <<future_q, waiters, flags, cur, stage, i, active_head>>
      /\ \A m \in {"ACTIVE", "INACTIVE", "NBASSIGN", "DELAY0"} : q'[m] = q[m]
      /\ q["MONITOR"] \in Seq(Strobes) /\ q["MONITOR"] # <<>> /\ q'["MONITOR"] = Front(q["MONITOR"])
      /\ mflags' = mflags \ {Last(q["MONITOR"])}
  BY RunMonitorIs
<1>2. ActiveLeft' = ActiveLeft /\ NbLeft' = NbLeft
  BY <1>1, LeftIs
<1>3. Kept /\ PlaceOK'
  BY <1>1, <1>2, MovedQueued
<1> DEFINE e == Last(q["MONITOR"])
<1>4. /\ e \in Strobes /\ q'["MONITOR"] \in Seq(Strobes) /\ ToSet(q["MONITOR"]) = ToSet(q'["MONITOR"]) \cup {e}
      /\ \A t : Count(q'["MONITOR"], t) = Count(q["MONITOR"], t) - (IF e = t THEN 1 ELSE 0)
  BY <1>1, CountFront
<1> HIDE DEF e
<1>5. \A t : Count(q["MONITOR"], t) \in Nat
  BY <1>1, CountNat
<1>6. \A m \in Strobes : Count(q["MONITOR"], m) <= 1
  BY DEF FlagOK
<1>7. \A m \in Strobes : Count(q'["MONITOR"], m) <= 1
  BY <1>4, <1>5, <1>6
<1>8. e \notin ToSet(q'["MONITOR"])
  <2>1. Count(q'["MONITOR"], e) <= 0 /\ Count(q'["MONITOR"], e) \in Int
    BY <1>4, <1>5, <1>6
  <2>2. e \in ToSet(q'["MONITOR"]) <=> Count(q'["MONITOR"], e) > 0
    BY <1>4, CountIn
  <2> QED
    BY <2>1, <2>2
<1>9. mflags' = ToSet(q'["MONITOR"])
  BY <1>1, <1>4, <1>8 DEF FlagOK, BitMeansQueued, e
<1> QED
  BY <1>1, <1>2, <1>3, <1>7, <1>9, FlagIs DEF FlagOK, BitMeansQueued

\* A bit that was clear is set with the entry it stands for.
LEMMA NbBit ==
  ASSUME FlagOK, NEW n \in Nbs, NbLeft \in Seq(Nbs), flags' = flags \cup {n},
         NbLeft' = IF n \in flags THEN NbLeft ELSE Append(NbLeft, n)
  PROVE  flags' \cap Nbs = ToSet(NbLeft') /\ \A m \in Nbs : Count(NbLeft', m) <= 1
<1>0. flags \cap Nbs = ToSet(NbLeft) /\ \A m \in Nbs : Count(NbLeft, m) <= 1
  BY DEF FlagOK, BitMeansQueued
<1>1. CASE n \in flags
  BY <1>0, <1>1
<1>2. CASE n \notin flags
  <2>1. /\ ToSet(NbLeft') = ToSet(NbLeft) \cup {n}
        /\ \A t : Count(NbLeft', t) = Count(NbLeft, t) + (IF n = t THEN 1 ELSE 0)
    BY <1>2, CountAppend
  <2>2. \A t : Count(NbLeft, t) \in Nat
    BY CountNat
  <2>3. Count(NbLeft, n) = 0
    <3>1. n \in ToSet(NbLeft) <=> Count(NbLeft, n) > 0
      BY CountIn
    <3> QED
      BY <1>0, <1>2, <2>2, <3>1
  <2>4. \A m \in Nbs : Count(NbLeft', m) <= 1
    BY <1>0, <2>1, <2>2, <2>3
  <2> QED
    BY <1>0, <2>1, <2>4
<1> QED
  BY <1>1, <1>2

\* An entry of the future queue is released.
LEMMA ReleaseFutureMoves == ASSUME Shape, PlaceOK, FlagOK, ReleaseFuture PROVE Kept /\ PlaceOK' /\ FlagOK'
<1>0. /\ stage = "release" /\ cur = None /\ UNCHANGED <<waiters, mflags, stage, i, active_head, cur>>
      /\ \A m \in {"INACTIVE", "DELAY0", "MONITOR"} : q'[m] = q[m]
      /\ future_q \in Seq(FutureStructs) /\ q["ACTIVE"] \in Seq(Procs \cup Lpms) /\ q["NBASSIGN"] \in Seq(Nbs)
  BY ReleaseFutureIs DEF Shape, TypeOK, QueueOK
<1>1. PICK x \in DOMAIN future_q :
        /\ future_q' = SwapRemove(future_q, x) /\ future_q[x] \in FutureStructs
        /\ IF future_q[x] \in Procs THEN UNCHANGED flags ELSE TRUE
        /\ future_q[x] \in Procs => q'["ACTIVE"] = Append(q["ACTIVE"], future_q[x]) /\ q'["NBASSIGN"] = q["NBASSIGN"]
        /\ future_q[x] \notin Procs =>
             /\ future_q[x] \in Nbs /\ q'["ACTIVE"] = q["ACTIVE"]
             /\ q'["NBASSIGN"] = IF future_q[x] \in flags THEN q["NBASSIGN"] ELSE Append(q["NBASSIGN"], future_q[x])
             /\ flags' = flags \cup {future_q[x]}
  BY ReleaseFutureIs
<1> DEFINE e == future_q[x]
<1>2. \A t : Count(future_q', t) = Count(future_q, t) - (IF e = t THEN 1 ELSE 0)
  BY <1>0, <1>1, CountRemove
<1>3. ActiveLeft = q["ACTIVE"] /\ ActiveLeft' = q'["ACTIVE"] /\ NbLeft = q["NBASSIGN"] /\ NbLeft' = q'["NBASSIGN"]
  BY <1>0, LeftIs
<1>4. /\ e \in FutureStructs /\ (e \in Procs => flags' = flags /\ ActiveLeft' = Append(ActiveLeft, e) /\ NbLeft' = NbLeft)
      /\ e \notin Procs => /\ e \in Nbs /\ ActiveLeft' = ActiveLeft /\ flags' = flags \cup {e}
                           /\ NbLeft' = IF e \in flags THEN NbLeft ELSE Append(NbLeft, e)
  BY <1>1, <1>3
<1> HIDE DEF e
<1>5. ActiveLeft \in Seq(Procs \cup Lpms) /\ NbLeft \in Seq(Nbs)
  BY <1>0, <1>3
<1>6. \A t \in Procs : Count(ActiveLeft', t) = Count(ActiveLeft, t) + (IF e = t THEN 1 ELSE 0)
  <2>1. CASE e \in Procs
    <3>1. e \in Procs \cup Lpms /\ ActiveLeft' = Append(ActiveLeft, e)
      BY <1>4, <2>1
    <3> QED
      BY <1>5, <3>1, CountAppend
  <2>2. CASE e \notin Procs
    <3>1. \A t \in Procs : Count(ActiveLeft, t) \in Nat
      BY <1>5, CountNat
    <3> QED
      BY <1>4, <2>2, <3>1
  <2> QED
    BY <2>1, <2>2
<1>7. Kept /\ PlaceOK'
  <2>1. ASSUME NEW p \in Procs
        PROVE  (IF cur' = p THEN 1 ELSE 0) + Count(ActiveLeft', p) + Count(q'["INACTIVE"], p)
               + Count(q'["DELAY0"], p) + Count(future_q', p)
               = (IF cur = p THEN 1 ELSE 0) + Count(ActiveLeft, p) + Count(q["INACTIVE"], p)
                 + Count(q["DELAY0"], p) + Count(future_q, p)
    <3>1. /\ Count(ActiveLeft, p) \in Nat /\ Count(q["INACTIVE"], p) \in Nat /\ Count(q["DELAY0"], p) \in Nat
          /\ Count(future_q, p) \in Nat
      BY TermsNat DEF Shape
    <3>2. /\ Count(future_q', p) = Count(future_q, p) - (IF e = p THEN 1 ELSE 0)
          /\ Count(ActiveLeft', p) = Count(ActiveLeft, p) + (IF e = p THEN 1 ELSE 0)
          /\ q'["INACTIVE"] = q["INACTIVE"] /\ q'["DELAY0"] = q["DELAY0"] /\ cur' = cur
      BY <1>0, <1>2, <1>6
    <3> QED
      BY <3>1, <3>2
  <2> QED
    BY <1>0, <2>1, MovedQueued
<1>8. ToSet(ActiveLeft) \subseteq ToSet(ActiveLeft')
  <2>1. CASE e \in Procs
    <3>1. e \in Procs \cup Lpms /\ ActiveLeft' = Append(ActiveLeft, e)
      BY <1>4, <2>1
    <3> QED
      BY <1>5, <3>1, CountAppend
  <2> QED
    BY <1>4, <2>1
<1>9. FlagOK'
  <2>1. flags' \cap Nbs = ToSet(NbLeft') /\ \A m \in Nbs : Count(NbLeft', m) <= 1
    <3>1. CASE e \in Procs
      BY <1>4, <3>1 DEF FlagOK, BitMeansQueued
    <3>2. CASE e \notin Procs
      BY <1>4, <1>5, <3>2, NbBit
    <3> QED
      BY <3>1, <3>2
  <2>2. flags' \cap Lpms = flags \cap Lpms
    BY <1>4, Names
  <2> QED
    BY <1>0, <1>8, <2>1, <2>2, FlagIs DEF FlagOK, BitMeansQueued
<1> QED
  BY <1>7, <1>9

\* A delayed LPM is released.
LEMMA ReleaseLpmMoves == ASSUME Shape, PlaceOK, FlagOK, ReleaseLpm PROVE Kept /\ PlaceOK' /\ FlagOK'
<1>0. /\ stage = "dlpm" /\ cur = None /\ UNCHANGED <<future_q, waiters, flags, mflags, stage, i, active_head, cur>>
      /\ \A m \in {"INACTIVE", "DELAY0", "MONITOR", "NBASSIGN"} : q'[m] = q[m] /\ q["ACTIVE"] \in Seq(Procs \cup Lpms)
  BY ReleaseLpmIs DEF Shape, QueueOK
<1>1. PICK l \in Lpms : q'["ACTIVE"] = Append(q["ACTIVE"], l)
  BY ReleaseLpmIs
<1>2. ActiveLeft = q["ACTIVE"] /\ ActiveLeft' = q'["ACTIVE"] /\ NbLeft' = NbLeft
  BY <1>0, LeftIs
<1>3. /\ ToSet(ActiveLeft) \subseteq ToSet(ActiveLeft')
      /\ \A t : Count(ActiveLeft', t) = Count(ActiveLeft, t) + (IF l = t THEN 1 ELSE 0)
  <2>1. q["ACTIVE"] \in Seq(Procs \cup Lpms)
    BY DEF Shape, QueueOK
  <2> QED
    BY <1>1, <1>2, <2>1, CountAppend
<1>4. \A p \in Procs : Count(ActiveLeft', p) = Count(ActiveLeft, p)
  <2>1. \A p \in Procs : Count(ActiveLeft, p) \in Nat
    BY TermsNat DEF Shape
  <2>2. \A p \in Procs : p # l
    BY Names
  <2> QED
    BY <1>3, <2>1, <2>2
<1>5. Kept /\ PlaceOK'
  BY <1>0, <1>4, MovedQueued
<1>6. FlagOK'
  BY <1>0, <1>2, <1>3, FlagIs DEF FlagOK, BitMeansQueued
<1> QED
  BY <1>5, <1>6

\* A change moves the waiting processes to the inactive queue.
LEMMA ChangedMoves ==
  ASSUME Shape, PlaceOK, NEW s \in Signals, NEW c, Changed(s, c)
  PROVE  /\ \A p \in Procs :
              /\ Count(q'["INACTIVE"], p) + Cardinality(Waits(p)') = Count(q["INACTIVE"], p) + Cardinality(Waits(p))
              /\ Count(q'["INACTIVE"], p) \in Nat /\ Cardinality(Waits(p)') \in Nat
              /\ \A u \in Signals : Count(waiters'[u], p) <= 1
         /\ flags' \cap Nbs = (flags \ c) \cap Nbs /\ ToSet(q["INACTIVE"]) \subseteq ToSet(q'["INACTIVE"])
         /\ \A l \in flags' \cap Lpms : l \in flags \ c \/ l \in ToSet(q'["INACTIVE"])
<1>1. PICK wake \in Seq(Lpms) :
        /\ q'["INACTIVE"] = q["INACTIVE"] \o (waiters[s] \o wake) /\ flags' = (flags \ c) \cup ToSet(wake)
  BY ChangedIs, ZenonT(60)
<1>2. /\ waiters[s] \in Seq(Procs) /\ waiters' = [waiters EXCEPT ![s] = <<>>] /\ waiters \in [Signals -> Seq(Procs)]
      /\ q["INACTIVE"] \in Seq(Procs \cup Lpms)
  BY ChangedIs DEF Shape, TypeOK, QueueOK
<1>3. waiters[s] \in Seq(Procs \cup Lpms) /\ wake \in Seq(Procs \cup Lpms)
  BY <1>1, <1>2
<1>4. /\ waiters[s] \o wake \in Seq(Procs \cup Lpms) /\ ToSet(waiters[s] \o wake) = ToSet(waiters[s]) \cup ToSet(wake)
      /\ \A t : Count(waiters[s] \o wake, t) = Count(waiters[s], t) + Count(wake, t)
  BY <1>3, CountConcat
<1>5. /\ ToSet(q'["INACTIVE"]) = ToSet(q["INACTIVE"]) \cup ToSet(waiters[s] \o wake)
      /\ \A t : Count(q'["INACTIVE"], t) = Count(q["INACTIVE"], t) + Count(waiters[s] \o wake, t)
  <2> DEFINE w == waiters[s] \o wake
             a == q["INACTIVE"]
  <2>1. w \in Seq(Procs \cup Lpms) /\ a \in Seq(Procs \cup Lpms) /\ q'["INACTIVE"] = a \o w
    BY <1>1, <1>2, <1>4
  <2> HIDE DEF w, a
  <2>2. ToSet(a \o w) = ToSet(a) \cup ToSet(w) /\ \A t : Count(a \o w, t) = Count(a, t) + Count(w, t)
    BY <2>1, CountConcat
  <2> QED
    BY <2>1, <2>2 DEF w, a
<1>6. ASSUME NEW p \in Procs
      PROVE  /\ Count(q'["INACTIVE"], p) + Cardinality(Waits(p)') = Count(q["INACTIVE"], p) + Cardinality(Waits(p))
             /\ Count(q'["INACTIVE"], p) \in Nat /\ Cardinality(Waits(p)') \in Nat
             /\ \A u \in Signals : Count(waiters'[u], p) <= 1
  <2>1. Count(wake, p) = 0
    BY <1>1, CountOther, Names
  <2>2. Count(waiters[s], p) \in Nat /\ Count(q["INACTIVE"], p) \in Nat /\ IsFiniteSet(Waits(p)) /\ Cardinality(Waits(p)) \in Nat
    BY TermsNat DEF Shape
  <2>3. Count(q'["INACTIVE"], p) = Count(q["INACTIVE"], p) + Count(waiters[s], p)
    BY <1>4, <1>5, <2>1, <2>2
  <2>4. Count(waiters[s], p) <= 1 /\ \A u \in Signals : Count(waiters[u], p) <= 1
    BY DEF PlaceOK
  <2>5. p \in ToSet(waiters[s]) <=> Count(waiters[s], p) > 0
    BY <1>2, CountIn
  <2>6. Waits(p)' = Waits(p) \ {s}
    <3>1. ToSet(waiters'[s]) = {}
      BY <1>2, CountEmpty
    <3>2. \A u \in Signals : u # s => waiters'[u] = waiters[u]
      BY <1>2
    <3> QED
      BY <3>1, <3>2 DEF Waits
  <2>7. \A u \in Signals : Count(waiters'[u], p) <= 1
    <3> SUFFICES ASSUME NEW u \in Signals PROVE Count(waiters'[u], p) <= 1
      OBVIOUS
    <3>1. CASE u = s
      <4>1. waiters'[u] = <<>>
        BY <1>2, <3>1
      <4>2. Count(waiters'[u], p) = 0
        BY <4>1, CountEmpty
      <4> QED
        BY <4>2
    <3>2. CASE u # s
      BY <1>2, <2>4, <3>2
    <3> QED
      BY <3>1, <3>2
  <2>8. CASE p \in ToSet(waiters[s])
    <3>1. s \in Waits(p)
      BY <2>8 DEF Waits
    <3>2. Cardinality(Waits(p) \ {s}) = Cardinality(Waits(p)) - 1 /\ IsFiniteSet(Waits(p) \ {s})
      BY <2>2, <3>1, FS_RemoveElement, Zenon
    <3>3. Cardinality(Waits(p) \ {s}) \in Nat
      BY <3>2, FS_CardinalityType, Zenon
    <3>4. Count(waiters[s], p) = 1 /\ Cardinality(Waits(p)') = Cardinality(Waits(p)) - 1
      BY <2>2, <2>4, <2>5, <2>6, <2>8, <3>2
    <3>5. /\ Count(q'["INACTIVE"], p) + Cardinality(Waits(p)') = Count(q["INACTIVE"], p) + Cardinality(Waits(p))
          /\ Count(q'["INACTIVE"], p) \in Nat
      BY <2>2, <2>3, <3>4
    <3> QED
      BY <2>6, <2>7, <3>3, <3>5
  <2>9. CASE p \notin ToSet(waiters[s])
    <3>1. Waits(p) \ {s} = Waits(p)
      BY <2>9 DEF Waits
    <3>2. Count(waiters[s], p) = 0 /\ Waits(p)' = Waits(p)
      BY <2>2, <2>5, <2>6, <2>9, <3>1
    <3>3. Count(q'["INACTIVE"], p) = Count(q["INACTIVE"], p)
      BY <2>2, <2>3, <3>2
    <3> QED
      BY <2>2, <2>7, <3>2, <3>3, Zenon
  <2> QED
    BY <2>8, <2>9
<1>7. flags' \cap Nbs = (flags \ c) \cap Nbs
  BY <1>1, SetType, Names
<1> QED
  BY <1>1, <1>4, <1>5, <1>6, <1>7

\* A step that changes a signal, of a thread or of stage 2.
LEMMA ChangePlaces ==
  ASSUME Shape, PlaceOK, NEW s \in Signals, NEW c, Changed(s, c), ActiveLeft' = ActiveLeft,
         UNCHANGED future_q, cur' = cur \/ (cur \notin Procs /\ cur' \notin Procs)
  PROVE  Kept /\ PlaceOK'
<1>0. q'["DELAY0"] = q["DELAY0"]
  BY ChangedIs DEF QNames
<1>1. ASSUME NEW p \in Procs PROVE Places(p)' = Places(p)
  <2>1. /\ Count(q'["INACTIVE"], p) + Cardinality(Waits(p)') = Count(q["INACTIVE"], p) + Cardinality(Waits(p))
        /\ Count(q'["INACTIVE"], p) \in Nat /\ Cardinality(Waits(p)') \in Nat
    BY ChangedMoves
  <2>2. /\ Count(ActiveLeft, p) \in Nat /\ Count(q["INACTIVE"], p) \in Nat /\ Count(q["DELAY0"], p) \in Nat
        /\ Count(future_q, p) \in Nat /\ Cardinality(Waits(p)) \in Nat
    BY TermsNat DEF Shape
  <2> DEFINE k == IF cur = p THEN 1 ELSE 0
  <2>3. k \in Nat /\ k = IF cur' = p THEN 1 ELSE 0
    OBVIOUS
  <2>4. /\ Places(p) = k + Count(ActiveLeft, p) + Count(q["INACTIVE"], p)
                        + Count(q["DELAY0"], p) + Count(future_q, p) + Cardinality(Waits(p))
        /\ Places(p)' = (IF cur' = p THEN 1 ELSE 0) + Count(ActiveLeft', p) + Count(q'["INACTIVE"], p)
                        + Count(q'["DELAY0"], p) + Count(future_q', p) + Cardinality(Waits(p)')
    BY PlacesIs
  <2>5. Places(p)' = k + Count(ActiveLeft, p) + Count(q'["INACTIVE"], p)
                        + Count(q["DELAY0"], p) + Count(future_q, p) + Cardinality(Waits(p)')
    BY <1>0, <2>3, <2>4
  <2> HIDE DEF k
  <2> QED
    BY <2>1, <2>2, <2>3, <2>4, <2>5
<1>2. Kept
  BY <1>1 DEF Kept
<1>3. \A p \in Procs, u \in Signals : Count(waiters'[u], p) <= 1
  BY ChangedMoves
<1> QED
  BY <1>2, <1>3, Moved

\* While a thread runs no assignment of stage 2 has been taken.
LEMMA ThreadLeft ==
  ASSUME Shape, cur # None, UNCHANGED <<stage, i, active_head>>, q'["ACTIVE"] = q["ACTIVE"]
  PROVE  ActiveLeft' = ActiveLeft /\ NbLeft = q["NBASSIGN"] /\ NbLeft' = q'["NBASSIGN"]
<1>1. stage # "nb"
  BY DEF Shape, StageOK
<1> QED
  BY <1>1, LeftIs

\* A blocking assignment.
LEMMA AssignStmtMoves ==
  ASSUME Shape, PlaceOK, FlagOK, NEW s \in Signals, AssignStmt(s) PROVE Kept /\ PlaceOK' /\ FlagOK'
<1>1. cur # None /\ UNCHANGED <<stage, i, active_head, future_q, mflags, cur>> /\ Changed(s, {})
  BY Names DEF AssignStmt, ctl
<1>2. q'["ACTIVE"] = q["ACTIVE"] /\ q'["NBASSIGN"] = q["NBASSIGN"] /\ q'["MONITOR"] = q["MONITOR"]
  BY <1>1, ChangedIs DEF QNames
<1>3. ActiveLeft' = ActiveLeft /\ NbLeft' = NbLeft
  BY <1>1, <1>2, ThreadLeft
<1>4. Kept /\ PlaceOK'
  BY <1>1, <1>3, ChangePlaces
<1>5. /\ flags' \cap Nbs = (flags \ {}) \cap Nbs /\ ToSet(q["INACTIVE"]) \subseteq ToSet(q'["INACTIVE"])
      /\ \A l \in flags' \cap Lpms : l \in flags \ {} \/ l \in ToSet(q'["INACTIVE"])
  BY <1>1, ChangedMoves
<1>6. FlagOK'
  BY <1>1, <1>2, <1>3, <1>5, FlagIs DEF FlagOK, BitMeansQueued
<1> QED
  BY <1>4, <1>6

\* An LPM drives its output: its bit is cleared with the run it stood for.
LEMMA LpmDrivesMoves == ASSUME Shape, PlaceOK, FlagOK, LpmDrives PROVE Kept /\ PlaceOK' /\ FlagOK'
<1>1. /\ cur # None /\ UNCHANGED <<stage, i, active_head, future_q, mflags>> /\ cur \in Lpms /\ cur \notin Procs
      /\ cur' = None /\ cur' \notin Procs /\ cur \in Signals /\ cur \notin Nbs
  BY Names DEF LpmDrives, ctl, Signals
<1>2. CASE Changed(cur, {cur})
  <2>2. q'["ACTIVE"] = q["ACTIVE"] /\ q'["NBASSIGN"] = q["NBASSIGN"] /\ q'["MONITOR"] = q["MONITOR"]
    BY <1>1, <1>2, ChangedIs DEF QNames
  <2>3. ActiveLeft' = ActiveLeft /\ NbLeft' = NbLeft
    BY <1>1, <2>2, ThreadLeft
  <2>4. Kept /\ PlaceOK'
    BY <1>1, <1>2, <2>3, ChangePlaces
  <2>5. /\ flags' \cap Nbs = (flags \ {cur}) \cap Nbs /\ ToSet(q["INACTIVE"]) \subseteq ToSet(q'["INACTIVE"])
        /\ \A l \in flags' \cap Lpms : l \in flags \ {cur} \/ l \in ToSet(q'["INACTIVE"])
    BY <1>1, <1>2, ChangedMoves
  <2>6. flags' \cap Nbs = flags \cap Nbs
    BY <1>1, <2>5
  <2>7. \A l \in flags' \cap Lpms : l \in ToSet(ActiveLeft') \cup ToSet(q'["INACTIVE"])
    BY <2>3, <2>5 DEF FlagOK, BitMeansQueued
  <2>8. FlagOK'
    BY <1>1, <2>2, <2>3, <2>6, <2>7, FlagIs DEF FlagOK, BitMeansQueued
  <2> QED
    BY <2>4, <2>8
<1>3. CASE flags' = flags \ {cur} /\ UNCHANGED <<event_flag, static_table, q, waiters, fuel>>
  <2>1. ActiveLeft' = ActiveLeft /\ NbLeft' = NbLeft
    BY <1>1, <1>3, ThreadLeft
  <2>2. Kept /\ PlaceOK'
    <3>1. \A p \in Procs : cur # p /\ cur' # p
      BY <1>1
    <3> QED
      BY <1>1, <1>3, <2>1, <3>1, MovedQueued
  <2>3. flags' \cap Nbs = flags \cap Nbs
    BY <1>1, <1>3
  <2>4. \A l \in flags' \cap Lpms : l \in ToSet(ActiveLeft) \cup ToSet(q["INACTIVE"])
    BY <1>3 DEF FlagOK, BitMeansQueued
  <2>5. FlagOK'
    BY <1>1, <1>3, <2>1, <2>3, <2>4, FlagIs DEF FlagOK, BitMeansQueued
  <2> QED
    BY <2>2, <2>5
<1> QED
  BY <1>2, <1>3 DEF LpmDrives

\* A nonblocking assignment is applied: its bit is cleared with its entry.
LEMMA RunNbMoves == ASSUME Shape, PlaceOK, FlagOK, RunNb PROVE Kept /\ PlaceOK' /\ FlagOK'
<1> DEFINE n == q["NBASSIGN"][i + 1]
<1>1. /\ stage = "nb" /\ i \in Nat /\ i < Len(q["NBASSIGN"]) /\ i' = i + 1 /\ q["NBASSIGN"] \in Seq(Nbs)
      /\ cur = None /\ UNCHANGED <<future_q, mflags, active_head, stage, cur>>
      /\ Changed(n, {n}) \/ (flags' = flags \ {n} /\ UNCHANGED <<event_flag, static_table, q, waiters>>)
  BY DEF Shape, TypeOK, QueueOK, StageOK, RunNb
<1>2. n \in Nbs /\ n \in Signals /\ n \notin Lpms
  BY <1>1, Names DEF Signals
<1>3. \/ Changed(n, {n}) /\ \A m \in QNames \ {"INACTIVE"} : q'[m] = q[m]
      \/ flags' = flags \ {n} /\ UNCHANGED <<q, waiters>>
  BY <1>1, <1>2, ChangedIs
<1>4. q'["NBASSIGN"] = q["NBASSIGN"] /\ q'["ACTIVE"] = q["ACTIVE"] /\ q'["MONITOR"] = q["MONITOR"]
  BY <1>3 DEF QNames
<1>5. (i + 1) + 1 = i + 2
  BY <1>1
<1>6. /\ NbLeft = SubSeq(q["NBASSIGN"], i + 1, Len(q["NBASSIGN"])) /\ ActiveLeft' = ActiveLeft
      /\ NbLeft' = SubSeq(q["NBASSIGN"], i + 2, Len(q["NBASSIGN"]))
  BY <1>1, <1>4, <1>5, LeftIs
<1>7. /\ ToSet(NbLeft) = {n} \cup ToSet(NbLeft') /\ NbLeft' \in Seq(Nbs)
      /\ \A t : Count(NbLeft, t) = (IF n = t THEN 1 ELSE 0) + Count(NbLeft', t)
  BY <1>1, <1>6, CountSub
<1> HIDE DEF n
<1>8. \A t : Count(NbLeft', t) \in Nat
  BY <1>7, CountNat
<1>9. flags \cap Nbs = ToSet(NbLeft) /\ \A m \in Nbs : Count(NbLeft, m) <= 1
  BY DEF FlagOK, BitMeansQueued
<1>10. \A m \in Nbs : Count(NbLeft', m) <= 1
  BY <1>7, <1>8, <1>9
<1>11. n \notin ToSet(NbLeft')
  <2>1. Count(NbLeft', n) = 0
    BY <1>2, <1>7, <1>8, <1>9
  <2>2. n \in ToSet(NbLeft') <=> Count(NbLeft', n) > 0
    BY <1>7, CountIn
  <2> QED
    BY <2>1, <2>2
<1>12. (flags \ {n}) \cap Nbs = ToSet(NbLeft')
  BY <1>7, <1>9, <1>11
<1>13. Kept /\ PlaceOK'
  <2>1. CASE Changed(n, {n})
    BY <1>1, <1>2, <1>6, <2>1, ChangePlaces
  <2>2. CASE UNCHANGED <<q, waiters>>
    BY <1>1, <1>6, <2>2, MovedQueued
  <2> QED
    BY <1>3, <2>1, <2>2
<1>14. flags' \cap Nbs = ToSet(NbLeft') /\ \A l \in flags' \cap Lpms :
          l \in {cur'} \cup ToSet(ActiveLeft') \cup ToSet(q'["INACTIVE"])
  <2>1. CASE Changed(n, {n})
    <3>1. /\ flags' \cap Nbs = (flags \ {n}) \cap Nbs /\ ToSet(q["INACTIVE"]) \subseteq ToSet(q'["INACTIVE"])
          /\ \A l \in flags' \cap Lpms : l \in flags \ {n} \/ l \in ToSet(q'["INACTIVE"])
      BY <1>2, <2>1, ChangedMoves
    <3> QED
      BY <1>1, <1>6, <1>12, <3>1 DEF FlagOK, BitMeansQueued
  <2>2. CASE flags' = flags \ {n} /\ UNCHANGED <<q, waiters>>
    BY <1>1, <1>6, <1>12, <2>2 DEF FlagOK, BitMeansQueued
  <2> QED
    BY <1>3, <2>1, <2>2
<1>15. FlagOK'
  BY <1>1, <1>4, <1>10, <1>14, FlagIs DEF FlagOK, BitMeansQueued
<1> QED
  BY <1>13, <1>15

\* A thread makes a nonblocking assignment without delay.
LEMMA NbMoves ==
  ASSUME Shape, PlaceOK, FlagOK, NEW n \in Nbs, cur # None, pint_enqueue_nb_thread_by_idx(n),
         UNCHANGED <<stage, i, active_head, cur, future_q, waiters, mflags>>
  PROVE  Kept /\ PlaceOK' /\ FlagOK'
<1>0. TypeOK /\ QueueOK /\ StageOK
  BY DEF Shape
<1>1. /\ flags' = flags \cup {n}
      /\ q'["NBASSIGN"] = IF n \in flags THEN q["NBASSIGN"] ELSE Append(q["NBASSIGN"], n)
      /\ \A m \in {"ACTIVE", "INACTIVE", "DELAY0", "MONITOR"} : q'[m] = q[m]
  BY <1>0, NbEnqueued
<1>2. ActiveLeft' = ActiveLeft /\ NbLeft = q["NBASSIGN"] /\ NbLeft' = q'["NBASSIGN"]
  BY <1>1, ThreadLeft
<1>3. NbLeft \in Seq(Nbs)
  BY <1>0, LeftType
<1>4. flags' \cap Nbs = ToSet(NbLeft') /\ \A m \in Nbs : Count(NbLeft', m) <= 1
  BY <1>1, <1>2, <1>3, NbBit
<1>5. flags' \cap Lpms = flags \cap Lpms
  BY <1>1, Names
<1>6. Kept /\ PlaceOK'
  BY <1>1, <1>2, MovedQueued
<1>7. FlagOK'
  BY <1>1, <1>2, <1>4, <1>5, FlagIs DEF FlagOK, BitMeansQueued
<1> QED
  BY <1>6, <1>7

\* n <= expression.
LEMMA NbAssignStmtMoves ==
  ASSUME Shape, PlaceOK, FlagOK, NEW n \in Nbs, NbAssignStmt(n) PROVE Kept /\ PlaceOK' /\ FlagOK'
<1>1. /\ cur # None /\ pint_enqueue_nb_thread_by_idx(n)
      /\ UNCHANGED <<stage, i, active_head, cur, future_q, waiters, mflags>>
  BY Names DEF NbAssignStmt, ctl
<1> QED
  BY <1>1, NbMoves

\* n <= #d expression.
LEMMA NbFutureStmtMoves ==
  ASSUME Shape, PlaceOK, FlagOK, NEW n \in Nbs, NEW d \in Delays, NbFutureStmt(n, d)
  PROVE  Kept /\ PlaceOK' /\ FlagOK'
<1>1. cur # None /\ UNCHANGED <<stage, i, active_head, cur, waiters, mflags>>
  BY Names DEF NbFutureStmt, ctl
<1>2. CASE pint_enqueue_thread_future(n, T + d) /\ UNCHANGED <<q, flags>>
  <2>1. future_q' = Append(future_q, n) /\ future_q \in Seq(FutureStructs) /\ n \in FutureStructs
    BY <1>2 DEF pint_enqueue_thread_future, Shape, TypeOK, FutureStructs
  <2>2. \A t : Count(future_q', t) = Count(future_q, t) + (IF n = t THEN 1 ELSE 0)
    BY <2>1, CountAppend
  <2>3. \A t : Count(future_q, t) \in Nat
    BY <2>1, CountNat
  <2>4. \A p \in Procs : Count(future_q', p) = Count(future_q, p)
    <3>1. \A p \in Procs : n # p
      BY Names
    <3> QED
      BY <2>2, <2>3, <3>1
  <2>5. ActiveLeft' = ActiveLeft /\ NbLeft' = NbLeft
    BY <1>1, <1>2, ThreadLeft
  <2>6. Kept /\ PlaceOK'
    BY <1>1, <1>2, <2>4, <2>5, MovedQueued
  <2>7. FlagOK'
    BY <1>1, <1>2, <2>5, FlagIs DEF FlagOK, BitMeansQueued
  <2> QED
    BY <2>6, <2>7
<1>3. CASE pint_enqueue_nb_thread_by_idx(n) /\ UNCHANGED <<future_T, future_q>>
  BY <1>1, <1>3, NbMoves
<1> QED
  BY <1>2, <1>3 DEF NbFutureStmt, pint_enqueue_nb_future

\* $strobe: the bit is set with the entry it stands for.
LEMMA StrobeStmtMoves ==
  ASSUME Shape, PlaceOK, FlagOK, NEW m \in Strobes, StrobeStmt(m) PROVE Kept /\ PlaceOK' /\ FlagOK'
<1>1. /\ cur # None /\ UNCHANGED <<stage, i, active_head, cur, waiters, flags, future_q>>
      /\ mflags' = mflags \cup {m} /\ q' = IF m \in mflags THEN q ELSE pint_enqueue_thread(q, "MONITOR", m)
  BY Names DEF StrobeStmt, ctl
<1>2. /\ \A k \in {"ACTIVE", "INACTIVE", "NBASSIGN", "DELAY0"} : q'[k] = q[k]
      /\ q'["MONITOR"] = IF m \in mflags THEN q["MONITOR"] ELSE Append(q["MONITOR"], m)
  <2>1. CASE m \in mflags
    BY <1>1, <2>1
  <2>2. CASE m \notin mflags
    <3>1. "MONITOR" \in QNames /\ QueueOK /\ q' = pint_enqueue_thread(q, "MONITOR", m)
      BY <1>1, <2>2 DEF QNames, Shape
    <3>2. q'["MONITOR"] = Append(q["MONITOR"], m) /\ \A k \in QNames \ {"MONITOR"} : q'[k] = q[k]
      BY <3>1, EnqueuedOK
    <3> QED
      BY <2>2, <3>2 DEF QNames
  <2> QED
    BY <2>1, <2>2
<1>3. ActiveLeft' = ActiveLeft /\ NbLeft' = NbLeft
  BY <1>1, <1>2, ThreadLeft
<1>4. Kept /\ PlaceOK'
  BY <1>1, <1>2, <1>3, MovedQueued
<1>5. /\ mflags = ToSet(q["MONITOR"]) /\ \A k \in Strobes : Count(q["MONITOR"], k) <= 1
      /\ q["MONITOR"] \in Seq(Strobes)
  BY DEF FlagOK, BitMeansQueued, Shape, QueueOK
<1>6. mflags' = ToSet(q'["MONITOR"]) /\ \A k \in Strobes : Count(q'["MONITOR"], k) <= 1
  <2>1. CASE m \in mflags
    BY <1>1, <1>2, <1>5, <2>1
  <2>2. CASE m \notin mflags
    <3>1. /\ ToSet(q'["MONITOR"]) = ToSet(q["MONITOR"]) \cup {m}
          /\ \A t : Count(q'["MONITOR"], t) = Count(q["MONITOR"], t) + (IF m = t THEN 1 ELSE 0)
      BY <1>2, <1>5, <2>2, CountAppend
    <3>2. \A t : Count(q["MONITOR"], t) \in Nat
      BY <1>5, CountNat
    <3>3. m \in ToSet(q["MONITOR"]) <=> Count(q["MONITOR"], m) > 0
      BY <1>5, CountIn
    <3>4. Count(q["MONITOR"], m) = 0
      BY <1>5, <2>2, <3>2, <3>3
    <3>5. \A k \in Strobes : Count(q'["MONITOR"], k) <= 1
      BY <1>5, <3>1, <3>2, <3>4
    <3> QED
      BY <1>1, <1>5, <3>1, <3>5
  <2> QED
    BY <2>1, <2>2
<1>7. FlagOK'
  BY <1>1, <1>2, <1>3, <1>6, FlagIs DEF FlagOK, BitMeansQueued
<1> QED
  BY <1>4, <1>7

\* A process is not an LPM, so its bits are not about it.
LEMMA ProcSuspends ==
  ASSUME FlagOK, cur \in Procs, ActiveLeft' = ActiveLeft, NbLeft' = NbLeft, UNCHANGED <<flags, mflags>>,
         q'["INACTIVE"] = q["INACTIVE"], q'["MONITOR"] = q["MONITOR"]
  PROVE  FlagOK'
<1>1. \A l \in flags \cap Lpms : l \in ToSet(ActiveLeft) \cup ToSet(q["INACTIVE"])
  BY Names DEF FlagOK, BitMeansQueued
<1> QED
  BY <1>1, FlagIs DEF FlagOK, BitMeansQueued

\* #d: the process moves to the future queue or to DELAY0_Q.
LEMMA DelayStmtMoves ==
  ASSUME Shape, PlaceOK, FlagOK, NEW d \in Delays, DelayStmt(d) PROVE Kept /\ PlaceOK' /\ FlagOK'
<1>1. /\ cur # None /\ cur \in Procs /\ cur' = None /\ UNCHANGED <<stage, i, active_head, waiters, flags, mflags>>
      /\ cur \in FutureStructs /\ \A p \in Procs : p # None
  BY Names DEF DelayStmt, ctl, FutureStructs
<1>2. CASE pint_enqueue_thread_future(cur, T + d) /\ UNCHANGED q
  <2>1. future_q' = Append(future_q, cur) /\ future_q \in Seq(FutureStructs)
    BY <1>2 DEF pint_enqueue_thread_future, Shape, TypeOK
  <2>2. \A t : Count(future_q', t) = Count(future_q, t) + (IF cur = t THEN 1 ELSE 0)
    BY <1>1, <2>1, CountAppend
  <2>3. ActiveLeft' = ActiveLeft /\ NbLeft' = NbLeft
    BY <1>1, <1>2, ThreadLeft
  <2>4. ASSUME NEW p \in Procs
        PROVE  (IF cur' = p THEN 1 ELSE 0) + Count(ActiveLeft', p) + Count(q'["INACTIVE"], p)
               + Count(q'["DELAY0"], p) + Count(future_q', p)
               = (IF cur = p THEN 1 ELSE 0) + Count(ActiveLeft, p) + Count(q["INACTIVE"], p)
                 + Count(q["DELAY0"], p) + Count(future_q, p)
    <3>1. /\ Count(ActiveLeft, p) \in Nat /\ Count(q["INACTIVE"], p) \in Nat /\ Count(q["DELAY0"], p) \in Nat
          /\ Count(future_q, p) \in Nat
      BY TermsNat DEF Shape
    <3>2. cur' # p /\ Count(future_q', p) = Count(future_q, p) + (IF cur = p THEN 1 ELSE 0)
      BY <1>1, <2>2
    <3> QED
      BY <1>2, <2>3, <3>1, <3>2
  <2>5. Kept /\ PlaceOK'
    BY <1>1, <2>4, MovedQueued
  <2> QED
    BY <1>1, <1>2, <2>3, <2>5, ProcSuspends
<1>3. CASE q' = pint_enqueue_thread(q, "DELAY0", cur) /\ UNCHANGED <<future_T, future_q>>
  <2>1. /\ q'["DELAY0"] = Append(q["DELAY0"], cur) /\ q["DELAY0"] \in Seq(Procs)
        /\ \A k \in {"ACTIVE", "INACTIVE", "NBASSIGN", "MONITOR"} : q'[k] = q[k]
    <3>1. "DELAY0" \in QNames /\ QueueOK
      BY DEF QNames, Shape
    <3>2. q'["DELAY0"] = Append(q["DELAY0"], cur) /\ \A k \in QNames \ {"DELAY0"} : q'[k] = q[k]
      BY <1>1, <1>3, <3>1, EnqueuedOK
    <3> QED
      BY <3>1, <3>2 DEF QNames, QueueOK
  <2>2. \A t : Count(q'["DELAY0"], t) = Count(q["DELAY0"], t) + (IF cur = t THEN 1 ELSE 0)
    BY <1>1, <2>1, CountAppend
  <2>3. ActiveLeft' = ActiveLeft /\ NbLeft' = NbLeft
    BY <1>1, <2>1, ThreadLeft
  <2>4. ASSUME NEW p \in Procs
        PROVE  (IF cur' = p THEN 1 ELSE 0) + Count(ActiveLeft', p) + Count(q'["INACTIVE"], p)
               + Count(q'["DELAY0"], p) + Count(future_q', p)
               = (IF cur = p THEN 1 ELSE 0) + Count(ActiveLeft, p) + Count(q["INACTIVE"], p)
                 + Count(q["DELAY0"], p) + Count(future_q, p)
    <3>1. /\ Count(ActiveLeft, p) \in Nat /\ Count(q["INACTIVE"], p) \in Nat /\ Count(q["DELAY0"], p) \in Nat
          /\ Count(future_q, p) \in Nat
      BY TermsNat DEF Shape
    <3>2. /\ cur' # p /\ Count(q'["DELAY0"], p) = Count(q["DELAY0"], p) + (IF cur = p THEN 1 ELSE 0)
          /\ q'["INACTIVE"] = q["INACTIVE"]
      BY <1>1, <2>1, <2>2
    <3> QED
      BY <1>3, <2>3, <3>1, <3>2
  <2>5. Kept /\ PlaceOK'
    BY <1>1, <2>4, MovedQueued
  <2> QED
    BY <1>1, <1>3, <2>1, <2>3, <2>5, ProcSuspends
<1> QED
  BY <1>2, <1>3 DEF DelayStmt

\* The end of a process, or of a run of a static thread.
LEMMA ThreadReturnsMoves == ASSUME Shape, PlaceOK, FlagOK, ThreadReturns PROVE Kept /\ PlaceOK' /\ FlagOK'
<1>1. /\ cur # None /\ cur' = None /\ UNCHANGED <<q, future_q, stage, i, active_head, waiters, flags, mflags>>
      /\ cur \in Procs \cup Statics /\ None \notin Procs \cup Lpms
  BY Names DEF ThreadReturns, queues, data, ctl
<1>2. ActiveLeft' = ActiveLeft /\ NbLeft' = NbLeft
  BY <1>1, ThreadLeft
<1>3. CASE cur \in Statics
  <2>1. cur \notin Procs \cup Lpms
    BY <1>3, Names
  <2> QED
    BY <1>1, <1>2, <2>1, StillStatic
<1>4. CASE cur \in Procs
  <2>1. ASSUME NEW p \in Procs PROVE Places(p)' = Places(p) \/ (cur = p /\ Places(p)' = 0)
    <3>1. /\ Count(ActiveLeft, p) \in Nat /\ Count(q["INACTIVE"], p) \in Nat /\ Count(q["DELAY0"], p) \in Nat
          /\ Count(future_q, p) \in Nat /\ Cardinality(Waits(p)) \in Nat
      BY TermsNat DEF Shape
    <3>2. cur' # p /\ Waits(p)' = Waits(p) /\ Places(p) <= 1
      BY <1>1, WaitsSame DEF PlaceOK
    <3>3. /\ Places(p) = (IF cur = p THEN 1 ELSE 0) + Count(ActiveLeft, p) + Count(q["INACTIVE"], p)
                        + Count(q["DELAY0"], p) + Count(future_q, p) + Cardinality(Waits(p))
          /\ Places(p)' = 0 + Count(ActiveLeft, p) + Count(q["INACTIVE"], p)
                        + Count(q["DELAY0"], p) + Count(future_q, p) + Cardinality(Waits(p))
      BY <1>1, <1>2, <3>2, PlacesIs
    <3> QED
      BY <3>1, <3>2, <3>3
  <2>2. Kept
    BY <2>1 DEF Kept
  <2>3. PlaceOK'
    BY <1>1, <2>2, Moved, WaitsSame
  <2> QED
    BY <1>1, <1>2, <1>4, <2>2, <2>3, ProcSuspends
<1> QED
  BY <1>1, <1>3, <1>4

\* An LPM waits for its delay: its bit is cleared with the run it stood for.
LEMMA LpmWaitsMoves ==
  ASSUME Shape, PlaceOK, FlagOK, NEW d \in Delays, LpmWaits(d) PROVE Kept /\ PlaceOK' /\ FlagOK'
<1>1. /\ cur # None /\ cur \in Lpms /\ cur' = None /\ UNCHANGED <<stage, i, active_head, waiters, mflags, future_q>>
      /\ flags' = flags \ {cur} /\ (q' = q \/ q' = pint_enqueue_thread(q, "INACTIVE", cur))
  BY Names DEF LpmWaits, ctl
<1>2. /\ \A k \in {"ACTIVE", "NBASSIGN", "DELAY0", "MONITOR"} : q'[k] = q[k]
      /\ q'["INACTIVE"] = q["INACTIVE"] \/ q'["INACTIVE"] = Append(q["INACTIVE"], cur)
  <2>1. CASE q' = q
    BY <2>1
  <2>2. CASE q' = pint_enqueue_thread(q, "INACTIVE", cur)
    <3>1. "INACTIVE" \in QNames /\ QueueOK
      BY DEF QNames, Shape
    <3>2. q'["INACTIVE"] = Append(q["INACTIVE"], cur) /\ \A k \in QNames \ {"INACTIVE"} : q'[k] = q[k]
      BY <1>1, <2>2, <3>1, EnqueuedOK
    <3> QED
      BY <3>2 DEF QNames
  <2> QED
    BY <1>1, <2>1, <2>2
<1>3. ActiveLeft' = ActiveLeft /\ NbLeft' = NbLeft
  BY <1>1, <1>2, ThreadLeft
<1>4. /\ \A p \in Procs : cur # p /\ cur' # p /\ Count(q'["INACTIVE"], p) = Count(q["INACTIVE"], p)
      /\ ToSet(q["INACTIVE"]) \subseteq ToSet(q'["INACTIVE"])
  <2>1. \A p \in Procs : cur # p /\ cur' # p
    BY <1>1, Names
  <2>2. CASE q'["INACTIVE"] = q["INACTIVE"]
    BY <2>1, <2>2
  <2>3. CASE q'["INACTIVE"] = Append(q["INACTIVE"], cur)
    <3>1. q["INACTIVE"] \in Seq(Procs \cup Lpms) /\ cur \in Procs \cup Lpms
      BY <1>1 DEF Shape, QueueOK
    <3>2. /\ ToSet(q'["INACTIVE"]) = ToSet(q["INACTIVE"]) \cup {cur}
          /\ \A t : Count(q'["INACTIVE"], t) = Count(q["INACTIVE"], t) + (IF cur = t THEN 1 ELSE 0)
      BY <2>3, <3>1, CountAppend
    <3>3. \A t : Count(q["INACTIVE"], t) \in Nat
      BY <3>1, CountNat
    <3>4. \A p \in Procs : Count(q'["INACTIVE"], p) = Count(q["INACTIVE"], p)
      BY <2>1, <3>2, <3>3
    <3> QED
      BY <2>1, <3>2, <3>4
  <2> QED
    BY <1>2, <2>2, <2>3
<1>5. Kept /\ PlaceOK'
  BY <1>1, <1>2, <1>3, <1>4, MovedQueued
<1>6. flags' \cap Nbs = flags \cap Nbs
  BY <1>1, Names
<1>7. \A l \in flags' \cap Lpms : l \in ToSet(ActiveLeft) \cup ToSet(q["INACTIVE"])
  BY <1>1 DEF FlagOK, BitMeansQueued
<1>8. FlagOK'
  BY <1>1, <1>2, <1>3, <1>4, <1>6, <1>7, FlagIs DEF FlagOK, BitMeansQueued
<1> QED
  BY <1>5, <1>8

\* @(s): the process, which is nowhere else, moves to the event's list.
LEMMA WaitStmtMoves ==
  ASSUME Shape, PlaceOK, FlagOK, NEW s \in Signals, WaitStmt(s) PROVE Kept /\ PlaceOK' /\ FlagOK'
<1>1. /\ cur # None /\ cur \in Procs /\ cur' = None /\ UNCHANGED <<q, future_q, stage, i, active_head, flags, mflags>>
      /\ waiters' = [waiters EXCEPT ![s] = Append(waiters[s], cur)] /\ waiters \in [Signals -> Seq(Procs)]
  BY Names DEF WaitStmt, pint_wait_on_event, data, ctl, Shape, TypeOK
<1>2. ActiveLeft' = ActiveLeft /\ NbLeft' = NbLeft
  BY <1>1, ThreadLeft
<1>3. \A u \in Signals : u # s => waiters'[u] = waiters[u]
  BY <1>1
<1>4. /\ waiters[s] \in Seq(Procs) /\ waiters'[s] = Append(waiters[s], cur)
      /\ ToSet(waiters'[s]) = ToSet(waiters[s]) \cup {cur}
      /\ \A t : Count(waiters'[s], t) = Count(waiters[s], t) + (IF cur = t THEN 1 ELSE 0)
  BY <1>1, CountAppend
<1>5. ASSUME NEW p \in Procs
      PROVE  Places(p)' = Places(p) /\ \A u \in Signals : Count(waiters'[u], p) <= 1
  <2>1. /\ Count(ActiveLeft, p) \in Nat /\ Count(q["INACTIVE"], p) \in Nat /\ Count(q["DELAY0"], p) \in Nat
        /\ Count(future_q, p) \in Nat /\ Cardinality(Waits(p)) \in Nat /\ IsFiniteSet(Waits(p))
        /\ Count(waiters[s], p) \in Nat
    BY TermsNat DEF Shape
  <2>2. cur' # p /\ Places(p) <= 1 /\ \A u \in Signals : Count(waiters[u], p) <= 1
    BY <1>1, Names DEF PlaceOK
  <2>3. /\ Places(p) = (IF cur = p THEN 1 ELSE 0) + Count(ActiveLeft, p) + Count(q["INACTIVE"], p)
                        + Count(q["DELAY0"], p) + Count(future_q, p) + Cardinality(Waits(p))
        /\ Places(p)' = 0 + Count(ActiveLeft, p) + Count(q["INACTIVE"], p)
                        + Count(q["DELAY0"], p) + Count(future_q, p) + Cardinality(Waits(p)')
    BY <1>1, <1>2, <2>2, PlacesIs
  <2>4. CASE cur = p
    <3>1. Cardinality(Waits(p)) = 0
      BY <2>1, <2>2, <2>3, <2>4
    <3>2. Waits(p) = {}
      BY <2>1, <3>1, FS_EmptySet, Zenon
    <3>3. Waits(p)' = {s}
      BY <1>3, <1>4, <2>4, <3>2 DEF Waits
    <3>4. Cardinality({s}) = 1
      BY FS_Singleton, Zenon
    <3>5. Places(p)' = Places(p)
      BY <2>1, <2>3, <2>4, <3>1, <3>3, <3>4
    <3>6. Count(waiters[s], p) = 0
      <4>1. p \in ToSet(waiters[s]) <=> Count(waiters[s], p) > 0
        BY <1>4, CountIn
      <4>2. p \notin ToSet(waiters[s])
        BY <3>2 DEF Waits
      <4> QED
        BY <2>1, <4>1, <4>2
    <3>7. Count(waiters'[s], p) = 1
      BY <1>4, <2>4, <3>6
    <3>8. \A u \in Signals : Count(waiters'[u], p) <= 1
      <4> SUFFICES ASSUME NEW u \in Signals PROVE Count(waiters'[u], p) <= 1
        OBVIOUS
      <4>1. CASE u = s
        BY <3>7, <4>1
      <4>2. CASE u # s
        BY <1>3, <2>2, <4>2
      <4> QED
        BY <4>1, <4>2
    <3> QED
      BY <3>5, <3>8
  <2>5. CASE cur # p
    <3>1. Waits(p)' = Waits(p)
      BY <1>3, <1>4, <2>5 DEF Waits
    <3>2. Count(waiters'[s], p) = Count(waiters[s], p)
      BY <1>4, <2>1, <2>5
    <3>3. \A u \in Signals : Count(waiters'[u], p) <= 1
      <4> SUFFICES ASSUME NEW u \in Signals PROVE Count(waiters'[u], p) <= 1
        OBVIOUS
      <4>1. CASE u = s
        BY <2>2, <3>2, <4>1
      <4>2. CASE u # s
        BY <1>3, <2>2, <4>2
      <4> QED
        BY <4>1, <4>2
    <3>4. Places(p)' = Places(p)
      BY <2>3, <2>5, <3>1
    <3> QED
      BY <3>3, <3>4
  <2> QED
    BY <2>4, <2>5
<1>6. Kept
  BY <1>5 DEF Kept
<1>7. PlaceOK'
  BY <1>5, <1>6, Moved
<1> QED
  BY <1>1, <1>2, <1>6, <1>7, ProcSuspends

\* Places and bits in every step.
LEMMA NextMoves == ASSUME Shape, PlaceOK, FlagOK, [Next]_vars PROVE Kept /\ PlaceOK' /\ FlagOK'
<1>1. CASE UNCHANGED vars
  <2>1. UNCHANGED <<q, future_q, waiters, flags, mflags, cur, stage, i, active_head>>
    BY <1>1 DEF vars, queues, data, ctl
  <2>2. ActiveLeft' = ActiveLeft /\ NbLeft' = NbLeft
    BY <2>1, LeftIs
  <2> QED
    BY <2>1, <2>2, Still
<1>2. CASE MainStep
  BY <1>2, RunActiveMoves, SwapActiveMoves, LeaveActiveMoves, RunStaticMoves, StaticDoneMoves, RunNbMoves,
     NbDoneMoves, RunDelay0Moves, StageMoves, RunMonitorMoves, ReleaseFutureMoves, ReleaseLpmMoves,
     ReleaseDoneMoves, Zenon DEF MainStep
<1>3. CASE ThreadStep
  BY <1>3, AssignStmtMoves, WaitStmtMoves, NbAssignStmtMoves, NbFutureStmtMoves, StrobeStmtMoves, DelayStmtMoves,
     LpmWaitsMoves, FinishStmtMoves, ThreadReturnsMoves, LpmDrivesMoves, Zenon DEF ThreadStep
<1> QED
  BY <1>1, <1>2, <1>3 DEF Next

\* The queues before the loop.
LEMMA InitQueues ==
  ASSUME Init
  PROVE  /\ q \in [QNames -> Seq(Threads \cup Nbs \cup Strobes)]
         /\ q["ACTIVE"] \in Seq(Procs \cup Lpms) /\ q["INACTIVE"] \in Seq(Procs \cup Lpms)
         /\ \A m \in {"NBASSIGN", "DELAY0", "MONITOR"} : q[m] = <<>>
         /\ active_head = Len(q["ACTIVE"]) /\ (active_head = 0 => q["INACTIVE"] = <<>>)
         /\ \A p \in Procs : Count(q["ACTIVE"], p) + Count(q["INACTIVE"], p) <= 1
<1>1. PICK ls \in SetToSeqs(Lpms), ps \in SetToSeqs(Procs) :
        /\ q = [[n \in QNames |-> <<>>] EXCEPT !["ACTIVE"] = IF ls = <<>> THEN ps ELSE ls,
                                               !["INACTIVE"] = IF ls = <<>> THEN <<>> ELSE ps]
        /\ active_head = IF ls = <<>> THEN Len(ps) ELSE Len(ls)
  BY DEF Init
<1>2. ls \in Seq(Lpms) /\ ps \in Seq(Procs) /\ \A t : Count(ps, t) <= 1
  BY NamesAssumption, Enumerates
<1>3. /\ ls \in Seq(Threads \cup Nbs \cup Strobes) /\ ps \in Seq(Threads \cup Nbs \cup Strobes)
      /\ ls \in Seq(Procs \cup Lpms) /\ ps \in Seq(Procs \cup Lpms)
  BY <1>2 DEF Threads
<1>4. \A p \in Procs : Count(ls, p) = 0
  BY <1>2, CountOther, Names
<1>5. \A t : Count(ps, t) \in Nat
  BY <1>2, CountNat
<1>6. \A m \in {"NBASSIGN", "DELAY0", "MONITOR"} : q[m] = <<>>
  BY <1>1 DEF QNames
<1>7. CASE ls = <<>>
  <2>1. q["ACTIVE"] = ps /\ q["INACTIVE"] = <<>> /\ active_head = Len(ps)
    BY <1>1, <1>7 DEF QNames
  <2>2. q \in [QNames -> Seq(Threads \cup Nbs \cup Strobes)]
    <3>1. <<>> \in Seq(Threads \cup Nbs \cup Strobes)
      OBVIOUS
    <3> QED
      BY <1>1, <1>3, <1>7, <3>1, Zenon
  <2>3. \A p \in Procs : Count(q["ACTIVE"], p) + Count(q["INACTIVE"], p) <= 1
    <3>1. \A p \in Procs : Count(q["INACTIVE"], p) = 0
      BY <2>1, CountEmpty
    <3> QED
      BY <1>2, <1>5, <2>1, <3>1
  <2> QED
    BY <1>3, <1>6, <2>1, <2>2, <2>3
<1>8. CASE ls # <<>>
  <2>1. q["ACTIVE"] = ls /\ q["INACTIVE"] = ps /\ active_head = Len(ls)
    BY <1>1, <1>8 DEF QNames
  <2>2. q \in [QNames -> Seq(Threads \cup Nbs \cup Strobes)]
    <3>1. <<>> \in Seq(Threads \cup Nbs \cup Strobes)
      OBVIOUS
    <3> QED
      BY <1>1, <1>3, <1>8, <3>1, Zenon
  <2>3. \A p \in Procs : Count(q["ACTIVE"], p) + Count(q["INACTIVE"], p) <= 1
    BY <1>2, <1>4, <1>5, <2>1
  <2>4. Len(ls) # 0
    BY <1>2, <1>8
  <2> QED
    BY <1>3, <1>6, <2>1, <2>2, <2>3, <2>4
<1> QED
  BY <1>7, <1>8

\* The invariant holds before the loop.
LEMMA InitOK == ASSUME Init PROVE MainInv
<1>0. /\ static_table = <<>> /\ future_q = <<>> /\ lpm_q = <<>> /\ waiters = [s \in Signals |-> <<>>]
      /\ future_T = [x \in FutureStructs |-> 0] /\ lpm_T = [l \in Lpms |-> 0] /\ lpm_state = [l \in Lpms |-> "WAIT"]
      /\ flags = {} /\ mflags = {} /\ event_flag = [s \in Statics |-> IF s \in Always THEN 85 ELSE 1]
      /\ T = 0 /\ pint_stop = FALSE /\ stage = "active" /\ i = 0 /\ j = 0 /\ cur = None /\ fuel = Fuel
  BY DEF Init
<1>1. TypeOK
  <2>1. active_head \in Nat
    BY InitQueues
  <2>2. static_table \in Seq(Seq(Statics)) /\ future_q \in Seq(FutureStructs) /\ lpm_q \in Seq(Lpms)
    BY <1>0
  <2>3. waiters \in [Signals -> Seq(Procs)]
    <3>1. <<>> \in Seq(Procs)
      OBVIOUS
    <3> QED
      BY <1>0, <3>1, Zenon
  <2>4. /\ 0 \in 0 .. MaxT /\ fuel \in 0 .. Fuel
    BY <1>0, MainAssumption
  <2>5. /\ future_T \in [FutureStructs -> 0 .. MaxT] /\ lpm_T \in [Lpms -> 0 .. MaxT]
        /\ lpm_state \in [Lpms -> {"WAIT", "EXEC"}] /\ event_flag \in [Statics -> {0, 1, 85}]
    BY <1>0, <2>4
  <2>6. /\ stage \in {"active", "static", "nb", "delay0", "monitor", "future", "release", "dlpm", "stop"}
        /\ i \in Nat /\ j \in Nat /\ T \in 0 .. MaxT
    BY <1>0, <2>4
  <2>7. pint_stop \in BOOLEAN /\ cur \in Threads \cup {None} /\ flags \subseteq Lpms \cup Nbs /\ mflags \subseteq Strobes
    BY <1>0, Zenon
  <2> QED
    BY <2>1, <2>2, <2>3, <2>4, <2>5, <2>6, <2>7, InitQueues, Zenon DEF TypeOK
<1>2. QueueOK
  <2>1. q["NBASSIGN"] = <<>> /\ q["DELAY0"] = <<>> /\ q["MONITOR"] = <<>>
    BY InitQueues
  <2>2. <<>> \in Seq(Nbs) /\ <<>> \in Seq(Procs) /\ <<>> \in Seq(Strobes)
    OBVIOUS
  <2> QED
    BY <2>1, <2>2, InitQueues, Zenon DEF QueueOK
<1>3. StageOK
  BY <1>0, InitQueues DEF StageOK
<1>4. TimeOK
  BY <1>0, CountEmpty DEF TimeOK
<1>5. ActiveLeft = q["ACTIVE"] /\ NbLeft = <<>>
  <2>1. ActiveLeft = SubSeq(q["ACTIVE"], 0 + 1, Len(q["ACTIVE"])) /\ NbLeft = q["NBASSIGN"]
    BY <1>0, InitQueues, LeftIs
  <2> QED
    BY <2>1, InitQueues, LeftEnds
<1>6. PlaceOK
  <2> SUFFICES ASSUME NEW p \in Procs
               PROVE  Places(p) <= 1 /\ \A s \in Signals : Count(waiters[s], p) <= 1
    BY DEF PlaceOK
  <2>1. \A s \in Signals : waiters[s] = <<>>
    BY <1>0
  <2>2. \A s \in Signals : Count(waiters[s], p) = 0 /\ p \notin ToSet(waiters[s])
    BY <2>1, CountEmpty
  <2>3. Waits(p) = {}
    BY <2>2 DEF Waits
  <2>4. Cardinality(Waits(p)) = 0
    BY <2>3, FS_EmptySet, Zenon
  <2>5. cur # p
    BY <1>0, Names
  <2>6. Count(future_q, p) = 0 /\ Count(q["DELAY0"], p) = 0
    BY <1>0, InitQueues, CountEmpty
  <2>7. /\ Count(q["ACTIVE"], p) \in Nat /\ Count(q["INACTIVE"], p) \in Nat
        /\ Count(q["ACTIVE"], p) + Count(q["INACTIVE"], p) <= 1
    BY InitQueues, CountNat
  <2>8. Places(p) = 0 + Count(q["ACTIVE"], p) + Count(q["INACTIVE"], p) + 0 + 0 + 0
    BY <1>5, <2>4, <2>5, <2>6, PlacesIs
  <2> QED
    BY <2>2, <2>7, <2>8
<1>7. FlagOK
  <2>1. q["MONITOR"] = <<>>
    BY InitQueues
  <2>2. ToSet(<<>>) = {} /\ \A t : Count(<<>>, t) <= 1
    BY CountEmpty
  <2> QED
    BY <1>0, <1>5, <2>1, <2>2, Zenon DEF FlagOK, BitMeansQueued
<1> QED
  BY <1>1, <1>2, <1>3, <1>4, <1>6, <1>7 DEF MainInv

\* ... and every step keeps it.
LEMMA NextOK == ASSUME MainInv, [Next]_vars PROVE MainInv' /\ Kept
<1>1. Shape /\ PlaceOK /\ FlagOK
  BY DEF MainInv, Shape
<1>2. Shape'
  BY <1>1, NextShape
<1>3. Kept /\ PlaceOK' /\ FlagOK'
  BY <1>1, NextMoves
<1> QED
  BY <1>2, <1>3 DEF MainInv, Shape

-----------------------------------------------------------------------------
(* The theorems. *)

\* The invariant holds in every reachable state of main's loop.
THEOREM MainInvariant == Spec => []MainInv
<1>1. Init => MainInv
  BY InitOK
<1>2. MainInv /\ [Next]_vars => MainInv'
  BY NextOK
<1> QED
  BY <1>1, <1>2, PTL DEF Spec

\* No process is in two places, whatever it is, wherever the queues swap it, and the
\* types of all queues and counters hold.
THEOREM EveryProcessOnePlace == Spec => []OnePlace
<1>1. MainInv => OnePlace
  BY DEF MainInv, PlaceOK, OnePlace
<1> QED
  BY <1>1, MainInvariant, PTL

\* A bit of pint_enqueue_flag or pint_monitor_enqueue_flag is set only while what it
\* stands for is queued; that of a nonblocking target or a $strobe exactly then.
THEOREM BitsMeanQueued == Spec => []BitMeansQueued
<1>1. MainInv => BitMeansQueued
  BY DEF MainInv, FlagOK
<1> QED
  BY <1>1, MainInvariant, PTL

\* No step drops a suspended process: one that has no place any more was running.
THEOREM NoProcessDropped == Spec => NeverDropped
<1>1. MainInv /\ [Next]_vars => [\A p \in Procs : Places(p) = 1 /\ Places(p)' = 0 => cur = p]_vars
  <2> SUFFICES ASSUME MainInv, [Next]_vars, NEW p \in Procs, Places(p) = 1, Places(p)' = 0
               PROVE  cur = p
    OBVIOUS
  <2>1. Kept
    BY NextOK
  <2>2. Places(p)' = Places(p) \/ cur = p
    BY <2>1 DEF Kept
  <2> QED
    BY <2>2
<1> QED
  BY <1>1, MainInvariant, PTL DEF Spec, NeverDropped

\* The future queue loses an entry only when it is released.
LEMMA FutureKept ==
  ASSUME Shape, [Next]_vars
  PROVE  ToSet(future_q) \subseteq ToSet(future_q') \/ ReleaseFuture
<1>1. CASE UNCHANGED future_q
  BY <1>1
<1>2. ASSUME NEW x \in FutureStructs, future_q' = Append(future_q, x)
      PROVE  ToSet(future_q) \subseteq ToSet(future_q')
  <2>1. future_q \in Seq(FutureStructs)
    BY DEF Shape, TypeOK
  <2> QED
    BY <1>2, <2>1, CountAppend
<1>3. CASE UNCHANGED vars
  BY <1>1, <1>3 DEF vars, queues
<1>4. CASE MainStep
  BY <1>1, <1>4 DEF MainStep, RunActive, SwapActive, LeaveActive, RunStatic, StaticDone, RunNb, NbDone, RunDelay0,
     NoDelay0, RunMonitor, MonitorDone, AdvanceFuture, AdvanceLpm, NoFuture, ReleaseLpm, ReleaseDone, queues
<1>5. CASE ThreadStep
  <2>1. CASE \E s \in Signals : AssignStmt(s) \/ WaitStmt(s)
    BY <1>1, <2>1 DEF AssignStmt, WaitStmt
  <2>2. ASSUME NEW n \in Nbs, NbAssignStmt(n) \/ \E d \in Delays : NbFutureStmt(n, d)
        PROVE  ToSet(future_q) \subseteq ToSet(future_q')
    <3>1. n \in FutureStructs
      BY DEF FutureStructs
    <3> QED
      BY <1>1, <1>2, <2>2, <3>1 DEF NbAssignStmt, NbFutureStmt, pint_enqueue_nb_future, pint_enqueue_thread_future
  <2>3. CASE \E m \in Strobes : StrobeStmt(m)
    BY <1>1, <2>3 DEF StrobeStmt
  <2>4. CASE \E d \in Delays : DelayStmt(d) \/ LpmWaits(d)
    <3>1. cur \in Procs => cur \in FutureStructs
      BY DEF FutureStructs
    <3> QED
      BY <1>1, <1>2, <2>4, <3>1 DEF DelayStmt, LpmWaits, pint_enqueue_thread_future
  <2>5. CASE FinishStmt \/ ThreadReturns \/ LpmDrives
    BY <1>1, <2>5 DEF FinishStmt, ThreadReturns, LpmDrives, queues
  <2> QED
    BY <1>5, <2>1, <2>2, <2>3, <2>4, <2>5, Zenon DEF ThreadStep
<1> QED
  BY <1>3, <1>4, <1>5 DEF Next

\* A delayed process leaves the future queue at the very time it asked for: the entry
\* the swap-remove takes out is the one that is due.
THEOREM ProcessesOnTime == Spec => OnTime
<1>1. MainInv /\ [Next]_vars =>
        [\A p \in Procs : p \in ToSet(future_q) /\ p \notin ToSet(future_q') => T' = future_T[p]]_vars
  <2> SUFFICES ASSUME MainInv, [Next]_vars, NEW p \in Procs, p \in ToSet(future_q), p \notin ToSet(future_q')
               PROVE  T' = future_T[p]
    OBVIOUS
  <2>1. Shape
    BY DEF MainInv, Shape
  <2>2. ReleaseFuture
    BY <2>1, FutureKept
  <2>3. PICK x \in DOMAIN future_q : future_T[future_q[x]] = T /\ future_q' = SwapRemove(future_q, x)
    BY <2>1, <2>2, ReleaseFutureIs
  <2>4. ToSet(future_q) = ToSet(future_q') \cup {future_q[x]}
    <3>1. future_q \in Seq(FutureStructs)
      BY <2>1 DEF Shape, TypeOK
    <3> QED
      BY <2>3, <3>1, CountRemove
  <2>5. T' = T
    BY <2>1, <2>2, ReleaseFutureIs
  <2> QED
    BY <2>3, <2>4, <2>5
<1> QED
  BY <1>1, MainInvariant, PTL DEF Spec, OnTime

\* The simulation ends by itself in stage 5 only.
LEMMA EndsInStage5 ==
  ASSUME Shape, [Next]_vars, stage = "future", ~pint_stop, pint_stop'
  PROVE  NoFuture
<1>1. pint_stop' # pint_stop
  OBVIOUS
<1>2. cur = None
  BY DEF Shape, StageOK
<1>3. ~ThreadStep
  BY <1>2, Names DEF ThreadStep, AssignStmt, WaitStmt, NbAssignStmt, NbFutureStmt, StrobeStmt, DelayStmt, LpmWaits,
     FinishStmt, ThreadReturns, LpmDrives
<1>4. CASE UNCHANGED vars
  BY <1>1, <1>4 DEF vars, ctl
<1>5. CASE MainStep
  BY <1>1, <1>5 DEF MainStep, RunActive, SwapActive, LeaveActive, RunStatic, StaticDone, RunNb, NbDone, RunDelay0,
     NoDelay0, RunMonitor, MonitorDone, AdvanceFuture, AdvanceLpm, ReleaseFuture, ReleaseLpm, ReleaseDone, ctl
<1> QED
  BY <1>3, <1>4, <1>5 DEF Next


-----------------------------------------------------------------------------
(* The refinement: the regions. *)

\* The threads of a table not reached yet.
TableLeft(st, tab, a, b) ==
  UNION {ToSet(IF st = "static" /\ x = a + 1 THEN SubSeq(tab[x], b + 1, Len(tab[x])) ELSE tab[x])
         : x \in {y \in DOMAIN tab : st = "static" => y > a}}

\* Before and after a step.
LEMMA StaticLeftIs ==
  StaticLeft = TableLeft(stage, static_table, i, j) /\ StaticLeft' = TableLeft(stage', static_table', i', j')
BY Zenon DEF StaticLeft, TableLeft

\* The values of the rest of a sequence.
LEMMA SubIn ==
  ASSUME NEW S, NEW s \in Seq(S), NEW b \in Nat, NEW t
  PROVE  t \in ToSet(SubSeq(s, b + 1, Len(s))) <=> \E y \in 1 .. Len(s) : y > b /\ s[y] = t
<1> DEFINE u == SubSeq(s, b + 1, Len(s))
<1>1. Len(s) \in Nat /\ b + 1 \in Int /\ Len(s) \in Int /\ \A x \in b + 1 .. Len(s) : s[x] \in S
  BY SeqIs
<1>2. CASE b + 1 <= Len(s)
  <2>1. /\ u \in Seq(S) /\ Len(u) = (Len(s) - (b + 1)) + 1
        /\ \A x \in 1 .. (Len(s) - (b + 1)) + 1 : u[x] = s[((b + 1) + x) - 1]
    BY <1>1, <1>2, SubSeqProperties
  <2>2. DOMAIN u = 1 .. (Len(s) - (b + 1)) + 1
    BY <2>1, SeqIs
  <2> HIDE DEF u
  <2>3. ASSUME NEW x \in DOMAIN u PROVE \E y \in 1 .. Len(s) : y > b /\ s[y] = u[x]
    <3>1. u[x] = s[((b + 1) + x) - 1] /\ ((b + 1) + x) - 1 \in 1 .. Len(s) /\ ((b + 1) + x) - 1 > b
      BY <1>1, <1>2, <2>1, <2>2
    <3> QED
      BY <3>1
  <2>4. ASSUME NEW y \in 1 .. Len(s), y > b PROVE \E x \in DOMAIN u : u[x] = s[y]
    <3>1. y - b \in 1 .. (Len(s) - (b + 1)) + 1 /\ ((b + 1) + (y - b)) - 1 = y
      BY <1>1, <2>4
    <3>2. y - b \in DOMAIN u /\ u[y - b] = s[((b + 1) + (y - b)) - 1]
      BY <2>1, <2>2, <3>1
    <3> QED
      BY <3>1, <3>2
  <2>5. t \in ToSet(u) <=> \E x \in DOMAIN u : u[x] = t
    BY Zenon DEF ToSet
  <2>6. t \in ToSet(u) <=> \E y \in 1 .. Len(s) : y > b /\ s[y] = t
    BY <2>3, <2>4, <2>5, ZenonT(30)
  <2> QED
    BY <2>6 DEF u
<1>3. CASE ~(b + 1 <= Len(s))
  <2>1. u = <<>>
    BY <1>1, <1>3, SubSeqEmpty
  <2>2. ToSet(u) = {}
    BY <2>1, CountEmpty
  <2>3. ~ \E y \in 1 .. Len(s) : y > b
    BY <1>1, <1>3
  <2> QED
    BY <2>2, <2>3
<1> QED
  BY <1>2, <1>3

\* A thread stands at a place of the table main has not come to.
OnTable(st, tab, a, b, t) ==
  \E x \in 1 .. Len(tab) : \E y \in 1 .. Len(tab[x]) :
     tab[x][y] = t /\ (st = "static" => x > a + 1 \/ (x = a + 1 /\ y > b))

\* These are the threads left.
LEMMA TableLeftIs ==
  ASSUME NEW tab \in Seq(Seq(Statics)), NEW a \in Nat, NEW b \in Nat, NEW st, NEW t
  PROVE  t \in TableLeft(st, tab, a, b) <=> OnTable(st, tab, a, b, t)
<1>1. DOMAIN tab = 1 .. Len(tab) /\ \A x \in 1 .. Len(tab) : tab[x] \in Seq(Statics)
  BY SeqIs
<1> DEFINE L(x) == ToSet(IF st = "static" /\ x = a + 1 THEN SubSeq(tab[x], b + 1, Len(tab[x])) ELSE tab[x])
           P(x) == \E y \in 1 .. Len(tab[x]) :
                      tab[x][y] = t /\ (st = "static" => x > a + 1 \/ (x = a + 1 /\ y > b))
<1>2. t \in TableLeft(st, tab, a, b) <=> \E x \in 1 .. Len(tab) : (st = "static" => x > a) /\ t \in L(x)
  BY <1>1 DEF TableLeft
<1>3. ASSUME NEW x \in 1 .. Len(tab) PROVE ((st = "static" => x > a) /\ t \in L(x)) <=> P(x)
  <2>0. tab[x] \in Seq(Statics) /\ x \in Int
    BY <1>1
  <2>1. CASE st = "static" /\ x = a + 1
    <3>1. t \in L(x) <=> \E y \in 1 .. Len(tab[x]) : y > b /\ tab[x][y] = t
      BY <2>0, <2>1, SubIn
    <3> QED
      BY <2>0, <2>1, <3>1
  <2>2. CASE ~(st = "static" /\ x = a + 1)
    <3>1. t \in L(x) <=> \E y \in 1 .. Len(tab[x]) : tab[x][y] = t
      BY <2>0, <2>2, SeqIs DEF ToSet
    <3>2. st = "static" => (x > a <=> x > a + 1)
      BY <2>0, <2>2
    <3> QED
      BY <2>0, <2>2, <3>1, <3>2
  <2> QED
    BY <2>1, <2>2
<1> HIDE DEF L, P
<1>4. t \in TableLeft(st, tab, a, b) <=> \E x \in 1 .. Len(tab) : P(x)
  BY <1>2, <1>3
<1> QED
  BY <1>4, Zenon DEF P, OnTable

\* Only static threads are left.
LEMMA TableType ==
  ASSUME NEW tab \in Seq(Seq(Statics)), NEW a \in Nat, NEW b \in Nat, NEW st
  PROVE  TableLeft(st, tab, a, b) \subseteq Statics
<1> SUFFICES ASSUME NEW t \in TableLeft(st, tab, a, b) PROVE t \in Statics
  OBVIOUS
<1>1. PICK x \in 1 .. Len(tab) : \E y \in 1 .. Len(tab[x]) : tab[x][y] = t
  BY TableLeftIs DEF OnTable
<1>2. tab[x] \in Seq(Statics)
  BY <1>1, SeqIs
<1> QED
  BY <1>1, <1>2, SeqIs

\* Nothing is left of an empty table, or of one that is done.
LEMMA TableNone ==
  ASSUME NEW tab \in Seq(Seq(Statics)), NEW a \in Nat, NEW b \in Nat, NEW st,
         tab = <<>> \/ (st = "static" /\ a = Len(tab))
  PROVE  TableLeft(st, tab, a, b) = {}
<1> SUFFICES ASSUME NEW t \in TableLeft(st, tab, a, b) PROVE FALSE
  OBVIOUS
<1>1. PICK x \in 1 .. Len(tab) : st = "static" => x > a + 1 \/ x = a + 1
  BY TableLeftIs DEF OnTable
<1>2. Len(tab) \in Nat /\ (tab = <<>> => Len(tab) = 0) /\ x \in Int
  BY SeqIs
<1> QED
  BY <1>1, <1>2

\* Outside the static stage everything is left, and at its start too.
LEMMA TableStart ==
  ASSUME NEW tab \in Seq(Seq(Statics)), NEW a \in Nat, NEW b \in Nat, NEW st, st # "static"
  PROVE  /\ TableLeft("static", tab, 0, 0) = TableLeft(st, tab, a, b)
         /\ \A sv, a2, b2 : sv # "static" => TableLeft(sv, tab, a2, b2) = TableLeft(st, tab, a, b)
<1>1. ASSUME NEW t PROVE t \in TableLeft("static", tab, 0, 0) <=> t \in TableLeft(st, tab, a, b)
  <2>1. t \in TableLeft("static", tab, 0, 0) <=>
           \E x \in 1 .. Len(tab) : \E y \in 1 .. Len(tab[x]) : tab[x][y] = t /\ (x > 0 + 1 \/ (x = 0 + 1 /\ y > 0))
    <3>1. 0 \in Nat
      OBVIOUS
    <3>2. t \in TableLeft("static", tab, 0, 0) <=> OnTable("static", tab, 0, 0, t)
      BY <3>1, TableLeftIs
    <3> QED
      BY <3>2, Zenon DEF OnTable
  <2>2. t \in TableLeft(st, tab, a, b) <=> \E x \in 1 .. Len(tab) : \E y \in 1 .. Len(tab[x]) : tab[x][y] = t
    <3>1. t \in TableLeft(st, tab, a, b) <=> OnTable(st, tab, a, b, t)
      BY TableLeftIs
    <3> QED
      BY <3>1, Zenon DEF OnTable
  <2>3. Len(tab) \in Nat /\ \A x \in 1 .. Len(tab) : Len(tab[x]) \in Nat
    <3>1. \A x \in 1 .. Len(tab) : tab[x] \in Seq(Statics)
      BY SeqIs
    <3> QED
      BY <3>1, SeqIs
  <2>4. \A x \in 1 .. Len(tab) : \A y \in 1 .. Len(tab[x]) : x > 0 + 1 \/ (x = 0 + 1 /\ y > 0)
    BY <2>3
  <2> QED
    BY <2>1, <2>2, <2>4, Zenon
<1>2. ASSUME NEW sv, NEW a2, NEW b2, sv # "static" PROVE TableLeft(sv, tab, a2, b2) = TableLeft(st, tab, a, b)
  <2>1. \A x : /\ (IF sv = "static" /\ x = a2 + 1 THEN SubSeq(tab[x], b2 + 1, Len(tab[x])) ELSE tab[x]) = tab[x]
               /\ (IF st = "static" /\ x = a + 1 THEN SubSeq(tab[x], b + 1, Len(tab[x])) ELSE tab[x]) = tab[x]
    BY <1>2, Zenon
  <2>2. /\ {y \in DOMAIN tab : sv = "static" => y > a2} = DOMAIN tab
        /\ {y \in DOMAIN tab : st = "static" => y > a} = DOMAIN tab
    BY <1>2, Zenon
  <2> QED
    BY <2>1, <2>2, Zenon DEF TableLeft
<1> QED
  BY <1>1, <1>2

\* What is left stays left when a list is added.
LEMMA TableMore ==
  ASSUME NEW tab \in Seq(Seq(Statics)), NEW a \in Nat, NEW b \in Nat, NEW st, NEW l \in Seq(Statics)
  PROVE  TableLeft(st, tab, a, b) \subseteq TableLeft(st, Append(tab, l), a, b)
<1> DEFINE u == Append(tab, l)
<1>1. /\ u \in Seq(Seq(Statics)) /\ Len(tab) \in Nat /\ Len(u) = Len(tab) + 1
      /\ \A x \in 1 .. Len(tab) : u[x] = tab[x]
  OBVIOUS
<1>2. \A x \in 1 .. Len(tab) : x \in 1 .. Len(u)
  BY <1>1
<1> HIDE DEF u
<1>3. ASSUME NEW t \in TableLeft(st, tab, a, b) PROVE t \in TableLeft(st, u, a, b)
  <2>1. PICK x \in 1 .. Len(tab) : \E y \in 1 .. Len(tab[x]) :
                    tab[x][y] = t /\ (st = "static" => x > a + 1 \/ (x = a + 1 /\ y > b))
    <3>1. OnTable(st, tab, a, b, t)
      BY TableLeftIs
    <3> QED
      BY <3>1, Zenon DEF OnTable
  <2>2. x \in 1 .. Len(u) /\ u[x] = tab[x]
    BY <1>1, <1>2
  <2>3. \E z \in 1 .. Len(u) : \E y \in 1 .. Len(u[z]) :
                    u[z][y] = t /\ (st = "static" => z > a + 1 \/ (z = a + 1 /\ y > b))
    BY <2>1, <2>2
  <2> QED
    BY <1>1, <2>3, TableLeftIs DEF OnTable
<1> QED
  BY <1>3 DEF u

\* main comes to the next place of the table.
LEMMA TableNext ==
  ASSUME NEW tab \in Seq(Seq(Statics)), NEW a \in Nat, NEW b \in Nat, NEW a2 \in Nat, NEW b2 \in Nat,
         a < Len(tab), b < Len(tab[a + 1]),
         IF b + 1 < Len(tab[a + 1]) THEN a2 = a /\ b2 = b + 1 ELSE a2 = a + 1 /\ b2 = 0
  PROVE  /\ tab[a + 1][b + 1] \in TableLeft("static", tab, a, b)
         /\ TableLeft("static", tab, a, b) \ {tab[a + 1][b + 1]} \subseteq TableLeft("static", tab, a2, b2)
<1>0. /\ Len(tab) \in Nat /\ a + 1 \in 1 .. Len(tab) /\ Len(tab[a + 1]) \in Nat /\ b + 1 \in 1 .. Len(tab[a + 1])
  <2>1. Len(tab) \in Nat /\ a + 1 \in 1 .. Len(tab)
    BY SeqIs
  <2>2. tab[a + 1] \in Seq(Statics)
    BY <2>1, SeqIs
  <2>3. Len(tab[a + 1]) \in Nat
    BY <2>2, SeqIs
  <2> QED
    BY <2>1, <2>3
<1>1. tab[a + 1][b + 1] \in TableLeft("static", tab, a, b)
  <2>1. a + 1 > a /\ b + 1 > b
    OBVIOUS
  <2>2. \E x \in 1 .. Len(tab) : \E y \in 1 .. Len(tab[x]) :
              tab[x][y] = tab[a + 1][b + 1] /\ ("static" = "static" => x > a + 1 \/ (x = a + 1 /\ y > b))
    BY <1>0, <2>1
  <2>3. OnTable("static", tab, a, b, tab[a + 1][b + 1])
    BY <2>2, Zenon DEF OnTable
  <2> QED
    BY <2>3, TableLeftIs
<1>2. ASSUME NEW t \in TableLeft("static", tab, a, b), t # tab[a + 1][b + 1]
      PROVE  t \in TableLeft("static", tab, a2, b2)
  <2>1. PICK x \in 1 .. Len(tab) : \E y \in 1 .. Len(tab[x]) : tab[x][y] = t /\ (x > a + 1 \/ (x = a + 1 /\ y > b))
    <3>1. OnTable("static", tab, a, b, t)
      BY TableLeftIs
    <3> QED
      BY <3>1, Zenon DEF OnTable
  <2>2. PICK y \in 1 .. Len(tab[x]) : tab[x][y] = t /\ (x > a + 1 \/ (x = a + 1 /\ y > b))
    BY <2>1
  <2>3. x \in Int /\ y \in Int /\ ~(x = a + 1 /\ y = b + 1)
    <3>1. tab[x] \in Seq(Statics)
      BY SeqIs
    <3>2. Len(tab[x]) \in Nat
      BY <3>1, SeqIs
    <3> QED
      BY <1>2, <2>2, <3>2
  <2>4. CASE x > a + 1
    <3>1. x > a2 + 1 \/ (x = a2 + 1 /\ y > b2)
      BY <1>0, <2>2, <2>3, <2>4
    <3>5. OnTable("static", tab, a2, b2, t)
      BY <2>2, <3>1 DEF OnTable
    <3> QED
      BY <3>5, TableLeftIs
  <2>5. CASE x = a + 1 /\ y > b
    <3>1. y > b + 1
      BY <2>3, <2>5
    <3>2. y <= Len(tab[a + 1])
      BY <1>0, <2>2, <2>5
    <3>3. b + 1 < Len(tab[a + 1])
      BY <1>0, <2>3, <3>1, <3>2
    <3>4. x = a2 + 1 /\ y > b2
      BY <2>5, <3>1, <3>3
    <3>5. OnTable("static", tab, a2, b2, t)
      BY <2>2, <3>4 DEF OnTable
    <3> QED
      BY <3>5, TableLeftIs
  <2> QED
    BY <2>2, <2>4, <2>5
<1> QED
  BY <1>1, <1>2

\* What is delayed, to any time.
Pending(fq, ft, lq, lt) == {<<x, ft[x]>> : x \in ToSet(fq)} \cup {<<l, lt[l]>> : l \in ToSet(lq)}

\* The regions outside the release of what is due, before and after a step.
LEMMA RegionsIs ==
  ASSUME stage \notin {"release", "dlpm"}
  PROVE  /\ ActiveRegion = ({cur} \ {None}) \cup ToSet(ActiveLeft) \cup ToSet(q["INACTIVE"])
                           \cup TableLeft(stage, static_table, i, j)
                           \cup (IF stage = "nb" THEN ToSet(NbLeft) ELSE {})
                           \cup (IF stage \in {"monitor", "future"} THEN ToSet(q["MONITOR"]) ELSE {})
         /\ NbaRegion = IF stage = "nb" THEN {} ELSE ToSet(q["NBASSIGN"])
         /\ FutureRegion = Pending(future_q, future_T, lpm_q, lpm_T)
         /\ Stopped = (stage = "stop")
<1>1. Released = {} /\ ReleasedLpms = {}
  BY DEF Released, ReleasedLpms
<1>2. Stopped = (stage = "stop")
  BY Zenon DEF Stopped
<1>3. FutureRegion = Pending(future_q, future_T, lpm_q, lpm_T)
  <2>1. ToSet(future_q) \ {} = ToSet(future_q) /\ ToSet(lpm_q) \ {} = ToSet(lpm_q)
    OBVIOUS
  <2> QED
    BY <1>1, <2>1, Zenon DEF FutureRegion, Pending
<1>4. StaticLeft = TableLeft(stage, static_table, i, j)
  BY StaticLeftIs
<1>5. ({} \ Nbs) = {} /\ ({} \cap Nbs) = {}
  OBVIOUS
<1> QED
  BY <1>1, <1>2, <1>3, <1>4, <1>5 DEF ActiveRegion, NbaRegion

\* ... and after a step.
LEMMA RegionsAfter ==
  ASSUME stage' \notin {"release", "dlpm"}
  PROVE  /\ ActiveRegion' = ({cur'} \ {None}) \cup ToSet(ActiveLeft') \cup ToSet(q'["INACTIVE"])
                           \cup TableLeft(stage', static_table', i', j')
                           \cup (IF stage' = "nb" THEN ToSet(NbLeft') ELSE {})
                           \cup (IF stage' \in {"monitor", "future"} THEN ToSet(q'["MONITOR"]) ELSE {})
         /\ NbaRegion' = IF stage' = "nb" THEN {} ELSE ToSet(q'["NBASSIGN"])
         /\ FutureRegion' = Pending(future_q', future_T', lpm_q', lpm_T')
         /\ Stopped' = (stage' = "stop")
<1>1. Released' = {} /\ ReleasedLpms' = {}
  BY DEF Released, ReleasedLpms
<1>2. Stopped' = (stage' = "stop")
  BY Zenon DEF Stopped
<1>3. FutureRegion' = Pending(future_q', future_T', lpm_q', lpm_T')
  <2>1. ToSet(future_q') \ {} = ToSet(future_q') /\ ToSet(lpm_q') \ {} = ToSet(lpm_q')
    OBVIOUS
  <2>2. FutureRegion' = {<<x, future_T'[x]>> : x \in ToSet(future_q') \ Released'}
                        \cup {<<l, lpm_T'[l]>> : l \in ToSet(lpm_q') \ ReleasedLpms'}
    BY Zenon DEF FutureRegion
  <2> QED
    BY <1>1, <2>1, <2>2, Zenon DEF Pending
<1>4. StaticLeft' = TableLeft(stage', static_table', i', j')
  BY StaticLeftIs
<1>5. ({} \ Nbs) = {} /\ ({} \cap Nbs) = {}
  OBVIOUS
<1> QED
  BY <1>1, <1>2, <1>3, <1>4, <1>5 DEF ActiveRegion, NbaRegion

\* The other two regions.
LEMMA OtherRegions ==
  /\ ZeroRegion = ToSet(q["DELAY0"]) /\ ZeroRegion' = ToSet(q'["DELAY0"])
  /\ PostponedRegion = IF stage \in {"monitor", "future"} THEN {} ELSE ToSet(q["MONITOR"])
  /\ PostponedRegion' = IF stage' \in {"monitor", "future"} THEN {} ELSE ToSet(q'["MONITOR"])
BY DEF ZeroRegion, PostponedRegion

\* A step no region shows.
LEMMA Stutters ==
  ASSUME T' = T, ActiveRegion' = ActiveRegion, NbaRegion' = NbaRegion, ZeroRegion' = ZeroRegion,
         PostponedRegion' = PostponedRegion, FutureRegion' = FutureRegion, Stopped' = Stopped
  PROVE  [Regions!Next]_(Regions!rvars)
BY DEF Regions!rvars

\* Every event of the active region is an event of the design.
LEMMA ActiveType == ASSUME Shape, stage \notin {"release", "dlpm"} PROVE ActiveRegion \subseteq Threads \cup Nbs \cup Strobes
<1>0. TypeOK /\ QueueOK /\ StageOK
  BY DEF Shape
<1>1. ToSet(ActiveLeft) \subseteq Procs \cup Lpms /\ ToSet(NbLeft) \subseteq Nbs
  BY <1>0, LeftType, SetType
<1>2. ToSet(q["INACTIVE"]) \subseteq Procs \cup Lpms /\ ToSet(q["MONITOR"]) \subseteq Strobes
  BY <1>0, SetType DEF QueueOK
<1>3. TableLeft(stage, static_table, i, j) \subseteq Statics
  BY <1>0, TableType DEF TypeOK
<1>4. {cur} \ {None} \subseteq Threads
  BY <1>0 DEF TypeOK
<1> QED
  BY <1>1, <1>2, <1>3, <1>4, RegionsIs DEF Threads

\* The same as a formula, and after a step.
ActiveOK == Shape /\ stage \notin {"release", "dlpm"} => ActiveRegion \subseteq Threads \cup Nbs \cup Strobes

\* It holds,
LEMMA ActiveIsOK == ActiveOK
BY ActiveType DEF ActiveOK

\* in the next state too,
LEMMA ActiveOKAfter == ActiveOK'
BY ActiveIsOK, PTL

\* so every event of the active region after a step is an event of the design.
LEMMA ActiveTypeAfter ==
  ASSUME Shape', stage' \notin {"release", "dlpm"} PROVE ActiveRegion' \subseteq Threads \cup Nbs \cup Strobes
BY ActiveOKAfter DEF ActiveOK

\* A statement of the running thread executes an active event.
LEMMA ThreadExecutes ==
  ASSUME Shape, Shape', cur # None, cur' \in {cur, None}, UNCHANGED <<T, stage>>,
         ActiveLeft' = ActiveLeft, ToSet(q["INACTIVE"]) \subseteq ToSet(q'["INACTIVE"]),
         ToSet(q["NBASSIGN"]) \subseteq ToSet(q'["NBASSIGN"]), ToSet(q["DELAY0"]) \subseteq ToSet(q'["DELAY0"]),
         ToSet(q["MONITOR"]) \subseteq ToSet(q'["MONITOR"]),
         TableLeft(stage, static_table, i, j) \subseteq TableLeft(stage', static_table', i', j'),
         \A f \in Pending(future_q', future_T', lpm_q', lpm_T') \ Pending(future_q, future_T, lpm_q, lpm_T) : f[2] > T,
         \A f \in Pending(future_q, future_T, lpm_q, lpm_T) \ Pending(future_q', future_T', lpm_q', lpm_T') :
            \E g \in Pending(future_q', future_T', lpm_q', lpm_T') : g[1] = f[1] /\ g[2] > T
  PROVE  Regions!Execute
<1>1. stage \in {"active", "static"} /\ stage' = stage
  BY DEF Shape, StageOK
<1>2. stage \notin {"release", "dlpm", "nb", "monitor", "future", "stop"}
  BY <1>1
<1>3. /\ ActiveRegion = ({cur} \ {None}) \cup ToSet(ActiveLeft) \cup ToSet(q["INACTIVE"])
                        \cup TableLeft(stage, static_table, i, j)
      /\ NbaRegion = ToSet(q["NBASSIGN"])
      /\ FutureRegion = Pending(future_q, future_T, lpm_q, lpm_T) /\ Stopped = FALSE
  BY <1>2, RegionsIs
<1>4. /\ ActiveRegion' = ({cur'} \ {None}) \cup ToSet(ActiveLeft') \cup ToSet(q'["INACTIVE"])
                        \cup TableLeft(stage', static_table', i', j')
      /\ NbaRegion' = ToSet(q'["NBASSIGN"])
      /\ FutureRegion' = Pending(future_q', future_T', lpm_q', lpm_T') /\ Stopped' = FALSE
  BY <1>1, <1>2, RegionsAfter
<1>5. ActiveRegion' \subseteq Threads \cup Nbs \cup Strobes
  BY <1>1, <1>2, ActiveTypeAfter
<1>6. cur \in ActiveRegion /\ ActiveRegion \ {cur} \subseteq ActiveRegion'
  BY <1>3, <1>4
<1>7. NbaRegion \subseteq NbaRegion' /\ ZeroRegion \subseteq ZeroRegion' /\ PostponedRegion \subseteq PostponedRegion'
  BY <1>1, <1>2, <1>3, <1>4, OtherRegions
<1>8. /\ \A f \in FutureRegion' \ FutureRegion : f[2] > T
      /\ \A f \in FutureRegion \ FutureRegion' : \E g \in FutureRegion' : g[1] = f[1] /\ g[2] > T
  BY <1>3, <1>4
<1>9. ~Stopped /\ Stopped' = Stopped /\ T' = T
  BY <1>3, <1>4
<1> QED
  BY <1>5, <1>6, <1>7, <1>8, <1>9, Zenon DEF Regions!Execute

\* What is new is past the time, and stands for what it replaces.
Later(P, P2, now) ==
  /\ \A f \in P2 \ P : f[2] > now
  /\ \A f \in P \ P2 : \E g \in P2 : g[1] = f[1] /\ g[2] > now

\* A process or a nonblocking assignment is given a new time.
LEMMA PendingMore ==
  ASSUME NEW S, NEW fq, NEW ft, NEW lq, NEW lt, NEW fq2, NEW ft2, NEW x \in S, NEW t, NEW now,
         ToSet(fq) \subseteq S, ToSet(fq2) = ToSet(fq) \cup {x}, ft2[x] = t, \A y \in S : y # x => ft2[y] = ft[y], t > now
  PROVE  Later(Pending(fq, ft, lq, lt), Pending(fq2, ft2, lq, lt), now)
<1>3. ASSUME NEW f \in Pending(fq2, ft2, lq, lt), f \notin Pending(fq, ft, lq, lt) PROVE f[2] > now
  <2>1. PICK y \in ToSet(fq2) : f = <<y, ft2[y]>>
    BY <1>3 DEF Pending
  <2>2. y = x
    BY <1>3, <2>1 DEF Pending
  <2> QED
    BY <2>1, <2>2
<1>4. ASSUME NEW f \in Pending(fq, ft, lq, lt), f \notin Pending(fq2, ft2, lq, lt)
      PROVE  \E g \in Pending(fq2, ft2, lq, lt) : g[1] = f[1] /\ g[2] > now
  <2>1. PICK y \in ToSet(fq) : f = <<y, ft[y]>>
    BY <1>4 DEF Pending
  <2>2. y = x
    BY <1>4, <2>1 DEF Pending
  <2>3. <<x, t>> \in Pending(fq2, ft2, lq, lt)
    BY DEF Pending
  <2> QED
    BY <2>1, <2>2, <2>3
<1> QED
  BY <1>3, <1>4 DEF Later

\* The two queues of delays count alike.
LEMMA PendingSwap == ASSUME NEW fq, NEW ft, NEW lq, NEW lt PROVE Pending(fq, ft, lq, lt) = Pending(lq, lt, fq, ft)
BY DEF Pending

\* ... a statement that delays nothing.
LEMMA ThreadExecutesNow ==
  ASSUME Shape, Shape', cur # None, cur' \in {cur, None}, UNCHANGED <<T, stage>>,
         UNCHANGED <<future_q, future_T, lpm_q, lpm_T>>,
         ActiveLeft' = ActiveLeft, ToSet(q["INACTIVE"]) \subseteq ToSet(q'["INACTIVE"]),
         ToSet(q["NBASSIGN"]) \subseteq ToSet(q'["NBASSIGN"]), ToSet(q["DELAY0"]) \subseteq ToSet(q'["DELAY0"]),
         ToSet(q["MONITOR"]) \subseteq ToSet(q'["MONITOR"]),
         TableLeft(stage, static_table, i, j) \subseteq TableLeft(stage', static_table', i', j')
  PROVE  Regions!Execute
<1>1. Pending(future_q', future_T', lpm_q', lpm_T') = Pending(future_q, future_T, lpm_q, lpm_T)
  OBVIOUS
<1> DEFINE P == Pending(future_q, future_T, lpm_q, lpm_T)
           P2 == Pending(future_q', future_T', lpm_q', lpm_T')
<1>2. \A f \in P2 \ P : f[2] > T
  BY <1>1
<1>3. \A f \in P \ P2 : \E g \in P2 : g[1] = f[1] /\ g[2] > T
  BY <1>1
<1> QED
  BY <1>2, <1>3, ThreadExecutes

\* A change leaves the table with what it had.
LEMMA ChangedTable ==
  ASSUME Shape, NEW s \in Signals, NEW c, Changed(s, c)
  PROVE  TableLeft(stage, static_table, i, j) \subseteq TableLeft(stage, static_table', i, j)
<1>1. static_table \in Seq(Seq(Statics)) /\ i \in Nat /\ j \in Nat
  BY DEF Shape, TypeOK
<1>2. /\ static_table' = IF SList[s] = <<>> THEN static_table ELSE Append(static_table, SList[s])
      /\ SList[s] \in Seq(Statics)
  BY ChangedIs
<1>3. TableLeft(stage, static_table, i, j) \subseteq TableLeft(stage, Append(static_table, SList[s]), i, j)
  BY <1>1, <1>2, TableMore
<1> QED
  BY <1>2, <1>3

\* A signal changes while a thread runs.
LEMMA ChangeExecutes ==
  ASSUME Shape, Shape', cur # None, cur' \in {cur, None}, NEW s \in Signals, NEW c, Changed(s, c), PlaceOK,
         UNCHANGED <<T, stage, i, j, active_head, future_q, future_T, lpm_q, lpm_T>>
  PROVE  Regions!Execute
<1>1. q'["ACTIVE"] = q["ACTIVE"] /\ q'["NBASSIGN"] = q["NBASSIGN"] /\ q'["MONITOR"] = q["MONITOR"] /\ q'["DELAY0"] = q["DELAY0"]
  BY ChangedIs DEF QNames
<1>2. ActiveLeft' = ActiveLeft
  BY <1>1, ThreadLeft
<1>3. ToSet(q["INACTIVE"]) \subseteq ToSet(q'["INACTIVE"])
  BY ChangedMoves
<1>4. TableLeft(stage, static_table, i, j) \subseteq TableLeft(stage', static_table', i', j')
  BY ChangedTable
<1> QED
  BY <1>1, <1>2, <1>3, <1>4, ThreadExecutesNow

\* A queue that grows at its end keeps what it has.
LEMMA MoreIn == ASSUME NEW S, NEW s \in Seq(S), NEW e \in S PROVE ToSet(s) \subseteq ToSet(Append(s, e))
BY CountAppend

\* A thread queues a nonblocking assignment.
LEMMA NbExecutes ==
  ASSUME Shape, Shape', cur # None, cur' = cur, NEW n \in Nbs, pint_enqueue_nb_thread_by_idx(n),
         UNCHANGED <<T, stage, i, j, active_head, static_table, future_q, future_T, lpm_q, lpm_T>>
  PROVE  Regions!Execute
<1>0. TypeOK /\ QueueOK /\ q["NBASSIGN"] \in Seq(Nbs)
  BY DEF Shape, QueueOK
<1>1. /\ q'["NBASSIGN"] = IF n \in flags THEN q["NBASSIGN"] ELSE Append(q["NBASSIGN"], n)
      /\ \A m \in {"ACTIVE", "INACTIVE", "DELAY0", "MONITOR"} : q'[m] = q[m]
  BY <1>0, NbEnqueued
<1>2. ActiveLeft' = ActiveLeft
  BY <1>1, ThreadLeft
<1>3. ToSet(q["NBASSIGN"]) \subseteq ToSet(q'["NBASSIGN"])
  BY <1>0, <1>1, MoreIn
<1> QED
  BY <1>1, <1>2, <1>3, ThreadExecutesNow

\* A delayed entry of a process or of a nonblocking assignment.
LEMMA FutureExecutes ==
  ASSUME Shape, Shape', cur # None, cur' \in {cur, None}, NEW x \in FutureStructs, NEW d \in Delays, d > 0,
         pint_enqueue_thread_future(x, T + d), UNCHANGED <<q, T, stage, i, j, active_head, static_table, lpm_q, lpm_T>>
  PROVE  Regions!Execute
<1>1. future_T' = [future_T EXCEPT ![x] = T + d] /\ future_q' = Append(future_q, x)
  BY DEF pint_enqueue_thread_future
<1>2. /\ future_T \in [FutureStructs -> Nat] /\ future_q \in Seq(FutureStructs) /\ T \in Nat /\ d \in Nat
  BY MainAssumption DEF Shape, TypeOK
<1>3. T + d \in Nat /\ T + d > T
  BY <1>2
<1>4. ActiveLeft' = ActiveLeft
  BY ThreadLeft
<1> DEFINE P == Pending(future_q, future_T, lpm_q, lpm_T)
           P2 == Pending(future_q', future_T', lpm_q', lpm_T')
<1>5. /\ ToSet(future_q) \subseteq FutureStructs /\ ToSet(future_q') = ToSet(future_q) \cup {x}
      /\ future_T'[x] = T + d /\ \A y \in FutureStructs : y # x => future_T'[y] = future_T[y]
  BY <1>1, <1>2, SetType, CountAppend
<1>6. Later(P, Pending(future_q', future_T', lpm_q, lpm_T), T)
  BY <1>3, <1>5, PendingMore
<1>7. (\A f \in P2 \ P : f[2] > T) /\ \A f \in P \ P2 : \E g \in P2 : g[1] = f[1] /\ g[2] > T
  BY <1>6, Zenon DEF Later
<1> QED
  BY <1>4, <1>7, ThreadExecutes

\* Every statement executes an active event.
LEMMA AssignStmtRefines ==
  ASSUME Shape, Shape', PlaceOK, NEW s \in Signals, AssignStmt(s) PROVE Regions!Execute
<1>1. /\ cur # None /\ cur' = cur /\ Changed(s, {})
      /\ UNCHANGED <<T, stage, i, j, active_head, future_q, future_T, lpm_q, lpm_T>>
  BY Names DEF AssignStmt, ctl
<1> QED
  BY <1>1, ChangeExecutes

\* @(s).
LEMMA WaitStmtRefines == ASSUME Shape, Shape', NEW s \in Signals, WaitStmt(s) PROVE Regions!Execute
<1>1. /\ cur # None /\ cur' = None
      /\ UNCHANGED <<q, static_table, T, stage, i, j, active_head, future_q, future_T, lpm_q, lpm_T>>
  BY Names DEF WaitStmt, ctl, data
<1> QED
  BY <1>1, ThreadLeft, ThreadExecutesNow

\* n <= expression.
LEMMA NbAssignStmtRefines == ASSUME Shape, Shape', NEW n \in Nbs, NbAssignStmt(n) PROVE Regions!Execute
<1>1. /\ cur # None /\ cur' = cur /\ pint_enqueue_nb_thread_by_idx(n)
      /\ UNCHANGED <<T, stage, i, j, active_head, static_table, future_q, future_T, lpm_q, lpm_T>>
  BY Names DEF NbAssignStmt, ctl
<1> QED
  BY <1>1, NbExecutes

\* n <= #d expression.
LEMMA NbFutureStmtRefines ==
  ASSUME Shape, Shape', NEW n \in Nbs, NEW d \in Delays, NbFutureStmt(n, d) PROVE Regions!Execute
<1>1. /\ cur # None /\ cur' = cur /\ n \in FutureStructs
      /\ UNCHANGED <<T, stage, i, j, active_head, static_table, lpm_q, lpm_T>>
  BY Names DEF NbFutureStmt, ctl, FutureStructs
<1>2. CASE d > 0 /\ pint_enqueue_thread_future(n, T + d) /\ UNCHANGED <<q, flags>>
  BY <1>1, <1>2, FutureExecutes
<1>3. CASE pint_enqueue_nb_thread_by_idx(n) /\ UNCHANGED <<future_T, future_q>>
  BY <1>1, <1>3, NbExecutes
<1> QED
  BY <1>2, <1>3 DEF NbFutureStmt, pint_enqueue_nb_future

\* $strobe.
LEMMA StrobeStmtRefines == ASSUME Shape, Shape', NEW m \in Strobes, StrobeStmt(m) PROVE Regions!Execute
<1>1. /\ cur # None /\ cur' = cur
      /\ UNCHANGED <<T, stage, i, j, active_head, static_table, future_q, future_T, lpm_q, lpm_T>>
      /\ q' = IF m \in mflags THEN q ELSE pint_enqueue_thread(q, "MONITOR", m)
  BY Names DEF StrobeStmt, ctl
<1>2. /\ \A k \in {"ACTIVE", "INACTIVE", "NBASSIGN", "DELAY0"} : q'[k] = q[k]
      /\ ToSet(q["MONITOR"]) \subseteq ToSet(q'["MONITOR"])
  <2>1. CASE m \in mflags
    BY <1>1, <2>1
  <2>2. CASE m \notin mflags
    <3>1. "MONITOR" \in QNames /\ QueueOK /\ q' = pint_enqueue_thread(q, "MONITOR", m) /\ q["MONITOR"] \in Seq(Strobes)
      BY <1>1, <2>2 DEF QNames, Shape, QueueOK
    <3>2. q'["MONITOR"] = Append(q["MONITOR"], m) /\ \A k \in QNames \ {"MONITOR"} : q'[k] = q[k]
      BY <3>1, EnqueuedOK
    <3>3. ToSet(q["MONITOR"]) \subseteq ToSet(Append(q["MONITOR"], m))
      BY <3>1, MoreIn
    <3> QED
      BY <3>2, <3>3 DEF QNames
  <2> QED
    BY <2>1, <2>2
<1>3. ActiveLeft' = ActiveLeft
  BY <1>1, <1>2, ThreadLeft
<1> QED
  BY <1>1, <1>2, <1>3, ThreadExecutesNow

\* $finish.
LEMMA FinishStmtRefines == ASSUME Shape, Shape', FinishStmt PROVE Regions!Execute
<1>1. /\ cur # None /\ cur' = cur
      /\ UNCHANGED <<q, static_table, T, stage, i, j, active_head, future_q, future_T, lpm_q, lpm_T>>
  BY Names DEF FinishStmt, queues, data
<1> QED
  BY <1>1, ThreadLeft, ThreadExecutesNow

\* The end of a thread.
LEMMA ThreadReturnsRefines == ASSUME Shape, Shape', ThreadReturns PROVE Regions!Execute
<1>1. /\ cur # None /\ cur' = None
      /\ UNCHANGED <<q, static_table, T, stage, i, j, active_head, future_q, future_T, lpm_q, lpm_T>>
  BY Names DEF ThreadReturns, queues, data, ctl
<1> QED
  BY <1>1, ThreadLeft, ThreadExecutesNow

\* #d.
LEMMA DelayStmtRefines == ASSUME Shape, Shape', NEW d \in Delays, DelayStmt(d) PROVE Regions!Execute
<1>1. /\ cur # None /\ cur' = None /\ cur \in FutureStructs /\ cur \in Procs
      /\ UNCHANGED <<T, stage, i, j, active_head, static_table, lpm_q, lpm_T>>
  BY Names DEF DelayStmt, ctl, FutureStructs
<1>2. CASE d > 0 /\ pint_enqueue_thread_future(cur, T + d) /\ UNCHANGED q
  BY <1>1, <1>2, FutureExecutes
<1>3. CASE q' = pint_enqueue_thread(q, "DELAY0", cur) /\ UNCHANGED <<future_T, future_q>>
  <2>1. "DELAY0" \in QNames /\ QueueOK /\ q["DELAY0"] \in Seq(Procs)
    BY DEF QNames, Shape, QueueOK
  <2>2. q'["DELAY0"] = Append(q["DELAY0"], cur) /\ \A k \in QNames \ {"DELAY0"} : q'[k] = q[k]
    BY <1>1, <1>3, <2>1, EnqueuedOK
  <2>3. ToSet(q["DELAY0"]) \subseteq ToSet(Append(q["DELAY0"], cur))
    BY <1>1, <2>1, MoreIn
  <2>4. /\ \A k \in {"ACTIVE", "INACTIVE", "NBASSIGN", "MONITOR"} : q'[k] = q[k]
        /\ ToSet(q["DELAY0"]) \subseteq ToSet(q'["DELAY0"])
    BY <2>2, <2>3 DEF QNames
  <2>5. ActiveLeft' = ActiveLeft
    BY <1>1, <2>4, ThreadLeft
  <2> QED
    BY <1>1, <1>3, <2>4, <2>5, ThreadExecutesNow
<1> QED
  BY <1>2, <1>3 DEF DelayStmt

\* An LPM drives its output.
LEMMA LpmDrivesRefines == ASSUME Shape, Shape', PlaceOK, LpmDrives PROVE Regions!Execute
<1>1. /\ cur # None /\ cur' = None /\ cur \in Signals
      /\ UNCHANGED <<T, stage, i, j, active_head, future_q, future_T, lpm_q, lpm_T>>
  BY Names DEF LpmDrives, ctl, Signals
<1>2. CASE Changed(cur, {cur})
  BY <1>1, <1>2, ChangeExecutes
<1>3. CASE UNCHANGED <<static_table, q>>
  BY <1>1, <1>3, ThreadLeft, ThreadExecutesNow
<1> QED
  BY <1>2, <1>3 DEF LpmDrives

\* An LPM waits for its delay.
LEMMA LpmWaitsRefines == ASSUME Shape, Shape', NEW d \in Delays, LpmWaits(d) PROVE Regions!Execute
<1>1. /\ cur # None /\ cur' = None /\ cur \in Lpms
      /\ UNCHANGED <<T, stage, i, j, active_head, static_table, future_q, future_T>>
  BY Names DEF LpmWaits, ctl
<1>2. CASE d > 0 /\ pint_lpm_enqueue_thread_future(cur, T + d) /\ UNCHANGED q
  <2>1. lpm_T' = [lpm_T EXCEPT ![cur] = T + d] /\ lpm_q' = IF cur \in ToSet(lpm_q) THEN lpm_q ELSE Append(lpm_q, cur)
    BY <1>2 DEF pint_lpm_enqueue_thread_future
  <2>2. lpm_T \in [Lpms -> Nat] /\ lpm_q \in Seq(Lpms) /\ T \in Nat /\ d \in Nat
    BY MainAssumption DEF Shape, TypeOK
  <2>3. T + d \in Nat /\ T + d > T
    BY <1>2, <2>2
  <2>4. ToSet(lpm_q') = ToSet(lpm_q) \cup {cur}
    BY <1>1, <2>1, <2>2, CountAppend
  <2> DEFINE P == Pending(future_q, future_T, lpm_q, lpm_T)
             P2 == Pending(future_q', future_T', lpm_q', lpm_T')
  <2>5. /\ ToSet(lpm_q) \subseteq Lpms /\ lpm_T'[cur] = T + d
        /\ \A y \in Lpms : y # cur => lpm_T'[y] = lpm_T[y]
    BY <1>1, <2>1, <2>2, SetType
  <2>6. Later(Pending(lpm_q, lpm_T, future_q, future_T), Pending(lpm_q', lpm_T', future_q, future_T), T)
    BY <1>1, <2>3, <2>4, <2>5, PendingMore
  <2>9. P = Pending(lpm_q, lpm_T, future_q, future_T) /\ P2 = Pending(lpm_q', lpm_T', future_q, future_T)
    BY <1>1, PendingSwap
  <2>7. (\A f \in P2 \ P : f[2] > T) /\ \A f \in P \ P2 : \E g \in P2 : g[1] = f[1] /\ g[2] > T
    BY <2>6, <2>9, Zenon DEF Later
  <2>8. ActiveLeft' = ActiveLeft
    BY <1>1, <1>2, ThreadLeft
  <2> QED
    BY <1>1, <1>2, <2>7, <2>8, ThreadExecutes
<1>3. CASE q' = pint_enqueue_thread(q, "INACTIVE", cur) /\ UNCHANGED <<lpm_T, lpm_q>>
  <2>1. "INACTIVE" \in QNames /\ QueueOK /\ q["INACTIVE"] \in Seq(Procs \cup Lpms)
    BY DEF QNames, Shape, QueueOK
  <2>2. q'["INACTIVE"] = Append(q["INACTIVE"], cur) /\ \A k \in QNames \ {"INACTIVE"} : q'[k] = q[k]
    BY <1>1, <1>3, <2>1, EnqueuedOK
  <2>3. ToSet(q["INACTIVE"]) \subseteq ToSet(Append(q["INACTIVE"], cur))
    BY <1>1, <2>1, MoreIn
  <2>4. /\ \A k \in {"ACTIVE", "DELAY0", "NBASSIGN", "MONITOR"} : q'[k] = q[k]
        /\ ToSet(q["INACTIVE"]) \subseteq ToSet(q'["INACTIVE"])
    BY <2>2, <2>3 DEF QNames
  <2>5. ActiveLeft' = ActiveLeft
    BY <1>1, <2>4, ThreadLeft
  <2> QED
    BY <1>1, <1>3, <2>4, <2>5, ThreadExecutesNow
<1> QED
  BY <1>2, <1>3 DEF LpmWaits

-----------------------------------------------------------------------------
(* The refinement: main's steps. *)

\* Outside the static stage the counters do not matter.
LEMMA TableSame ==
  ASSUME Shape, static_table' = static_table, stage # "static", stage' # "static"
  PROVE  TableLeft(stage', static_table', i', j') = TableLeft(stage, static_table, i, j)
<1>1. static_table \in Seq(Seq(Statics)) /\ i \in Nat /\ j \in Nat
  BY DEF Shape, TypeOK
<1> QED
  BY <1>1, TableStart

\* A queue that is empty.
LEMMA EmptySet == ToSet(<<>>) = {}
BY CountEmpty

\* Only the active region could change, and it does not.
LEMMA PlainStutters ==
  ASSUME stage \in {"active", "static", "delay0"}, stage' \in {"active", "static", "delay0"},
         UNCHANGED <<T, future_q, future_T, lpm_q, lpm_T>>,
         \A m \in {"NBASSIGN", "DELAY0", "MONITOR"} : q'[m] = q[m],
         TableLeft(stage', static_table', i', j') = TableLeft(stage, static_table, i, j),
         ({cur'} \ {None}) \cup ToSet(ActiveLeft') \cup ToSet(q'["INACTIVE"])
           = ({cur} \ {None}) \cup ToSet(ActiveLeft) \cup ToSet(q["INACTIVE"])
  PROVE  [Regions!Next]_(Regions!rvars)
<1>1. /\ ActiveRegion = ({cur} \ {None}) \cup ToSet(ActiveLeft) \cup ToSet(q["INACTIVE"])
                        \cup TableLeft(stage, static_table, i, j)
      /\ NbaRegion = ToSet(q["NBASSIGN"])
      /\ FutureRegion = Pending(future_q, future_T, lpm_q, lpm_T) /\ Stopped = FALSE
  BY RegionsIs
<1>2. /\ ActiveRegion' = ({cur'} \ {None}) \cup ToSet(ActiveLeft') \cup ToSet(q'["INACTIVE"])
                        \cup TableLeft(stage', static_table', i', j')
      /\ NbaRegion' = ToSet(q'["NBASSIGN"])
      /\ FutureRegion' = Pending(future_q', future_T', lpm_q', lpm_T') /\ Stopped' = FALSE
  BY RegionsAfter
<1>3. ZeroRegion' = ZeroRegion /\ PostponedRegion' = PostponedRegion
  BY OtherRegions
<1>4. ActiveRegion' = ActiveRegion /\ NbaRegion' = NbaRegion /\ FutureRegion' = FutureRegion
  BY <1>1, <1>2
<1> QED
  BY <1>1, <1>2, <1>3, <1>4, Stutters

\* A thread is taken from the active queue: it is still active.
LEMMA RunActiveRefines == ASSUME Shape, RunActive PROVE [Regions!Next]_(Regions!rvars)
<1>1. /\ stage = "active" /\ cur = None /\ i < active_head /\ active_head = Len(q["ACTIVE"]) /\ i \in Nat
      /\ cur' = q["ACTIVE"][i + 1] /\ i' = i + 1 /\ q["ACTIVE"] \in Seq(Procs \cup Lpms)
      /\ UNCHANGED <<q, static_table, future_q, future_T, lpm_q, lpm_T, active_head, T, stage, j>>
  BY DEF RunActive, queues, data, Shape, StageOK, TypeOK, QueueOK
<1>2. (i + 1) + 1 = i + 2
  BY <1>1
<1>3. /\ ActiveLeft = SubSeq(q["ACTIVE"], i + 1, Len(q["ACTIVE"]))
      /\ ActiveLeft' = SubSeq(q["ACTIVE"], i + 2, Len(q["ACTIVE"]))
  BY <1>1, <1>2, LeftIs
<1>4. ToSet(ActiveLeft) = {cur'} \cup ToSet(ActiveLeft') /\ cur' \in Procs \cup Lpms
  BY <1>1, <1>3, CountSub
<1>5. cur' # None
  BY <1>4, Names
<1>6. TableLeft(stage', static_table', i', j') = TableLeft(stage, static_table, i, j)
  BY <1>1, TableSame
<1>7. ({cur'} \ {None}) \cup ToSet(ActiveLeft') \cup ToSet(q'["INACTIVE"])
           = ({cur} \ {None}) \cup ToSet(ActiveLeft) \cup ToSet(q["INACTIVE"])
  BY <1>1, <1>4, <1>5
<1> QED
  BY <1>1, <1>6, <1>7, PlainStutters

\* The swap moves active threads to the active queue.
LEMMA SwapActiveRefines == ASSUME Shape, SwapActive PROVE [Regions!Next]_(Regions!rvars)
<1>0. QueueOK
  BY DEF Shape
<1>1. /\ stage = "active" /\ i = Len(q["ACTIVE"]) /\ active_head = Len(q["ACTIVE"]) /\ i' = 0
      /\ active_head' = Len(q["INACTIVE"]) /\ q["ACTIVE"] \in Seq(Procs \cup Lpms) /\ q["INACTIVE"] \in Seq(Procs \cup Lpms)
      /\ UNCHANGED <<static_table, future_q, future_T, lpm_q, lpm_T, T, stage, j, cur>>
      /\ q' = pint_swap_active_and_inactive_queue(q)
  BY DEF SwapActive, data, Shape, StageOK, QueueOK
<1>2. q'["ACTIVE"] = q["INACTIVE"] /\ q'["INACTIVE"] = <<>> /\ \A m \in {"NBASSIGN", "DELAY0", "MONITOR"} : q'[m] = q[m]
  BY <1>0, <1>1, Swapped
<1>3. /\ ActiveLeft = SubSeq(q["ACTIVE"], Len(q["ACTIVE"]) + 1, Len(q["ACTIVE"]))
      /\ ActiveLeft' = SubSeq(q["INACTIVE"], 0 + 1, Len(q["INACTIVE"]))
  BY <1>1, <1>2, LeftIs
<1>4. ActiveLeft = <<>> /\ ActiveLeft' = q["INACTIVE"]
  BY <1>1, <1>3, LeftEnds
<1>5. TableLeft(stage', static_table', i', j') = TableLeft(stage, static_table, i, j)
  BY <1>1, TableSame
<1>6. ({cur'} \ {None}) \cup ToSet(ActiveLeft') \cup ToSet(q'["INACTIVE"])
           = ({cur} \ {None}) \cup ToSet(ActiveLeft) \cup ToSet(q["INACTIVE"])
  BY <1>1, <1>2, <1>4, EmptySet
<1> QED
  BY <1>1, <1>2, <1>5, <1>6, PlainStutters

\* The table is done: the threads it queued are active.
LEMMA StaticDoneRefines == ASSUME Shape, StaticDone PROVE [Regions!Next]_(Regions!rvars)
<1>0. QueueOK
  BY DEF Shape
<1>1. /\ stage = "static" /\ stage' = "active" /\ i = Len(static_table) /\ i' = 0 /\ static_table' = <<>>
      /\ q["ACTIVE"] = <<>> /\ active_head' = Len(q["INACTIVE"]) /\ q["INACTIVE"] \in Seq(Procs \cup Lpms)
      /\ UNCHANGED <<future_q, future_T, lpm_q, lpm_T, T, j, cur>>
      /\ q' = pint_swap_active_and_inactive_queue(q)
  BY DEF StaticDone, data, Shape, StageOK, QueueOK
<1>2. q'["ACTIVE"] = q["INACTIVE"] /\ q'["INACTIVE"] = <<>> /\ \A m \in {"NBASSIGN", "DELAY0", "MONITOR"} : q'[m] = q[m]
  BY <1>0, <1>1, Swapped
<1>3. ActiveLeft = q["ACTIVE"] /\ ActiveLeft' = SubSeq(q["INACTIVE"], 0 + 1, Len(q["INACTIVE"]))
  BY <1>1, <1>2, LeftIs
<1>4. ActiveLeft = <<>> /\ ActiveLeft' = q["INACTIVE"]
  BY <1>1, <1>3, LeftEnds
<1>5. TableLeft(stage', static_table', i', j') = {} /\ TableLeft(stage, static_table, i, j) = {}
  <2>1. static_table \in Seq(Seq(Statics)) /\ i \in Nat /\ j \in Nat
    BY DEF Shape, TypeOK
  <2>2. TableLeft(stage, static_table, i, j) = {}
    BY <1>1, <2>1, TableNone
  <2>3. <<>> \in Seq(Seq(Statics)) /\ 0 \in Nat
    OBVIOUS
  <2>4. TableLeft(stage', <<>>, 0, j) = {}
    BY <2>1, <2>3, TableNone
  <2> QED
    BY <1>1, <2>2, <2>4
<1>6. ({cur'} \ {None}) \cup ToSet(ActiveLeft') \cup ToSet(q'["INACTIVE"])
           = ({cur} \ {None}) \cup ToSet(ActiveLeft) \cup ToSet(q["INACTIVE"])
  BY <1>1, <1>2, <1>4, EmptySet
<1> QED
  BY <1>1, <1>2, <1>5, <1>6, PlainStutters

\* main executes an active event.
LEMMA MainExecutes ==
  ASSUME Shape', stage \notin {"release", "dlpm", "stop"}, UNCHANGED <<T, stage, future_q, future_T, lpm_q, lpm_T>>,
         NEW e \in ActiveRegion, ActiveRegion \ {e} \subseteq ActiveRegion', NbaRegion \subseteq NbaRegion',
         ZeroRegion \subseteq ZeroRegion', PostponedRegion \subseteq PostponedRegion'
  PROVE  Regions!Execute
<1>1. FutureRegion' = FutureRegion /\ Stopped = FALSE /\ Stopped' = FALSE
  BY RegionsIs, RegionsAfter
<1>2. ActiveRegion' \subseteq Threads \cup Nbs \cup Strobes
  BY ActiveTypeAfter
<1>3. /\ \A f \in FutureRegion' \ FutureRegion : f[2] > T
      /\ \A f \in FutureRegion \ FutureRegion' : \E g \in FutureRegion' : g[1] = f[1] /\ g[2] > T
  BY <1>1
<1>4. ~Stopped /\ Stopped' = Stopped
  BY <1>1
<1> QED
  BY <1>2, <1>3, <1>4, Zenon DEF Regions!Execute

\* A thread of the table is run, or skipped.
LEMMA RunStaticRefines == ASSUME Shape, Shape', RunStatic PROVE Regions!Execute
<1> DEFINE t == static_table[i + 1][j + 1]
<1>1. /\ stage = "static" /\ cur = None /\ i < Len(static_table) /\ j < Len(static_table[i + 1])
      /\ static_table \in Seq(Seq(Statics)) /\ i \in Nat /\ j \in Nat
      /\ IF j + 1 < Len(static_table[i + 1]) THEN i' = i /\ j' = j + 1 ELSE i' = i + 1 /\ j' = 0
      /\ UNCHANGED <<q, static_table, future_q, future_T, lpm_q, lpm_T, T, stage>>
  BY DEF RunStatic, queues, Shape, StageOK, TypeOK
<1>2. i' \in Nat /\ j' \in Nat
  BY DEF Shape, TypeOK
<1>3. /\ t \in TableLeft("static", static_table, i, j)
      /\ TableLeft("static", static_table, i, j) \ {t} \subseteq TableLeft("static", static_table, i', j')
  BY <1>1, <1>2, TableNext
<1> HIDE DEF t
<1>4. ActiveLeft' = ActiveLeft
  BY <1>1, LeftIs
<1>5. /\ ActiveRegion = ({cur} \ {None}) \cup ToSet(ActiveLeft) \cup ToSet(q["INACTIVE"])
                        \cup TableLeft(stage, static_table, i, j)
      /\ NbaRegion = ToSet(q["NBASSIGN"])
  BY <1>1, RegionsIs
<1>6. /\ ActiveRegion' = ({cur'} \ {None}) \cup ToSet(ActiveLeft') \cup ToSet(q'["INACTIVE"])
                        \cup TableLeft(stage', static_table', i', j')
      /\ NbaRegion' = ToSet(q'["NBASSIGN"])
  BY <1>1, RegionsAfter
<1>7. t \in ActiveRegion /\ ActiveRegion \ {t} \subseteq ActiveRegion'
  BY <1>1, <1>3, <1>4, <1>5, <1>6
<1>8. NbaRegion \subseteq NbaRegion' /\ ZeroRegion \subseteq ZeroRegion' /\ PostponedRegion \subseteq PostponedRegion'
  BY <1>1, <1>5, <1>6, OtherRegions
<1> QED
  BY <1>1, <1>7, <1>8, MainExecutes

\* A nonblocking assignment is applied.
LEMMA RunNbRefines == ASSUME Shape, Shape', PlaceOK, RunNb PROVE Regions!Execute
<1> DEFINE n == q["NBASSIGN"][i + 1]
<1>1. /\ stage = "nb" /\ i \in Nat /\ i < Len(q["NBASSIGN"]) /\ i' = i + 1 /\ q["NBASSIGN"] \in Seq(Nbs)
      /\ UNCHANGED <<future_q, future_T, lpm_q, lpm_T, T, active_head, stage, j, cur>>
      /\ Changed(n, {n}) \/ UNCHANGED <<static_table, q>>
  BY DEF Shape, TypeOK, QueueOK, RunNb
<1>2. n \in Nbs /\ n \in Signals
  BY <1>1 DEF Signals
<1>3. /\ \A m \in {"ACTIVE", "NBASSIGN", "DELAY0", "MONITOR"} : q'[m] = q[m]
      /\ ToSet(q["INACTIVE"]) \subseteq ToSet(q'["INACTIVE"])
      /\ TableLeft(stage, static_table, i, j) \subseteq TableLeft(stage, static_table', i, j)
  <2> HIDE DEF n
  <2>1. CASE Changed(n, {n})
    <3>1. \A m \in QNames \ {"INACTIVE"} : q'[m] = q[m]
      BY <1>2, <2>1, ChangedIs
    <3>2. ToSet(q["INACTIVE"]) \subseteq ToSet(q'["INACTIVE"])
      BY <1>2, <2>1, ChangedMoves
    <3>3. TableLeft(stage, static_table, i, j) \subseteq TableLeft(stage, static_table', i, j)
      BY <1>2, <2>1, ChangedTable
    <3> QED
      BY <3>1, <3>2, <3>3 DEF QNames
  <2>2. CASE UNCHANGED <<static_table, q>>
    BY <2>2
  <2> QED
    BY <1>1, <2>1, <2>2 DEF n
<1>4. TableLeft(stage, static_table', i, j) = TableLeft(stage', static_table', i', j')
  <2>1. static_table' \in Seq(Seq(Statics)) /\ i \in Nat /\ j \in Nat
    BY DEF Shape, TypeOK
  <2> QED
    BY <1>1, <2>1, TableStart
<1>5. (i + 1) + 1 = i + 2
  BY <1>1
<1>6. /\ NbLeft = SubSeq(q["NBASSIGN"], i + 1, Len(q["NBASSIGN"])) /\ ActiveLeft' = ActiveLeft
      /\ NbLeft' = SubSeq(q["NBASSIGN"], i + 2, Len(q["NBASSIGN"]))
  BY <1>1, <1>3, <1>5, LeftIs
<1>7. ToSet(NbLeft) = {n} \cup ToSet(NbLeft')
  BY <1>1, <1>6, CountSub
<1> HIDE DEF n
<1>8. /\ ActiveRegion = ({cur} \ {None}) \cup ToSet(ActiveLeft) \cup ToSet(q["INACTIVE"])
                        \cup TableLeft(stage, static_table, i, j) \cup ToSet(NbLeft)
      /\ NbaRegion = {}
  BY <1>1, RegionsIs
<1>9. ActiveRegion' = ({cur'} \ {None}) \cup ToSet(ActiveLeft') \cup ToSet(q'["INACTIVE"])
                        \cup TableLeft(stage', static_table', i', j') \cup ToSet(NbLeft')
  BY <1>1, RegionsAfter
<1>10. n \in ActiveRegion /\ ActiveRegion \ {n} \subseteq ActiveRegion'
  BY <1>1, <1>3, <1>4, <1>6, <1>7, <1>8, <1>9
<1>11. NbaRegion \subseteq NbaRegion' /\ ZeroRegion \subseteq ZeroRegion' /\ PostponedRegion \subseteq PostponedRegion'
  BY <1>1, <1>3, <1>8, OtherRegions
<1> QED
  BY <1>1, <1>10, <1>11, MainExecutes

\* A $strobe prints.
LEMMA RunMonitorRefines == ASSUME Shape, Shape', RunMonitor PROVE Regions!Execute
<1> DEFINE e == Last(q["MONITOR"])
<1>1. /\ stage = "monitor" /\ q["MONITOR"] \in Seq(Strobes) /\ q["MONITOR"] # <<>> /\ q'["MONITOR"] = Front(q["MONITOR"])
      /\ \A m \in {"ACTIVE", "INACTIVE", "NBASSIGN", "DELAY0"} : q'[m] = q[m]
      /\ UNCHANGED <<static_table, future_q, lpm_q, future_T, lpm_T, active_head, T, stage, i, j, cur>>
  BY RunMonitorIs
<1>2. ToSet(q["MONITOR"]) = ToSet(q'["MONITOR"]) \cup {e}
  BY <1>1, CountFront
<1> HIDE DEF e
<1>3. ActiveLeft' = ActiveLeft
  BY <1>1, LeftIs
<1>4. /\ ActiveRegion = ({cur} \ {None}) \cup ToSet(ActiveLeft) \cup ToSet(q["INACTIVE"])
                        \cup TableLeft(stage, static_table, i, j) \cup ToSet(q["MONITOR"])
      /\ NbaRegion = ToSet(q["NBASSIGN"])
  BY <1>1, RegionsIs
<1>5. /\ ActiveRegion' = ({cur'} \ {None}) \cup ToSet(ActiveLeft') \cup ToSet(q'["INACTIVE"])
                        \cup TableLeft(stage', static_table', i', j') \cup ToSet(q'["MONITOR"])
      /\ NbaRegion' = ToSet(q'["NBASSIGN"])
  BY <1>1, RegionsAfter
<1>6. e \in ActiveRegion /\ ActiveRegion \ {e} \subseteq ActiveRegion'
  BY <1>1, <1>2, <1>3, <1>4, <1>5
<1>7. NbaRegion \subseteq NbaRegion' /\ ZeroRegion \subseteq ZeroRegion' /\ PostponedRegion \subseteq PostponedRegion'
  BY <1>1, <1>4, <1>5, OtherRegions
<1> QED
  BY <1>1, <1>6, <1>7, MainExecutes

\* The nonblocking assignments are applied: what they woke is active.
LEMMA NbDoneRefines == ASSUME Shape, NbDone PROVE [Regions!Next]_(Regions!rvars)
<1>1. /\ stage = "nb" /\ i = Len(q["NBASSIGN"]) /\ q["ACTIVE"] = <<>> /\ q["NBASSIGN"] \in Seq(Nbs)
      /\ q["INACTIVE"] \in Seq(Procs \cup Lpms) /\ q'["ACTIVE"] = q["INACTIVE"] /\ q'["INACTIVE"] = <<>>
      /\ q'["NBASSIGN"] = <<>> /\ q'["DELAY0"] = q["DELAY0"] /\ q'["MONITOR"] = q["MONITOR"]
      /\ active_head' = Len(q'["ACTIVE"]) /\ i' = 0 /\ stage' \in {"active", "delay0"}
      /\ UNCHANGED <<static_table, future_q, lpm_q, T, j, cur, future_T, lpm_T>>
  BY NbDoneIs DEF QueueOK
<1>2. /\ ActiveLeft = q["ACTIVE"] /\ NbLeft = SubSeq(q["NBASSIGN"], Len(q["NBASSIGN"]) + 1, Len(q["NBASSIGN"]))
      /\ ActiveLeft' = IF stage' = "active" THEN SubSeq(q["INACTIVE"], 0 + 1, Len(q["INACTIVE"])) ELSE q["INACTIVE"]
  BY <1>1, LeftIs
<1>3. ActiveLeft = <<>> /\ NbLeft = <<>> /\ ActiveLeft' = q["INACTIVE"]
  BY <1>1, <1>2, LeftEnds
<1>4. TableLeft(stage', static_table', i', j') = TableLeft(stage, static_table, i, j)
  BY <1>1, TableSame
<1>5. /\ ActiveRegion = ({cur} \ {None}) \cup ToSet(ActiveLeft) \cup ToSet(q["INACTIVE"])
                        \cup TableLeft(stage, static_table, i, j) \cup ToSet(NbLeft)
      /\ NbaRegion = {} /\ FutureRegion = Pending(future_q, future_T, lpm_q, lpm_T) /\ Stopped = FALSE
  BY <1>1, RegionsIs
<1>6. /\ ActiveRegion' = ({cur'} \ {None}) \cup ToSet(ActiveLeft') \cup ToSet(q'["INACTIVE"])
                        \cup TableLeft(stage', static_table', i', j')
      /\ NbaRegion' = ToSet(q'["NBASSIGN"]) /\ FutureRegion' = Pending(future_q', future_T', lpm_q', lpm_T')
      /\ Stopped' = FALSE
  BY <1>1, RegionsAfter
<1>7. ActiveRegion' = ActiveRegion /\ NbaRegion' = NbaRegion
  BY <1>1, <1>3, <1>4, <1>5, <1>6, EmptySet
<1>8. FutureRegion' = FutureRegion /\ Stopped' = Stopped
  BY <1>1, <1>5, <1>6
<1>9. ZeroRegion' = ZeroRegion /\ PostponedRegion' = PostponedRegion
  BY <1>1, OtherRegions
<1> QED
  BY <1>1, <1>7, <1>8, <1>9, Stutters

\* The active queue came back empty: on to the table, or the nonblocking assignments
\* are activated.
LEMMA LeaveActiveRefines == ASSUME Shape, LeaveActive PROVE [Regions!Next]_(Regions!rvars)
<1>1. /\ stage = "active" /\ active_head = 0 /\ cur = None /\ q["ACTIVE"] = <<>> /\ q["INACTIVE"] = <<>> /\ i' = 0 /\ j' = 0
      /\ stage' = IF static_table # <<>> THEN "static" ELSE "nb"
      /\ q["NBASSIGN"] \in Seq(Nbs) /\ static_table \in Seq(Seq(Statics)) /\ i \in Nat /\ j \in Nat /\ i = 0
      /\ UNCHANGED <<q, static_table, future_q, lpm_q, T, cur, future_T, lpm_T>>
  <2>1. q["ACTIVE"] \in Seq(Procs \cup Lpms) /\ active_head = Len(q["ACTIVE"]) /\ active_head = 0
    BY DEF LeaveActive, Shape, QueueOK, StageOK
  <2>2. q["ACTIVE"] = <<>>
    <3>1. q["ACTIVE"] \in Seq(Procs \cup Lpms)
      BY <2>1
    <3>2. Len(q["ACTIVE"]) = 0
      BY <2>1
    <3> QED
      BY <3>1, <3>2
  <2>3. i \in Nat /\ i <= 0
    BY <2>1 DEF LeaveActive, Shape, StageOK, TypeOK
  <2>4. i = 0
    BY <2>3
  <2>5. q["NBASSIGN"] \in Seq(Nbs)
    BY DEF Shape, QueueOK
  <2>6. q["INACTIVE"] = <<>>
    BY <2>1 DEF LeaveActive, Shape, StageOK
  <2> QED
    BY <2>1, <2>2, <2>4, <2>5, <2>6 DEF LeaveActive, Shape, TypeOK, queues, data
<1>2. ActiveLeft = SubSeq(q["ACTIVE"], Len(q["ACTIVE"]) + 1, Len(q["ACTIVE"])) /\ ActiveLeft' = q["ACTIVE"]
  <2>1. Len(<<>>) = 0
    OBVIOUS
  <2> QED
    BY <1>1, <2>1, LeftIs
<1>3. ActiveLeft = <<>> /\ ActiveLeft' = <<>>
  <2>1. q["ACTIVE"] \in Seq(Procs \cup Lpms)
    BY DEF Shape, QueueOK
  <2> QED
    BY <1>1, <1>2, <2>1, LeftEnds
<1>4. CASE static_table # <<>>
  <2>1. TableLeft(stage', static_table', i', j') = TableLeft(stage, static_table, i, j)
    BY <1>1, <1>4, TableStart
  <2> QED
    BY <1>1, <1>3, <1>4, <2>1, PlainStutters
<1>5. CASE static_table = <<>>
  <2>1. TableLeft(stage', static_table', i', j') = {} /\ TableLeft(stage, static_table, i, j) = {}
    <3>1. 0 \in Nat /\ i' = 0 /\ j' = 0 /\ static_table' = static_table
      BY <1>1
    <3>2. TableLeft(stage, static_table, i, j) = {} /\ TableLeft(stage', static_table, 0, 0) = {}
      BY <1>1, <1>5, <3>1, TableNone
    <3> QED
      BY <3>1, <3>2
  <2>2. stage' = "nb" /\ NbLeft' = SubSeq(q["NBASSIGN"], 0 + 1, Len(q["NBASSIGN"]))
    BY <1>1, <1>5, LeftIs
  <2>3. NbLeft' = q["NBASSIGN"]
    BY <1>1, <2>2, LeftEnds
  <2>4. /\ ActiveRegion = ({cur} \ {None}) \cup ToSet(ActiveLeft) \cup ToSet(q["INACTIVE"])
                          \cup TableLeft(stage, static_table, i, j)
        /\ NbaRegion = ToSet(q["NBASSIGN"]) /\ FutureRegion = Pending(future_q, future_T, lpm_q, lpm_T) /\ Stopped = FALSE
    BY <1>1, RegionsIs
  <2>5. /\ ActiveRegion' = ({cur'} \ {None}) \cup ToSet(ActiveLeft') \cup ToSet(q'["INACTIVE"])
                          \cup TableLeft(stage', static_table', i', j') \cup ToSet(NbLeft')
        /\ NbaRegion' = {} /\ FutureRegion' = Pending(future_q', future_T', lpm_q', lpm_T') /\ Stopped' = FALSE
    BY <2>2, RegionsAfter
  <2>6. ActiveRegion = {} /\ ActiveRegion' = NbaRegion
    BY <1>1, <1>3, <2>1, <2>3, <2>4, <2>5, EmptySet
  <2>7. FutureRegion' = FutureRegion /\ Stopped' = Stopped
    BY <1>1, <2>4, <2>5
  <2>8. ZeroRegion' = ZeroRegion /\ PostponedRegion' = PostponedRegion
    BY <1>1, <2>2, OtherRegions
  <2>9. CASE NbaRegion = {}
    BY <1>1, <2>5, <2>6, <2>7, <2>8, <2>9, Stutters
  <2>10. CASE NbaRegion # {}
    <3>1. Regions!ActivateNba
      BY <1>1, <2>4, <2>5, <2>6, <2>7, <2>8, <2>10 DEF Regions!ActivateNba
    <3> QED
      BY <3>1 DEF Regions!Next
  <2> QED
    BY <2>9, <2>10
<1> QED
  BY <1>4, <1>5

\* The #0 events are activated.
LEMMA RunDelay0Refines == ASSUME Shape, RunDelay0 PROVE Regions!ActivateZero
<1>1. /\ stage = "delay0" /\ q["ACTIVE"] = <<>> /\ q["DELAY0"] \in Seq(Procs) /\ cur = None
      /\ q["INACTIVE"] = <<>> /\ static_table = <<>> /\ q["NBASSIGN"] = <<>> /\ q["DELAY0"] # <<>>
      /\ q'["ACTIVE"] = q["DELAY0"] /\ q'["DELAY0"] = <<>>
      /\ \A m \in {"INACTIVE", "NBASSIGN", "MONITOR"} : q'[m] = q[m]
      /\ active_head' = Len(q'["ACTIVE"]) /\ i' = 0 /\ stage' \in {"stop", "active"}
      /\ UNCHANGED <<static_table, future_q, lpm_q, T, j, cur, future_T, lpm_T>>
  BY RunDelay0Is
<1>2. /\ ActiveLeft = q["ACTIVE"]
      /\ ActiveLeft' = IF stage' = "active" THEN SubSeq(q["DELAY0"], 0 + 1, Len(q["DELAY0"])) ELSE q["DELAY0"]
  BY <1>1, LeftIs
<1>3. ActiveLeft = <<>> /\ ActiveLeft' = q["DELAY0"]
  BY <1>1, <1>2, LeftEnds
<1>4. TableLeft(stage, static_table, i, j) = {}
  <2>1. static_table \in Seq(Seq(Statics)) /\ i \in Nat /\ j \in Nat
    BY DEF Shape, TypeOK
  <2> QED
    BY <1>1, <2>1, TableNone
<1>5. TableLeft(stage', static_table', i', j') = {}
  BY <1>1, <1>4, TableSame
<1>6. /\ ActiveRegion = ({cur} \ {None}) \cup ToSet(ActiveLeft) \cup ToSet(q["INACTIVE"])
                        \cup TableLeft(stage, static_table, i, j)
      /\ NbaRegion = ToSet(q["NBASSIGN"]) /\ FutureRegion = Pending(future_q, future_T, lpm_q, lpm_T)
      /\ Stopped = FALSE
  BY <1>1, RegionsIs
<1>7. /\ ActiveRegion' = ({cur'} \ {None}) \cup ToSet(ActiveLeft') \cup ToSet(q'["INACTIVE"])
                        \cup TableLeft(stage', static_table', i', j')
      /\ NbaRegion' = ToSet(q'["NBASSIGN"]) /\ FutureRegion' = Pending(future_q', future_T', lpm_q', lpm_T')
      /\ Stopped' = (stage' = "stop")
  BY <1>1, RegionsAfter
<1>8. ZeroRegion = ToSet(q["DELAY0"]) /\ ZeroRegion' = ToSet(q'["DELAY0"]) /\ PostponedRegion' = PostponedRegion
  BY <1>1, OtherRegions
<1>9. ToSet(q["DELAY0"]) # {}
  BY <1>1, SetType
<1>10. ActiveRegion = {} /\ NbaRegion = {} /\ ZeroRegion # {} /\ ActiveRegion' = ZeroRegion /\ ZeroRegion' = {}
  BY <1>1, <1>3, <1>4, <1>5, <1>6, <1>7, <1>8, <1>9, EmptySet
<1>11. NbaRegion' = NbaRegion /\ FutureRegion' = FutureRegion
  BY <1>1, <1>6, <1>7
<1>12. ~Stopped /\ Stopped' \in BOOLEAN
  BY <1>6, <1>7, Zenon
<1> QED
  BY <1>1, <1>8, <1>10, <1>11, <1>12, Zenon DEF Regions!ActivateZero

\* Nothing but $strobe is left, and it is activated.
LEMMA NoDelay0Refines == ASSUME Shape, NoDelay0 PROVE [Regions!Next]_(Regions!rvars)
<1>1. /\ stage = "delay0" /\ stage' = "monitor" /\ cur = None /\ q["ACTIVE"] = <<>> /\ q["INACTIVE"] = <<>>
      /\ static_table = <<>> /\ q["NBASSIGN"] = <<>> /\ q["DELAY0"] = <<>>
      /\ UNCHANGED <<q, static_table, future_q, lpm_q, T, i, j, cur, future_T, lpm_T>>
  BY DEF NoDelay0, Shape, StageOK, queues, data
<1>2. ActiveLeft = <<>> /\ ActiveLeft' = <<>>
  BY <1>1, LeftIs
<1>3. TableLeft(stage, static_table, i, j) = {}
  <2>1. static_table \in Seq(Seq(Statics)) /\ i \in Nat /\ j \in Nat
    BY DEF Shape, TypeOK
  <2> QED
    BY <1>1, <2>1, TableNone
<1>4. TableLeft(stage', static_table', i', j') = {}
  BY <1>1, <1>3, TableSame
<1>5. /\ ActiveRegion = ({cur} \ {None}) \cup ToSet(ActiveLeft) \cup ToSet(q["INACTIVE"])
                        \cup TableLeft(stage, static_table, i, j)
      /\ NbaRegion = ToSet(q["NBASSIGN"]) /\ FutureRegion = Pending(future_q, future_T, lpm_q, lpm_T)
      /\ Stopped = FALSE
  BY <1>1, RegionsIs
<1>6. /\ ActiveRegion' = ({cur'} \ {None}) \cup ToSet(ActiveLeft') \cup ToSet(q'["INACTIVE"])
                        \cup TableLeft(stage', static_table', i', j') \cup ToSet(q'["MONITOR"])
      /\ NbaRegion' = ToSet(q'["NBASSIGN"]) /\ FutureRegion' = Pending(future_q', future_T', lpm_q', lpm_T')
      /\ Stopped' = FALSE
  BY <1>1, RegionsAfter
<1>7. /\ ZeroRegion = ToSet(q["DELAY0"]) /\ ZeroRegion' = ToSet(q'["DELAY0"])
      /\ PostponedRegion = ToSet(q["MONITOR"]) /\ PostponedRegion' = {}
  BY <1>1, OtherRegions
<1>8. /\ ActiveRegion = {} /\ NbaRegion = {} /\ ZeroRegion = {} /\ ActiveRegion' = PostponedRegion
      /\ NbaRegion' = NbaRegion /\ ZeroRegion' = ZeroRegion
  BY <1>1, <1>2, <1>3, <1>4, <1>5, <1>6, <1>7, EmptySet
<1>9. FutureRegion' = FutureRegion /\ Stopped' = Stopped
  BY <1>1, <1>5, <1>6
<1>10. CASE PostponedRegion = {}
  BY <1>1, <1>7, <1>8, <1>9, <1>10, Stutters
<1>11. CASE PostponedRegion # {}
  <2>1. Regions!ActivatePostponed
    BY <1>1, <1>5, <1>7, <1>8, <1>9, <1>11 DEF Regions!ActivatePostponed
  <2> QED
    BY <2>1 DEF Regions!Next
<1> QED
  BY <1>10, <1>11

\* Every $strobe has printed.
LEMMA MonitorDoneRefines == ASSUME Shape, MonitorDone PROVE [Regions!Next]_(Regions!rvars)
<1>1. /\ stage = "monitor" /\ stage' = "future"
      /\ UNCHANGED <<q, static_table, future_q, lpm_q, T, i, j, cur, future_T, lpm_T>>
  BY DEF MonitorDone, queues, data
<1>2. ActiveLeft' = ActiveLeft
  BY <1>1, LeftIs
<1>3. TableLeft(stage', static_table', i', j') = TableLeft(stage, static_table, i, j)
  BY <1>1, TableSame
<1>4. /\ ActiveRegion = ({cur} \ {None}) \cup ToSet(ActiveLeft) \cup ToSet(q["INACTIVE"])
                        \cup TableLeft(stage, static_table, i, j) \cup ToSet(q["MONITOR"])
      /\ NbaRegion = ToSet(q["NBASSIGN"]) /\ FutureRegion = Pending(future_q, future_T, lpm_q, lpm_T)
      /\ Stopped = FALSE
  BY <1>1, RegionsIs
<1>5. /\ ActiveRegion' = ({cur'} \ {None}) \cup ToSet(ActiveLeft') \cup ToSet(q'["INACTIVE"])
                        \cup TableLeft(stage', static_table', i', j') \cup ToSet(q'["MONITOR"])
      /\ NbaRegion' = ToSet(q'["NBASSIGN"]) /\ FutureRegion' = Pending(future_q', future_T', lpm_q', lpm_T')
      /\ Stopped' = FALSE
  BY <1>1, RegionsAfter
<1>6. ActiveRegion' = ActiveRegion /\ NbaRegion' = NbaRegion /\ FutureRegion' = FutureRegion /\ Stopped' = Stopped
  BY <1>1, <1>2, <1>3, <1>4, <1>5
<1>7. ZeroRegion' = ZeroRegion /\ PostponedRegion' = PostponedRegion
  BY <1>1, OtherRegions
<1> QED
  BY <1>1, <1>6, <1>7, Stutters

\* The regions while what is due is released.
ReleasingIs ==
  Shape /\ stage \in {"release", "dlpm"} =>
    /\ ActiveRegion = ToSet(q["ACTIVE"]) \cup (Released \ Nbs) \cup ReleasedLpms
    /\ NbaRegion = (Released \cap Nbs) \cup ToSet(q["NBASSIGN"])
    /\ ZeroRegion = {} /\ PostponedRegion = {}
    /\ Stopped = pint_stop

\* ... and after a step.
LEMMA Releasing == ReleasingIs /\ ReleasingIs'
<1>1. ReleasingIs
  <2> SUFFICES ASSUME Shape, stage \in {"release", "dlpm"}
               PROVE  /\ ActiveRegion = ToSet(q["ACTIVE"]) \cup (Released \ Nbs) \cup ReleasedLpms
                      /\ NbaRegion = (Released \cap Nbs) \cup ToSet(q["NBASSIGN"])
                      /\ ZeroRegion = {} /\ PostponedRegion = {}
                      /\ Stopped = pint_stop
    BY DEF ReleasingIs
  <2>1. cur = None /\ q["INACTIVE"] = <<>> /\ static_table = <<>> /\ q["DELAY0"] = <<>> /\ q["MONITOR"] = <<>>
    BY DEF Shape, StageOK
  <2>2. ActiveLeft = q["ACTIVE"]
    BY LeftIs
  <2>3. StaticLeft = {}
    <3>1. static_table \in Seq(Seq(Statics)) /\ i \in Nat /\ j \in Nat
      BY DEF Shape, TypeOK
    <3>2. TableLeft(stage, static_table, i, j) = {}
      BY <2>1, <3>1, TableNone
    <3> QED
      BY <3>2, StaticLeftIs
  <2>4. stage # "nb" /\ stage \notin {"monitor", "future"} /\ stage # "stop"
    OBVIOUS
  <2>5. ActiveRegion = ToSet(q["ACTIVE"]) \cup (Released \ Nbs) \cup ReleasedLpms
    BY <2>1, <2>2, <2>3, <2>4, EmptySet DEF ActiveRegion
  <2>6. NbaRegion = (Released \cap Nbs) \cup ToSet(q["NBASSIGN"])
    BY <2>4 DEF NbaRegion
  <2>7. ZeroRegion = {} /\ PostponedRegion = {}
    BY <2>1, <2>4, EmptySet DEF ZeroRegion, PostponedRegion
  <2>8. pint_stop \in BOOLEAN
    BY DEF Shape, TypeOK
  <2>9. Stopped = pint_stop
    BY <2>4, <2>8, Zenon DEF Stopped
  <2> QED
    BY <2>5, <2>6, <2>7, <2>9
<1> QED
  BY <1>1, PTL

\* In stage 5 every region but the future is empty.
LEMMA Stage5Quiet ==
  ASSUME Shape, stage = "future"
  PROVE  Regions!Quiet /\ FutureRegion = Pending(future_q, future_T, lpm_q, lpm_T) /\ ~Stopped
<1>1. /\ cur = None /\ q["ACTIVE"] = <<>> /\ q["INACTIVE"] = <<>> /\ static_table = <<>> /\ q["NBASSIGN"] = <<>>
      /\ q["DELAY0"] = <<>> /\ q["MONITOR"] = <<>>
  BY DEF Shape, StageOK
<1>2. ActiveLeft = <<>>
  BY <1>1, LeftIs
<1>3. TableLeft(stage, static_table, i, j) = {}
  <2>1. static_table \in Seq(Seq(Statics)) /\ i \in Nat /\ j \in Nat
    BY DEF Shape, TypeOK
  <2> QED
    BY <1>1, <2>1, TableNone
<1>4. /\ ActiveRegion = ({cur} \ {None}) \cup ToSet(ActiveLeft) \cup ToSet(q["INACTIVE"])
                        \cup TableLeft(stage, static_table, i, j) \cup ToSet(q["MONITOR"])
      /\ NbaRegion = ToSet(q["NBASSIGN"]) /\ FutureRegion = Pending(future_q, future_T, lpm_q, lpm_T)
      /\ Stopped = FALSE
  BY RegionsIs
<1>5. ZeroRegion = ToSet(q["DELAY0"]) /\ PostponedRegion = {}
  BY OtherRegions
<1>6. ActiveRegion = {} /\ NbaRegion = {} /\ ZeroRegion = {} /\ PostponedRegion = {}
  BY <1>1, <1>2, <1>3, <1>4, <1>5, EmptySet
<1> QED
  BY <1>4, <1>6 DEF Regions!Quiet

\* The time advances to the earliest delays: those of the released events.
LEMMA AdvanceStep ==
  ASSUME Shape, Shape', stage = "future", stage' \in {"release", "dlpm"}, UNCHANGED <<q, pint_stop>>,
         NEW due \in SUBSET FutureRegion, due # {}, \A f \in due : f[2] = T' /\ \A g \in FutureRegion : f[2] <= g[2],
         FutureRegion' = FutureRegion \ due, {f[1] : f \in due} = Released' \cup ReleasedLpms',
         Released' \subseteq FutureStructs, ReleasedLpms' \subseteq Lpms, T' >= T
  PROVE  Regions!Advance
<1>1. Regions!Quiet /\ ~Stopped
  BY Stage5Quiet
<1>2. /\ ActiveRegion' = ToSet(q'["ACTIVE"]) \cup (Released' \ Nbs) \cup ReleasedLpms'
      /\ NbaRegion' = (Released' \cap Nbs) \cup ToSet(q'["NBASSIGN"])
      /\ ZeroRegion' = {} /\ PostponedRegion' = {}
      /\ Stopped' = pint_stop'
  BY Releasing DEF ReleasingIs
<1>3. q'["ACTIVE"] = <<>> /\ q'["NBASSIGN"] = <<>>
  BY DEF Shape, StageOK
<1>4. \A l \in Lpms : l \notin Nbs
  BY NamesAssumption
<1> DEFINE N == {f[1] : f \in due}
<1>5. N = Released' \cup ReleasedLpms'
  OBVIOUS
<1>6. ActiveRegion' = N \ Nbs /\ NbaRegion' = N \cap Nbs
  <2> HIDE DEF N
  <2> QED
    BY <1>2, <1>3, <1>4, <1>5, EmptySet
<1>7. ZeroRegion' = ZeroRegion /\ PostponedRegion' = PostponedRegion
  BY <1>1, <1>2 DEF Regions!Quiet
<1>8. pint_stop' \in BOOLEAN
  BY DEF Shape, TypeOK
<1>9. due \in (SUBSET FutureRegion) \ {{}}
  OBVIOUS
<1>10. Stopped' \in BOOLEAN
  BY <1>2, <1>8, Zenon
<1> QED
  BY <1>1, <1>6, <1>7, <1>9, <1>10, Zenon DEF Regions!Advance

\* ... when the earliest is on the future queue,
LEMMA AdvanceFutureRefines == ASSUME Shape, Shape', AdvanceFuture PROVE Regions!Advance
<1>1. /\ stage = "future" /\ stage' = "release" /\ Earliest(future_q, future_T, T')
      /\ \A x \in DOMAIN lpm_q : T' < lpm_T[lpm_q[x]]
      /\ UNCHANGED <<q, future_q, future_T, lpm_q, lpm_T, pint_stop>>
  BY DEF AdvanceFuture, queues, data
<1>2. /\ \A x \in ToSet(future_q) : T' <= future_T[x]
      /\ \A l \in ToSet(lpm_q) : T' < lpm_T[l]
      /\ \E x \in ToSet(future_q) : future_T[x] = T'
  BY <1>1 DEF Earliest, ToSet
<1>3. /\ Released' = {x \in ToSet(future_q) : future_T[x] = T'} /\ ReleasedLpms' = {}
      /\ FutureRegion' = {<<x, future_T[x]>> : x \in ToSet(future_q) \ Released'} \cup {<<l, lpm_T[l]>> : l \in ToSet(lpm_q) \ {}}
  <2>1. stage' = "release" /\ stage' # "dlpm" /\ future_q' = future_q /\ future_T' = future_T /\ lpm_q' = lpm_q /\ lpm_T' = lpm_T
    BY <1>1
  <2>2. ReleasedLpms' = {}
    BY <2>1 DEF ReleasedLpms
  <2>3. Released' = {x \in ToSet(future_q) : future_T[x] = T'}
    BY <2>1 DEF Released
  <2>4. FutureRegion' = {<<x, future_T'[x]>> : x \in ToSet(future_q') \ Released'}
                        \cup {<<l, lpm_T'[l]>> : l \in ToSet(lpm_q') \ ReleasedLpms'}
    BY Zenon DEF FutureRegion
  <2> QED
    BY <2>1, <2>2, <2>3, <2>4, Zenon
<1>4. FutureRegion = {<<x, future_T[x]>> : x \in ToSet(future_q)} \cup {<<l, lpm_T[l]>> : l \in ToSet(lpm_q)}
  BY <1>1, Stage5Quiet DEF Pending
<1> DEFINE due == {<<x, future_T[x]>> : x \in Released'}
<1>5. due \in SUBSET FutureRegion /\ due # {}
  BY <1>2, <1>3, <1>4
<1>6. ASSUME NEW f \in due PROVE f[2] = T' /\ \A g \in FutureRegion : f[2] <= g[2]
  <2>1. f[2] = T'
    BY <1>3, <1>6
  <2>2. T' \in Int /\ \A l \in ToSet(lpm_q) : lpm_T[l] \in Int
    BY SetType DEF Shape, TypeOK
  <2>3. \A g \in FutureRegion : T' <= g[2]
    BY <1>2, <1>4, <2>2
  <2> QED
    BY <2>1, <2>3
<1>7. FutureRegion' = FutureRegion \ due
  <2>1. \A l \in ToSet(lpm_q) : lpm_T[l] # T'
    <3>1. T' \in Int /\ \A l \in ToSet(lpm_q) : lpm_T[l] \in Int
      BY SetType DEF Shape, TypeOK
    <3> QED
      BY <1>2, <3>1
  <2>2. ASSUME NEW f PROVE f \in FutureRegion' <=> f \in FutureRegion \ due
    BY <1>3, <1>4, <2>1
  <2> QED
    BY <2>2
<1>8. {f[1] : f \in due} = Released' \cup ReleasedLpms'
  <2>1. ASSUME NEW f \in due PROVE f[1] \in Released'
    <3>1. PICK y \in Released' : f = <<y, future_T[y]>>
      BY <2>1
    <3> QED
      BY <3>1
  <2>2. ASSUME NEW y \in Released' PROVE \E f \in due : f[1] = y
    <3>1. <<y, future_T[y]>> \in due
      OBVIOUS
    <3>2. <<y, future_T[y]>>[1] = y
      OBVIOUS
    <3> HIDE DEF due
    <3> QED
      BY <3>1, <3>2
  <2>3. Released' \cup ReleasedLpms' = Released'
    BY <1>3
  <2> HIDE DEF due
  <2> QED
    BY <2>1, <2>2, <2>3
<1>9. Released' \subseteq FutureStructs /\ ReleasedLpms' \subseteq Lpms
  BY <1>3, SetType DEF Shape, TypeOK
<1>10. T' >= T
  <2>1. \A x \in ToSet(future_q) : T <= future_T[x]
    BY DEF Shape, TimeOK
  <2>2. T \in Int /\ T' \in Int
    BY DEF Shape, TypeOK
  <2> QED
    BY <1>2, <2>1, <2>2
<1> HIDE DEF due
<1> QED
  BY <1>1, <1>5, <1>6, <1>7, <1>8, <1>9, <1>10, AdvanceStep

\* ... and when it is that of a delayed LPM.
LEMMA AdvanceLpmRefines == ASSUME Shape, Shape', AdvanceLpm PROVE Regions!Advance
<1>1. /\ stage = "future" /\ stage' = "dlpm" /\ Earliest(lpm_q, lpm_T, T')
      /\ \A x \in DOMAIN future_q : T' <= future_T[future_q[x]]
      /\ UNCHANGED <<q, future_q, future_T, lpm_q, lpm_T, pint_stop>>
  BY DEF AdvanceLpm, queues, data
<1>2. /\ \A x \in ToSet(future_q) : T' <= future_T[x]
      /\ \A l \in ToSet(lpm_q) : T' <= lpm_T[l]
      /\ \E l \in ToSet(lpm_q) : lpm_T[l] = T'
  BY <1>1 DEF Earliest, ToSet
<1>3. /\ ReleasedLpms' = {l \in ToSet(lpm_q) : lpm_T[l] = T'} /\ Released' = {}
      /\ FutureRegion' = {<<x, future_T[x]>> : x \in ToSet(future_q) \ {}} \cup {<<l, lpm_T[l]>> : l \in ToSet(lpm_q) \ ReleasedLpms'}
  <2>1. stage' = "dlpm" /\ stage' # "release" /\ future_q' = future_q /\ future_T' = future_T /\ lpm_q' = lpm_q /\ lpm_T' = lpm_T
    BY <1>1
  <2>2. Released' = {}
    BY <2>1 DEF Released
  <2>3. ReleasedLpms' = {l \in ToSet(lpm_q) : lpm_T[l] = T'}
    BY <2>1 DEF ReleasedLpms
  <2>4. FutureRegion' = {<<x, future_T'[x]>> : x \in ToSet(future_q') \ Released'}
                        \cup {<<l, lpm_T'[l]>> : l \in ToSet(lpm_q') \ ReleasedLpms'}
    BY Zenon DEF FutureRegion
  <2> QED
    BY <2>1, <2>2, <2>3, <2>4, Zenon
<1>4. FutureRegion = {<<x, future_T[x]>> : x \in ToSet(future_q)} \cup {<<l, lpm_T[l]>> : l \in ToSet(lpm_q)}
  BY <1>1, Stage5Quiet DEF Pending
<1> DEFINE due == {<<l, lpm_T[l]>> : l \in ReleasedLpms'}
<1>5. due \in SUBSET FutureRegion /\ due # {}
  BY <1>2, <1>3, <1>4
<1>6. ASSUME NEW f \in due PROVE f[2] = T' /\ \A g \in FutureRegion : f[2] <= g[2]
  <2>1. f[2] = T'
    BY <1>3, <1>6
  <2>2. \A g \in FutureRegion : T' <= g[2]
    BY <1>2, <1>4
  <2> QED
    BY <2>1, <2>2
<1>7. FutureRegion' = FutureRegion \ due
  <2>1. \A l \in ToSet(lpm_q) : l \notin ToSet(future_q)
    <3>1. ToSet(lpm_q) \subseteq Lpms /\ ToSet(future_q) \subseteq Procs \cup Nbs
      BY SetType DEF Shape, TypeOK, FutureStructs
    <3>2. Lpms \cap (Procs \cup Nbs) = {}
      BY NamesAssumption
    <3> QED
      BY <3>1, <3>2
  <2>2. ASSUME NEW f PROVE f \in FutureRegion' <=> f \in FutureRegion \ due
    BY <1>3, <1>4, <2>1
  <2> QED
    BY <2>2
<1>8. {f[1] : f \in due} = Released' \cup ReleasedLpms'
  <2>1. ASSUME NEW f \in due PROVE f[1] \in ReleasedLpms'
    <3>1. PICK y \in ReleasedLpms' : f = <<y, lpm_T[y]>>
      BY <2>1
    <3> QED
      BY <3>1
  <2>2. ASSUME NEW y \in ReleasedLpms' PROVE \E f \in due : f[1] = y
    <3>1. <<y, lpm_T[y]>> \in due
      OBVIOUS
    <3>2. <<y, lpm_T[y]>>[1] = y
      OBVIOUS
    <3> HIDE DEF due
    <3> QED
      BY <3>1, <3>2
  <2>3. Released' \cup ReleasedLpms' = ReleasedLpms'
    BY <1>3
  <2> HIDE DEF due
  <2> QED
    BY <2>1, <2>2, <2>3
<1>9. Released' \subseteq FutureStructs /\ ReleasedLpms' \subseteq Lpms
  BY <1>3, SetType DEF Shape, TypeOK
<1>10. T' >= T
  <2>1. \A l \in ToSet(lpm_q) : T <= lpm_T[l]
    BY DEF Shape, TimeOK
  <2>2. T \in Int /\ T' \in Int
    BY DEF Shape, TypeOK
  <2> QED
    BY <1>2, <2>1, <2>2
<1> HIDE DEF due
<1> QED
  BY <1>1, <1>5, <1>6, <1>7, <1>8, <1>9, <1>10, AdvanceStep

\* An entry that is due leaves the queue of delays: it was released already.
LEMMA DueOut ==
  ASSUME NEW s, NEW s2, NEW time, NEW e, ToSet(s) = ToSet(s2) \cup {e}, time[e] = T
  PROVE  /\ {x \in ToSet(s) : time[x] = T} = {x \in ToSet(s2) : time[x] = T} \cup {e}
         /\ ToSet(s) \ {x \in ToSet(s) : time[x] = T} = ToSet(s2) \ {x \in ToSet(s2) : time[x] = T}
OBVIOUS

\* The released events before and after a step.
LEMMA ReleasedIs ==
  /\ Released = {x \in ToSet(future_q) : stage = "release" /\ future_T[x] = T}
  /\ ReleasedLpms = {l \in ToSet(lpm_q) : stage = "dlpm" /\ lpm_T[l] = T}
  /\ Released' = {x \in ToSet(future_q') : stage' = "release" /\ future_T'[x] = T'}
  /\ ReleasedLpms' = {l \in ToSet(lpm_q') : stage' = "dlpm" /\ lpm_T'[l] = T'}
  /\ FutureRegion = {<<x, future_T[x]>> : x \in ToSet(future_q) \ Released} \cup {<<l, lpm_T[l]>> : l \in ToSet(lpm_q) \ ReleasedLpms}
  /\ FutureRegion' = {<<x, future_T'[x]>> : x \in ToSet(future_q') \ Released'}
                     \cup {<<l, lpm_T'[l]>> : l \in ToSet(lpm_q') \ ReleasedLpms'}
BY Zenon DEF Released, ReleasedLpms, FutureRegion

\* The pending future is a function of the two queues and their times.
LEMMA FutureRegionIs ==
  /\ FutureRegion = {<<x, future_T[x]>> : x \in ToSet(future_q) \ Released} \cup {<<l, lpm_T[l]>> : l \in ToSet(lpm_q) \ ReleasedLpms}
  /\ FutureRegion' = {<<x, future_T'[x]>> : x \in ToSet(future_q') \ Released'}
                     \cup {<<l, lpm_T'[l]>> : l \in ToSet(lpm_q') \ ReleasedLpms'}
BY Zenon DEF FutureRegion

\* A released process or assignment is queued.
LEMMA ReleaseFutureRefines == ASSUME Shape, Shape', FlagOK, ReleaseFuture PROVE [Regions!Next]_(Regions!rvars)
<1>1. /\ stage = "release" /\ QueueOK
      /\ \A m \in {"INACTIVE", "DELAY0", "MONITOR"} : q'[m] = q[m]
      /\ UNCHANGED <<lpm_q, future_T, lpm_T, T, pint_stop, stage>>
  BY ReleaseFutureIs
<1>2. PICK x \in DOMAIN future_q :
              /\ future_T[future_q[x]] = T /\ future_q' = SwapRemove(future_q, x)
              /\ future_q[x] \in FutureStructs
              /\ future_q[x] \in Procs => q'["ACTIVE"] = Append(q["ACTIVE"], future_q[x]) /\ q'["NBASSIGN"] = q["NBASSIGN"]
              /\ future_q[x] \notin Procs =>
                   /\ future_q[x] \in Nbs /\ q'["ACTIVE"] = q["ACTIVE"]
                   /\ q'["NBASSIGN"] = IF future_q[x] \in flags THEN q["NBASSIGN"] ELSE Append(q["NBASSIGN"], future_q[x])
  BY ReleaseFutureIs
<1> DEFINE e == future_q[x]
<1>3. ToSet(future_q) = ToSet(future_q') \cup {e} /\ future_T[e] = T
  <2>1. future_q \in Seq(FutureStructs)
    BY DEF Shape, TypeOK
  <2> QED
    BY <1>2, <2>1, CountRemove
<1>4. /\ e \in Procs => q'["ACTIVE"] = Append(q["ACTIVE"], e) /\ q'["NBASSIGN"] = q["NBASSIGN"]
      /\ e \notin Procs => /\ e \in Nbs /\ q'["ACTIVE"] = q["ACTIVE"]
                           /\ q'["NBASSIGN"] = IF e \in flags THEN q["NBASSIGN"] ELSE Append(q["NBASSIGN"], e)
  BY <1>2
<1> HIDE DEF e
<1> DEFINE R == {y \in ToSet(future_q) : future_T[y] = T}
           R2 == {y \in ToSet(future_q') : future_T[y] = T}
<1>5. R = R2 \cup {e} /\ ToSet(future_q) \ R = ToSet(future_q') \ R2
  BY <1>3, DueOut
<1>6. Released = R /\ Released' = R2 /\ ReleasedLpms = {} /\ ReleasedLpms' = {}
  BY <1>1, ReleasedIs
<1> HIDE DEF R, R2
<1>7. FutureRegion' = FutureRegion
  <2>1. ToSet(future_q') \ Released' = ToSet(future_q) \ Released /\ ReleasedLpms' = ReleasedLpms
    BY <1>5, <1>6
  <2>2. lpm_q' = lpm_q /\ lpm_T' = lpm_T /\ future_T' = future_T
    BY <1>1
  <2> QED
    BY <2>1, <2>2, FutureRegionIs, ZenonT(60)
<1>8. /\ ActiveRegion = ToSet(q["ACTIVE"]) \cup (R \ Nbs) /\ NbaRegion = (R \cap Nbs) \cup ToSet(q["NBASSIGN"])
      /\ ZeroRegion = {} /\ PostponedRegion = {} /\ Stopped = pint_stop
      /\ ActiveRegion' = ToSet(q'["ACTIVE"]) \cup (R2 \ Nbs) /\ NbaRegion' = (R2 \cap Nbs) \cup ToSet(q'["NBASSIGN"])
      /\ ZeroRegion' = {} /\ PostponedRegion' = {} /\ Stopped' = pint_stop'
  <2>1. /\ ActiveRegion = ToSet(q["ACTIVE"]) \cup (Released \ Nbs) \cup ReleasedLpms
        /\ NbaRegion = (Released \cap Nbs) \cup ToSet(q["NBASSIGN"])
        /\ ZeroRegion = {} /\ PostponedRegion = {} /\ Stopped = pint_stop
    BY <1>1, Releasing DEF ReleasingIs
  <2>2. /\ ActiveRegion' = ToSet(q'["ACTIVE"]) \cup (Released' \ Nbs) \cup ReleasedLpms'
        /\ NbaRegion' = (Released' \cap Nbs) \cup ToSet(q'["NBASSIGN"])
        /\ ZeroRegion' = {} /\ PostponedRegion' = {} /\ Stopped' = pint_stop'
    BY <1>1, Releasing DEF ReleasingIs
  <2> QED
    BY <1>6, <2>1, <2>2
<1>9. ActiveRegion' = ActiveRegion /\ NbaRegion' = NbaRegion
  <2>1. q["ACTIVE"] \in Seq(Procs \cup Lpms) /\ q["NBASSIGN"] \in Seq(Nbs)
    BY <1>1 DEF QueueOK
  <2>2. CASE e \in Procs
    <3>1. ToSet(q'["ACTIVE"]) = ToSet(q["ACTIVE"]) \cup {e}
      <4>1. e \in Procs \cup Lpms /\ q'["ACTIVE"] = Append(q["ACTIVE"], e)
        BY <1>4, <2>2
      <4>2. ToSet(Append(q["ACTIVE"], e)) = ToSet(q["ACTIVE"]) \cup {e}
        BY <2>1, <4>1, CountAppend
      <4> QED
        BY <4>1, <4>2
    <3>2. e \notin Nbs
      BY <2>2, NamesAssumption
    <3> QED
      BY <1>4, <1>5, <1>8, <2>2, <3>1, <3>2
  <2>3. CASE e \notin Procs
    <3>1. ToSet(q'["NBASSIGN"]) = ToSet(q["NBASSIGN"]) \cup {e}
      <4>1. CASE e \in flags
        <5>1. NbLeft = q["NBASSIGN"]
          BY <1>1, LeftIs
        <5>2. flags \cap Nbs = ToSet(q["NBASSIGN"])
          BY <5>1 DEF FlagOK, BitMeansQueued
        <5> QED
          BY <1>4, <2>3, <4>1, <5>2
      <4>2. CASE e \notin flags
        <5>1. e \in Nbs /\ q'["NBASSIGN"] = Append(q["NBASSIGN"], e)
          BY <1>4, <2>3, <4>2
        <5>2. ToSet(Append(q["NBASSIGN"], e)) = ToSet(q["NBASSIGN"]) \cup {e}
          BY <2>1, <5>1, CountAppend
        <5> QED
          BY <5>1, <5>2
      <4> QED
        BY <4>1, <4>2
    <3> QED
      BY <1>4, <1>5, <1>8, <2>3, <3>1
  <2> QED
    BY <2>2, <2>3
<1> QED
  BY <1>1, <1>7, <1>8, <1>9, Stutters

\* A released LPM is queued.
LEMMA ReleaseLpmRefines == ASSUME Shape, Shape', ReleaseLpm PROVE [Regions!Next]_(Regions!rvars)
<1>1. /\ stage = "dlpm" /\ QueueOK
      /\ \A m \in {"INACTIVE", "DELAY0", "MONITOR", "NBASSIGN"} : q'[m] = q[m]
      /\ UNCHANGED <<future_q, future_T, lpm_T, T, pint_stop, stage>>
  BY ReleaseLpmIs
<1>2. PICK x \in DOMAIN lpm_q :
              /\ lpm_T[lpm_q[x]] = T /\ lpm_q' = SwapRemove(lpm_q, x) /\ lpm_q[x] \in Lpms
              /\ q'["ACTIVE"] = Append(q["ACTIVE"], lpm_q[x])
  BY ReleaseLpmIs
<1> DEFINE e == lpm_q[x]
<1>3. ToSet(lpm_q) = ToSet(lpm_q') \cup {e} /\ lpm_T[e] = T
  <2>1. lpm_q \in Seq(Lpms)
    BY DEF Shape, TypeOK
  <2> QED
    BY <1>2, <2>1, CountRemove
<1>4. e \in Lpms /\ q'["ACTIVE"] = Append(q["ACTIVE"], e)
  BY <1>2
<1> HIDE DEF e
<1> DEFINE R == {y \in ToSet(lpm_q) : lpm_T[y] = T}
           R2 == {y \in ToSet(lpm_q') : lpm_T[y] = T}
<1>5. R = R2 \cup {e} /\ ToSet(lpm_q) \ R = ToSet(lpm_q') \ R2
  BY <1>3, DueOut
<1>6. Released = {} /\ Released' = {} /\ ReleasedLpms = R /\ ReleasedLpms' = R2
  BY <1>1, ReleasedIs
<1> HIDE DEF R, R2
<1>7. FutureRegion' = FutureRegion
  <2>1. ToSet(lpm_q') \ ReleasedLpms' = ToSet(lpm_q) \ ReleasedLpms /\ Released' = Released
    BY <1>5, <1>6
  <2>2. future_q' = future_q /\ lpm_T' = lpm_T /\ future_T' = future_T
    BY <1>1
  <2> QED
    BY <2>1, <2>2, FutureRegionIs, ZenonT(60)
<1>8. /\ ActiveRegion = ToSet(q["ACTIVE"]) \cup (Released \ Nbs) \cup ReleasedLpms
      /\ NbaRegion = (Released \cap Nbs) \cup ToSet(q["NBASSIGN"])
      /\ ZeroRegion = {} /\ PostponedRegion = {} /\ Stopped = pint_stop
  BY <1>1, Releasing DEF ReleasingIs
<1>9. /\ ActiveRegion' = ToSet(q'["ACTIVE"]) \cup (Released' \ Nbs) \cup ReleasedLpms'
      /\ NbaRegion' = (Released' \cap Nbs) \cup ToSet(q'["NBASSIGN"])
      /\ ZeroRegion' = {} /\ PostponedRegion' = {} /\ Stopped' = pint_stop'
  BY <1>1, Releasing DEF ReleasingIs
<1>10. ToSet(q'["ACTIVE"]) = ToSet(q["ACTIVE"]) \cup {e}
  <2>1. q["ACTIVE"] \in Seq(Procs \cup Lpms)
    BY <1>1 DEF QueueOK
  <2> QED
    BY <1>4, <2>1, CountAppend
<1>11. ActiveRegion' = ActiveRegion /\ NbaRegion' = NbaRegion
  BY <1>1, <1>5, <1>6, <1>8, <1>9, <1>10
<1> QED
  BY <1>1, <1>7, <1>8, <1>9, <1>11, Stutters

\* Nothing more is due: back to the top of the loop.
LEMMA ReleaseDoneRefines == ASSUME Shape, ReleaseDone PROVE [Regions!Next]_(Regions!rvars)
<1>1. /\ \/ stage = "release" /\ Due(future_q, future_T) = {}
         \/ stage = "dlpm" /\ Due(lpm_q, lpm_T) = {}
      /\ stage' = IF pint_stop THEN "stop" ELSE "active"
      /\ active_head' = Len(q["ACTIVE"]) /\ i' = 0
      /\ UNCHANGED <<q, static_table, future_q, future_T, lpm_q, lpm_T, T, pint_stop, j, cur>>
  BY DEF ReleaseDone, LoopTop, queues, data
<1>2. /\ cur = None /\ q["INACTIVE"] = <<>> /\ static_table = <<>> /\ q["DELAY0"] = <<>> /\ q["MONITOR"] = <<>>
      /\ q["ACTIVE"] \in Seq(Procs \cup Lpms) /\ stage \in {"release", "dlpm"} /\ stage' \in {"stop", "active"}
  BY <1>1 DEF Shape, StageOK, QueueOK
<1>3. Released = {} /\ ReleasedLpms = {}
  BY <1>1, ReleasedIs DEF Due, ToSet
<1>4. FutureRegion = Pending(future_q, future_T, lpm_q, lpm_T)
  <2>1. ToSet(future_q) \ {} = ToSet(future_q) /\ ToSet(lpm_q) \ {} = ToSet(lpm_q)
    OBVIOUS
  <2> QED
    BY <1>3, <2>1, Zenon DEF FutureRegion, Pending
<1>5. ActiveLeft' = IF stage' = "active" THEN SubSeq(q["ACTIVE"], 0 + 1, Len(q["ACTIVE"])) ELSE q["ACTIVE"]
  BY <1>1, LeftIs
<1>6. ActiveLeft' = q["ACTIVE"]
  BY <1>2, <1>5, LeftEnds
<1>7. TableLeft(stage', static_table', i', j') = {}
  <2>1. static_table \in Seq(Seq(Statics)) /\ i \in Nat /\ j \in Nat
    BY DEF Shape, TypeOK
  <2>2. TableLeft(stage, static_table, i, j) = {}
    BY <1>2, <2>1, TableNone
  <2> QED
    BY <1>1, <1>2, <2>2, TableSame
<1>8. /\ ActiveRegion' = ({cur'} \ {None}) \cup ToSet(ActiveLeft') \cup ToSet(q'["INACTIVE"])
                        \cup TableLeft(stage', static_table', i', j')
      /\ NbaRegion' = ToSet(q'["NBASSIGN"]) /\ FutureRegion' = Pending(future_q', future_T', lpm_q', lpm_T')
      /\ Stopped' = (stage' = "stop")
  BY <1>2, RegionsAfter
<1>9. /\ ActiveRegion = ToSet(q["ACTIVE"]) \cup (Released \ Nbs) \cup ReleasedLpms
      /\ NbaRegion = (Released \cap Nbs) \cup ToSet(q["NBASSIGN"])
      /\ ZeroRegion = {} /\ PostponedRegion = {} /\ Stopped = pint_stop
  BY <1>2, Releasing DEF ReleasingIs
<1>10. ActiveRegion' = ActiveRegion /\ NbaRegion' = NbaRegion
  BY <1>1, <1>2, <1>3, <1>6, <1>7, <1>8, <1>9, EmptySet
<1>11. FutureRegion' = FutureRegion
  BY <1>1, <1>4, <1>8
<1>12. Stopped' = Stopped
  <2>1. pint_stop \in BOOLEAN
    BY DEF Shape, TypeOK
  <2>2. stage' = "stop" <=> pint_stop
    BY <1>1
  <2> QED
    BY <1>8, <1>9, <2>1, <2>2, Zenon
<1>13. ZeroRegion' = {} /\ PostponedRegion' = {}
  <2>1. stage' \notin {"monitor", "future"}
    BY <1>2
  <2> QED
    BY <1>1, <1>2, <2>1, OtherRegions, EmptySet
<1> QED
  BY <1>1, <1>9, <1>10, <1>11, <1>12, <1>13, Stutters

\* Only delayed LPMs are pending: the simulation ends.
LEMMA NoFutureRefines == ASSUME Shape, Shape', NoFuture PROVE Regions!Stop
<1>1. /\ stage = "future" /\ future_q = <<>> /\ stage' = "stop"
      /\ UNCHANGED <<q, static_table, future_q, future_T, lpm_q, lpm_T, j, cur>>
  BY DEF NoFuture, LoopTop, queues, data
<1>2. Regions!Quiet /\ FutureRegion = Pending(future_q, future_T, lpm_q, lpm_T) /\ ~Stopped
  BY <1>1, Stage5Quiet
<1>3. ASSUME NEW f \in FutureRegion PROVE f[1] \in Lpms
  <2>1. PICK l \in ToSet(lpm_q) : f = <<l, lpm_T[l]>>
    BY <1>1, <1>2, <1>3, EmptySet DEF Pending
  <2>2. l \in Lpms
    BY <2>1, SetType DEF Shape, TypeOK
  <2> QED
    BY <2>1, <2>2
<1>4. /\ cur = None /\ q["ACTIVE"] = <<>> /\ q["INACTIVE"] = <<>> /\ static_table = <<>> /\ q["NBASSIGN"] = <<>>
      /\ q["DELAY0"] = <<>> /\ q["MONITOR"] = <<>>
  BY <1>1 DEF Shape, StageOK
<1>5. ActiveLeft' = <<>>
  BY <1>1, <1>4, LeftIs
<1>6. TableLeft(stage', static_table', i', j') = {}
  <2>1. static_table' \in Seq(Seq(Statics)) /\ i' \in Nat /\ j' \in Nat /\ static_table' = <<>>
    BY <1>1, <1>4 DEF Shape, TypeOK
  <2> QED
    BY <2>1, TableNone
<1>7. /\ ActiveRegion' = ({cur'} \ {None}) \cup ToSet(ActiveLeft') \cup ToSet(q'["INACTIVE"])
                        \cup TableLeft(stage', static_table', i', j')
      /\ NbaRegion' = ToSet(q'["NBASSIGN"]) /\ FutureRegion' = Pending(future_q', future_T', lpm_q', lpm_T')
      /\ Stopped' = TRUE
  BY <1>1, RegionsAfter
<1>8. ZeroRegion' = ToSet(q'["DELAY0"]) /\ PostponedRegion' = ToSet(q'["MONITOR"])
  BY <1>1, OtherRegions
<1>9. ActiveRegion' = {} /\ NbaRegion' = {} /\ ZeroRegion' = {} /\ PostponedRegion' = {}
  BY <1>1, <1>4, <1>5, <1>6, <1>7, <1>8, EmptySet
<1>10. FutureRegion' = FutureRegion
  BY <1>1, <1>2, <1>7
<1> QED
  BY <1>2, <1>3, <1>7, <1>9, <1>10 DEF Regions!Stop, Regions!Quiet

\* The loop starts as the abstract queue does.
LEMMA InitRefines == ASSUME Init, Shape PROVE Regions!Init
<1>1. /\ stage = "active" /\ T = 0 /\ static_table = <<>> /\ future_q = <<>> /\ lpm_q = <<>>
  BY DEF Init
<1>2. q["NBASSIGN"] = <<>> /\ q["DELAY0"] = <<>> /\ q["MONITOR"] = <<>>
  BY DEF Init, QNames
<1>3. NbaRegion = ToSet(q["NBASSIGN"]) /\ FutureRegion = Pending(future_q, future_T, lpm_q, lpm_T) /\ Stopped = FALSE
  BY <1>1, RegionsIs
<1>4. ZeroRegion = ToSet(q["DELAY0"]) /\ PostponedRegion = ToSet(q["MONITOR"])
  BY <1>1, OtherRegions
<1>5. FutureRegion = {}
  BY <1>1, <1>3, EmptySet DEF Pending
<1>6. NbaRegion = {} /\ ZeroRegion = {} /\ PostponedRegion = {}
  BY <1>2, <1>3, <1>4, EmptySet
<1>7. ActiveRegion \subseteq Threads \cup Nbs \cup Strobes
  BY <1>1, ActiveType
<1> QED
  BY <1>1, <1>3, <1>5, <1>6, <1>7 DEF Regions!Init

\* Every step of a thread is a step of the abstract queue, ...
LEMMA ThreadStepRefines == ASSUME Shape, Shape', PlaceOK, ThreadStep PROVE Regions!Execute
<1>1. CASE \E s \in Signals : AssignStmt(s) \/ WaitStmt(s)
  BY <1>1, AssignStmtRefines, WaitStmtRefines
<1>2. CASE \E n \in Nbs : NbAssignStmt(n) \/ \E d \in Delays : NbFutureStmt(n, d)
  BY <1>2, NbAssignStmtRefines, NbFutureStmtRefines
<1>3. CASE \E m \in Strobes : StrobeStmt(m)
  BY <1>3, StrobeStmtRefines
<1>4. CASE \E d \in Delays : DelayStmt(d) \/ LpmWaits(d)
  BY <1>4, DelayStmtRefines, LpmWaitsRefines
<1>5. CASE FinishStmt \/ ThreadReturns \/ LpmDrives
  BY <1>5, FinishStmtRefines, ThreadReturnsRefines, LpmDrivesRefines
<1> QED
  BY <1>1, <1>2, <1>3, <1>4, <1>5, Zenon DEF ThreadStep

\* ... and so is every step of main, or it shows in no region.
LEMMA MainStepRefines ==
  ASSUME Shape, Shape', PlaceOK, FlagOK, MainStep PROVE [Regions!Next]_(Regions!rvars)
<1>1. CASE RunActive \/ SwapActive \/ LeaveActive \/ StaticDone \/ NbDone \/ NoDelay0 \/ MonitorDone
  BY <1>1, RunActiveRefines, SwapActiveRefines, LeaveActiveRefines, StaticDoneRefines, NbDoneRefines, NoDelay0Refines,
     MonitorDoneRefines
<1>2. CASE ReleaseFuture \/ ReleaseLpm \/ ReleaseDone
  BY <1>2, ReleaseFutureRefines, ReleaseLpmRefines, ReleaseDoneRefines
<1>3. CASE RunStatic \/ RunNb \/ RunMonitor
  <2>1. Regions!Execute
    BY <1>3, RunStaticRefines, RunNbRefines, RunMonitorRefines
  <2> QED
    BY <2>1 DEF Regions!Next
<1>4. CASE RunDelay0
  BY <1>4, RunDelay0Refines DEF Regions!Next
<1>5. CASE AdvanceFuture \/ AdvanceLpm
  <2>1. Regions!Advance
    BY <1>5, AdvanceFutureRefines, AdvanceLpmRefines
  <2> QED
    BY <2>1 DEF Regions!Next
<1>6. CASE NoFuture
  BY <1>6, NoFutureRefines DEF Regions!Next
<1> QED
  BY <1>1, <1>2, <1>3, <1>4, <1>5, <1>6, Zenon DEF MainStep

\* Where nothing changes no region does.
LEMMA NothingRefines == ASSUME UNCHANGED vars PROVE UNCHANGED Regions!rvars
<1>1. /\ UNCHANGED <<q, static_table, future_q, lpm_q, future_T, lpm_T>>
      /\ UNCHANGED <<active_head, T, pint_stop, stage, i, j, cur>>
  BY DEF vars, queues, data, ctl
<1>2. ActiveLeft' = ActiveLeft /\ NbLeft' = NbLeft /\ StaticLeft' = StaticLeft
  BY <1>1, LeftIs, StaticLeftIs
<1>3. Released' = Released /\ ReleasedLpms' = ReleasedLpms
  BY <1>1, ReleasedIs
<1>4. FutureRegion' = FutureRegion
  BY <1>1, <1>3, ReleasedIs
<1>5. ActiveRegion' = ActiveRegion /\ NbaRegion' = NbaRegion
  BY <1>1, <1>2, <1>3 DEF ActiveRegion, NbaRegion
<1>6. ZeroRegion' = ZeroRegion /\ PostponedRegion' = PostponedRegion
  BY <1>1, OtherRegions
<1>7. Stopped' = Stopped
  BY <1>1, Zenon DEF Stopped
<1> QED
  BY <1>1, <1>4, <1>5, <1>6, <1>7 DEF Regions!rvars

\* main's loop implements the stratified event queue: an event executes only from the
\* active region, a later region is activated as a whole and only when everything before
\* it is empty, and the time advances last, to the earliest pending time.
THEOREM LoopIsStratified == Spec => Stratified
<1>1. MainInv /\ Init => Regions!Init
  BY InitRefines DEF MainInv, Shape
<1>2. MainInv /\ MainInv' /\ [Next]_vars => [Regions!Next]_(Regions!rvars)
  <2> SUFFICES ASSUME MainInv, MainInv', [Next]_vars PROVE [Regions!Next]_(Regions!rvars)
    OBVIOUS
  <2>1. Shape /\ PlaceOK /\ FlagOK /\ Shape'
    BY DEF MainInv, Shape
  <2>2. CASE MainStep
    BY <2>1, <2>2, MainStepRefines
  <2>3. CASE ThreadStep
    <3>1. Regions!Execute
      BY <2>1, <2>3, ThreadStepRefines
    <3> QED
      BY <3>1 DEF Regions!Next
  <2>4. CASE UNCHANGED vars
    BY <2>4, NothingRefines
  <2> QED
    BY <2>2, <2>3, <2>4 DEF Next
<1> QED
  BY <1>1, <1>2, MainInvariant, PTL DEF Spec, Stratified, Regions!Spec

\* When the loop sets pint_stop itself every process has ended or waits for an event,
\* no region holds anything to execute, and what is still pending is an LPM that waits
\* for its delay: no assignment, process or $strobe is left behind.
THEOREM EndsWhenIdle == Spec => StopsWhenIdle
<1>1. MainInv /\ [Next]_vars =>
        [stage = "future" /\ ~pint_stop /\ pint_stop' =>
            /\ \A p \in Procs : Places(p) = 1 => \E s \in Signals : p \in ToSet(waiters[s])
            /\ flags = {} /\ mflags = {}
            /\ ActiveRegion \cup NbaRegion \cup ZeroRegion \cup PostponedRegion = {}
            /\ FutureRegion = {<<l, lpm_T[l]>> : l \in ToSet(lpm_q)}]_vars
  <2> SUFFICES ASSUME MainInv, [Next]_vars, stage = "future", ~pint_stop, pint_stop'
               PROVE  /\ \A p \in Procs : Places(p) = 1 => \E s \in Signals : p \in ToSet(waiters[s])
                      /\ flags = {} /\ mflags = {}
                      /\ ActiveRegion \cup NbaRegion \cup ZeroRegion \cup PostponedRegion = {}
                      /\ FutureRegion = {<<l, lpm_T[l]>> : l \in ToSet(lpm_q)}
    OBVIOUS
  <2>1. Shape /\ FlagOK
    BY DEF MainInv, Shape
  <2>2. future_q = <<>>
    BY <2>1, EndsInStage5 DEF NoFuture
  <2>3. /\ cur = None /\ q["ACTIVE"] = <<>> /\ q["INACTIVE"] = <<>> /\ q["DELAY0"] = <<>> /\ q["NBASSIGN"] = <<>>
        /\ q["MONITOR"] = <<>> /\ ActiveLeft = q["ACTIVE"] /\ NbLeft = q["NBASSIGN"]
    BY <2>1, LeftIs DEF Shape, StageOK
  <2>4. ToSet(<<>>) = {} /\ \A t : Count(<<>>, t) = 0
    BY CountEmpty
  <2>5. flags \cap Nbs = {} /\ mflags = {} /\ \A l \in flags \cap Lpms : l \in {cur} \cup {} \cup {}
    BY <2>1, <2>3, <2>4, Zenon DEF FlagOK, BitMeansQueued
  <2>6. flags = {}
    BY <2>1, <2>3, <2>5, Names DEF Shape, TypeOK
  <2>7. ASSUME NEW p \in Procs, Places(p) = 1 PROVE \E s \in Signals : p \in ToSet(waiters[s])
    <3>1. /\ Count(ActiveLeft, p) = 0 /\ Count(q["INACTIVE"], p) = 0 /\ Count(q["DELAY0"], p) = 0
          /\ Count(future_q, p) = 0
      BY <2>2, <2>3, <2>4, Zenon
    <3>2. cur # p /\ Cardinality(Waits(p)) \in Nat
      BY <2>1, <2>3, Names, TermsNat DEF Shape
    <3>3. Places(p) = 0 + 0 + 0 + 0 + 0 + Cardinality(Waits(p))
      BY <3>1, <3>2, PlacesIs
    <3>4. Cardinality(Waits(p)) # 0
      BY <2>7, <3>2, <3>3
    <3>5. Waits(p) # {}
      BY <3>4, FS_EmptySet, Zenon
    <3> QED
      BY <3>5 DEF Waits
  <2>8. Regions!Quiet /\ FutureRegion = Pending(future_q, future_T, lpm_q, lpm_T)
    BY <2>1, Stage5Quiet
  <2>9. ActiveRegion \cup NbaRegion \cup ZeroRegion \cup PostponedRegion = {}
    BY <2>8 DEF Regions!Quiet
  <2>10. FutureRegion = {<<l, lpm_T[l]>> : l \in ToSet(lpm_q)}
    BY <2>2, <2>4, <2>8 DEF Pending
  <2> QED
    BY <2>5, <2>6, <2>7, <2>9, <2>10
<1> QED
  BY <1>1, MainInvariant, PTL DEF Spec, StopsWhenIdle

=============================================================================
