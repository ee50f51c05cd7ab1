---------------------------- MODULE PintNbProofs ----------------------------
(***************************************************************************)
(* Theorems about PintNb: for any arrays, cores and number of places, every *)
(* changed word is found, copied and announced once, unless two cores noted *)
(* words of its array at the same time.                                    *)
(***************************************************************************)
EXTENDS PintNb, SequenceTheorems, TLAPS

(* The invariant *)

CoreAt ==
  {Idle} \cup [at : {"scan", "load", "queue"}, a : Array, w : Int]
         \cup [at : {"note"}, a : Array, w : Int, cnt : Nat]
         \cup [at : {"copy"}, a : Array, todo : SUBSET Int]

DataOK ==
  /\ src = [a \in Array |-> src[a]] /\ dst = [a \in Array |-> dst[a]]
  /\ before = [a \in Array |-> before[a]] /\ woken = [a \in Array |-> woken[a]]
  /\ updt_idx = [a \in Array |-> updt_idx[a]]
  /\ \A a \in Array :
       /\ src[a] \in [Word(a) -> Value] /\ dst[a] \in [Word(a) -> Value]
       /\ before[a] \in [Word(a) -> Value] /\ woken[a] \in [Word(a) -> Value]
       /\ updt_idx[a] \in [Place -> Word(a)]
  /\ updt_cnt \in [Array -> 0 .. UPDT_MAX]
  /\ nbq \in Seq(Array) /\ raced \subseteq Array
  /\ stage \in {"active", "update"}
  /\ steps \in 0 .. MaxSteps
  /\ core \in [Core -> CoreAt]

FlagsOK == nbflag \in [Array -> BOOLEAN]
Flagged == {a \in Array : nbflag[a]}

Assigns(c) == core[c].at \in {"scan", "load", "note", "queue"}
Copies(c) == core[c].at = "copy"

\* The count a core is about to store is up to date, and no other core is about
\* to store one, unless the array is one of those whose notes raced.
CoreOK ==
  \A c \in Core :
    /\ Assigns(c) => /\ stage = "active" /\ core[c].a \in Writes[c]
                     /\ core[c].w \in Word(core[c].a)
    /\ core[c].at = "note" =>
         /\ core[c].cnt < UPDT_MAX
         /\ core[c].a \notin raced => core[c].cnt = updt_cnt[core[c].a]
         /\ \A d \in Core : d # c /\ core[d].at = "note" /\ core[d].a = core[c].a
                            => core[c].a \in raced
    /\ Copies(c) => stage = "update" /\ core[c].todo \subseteq Word(core[c].a)

BoundOK ==
  stage = "update" \/ nbq # <<>> \/ (\E c \in Core : Assigns(c)) => steps < MaxSteps

FlagOK == Flagged \subseteq {nbq[i] : i \in 1 .. Len(nbq)}

\* A word that differs from its shadow is on its way: noted, or about to be, in
\* an array that is queued, or about to be, or in the hands of a copying core.
WillQueue(a) == a \in Flagged \/ \E c \in Core : Assigns(c) /\ core[c].a = a
WillNote(a, w) ==
  \/ Noted(a, w) \/ updt_cnt[a] >= UPDT_MAX
  \/ \E c \in Core : core[c].at \in {"scan", "load", "note"} /\ core[c].a = a /\ core[c].w = w
WillCopy(a, w) == \E c \in Core : Copies(c) /\ core[c].a = a /\ w \in core[c].todo
FoundOK ==
  \A a \in Array \ raced : \A w \in Word(a) :
    src[a][w] # dst[a][w] => (WillQueue(a) /\ WillNote(a, w)) \/ WillCopy(a, w)

\* A copied word equals its shadow, the others are as they were.
WokenOK ==
  \A a \in Array : \A w \in Word(a) :
    /\ dst[a][w] \in {before[a][w], src[a][w]}
    /\ woken[a][w] = IF before[a][w] # dst[a][w] THEN 1 ELSE 0
    /\ stage = "active" => before[a][w] = dst[a][w]

NbInv == DataOK /\ FlagsOK /\ CoreOK /\ BoundOK /\ FlagOK /\ FoundOK /\ WokenOK
-----------------------------------------------------------------------------
(* The places of a core *)

\* A core is at one of six places, each with its fields.
LEMMA Shapes ==
  ASSUME DataOK, NEW c \in Core
  PROVE  /\ core[c] = Idle <=> core[c].at = "idle"
         /\ core[c] # Idle => core[c].a \in Array
         /\ core[c] # Idle => core[c].at \in {"scan", "load", "queue", "note", "copy"}
         /\ core[c].at \in {"scan", "load", "queue", "note"} => core[c].w \in Int
         /\ core[c].at = "note" => core[c].cnt \in Nat
         /\ core[c].at = "copy" => /\ core[c] \in [at : {"copy"}, a : Array, todo : SUBSET Int]
                                   /\ core[c].todo \in SUBSET Int
<1>1. core[c] \in CoreAt
  BY DEF DataOK
<1>2. Idle.at = "idle"
  BY DEF Idle
<1>3. CASE core[c] = Idle
  BY <1>2, <1>3
<1>4. CASE core[c] \in [at : {"scan", "load", "queue"}, a : Array, w : Int]
  BY <1>2, <1>4
<1>5. CASE core[c] \in [at : {"note"}, a : Array, w : Int, cnt : Nat]
  BY <1>2, <1>5
<1>6. CASE core[c] \in [at : {"copy"}, a : Array, todo : SUBSET Int]
  BY <1>2, <1>6
<1> QED BY <1>1, <1>3, <1>4, <1>5, <1>6 DEF CoreAt

\* Constants of the array table.
LEMMA Sizes ==
  /\ UPDT_MAX \in Nat \ {0} /\ MaxSteps \in Nat
  /\ \A a \in Array : Size[a] \in Nat \ {0}
  /\ \A c \in Core : Writes[c] \subseteq Array
BY NbAssumption

\* Setting and clearing the pending bit of an array.
LEMMA SetFlag ==
  ASSUME FlagsOK, NEW a \in Array, nbflag' = [nbflag EXCEPT ![a] = TRUE]
  PROVE  FlagsOK' /\ Flagged' = Flagged \cup {a}
<1>1. nbflag'[a] = TRUE /\ \A b \in Array : b # a => nbflag'[b] = nbflag[b]
  BY DEF FlagsOK
<1>2. FlagsOK'
  BY Zenon DEF FlagsOK
<1>3. ASSUME NEW b PROVE b \in Flagged' <=> b \in Flagged \cup {a}
  BY <1>1, Zenon DEF Flagged
<1> QED BY <1>2, <1>3

\* Clearing it.
LEMMA ClearFlag ==
  ASSUME FlagsOK, NEW a \in Array, nbflag' = [nbflag EXCEPT ![a] = FALSE]
  PROVE  FlagsOK' /\ Flagged' = Flagged \ {a}
<1>1. nbflag'[a] = FALSE /\ \A b \in Array : b # a => nbflag'[b] = nbflag[b]
  BY DEF FlagsOK
<1>2. FlagsOK'
  BY Zenon DEF FlagsOK
<1>3. ASSUME NEW b PROVE b \in Flagged' <=> b \in Flagged \ {a}
  BY <1>1, Zenon DEF Flagged
<1> QED BY <1>2, <1>3

\* The last array leaves the queue.
LEMMA TakeLast ==
  ASSUME NEW S, NEW q \in Seq(S), q # <<>>
  PROVE  /\ Len(q) \in Nat \ {0} /\ q[Len(q)] \in S
         /\ SubSeq(q, 1, Len(q) - 1) \in Seq(S)
         /\ Len(SubSeq(q, 1, Len(q) - 1)) = Len(q) - 1
         /\ \A i \in 1 .. Len(q) - 1 : SubSeq(q, 1, Len(q) - 1)[i] = q[i]
<1>1. Len(q) \in Nat \ {0} /\ \A i \in 1 .. Len(q) : q[i] \in S
  OBVIOUS
<1>2. /\ SubSeq(q, 1, Len(q) - 1) \in Seq(S)
      /\ Len(SubSeq(q, 1, Len(q) - 1)) = Len(q) - 1
      /\ \A i \in 1 .. Len(q) - 1 : SubSeq(q, 1, Len(q) - 1)[i] = q[i]
  BY <1>1, SubSeqProperties
<1> QED BY <1>1, <1>2

-----------------------------------------------------------------------------
(* The invariant is kept *)

\* The initial state: nothing assigned.
LEMMA NbInit == Init => NbInv
<1> SUFFICES ASSUME Init PROVE NbInv
  OBVIOUS
<1>1. \A a \in Array : Word(a) # {} /\ 0 \in Word(a)
  BY Sizes DEF Word
<1> USE Sizes DEF Init
<1>2. \A a \in Array : /\ src[a] = [w \in Word(a) |-> 0] /\ dst[a] = src[a]
                       /\ before[a] = src[a] /\ woken[a] = src[a]
                       /\ updt_idx[a] = [p \in Place |-> 0]
  OBVIOUS
<1>3. DataOK
  BY <1>1, <1>2 DEF DataOK, Value, CoreAt
<1>4. \A c \in Core : core[c].at = "idle"
  BY DEF Idle
<1>5. CoreOK /\ BoundOK
  BY <1>4 DEF CoreOK, BoundOK, Assigns, Copies
<1>6. FlagOK /\ FlagsOK
  <2>1. Flagged = {}
    BY Zenon DEF Flagged
  <2>2. FlagsOK
    BY Zenon DEF FlagsOK
  <2> QED BY <2>1, <2>2 DEF FlagOK
<1>7. FoundOK /\ WokenOK
  BY <1>2 DEF FoundOK, WokenOK
<1> QED BY <1>3, <1>5, <1>6, <1>7 DEF NbInv

\* A statement writes the shadow of a word.
LEMMA StepAssign ==
  ASSUME NbInv, NEW c \in Core, NEW a \in Array, NEW w \in Word(a), AssignWord(c, a, w)
  PROVE  NbInv'
<1> USE Sizes DEF NbInv
<1>1. /\ stage = "active" /\ core[c] = Idle /\ steps < MaxSteps /\ a \in Writes[c]
      /\ UNCHANGED <<dst, updt_cnt, updt_idx, nbflag, nbq, stage, before, woken, raced, steps>>
      /\ src' = [src EXCEPT ![a][w] = 1 - @]
      /\ core' = [core EXCEPT ![c] = [at |-> "scan", a |-> a, w |-> w]]
  BY DEF AssignWord
<1>2. /\ src'[a] = [src[a] EXCEPT ![w] = 1 - src[a][w]]
      /\ \A b \in Array : b # a => src'[b] = src[b]
      /\ src' = [b \in Array |-> src'[b]]
  BY <1>1 DEF DataOK
<1>3. \A b \in Array : \A v \in Word(b) : b # a \/ v # w => src'[b][v] = src[b][v]
  BY <1>2 DEF DataOK
<1>4. /\ core'[c] = [at |-> "scan", a |-> a, w |-> w]
      /\ core'[c].at = "scan" /\ core'[c].a = a /\ core'[c].w = w
      /\ \A d \in Core : d # c => core'[d] = core[d]
  BY <1>1 DEF DataOK
<1>5. core[c].at = "idle"
  BY <1>1, Shapes
<1>6. Flagged' = Flagged /\ FlagsOK'
  BY <1>1, Zenon DEF Flagged, FlagsOK
<1>7. DataOK'
  <2>1. w \in Int
    BY DEF Word
  <2>2. core' \in [Core -> CoreAt]
    BY <1>1, <2>1 DEF DataOK, CoreAt
  <2>3. src'[a] \in [Word(a) -> Value]
    <3>1. src[a] \in [Word(a) -> Value] /\ src[a][w] \in Value
      BY DEF DataOK
    <3>2. 1 - src[a][w] \in Value
      BY <3>1 DEF Value
    <3> QED BY <1>2, <3>1, <3>2
  <2>4. \A b \in Array : src'[b] \in [Word(b) -> Value]
    BY <1>2, <2>3 DEF DataOK
  <2> QED BY <1>1, <1>2, <2>2, <2>4 DEF DataOK, CoreAt, Idle
<1>8. CoreOK'
  BY <1>1, <1>4 DEF CoreOK, Assigns, Copies
<1>9. BoundOK'
  BY <1>1 DEF BoundOK
<1>10. FlagOK'
  BY <1>1, <1>6 DEF FlagOK
<1>11. FoundOK'
  <2> SUFFICES ASSUME NEW b \in Array \ raced, NEW v \in Word(b), src'[b][v] # dst[b][v]
               PROVE  (WillQueue(b) /\ WillNote(b, v))' \/ WillCopy(b, v)'
    BY <1>1 DEF FoundOK, Word
  <2>1. CASE b = a /\ v = w
    BY <1>4, <2>1 DEF WillQueue, WillNote, Assigns
  <2>2. CASE ~(b = a /\ v = w)
    <3>1. (WillQueue(b) /\ WillNote(b, v)) \/ WillCopy(b, v)
      BY <1>3, <2>2 DEF FoundOK
    <3>2. WillQueue(b) => WillQueue(b)'
      BY <1>4, <1>5, <1>6 DEF WillQueue, Assigns
    <3>3. WillNote(b, v) => WillNote(b, v)'
      BY <1>1, <1>4, <1>5 DEF WillNote, Noted
    <3>4. WillCopy(b, v) => WillCopy(b, v)'
      BY <1>4, <1>5 DEF WillCopy, Copies
    <3> QED BY <3>1, <3>2, <3>3, <3>4
  <2> QED BY <2>1, <2>2
<1>12. WokenOK'
  <2>1. \A b \in Array : \A v \in Word(b) : before[b][v] = dst[b][v]
    BY <1>1 DEF WokenOK
  <2> QED BY <1>1, <2>1 DEF WokenOK
<1> QED BY <1>6, <1>7, <1>8, <1>9, <1>10, <1>11, <1>12

\* The loop over updt_idx: the word is noted or not.
LEMMA StepScan ==
  ASSUME NbInv, NEW c \in Core, ScanNoted(c)
  PROVE  NbInv'
<1> USE Sizes DEF NbInv
<1>0. PICK a, w : a = core[c].a /\ w = core[c].w
  OBVIOUS
<1>1. /\ core[c].at = "scan" /\ Assigns(c) /\ core[c] # Idle
      /\ UNCHANGED <<src, dst, updt_cnt, updt_idx, nbflag, nbq, stage, before, woken, steps>>
      /\ core' = [core EXCEPT ![c] =
                    [at |-> IF Noted(a, w) THEN "queue" ELSE "load", a |-> a, w |-> w]]
      /\ raced' = RacedAfter(c)
  BY <1>0, Shapes DEF ScanNoted, Assigns
<1>2. a \in Array /\ a \in Writes[c] /\ w \in Word(a) /\ w \in Int /\ stage = "active"
      /\ updt_cnt[a] \in 0 .. UPDT_MAX
  BY <1>0, <1>1, Shapes DEF CoreOK, DataOK
<1>3. /\ core'[c].at \in {"load", "queue"} /\ core'[c].a = a /\ core'[c].w = w
      /\ core'[c].at = "queue" => Noted(a, w)
      /\ core'[c] \in CoreAt
      /\ \A d \in Core : d # c => core'[d] = core[d]
  <2>1. \A d \in Core : d # c => core'[d] = core[d]
    BY <1>1 DEF DataOK
  <2>2. core'[c] = [at |-> IF Noted(a, w) THEN "queue" ELSE "load", a |-> a, w |-> w]
    BY <1>1 DEF DataOK
  <2> QED BY <1>2, <2>1, <2>2 DEF CoreAt
<1>3a. /\ raced \subseteq raced' /\ raced' \subseteq Array
       /\ (\E d \in Core : core[d].at = "note" /\ core[d].a = a) => a \in raced'
  BY <1>0, <1>1, <1>2 DEF RacedAfter, DataOK
<1>4. Flagged' = Flagged /\ FlagsOK'
  BY <1>1, Zenon DEF Flagged, FlagsOK
<1>5. DataOK'
  <2>1. core' \in [Core -> CoreAt]
    BY <1>1, <1>3 DEF DataOK
  <2> QED BY <1>1, <1>3a, <2>1 DEF DataOK, CoreAt, Idle
<1>6. CoreOK'
  BY <1>1, <1>2, <1>3, <1>3a DEF CoreOK, Assigns, Copies
<1>7. BoundOK' /\ FlagOK'
  <2>1. (\E d \in Core : Assigns(d)') => \E d \in Core : Assigns(d)
    BY <1>1, <1>3 DEF Assigns
  <2> QED BY <1>1, <1>4, <2>1 DEF BoundOK, FlagOK
<1>8. FoundOK'
  <2> SUFFICES ASSUME NEW b \in Array \ raced', NEW v \in Word(b), src[b][v] # dst[b][v]
               PROVE  (WillQueue(b) /\ WillNote(b, v))' \/ WillCopy(b, v)'
    BY <1>1, <1>3a DEF FoundOK, Word
  <2>1. (WillQueue(b) /\ WillNote(b, v)) \/ WillCopy(b, v)
    BY <1>3a DEF FoundOK
  <2>2. WillQueue(b) => WillQueue(b)'
    BY <1>0, <1>1, <1>3, <1>4 DEF WillQueue, Assigns
  <2>3. WillNote(b, v) => WillNote(b, v)'
    <3>1. CASE b = a /\ v = w /\ core'[c].at = "queue"
      <4>1. Noted(b, v)' \/ updt_cnt'[b] >= UPDT_MAX
        BY <1>1, <1>3, <3>1 DEF Noted
      <4> QED BY <4>1 DEF WillNote
    <3>2. CASE b = a /\ v = w /\ core'[c].at = "load"
      BY <1>3, <3>2 DEF WillNote
    <3>3. CASE ~(b = a /\ v = w)
      BY <1>0, <1>1, <1>3, <3>3 DEF WillNote, Noted
    <3> QED BY <1>3, <3>1, <3>2, <3>3
  <2>4. WillCopy(b, v) => WillCopy(b, v)'
    BY <1>1, <1>3 DEF WillCopy, Copies
  <2> QED BY <2>1, <2>2, <2>3, <2>4
<1>9. WokenOK'
  BY <1>1 DEF WokenOK, Word
<1> QED BY <1>4, <1>5, <1>6, <1>7, <1>8, <1>9

\* The test of the count: the word has a place, or the array is full.
LEMMA StepLoad ==
  ASSUME NbInv, NEW c \in Core, LoadCount(c)
  PROVE  NbInv'
<1> USE Sizes DEF NbInv
<1>0. PICK a, w : a = core[c].a /\ w = core[c].w
  OBVIOUS
<1>1. /\ core[c].at = "load" /\ Assigns(c) /\ core[c] # Idle
      /\ UNCHANGED <<src, dst, updt_cnt, updt_idx, nbflag, nbq, stage, before, woken, steps>>
      /\ core' = [core EXCEPT ![c] =
                    IF HasPlace(a)
                    THEN [at |-> "note", a |-> a, w |-> w, cnt |-> updt_cnt[a]]
                    ELSE [at |-> "queue", a |-> a, w |-> w]]
      /\ raced' = RacedAfter(c)
  BY <1>0, Shapes DEF LoadCount, Assigns
<1>2. a \in Array /\ a \in Writes[c] /\ w \in Word(a) /\ w \in Int /\ stage = "active"
      /\ updt_cnt[a] \in 0 .. UPDT_MAX
  BY <1>0, <1>1, Shapes DEF CoreOK, DataOK
<1>3. /\ core'[c].at \in {"note", "queue"} /\ core'[c].a = a /\ core'[c].w = w
      /\ core'[c].at = "note" => core'[c].cnt = updt_cnt[a] /\ updt_cnt[a] < UPDT_MAX
      /\ core'[c].at = "queue" => updt_cnt[a] >= UPDT_MAX
      /\ core'[c] \in CoreAt
      /\ \A d \in Core : d # c => core'[d] = core[d]
  <2>1. \A d \in Core : d # c => core'[d] = core[d]
    BY <1>1 DEF DataOK
  <2>2. CASE HasPlace(a)
    <3>1. core'[c] = [at |-> "note", a |-> a, w |-> w, cnt |-> updt_cnt[a]]
      BY <1>1, <2>2 DEF DataOK
    <3> QED BY <1>2, <2>1, <2>2, <3>1 DEF CoreAt, HasPlace
  <2>3. CASE ~HasPlace(a)
    <3>1. core'[c] = [at |-> "queue", a |-> a, w |-> w]
      BY <1>1, <2>3 DEF DataOK
    <3>2. updt_cnt[a] >= UPDT_MAX
      BY <1>2, <2>3 DEF HasPlace
    <3> QED BY <1>2, <2>1, <3>1, <3>2 DEF CoreAt
  <2> QED BY <2>2, <2>3
<1>3a. /\ raced \subseteq raced' /\ raced' \subseteq Array
       /\ (\E d \in Core : core[d].at = "note" /\ core[d].a = a) => a \in raced'
  BY <1>0, <1>1, <1>2 DEF RacedAfter, DataOK
<1>4. Flagged' = Flagged /\ FlagsOK'
  BY <1>1, Zenon DEF Flagged, FlagsOK
<1>5. DataOK'
  <2>1. core' \in [Core -> CoreAt]
    BY <1>1, <1>3 DEF DataOK
  <2> QED BY <1>1, <1>3a, <2>1 DEF DataOK, CoreAt, Idle
<1>6. CoreOK'
  BY <1>1, <1>2, <1>3, <1>3a DEF CoreOK, Assigns, Copies
<1>7. BoundOK' /\ FlagOK'
  <2>1. (\E d \in Core : Assigns(d)') => \E d \in Core : Assigns(d)
    BY <1>1, <1>3 DEF Assigns
  <2> QED BY <1>1, <1>4, <2>1 DEF BoundOK, FlagOK
<1>8. FoundOK'
  <2> SUFFICES ASSUME NEW b \in Array \ raced', NEW v \in Word(b), src[b][v] # dst[b][v]
               PROVE  (WillQueue(b) /\ WillNote(b, v))' \/ WillCopy(b, v)'
    BY <1>1, <1>3a DEF FoundOK, Word
  <2>1. (WillQueue(b) /\ WillNote(b, v)) \/ WillCopy(b, v)
    BY <1>3a DEF FoundOK
  <2>2. WillQueue(b) => WillQueue(b)'
    BY <1>0, <1>1, <1>3, <1>4 DEF WillQueue, Assigns
  <2>3. WillNote(b, v) => WillNote(b, v)'
    <3>1. CASE b = a /\ v = w /\ core'[c].at = "queue"
      <4>1. Noted(b, v)' \/ updt_cnt'[b] >= UPDT_MAX
        BY <1>1, <1>3, <3>1 DEF Noted
      <4> QED BY <4>1 DEF WillNote
    <3>2. CASE b = a /\ v = w /\ core'[c].at = "note"
      BY <1>3, <3>2 DEF WillNote
    <3>3. CASE ~(b = a /\ v = w)
      BY <1>0, <1>1, <1>3, <3>3 DEF WillNote, Noted
    <3> QED BY <1>3, <3>1, <3>2, <3>3
  <2>4. WillCopy(b, v) => WillCopy(b, v)'
    BY <1>1, <1>3 DEF WillCopy, Copies
  <2> QED BY <2>1, <2>2, <2>3, <2>4
<1>9. WokenOK'
  BY <1>1 DEF WokenOK, Word
<1> QED BY <1>4, <1>5, <1>6, <1>7, <1>8, <1>9

\* The word gets the next place.
LEMMA StepNote ==
  ASSUME NbInv, NEW c \in Core, NoteWord(c)
  PROVE  NbInv'
<1> USE Sizes DEF NbInv
<1>0. PICK a, w, n : a = core[c].a /\ w = core[c].w /\ n = core[c].cnt
  OBVIOUS
<1>1. /\ core[c].at = "note" /\ Assigns(c) /\ core[c] # Idle
      /\ UNCHANGED <<src, dst, nbflag, nbq, stage, before, woken, raced, steps>>
      /\ updt_idx' = [updt_idx EXCEPT ![a][n + 1] = w]
      /\ updt_cnt' = [updt_cnt EXCEPT ![a] = n + 1]
      /\ core' = [core EXCEPT ![c] = [at |-> "queue", a |-> a, w |-> w]]
  BY <1>0, Shapes DEF NoteWord, Assigns
<1>2. /\ a \in Array /\ a \in Writes[c] /\ w \in Word(a) /\ w \in Int /\ stage = "active"
      /\ n \in Nat /\ n < UPDT_MAX /\ (a \notin raced => n = updt_cnt[a])
  BY <1>0, <1>1, Shapes DEF CoreOK, DataOK
<1>3. \A d \in Core : d # c /\ core[d].at = "note" => core[d].a # a \/ a \in raced
  BY <1>0, <1>1 DEF CoreOK
<1>4. /\ core'[c].at = "queue" /\ core'[c].a = a /\ core'[c].w = w /\ core'[c] \in CoreAt
      /\ \A d \in Core : d # c => core'[d] = core[d]
  <2>1. core'[c] = [at |-> "queue", a |-> a, w |-> w]
    BY <1>1 DEF DataOK
  <2> QED BY <1>1, <1>2, <2>1 DEF DataOK, CoreAt
<1>5. /\ updt_cnt'[a] = n + 1 /\ \A b \in Array : b # a => updt_cnt'[b] = updt_cnt[b]
      /\ updt_cnt' \in [Array -> 0 .. UPDT_MAX]
  BY <1>1, <1>2 DEF DataOK
<1>6. n + 1 \in Place
  BY <1>2 DEF Place
<1>7. /\ updt_idx'[a] = [updt_idx[a] EXCEPT ![n + 1] = w]
      /\ \A b \in Array : b # a => updt_idx'[b] = updt_idx[b]
      /\ updt_idx' = [b \in Array |-> updt_idx'[b]]
  BY <1>1, <1>2 DEF DataOK
<1>8. /\ updt_idx'[a] \in [Place -> Word(a)] /\ updt_idx'[a][n + 1] = w
      /\ \A p \in Place : p # n + 1 => updt_idx'[a][p] = updt_idx[a][p]
  <2>1. updt_idx[a] \in [Place -> Word(a)]
    BY <1>2 DEF DataOK
  <2> QED BY <1>2, <1>6, <1>7, <2>1
<1>9. \A b \in Array \ raced : \A v \in Word(b) : Noted(b, v) => Noted(b, v)'
  <2> SUFFICES ASSUME NEW b \in Array \ raced, NEW v \in Word(b), Noted(b, v) PROVE Noted(b, v)'
    OBVIOUS
  <2>1. CASE b # a
    BY <1>5, <1>7, <2>1 DEF Noted
  <2>2. CASE b = a
    <3>1. PICK p \in Place : p <= updt_cnt[a] /\ updt_idx[a][p] = v
      BY <2>2 DEF Noted
    <3>2. p # n + 1 /\ p <= n + 1
      BY <1>2, <2>2, <3>1 DEF Place
    <3> QED BY <1>5, <1>8, <2>2, <3>1, <3>2 DEF Noted
  <2> QED BY <2>1, <2>2
<1>10. Noted(a, w)'
  <2>1. n + 1 <= updt_cnt'[a] /\ updt_idx'[a][n + 1] = w
    BY <1>2, <1>5, <1>8
  <2> QED BY <1>6, <2>1 DEF Noted
<1>11. Flagged' = Flagged /\ FlagsOK'
  BY <1>1, Zenon DEF Flagged, FlagsOK
<1>12. DataOK'
  <2>1. core' \in [Core -> CoreAt]
    BY <1>1, <1>4 DEF DataOK
  <2>2. \A b \in Array : updt_idx'[b] \in [Place -> Word(b)]
    BY <1>7, <1>8 DEF DataOK
  <2> QED BY <1>1, <1>5, <1>7, <2>1, <2>2 DEF DataOK, CoreAt, Idle
<1>13. CoreOK'
  <2> SUFFICES ASSUME NEW d \in Core
               PROVE  /\ Assigns(d)' => /\ stage' = "active" /\ core'[d].a \in Writes[d]
                                        /\ core'[d].w \in Word(core'[d].a)
                      /\ core'[d].at = "note" =>
                           /\ core'[d].cnt < UPDT_MAX
                           /\ core'[d].a \notin raced => core'[d].cnt = updt_cnt'[core'[d].a]
                           /\ \A e \in Core : e # d /\ core'[e].at = "note"
                                 /\ core'[e].a = core'[d].a => core'[d].a \in raced
                      /\ Copies(d)' => /\ stage' = "update"
                                       /\ core'[d].todo \subseteq Word(core'[d].a)
    BY <1>1 DEF CoreOK, Word
  <2>1. CASE d = c
    BY <1>1, <1>2, <1>4, <2>1 DEF Assigns, Copies
  <2>2. CASE d # c
    <3>1. core'[d] = core[d] /\ (Assigns(d)' <=> Assigns(d)) /\ (Copies(d)' <=> Copies(d))
      BY <1>4, <2>2 DEF Assigns, Copies
    <3>2. core[d].at = "note" =>
            /\ Assigns(d) /\ core[d].a \in Array
            /\ core[d].a \notin raced => updt_cnt'[core[d].a] = updt_cnt[core[d].a]
      BY <1>3, <1>5, <2>2, Shapes, <3>1 DEF Assigns, Idle
    <3>3. \A e \in Core : core'[e].at = "note" => core[e].at = "note" /\ core[e].a = core'[e].a
      BY <1>4
    <3> QED BY <1>1, <3>1, <3>2, <3>3 DEF CoreOK
  <2> QED BY <2>1, <2>2
<1>14. BoundOK' /\ FlagOK'
  <2>1. (\E d \in Core : Assigns(d)') => \E d \in Core : Assigns(d)
    BY <1>1, <1>4 DEF Assigns
  <2> QED BY <1>1, <1>11, <2>1 DEF BoundOK, FlagOK
<1>15. FoundOK'
  <2> SUFFICES ASSUME NEW b \in Array \ raced, NEW v \in Word(b), src[b][v] # dst[b][v]
               PROVE  (WillQueue(b) /\ WillNote(b, v))' \/ WillCopy(b, v)'
    BY <1>1 DEF FoundOK, Word
  <2>1. (WillQueue(b) /\ WillNote(b, v)) \/ WillCopy(b, v)
    BY DEF FoundOK
  <2>2. WillQueue(b) => WillQueue(b)'
    BY <1>0, <1>1, <1>4, <1>11 DEF WillQueue, Assigns
  <2>3. WillNote(b, v) => WillNote(b, v)'
    <3>1. CASE b = a /\ v = w
      BY <1>10, <3>1 DEF WillNote
    <3>2. CASE ~(b = a /\ v = w)
      <4>1. updt_cnt[b] >= UPDT_MAX => updt_cnt'[b] >= UPDT_MAX
        <5>1. CASE b = a
          BY <1>2, <5>1
        <5>2. CASE b # a
          BY <1>5, <5>2
        <5> QED BY <5>1, <5>2
      <4>2. \A d \in Core : core[d].at \in {"scan", "load", "note"} /\ core[d].a = b /\ core[d].w = v
              => core'[d] = core[d]
        BY <1>0, <1>4, <3>2
      <4> QED BY <1>9, <4>1, <4>2 DEF WillNote
    <3> QED BY <3>1, <3>2
  <2>4. WillCopy(b, v) => WillCopy(b, v)'
    BY <1>1, <1>4 DEF WillCopy, Copies
  <2> QED BY <2>1, <2>2, <2>3, <2>4
<1>16. WokenOK'
  BY <1>1 DEF WokenOK, Word
<1> QED BY <1>11, <1>12, <1>13, <1>14, <1>15, <1>16

\* The array is queued, once.
LEMMA StepQueue ==
  ASSUME NbInv, NEW c \in Core, QueueArray(c)
  PROVE  NbInv'
<1> USE Sizes DEF NbInv
<1>0. PICK a : a = core[c].a
  OBVIOUS
<1>1. /\ core[c].at = "queue" /\ Assigns(c) /\ core[c] # Idle
      /\ UNCHANGED <<src, dst, updt_cnt, updt_idx, stage, before, woken, raced, steps>>
      /\ nbflag' = [nbflag EXCEPT ![a] = TRUE]
      /\ nbq' = IF nbflag[a] THEN nbq ELSE Append(nbq, a)
      /\ core' = [core EXCEPT ![c] = Idle]
  BY <1>0, Shapes DEF QueueArray, Assigns
<1>2. a \in Array /\ stage = "active" /\ steps < MaxSteps
  BY <1>0, <1>1, Shapes DEF CoreOK, BoundOK
<1>3. /\ core'[c] = Idle /\ core'[c].at = "idle"
      /\ \A d \in Core : d # c => core'[d] = core[d]
  BY <1>1 DEF DataOK, Idle
<1>4. /\ nbq' \in Seq(Array) /\ Len(nbq) \in Nat /\ Len(nbq') \in Nat
      /\ Len(nbq') >= Len(nbq)
      /\ \A i \in 1 .. Len(nbq) : nbq'[i] = nbq[i]
      /\ a \notin Flagged => Len(nbq') = Len(nbq) + 1 /\ nbq'[Len(nbq')] = a
  <2>1. nbq \in Seq(Array)
    BY DEF DataOK
  <2>2. CASE a \in Flagged
    <3>1. nbq' = nbq
      BY <1>1, <2>2, Zenon DEF Flagged
    <3> QED BY <2>1, <2>2, <3>1
  <2>3. CASE a \notin Flagged
    <3>1. nbq' = Append(nbq, a)
      BY <1>1, <1>2, <2>3, Zenon DEF Flagged
    <3> QED BY <1>2, <2>1, <3>1
  <2> QED BY <2>2, <2>3
<1>5. FlagsOK' /\ Flagged' = Flagged \cup {a}
  BY <1>1, <1>2, SetFlag
<1>6. DataOK'
  <2>1. core' \in [Core -> CoreAt]
    BY <1>1, <1>3 DEF DataOK, CoreAt
  <2> QED BY <1>1, <1>4, <2>1 DEF DataOK, CoreAt, Idle
<1>7. CoreOK'
  BY <1>1, <1>3 DEF CoreOK, Assigns, Copies
<1>8. BoundOK'
  BY <1>1, <1>2 DEF BoundOK
<1>9. FlagOK'
  <2> SUFFICES ASSUME NEW b \in Flagged' PROVE \E i \in 1 .. Len(nbq') : nbq'[i] = b
    BY DEF FlagOK
  <2>1. CASE b \in Flagged
    <3>1. PICK i \in 1 .. Len(nbq) : nbq[i] = b
      BY <2>1 DEF FlagOK
    <3>2. i \in 1 .. Len(nbq') /\ nbq'[i] = b
      BY <1>4, <3>1
    <3> QED BY <3>2
  <2>2. CASE b \notin Flagged
    <3>1. b = a /\ Len(nbq') \in 1 .. Len(nbq') /\ nbq'[Len(nbq')] = a
      BY <1>4, <1>5, <2>2
    <3> QED BY <3>1
  <2> QED BY <2>1, <2>2
<1>10. FoundOK'
  <2> SUFFICES ASSUME NEW b \in Array \ raced, NEW v \in Word(b), src[b][v] # dst[b][v]
               PROVE  (WillQueue(b) /\ WillNote(b, v))' \/ WillCopy(b, v)'
    BY <1>1 DEF FoundOK, Word
  <2>1. (WillQueue(b) /\ WillNote(b, v)) \/ WillCopy(b, v)
    BY DEF FoundOK
  <2>2. WillQueue(b) => WillQueue(b)'
    BY <1>0, <1>3, <1>5 DEF WillQueue, Assigns
  <2>3. WillNote(b, v) => WillNote(b, v)'
    BY <1>1, <1>3 DEF WillNote, Noted
  <2>4. WillCopy(b, v) => WillCopy(b, v)'
    BY <1>1, <1>3 DEF WillCopy, Copies
  <2> QED BY <2>1, <2>2, <2>3, <2>4
<1>11. WokenOK'
  BY <1>1 DEF WokenOK, Word
<1> QED BY <1>5, <1>6, <1>7, <1>8, <1>9, <1>10, <1>11

\* Stage 2 begins.
LEMMA StepStart ==
  ASSUME NbInv, StartUpdate
  PROVE  NbInv'
<1> USE Sizes DEF NbInv
<1>1. /\ stage = "active" /\ nbq # <<>> /\ stage' = "update"
      /\ \A c \in Core : core[c] = Idle /\ core[c].at = "idle"
      /\ UNCHANGED <<src, dst, updt_cnt, updt_idx, nbflag, nbq, core, before, woken, raced, steps>>
  BY DEF StartUpdate, AllIdle, Idle
<1>2. Flagged' = Flagged /\ FlagsOK'
  BY <1>1, Zenon DEF Flagged, FlagsOK
<1>3. DataOK'
  BY <1>1 DEF DataOK, CoreAt, Idle
<1>4. CoreOK'
  BY <1>1 DEF CoreOK, Assigns, Copies
<1>5. BoundOK' /\ FlagOK'
  BY <1>1, <1>2 DEF BoundOK, FlagOK
<1>6. FoundOK'
  BY <1>1, <1>2 DEF FoundOK, WillQueue, WillNote, Noted, WillCopy, Assigns, Copies, Word
<1>7. WokenOK'
  BY <1>1 DEF WokenOK, Word
<1> QED BY <1>2, <1>3, <1>4, <1>5, <1>6, <1>7

\* A core takes an array: the words to copy include every one that changed.
LEMMA StepTake ==
  ASSUME NbInv, NEW c \in Core, TakeArray(c)
  PROVE  NbInv'
<1> USE Sizes DEF NbInv
<1>0. PICK a, todo :
        /\ a = nbq[Len(nbq)]
        /\ todo = IF WholeArray(a) THEN Word(a) ELSE {updt_idx[a][p] : p \in 1 .. updt_cnt[a]}
  OBVIOUS
<1>1. /\ stage = "update" /\ core[c] = Idle /\ nbq # <<>>
      /\ UNCHANGED <<src, dst, updt_idx, stage, before, woken, raced, steps>>
      /\ core' = [core EXCEPT ![c] = [at |-> "copy", a |-> a, todo |-> todo]]
      /\ nbq' = SubSeq(nbq, 1, Len(nbq) - 1)
      /\ updt_cnt' = [updt_cnt EXCEPT ![a] = 0]
      /\ nbflag' = [nbflag EXCEPT ![a] = FALSE]
  BY <1>0 DEF TakeArray, FlagAfter
<1>2. /\ Len(nbq) \in Nat \ {0} /\ a \in Array /\ nbq' \in Seq(Array)
      /\ Len(nbq') = Len(nbq) - 1 /\ \A i \in 1 .. Len(nbq) - 1 : nbq'[i] = nbq[i]
  BY <1>0, <1>1, TakeLast DEF DataOK
<1>3. updt_cnt[a] \in 0 .. UPDT_MAX /\ updt_idx[a] \in [Place -> Word(a)]
  BY <1>2 DEF DataOK
<1>4. todo \subseteq Word(a) /\ todo \subseteq Int
  <2>1. \A p \in 1 .. updt_cnt[a] : p \in Place
    BY <1>3 DEF Place
  <2>2. todo \subseteq Word(a)
    BY <1>0, <1>3, <2>1
  <2> QED BY <2>2 DEF Word
<1>5. \A v \in Word(a) : Noted(a, v) \/ updt_cnt[a] >= UPDT_MAX => v \in todo
  <2> SUFFICES ASSUME NEW v \in Word(a), Noted(a, v), ~WholeArray(a) PROVE v \in todo
    BY <1>0 DEF WholeArray
  <2>1. PICK p \in Place : p <= updt_cnt[a] /\ updt_idx[a][p] = v
    BY DEF Noted
  <2>2. p \in 1 .. updt_cnt[a]
    BY <1>3, <2>1 DEF Place
  <2> QED BY <1>0, <2>1, <2>2
<1>6. /\ core'[c] = [at |-> "copy", a |-> a, todo |-> todo]
      /\ core'[c].at = "copy" /\ core'[c].a = a /\ core'[c].todo = todo
      /\ \A d \in Core : d # c => core'[d] = core[d]
      /\ core[c].at = "idle"
  <2>1. core[c].at = "idle"
    BY <1>1 DEF Idle
  <2> QED BY <1>1, <2>1 DEF DataOK
<1>7. FlagsOK' /\ Flagged' = Flagged \ {a}
  BY <1>1, <1>2, ClearFlag
<1>8. \A d \in Core : ~Assigns(d)
  BY <1>1 DEF CoreOK
<1>9. DataOK'
  <2>1. core' \in [Core -> CoreAt]
    BY <1>1, <1>2, <1>4 DEF DataOK, CoreAt
  <2>2. updt_cnt' \in [Array -> 0 .. UPDT_MAX]
    BY <1>1, <1>2 DEF DataOK
  <2> QED BY <1>1, <1>2, <2>1, <2>2 DEF DataOK, CoreAt, Idle
<1>10. CoreOK'
  BY <1>1, <1>4, <1>6, <1>8 DEF CoreOK, Assigns, Copies, Word
<1>11. BoundOK'
  BY <1>1 DEF BoundOK
<1>12. FlagOK'
  <2> SUFFICES ASSUME NEW b \in Flagged, b # a PROVE \E i \in 1 .. Len(nbq') : nbq'[i] = b
    BY <1>7 DEF FlagOK
  <2>1. PICK i \in 1 .. Len(nbq) : nbq[i] = b
    BY DEF FlagOK
  <2>2. i # Len(nbq)
    BY <1>0, <2>1
  <2>3. i \in 1 .. Len(nbq') /\ i \in 1 .. Len(nbq) - 1
    BY <1>2, <2>2
  <2> QED BY <1>2, <2>1, <2>3
<1>13. FoundOK'
  <2> SUFFICES ASSUME NEW b \in Array \ raced, NEW v \in Word(b), src[b][v] # dst[b][v]
               PROVE  (WillQueue(b) /\ WillNote(b, v))' \/ WillCopy(b, v)'
    BY <1>1 DEF FoundOK, Word
  <2>1. (WillQueue(b) /\ WillNote(b, v)) \/ WillCopy(b, v)
    BY DEF FoundOK
  <2>2. WillCopy(b, v) => WillCopy(b, v)'
    BY <1>6 DEF WillCopy, Copies
  <2>3. ASSUME WillQueue(b), WillNote(b, v)
        PROVE  (WillQueue(b) /\ WillNote(b, v))' \/ WillCopy(b, v)'
    <3>1. b \in Flagged /\ (Noted(b, v) \/ updt_cnt[b] >= UPDT_MAX)
      BY <1>8, <2>3 DEF WillQueue, WillNote, Assigns
    <3>2. CASE b = a
      <4>1. v \in todo
        BY <1>5, <3>1, <3>2
      <4> QED BY <1>6, <3>2, <4>1 DEF WillCopy, Copies
    <3>3. CASE b # a
      <4>1. updt_cnt'[b] = updt_cnt[b] /\ updt_idx'[b] = updt_idx[b] /\ b \in Flagged'
        BY <1>1, <1>2, <1>7, <3>1, <3>3 DEF DataOK
      <4> QED BY <3>1, <4>1 DEF WillQueue, WillNote, Noted
    <3> QED BY <3>2, <3>3
  <2> QED BY <2>1, <2>2, <2>3
<1>14. WokenOK'
  BY <1>1 DEF WokenOK, Word
<1> QED BY <1>7, <1>9, <1>10, <1>11, <1>12, <1>13, <1>14

\* A word is copied, and announced when it changed.
LEMMA StepCopy ==
  ASSUME NbInv, NEW c \in Core, CopyWord(c)
  PROVE  NbInv'
<1> USE Sizes DEF NbInv
<1>0. PICK a, w : a = core[c].a /\ w = CHOOSE x \in core[c].todo : TRUE
  OBVIOUS
<1>1. /\ core[c].at = "copy" /\ core[c].todo # {}
      /\ UNCHANGED <<src, updt_cnt, updt_idx, nbflag, nbq, stage, before, raced, steps>>
      /\ dst' = [dst EXCEPT ![a][w] = src[a][w]]
      /\ woken' = [woken EXCEPT ![a][w] = IF src[a][w] # dst[a][w] THEN @ + 1 ELSE @]
      /\ core' = [core EXCEPT ![c].todo = @ \ {w}]
  BY <1>0 DEF CopyWord
<1>2. /\ w \in core[c].todo /\ a \in Array /\ w \in Word(a)
      /\ core[c] \in [at : {"copy"}, a : Array, todo : SUBSET Int]
      /\ stage = "update" /\ core[c].todo \subseteq Word(a)
  <2>1. w \in core[c].todo
    BY <1>0, <1>1
  <2>2. /\ a \in Array /\ core[c] \in [at : {"copy"}, a : Array, todo : SUBSET Int]
        /\ stage = "update" /\ core[c].todo \subseteq Word(a)
    BY <1>0, <1>1, Shapes DEF CoreOK, Copies
  <2> QED BY <2>1, <2>2
<1>3. /\ core'[c].at = "copy" /\ core'[c].a = a /\ core'[c].todo = core[c].todo \ {w}
      /\ core'[c] \in [at : {"copy"}, a : Array, todo : SUBSET Int]
      /\ \A d \in Core : d # c => core'[d] = core[d]
  BY <1>0, <1>1, <1>2 DEF DataOK
<1>4. /\ dst'[a] = [dst[a] EXCEPT ![w] = src[a][w]]
      /\ \A b \in Array : b # a => dst'[b] = dst[b]
      /\ dst' = [b \in Array |-> dst'[b]]
  BY <1>1, <1>2 DEF DataOK
<1>5. /\ woken'[a] = [woken[a] EXCEPT ![w] =
                         IF src[a][w] # dst[a][w] THEN woken[a][w] + 1 ELSE woken[a][w]]
      /\ \A b \in Array : b # a => woken'[b] = woken[b]
      /\ woken' = [b \in Array |-> woken'[b]]
  BY <1>1, <1>2 DEF DataOK
<1>6. /\ dst'[a][w] = src[a][w]
      /\ woken'[a][w] = IF src[a][w] # dst[a][w] THEN woken[a][w] + 1 ELSE woken[a][w]
      /\ \A b \in Array : \A v \in Word(b) : ~(b = a /\ v = w) =>
           dst'[b][v] = dst[b][v] /\ woken'[b][v] = woken[b][v]
  BY <1>2, <1>4, <1>5 DEF DataOK
<1>7. WokenOK'
  <2> SUFFICES ASSUME NEW b \in Array, NEW v \in Word(b)
               PROVE  /\ dst'[b][v] \in {before[b][v], src[b][v]}
                      /\ woken'[b][v] = IF before[b][v] # dst'[b][v] THEN 1 ELSE 0
    BY <1>1, <1>2 DEF WokenOK, Word
  <2>1. /\ dst[b][v] \in {before[b][v], src[b][v]}
        /\ woken[b][v] = IF before[b][v] # dst[b][v] THEN 1 ELSE 0
    BY DEF WokenOK
  <2> QED BY <1>6, <2>1
<1>8. DataOK'
  <2>1. core' \in [Core -> CoreAt]
    BY <1>1, <1>3 DEF DataOK, CoreAt
  <2>2. dst'[a] \in [Word(a) -> Value]
    BY <1>2, <1>4 DEF DataOK
  <2>3. woken'[a] \in [Word(a) -> Value]
    <3>1. woken'[a][w] \in Value
      BY <1>2, <1>7 DEF WokenOK, Value, Word
    <3>2. woken[a] \in [Word(a) -> Value]
      BY <1>2 DEF DataOK
    <3>3. woken'[a] = [woken[a] EXCEPT ![w] = woken'[a][w]]
      BY <1>2, <1>5, <3>2
    <3> QED BY <3>1, <3>2, <3>3
  <2>4. \A b \in Array : dst'[b] \in [Word(b) -> Value] /\ woken'[b] \in [Word(b) -> Value]
    BY <1>4, <1>5, <2>2, <2>3 DEF DataOK
  <2> QED BY <1>1, <1>4, <1>5, <2>1, <2>4 DEF DataOK, CoreAt, Idle
<1>9. Flagged' = Flagged /\ FlagsOK'
  BY <1>1, Zenon DEF Flagged, FlagsOK
<1>10. CoreOK'
  BY <1>1, <1>2, <1>3 DEF CoreOK, Assigns, Copies, Word
<1>11. BoundOK' /\ FlagOK'
  BY <1>1, <1>2, <1>9 DEF BoundOK, FlagOK
<1>12. FoundOK'
  <2> SUFFICES ASSUME NEW b \in Array \ raced, NEW v \in Word(b), src[b][v] # dst'[b][v]
               PROVE  (WillQueue(b) /\ WillNote(b, v))' \/ WillCopy(b, v)'
    BY <1>1 DEF FoundOK, Word
  <2>0. ~(b = a /\ v = w) /\ src[b][v] # dst[b][v]
    BY <1>6
  <2>1. (WillQueue(b) /\ WillNote(b, v)) \/ WillCopy(b, v)
    BY <2>0 DEF FoundOK
  <2>2. WillQueue(b) => WillQueue(b)'
    BY <1>1, <1>3, <1>9 DEF WillQueue, Assigns
  <2>3. WillNote(b, v) => WillNote(b, v)'
    BY <1>1, <1>3 DEF WillNote, Noted
  <2>4. WillCopy(b, v) => WillCopy(b, v)'
    BY <1>0, <1>1, <1>3, <2>0 DEF WillCopy, Copies
  <2> QED BY <2>1, <2>2, <2>3, <2>4
<1> QED BY <1>7, <1>8, <1>9, <1>10, <1>11, <1>12

\* A core has copied its array.
LEMMA StepDone ==
  ASSUME NbInv, NEW c \in Core, ArrayDone(c)
  PROVE  NbInv'
<1> USE Sizes DEF NbInv
<1>1. /\ core[c].at = "copy" /\ core[c].todo = {}
      /\ UNCHANGED <<src, dst, updt_cnt, updt_idx, nbflag, nbq, stage, before, woken, raced, steps>>
      /\ core' = [core EXCEPT ![c] = Idle]
  BY DEF ArrayDone
<1>2. /\ core'[c] = Idle /\ core'[c].at = "idle"
      /\ \A d \in Core : d # c => core'[d] = core[d]
  BY <1>1 DEF DataOK, Idle
<1>3. Flagged' = Flagged /\ FlagsOK'
  BY <1>1, Zenon DEF Flagged, FlagsOK
<1>4. DataOK'
  <2>1. core' \in [Core -> CoreAt]
    BY <1>1, <1>2 DEF DataOK, CoreAt
  <2> QED BY <1>1, <2>1 DEF DataOK, CoreAt, Idle
<1>5. CoreOK'
  BY <1>1, <1>2 DEF CoreOK, Assigns, Copies
<1>6. BoundOK' /\ FlagOK'
  <2>1. (\E d \in Core : Assigns(d)') => \E d \in Core : Assigns(d)
    BY <1>1, <1>2 DEF Assigns
  <2> QED BY <1>1, <1>3, <2>1 DEF BoundOK, FlagOK
<1>7. FoundOK'
  <2> SUFFICES ASSUME NEW b \in Array \ raced, NEW v \in Word(b), src[b][v] # dst[b][v]
               PROVE  (WillQueue(b) /\ WillNote(b, v))' \/ WillCopy(b, v)'
    BY <1>1 DEF FoundOK, Word
  <2>1. (WillQueue(b) /\ WillNote(b, v)) \/ WillCopy(b, v)
    BY DEF FoundOK
  <2>2. WillQueue(b) => WillQueue(b)'
    BY <1>1, <1>2, <1>3 DEF WillQueue, Assigns
  <2>3. WillNote(b, v) => WillNote(b, v)'
    BY <1>1, <1>2 DEF WillNote, Noted
  <2>4. WillCopy(b, v) => WillCopy(b, v)'
    BY <1>1, <1>2 DEF WillCopy, Copies
  <2> QED BY <2>1, <2>2, <2>3, <2>4
<1>8. WokenOK'
  BY <1>1 DEF WokenOK, Word
<1> QED BY <1>3, <1>4, <1>5, <1>6, <1>7, <1>8

\* After stage 2 nothing is left to copy.
LEMMA AllCopied ==
  ASSUME NbInv, AllIdle, nbq = <<>>
  PROVE  \A a \in Array \ raced : \A w \in Word(a) : src[a][w] = dst[a][w]
<1> USE DEF NbInv
<1>1. \A c \in Core : core[c].at = "idle"
  BY DEF AllIdle, Idle
<1>2. Flagged = {}
  BY DEF FlagOK
<1> QED BY <1>1, <1>2 DEF FoundOK, WillQueue, WillCopy, Assigns, Copies

\* Stage 2 ends.
LEMMA StepFinish ==
  ASSUME NbInv, EndUpdate
  PROVE  NbInv'
<1> USE Sizes DEF NbInv
<1>1. /\ stage = "update" /\ nbq = <<>> /\ stage' = "active" /\ steps' = steps + 1
      /\ AllIdle /\ before' = dst
      /\ woken' = [a \in Array |-> [w \in Word(a) |-> 0]]
      /\ UNCHANGED <<src, dst, updt_cnt, updt_idx, nbflag, nbq, core, raced>>
  BY DEF EndUpdate
<1>2. \A c \in Core : core[c].at = "idle"
  BY <1>1 DEF AllIdle, Idle
<1>3. Flagged' = Flagged /\ FlagsOK'
  BY <1>1, Zenon DEF Flagged, FlagsOK
<1>4. \A a \in Array : woken'[a] = [w \in Word(a) |-> 0]
  BY <1>1
<1>5. DataOK'
  <2>1. steps' \in 0 .. MaxSteps
    BY <1>1 DEF BoundOK, DataOK
  <2>2. woken' = [a \in Array |-> woken'[a]]
        /\ \A a \in Array : woken'[a] \in [Word(a) -> Value]
    BY <1>1, <1>4 DEF Value
  <2>3. before' = [a \in Array |-> before'[a]]
        /\ \A a \in Array : before'[a] \in [Word(a) -> Value]
    BY <1>1 DEF DataOK
  <2> QED BY <1>1, <2>1, <2>2, <2>3 DEF DataOK, CoreAt, Idle
<1>6. CoreOK'
  BY <1>1, <1>2 DEF CoreOK, Assigns, Copies
<1>7. BoundOK' /\ FlagOK'
  BY <1>1, <1>2, <1>3 DEF BoundOK, FlagOK, Assigns
<1>8. FoundOK'
  BY <1>1, AllCopied DEF FoundOK, Word
<1>9. WokenOK'
  <2>1. \A a \in Array : \A w \in Word(a) : woken'[a][w] = 0
    BY <1>4
  <2> QED BY <1>1, <2>1 DEF WokenOK, Word
<1> QED BY <1>3, <1>5, <1>6, <1>7, <1>8, <1>9

\* Every step keeps the invariant.
LEMMA NbStep == NbInv /\ [Next]_vars => NbInv'
<1> SUFFICES ASSUME NbInv, [Next]_vars PROVE NbInv'
  OBVIOUS
<1>1. CASE UNCHANGED vars
  <2> USE DEF NbInv
  <2>1. UNCHANGED <<src, dst, updt_cnt, updt_idx, nbflag, nbq, stage, core, before, woken, raced, steps>>
    BY <1>1 DEF vars
  <2>2. Flagged' = Flagged /\ FlagsOK'
    BY <2>1, Zenon DEF Flagged, FlagsOK
  <2>3. DataOK' /\ CoreOK'
    BY <2>1 DEF DataOK, CoreAt, Idle, CoreOK, Assigns, Copies, Word
  <2>4. BoundOK' /\ FlagOK' /\ WokenOK'
    BY <2>1, <2>2 DEF BoundOK, FlagOK, WokenOK, Assigns, Word
  <2>5. FoundOK'
    BY <2>1, <2>2 DEF FoundOK, WillQueue, WillNote, Noted, WillCopy, Assigns, Copies, Word
  <2> QED BY <2>2, <2>3, <2>4, <2>5
<1>2. ASSUME NEW c \in Core, CoreStep(c) PROVE NbInv'
  BY <1>2, StepScan, StepLoad, StepNote, StepQueue, StepTake, StepCopy, StepDone DEF CoreStep
<1>3. ASSUME NEW c \in Core, NEW a \in Array, NEW w \in Word(a), AssignWord(c, a, w)
      PROVE  NbInv'
  BY <1>3, StepAssign
<1> QED BY <1>1, <1>2, <1>3, StepStart, StepFinish DEF Next

\* The invariant says what the properties say.
LEMMA NbImplies == NbInv => ChangeNoted /\ Updated
<1> SUFFICES ASSUME NbInv PROVE ChangeNoted /\ Updated
  OBVIOUS
<1> USE DEF NbInv
<1>1. TypeOK
  BY Zenon DEF TypeOK, DataOK, FlagsOK
<1>2. ASSUME stage = "active", NEW a \in Array \ raced, NEW w \in Word(a), src[a][w] # dst[a][w],
             \A c \in Core : a \notin InHand(c)
      PROVE  nbflag[a] /\ (Noted(a, w) \/ WholeArray(a))
  <2>1. \A c \in Core : core[c] = Idle \/ core[c].a # a
    BY <1>2 DEF InHand
  <2>2. Idle.at = "idle"
    BY DEF Idle
  <2>3. \A c \in Core : core[c].at \in {"scan", "load", "note", "queue", "copy"} => core[c].a # a
    BY <2>1, <2>2
  <2>4. ~WillCopy(a, w)
    BY <2>3 DEF WillCopy, Copies
  <2>5. WillQueue(a) /\ WillNote(a, w)
    BY <1>2, <2>4 DEF FoundOK
  <2>6. a \in Flagged /\ (Noted(a, w) \/ updt_cnt[a] >= UPDT_MAX)
    BY <2>3, <2>5 DEF WillQueue, WillNote, Assigns
  <2>7. nbflag[a]
    BY <2>6, Zenon DEF Flagged
  <2> QED BY <2>6, <2>7 DEF WholeArray
<1>3. Updated
  BY AllCopied DEF Updated, WokenOK
<1> QED BY <1>1, <1>2, <1>3 DEF ChangeNoted

\* Between statements a word that differs from its shadow will be found: its
\* array is queued, and the word is noted or the whole array will be copied.  Only
\* an array whose notes two cores made at once (pint_simu.c:262-264) is excepted.
THEOREM NbChangeNoted == Spec => []ChangeNoted
<1>1. NbInv /\ [Next]_vars => NbInv'
  BY NbStep
<1> QED BY <1>1, NbInit, NbImplies, PTL DEF Spec

\* After stage 2 the listeners of exactly the changed words ran, once, and every
\* array whose notes did not race equals its shadow.
THEOREM NbUpdated == Spec => []Updated
<1>1. NbInv /\ [Next]_vars => NbInv'
  BY NbStep
<1> QED BY <1>1, NbInit, NbImplies, PTL DEF Spec
=====
