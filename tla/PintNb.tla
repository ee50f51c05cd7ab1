------------------------------- MODULE PintNb -------------------------------
(***************************************************************************)
(* Nonblocking assignments to arrays: pint_enqueue_nb_thread_array_by_idx  *)
(* in the active phase, pint_nb_assign_array in stage 2 (pint_simu.c).     *)
(*                                                                         *)
(* A statement a[w] <= v writes the shadow array src at once and, if the   *)
(* word changed, notes w in updt_idx and queues the array.  Stage 2 copies *)
(* the noted words from src to dst and wakes what is sensitive to them.    *)
(* updt_idx has UPDT_MAX places; an array whose count has reached that is  *)
(* copied as a whole.  The flag of an array and its place in NBASSIGN_Q    *)
(* are taken with atomic operations, updt_cnt and updt_idx are not.        *)
(***************************************************************************)
EXTENDS Integers, Sequences, FiniteSets, FiniteSetsExt

CONSTANTS
  Core,
  Array,
  Size,      \* array_size: the words of each array
  UPDT_MAX,  \* places of updt_idx, 16 in the code
  Writes,    \* the arrays the threads of each core assign
  MaxSteps   \* bound: runs of stage 2

ASSUME NbAssumption ==
  /\ Size \in [Array -> Nat \ {0}] /\ UPDT_MAX \in Nat \ {0} /\ MaxSteps \in Nat
  /\ Writes \in [Core -> SUBSET Array]

VARIABLES
  src, dst,            \* the shadow and the array proper
  updt_cnt, updt_idx,  \* words noted
  nbflag,              \* pending bit of the array
  nbq,                 \* NBASSIGN_Q
  stage,               \* "active" or "update"
  core,                \* what each core is doing
  before,              \* history: dst when stage 2 began
  woken,               \* history: how often stage 2 woke the listeners of a word
  raced,               \* history: arrays whose notes two cores made at once
  steps

vars == <<src, dst, updt_cnt, updt_idx, nbflag, nbq, stage, core, before,
          woken, raced, steps>>

Word(a) == 0 .. Size[a] - 1
Value == {0, 1}
Place == 1 .. UPDT_MAX
Idle == [at |-> "idle"]

Init ==
  /\ src = [a \in Array |-> [w \in Word(a) |-> 0]]
  /\ dst = src /\ before = src
  /\ updt_cnt = [a \in Array |-> 0]
  /\ updt_idx = [a \in Array |-> [p \in Place |-> 0]]
  /\ nbflag = [a \in Array |-> FALSE]
  /\ nbq = <<>>
  /\ stage = "active"
  /\ core = [c \in Core |-> Idle]
  /\ woken = src
  /\ raced = {}
  /\ steps = 0

-----------------------------------------------------------------------------
(* The active phase. *)

\* The generated statement: the shadow is written, and only a change queues.
AssignWord(c, a, w) ==
  /\ stage = "active" /\ core[c] = Idle /\ steps < MaxSteps
  /\ a \in Writes[c]
  /\ src' = [src EXCEPT ![a][w] = 1 - @]
  /\ core' = [core EXCEPT ![c] = [at |-> "scan", a |-> a, w |-> w]]
  /\ UNCHANGED <<dst, updt_cnt, updt_idx, nbflag, nbq, stage, before, woken, raced, steps>>

\* Another core is about to store the place and the count it has loaded.
RacedAfter(c) ==
  IF \E d \in Core : core[d].at = "note" /\ core[d].a = core[c].a
  THEN raced \cup {core[c].a} ELSE raced

\* The loop over updt_idx.
Noted(a, w) == \E p \in Place : p <= updt_cnt[a] /\ updt_idx[a][p] = w

ScanNoted(c) ==
  /\ core[c].at = "scan"
  /\ LET a == core[c].a
     IN core' = [core EXCEPT ![c] =
          [at |-> IF Noted(a, core[c].w) THEN "queue" ELSE "load", a |-> a, w |-> core[c].w]]
  /\ raced' = RacedAfter(c)
  /\ UNCHANGED <<src, dst, updt_cnt, updt_idx, nbflag, nbq, stage, before, woken, steps>>

\* Mutant of HasPlace: one place too few.
HasLessPlace(a) == updt_cnt[a] < UPDT_MAX - 1
HasPlace(a) == updt_cnt[a] < UPDT_MAX

\* The test of the count; the value tested is the one that is incremented.
LoadCount(c) ==
  /\ core[c].at = "load"
  /\ LET a == core[c].a
     IN core' = [core EXCEPT ![c] =
          IF HasPlace(a)
          THEN [at |-> "note", a |-> a, w |-> core[c].w, cnt |-> updt_cnt[a]]
          ELSE [at |-> "queue", a |-> a, w |-> core[c].w]]
  /\ raced' = RacedAfter(c)
  /\ UNCHANGED <<src, dst, updt_cnt, updt_idx, nbflag, nbq, stage, before, woken, steps>>

\* nb->updt_idx[nb->updt_cnt++] = array_idx
NoteWord(c) ==
  /\ core[c].at = "note"
  /\ updt_idx' = [updt_idx EXCEPT ![core[c].a][core[c].cnt + 1] = core[c].w]
  /\ updt_cnt' = [updt_cnt EXCEPT ![core[c].a] = core[c].cnt + 1]
  /\ core' = [core EXCEPT ![c] = [at |-> "queue", a |-> core[c].a, w |-> core[c].w]]
  /\ UNCHANGED <<src, dst, nbflag, nbq, stage, before, woken, raced, steps>>

\* pint_enqueue_flag_set and the atomic add on the queue's head; the slot is
\* read only after the barrier that ends the phase.
QueueArray(c) ==
  /\ core[c].at = "queue"
  /\ nbflag' = [nbflag EXCEPT ![core[c].a] = TRUE]
  /\ nbq' = IF nbflag[core[c].a] THEN nbq ELSE Append(nbq, core[c].a)
  /\ core' = [core EXCEPT ![c] = Idle]
  /\ UNCHANGED <<src, dst, updt_cnt, updt_idx, stage, before, woken, raced, steps>>

-----------------------------------------------------------------------------
(* Stage 2: execute_nbassign_q_thread on every core. *)

AllIdle == \A c \in Core : core[c] = Idle

StartUpdate ==
  /\ stage = "active" /\ AllIdle /\ nbq # <<>>
  /\ stage' = "update"
  /\ UNCHANGED <<src, dst, updt_cnt, updt_idx, nbflag, nbq, core, before, woken, raced, steps>>

\* Mutant of WholeArray: only a count above the limit means the whole array.
MoreThanPlaces(a) == updt_cnt[a] > UPDT_MAX \/ updt_cnt[a] = Size[a]
WholeArray(a) == updt_cnt[a] >= UPDT_MAX \/ updt_cnt[a] = Size[a]

FlagAfter == FALSE

\* pint_dequeue_nb_thread and the head of pint_nb_assign_array.
TakeArray(c) ==
  /\ stage = "update" /\ core[c] = Idle /\ nbq # <<>>
  /\ LET a == nbq[Len(nbq)]
     IN /\ core' = [core EXCEPT ![c] =
               [at |-> "copy", a |-> a,
                todo |-> IF WholeArray(a) THEN Word(a)
                         ELSE {updt_idx[a][p] : p \in 1 .. updt_cnt[a]}]]
        /\ nbq' = SubSeq(nbq, 1, Len(nbq) - 1)
        /\ updt_cnt' = [updt_cnt EXCEPT ![a] = 0]
        /\ nbflag' = [nbflag EXCEPT ![a] = FlagAfter]
  /\ UNCHANGED <<src, dst, updt_idx, stage, before, woken, raced, steps>>

\* pint_nb_array_process: a changed word is copied and its lists are served.  The
\* words of one array do not interact, so one order is as good as another.
CopyWord(c) ==
  /\ core[c].at = "copy" /\ core[c].todo # {}
  /\ LET a == core[c].a
         w == CHOOSE x \in core[c].todo : TRUE
     IN /\ dst' = [dst EXCEPT ![a][w] = src[a][w]]
        /\ woken' = [woken EXCEPT ![a][w] = IF src[a][w] # dst[a][w] THEN @ + 1 ELSE @]
        /\ core' = [core EXCEPT ![c].todo = @ \ {w}]
  /\ UNCHANGED <<src, updt_cnt, updt_idx, nbflag, nbq, stage, before, raced, steps>>

ArrayDone(c) ==
  /\ core[c].at = "copy" /\ core[c].todo = {}
  /\ core' = [core EXCEPT ![c] = Idle]
  /\ UNCHANGED <<src, dst, updt_cnt, updt_idx, nbflag, nbq, stage, before, woken, raced, steps>>

EndUpdate ==
  /\ stage = "update" /\ AllIdle /\ nbq = <<>>
  /\ stage' = "active"
  /\ steps' = steps + 1
  /\ before' = dst
  /\ woken' = [a \in Array |-> [w \in Word(a) |-> 0]]
  /\ UNCHANGED <<src, dst, updt_cnt, updt_idx, nbflag, nbq, core, raced>>

CoreStep(c) ==
  \/ ScanNoted(c) \/ LoadCount(c) \/ NoteWord(c) \/ QueueArray(c)
  \/ TakeArray(c) \/ CopyWord(c) \/ ArrayDone(c)

Next ==
  \/ \E c \in Core :
       \/ \E a \in Array : \E w \in Word(a) : AssignWord(c, a, w)
       \/ CoreStep(c)
  \/ StartUpdate
  \/ EndUpdate

Spec == Init /\ [][Next]_vars

-----------------------------------------------------------------------------
(* Properties. *)

\* Words, counts and places keep their types; the count never exceeds the
\* places of updt_idx.
TypeOK ==
  /\ \A a \in Array :
       /\ src[a] \in [Word(a) -> Value] /\ dst[a] \in [Word(a) -> Value]
       /\ updt_idx[a] \in [Place -> Word(a)]
  /\ updt_cnt \in [Array -> 0 .. UPDT_MAX]
  /\ nbflag \in [Array -> BOOLEAN]
  /\ nbq \in Seq(Array)
  /\ stage \in {"active", "update"} /\ raced \subseteq Array
  /\ steps \in 0 .. MaxSteps

\* The array a core has in hand.
InHand(c) == IF core[c] = Idle THEN {} ELSE {core[c].a}

\* Between statements a word that differs from its shadow will be found: its
\* array is queued, and the word is noted or the count says "all words".  The
\* arrays whose notes two cores made at once are excepted: the count one stores
\* may undo the other's note.  The types hold too.
ChangeNoted ==
  /\ TypeOK
  /\ stage = "active" => \A a \in Array \ raced : \A w \in Word(a) :
       src[a][w] # dst[a][w] /\ (\A c \in Core : a \notin InHand(c))
         => nbflag[a] /\ (Noted(a, w) \/ WholeArray(a))

\* After stage 2 the listeners of exactly the words that changed have run, once,
\* and every array equals its shadow, also when more words changed than updt_idx
\* holds; only an array whose notes two cores made at once may keep old words.
Updated ==
  stage = "update" /\ AllIdle /\ nbq = <<>> =>
    \A a \in Array : \A w \in Word(a) :
      /\ a \notin raced => dst[a][w] = src[a][w]
      /\ woken[a][w] = IF before[a][w] # dst[a][w] THEN 1 ELSE 0
=============================================================================
