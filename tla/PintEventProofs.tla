--------------------------- MODULE PintEventProofs ---------------------------
(***************************************************************************)
(* Theorems about PintEvent: for any number of cores, waiters and          *)
(* triggers, the swap lock excludes, every index and queue keeps its type, *)
(* and as long as no trigger has worked with a count that was out of date  *)
(* every waiter is in exactly one place.                                   *)
(***************************************************************************)
EXTENDS PintEvent, FiniteSetTheorems, SequenceTheorems, TLAPS

(* The invariant *)

Working == {"lock", "empty", "reserve", "move"}

\* The counts and the thread of a core fit the place it is at.
PlaceOK ==
    \A c \in Cores :
        /\ pc[c] \in {"add", "list"} => cur[c] \in Waiters
        /\ pc[c] \in {"peek", "empty", "reserve", "move"} => cur[c] \in Triggers
        /\ pc[c] = "lock" => cur[c] \in Threads
        /\ pc[c] \in Working /\ cur[c] \in Triggers => head[c] > 0
        /\ pc[c] = "list" => head[c] + 1 = thread_head
        /\ pc[c] = "move" => k[c] < head[c] /\ enq_idx[c] + head[c] <= Len(inactive)

\* A slot that a trigger may come to read holds a thread, unless the core with
\* the lock is about to store one.
Read(i) ==
    \/ i < thread_head
    \/ \E c \in Cores : pc[c] \in Working /\ cur[c] \in Triggers /\ i < head[c]
SlotsOK ==
    \A i \in 0 .. cmn_num - 1 :
        Read(i) => \/ thread_list[i] \in Waiters
                   \/ \E d \in Cores : pc[d] = "list" /\ head[d] = i

\* The empty slots of INACTIVE_Q are those the core with the lock has still to fill.
ToFill(j) ==
    \E c \in Cores : pc[c] = "move" /\ enq_idx[c] + k[c] < j /\ j <= enq_idx[c] + head[c]
QueueOK == \A j \in 1 .. Len(inactive) : inactive[j] = None <=> ToFill(j)

-----------------------------------------------------------------------------
(* One place for every waiter, as long as no count was out of date *)

\* The slots with a thread that waits, or that a trigger has still to move.
LiveAt(i) ==
    \/ i < thread_head /\ \A c \in Cores : pc[c] = "list" => head[c] # i
    \/ \E c \in Cores :
          \/ pc[c] \in {"empty", "reserve"} /\ i < head[c]
          \/ pc[c] = "move" /\ k[c] <= i /\ i < head[c]
Live == {i \in 0 .. cmn_num - 1 : LiveAt(i)}

Queued == {w \in Waiters : \E i \in 1 .. Len(active) : active[i] = w}
Moved == {w \in Waiters : \E i \in 1 .. Len(inactive) : inactive[i] = w}
Holds(c, w) == cur[c] = w /\ pc[c] \in {"lock", "add", "list"}
Held == {w \in Waiters : \E c \in Cores : Holds(c, w)}
Waiting == {w \in Waiters : \E i \in Live : thread_list[i] = w}
Resting == delayed \cap Waiters

CountOK ==
    \A c \in Cores :
        /\ pc[c] = "empty" => head[c] = thread_head
        /\ pc[c] \in {"reserve", "move"} => thread_head = 0

Kept == Waiters \subseteq Queued \cup Moved \cup Held \cup Waiting \cup Resting

Apart ==
    /\ Queued \cap (Moved \cup Held \cup Waiting \cup Resting) = {}
    /\ Moved \cap (Held \cup Waiting \cup Resting) = {}
    /\ Held \cap (Waiting \cup Resting) = {}
    /\ Waiting \cap Resting = {}

Single ==
    /\ \A i, j \in 1 .. Len(active) : active[i] \in Waiters /\ active[i] = active[j] => i = j
    /\ \A i, j \in 1 .. Len(inactive) : inactive[i] \in Waiters /\ inactive[i] = inactive[j] => i = j
    /\ \A c, d \in Cores, w \in Waiters : Holds(c, w) /\ Holds(d, w) => c = d
    /\ \A i, j \in Live : thread_list[i] = thread_list[j] => i = j

OnceOK == CountOK /\ Kept /\ Apart /\ Single
OnceInv == stale \/ OnceOK
-----------------------------------------------------------------------------
(* Sequences and constants *)

\* The capacity of the list is positive.
LEMMA CapacityOK == cmn_num \in Nat /\ cmn_num > 0
BY EventAssumption, FS_CardinalityType DEF cmn_num

\* An enumeration of a finite set lists each of its elements once.
LEMMA Enumeration ==
  ASSUME NEW S, IsFiniteSet(S), NEW q \in SetToSeqs(S)
  PROVE  /\ q \in Seq(S)
         /\ \A i, j \in 1 .. Len(q) : q[i] = q[j] => i = j
         /\ \A x \in S : \E i \in 1 .. Len(q) : q[i] = x
<1> DEFINE n == Cardinality(S)
<1>1. n \in Nat /\ IsFiniteSet(1 .. n) /\ Cardinality(1 .. n) = n
  BY FS_CardinalityType, FS_Interval
<1>2. q \in [1 .. n -> S] /\ \A i, j \in 1 .. n : i # j => q[i] # q[j]
  BY DEF SetToSeqs
<1>3. q \in Seq(S) /\ Len(q) = n
  BY <1>1, <1>2
<1>4. q \in Injection(1 .. n, S)
  BY <1>2 DEF Injection, IsInjective
<1>5. q \in Surjection(1 .. n, S)
  BY <1>1, <1>4, FS_Injection
<1>6. \A x \in S : \E i \in 1 .. n : q[i] = x
  BY <1>5 DEF Surjection
<1> QED BY <1>1, <1>2, <1>3, <1>6

\* Taking the last entry of a queue leaves the others.
LEMMA TakeLast ==
  ASSUME NEW S, NEW q \in Seq(S), q # <<>>
  PROVE  /\ Last(q) \in S /\ Front(q) \in Seq(S)
         /\ Len(q) \in Nat \ {0} /\ Len(Front(q)) = Len(q) - 1
         /\ Last(q) = q[Len(q)]
         /\ \A i \in 1 .. Len(q) - 1 : Front(q)[i] = q[i]
<1>1. Len(q) \in Nat \ {0} /\ \A i \in 1 .. Len(q) : q[i] \in S
  OBVIOUS
<1>2. /\ SubSeq(q, 1, Len(q) - 1) \in Seq(S)
      /\ Len(SubSeq(q, 1, Len(q) - 1)) = Len(q) - 1
      /\ \A i \in 1 .. Len(q) - 1 : SubSeq(q, 1, Len(q) - 1)[i] = q[i]
  BY <1>1, SubSeqProperties
<1> QED BY <1>1, <1>2 DEF Last, Front

\* Two queues, one after the other.
LEMMA Concat ==
  ASSUME NEW S, NEW q \in Seq(S), NEW e \in Seq(S)
  PROVE  /\ q \o e \in Seq(S) /\ Len(q \o e) = Len(q) + Len(e)
         /\ \A i \in 1 .. Len(q) : (q \o e)[i] = q[i]
         /\ \A i \in 1 .. Len(q \o e) : i > Len(q) =>
              i - Len(q) \in 1 .. Len(e) /\ (q \o e)[i] = e[i - Len(q)]
<1>1. q \o e \in Seq(S) /\ Len(q \o e) = Len(q) + Len(e)
      /\ Len(q) \in Nat /\ Len(e) \in Nat
  OBVIOUS
<1>2. \A i \in 1 .. Len(q) + Len(e) :
        (q \o e)[i] = IF i <= Len(q) THEN q[i] ELSE e[i - Len(q)]
  OBVIOUS
<1>3. \A i \in 1 .. Len(q) + Len(e) : i > Len(q) => i - Len(q) \in 1 .. Len(e)
  BY <1>1
<1> QED BY <1>1, <1>2, <1>3

-----------------------------------------------------------------------------
(* The lock *)

\* The invariant without the Boolean history variable.
DataOK ==
    /\ thread_num \in {0, cmn_num}
    /\ thread_head \in 0 .. cmn_num
    /\ thread_list \in [0 .. cmn_num - 1 -> Waiters \cup {None}]
    /\ active \in Seq(Threads) /\ inactive \in Seq(Waiters \cup {None})
    /\ delayed \subseteq Threads
    /\ T \in 0 .. MaxT
    /\ pc \in [Cores -> {"idle", "peek", "lock", "add", "list", "empty", "reserve",
                         "move", "unlock", "return"}]
    /\ cur \in [Cores -> Threads \cup {None}]
    /\ swap_data \in [Cores -> {0, cmn_num}]
    /\ head \in [Cores -> 0 .. cmn_num]
    /\ enq_idx \in [Cores -> Nat] /\ k \in [Cores -> 0 .. cmn_num]
Excludes ==
    /\ \A c, d \in Cores : Locked(c) /\ Locked(d) => c = d
    /\ thread_num = 0 <=> \E c \in Cores : Locked(c)
    /\ \A c \in Cores : Locked(c) => swap_data[c] = cmn_num
StepInv == DataOK /\ Excludes /\ PlaceOK /\ SlotsOK /\ QueueOK

HistoryOK == stale \in BOOLEAN

\* The history variable is Boolean, whatever happens.
LEMMA StaleOK == HistoryOK /\ [Next]_vars => HistoryOK'
<1> SUFFICES ASSUME stale \in BOOLEAN, [Next]_vars PROVE stale' \in BOOLEAN
  BY DEF HistoryOK
<1>1. CASE UNCHANGED stale
  BY <1>1
<1>2. ASSUME NEW c \in Cores, pint_lock(c) PROVE stale' \in BOOLEAN
  BY <1>2, Zenon DEF pint_lock
<1>3. UNCHANGED stale \/ \E c \in Cores : pint_lock(c)
  BY DEF Next, CoreStep, TakeThread, DelayWaiter, PeekHead, AddWaiter, ListWaiter, EmptyList,
     ReserveSlots, MoveThread, pint_unlock, ReturnThread, SwapQueues, NextTime, vars
<1> QED BY <1>1, <1>2, <1>3

\* The initial state: nobody waits and nobody has the lock.
LEMMA LockInit == Init => StepInv
<1> SUFFICES ASSUME Init PROVE StepInv
  OBVIOUS
<1> USE EventAssumption, CapacityOK
<1>1. IsFiniteSet(Threads)
  BY FS_Union DEF Threads
<1>2. active \in Seq(Threads)
  BY <1>1, Enumeration DEF Init
<1>3. DataOK
  BY <1>2 DEF Init, DataOK
<1>4. \A c \in Cores : pc[c] = "idle"
  BY DEF Init
<1>5. Excludes /\ PlaceOK
  BY <1>4 DEF Init, Excludes, PlaceOK, Locked, Working
<1>6. SlotsOK
  BY <1>4 DEF Init, SlotsOK, Read, Working
<1>7. QueueOK
  <2>1. Len(inactive) = 0
    BY DEF Init
  <2> QED BY <2>1 DEF QueueOK, ToFill
<1> QED BY <1>3, <1>5, <1>6, <1>7 DEF StepInv

\* A core pops a thread.
LEMMA LockTake ==
  ASSUME StepInv, NEW c \in Cores, TakeThread(c)
  PROVE  StepInv'
<1> USE EventAssumption, CapacityOK DEF StepInv
<1>1. Last(active) \in Threads /\ Front(active) \in Seq(Threads)
  BY TakeLast DEF TakeThread, DataOK
<1>2. /\ UNCHANGED <<evars, inactive, delayed, T, swap_data, head, enq_idx, k>>
      /\ UNCHANGED <<thread_num, thread_head, thread_list>>
      /\ pc[c] = "idle" /\ pc' = [pc EXCEPT ![c] = pc'[c]] /\ pc'[c] \in {"lock", "peek"}
      /\ \A d \in Cores : d # c => pc'[d] = pc[d] /\ cur'[d] = cur[d]
      /\ cur'[c] = Last(active) /\ cur' = [cur EXCEPT ![c] = Last(active)]
      /\ (pc'[c] = "lock" <=> cur'[c] \in Waiters)
      /\ active' = Front(active)
  BY DEF TakeThread, DataOK, evars
<1>3. DataOK'
  BY <1>1, <1>2 DEF DataOK
<1>4. Excludes'
  BY <1>2 DEF Excludes, Locked
<1>5. PlaceOK'
  BY <1>1, <1>2 DEF PlaceOK, Threads, Working
<1>6. SlotsOK'
  <2>1. \A i \in 0 .. cmn_num - 1 : Read(i)' => Read(i)
    BY <1>2 DEF Read, Working
  <2> QED BY <1>2, <2>1 DEF SlotsOK
<1>7. QueueOK'
  BY <1>2 DEF QueueOK, ToFill
<1> QED BY <1>3, <1>4, <1>5, <1>6, <1>7

\* A waiter is popped and delays itself: the queues keep their types.
LEMMA LockDelay ==
  ASSUME StepInv, NEW c \in Cores, DelayWaiter(c)
  PROVE  StepInv'
<1> USE EventAssumption DEF StepInv
<1>1. Last(active) \in Threads /\ Front(active) \in Seq(Threads)
  BY TakeLast DEF DelayWaiter, DataOK
<1>2. /\ UNCHANGED <<thread_num, thread_head, thread_list, inactive, T, pc, cur, swap_data,
                      head, enq_idx, k>>
      /\ active' = Front(active) /\ delayed' = delayed \cup {Last(active)}
  BY DEF DelayWaiter, evars, cvars
<1>3. DataOK'
  BY <1>1, <1>2 DEF DataOK
<1>4. Excludes' /\ PlaceOK'
  BY <1>2 DEF Excludes, Locked, PlaceOK
<1>5. SlotsOK' /\ QueueOK'
  BY <1>2 DEF SlotsOK, Read, QueueOK, ToFill
<1> QED BY <1>3, <1>4, <1>5

\* A trigger reads the count without the lock.
LEMMA LockPeek ==
  ASSUME StepInv, NEW c \in Cores, PeekHead(c)
  PROVE  StepInv'
<1> USE EventAssumption, CapacityOK DEF StepInv
<1>1. /\ UNCHANGED <<thread_num, thread_head, thread_list, active, inactive, delayed, T, cur,
                      swap_data, enq_idx, k>>
      /\ pc[c] = "peek" /\ pc'[c] = IF thread_head > 0 THEN "lock" ELSE "return"
      /\ pc' = [pc EXCEPT ![c] = pc'[c]] /\ head' = [head EXCEPT ![c] = thread_head]
      /\ head'[c] = thread_head
      /\ \A d \in Cores : d # c => pc'[d] = pc[d] /\ head'[d] = head[d]
  BY DEF PeekHead, DataOK, evars
<1>2. DataOK'
  BY <1>1 DEF DataOK
<1>3. Excludes'
  BY <1>1 DEF Excludes, Locked
<1>4. PlaceOK'
  BY <1>1 DEF PlaceOK, Threads, Working, DataOK
<1>5. SlotsOK'
  <2>1. \A i \in 0 .. cmn_num - 1 : Read(i)' => Read(i)
    BY <1>1 DEF Read, Working
  <2> QED BY <1>1, <2>1 DEF SlotsOK
<1>6. QueueOK'
  BY <1>1 DEF QueueOK, ToFill
<1> QED BY <1>2, <1>3, <1>4, <1>5, <1>6

\* pint_lock: the swap of 0 for the capacity makes this core the only holder.
LEMMA LockLock ==
  ASSUME StepInv, NEW c \in Cores, pint_lock(c)
  PROVE  StepInv'
<1> USE EventAssumption, CapacityOK DEF StepInv
<1>1. /\ UNCHANGED <<thread_head, thread_list, active, inactive, delayed, T, cur, head,
                      enq_idx, k>>
      /\ thread_num = cmn_num /\ thread_num' = 0
      /\ pc[c] = "lock" /\ pc'[c] = IF cur[c] \in Waiters THEN "add" ELSE "empty"
      /\ pc' = [pc EXCEPT ![c] = pc'[c]]
      /\ swap_data' = [swap_data EXCEPT ![c] = cmn_num] /\ swap_data'[c] = cmn_num
      /\ \A d \in Cores : d # c => pc'[d] = pc[d] /\ swap_data'[d] = swap_data[d]
  BY DEF pint_lock, DataOK
<1>2. \A d \in Cores : ~Locked(d)
  BY <1>1 DEF Excludes
<1>3. DataOK'
  BY <1>1 DEF DataOK
<1>4. Excludes'
  BY <1>1, <1>2 DEF Excludes, Locked
<1>5. PlaceOK'
  BY <1>1 DEF PlaceOK, Threads, Working
<1>6. SlotsOK'
  <2>1. \A i \in 0 .. cmn_num - 1 : Read(i)' => Read(i)
    BY <1>1 DEF Read, Working
  <2> QED BY <1>1, <2>1 DEF SlotsOK
<1>7. QueueOK'
  BY <1>1 DEF QueueOK, ToFill
<1> QED BY <1>3, <1>4, <1>5, <1>6, <1>7

\* A waiter takes the next slot.
LEMMA LockAdd ==
  ASSUME StepInv, NEW c \in Cores, AddWaiter(c)
  PROVE  StepInv'
<1> USE EventAssumption, CapacityOK DEF StepInv
<1>1. /\ UNCHANGED <<thread_num, thread_list, active, inactive, delayed, T, cur, swap_data,
                      enq_idx, k>>
      /\ thread_head \in 0 .. cmn_num - 1 /\ thread_head' = thread_head + 1
      /\ pc[c] = "add" /\ pc'[c] = "list" /\ pc' = [pc EXCEPT ![c] = "list"]
      /\ head' = [head EXCEPT ![c] = thread_head] /\ head'[c] = thread_head
      /\ \A d \in Cores : d # c => pc'[d] = pc[d] /\ head'[d] = head[d]
  BY DEF AddWaiter, DataOK
<1>2. \A d \in Cores : d # c => ~Locked(d)
  BY <1>1 DEF Excludes, Locked
<1>3. DataOK'
  BY <1>1 DEF DataOK
<1>4. Excludes'
  BY <1>1 DEF Excludes, Locked
<1>5. PlaceOK'
  BY <1>1, <1>2 DEF PlaceOK, Threads, Working, Locked
<1>6. SlotsOK'
  <2>1. \A i \in 0 .. cmn_num - 1 : Read(i)' => Read(i) \/ i = thread_head
    BY <1>1 DEF Read, Working
  <2> QED BY <1>1, <2>1 DEF SlotsOK
<1>7. QueueOK'
  BY <1>1 DEF QueueOK, ToFill
<1> QED BY <1>3, <1>4, <1>5, <1>6, <1>7

\* The waiter is stored in its slot.
LEMMA LockList ==
  ASSUME StepInv, NEW c \in Cores, ListWaiter(c)
  PROVE  StepInv'
<1> USE EventAssumption, CapacityOK DEF StepInv
<1>1. /\ UNCHANGED <<thread_num, thread_head, active, inactive, delayed, T, cur, swap_data,
                      head, enq_idx, k>>
      /\ pc[c] = "list" /\ pc'[c] = "unlock" /\ pc' = [pc EXCEPT ![c] = "unlock"]
      /\ thread_list' = [thread_list EXCEPT ![head[c]] = cur[c]]
      /\ \A d \in Cores : d # c => pc'[d] = pc[d]
  BY DEF ListWaiter, DataOK
<1>2. cur[c] \in Waiters /\ head[c] \in 0 .. cmn_num - 1 /\ head[c] + 1 = thread_head
  BY <1>1 DEF PlaceOK, DataOK
<1>3. thread_list'[head[c]] \in Waiters
      /\ \A i \in 0 .. cmn_num - 1 : i # head[c] => thread_list'[i] = thread_list[i]
  BY <1>1, <1>2 DEF DataOK
<1>4. DataOK'
  BY <1>1, <1>2 DEF DataOK
<1>5. Excludes'
  BY <1>1 DEF Excludes, Locked
<1>6. PlaceOK'
  BY <1>1 DEF PlaceOK, Working
<1>7. SlotsOK'
  <2>1. \A i \in 0 .. cmn_num - 1 : Read(i)' => Read(i)
    BY <1>1 DEF Read, Working
  <2> QED BY <1>1, <1>2, <1>3, <2>1 DEF SlotsOK
<1>8. QueueOK'
  BY <1>1 DEF QueueOK, ToFill
<1> QED BY <1>4, <1>5, <1>6, <1>7, <1>8

\* The trigger empties the list.
LEMMA LockEmpty ==
  ASSUME StepInv, NEW c \in Cores, EmptyList(c)
  PROVE  StepInv'
<1> USE EventAssumption, CapacityOK DEF StepInv
<1>1. /\ UNCHANGED <<thread_num, thread_list, active, inactive, delayed, T, cur, swap_data,
                      head, enq_idx, k>>
      /\ thread_head' = 0 /\ thread_head \in Nat
      /\ pc[c] = "empty" /\ pc'[c] = "reserve" /\ pc' = [pc EXCEPT ![c] = "reserve"]
      /\ \A d \in Cores : d # c => pc'[d] = pc[d]
  BY DEF EmptyList, DataOK
<1>2. \A d \in Cores : d # c => ~Locked(d)
  BY <1>1 DEF Excludes, Locked
<1>3. DataOK'
  BY <1>1 DEF DataOK
<1>4. Excludes'
  BY <1>1 DEF Excludes, Locked
<1>5. PlaceOK'
  BY <1>1, <1>2 DEF PlaceOK, Working, Locked
<1>6. SlotsOK'
  <2>1. \A i \in 0 .. cmn_num - 1 : Read(i)' => Read(i)
    BY <1>1 DEF Read, Working
  <2> QED BY <1>1, <2>1 DEF SlotsOK
<1>7. QueueOK'
  BY <1>1 DEF QueueOK, ToFill
<1> QED BY <1>3, <1>4, <1>5, <1>6, <1>7

\* The trigger reserves slots of INACTIVE_Q.
LEMMA LockReserve ==
  ASSUME StepInv, NEW c \in Cores, ReserveSlots(c)
  PROVE  StepInv' /\ Len(inactive') = Len(inactive) + head[c]
         /\ (\A j \in 1 .. Len(inactive) : inactive'[j] = inactive[j])
         /\ (\A j \in 1 .. Len(inactive') : j > Len(inactive) => inactive'[j] = None)
<1> USE EventAssumption, CapacityOK DEF StepInv
<1>1. /\ UNCHANGED <<thread_num, thread_head, thread_list, active, delayed, T, cur, swap_data,
                      head>>
      /\ pc[c] = "reserve" /\ pc'[c] = "move" /\ pc' = [pc EXCEPT ![c] = "move"]
      /\ inactive' = inactive \o [i \in 1 .. head[c] |-> None]
      /\ k' = [k EXCEPT ![c] = 0] /\ k'[c] = 0
      /\ enq_idx' = [enq_idx EXCEPT ![c] = Len(inactive)] /\ enq_idx'[c] = Len(inactive)
      /\ \A d \in Cores : d # c => pc'[d] = pc[d] /\ k'[d] = k[d] /\ enq_idx'[d] = enq_idx[d]
  BY DEF ReserveSlots, DataOK, evars
<1>2. \A d \in Cores : d # c => ~Locked(d)
  BY <1>1 DEF Excludes, Locked
<1>3. head[c] \in Nat \ {0} /\ head[c] <= cmn_num /\ Len(inactive) \in Nat
  BY <1>1 DEF PlaceOK, DataOK, Working
<1>4. /\ inactive' \in Seq(Waiters \cup {None}) /\ Len(inactive') = Len(inactive) + head[c]
      /\ \A j \in 1 .. Len(inactive) : inactive'[j] = inactive[j]
      /\ \A j \in 1 .. Len(inactive') : j > Len(inactive) => inactive'[j] = None
  <2>1. None \in Waiters \cup {None} /\ inactive \in Seq(Waiters \cup {None})
    BY DEF DataOK
  <2> DEFINE e == [i \in 1 .. head[c] |-> None]
  <2>2. inactive' = inactive \o e /\ head[c] \in Nat
    BY <1>1, <1>3
  <2>3. e \in Seq(Waiters \cup {None}) /\ Len(e) = head[c]
    BY <2>2
  <2>4. \A i \in 1 .. head[c] : e[i] = None
    OBVIOUS
  <2> HIDE DEF e
  <2>5. /\ inactive \o e \in Seq(Waiters \cup {None})
        /\ Len(inactive \o e) = Len(inactive) + Len(e)
        /\ \A i \in 1 .. Len(inactive) : (inactive \o e)[i] = inactive[i]
        /\ \A i \in 1 .. Len(inactive \o e) : i > Len(inactive) =>
             i - Len(inactive) \in 1 .. Len(e) /\ (inactive \o e)[i] = e[i - Len(inactive)]
    BY <2>1, <2>3, Concat
  <2> QED BY <2>2, <2>3, <2>4, <2>5
<1>5. DataOK'
  BY <1>1, <1>3, <1>4 DEF DataOK
<1>6. Excludes'
  BY <1>1 DEF Excludes, Locked
<1>7. PlaceOK'
  BY <1>1, <1>2, <1>3, <1>4 DEF PlaceOK, Working, Locked
<1>8. SlotsOK'
  <2>1. \A i \in 0 .. cmn_num - 1 : Read(i)' => Read(i)
    BY <1>1 DEF Read, Working
  <2> QED BY <1>1, <2>1 DEF SlotsOK
<1>9. QueueOK'
  <2> SUFFICES ASSUME NEW j \in 1 .. Len(inactive')
               PROVE  inactive'[j] = None <=> ToFill(j)'
    BY DEF QueueOK
  <2>1. ToFill(j)' <=> j > Len(inactive) /\ j <= Len(inactive) + head[c]
    <3>1. \A d \in Cores : d # c => pc'[d] # "move"
      BY <1>1, <1>2 DEF Locked
    <3>2. ToFill(j)' <=> Len(inactive) + 0 < j /\ j <= Len(inactive) + head[c]
      BY <1>1, <3>1 DEF ToFill
    <3> QED BY <1>3, <3>2
  <2>2. CASE j <= Len(inactive)
    <3>1. \A d \in Cores : pc[d] # "move"
      BY <1>1, <1>2 DEF Locked
    <3>2. j \in 1 .. Len(inactive) /\ inactive'[j] = inactive[j] /\ ~(j > Len(inactive))
      BY <1>3, <1>4, <2>2
    <3> QED BY <2>1, <3>1, <3>2 DEF QueueOK, ToFill
  <2>3. CASE j > Len(inactive)
    <3>1. j <= Len(inactive) + head[c] /\ inactive'[j] = None
      BY <1>3, <1>4, <2>3
    <3> QED BY <2>1, <2>3, <3>1
  <2> QED BY <1>3, <1>4, <2>2, <2>3
<1> QED BY <1>4, <1>5, <1>6, <1>7, <1>8, <1>9

\* The trigger copies one thread into its slot.
LEMMA LockMove ==
  ASSUME StepInv, NEW c \in Cores, MoveThread(c)
  PROVE  StepInv' /\ k[c] \in 0 .. cmn_num - 1 /\ thread_list[k[c]] \in Waiters
         /\ enq_idx[c] + k[c] + 1 \in 1 .. Len(inactive)
         /\ Len(inactive') = Len(inactive)
         /\ inactive'[enq_idx[c] + k[c] + 1] = thread_list[k[c]]
         /\ \A j \in 1 .. Len(inactive) :
              j # enq_idx[c] + k[c] + 1 => inactive'[j] = inactive[j]
<1> USE EventAssumption, CapacityOK DEF StepInv
<1>1. /\ UNCHANGED <<thread_num, thread_head, thread_list, active, delayed, T, cur, swap_data,
                      head, enq_idx>>
      /\ pc[c] = "move" /\ pc'[c] = IF k[c] + 1 = head[c] THEN "unlock" ELSE "move"
      /\ pc' = [pc EXCEPT ![c] = pc'[c]] /\ k[c] < head[c]
      /\ inactive' = [inactive EXCEPT ![enq_idx[c] + k[c] + 1] = thread_list[k[c]]]
      /\ k' = [k EXCEPT ![c] = k[c] + 1] /\ k'[c] = k[c] + 1
      /\ \A d \in Cores : d # c => pc'[d] = pc[d] /\ k'[d] = k[d]
  BY DEF MoveThread, DataOK, evars
<1>2. \A d \in Cores : d # c => ~Locked(d)
  BY <1>1 DEF Excludes, Locked
<1>3. /\ head[c] \in 0 .. cmn_num /\ Len(inactive) \in Nat /\ enq_idx[c] \in Nat
      /\ k[c] \in 0 .. cmn_num - 1 /\ enq_idx[c] + head[c] <= Len(inactive)
      /\ cur[c] \in Triggers
  BY <1>1 DEF PlaceOK, DataOK, Working
<1>4. thread_list[k[c]] \in Waiters
  <2>1. Read(k[c])
    BY <1>1, <1>3 DEF Read, Working
  <2>2. \A d \in Cores : pc[d] # "list"
    BY <1>1, <1>2 DEF Locked
  <2> QED BY <1>3, <2>1, <2>2 DEF SlotsOK
<1>5. /\ enq_idx[c] + k[c] + 1 \in 1 .. Len(inactive)
      /\ inactive' \in Seq(Waiters \cup {None}) /\ Len(inactive') = Len(inactive)
      /\ inactive'[enq_idx[c] + k[c] + 1] = thread_list[k[c]]
      /\ \A j \in 1 .. Len(inactive) : j # enq_idx[c] + k[c] + 1 => inactive'[j] = inactive[j]
  <2>1. enq_idx[c] + k[c] + 1 \in 1 .. Len(inactive)
    BY <1>1, <1>3
  <2>2. inactive \in Seq(Waiters \cup {None})
    BY DEF DataOK
  <2> QED BY <1>1, <1>4, <2>1, <2>2
<1>6. DataOK'
  <2>1. k' \in [Cores -> 0 .. cmn_num]
    <3>1. k[c] + 1 \in 0 .. cmn_num
      BY <1>3
    <3> QED BY <1>1, <3>1 DEF DataOK
  <2>2. pc' \in [Cores -> {"idle", "peek", "lock", "add", "list", "empty", "reserve",
                           "move", "unlock", "return"}]
    BY DEF MoveThread, DataOK
  <2> QED BY <1>1, <1>5, <2>1, <2>2 DEF DataOK
<1>7. Excludes'
  BY <1>1 DEF Excludes, Locked
<1>8. PlaceOK'
  BY <1>1, <1>2, <1>3, <1>5 DEF PlaceOK, Working, Locked
<1>9. SlotsOK'
  <2>1. \A i \in 0 .. cmn_num - 1 : Read(i)' => Read(i)
    BY <1>1 DEF Read, Working
  <2> QED BY <1>1, <2>1 DEF SlotsOK
<1>10. QueueOK'
  <2> SUFFICES ASSUME NEW j \in 1 .. Len(inactive)
               PROVE  inactive'[j] = None <=> ToFill(j)'
    BY <1>5 DEF QueueOK
  <2>0. \A d \in Cores : d # c => pc[d] # "move" /\ pc'[d] # "move"
    BY <1>1, <1>2 DEF Locked
  <2>1. ToFill(j) <=> enq_idx[c] + k[c] < j /\ j <= enq_idx[c] + head[c]
    BY <1>1, <2>0 DEF ToFill
  <2>2. ToFill(j)' <=> enq_idx[c] + k[c] + 1 < j /\ j <= enq_idx[c] + head[c]
    <3>1. ToFill(j)' <=> /\ k[c] + 1 # head[c]
                         /\ enq_idx[c] + (k[c] + 1) < j /\ j <= enq_idx[c] + head[c]
      BY <1>1, <2>0 DEF ToFill
    <3> QED BY <1>3, <3>1
  <2>3. CASE j = enq_idx[c] + k[c] + 1
    <3>1. inactive'[j] # None
      BY <1>4, <1>5, <2>3 DEF Threads
    <3> QED BY <1>3, <2>2, <2>3, <3>1
  <2>4. CASE j # enq_idx[c] + k[c] + 1
    <3>1. inactive'[j] = inactive[j]
      BY <1>5, <2>4
    <3>2. ToFill(j)' <=> ToFill(j)
      BY <1>3, <2>1, <2>2, <2>4
    <3> QED BY <3>1, <3>2 DEF QueueOK
  <2> QED BY <2>3, <2>4
<1> QED BY <1>3, <1>4, <1>5, <1>6, <1>7, <1>8, <1>9, <1>10

\* pint_unlock: the capacity comes back.
LEMMA LockUnlock ==
  ASSUME StepInv, NEW c \in Cores, pint_unlock(c)
  PROVE  StepInv'
<1> USE EventAssumption, CapacityOK DEF StepInv
<1>1. /\ UNCHANGED <<thread_head, thread_list, active, inactive, delayed, T, cur, swap_data,
                      head, enq_idx, k>>
      /\ thread_num' = swap_data[c]
      /\ pc[c] = "unlock" /\ pc'[c] = "return" /\ pc' = [pc EXCEPT ![c] = "return"]
      /\ \A d \in Cores : d # c => pc'[d] = pc[d]
  BY DEF pint_unlock, DataOK
<1>2. thread_num' = cmn_num /\ \A d \in Cores : ~Locked(d)'
  BY <1>1 DEF Excludes, Locked
<1>3. DataOK'
  BY <1>1, <1>2 DEF DataOK
<1>4. Excludes'
  BY <1>2 DEF Excludes
<1>5. PlaceOK'
  BY <1>1 DEF PlaceOK, Working
<1>6. SlotsOK'
  <2>1. \A i \in 0 .. cmn_num - 1 : Read(i)' => Read(i)
    BY <1>1 DEF Read, Working
  <2> QED BY <1>1, <2>1 DEF SlotsOK
<1>7. QueueOK'
  BY <1>1 DEF QueueOK, ToFill
<1> QED BY <1>3, <1>4, <1>5, <1>6, <1>7

\* A core returns to its loop.
LEMMA LockReturn ==
  ASSUME StepInv, NEW c \in Cores, ReturnThread(c)
  PROVE  StepInv'
<1> USE EventAssumption, CapacityOK DEF StepInv
<1>1. /\ UNCHANGED <<thread_num, thread_head, thread_list, active, inactive, T, swap_data,
                      head, enq_idx, k>>
      /\ pc[c] = "return" /\ pc'[c] = "idle" /\ pc' = [pc EXCEPT ![c] = "idle"]
      /\ cur' = [cur EXCEPT ![c] = None]
      /\ \A d \in Cores : d # c => pc'[d] = pc[d] /\ cur'[d] = cur[d]
      /\ delayed' \subseteq Threads
  BY DEF ReturnThread, DataOK, evars, Threads
<1>3. DataOK'
  BY <1>1 DEF DataOK
<1>4. Excludes'
  BY <1>1 DEF Excludes, Locked
<1>5. PlaceOK'
  BY <1>1 DEF PlaceOK, Working
<1>6. SlotsOK'
  <2>1. \A i \in 0 .. cmn_num - 1 : Read(i)' => Read(i)
    BY <1>1 DEF Read, Working
  <2> QED BY <1>1, <2>1 DEF SlotsOK
<1>7. QueueOK'
  BY <1>1 DEF QueueOK, ToFill
<1> QED BY <1>3, <1>4, <1>5, <1>6, <1>7

\* The swap: no reserved slot is still empty.
LEMMA LockSwap ==
  ASSUME StepInv, SwapQueues
  PROVE  StepInv' /\ inactive \in Seq(Waiters)
<1> USE EventAssumption, CapacityOK DEF StepInv
<1>1. /\ UNCHANGED <<thread_num, thread_head, thread_list, delayed, T, pc, cur, swap_data,
                      head, enq_idx, k>>
      /\ active' = inactive /\ inactive' = <<>>
      /\ \A c \in Cores : pc[c] = "idle"
  BY DEF SwapQueues, PhaseDone, evars, cvars
<1>2. \A j \in 1 .. Len(inactive) : inactive[j] \in Waiters
  BY <1>1 DEF QueueOK, ToFill, DataOK
<1>3. inactive \in Seq(Waiters) /\ inactive \in Seq(Threads)
  <2>1. inactive \in Seq(Waiters \cup {None})
    BY DEF DataOK
  <2>2. inactive \in Seq(Waiters)
    BY <1>2, <2>1
  <2> QED BY <1>2, <2>2 DEF Threads
<1>4. DataOK'
  BY <1>1, <1>3 DEF DataOK
<1>5. Excludes' /\ PlaceOK'
  BY <1>1 DEF Excludes, Locked, PlaceOK, Working
<1>6. SlotsOK'
  BY <1>1 DEF SlotsOK, Read
<1>7. QueueOK'
  <2>1. Len(inactive') = 0
    BY <1>1
  <2> QED BY <2>1 DEF QueueOK, ToFill
<1> QED BY <1>3, <1>4, <1>5, <1>6, <1>7

\* Time advances.
LEMMA LockTime ==
  ASSUME StepInv, NextTime
  PROVE  StepInv'
<1> USE EventAssumption, CapacityOK DEF StepInv
<1>1. /\ UNCHANGED <<thread_num, thread_head, thread_list, inactive, pc, cur, swap_data,
                      head, enq_idx, k>>
      /\ T < MaxT /\ T' = T + 1
  BY DEF NextTime, evars, cvars
<1>2. PICK due \in SUBSET delayed \ {{}} :
        active' \in SetToSeqs(due) /\ delayed' = delayed \ due
  BY DEF NextTime
<1>3. active' \in Seq(Threads)
  <2>1. IsFiniteSet(Threads)
    BY FS_Union DEF Threads
  <2>2. due \subseteq Threads
    BY DEF DataOK
  <2>3. IsFiniteSet(due)
    BY <2>1, <2>2, FS_Subset
  <2>4. active' \in Seq(due)
    BY <1>2, <2>3, Enumeration
  <2> QED BY <2>2, <2>4
<1>4. DataOK'
  BY <1>1, <1>2, <1>3 DEF DataOK
<1>5. Excludes' /\ PlaceOK'
  BY <1>1 DEF Excludes, Locked, PlaceOK, Working
<1>6. SlotsOK' /\ QueueOK'
  BY <1>1 DEF SlotsOK, Read, QueueOK, ToFill
<1> QED BY <1>4, <1>5, <1>6

\* Every step keeps the invariant of the lock.
LEMMA LockStep == StepInv /\ [Next]_vars => StepInv'
<1> SUFFICES ASSUME StepInv, [Next]_vars PROVE StepInv'
  OBVIOUS
<1>1. CASE UNCHANGED vars
  BY <1>1 DEF StepInv, DataOK, Excludes, Locked, PlaceOK, SlotsOK, Read, QueueOK, ToFill, vars, evars, cvars
<1>2. ASSUME NEW c \in Cores, CoreStep(c) PROVE StepInv'
  BY <1>2, LockTake, LockDelay, LockPeek, LockLock, LockAdd, LockList, LockEmpty, LockReserve,
     LockMove, LockUnlock, LockReturn DEF CoreStep
<1> QED BY <1>1, <1>2, LockSwap, LockTime DEF Next

\* At most one core is between pint_lock and pint_unlock, however the unlocked
\* reads of the count fall, and the capacity comes back with the unlock.
THEOREM EventLockExcludes == Spec => []LockExcludes
<1>1. Init => HistoryOK
  BY Zenon DEF Init, HistoryOK
<1>2. StepInv /\ HistoryOK => LockExcludes
  BY Zenon DEF StepInv, DataOK, Excludes, LockExcludes, TypeOK, HistoryOK
<1> QED BY <1>1, <1>2, LockInit, LockStep, StaleOK, PTL DEF Spec

-----------------------------------------------------------------------------
(* One place for every waiter *)

\* The initial state: every waiter is queued once.
LEMMA OnceInit == Init => OnceOK
<1> SUFFICES ASSUME Init PROVE OnceOK
  OBVIOUS
<1> USE EventAssumption, CapacityOK
<1>1. /\ active \in Seq(Threads)
      /\ \A i, j \in 1 .. Len(active) : active[i] = active[j] => i = j
      /\ \A x \in Threads : \E i \in 1 .. Len(active) : active[i] = x
  <2>1. IsFiniteSet(Threads)
    BY FS_Union DEF Threads
  <2> QED BY <2>1, Enumeration DEF Init
<1>2. /\ thread_head = 0 /\ Len(inactive) = 0 /\ delayed = {}
      /\ \A c \in Cores : pc[c] = "idle" /\ cur[c] = None
  BY DEF Init
<1>3. Live = {}
  BY <1>2 DEF Live, LiveAt
<1>4. Queued = Waiters
  BY <1>1 DEF Queued, Threads
<1>5. Moved = {} /\ Held = {} /\ Waiting = {} /\ Resting = {}
  BY <1>2, <1>3 DEF Moved, Held, Holds, Waiting, Resting
<1>6. CountOK /\ Kept /\ Apart
  BY <1>2, <1>4, <1>5 DEF CountOK, Kept, Apart
<1>7. Single
  BY <1>1, <1>2, <1>3 DEF Single, Holds
<1> QED BY <1>6, <1>7 DEF OnceOK

\* A core pops a thread: a waiter goes from the queue into the core's hands.
LEMMA OnceTake ==
  ASSUME StepInv, OnceOK, NEW c \in Cores, TakeThread(c)
  PROVE  OnceOK'
<1> USE EventAssumption, CapacityOK DEF StepInv, OnceOK
<1> DEFINE n == Len(active)
           x == Last(active)
<1>1. /\ active \in Seq(Threads) /\ n \in Nat \ {0} /\ x = active[n] /\ x \in Threads
      /\ Len(active') = n - 1 /\ \A i \in 1 .. n - 1 : active'[i] = active[i]
  BY TakeLast DEF TakeThread, DataOK
<1>2. /\ UNCHANGED <<thread_num, thread_head, thread_list, inactive, delayed, head, k>>
      /\ pc[c] = "idle" /\ pc'[c] = IF x \in Waiters THEN "lock" ELSE "peek"
      /\ \A d \in Cores : d # c => pc'[d] = pc[d] /\ cur'[d] = cur[d]
      /\ cur'[c] = x
  BY DEF TakeThread, DataOK, evars
<1> HIDE DEF n, x
<1>3. Live' = Live
  BY <1>2 DEF Live, LiveAt
<1>4. Waiting' = Waiting /\ Moved' = Moved /\ Resting' = Resting
  BY <1>2, <1>3 DEF Waiting, Moved, Resting
<1>5. \A d \in Cores, w \in Waiters : Holds(d, w)' <=> Holds(d, w) \/ (d = c /\ w = x)
  BY <1>2 DEF Holds
<1>6. Held' = Held \cup ({x} \cap Waiters)
  BY <1>5 DEF Held
<1>7. x \in Waiters => x \in Queued
  BY <1>1 DEF Queued, n
<1>8. Queued' = Queued \ {x}
  <2>1. ASSUME NEW w \in Queued, w # x PROVE w \in Queued'
    <3>1. PICK i \in 1 .. n : active[i] = w
      BY DEF Queued, n
    <3>2. i \in 1 .. n - 1
      BY <1>1, <2>1, <3>1
    <3> QED BY <1>1, <3>1, <3>2 DEF Queued
  <2>2. ASSUME NEW w \in Queued' PROVE w \in Queued /\ w # x
    <3>1. PICK i \in 1 .. n - 1 : active'[i] = w
      BY <1>1 DEF Queued
    <3>2. i \in 1 .. n /\ i # n /\ n \in 1 .. n /\ active[i] = w /\ w \in Waiters
      BY <1>1, <3>1 DEF Queued
    <3> QED BY <1>1, <3>2 DEF Queued, Single, n
  <2> QED BY <2>1, <2>2
<1>9. CountOK'
  BY <1>2 DEF CountOK
<1>10. Kept' /\ Apart'
  BY <1>4, <1>6, <1>7, <1>8 DEF Kept, Apart
<1>11. Single'
  <2>1. \A i, j \in 1 .. Len(active') :
          active'[i] \in Waiters /\ active'[i] = active'[j] => i = j
    BY <1>1 DEF Single, n
  <2>2. \A d, e \in Cores, w \in Waiters : Holds(d, w)' /\ Holds(e, w)' => d = e
    BY <1>5, <1>7 DEF Single, Apart, Held
  <2> QED BY <1>2, <1>3, <2>1, <2>2 DEF Single
<1> QED BY <1>9, <1>10, <1>11

\* A popped waiter that delays itself goes from the queue to the delayed threads.
LEMMA OnceDelay ==
  ASSUME StepInv, OnceOK, NEW c \in Cores, DelayWaiter(c)
  PROVE  OnceOK'
<1> USE EventAssumption, CapacityOK DEF StepInv, OnceOK
<1> DEFINE n == Len(active)
           x == Last(active)
<1>1. /\ active \in Seq(Threads) /\ n \in Nat \ {0} /\ x = active[n] /\ x \in Waiters
      /\ Len(active') = n - 1 /\ \A i \in 1 .. n - 1 : active'[i] = active[i]
  BY TakeLast DEF DelayWaiter, DataOK
<1>2. /\ UNCHANGED <<thread_num, thread_head, thread_list, inactive, pc, cur, head, k>>
      /\ delayed' = delayed \cup {x}
  BY DEF DelayWaiter, evars, cvars
<1> HIDE DEF n, x
<1>3. Live' = Live
  BY <1>2 DEF Live, LiveAt
<1>4. Waiting' = Waiting /\ Moved' = Moved
  BY <1>2, <1>3 DEF Waiting, Moved
<1>5. Held' = Held /\ Resting' = Resting \cup {x}
  BY <1>1, <1>2 DEF Held, Holds, Resting
<1>6. x \in Queued
  BY <1>1 DEF Queued, n
<1>7. Queued' = Queued \ {x}
  <2>1. ASSUME NEW w \in Queued, w # x PROVE w \in Queued'
    <3>1. PICK i \in 1 .. n : active[i] = w
      BY DEF Queued, n
    <3>2. i \in 1 .. n - 1
      BY <1>1, <2>1, <3>1
    <3> QED BY <1>1, <3>1, <3>2 DEF Queued
  <2>2. ASSUME NEW w \in Queued' PROVE w \in Queued /\ w # x
    <3>1. PICK i \in 1 .. n - 1 : active'[i] = w
      BY <1>1 DEF Queued
    <3>2. i \in 1 .. n /\ i # n /\ n \in 1 .. n /\ active[i] = w /\ w \in Waiters
      BY <1>1, <3>1 DEF Queued
    <3> QED BY <1>1, <3>2 DEF Queued, Single, n
  <2> QED BY <2>1, <2>2
<1>8. CountOK'
  BY <1>2 DEF CountOK
<1>9. Kept' /\ Apart'
  BY <1>4, <1>5, <1>6, <1>7 DEF Kept, Apart
<1>10. Single'
  BY <1>1, <1>2, <1>3 DEF Single, Holds, n
<1> QED BY <1>8, <1>9, <1>10

\* Steps that leave every waiter in its place.
LEMMA OnceStays ==
  ASSUME OnceOK, CountOK', UNCHANGED <<thread_list, active, inactive>>,
         Resting' = Resting, Live' = Live,
         \A d \in Cores, w \in Waiters : Holds(d, w)' <=> Holds(d, w)
  PROVE  OnceOK'
<1> USE DEF OnceOK
<1>1. /\ Queued' = Queued /\ Moved' = Moved /\ Held' = Held /\ Waiting' = Waiting
  BY DEF Queued, Moved, Held, Waiting
<1>2. Kept' /\ Apart'
  BY <1>1 DEF Kept, Apart
<1>3. Single'
  BY DEF Single
<1> QED BY <1>2, <1>3

\* Reading the count moves nobody.
LEMMA OncePeek ==
  ASSUME StepInv, OnceOK, NEW c \in Cores, PeekHead(c)
  PROVE  OnceOK'
<1> USE EventAssumption, CapacityOK DEF StepInv
<1>1. /\ UNCHANGED <<thread_head, thread_list, active, inactive, delayed, cur, k>>
      /\ pc[c] = "peek" /\ pc'[c] \in {"lock", "return"}
      /\ \A d \in Cores : d # c => pc'[d] = pc[d] /\ head'[d] = head[d]
  BY DEF PeekHead, DataOK, evars
<1>2. Live' = Live
  BY <1>1 DEF Live, LiveAt
<1>3. CountOK'
  BY <1>1 DEF OnceOK, CountOK
<1>4. cur[c] \in Triggers
  BY <1>1 DEF PlaceOK
<1>5. \A d \in Cores, w \in Waiters : Holds(d, w)' <=> Holds(d, w)
  BY <1>1, <1>4 DEF Holds
<1>6. Resting' = Resting
  BY <1>1 DEF Resting
<1> QED BY <1>1, <1>2, <1>3, <1>5, <1>6, OnceStays

\* Taking the lock with a count that is up to date moves nobody.
LEMMA OnceLock ==
  ASSUME StepInv, OnceOK, NEW c \in Cores, pint_lock(c), ~stale'
  PROVE  OnceOK'
<1> USE EventAssumption, CapacityOK DEF StepInv
<1>0. cur[c] \in Triggers => head[c] = thread_head
  BY Zenon DEF pint_lock
<1>1. /\ UNCHANGED <<thread_head, thread_list, active, inactive, delayed, cur, head, k>>
      /\ pc[c] = "lock" /\ pc'[c] = IF cur[c] \in Waiters THEN "add" ELSE "empty"
      /\ \A d \in Cores : d # c => pc'[d] = pc[d]
      /\ thread_num # 0
  BY DEF pint_lock, DataOK
<1>2. \A d \in Cores : ~Locked(d)
  BY <1>1 DEF Excludes
<1>3. cur[c] \in Waiters \/ cur[c] \in Triggers
  BY <1>1 DEF PlaceOK, Threads
<1>4. Live' = Live
  <2> SUFFICES ASSUME NEW i \in 0 .. cmn_num - 1 PROVE LiveAt(i)' <=> LiveAt(i)
    BY DEF Live
  <2>1. \A d \in Cores : pc[d] # "list" /\ pc'[d] # "list"
    BY <1>1, <1>2 DEF Locked
  <2> QED BY <1>0, <1>1, <1>3, <2>1 DEF LiveAt
<1>5. CountOK'
  BY <1>0, <1>1, <1>3 DEF OnceOK, CountOK
<1>6. \A d \in Cores, w \in Waiters : Holds(d, w)' <=> Holds(d, w)
  BY <1>1 DEF Holds
<1>7. Resting' = Resting
  BY <1>1 DEF Resting
<1> QED BY <1>1, <1>4, <1>5, <1>6, <1>7, OnceStays

\* Taking a slot does not list the waiter yet.
LEMMA OnceAdd ==
  ASSUME StepInv, OnceOK, NEW c \in Cores, AddWaiter(c)
  PROVE  OnceOK'
<1> USE EventAssumption, CapacityOK DEF StepInv
<1>1. /\ UNCHANGED <<thread_list, active, inactive, delayed, cur, k>>
      /\ thread_head \in Nat /\ thread_head' = thread_head + 1
      /\ pc[c] = "add" /\ pc'[c] = "list" /\ head'[c] = thread_head
      /\ \A d \in Cores : d # c => pc'[d] = pc[d] /\ head'[d] = head[d]
  BY DEF AddWaiter, DataOK
<1>2. \A d \in Cores : d # c => pc[d] \notin {"list", "empty", "reserve", "move"}
  BY <1>1 DEF Excludes, Locked
<1>3. Live' = Live
  <2> SUFFICES ASSUME NEW i \in 0 .. cmn_num - 1 PROVE LiveAt(i)' <=> LiveAt(i)
    BY DEF Live
  <2>1. i < thread_head' <=> i < thread_head \/ i = thread_head
    BY <1>1
  <2>2. LiveAt(i) <=> i < thread_head
    BY <1>1, <1>2 DEF LiveAt
  <2>3. LiveAt(i)' <=> i < thread_head' /\ i # thread_head
    BY <1>1, <1>2 DEF LiveAt
  <2> QED BY <1>1, <2>1, <2>2, <2>3
<1>4. CountOK'
  BY <1>1, <1>2 DEF OnceOK, CountOK
<1>5. \A d \in Cores, w \in Waiters : Holds(d, w)' <=> Holds(d, w)
  BY <1>1 DEF Holds
<1>6. Resting' = Resting
  BY <1>1 DEF Resting
<1> QED BY <1>1, <1>3, <1>4, <1>5, <1>6, OnceStays

\* Storing lists the waiter: from the core's hands into the list.
LEMMA OnceList ==
  ASSUME StepInv, OnceOK, NEW c \in Cores, ListWaiter(c)
  PROVE  OnceOK'
<1> USE EventAssumption, CapacityOK DEF StepInv, OnceOK
<1>1. /\ UNCHANGED <<thread_head, active, inactive, delayed, cur, head, k>>
      /\ pc[c] = "list" /\ pc'[c] = "unlock"
      /\ thread_list' = [thread_list EXCEPT ![head[c]] = cur[c]]
      /\ \A d \in Cores : d # c => pc'[d] = pc[d]
  BY DEF ListWaiter, DataOK
<1>2. cur[c] \in Waiters /\ head[c] \in 0 .. cmn_num - 1 /\ head[c] + 1 = thread_head
  BY <1>1 DEF PlaceOK, DataOK
<1>3. thread_list'[head[c]] = cur[c]
      /\ \A i \in 0 .. cmn_num - 1 : i # head[c] => thread_list'[i] = thread_list[i]
  BY <1>1, <1>2 DEF DataOK
<1>4. \A d \in Cores : d # c => pc[d] \notin {"list", "empty", "reserve", "move"}
  BY <1>1 DEF Excludes, Locked
<1>5. head[c] \notin Live /\ Live' = Live \cup {head[c]}
  <2>1. ASSUME NEW i \in 0 .. cmn_num - 1
        PROVE  /\ LiveAt(i) <=> i < thread_head /\ i # head[c]
               /\ LiveAt(i)' <=> i < thread_head
    BY <1>1, <1>4 DEF LiveAt
  <2>2. head[c] < thread_head
    BY <1>2
  <2> QED BY <1>2, <2>1, <2>2 DEF Live
<1>6. \A d \in Cores, w \in Waiters : Holds(d, w)' <=> Holds(d, w) /\ d # c
  BY <1>1 DEF Holds
<1>7. Holds(c, cur[c]) /\ cur[c] \in Held
  BY <1>1, <1>2 DEF Holds, Held
<1>8. Held' = Held \ {cur[c]}
  <2>1. \A d \in Cores, w \in Waiters : Holds(d, w) /\ d # c => w # cur[c]
    BY <1>2, <1>7 DEF Single
  <2>2. \A w \in Waiters : Holds(c, w) => w = cur[c]
    BY DEF Holds
  <2> QED BY <1>6, <2>1, <2>2 DEF Held
<1>9. Waiting' = Waiting \cup {cur[c]}
  <2>1. \A i \in Live : i \in 0 .. cmn_num - 1 /\ i # head[c]
    BY <1>5 DEF Live
  <2> QED BY <1>2, <1>3, <1>5, <2>1 DEF Waiting
<1>10. Queued' = Queued /\ Moved' = Moved /\ Resting' = Resting
  BY <1>1 DEF Queued, Moved, Resting
<1>11. CountOK'
  BY <1>1, <1>4 DEF CountOK
<1>12. Kept' /\ Apart'
  BY <1>7, <1>8, <1>9, <1>10 DEF Kept, Apart
<1>13. Single'
  <2>1. \A i \in Live : i \in 0 .. cmn_num - 1 /\ i # head[c] /\ thread_list[i] # cur[c]
    BY <1>2, <1>5, <1>7 DEF Live, Apart, Waiting
  <2>2. \A i, j \in Live' : thread_list'[i] = thread_list'[j] => i = j
    BY <1>3, <1>5, <2>1 DEF Single
  <2>3. \A d, e \in Cores, w \in Waiters : Holds(d, w)' /\ Holds(e, w)' => d = e
    BY <1>6 DEF Single
  <2> QED BY <1>1, <2>2, <2>3 DEF Single
<1> QED BY <1>11, <1>12, <1>13

\* Emptying the list leaves its threads with the trigger, because its count is
\* the length of the list.
LEMMA OnceEmpty ==
  ASSUME StepInv, OnceOK, NEW c \in Cores, EmptyList(c)
  PROVE  OnceOK'
<1> USE EventAssumption, CapacityOK DEF StepInv
<1>1. /\ UNCHANGED <<thread_list, active, inactive, delayed, cur, head, k>>
      /\ thread_head' = 0 /\ thread_head \in Nat
      /\ pc[c] = "empty" /\ pc'[c] = "reserve"
      /\ \A d \in Cores : d # c => pc'[d] = pc[d]
  BY DEF EmptyList, DataOK
<1>2. \A d \in Cores : d # c => pc[d] \notin {"list", "empty", "reserve", "move"}
  BY <1>1 DEF Excludes, Locked
<1>3. head[c] = thread_head
  BY <1>1 DEF OnceOK, CountOK
<1>4. Live' = Live
  <2> SUFFICES ASSUME NEW i \in 0 .. cmn_num - 1 PROVE LiveAt(i)' <=> LiveAt(i)
    BY DEF Live
  <2>1. LiveAt(i) <=> i < head[c]
    BY <1>1, <1>2, <1>3 DEF LiveAt
  <2>2. LiveAt(i)' <=> i < head[c]
    BY <1>1, <1>2 DEF LiveAt
  <2> QED BY <2>1, <2>2
<1>5. CountOK'
  BY <1>1, <1>2 DEF OnceOK, CountOK
<1>6. \A d \in Cores, w \in Waiters : Holds(d, w)' <=> Holds(d, w)
  BY <1>1 DEF Holds
<1>7. Resting' = Resting
  BY <1>1 DEF Resting
<1> QED BY <1>1, <1>4, <1>5, <1>6, <1>7, OnceStays

\* Reserved slots hold nobody yet.
LEMMA OnceReserve ==
  ASSUME StepInv, OnceOK, NEW c \in Cores, ReserveSlots(c)
  PROVE  OnceOK'
<1> USE EventAssumption, CapacityOK DEF StepInv, OnceOK
<1>1. /\ UNCHANGED <<thread_head, thread_list, active, delayed, cur, head>>
      /\ pc[c] = "reserve" /\ pc'[c] = "move" /\ k'[c] = 0
      /\ \A d \in Cores : d # c => pc'[d] = pc[d] /\ k'[d] = k[d]
  BY DEF ReserveSlots, DataOK, evars
<1>2. \A d \in Cores : d # c => pc[d] \notin {"list", "empty", "reserve", "move"}
  BY <1>1 DEF Excludes, Locked
<1>3. /\ Len(inactive') = Len(inactive) + head[c]
      /\ \A j \in 1 .. Len(inactive) : inactive'[j] = inactive[j]
      /\ \A j \in 1 .. Len(inactive') : j > Len(inactive) => inactive'[j] = None
      /\ Len(inactive) \in Nat /\ head[c] \in Nat
  <2>1. Len(inactive) \in Nat /\ head[c] \in Nat
    BY DEF DataOK
  <2> QED BY <2>1, LockReserve
<1>4. \A j \in 1 .. Len(inactive') : inactive'[j] \in Waiters =>
        j \in 1 .. Len(inactive) /\ inactive[j] = inactive'[j]
  BY <1>3 DEF Threads
<1>5. \A j \in 1 .. Len(inactive) : j \in 1 .. Len(inactive')
  BY <1>3
<1>6. Live' = Live
  <2> SUFFICES ASSUME NEW i \in 0 .. cmn_num - 1 PROVE LiveAt(i)' <=> LiveAt(i)
    BY DEF Live
  <2>1. thread_head = 0
    BY <1>1 DEF CountOK
  <2>2. LiveAt(i) <=> i < head[c]
    BY <1>1, <1>2, <2>1 DEF LiveAt
  <2>3. LiveAt(i)' <=> i < head[c]
    BY <1>1, <1>2, <2>1 DEF LiveAt
  <2> QED BY <2>2, <2>3
<1>7. \A d \in Cores, w \in Waiters : Holds(d, w)' <=> Holds(d, w)
  BY <1>1 DEF Holds
<1>8. Queued' = Queued /\ Held' = Held /\ Waiting' = Waiting /\ Resting' = Resting
  BY <1>1, <1>6, <1>7 DEF Queued, Held, Waiting, Resting
<1>9. Moved' = Moved
  BY <1>3, <1>4, <1>5 DEF Moved
<1>10. CountOK'
  BY <1>1, <1>2 DEF CountOK
<1>11. Kept' /\ Apart'
  BY <1>8, <1>9 DEF Kept, Apart
<1>12. Single'
  <2>1. \A i, j \in 1 .. Len(inactive') :
          inactive'[i] \in Waiters /\ inactive'[i] = inactive'[j] => i = j
    BY <1>4 DEF Single
  <2> QED BY <1>1, <1>6, <1>7, <2>1 DEF Single
<1> QED BY <1>10, <1>11, <1>12

\* A moved thread goes from the list into INACTIVE_Q.
LEMMA OnceMove ==
  ASSUME StepInv, OnceOK, NEW c \in Cores, MoveThread(c)
  PROVE  OnceOK'
<1> USE EventAssumption, CapacityOK DEF StepInv, OnceOK
<1> DEFINE w0 == thread_list[k[c]]
           s == enq_idx[c] + k[c] + 1
<1>1. /\ UNCHANGED <<thread_head, thread_list, active, delayed, cur, head>>
      /\ pc[c] = "move" /\ pc'[c] = (IF k[c] + 1 = head[c] THEN "unlock" ELSE "move")
      /\ k'[c] = k[c] + 1 /\ k[c] < head[c]
      /\ \A d \in Cores : d # c => pc'[d] = pc[d] /\ k'[d] = k[d]
  BY DEF MoveThread, DataOK, evars
<1>2. \A d \in Cores : d # c => pc[d] \notin {"list", "empty", "reserve", "move"}
  BY <1>1 DEF Excludes, Locked
<1>3. /\ k[c] \in 0 .. cmn_num - 1 /\ w0 \in Waiters /\ s \in 1 .. Len(inactive)
      /\ Len(inactive') = Len(inactive) /\ inactive'[s] = w0
      /\ \A j \in 1 .. Len(inactive) : j # s => inactive'[j] = inactive[j]
  BY LockMove
<1>4. inactive[s] = None \/ inactive[s] \in Waiters
  BY <1>3 DEF DataOK
<1> HIDE DEF w0, s
<1>5. k[c] \in Live /\ Live' = Live \ {k[c]}
  <2>1. thread_head = 0 /\ head[c] \in Nat
    BY <1>1 DEF CountOK, DataOK
  <2>2. ASSUME NEW i \in 0 .. cmn_num - 1
        PROVE  /\ LiveAt(i) <=> k[c] <= i /\ i < head[c]
               /\ LiveAt(i)' <=> k[c] + 1 <= i /\ i < head[c]
    <3>1. LiveAt(i) <=> k[c] <= i /\ i < head[c]
      BY <1>1, <1>2, <2>1 DEF LiveAt
    <3>2. LiveAt(i)' <=> pc'[c] = "move" /\ k[c] + 1 <= i /\ i < head[c]
      BY <1>1, <1>2, <2>1 DEF LiveAt
    <3>3. pc'[c] # "move" => ~(k[c] + 1 <= i /\ i < head[c])
      BY <1>1, <1>3, <2>1
    <3> QED BY <3>1, <3>2, <3>3
  <2> QED BY <1>1, <1>3, <2>1, <2>2 DEF Live
<1>6. w0 \in Waiting /\ w0 = thread_list[k[c]]
  BY <1>3, <1>5 DEF Waiting, w0
<1>7. Waiting' = Waiting \ {w0}
  BY <1>1, <1>5, <1>6 DEF Waiting, Single
<1>8. inactive[s] \notin Waiters
  <2>1. ToFill(s)
    <3>1. enq_idx[c] \in Nat /\ head[c] \in Nat /\ k[c] \in Nat
      BY DEF DataOK
    <3>2. enq_idx[c] + k[c] < s /\ s <= enq_idx[c] + head[c]
      BY <1>1, <3>1 DEF s
    <3> QED BY <1>1, <3>2 DEF ToFill
  <2> QED BY <1>3, <2>1 DEF QueueOK, Threads
<1>9. Moved' = Moved \cup {w0}
  BY <1>3, <1>8 DEF Moved
<1>10. \A d \in Cores, x \in Waiters : Holds(d, x)' <=> Holds(d, x)
  BY <1>1 DEF Holds
<1>11. Queued' = Queued /\ Held' = Held /\ Resting' = Resting
  BY <1>1, <1>10 DEF Queued, Held, Resting
<1>12. CountOK'
  BY <1>1, <1>2 DEF CountOK
<1>13. Kept' /\ Apart'
  BY <1>6, <1>7, <1>9, <1>11 DEF Kept, Apart
<1>14. Single'
  <2>1. \A j \in 1 .. Len(inactive) : inactive[j] # w0
    BY <1>3, <1>6 DEF Apart, Moved
  <2>2. \A i, j \in 1 .. Len(inactive') :
          inactive'[i] \in Waiters /\ inactive'[i] = inactive'[j] => i = j
    BY <1>3, <2>1 DEF Single
  <2> QED BY <1>1, <1>5, <1>10, <2>2 DEF Single
<1> QED BY <1>12, <1>13, <1>14

\* Giving the lock back moves nobody.
LEMMA OnceUnlock ==
  ASSUME StepInv, OnceOK, NEW c \in Cores, pint_unlock(c)
  PROVE  OnceOK'
<1>1. /\ UNCHANGED <<thread_head, thread_list, active, inactive, delayed, cur, head, k>>
      /\ pc[c] = "unlock" /\ pc'[c] = "return"
      /\ \A d \in Cores : d # c => pc'[d] = pc[d]
  BY DEF pint_unlock, StepInv, DataOK
<1>2. Live' = Live
  BY <1>1 DEF Live, LiveAt
<1>3. CountOK'
  BY <1>1 DEF OnceOK, CountOK
<1>4. \A d \in Cores, w \in Waiters : Holds(d, w)' <=> Holds(d, w)
  BY <1>1 DEF Holds
<1>5. Resting' = Resting
  BY <1>1 DEF Resting
<1> QED BY <1>1, <1>2, <1>3, <1>4, <1>5, OnceStays

\* A returning core has no waiter in hand; a trigger goes to the delayed threads.
LEMMA OnceReturn ==
  ASSUME StepInv, OnceOK, NEW c \in Cores, ReturnThread(c)
  PROVE  OnceOK'
<1>1. /\ UNCHANGED <<thread_head, thread_list, active, inactive, head, k>>
      /\ pc[c] = "return" /\ pc'[c] = "idle"
      /\ \A d \in Cores : d # c => pc'[d] = pc[d] /\ cur'[d] = cur[d]
      /\ delayed' = IF cur[c] \in Triggers THEN delayed \cup {cur[c]} ELSE delayed
  BY DEF ReturnThread, StepInv, DataOK, evars
<1>2. Live' = Live
  BY <1>1 DEF Live, LiveAt
<1>3. CountOK'
  BY <1>1 DEF OnceOK, CountOK
<1>4. \A d \in Cores, w \in Waiters : Holds(d, w)' <=> Holds(d, w)
  BY <1>1 DEF Holds
<1>5. Resting' = Resting
  BY <1>1, EventAssumption DEF Resting
<1> QED BY <1>1, <1>2, <1>3, <1>4, <1>5, OnceStays

\* The swap turns the moved waiters into queued ones.
LEMMA OnceSwap ==
  ASSUME StepInv, OnceOK, SwapQueues
  PROVE  OnceOK'
<1> USE EventAssumption, CapacityOK DEF StepInv, OnceOK
<1>1. /\ UNCHANGED <<thread_head, thread_list, delayed, pc, cur, head, k>>
      /\ active' = inactive /\ Len(inactive') = 0 /\ Len(active) = 0
  BY DEF SwapQueues, PhaseDone, evars, cvars
<1>2. Live' = Live
  BY <1>1 DEF Live, LiveAt
<1>3. Waiting' = Waiting /\ Held' = Held /\ Resting' = Resting
  BY <1>1, <1>2 DEF Waiting, Held, Holds, Resting
<1>4. Queued = {} /\ Queued' = Moved /\ Moved' = {}
  BY <1>1 DEF Queued, Moved
<1>5. CountOK'
  BY <1>1 DEF CountOK
<1>6. Kept' /\ Apart'
  BY <1>3, <1>4 DEF Kept, Apart
<1>7. Single'
  BY <1>1, <1>2 DEF Single, Holds
<1> QED BY <1>5, <1>6, <1>7

\* The threads whose delay ends are queued once each.
LEMMA OnceTime ==
  ASSUME StepInv, OnceOK, NextTime
  PROVE  OnceOK'
<1> USE EventAssumption, CapacityOK DEF StepInv, OnceOK
<1>1. /\ UNCHANGED <<thread_head, thread_list, inactive, pc, cur, head, k>>
      /\ Len(active) = 0
  BY DEF NextTime, PhaseDone, evars, cvars
<1>2. PICK due \in SUBSET delayed \ {{}} :
        active' \in SetToSeqs(due) /\ delayed' = delayed \ due
  BY DEF NextTime
<1>3. /\ active' \in Seq(due)
      /\ \A i, j \in 1 .. Len(active') : active'[i] = active'[j] => i = j
      /\ \A x \in due : \E i \in 1 .. Len(active') : active'[i] = x
  <2>1. IsFiniteSet(Threads)
    BY FS_Union DEF Threads
  <2>2. due \subseteq Threads
    BY DEF DataOK
  <2>3. IsFiniteSet(due)
    BY <2>1, <2>2, FS_Subset
  <2> QED BY <1>2, <2>3, Enumeration
<1>4. Live' = Live
  BY <1>1 DEF Live, LiveAt
<1>5. Waiting' = Waiting /\ Held' = Held /\ Moved' = Moved
  BY <1>1, <1>4 DEF Waiting, Held, Holds, Moved
<1>6. Queued = {} /\ Queued' = due \cap Waiters /\ Resting' = Resting \ due
  <2>1. \A i \in 1 .. Len(active') : active'[i] \in due
    BY <1>3
  <2> QED BY <1>1, <1>2, <1>3, <2>1 DEF Queued, Resting
<1>7. due \cap Waiters \subseteq Resting
  BY <1>2 DEF Resting
<1>8. CountOK'
  BY <1>1 DEF CountOK
<1>9. Kept' /\ Apart'
  BY <1>5, <1>6, <1>7 DEF Kept, Apart
<1>10. Single'
  BY <1>1, <1>3, <1>4 DEF Single, Holds
<1> QED BY <1>8, <1>9, <1>10

\* Every step keeps the waiters' places, unless a count was out of date.
LEMMA OnceStep == StepInv /\ HistoryOK /\ OnceInv /\ [Next]_vars => OnceInv'
<1> SUFFICES ASSUME StepInv, HistoryOK, OnceInv, [Next]_vars, ~stale' PROVE OnceOK'
  BY Zenon DEF OnceInv
<1>1. ~stale
  <2>1. CASE UNCHANGED stale
    BY <2>1
  <2>2. ASSUME NEW c \in Cores, pint_lock(c) PROVE ~stale
    BY <2>2, Zenon DEF pint_lock
  <2>3. UNCHANGED stale \/ \E c \in Cores : pint_lock(c)
    BY DEF Next, CoreStep, TakeThread, DelayWaiter, PeekHead, AddWaiter, ListWaiter, EmptyList,
       ReserveSlots, MoveThread, pint_unlock, ReturnThread, SwapQueues, NextTime, vars
  <2> QED BY <2>1, <2>2, <2>3
<1>2. OnceOK
  BY <1>1, Zenon DEF OnceInv
<1>3. CASE UNCHANGED vars
  <2>1. UNCHANGED <<thread_head, thread_list, active, inactive, delayed, pc, cur, head, k>>
    BY <1>3 DEF vars, evars, cvars
  <2>2. Live' = Live /\ Resting' = Resting
    BY <2>1 DEF Live, LiveAt, Resting
  <2>3. CountOK' /\ \A d \in Cores, w \in Waiters : Holds(d, w)' <=> Holds(d, w)
    BY <1>2, <2>1 DEF OnceOK, CountOK, Holds
  <2> QED BY <1>2, <2>1, <2>2, <2>3, OnceStays
<1>4. ASSUME NEW c \in Cores, CoreStep(c) PROVE OnceOK'
  BY <1>2, <1>4, OnceTake, OnceDelay, OncePeek, OnceLock, OnceAdd, OnceList, OnceEmpty,
     OnceReserve, OnceMove, OnceUnlock, OnceReturn DEF CoreStep
<1> QED BY <1>2, <1>3, <1>4, OnceSwap, OnceTime DEF Next

\* The slots of the list and of a trigger in hand, in the terms of the properties.
LEMMA LiveSlots ==
  ASSUME DataOK, NEW i \in 0 .. cmn_num - 1
  PROVE  i \in Live <=> i \in Filled \/ \E c \in Cores : i \in Unmoved(c)
<1>1. ASSUME NEW c \in Cores
      PROVE  i \in Unmoved(c) <=>
               \/ pc[c] \in {"empty", "reserve"} /\ i < head[c]
               \/ pc[c] = "move" /\ k[c] <= i /\ i < head[c]
  <2>1. ASSUME pc[c] \in {"empty", "reserve"} PROVE Unmoved(c) = 0 .. head[c] - 1
    <3>1. pc[c] # "move"
      BY <2>1
    <3> QED BY ONLY <2>1, <3>1, Zenon DEF Unmoved
  <2>2. ASSUME pc[c] = "move" PROVE Unmoved(c) = k[c] .. head[c] - 1
    <3>1. pc[c] \notin {"empty", "reserve"}
      BY <2>2
    <3> QED BY ONLY <2>2, <3>1, Zenon DEF Unmoved
  <2>3. ASSUME pc[c] \notin {"empty", "reserve"}, pc[c] # "move" PROVE Unmoved(c) = {}
    BY ONLY <2>3, Zenon DEF Unmoved
  <2>4. head[c] \in Nat /\ k[c] \in Nat
    BY CapacityOK DEF DataOK
  <2> QED BY <2>1, <2>2, <2>3, <2>4
<1>2. i \in Filled <=> i < thread_head /\ \A c \in Cores : pc[c] = "list" => head[c] # i
  BY CapacityOK DEF Filled, DataOK
<1> QED BY <1>1, <1>2 DEF Live, LiveAt

\* A set without two different elements counts at most one.
LEMMA AtMostOne ==
  ASSUME NEW S, \A x, y \in S : x = y
  PROVE  Cardinality(S) = IF S = {} THEN 0 ELSE 1
<1>1. S = {} \/ \E x : S = {x}
  OBVIOUS
<1> QED BY <1>1, FS_EmptySet, FS_Singleton

\* What the invariant says in the terms of the properties.
LEMMA OnceImplies == StepInv /\ OnceOK => NoThreadLost /\ \A w \in Waiters : Places(w) <= 1
<1> SUFFICES ASSUME StepInv, OnceOK, NEW w \in Waiters
             PROVE  /\ \/ w \in Listed
                       \/ w \in ToSet(active) \cup ToSet(inactive) \cup delayed
                       \/ \E c \in Cores : \/ w \in Moving(c)
                                           \/ cur[c] = w /\ pc[c] \in {"lock", "add", "list"}
                    /\ Places(w) <= 1
  BY DEF NoThreadLost
<1> USE EventAssumption, CapacityOK DEF StepInv, OnceOK
<1>1. DOMAIN active = 1 .. Len(active) /\ DOMAIN inactive = 1 .. Len(inactive)
  BY DEF DataOK
<1>2. w \in Queued => w \in ToSet(active)
  BY <1>1 DEF Queued, ToSet
<1>3. w \in Moved => w \in ToSet(inactive)
  BY <1>1 DEF Moved, ToSet
<1>4. w \in Waiting => w \in Listed \/ \E c \in Cores : w \in Moving(c)
  <2>1. ASSUME NEW i \in Live, thread_list[i] = w
        PROVE  w \in Listed \/ \E c \in Cores : w \in Moving(c)
    <3>1. i \in 0 .. cmn_num - 1
      BY DEF Live
    <3>2. i \in Filled \/ \E c \in Cores : i \in Unmoved(c)
      BY <3>1, LiveSlots
    <3> QED BY <2>1, <3>2 DEF Listed, Moving
  <2> QED BY <2>1 DEF Waiting
<1>5. w \in Held => \E c \in Cores : cur[c] = w /\ pc[c] \in {"lock", "add", "list"}
  BY DEF Held, Holds
<1>6. w \in Resting => w \in delayed
  BY DEF Resting
<1>7. w \in Queued \cup Moved \cup Held \cup Waiting \cup Resting
  BY DEF Kept
<1> DEFINE SL == {i \in Filled : thread_list[i] = w}
           SA == {i \in DOMAIN active : active[i] = w}
           SI == {i \in DOMAIN inactive : inactive[i] = w}
           SC == {c \in Cores : cur[c] = w /\ pc[c] \in {"lock", "add", "list"}}
<1>8. Filled \subseteq Live
  <2>1. \A i \in Filled : i \in 0 .. cmn_num - 1
    BY DEF Filled, DataOK
  <2> QED BY <2>1, LiveSlots
<1>9. (\A x, y \in SL : x = y) /\ (SL # {} => w \in Waiting)
  BY <1>8 DEF Single, Waiting
<1>10. (\A x, y \in SA : x = y) /\ (SA # {} => w \in Queued)
  BY <1>1 DEF Single, Queued
<1>11. (\A x, y \in SI : x = y) /\ (SI # {} => w \in Moved)
  BY <1>1 DEF Single, Moved
<1>12. (\A x, y \in SC : x = y) /\ (SC # {} => w \in Held)
  BY DEF Single, Held, Holds
<1>13. Places(w) = Cardinality(SL) + Cardinality(SA) + Cardinality(SI) + Cardinality(SC)
  BY DEF Places
<1> HIDE DEF SL, SA, SI, SC
<1>14. /\ Cardinality(SL) = IF SL = {} THEN 0 ELSE 1
       /\ Cardinality(SA) = IF SA = {} THEN 0 ELSE 1
       /\ Cardinality(SI) = IF SI = {} THEN 0 ELSE 1
       /\ Cardinality(SC) = IF SC = {} THEN 0 ELSE 1
  BY <1>9, <1>10, <1>11, <1>12, AtMostOne
<1>15. /\ ~(w \in Queued /\ (w \in Moved \/ w \in Held \/ w \in Waiting))
       /\ ~(w \in Moved /\ (w \in Held \/ w \in Waiting))
       /\ ~(w \in Held /\ w \in Waiting)
  BY DEF Apart
<1>16. Places(w) <= 1
  BY <1>9, <1>10, <1>11, <1>12, <1>13, <1>14, <1>15
<1> QED BY <1>2, <1>3, <1>4, <1>5, <1>6, <1>7, <1>16

\* As long as no trigger has worked with a count that was out of date, every
\* waiter is where a trigger or a queue finds it.
THEOREM EventKeptUnlessStale == Spec => []KeptUnlessStale
<1>1. Init => HistoryOK /\ OnceInv
  BY OnceInit, Zenon DEF Init, HistoryOK, OnceInv
<1>2. StepInv /\ OnceInv => KeptUnlessStale
  BY OnceImplies, Zenon DEF OnceInv, KeptUnlessStale
<1> QED BY <1>1, <1>2, LockInit, LockStep, StaleOK, OnceStep, PTL DEF Spec

\* And no waiter is ever in two places.
THEOREM EventMovedOnce == Spec => []MovedOnce
<1>1. Init => HistoryOK /\ OnceInv
  BY OnceInit, Zenon DEF Init, HistoryOK, OnceInv
<1>2. StepInv /\ OnceInv => MovedOnce
  BY OnceImplies, Zenon DEF OnceInv, MovedOnce
<1> QED BY <1>1, <1>2, LockInit, LockStep, StaleOK, OnceStep, PTL DEF Spec
=====
