------------------------------ MODULE PintEvent ------------------------------
(***************************************************************************)
(* One Verilog event in the parallel runtime: threads that wait on it      *)
(* (pint_wait_on_event), threads that trigger it                           *)
(* (pint_move_event_thread_list), and the swap lock in                     *)
(* pint_wait_event.thread_num that they share (simu/src/main.c).           *)
(*                                                                         *)
(* A waiter, each time it runs, waits for the event or for a delay; a      *)
(* trigger thread runs "-> e" and waits for a delay.  All threads start in *)
(* the first phase.  The cores pop the threads of a phase and run them     *)
(* concurrently; the mcore swaps the queues when all cores are done.       *)
(***************************************************************************)
EXTENDS Integers, Sequences, FiniteSets, SequencesExt

CONSTANTS
    Cores,      \* the ncores
    Waiters,    \* the threads that wait on the event
    Triggers,   \* the threads that trigger it
    None,       \* an empty slot
    MaxT        \* bound: how often the time advances

Threads == Waiters \cup Triggers
cmn_num == Cardinality(Waiters) + 1    \* what pint_dump_event sizes the event with

ASSUME EventAssumption ==
    /\ Cores # {} /\ None \notin Threads /\ Waiters \cap Triggers = {}
    /\ IsFiniteSet(Waiters) /\ IsFiniteSet(Triggers) /\ MaxT \in Nat

VARIABLES
    thread_num,    \* the lock: 0 when taken, otherwise cmn_num
    thread_head,   \* how many threads wait
    thread_list,   \* the waiting threads, slots 0 .. thread_head - 1
    active,        \* the threads of this phase no core has taken yet
    inactive,      \* the INACTIVE queue: reserved slots hold None
    delayed,       \* the threads on the future queue
    T,
    pc,            \* where each core is
    cur,           \* the thread it runs
    swap_data,     \* what pint_lock returned
    head,          \* its copy of thread_head
    enq_idx,       \* its first reserved INACTIVE slot
    k,             \* how many threads it has moved
    stale          \* history: a trigger's count was out of date when it had the lock

evars == <<thread_num, thread_head, thread_list>>
cvars == <<pc, cur, swap_data, head, enq_idx, k>>
vars == <<evars, active, inactive, delayed, T, cvars, stale>>

Init ==
    /\ thread_num = cmn_num
    /\ thread_head = 0
    /\ thread_list = [i \in 0 .. cmn_num - 1 |-> None]
    /\ active \in SetToSeqs(Threads)
    /\ inactive = <<>>
    /\ delayed = {}
    /\ T = 0
    /\ pc = [c \in Cores |-> "idle"]
    /\ cur = [c \in Cores |-> None]
    /\ swap_data = [c \in Cores |-> 0]
    /\ head = [c \in Cores |-> 0]
    /\ enq_idx = [c \in Cores |-> 0]
    /\ k = [c \in Cores |-> 0]
    /\ stale = FALSE

-----------------------------------------------------------------------------
\* A core pops the next thread: a waiter calls pint_wait_on_event or delays
\* itself, a trigger calls pint_move_event_N.
TakeThread(c) ==
    /\ pc[c] = "idle" /\ active # <<>>
    /\ cur' = [cur EXCEPT ![c] = Last(active)]
    /\ active' = Front(active)
    /\ pc' = [pc EXCEPT ![c] = IF Last(active) \in Waiters THEN "lock" ELSE "peek"]
    /\ UNCHANGED <<evars, inactive, delayed, T, swap_data, head, enq_idx, k, stale>>

DelayWaiter(c) ==
    /\ pc[c] = "idle" /\ active # <<>> /\ Last(active) \in Waiters
    /\ active' = Front(active)
    /\ delayed' = delayed \cup {Last(active)}
    /\ UNCHANGED <<evars, inactive, T, cvars, stale>>

\* pint_move_event_thread_list: int head = wait_event->thread_head, unlocked.
PeekHead(c) ==
    /\ pc[c] = "peek"
    /\ head' = [head EXCEPT ![c] = thread_head]
    /\ pc' = [pc EXCEPT ![c] = IF thread_head > 0 THEN "lock" ELSE "return"]
    /\ UNCHANGED <<evars, active, inactive, delayed, T, cur, swap_data, enq_idx, k, stale>>

\* Mutant of pint_lock: the word is tested and not swapped.
LockWithoutSwap(c) ==
    /\ pc[c] = "lock" /\ thread_num # 0
    /\ stale' = (stale \/ (cur[c] \in Triggers /\ head[c] # thread_head))
    /\ swap_data' = [swap_data EXCEPT ![c] = thread_num]
    /\ pc' = [pc EXCEPT ![c] = IF cur[c] \in Waiters THEN "add" ELSE "empty"]
    /\ UNCHANGED <<evars, active, inactive, delayed, T, cur, head, enq_idx, k>>

\* One turn of pint_lock's loop; a turn that swaps 0 for 0 changes nothing.
pint_lock(c) ==
    /\ pc[c] = "lock" /\ thread_num # 0
    /\ stale' = (stale \/ (cur[c] \in Triggers /\ head[c] # thread_head))
    /\ swap_data' = [swap_data EXCEPT ![c] = thread_num]
    /\ thread_num' = 0
    /\ pc' = [pc EXCEPT ![c] = IF cur[c] \in Waiters THEN "add" ELSE "empty"]
    /\ UNCHANGED <<thread_head, thread_list, active, inactive, delayed, T, cur, head, enq_idx, k>>

\* pint_wait_on_event: the atomic add, then the store and its completion.  With
\* threads that were moved twice the list can be full; the store past its end is
\* not followed.
AddWaiter(c) ==
    /\ pc[c] = "add" /\ thread_head < cmn_num
    /\ head' = [head EXCEPT ![c] = thread_head]
    /\ thread_head' = thread_head + 1
    /\ pc' = [pc EXCEPT ![c] = "list"]
    /\ UNCHANGED <<thread_num, thread_list, active, inactive, delayed, T, cur, swap_data,
                   enq_idx, k, stale>>

ListWaiter(c) ==
    /\ pc[c] = "list"
    /\ thread_list' = [thread_list EXCEPT ![head[c]] = cur[c]]
    /\ pc' = [pc EXCEPT ![c] = "unlock"]
    /\ UNCHANGED <<thread_num, thread_head, active, inactive, delayed, T, cur, swap_data, head,
                   enq_idx, k, stale>>

\* Mutant of EmptyList: the moved threads stay listed.
KeepList(c) ==
    /\ pc[c] = "empty"
    /\ pc' = [pc EXCEPT ![c] = "reserve"]
    /\ UNCHANGED <<evars, active, inactive, delayed, T, cur, swap_data, head, enq_idx, k, stale>>

\* pint_move_event_thread_list, with the lock: thread_head = 0 ...
EmptyList(c) ==
    /\ pc[c] = "empty"
    /\ thread_head' = 0
    /\ pc' = [pc EXCEPT ![c] = "reserve"]
    /\ UNCHANGED <<thread_num, thread_list, active, inactive, delayed, T, cur, swap_data, head,
                   enq_idx, k, stale>>

\* Mutant of ReserveSlots: the copying loop starts at 1.
SkipFirst(c) ==
    /\ pc[c] = "reserve"
    /\ enq_idx' = [enq_idx EXCEPT ![c] = Len(inactive)]
    /\ inactive' = inactive \o [i \in 1 .. head[c] |-> None]
    /\ k' = [k EXCEPT ![c] = 1]
    /\ pc' = [pc EXCEPT ![c] = "move"]
    /\ UNCHANGED <<evars, active, delayed, T, cur, swap_data, head, stale>>

\* ... enq_idx = pint_atomic_add(&pint_q_head[INACTIVE_Q], head) ...
ReserveSlots(c) ==
    /\ pc[c] = "reserve"
    /\ enq_idx' = [enq_idx EXCEPT ![c] = Len(inactive)]
    /\ inactive' = inactive \o [i \in 1 .. head[c] |-> None]
    /\ k' = [k EXCEPT ![c] = 0]
    /\ pc' = [pc EXCEPT ![c] = "move"]
    /\ UNCHANGED <<evars, active, delayed, T, cur, swap_data, head, stale>>

\* ... and the loop that copies the threads.
MoveThread(c) ==
    /\ pc[c] = "move" /\ k[c] < head[c]
    /\ inactive' = [inactive EXCEPT ![enq_idx[c] + k[c] + 1] = thread_list[k[c]]]
    /\ k' = [k EXCEPT ![c] = @ + 1]
    /\ pc' = [pc EXCEPT ![c] = IF k[c] + 1 = head[c] THEN "unlock" ELSE "move"]
    /\ UNCHANGED <<evars, active, delayed, T, cur, swap_data, head, enq_idx, stale>>

\* Mutant of pint_unlock: the word stays 0.
NeverUnlock(c) ==
    /\ pc[c] = "unlock"
    /\ pc' = [pc EXCEPT ![c] = "return"]
    /\ UNCHANGED <<evars, active, inactive, delayed, T, cur, swap_data, head, enq_idx, k, stale>>

pint_unlock(c) ==
    /\ pc[c] = "unlock"
    /\ thread_num' = swap_data[c]
    /\ pc' = [pc EXCEPT ![c] = "return"]
    /\ UNCHANGED <<thread_head, thread_list, active, inactive, delayed, T, cur, swap_data, head,
                   enq_idx, k, stale>>

ReturnThread(c) ==
    /\ pc[c] = "return"
    /\ pc' = [pc EXCEPT ![c] = "idle"]
    /\ cur' = [cur EXCEPT ![c] = None]
    /\ delayed' = IF cur[c] \in Triggers THEN delayed \cup {cur[c]} ELSE delayed
    /\ UNCHANGED <<evars, active, inactive, T, swap_data, head, enq_idx, k, stale>>

\* The barrier and the swap; an empty phase lets the time advance, and some
\* threads wake from their delays.
PhaseDone == active = <<>> /\ \A c \in Cores : pc[c] = "idle"

SwapQueues ==
    /\ PhaseDone /\ inactive # <<>>
    /\ active' = inactive
    /\ inactive' = <<>>
    /\ UNCHANGED <<evars, delayed, T, cvars, stale>>

NextTime ==
    /\ PhaseDone /\ inactive = <<>> /\ T < MaxT
    /\ T' = T + 1
    /\ \E due \in SUBSET delayed \ {{}} :
         active' \in SetToSeqs(due) /\ delayed' = delayed \ due
    /\ UNCHANGED <<evars, inactive, cvars, stale>>

CoreStep(c) ==
    \/ TakeThread(c) \/ DelayWaiter(c) \/ PeekHead(c) \/ pint_lock(c)
    \/ AddWaiter(c) \/ ListWaiter(c) \/ EmptyList(c) \/ ReserveSlots(c) \/ MoveThread(c) \/ pint_unlock(c)
    \/ ReturnThread(c)

Next == SwapQueues \/ NextTime \/ \E c \in Cores : CoreStep(c)

\* Started cores run to the barrier and the mcore goes on after it.
Fairness == WF_vars(SwapQueues) /\ \A c \in Cores : WF_vars(CoreStep(c))

Spec == Init /\ [][Next]_vars /\ Fairness
-----------------------------------------------------------------------------
TypeOK ==
    /\ thread_num \in {0, cmn_num}
    /\ thread_head \in 0 .. cmn_num
    /\ thread_list \in [0 .. cmn_num - 1 -> Waiters \cup {None}]
    /\ active \in Seq(Threads) /\ inactive \in Seq(Waiters \cup {None})
    /\ delayed \subseteq Threads
    /\ T \in 0 .. MaxT
    /\ pc \in [Cores -> {"idle", "peek", "lock", "add", "list", "empty", "reserve",
                         "move", "unlock", "return"}]
    /\ cur \in [Cores -> Threads \cup {None}]
    /\ swap_data \in [Cores -> {0, cmn_num}]
    /\ head \in [Cores -> 0 .. cmn_num]
    /\ enq_idx \in [Cores -> Nat] /\ k \in [Cores -> 0 .. cmn_num]
    /\ stale \in BOOLEAN

Locked(c) == pc[c] \in {"add", "list", "empty", "reserve", "move", "unlock"}

\* The types hold, and pint_lock excludes: at most one core is between pint_lock and pint_unlock, and
\* the capacity the lock word doubles for comes back with the unlock.
LockExcludes ==
    /\ TypeOK
    /\ \A c, d \in Cores : Locked(c) /\ Locked(d) => c = d
    /\ thread_num = 0 <=> \E c \in Cores : Locked(c)
    /\ \A c \in Cores : Locked(c) => swap_data[c] = cmn_num

\* The filled slots of the list (one may be reserved and not stored to yet).
Filled == {i \in 0 .. thread_head - 1 : \A c \in Cores : pc[c] = "list" => head[c] # i}
Listed == {thread_list[i] : i \in Filled}
Unmoved(c) ==
    CASE pc[c] \in {"empty", "reserve"} -> 0 .. head[c] - 1
      [] pc[c] = "move" -> k[c] .. head[c] - 1
      [] OTHER -> {}
Moving(c) == {thread_list[i] : i \in Unmoved(c)}

\* "The wait statement contains [...] a sub-statement to execute when an event
\* triggers" (tgt-pint/statement.c:514): a waiting thread must stay where a
\* trigger finds it, so every waiter is on the event's list, on its way from the
\* list to the INACTIVE queue, queued, or running.
NoThreadLost ==
    \A w \in Waiters :
        \/ w \in Listed
        \/ w \in ToSet(active) \cup ToSet(inactive) \cup delayed
        \/ \E c \in Cores : \/ w \in Moving(c)
                            \/ cur[c] = w /\ pc[c] \in {"lock", "add", "list"}

\* As long as no trigger has worked with a count that was out of date, every
\* waiter stays where a trigger finds it: the unlocked read of thread_head is
\* the only way to lose one.
KeptUnlessStale == stale \/ NoThreadLost

\* And no waiter is in two places: a trigger moves each once.
Places(w) ==
    Cardinality({i \in Filled : thread_list[i] = w})
    + Cardinality({i \in DOMAIN active : active[i] = w})
    + Cardinality({i \in DOMAIN inactive : inactive[i] = w})
    + Cardinality({c \in Cores : cur[c] = w /\ pc[c] \in {"lock", "add", "list"}})
MovedOnce == stale \/ \A w \in Waiters : Places(w) <= 1

\* Nobody spins on the lock forever: every phase of the event ends, as long as
\* no trigger has worked with a count that was out of date.
PhaseEnds == []<>(stale \/ (PhaseDone /\ inactive = <<>>))
=============================================================================
