----------------------------- MODULE PintActive -----------------------------
(***************************************************************************)
(* The parallel ACTIVE/INACTIVE phase of the PLS runtime (simu/src/main.c, *)
(* stage 1 of the main loop, built with PINT_PARALLEL_MODE).               *)
(*                                                                         *)
(* The mcore swaps the two thread queues and starts all ncores on the      *)
(* ACTIVE one; each ncore pops threads with an atomic add on the queue     *)
(* head and runs them to completion.  A thread that changes a signal       *)
(* queues the continuous assignments ("LPMs") that read it on the INACTIVE *)
(* queue, at most once each thanks to a test-and-set bit in                *)
(* pint_enqueue_flag.  Nothing else synchronises the cores: the writes     *)
(* leave a core late (pint_wait_write_done), reads are cached              *)
(* (pint_dcache_discard), and the bit is cleared by the LPM itself.        *)
(*                                                                         *)
(* A task is identified with the one signal it drives.                     *)
(***************************************************************************)
EXTENDS Integers, Sequences, FiniteSets

CONSTANTS
    Cores,        \* the ncores
    Mcore,        \* the master core
    Lpms,         \* continuous assignments: LPM l drives signal l
    Procs,        \* processes: process p drives signal p
    Values,       \* what a signal can hold
    None,         \* "no value": an empty slot, buffer or cache line
    Inputs,       \* Inputs[l]: the signals LPM l reads
    Fanout,       \* Fanout[s]: the l_list of s, the LPMs to wake when s changes
    Eval(_, _),   \* Eval(l, m): what l computes from the input values m
    InitVal,      \* the values pint_array_init gave the signals
    NeedsInit,    \* the LPMs pint_is_lpm_needs_init accepts: queued at the start
    QLen,         \* thread_q_len: the length of pint_active_q, pint_inactive_q
    MaxT          \* bound: how often the simulation time advances

Tasks == Lpms \cup Procs
Units == Cores \cup {Mcore}
Slots == 0 .. QLen - 1

ASSUME UnitsAssumption == Mcore \notin Cores /\ Cores # {} /\ IsFiniteSet(Cores)
ASSUME TasksAssumption ==
    /\ Lpms \cap Procs = {} /\ IsFiniteSet(Lpms) /\ IsFiniteSet(Procs)
    /\ None \notin Tasks /\ None \notin Values
ASSUME NetAssumption ==
    /\ Inputs \in [Lpms -> SUBSET Tasks]
    /\ Fanout \in [Tasks -> Seq(Lpms)]
    /\ InitVal \in [Tasks -> Values]
    \* an LPM computes a value from its inputs alone
    /\ \A l \in Lpms, m, n \in [Tasks -> Values \cup {None}] :
          (\A s \in Inputs[l] : m[s] \in Values /\ m[s] = n[s]) =>
              Eval(l, m) \in Values /\ Eval(l, m) = Eval(l, n)
    \* the code generator lists an LPM in the l_list of each of its inputs
    /\ \A l \in Lpms : \A s \in Inputs[l] :
          \E i \in 1 .. Len(Fanout[s]) : Fanout[s][i] = l
\* thread_q_len counts every process and every LPM once.
ASSUME BoundsAssumption ==
    /\ NeedsInit \subseteq Lpms
    /\ QLen \in Nat /\ QLen >= Cardinality(Procs) + Cardinality(Lpms)
    /\ MaxT \in Nat

\* What would be enough: a second slot for every LPM, one for the run that
\* pint_global_init queues with the bit clear and one for the bit.
LongEnough == QLen >= Cardinality(Procs) + 2 * Cardinality(Lpms)

VARIABLES
    pint_q_head,        \* [{"ACTIVE", "INACTIVE"} -> Int]
    pint_q_base,        \* the slots behind each of the two queues
    pint_enqueue_flag,  \* the LPMs whose "already queued" bit is set
    val,                \* the signals in shared memory
    mc,                 \* where the mcore's loop is
    T,                  \* how often time advanced
    pc,                 \* where each unit is in the thread it runs
    deq_idx,            \* what pint_dequeue_thread's atomic add returned
    cur,                \* the thread a unit runs
    cache,              \* the signals a unit has read since its last discard
    wbuf,               \* a unit's write that has not reached memory
    pos,                \* next entry of the l_list to look at
    got,                \* thread[0..cnt-1] of pint_add_list_to_inactive
    enq_idx,            \* the INACTIVE slots reserved for got start here
    stored              \* how many of got are stored

qvars == <<pint_q_head, pint_q_base>>
uvars == <<pc, deq_idx, cur, cache, wbuf, pos, got, enq_idx, stored>>
vars == <<qvars, pint_enqueue_flag, val, mc, T, uvars>>

NoLine == [s \in Tasks |-> None]

-----------------------------------------------------------------------------
(* Initial state: pint_queue_init and pint_global_init queue every process *)
(* on INACTIVE_Q and the LPMs that need it on ACTIVE_Q, with all flag bits *)
(* clear; main swaps the queues when there is no such LPM.                 *)

\* The arrangements of a set in the first slots of a queue.
Filled(set) ==
    {q \in [Slots -> set \cup {None}] :
        /\ \A t \in set : \E i \in 0 .. Cardinality(set) - 1 : q[i] = t
        /\ \A i \in Slots : i >= Cardinality(set) => q[i] = None}

Init ==
    /\ \E a \in Filled(NeedsInit), i \in Filled(Procs) :
         /\ pint_q_base = IF NeedsInit = {} THEN [ACTIVE |-> i, INACTIVE |-> a]
                                       ELSE [ACTIVE |-> a, INACTIVE |-> i]
         /\ pint_q_head = IF NeedsInit = {}
                          THEN [ACTIVE |-> Cardinality(Procs), INACTIVE |-> 0]
                          ELSE [ACTIVE |-> Cardinality(NeedsInit),
                                INACTIVE |-> Cardinality(Procs)]
    /\ pint_enqueue_flag = {}
    /\ val = InitVal
    /\ mc = "loop"
    /\ T = 0
    /\ pc = [u \in Units |-> "off"]
    /\ deq_idx = [u \in Units |-> 0]
    /\ cur = [u \in Units |-> None]
    /\ cache = [u \in Units |-> NoLine]
    /\ wbuf = [u \in Units |-> None]
    /\ pos = [u \in Units |-> 1]
    /\ got = [u \in Units |-> <<>>]
    /\ enq_idx = [u \in Units |-> 0]
    /\ stored = [u \in Units |-> 0]

-----------------------------------------------------------------------------
(* The mcore: while (active_head > 0) { run the ACTIVE queue; swap }.      *)

\* pint_parallel_start(execute_active_q_thread): every ncore starts.
StartParallel ==
    /\ mc = "loop" /\ pint_q_head["ACTIVE"] > 1
    /\ mc' = "parallel"
    /\ pc' = [u \in Units |-> IF u \in Cores THEN "dequeue" ELSE pc[u]]
    /\ UNCHANGED <<qvars, pint_enqueue_flag, val, T, deq_idx, cur, cache, wbuf,
                   pos, got, enq_idx, stored>>

\* A lone thread is called by the mcore itself, straight from slot 0.
RunSingle ==
    /\ mc = "loop" /\ pint_q_head["ACTIVE"] = 1
    /\ mc' = "single"
    /\ pc' = [pc EXCEPT ![Mcore] = "fetch"]
    /\ deq_idx' = [deq_idx EXCEPT ![Mcore] = 1]
    /\ UNCHANGED <<qvars, pint_enqueue_flag, val, T, cur, cache, wbuf, pos, got,
                   enq_idx, stored>>

AllOff == \A u \in Units : pc[u] = "off"

\* The mcore's own cache is discarded after a parallel phase only.
pint_swap_active_and_inactive_queue ==
    /\ mc \in {"parallel", "single"} /\ AllOff
    /\ pint_q_base' = [ACTIVE |-> pint_q_base["INACTIVE"],
                       INACTIVE |-> pint_q_base["ACTIVE"]]
    /\ pint_q_head' = [ACTIVE |-> pint_q_head["INACTIVE"], INACTIVE |-> 0]
    /\ mc' = "loop"
    /\ cache' = IF mc = "parallel" THEN [cache EXCEPT ![Mcore] = NoLine] ELSE cache
    /\ UNCHANGED <<pint_enqueue_flag, val, T, pc, deq_idx, cur, wbuf, pos, got,
                   enq_idx, stored>>

\* Stage 5: the time advances and some delayed processes become active.
NextTime ==
    /\ mc = "loop" /\ pint_q_head["ACTIVE"] = 0 /\ T < MaxT
    /\ T' = T + 1
    /\ \E ps \in SUBSET Procs \ {{}} : \E q \in Filled(ps) :
         /\ pint_q_base' = [pint_q_base EXCEPT !["ACTIVE"] = q]
         /\ pint_q_head' = [pint_q_head EXCEPT !["ACTIVE"] = Cardinality(ps)]
    /\ UNCHANGED <<pint_enqueue_flag, val, mc, uvars>>

-----------------------------------------------------------------------------
(* execute_active_q_thread on one core, one shared access at a time.       *)

\* Mutants of pint_dequeue_thread: the head is only read; index 0 is taken for a
\* thread.
DequeueWithoutAdd(c) ==
    /\ pc[c] = "dequeue"
    /\ deq_idx' = [deq_idx EXCEPT ![c] = pint_q_head["ACTIVE"]]
    /\ pc' = [pc EXCEPT ![c] = IF pint_q_head["ACTIVE"] > 0 THEN "fetch" ELSE "off"]
    /\ UNCHANGED <<qvars, pint_enqueue_flag, val, mc, T, cur, cache, wbuf, pos, got,
                   enq_idx, stored>>
DequeuePastEnd(c) ==
    /\ pc[c] = "dequeue"
    /\ deq_idx' = [deq_idx EXCEPT ![c] = pint_q_head["ACTIVE"]]
    /\ pint_q_head' = [pint_q_head EXCEPT !["ACTIVE"] = @ - 1]
    /\ pc' = [pc EXCEPT ![c] = IF pint_q_head["ACTIVE"] >= 0 THEN "fetch" ELSE "off"]
    /\ UNCHANGED <<pint_q_base, pint_enqueue_flag, val, mc, T, cur, cache, wbuf,
                   pos, got, enq_idx, stored>>

\* pint_dequeue_thread's atomic add; the head goes below zero at the end.
pint_dequeue_thread(c) ==
    /\ pc[c] = "dequeue"
    /\ deq_idx' = [deq_idx EXCEPT ![c] = pint_q_head["ACTIVE"]]
    /\ pint_q_head' = [pint_q_head EXCEPT !["ACTIVE"] = @ - 1]
    /\ pc' = [pc EXCEPT ![c] = IF pint_q_head["ACTIVE"] > 0 THEN "fetch" ELSE "off"]
    /\ UNCHANGED <<pint_q_base, pint_enqueue_flag, val, mc, T, cur, cache, wbuf,
                   pos, got, enq_idx, stored>>

\* ... and its read of pint_q_base[ACTIVE_Q][deq_idx - 1].  Calling a slot that
\* never held a thread, or that lies beyond the array, is a fault.
FetchThread(u) ==
    /\ pc[u] = "fetch"
    /\ LET i == deq_idx[u] - 1
           t == IF i \in Slots THEN pint_q_base["ACTIVE"][i] ELSE None
       IN /\ cur' = [cur EXCEPT ![u] = t]
          /\ pc' = [pc EXCEPT ![u] = IF t = None THEN "fault"
                                     ELSE IF t \in Lpms THEN "clear" ELSE "read"]
    /\ UNCHANGED <<qvars, pint_enqueue_flag, val, mc, T, deq_idx, cache, wbuf,
                   pos, got, enq_idx, stored>>

\* Mutant of pint_enqueue_flag_clear: the LPM does not clear its bit.
FlagNotCleared(u) ==
    /\ pc[u] = "clear"
    /\ pc' = [pc EXCEPT ![u] = "read"]
    /\ UNCHANGED <<qvars, pint_enqueue_flag, val, mc, T, deq_idx, cur, cache, wbuf,
                   pos, got, enq_idx, stored>>

\* The first statement of every generated pint_lpm_N.
pint_enqueue_flag_clear(u) ==
    /\ pc[u] = "clear"
    /\ pint_enqueue_flag' = pint_enqueue_flag \ {cur[u]}
    /\ pc' = [pc EXCEPT ![u] = "read"]
    /\ UNCHANGED <<qvars, val, mc, T, deq_idx, cur, cache, wbuf, pos, got,
                   enq_idx, stored>>

\* The signals a thread reads: its inputs, and what it drives (to compare).
Reads(t) == {t} \cup (IF t \in Lpms THEN Inputs[t] ELSE {})

ReadSignal(u) ==
    /\ pc[u] = "read"
    /\ \E s \in Reads(cur[u]) :
         /\ cache[u][s] = None
         /\ cache' = [cache EXCEPT ![u][s] = val[s]]
    /\ UNCHANGED <<qvars, pint_enqueue_flag, val, mc, T, pc, deq_idx, cur, wbuf,
                   pos, got, enq_idx, stored>>

\* What the thread may drive: an LPM its function, a process anything.
Outcomes(u) ==
    IF cur[u] \in Lpms THEN {Eval(cur[u], cache[u])} ELSE Values

\* DOWN_CHAR_L: if (dst != src) { dst = src; pint_add_list_to_inactive(...) };
\* a signal without an l_list gets the plain store.
DriveSignal(u) ==
    /\ pc[u] = "read"
    /\ \A s \in Reads(cur[u]) : cache[u][s] # None
    /\ \E v \in Outcomes(u) :
         IF v = cache[u][cur[u]]
         THEN /\ pc' = [pc EXCEPT ![u] = "return"]
              /\ UNCHANGED <<cache, wbuf>>
         ELSE /\ pc' = [pc EXCEPT ![u] =
                            IF Fanout[cur[u]] = <<>> THEN "return" ELSE "wait"]
              /\ cache' = [cache EXCEPT ![u][cur[u]] = v]
              /\ wbuf' = [wbuf EXCEPT ![u] = v]
    /\ pos' = [pos EXCEPT ![u] = 1]
    /\ got' = [got EXCEPT ![u] = <<>>]
    /\ stored' = [stored EXCEPT ![u] = 0]
    /\ UNCHANGED <<qvars, pint_enqueue_flag, val, mc, T, deq_idx, cur, enq_idx>>

\* The hardware completes a pending write.
WriteCompletes(u) ==
    /\ wbuf[u] # None
    /\ val' = [val EXCEPT ![cur[u]] = wbuf[u]]
    /\ wbuf' = [wbuf EXCEPT ![u] = None]
    /\ UNCHANGED <<qvars, pint_enqueue_flag, mc, T, pc, deq_idx, cur, cache, pos,
                   got, enq_idx, stored>>

\* Mutant of pint_wait_write_done: it does not wait.
WriteNotAwaited(u) ==
    /\ pc[u] = "wait"
    /\ pc' = [pc EXCEPT ![u] = "claim"]
    /\ UNCHANGED <<qvars, pint_enqueue_flag, val, mc, T, deq_idx, cur, cache, wbuf,
                   pos, got, enq_idx, stored>>

pint_wait_write_done(u) ==
    /\ pc[u] = "wait"
    /\ wbuf[u] = None
    /\ pc' = [pc EXCEPT ![u] = "claim"]
    /\ UNCHANGED <<qvars, pint_enqueue_flag, val, mc, T, deq_idx, cur, cache, wbuf,
                   pos, got, enq_idx, stored>>

\* Mutant of ClaimThread: it sets the bit of the driver, not of the listed LPM.
ClaimWrongBit(u) ==
    /\ pc[u] = "claim" /\ pos[u] <= Len(Fanout[cur[u]])
    /\ got' = [got EXCEPT ![u] = IF cur[u] \in pint_enqueue_flag
                                 THEN @ ELSE Append(@, Fanout[cur[u]][pos[u]])]
    /\ pint_enqueue_flag' = pint_enqueue_flag \cup {cur[u]}
    /\ pos' = [pos EXCEPT ![u] = @ + 1]
    /\ UNCHANGED <<qvars, val, mc, T, pc, deq_idx, cur, cache, wbuf, enq_idx, stored>>

\* if (!pint_enqueue_flag_set(list[i])) thread[cnt++] = list[i + 1].
ClaimThread(u) ==
    /\ pc[u] = "claim" /\ pos[u] <= Len(Fanout[cur[u]])
    /\ LET l == Fanout[cur[u]][pos[u]] IN
         /\ got' = [got EXCEPT ![u] = IF l \in pint_enqueue_flag THEN @ ELSE Append(@, l)]
         /\ pint_enqueue_flag' = pint_enqueue_flag \cup {l}
    /\ pos' = [pos EXCEPT ![u] = @ + 1]
    /\ UNCHANGED <<qvars, val, mc, T, pc, deq_idx, cur, cache, wbuf, enq_idx, stored>>

\* Mutants of ReserveSlots: a slot too many; one slot whatever the count.
ReserveOneMore(u) ==
    /\ pc[u] = "claim" /\ pos[u] > Len(Fanout[cur[u]])
    /\ enq_idx' = [enq_idx EXCEPT ![u] = pint_q_head["INACTIVE"]]
    /\ pint_q_head' = [pint_q_head EXCEPT !["INACTIVE"] = @ + Len(got[u]) + 1]
    /\ pc' = [pc EXCEPT ![u] = "store"]
    /\ UNCHANGED <<pint_q_base, pint_enqueue_flag, val, mc, T, deq_idx, cur, cache,
                   wbuf, pos, got, stored>>
ReserveOne(u) ==
    /\ pc[u] = "claim" /\ pos[u] > Len(Fanout[cur[u]])
    /\ enq_idx' = [enq_idx EXCEPT ![u] = pint_q_head["INACTIVE"]]
    /\ pint_q_head' = [pint_q_head EXCEPT !["INACTIVE"] = @ + 1]
    /\ pc' = [pc EXCEPT ![u] = "store"]
    /\ UNCHANGED <<pint_q_base, pint_enqueue_flag, val, mc, T, deq_idx, cur, cache,
                   wbuf, pos, got, stored>>

\* enq_idx = pint_atomic_add(&pint_q_head[INACTIVE_Q], cnt).  Nothing checks the
\* length of the array: what the stores of a batch that does not fit overwrite is
\* undefined, and the model does not follow that unit any further.
ReserveSlots(u) ==
    /\ pc[u] = "claim" /\ pos[u] > Len(Fanout[cur[u]])
    /\ enq_idx' = [enq_idx EXCEPT ![u] = pint_q_head["INACTIVE"]]
    /\ pint_q_head' = [pint_q_head EXCEPT !["INACTIVE"] = @ + Len(got[u])]
    /\ pc' = [pc EXCEPT ![u] =
                  IF pint_q_head["INACTIVE"] + Len(got[u]) > QLen THEN "overrun"
                                                                 ELSE "store"]
    /\ UNCHANGED <<pint_q_base, pint_enqueue_flag, val, mc, T, deq_idx, cur, cache,
                   wbuf, pos, got, stored>>

\* pint_q_base[INACTIVE_Q][enq_idx++] = thread[i].
StoreThread(u) ==
    /\ pc[u] = "store" /\ stored[u] < Len(got[u])
    /\ pint_q_base' = [pint_q_base EXCEPT
                         !["INACTIVE"][enq_idx[u] + stored[u]] = got[u][stored[u] + 1]]
    /\ stored' = [stored EXCEPT ![u] = @ + 1]
    /\ UNCHANGED <<pint_q_head, pint_enqueue_flag, val, mc, T, pc, deq_idx, cur,
                   cache, wbuf, pos, got, enq_idx>>

\* thread() returns; an ncore discards its cache and dequeues again.  A write
\* still on its way reaches memory before the discard or the next barrier.
ReturnThread(u) ==
    /\ \/ pc[u] = "return"
       \/ pc[u] = "store" /\ stored[u] = Len(got[u])
    /\ wbuf[u] = None
    /\ cache' = IF u \in Cores THEN [cache EXCEPT ![u] = NoLine] ELSE cache
    /\ pc' = [pc EXCEPT ![u] = IF u \in Cores THEN "dequeue" ELSE "off"]
    /\ cur' = [cur EXCEPT ![u] = None]
    /\ got' = [got EXCEPT ![u] = <<>>]
    /\ UNCHANGED <<qvars, pint_enqueue_flag, val, mc, T, deq_idx, wbuf, pos,
                   enq_idx, stored>>

-----------------------------------------------------------------------------
MainStep == StartParallel \/ RunSingle \/ pint_swap_active_and_inactive_queue

UnitStep(u) ==
    \/ u \in Cores /\ pint_dequeue_thread(u)
    \/ FetchThread(u)
    \/ pint_enqueue_flag_clear(u)
    \/ ReadSignal(u)
    \/ DriveSignal(u)
    \/ WriteCompletes(u)
    \/ pint_wait_write_done(u)
    \/ ClaimThread(u)
    \/ ReserveSlots(u)
    \/ StoreThread(u)
    \/ ReturnThread(u)

Next == MainStep \/ NextTime \/ \E u \in Units : UnitStep(u)

\* A started core keeps executing, writes complete, and the mcore keeps looping.
Fairness == WF_vars(MainStep) /\ \A u \in Units : WF_vars(UnitStep(u))

Spec == Init /\ [][Next]_vars /\ Fairness
-----------------------------------------------------------------------------
(* Properties.                                                             *)

TypeOK ==
    /\ pint_q_head \in [{"ACTIVE", "INACTIVE"} -> Int]
    /\ pint_q_base \in [{"ACTIVE", "INACTIVE"} -> [Slots -> Tasks \cup {None}]]
    /\ pint_enqueue_flag \subseteq Lpms
    /\ val \in [Tasks -> Values]
    /\ mc \in {"loop", "parallel", "single"}
    /\ T \in 0 .. MaxT
    /\ pc \in [Units -> {"off", "dequeue", "fetch", "clear", "read", "wait",
                         "claim", "store", "overrun", "return", "fault"}]
    /\ deq_idx \in [Units -> Int]
    /\ cur \in [Units -> Tasks \cup {None}]
    /\ cache \in [Units -> [Tasks -> Values \cup {None}]]
    /\ wbuf \in [Units -> Values \cup {None}]
    /\ pos \in [Units -> Nat \ {0}]
    /\ got \in [Units -> Seq(Lpms)]
    /\ enq_idx \in [Units -> Int]
    /\ stored \in [Units -> Nat]

\* A batch of pint_add_list_to_inactive went beyond the end of the queue array.
Overrun == \E u \in Units : pc[u] = "overrun"

\* The queues overrun in the first phase only, before the time advances: there an
\* LPM that pint_global_init queued with its bit clear can be waiting twice; from
\* then on the bits keep the runs that wait within thread_q_len.
OverrunAtStart == Overrun => T = 0

\* Every slot a core dequeues holds a thread that was stored there, unless the
\* queue overran: the head is advanced before the stores, and the swap waits for
\* the storing cores.
NoFault == Overrun \/ \A u \in Units : pc[u] # "fault"

Running(u) == pc[u] \notin {"off", "dequeue"}

\* Two units never run the thread of one ACTIVE slot: pint_dequeue_thread hands
\* every slot out once, although the head keeps falling below zero while the
\* cores drain the queue.
NoDoubleDispatch ==
    \A u, v \in Units : u # v /\ Running(u) /\ Running(v) => deq_idx[u] # deq_idx[v]

\* The INACTIVE slots a unit has reserved and not yet stored to.
Reserved(u) ==
    IF pc[u] = "store" THEN enq_idx[u] + stored[u] .. enq_idx[u] + Len(got[u]) - 1
                       ELSE {}

\* The batches pint_add_list_to_inactive stores never overlap and lie below the
\* head: no core overwrites a thread another one queued.
NoSlotClobber ==
    \A u \in Units :
        /\ \A i \in Reserved(u) : 0 <= i /\ i < pint_q_head["INACTIVE"]
        /\ \A v \in Units \ {u} : Reserved(u) \cap Reserved(v) = {}

\* A run of LPM l that has not read its inputs yet is in one of these places.
QueuedActive(l) ==
    \E i \in Slots : i < pint_q_head["ACTIVE"] /\ pint_q_base["ACTIVE"][i] = l
QueuedInactive(l) ==
    \E i \in Slots : /\ i < pint_q_head["INACTIVE"]
                     /\ \A u \in Units : i \notin Reserved(u)
                     /\ pint_q_base["INACTIVE"][i] = l
Claimed(l) ==
    \E u \in Units : \E i \in 1 .. Len(got[u]) :
        got[u][i] = l /\ (pc[u] = "store" => i > stored[u])
Starting(l) ==
    \E u \in Units :
        \/ /\ pc[u] = "fetch" /\ deq_idx[u] - 1 \in Slots
           /\ pint_q_base["ACTIVE"][deq_idx[u] - 1] = l
        \/ pc[u] = "clear" /\ cur[u] = l

\* A set bit in pint_enqueue_flag stands for a run of the LPM still to come, as
\* long as no batch overran the queue.  A
\* bit left set without one would make every later change of its inputs go
\* unnoticed, because pint_enqueue_flag_set would report "already queued".
FlagMeansPending ==
    Overrun \/ \A l \in pint_enqueue_flag :
        QueuedActive(l) \/ QueuedInactive(l) \/ Claimed(l) \/ Starting(l)

\* Nothing happened yet to an LPM that pint_global_init did not queue.
Unrun(l) == l \notin NeedsInit /\ \A s \in Reads(l) : val[s] = InitVal[s]

\* When the phase is over (the ACTIVE queue came back empty from the swap) every
\* LPM's output is its function of its inputs: no change of an input was lost
\* between the cores, whatever they interleaved, buffered or cached.  The code
\* gives this up in two cases: an LPM that does not need the first run and none
\* of whose signals changed yet, and a queue that overran.
Settled ==
    mc = "loop" /\ pint_q_head["ACTIVE"] <= 0 =>
        Overrun \/ \A l \in Lpms : val[l] = Eval(l, val) \/ Unrun(l)

\* The phase ends: the LPM network comes to rest and the time can advance.
Quiesces == []<>(Overrun \/ (mc = "loop" /\ pint_q_head["ACTIVE"] <= 0))
=============================================================================
