-------------------------- MODULE PintActiveProofs --------------------------
(***************************************************************************)
(* Proofs about PintActive, for every set of cores, every LPM network and  *)
(* every queue length the code generator computes.                         *)
(***************************************************************************)
EXTENDS PintActive, FiniteSetTheorems, TLAPS

\* The thread a unit works on is a real task once it has been fetched.
CurOK ==
    \A u \in Units :
        pc[u] \in {"clear", "read", "wait", "claim", "store", "return"}
            => cur[u] \in Tasks
\* A write is pending only between the store and pint_wait_write_done or return.
WbufOK == \A u \in Units : wbuf[u] # None => pc[u] \in {"wait", "return"}

\* The cores work in a parallel phase only, the mcore in a single one only.
PhaseOK ==
    /\ mc # "parallel" => \A c \in Cores : pc[c] = "off"
    /\ mc # "single" => pc[Mcore] = "off"
    /\ pc[Mcore] # "dequeue"

TypeInv == TypeOK /\ CurOK /\ WbufOK /\ PhaseOK

\* The ncores and the mcore are the units.
LEMMA UnitIn ==
    /\ Mcore \in Units
    /\ \A u \in Cores : u \in Units
    /\ \A u \in Units : u \in Cores \/ u = Mcore
BY DEF Units

\* The queue that pint_global_init fills holds tasks.
LEMMA FilledType ==
    ASSUME NEW set, set \subseteq Tasks
    PROVE  Filled(set) \subseteq [Slots -> Tasks \cup {None}]
BY DEF Filled

\* The initial state is well typed.
LEMMA InitType == Init => TypeInv
<1> SUFFICES ASSUME Init PROVE TypeInv
  OBVIOUS
<1> USE UnitsAssumption, TasksAssumption, NetAssumption, BoundsAssumption
<1>1. PICK a \in Filled(NeedsInit), i \in Filled(Procs) :
         /\ pint_q_base = IF NeedsInit = {} THEN [ACTIVE |-> i, INACTIVE |-> a]
                                       ELSE [ACTIVE |-> a, INACTIVE |-> i]
  BY DEF Init
<1>2. /\ a \in [Slots -> Tasks \cup {None}]
      /\ i \in [Slots -> Tasks \cup {None}]
  BY FilledType DEF Tasks
<1>3. pint_q_base \in [{"ACTIVE", "INACTIVE"} -> [Slots -> Tasks \cup {None}]]
  BY <1>1, <1>2
<1>4. Cardinality(NeedsInit) \in Int /\ Cardinality(Procs) \in Int
  BY FS_CardinalityType, FS_Subset
<1>5. pint_q_head \in [{"ACTIVE", "INACTIVE"} -> Int]
  BY <1>4 DEF Init
<1> QED
  BY <1>3, <1>5 DEF Init, TypeInv, TypeOK, CurOK, WbufOK, PhaseOK, NoLine, Units

\* What a task reads is a set of tasks, itself among them.
LEMMA ReadsType == ASSUME NEW t \in Tasks PROVE Reads(t) \subseteq Tasks /\ t \in Reads(t)
BY NetAssumption DEF Reads, Tasks

\* The list of a signal holds LPMs only.
LEMMA FanoutType ==
    ASSUME NEW t \in Tasks
    PROVE  /\ Fanout[t] \in Seq(Lpms) /\ Len(Fanout[t]) \in Nat
           /\ \A i \in 1 .. Len(Fanout[t]) : Fanout[t][i] \in Lpms
BY NetAssumption

\* Which units run in which state of the mcore is kept by every step.
LEMMA NextPhase == TypeInv /\ [Next]_vars => PhaseOK'
<1> SUFFICES ASSUME TypeInv, [Next]_vars PROVE PhaseOK'
  OBVIOUS
<1> USE UnitsAssumption, UnitIn DEF TypeInv, PhaseOK
<1>0. pc \in [Units -> {"off", "dequeue", "fetch", "clear", "read", "wait",
                       "claim", "store", "overrun", "return", "fault"}]
  BY DEF TypeOK
<1>1. CASE StartParallel
  BY <1>0, <1>1 DEF StartParallel
<1>2. CASE RunSingle
  BY <1>0, <1>2 DEF RunSingle
<1>3. CASE pint_swap_active_and_inactive_queue
  BY <1>3 DEF pint_swap_active_and_inactive_queue, AllOff
<1>4. CASE NextTime
  BY <1>4 DEF NextTime, uvars
<1>5. ASSUME NEW u \in Units, UnitStep(u) PROVE PhaseOK'
  <2>1. \A v \in Units : v # u => pc'[v] = pc[v]
    BY <1>0, <1>5 DEF UnitStep, pint_dequeue_thread, FetchThread,
       pint_enqueue_flag_clear, ReadSignal, DriveSignal, WriteCompletes,
       pint_wait_write_done, ClaimThread, ReserveSlots, StoreThread, ReturnThread
  <2>2. pc[u] # "off"
    BY <1>5 DEF WbufOK, UnitStep, pint_dequeue_thread, FetchThread,
       pint_enqueue_flag_clear, ReadSignal, DriveSignal, WriteCompletes,
       pint_wait_write_done, ClaimThread, ReserveSlots, StoreThread, ReturnThread
  <2>3. mc' = mc
    BY <1>5 DEF UnitStep, pint_dequeue_thread, FetchThread,
       pint_enqueue_flag_clear, ReadSignal, DriveSignal, WriteCompletes,
       pint_wait_write_done, ClaimThread, ReserveSlots, StoreThread, ReturnThread
  <2>4. u = Mcore => pc'[u] # "dequeue"
    BY <1>0, <1>5 DEF UnitStep, pint_dequeue_thread, FetchThread,
       pint_enqueue_flag_clear, ReadSignal, DriveSignal, WriteCompletes,
       pint_wait_write_done, ClaimThread, ReserveSlots, StoreThread, ReturnThread
  <2> QED
    BY <2>1, <2>2, <2>3, <2>4
<1>6. CASE UNCHANGED vars
  BY <1>6 DEF vars, uvars
<1> QED
  BY <1>1, <1>2, <1>3, <1>4, <1>5, <1>6 DEF Next, MainStep

\* Every step keeps the types, and what a running unit has read and buffered.
LEMMA NextType == TypeInv /\ [Next]_vars => (TypeOK /\ CurOK /\ WbufOK)'
<1> SUFFICES ASSUME TypeInv, [Next]_vars PROVE (TypeOK /\ CurOK /\ WbufOK)'
  OBVIOUS
<1> USE TasksAssumption DEF TypeInv, TypeOK, CurOK, WbufOK
<1>1. CASE StartParallel
  BY <1>1, UnitIn DEF StartParallel, qvars, PhaseOK
<1>2. CASE RunSingle
  BY <1>2, UnitIn DEF RunSingle, qvars, PhaseOK
<1>3. CASE pint_swap_active_and_inactive_queue
  <2> USE <1>3 DEF pint_swap_active_and_inactive_queue
  <2>1. pint_q_base' \in [{"ACTIVE", "INACTIVE"} -> [Slots -> Tasks \cup {None}]]
    OBVIOUS
  <2>2. pint_q_head' \in [{"ACTIVE", "INACTIVE"} -> Int]
    OBVIOUS
  <2>3. cache' \in [Units -> [Tasks -> Values \cup {None}]]
    BY DEF NoLine
  <2> QED
    BY <2>1, <2>2, <2>3 DEF AllOff
<1>4. CASE NextTime
  <2>0. PICK ps \in SUBSET Procs \ {{}} : \E q \in Filled(ps) :
            /\ pint_q_base' = [pint_q_base EXCEPT !["ACTIVE"] = q]
            /\ pint_q_head' = [pint_q_head EXCEPT !["ACTIVE"] = Cardinality(ps)]
    BY <1>4 DEF NextTime
  <2>1. PICK q \in Filled(ps) :
            /\ pint_q_base' = [pint_q_base EXCEPT !["ACTIVE"] = q]
            /\ pint_q_head' = [pint_q_head EXCEPT !["ACTIVE"] = Cardinality(ps)]
    BY <2>0
  <2>2. q \in [Slots -> Tasks \cup {None}]
    BY <2>0, <2>1, FilledType DEF Tasks
  <2>3. Cardinality(ps) \in Int
    BY <2>0, FS_Subset, FS_CardinalityType
  <2>4. pint_q_base' \in [{"ACTIVE", "INACTIVE"} -> [Slots -> Tasks \cup {None}]]
    BY <2>1, <2>2
  <2>5. pint_q_head' \in [{"ACTIVE", "INACTIVE"} -> Int]
    BY <2>1, <2>3
  <2>6. T' \in 0 .. MaxT
    BY <1>4, BoundsAssumption DEF NextTime
  <2> QED
    BY <1>4, <2>4, <2>5, <2>6 DEF NextTime, uvars
<1>5. ASSUME NEW u \in Units, UnitStep(u) PROVE (TypeOK /\ CurOK /\ WbufOK)'
  <2>1. CASE u \in Cores /\ pint_dequeue_thread(u)
    BY <2>1 DEF pint_dequeue_thread
  <2>2. CASE FetchThread(u)
    <3> DEFINE i == deq_idx[u] - 1
               t == IF i \in Slots THEN pint_q_base["ACTIVE"][i] ELSE None
    <3>1. t \in Tasks \cup {None}
      OBVIOUS
    <3>2. /\ cur' = [cur EXCEPT ![u] = t]
          /\ pc' = [pc EXCEPT ![u] = IF t = None THEN "fault"
                                     ELSE IF t \in Lpms THEN "clear" ELSE "read"]
      BY <2>2 DEF FetchThread
    <3>3. /\ UNCHANGED <<qvars, pint_enqueue_flag, val, mc, T, deq_idx, cache, wbuf,
                         pos, got, enq_idx, stored>>
          /\ pc[u] = "fetch"
      BY <2>2 DEF FetchThread
    <3> HIDE DEF t
    <3>4. UNCHANGED <<pint_q_head, pint_q_base>>
      BY <3>3 DEF qvars
    <3> QED
      BY <3>1, <3>2, <3>3, <3>4
  <2>3. CASE pint_enqueue_flag_clear(u)
    BY <2>3 DEF pint_enqueue_flag_clear, qvars
  <2>4. CASE ReadSignal(u)
    BY <2>4, ReadsType DEF ReadSignal, qvars
  <2>5. CASE DriveSignal(u)
    <3>0. cur[u] \in Tasks /\ cache[u] \in [Tasks -> Values \cup {None}]
      BY <2>5 DEF DriveSignal
    <3>1. Outcomes(u) \subseteq Values
      <4>1. CASE cur[u] \in Lpms
        <5>1. \A s \in Inputs[cur[u]] : s \in Tasks /\ cache[u][s] \in Values
          BY <2>5, <3>0, <4>1, ReadsType DEF DriveSignal, Reads
        <5>2. Eval(cur[u], cache[u]) \in Values
          BY <3>0, <4>1, <5>1, NetAssumption
        <5> QED
          BY <4>1, <5>2 DEF Outcomes
      <4>2. CASE cur[u] \notin Lpms
        BY <4>2 DEF Outcomes
      <4> QED
        BY <4>1, <4>2
    <3>2. PICK v \in Outcomes(u) :
             IF v = cache[u][cur[u]]
             THEN /\ pc' = [pc EXCEPT ![u] = "return"]
                  /\ UNCHANGED <<cache, wbuf>>
             ELSE /\ pc' = [pc EXCEPT ![u] =
                                IF Fanout[cur[u]] = <<>> THEN "return" ELSE "wait"]
                  /\ cache' = [cache EXCEPT ![u][cur[u]] = v]
                  /\ wbuf' = [wbuf EXCEPT ![u] = v]
      BY <2>5 DEF DriveSignal
    <3>3. v \in Values
      BY <3>1
    <3>4. cache' \in [Units -> [Tasks -> Values \cup {None}]]
      <4>1. CASE v = cache[u][cur[u]]
        BY <3>2, <4>1
      <4>2. CASE v # cache[u][cur[u]]
        <5>1. cache' = [cache EXCEPT ![u] = [cache[u] EXCEPT ![cur[u]] = v]]
          BY <3>2, <4>2
        <5>2. [cache[u] EXCEPT ![cur[u]] = v] \in [Tasks -> Values \cup {None}]
          BY <3>0, <3>3
        <5> QED
          BY <5>1, <5>2
      <4> QED
        BY <4>1, <4>2
    <3>5. /\ pc' \in [Units -> {"off", "dequeue", "fetch", "clear", "read", "wait",
                               "claim", "store", "overrun", "return", "fault"}]
          /\ wbuf' \in [Units -> Values \cup {None}]
      <4>1. CASE v = cache[u][cur[u]]
        BY <3>2, <4>1
      <4>2. CASE v # cache[u][cur[u]]
        <5>1. wbuf' \in [Units -> Values \cup {None}]
          BY <3>2, <3>3, <4>2
        <5>2. \/ pc' = [pc EXCEPT ![u] = "return"]
              \/ pc' = [pc EXCEPT ![u] = "wait"]
          BY <3>2, <4>2, Zenon
        <5> QED
          BY <5>1, <5>2
      <4> QED
        BY <4>1, <4>2
    <3>8. pos' \in [Units -> Nat \ {0}] /\ stored' \in [Units -> Nat]
      BY <2>5 DEF DriveSignal
    <3>6. got' \in [Units -> Seq(Lpms)]
      BY <2>5 DEF DriveSignal
    <3>7. CurOK' /\ WbufOK'
      BY <2>5, <3>0, <3>2 DEF DriveSignal
    <3> QED
      BY <2>5, <3>4, <3>5, <3>6, <3>7, <3>8 DEF DriveSignal, qvars
  <2>6. CASE WriteCompletes(u)
    BY <2>6 DEF WriteCompletes, qvars
  <2>7. CASE pint_wait_write_done(u)
    BY <2>7 DEF pint_wait_write_done, qvars
  <2>8. CASE ClaimThread(u)
    <3> DEFINE l == Fanout[cur[u]][pos[u]]
    <3>1. cur[u] \in Tasks /\ l \in Lpms
      BY <2>8, FanoutType DEF ClaimThread
    <3>2. /\ got' = [got EXCEPT ![u] = IF l \in pint_enqueue_flag THEN @ ELSE Append(@, l)]
          /\ pint_enqueue_flag' = pint_enqueue_flag \cup {l}
      BY <2>8 DEF ClaimThread
    <3>4. /\ pos' = [pos EXCEPT ![u] = @ + 1]
          /\ UNCHANGED <<pint_q_head, pint_q_base, val, mc, T, pc, deq_idx, cur,
                         cache, wbuf, enq_idx, stored>>
      BY <2>8 DEF ClaimThread, qvars
    <3> HIDE DEF l
    <3>3. got' \in [Units -> Seq(Lpms)]
      BY <3>1, <3>2
    <3> QED
      BY <3>1, <3>2, <3>3, <3>4
  <2>9. CASE ReserveSlots(u)
    BY <2>9, SMTT(30) DEF ReserveSlots
  <2>10. CASE StoreThread(u)
    <3>1. got[u][stored[u] + 1] \in Tasks
      BY <2>10 DEF StoreThread, Tasks
    <3>2. pint_q_base' \in [{"ACTIVE", "INACTIVE"} -> [Slots -> Tasks \cup {None}]]
      BY <2>10, <3>1 DEF StoreThread
    <3>3. stored' \in [Units -> Nat]
      BY <2>10 DEF StoreThread
    <3> QED
      BY <2>10, <3>2, <3>3 DEF StoreThread
  <2>11. CASE ReturnThread(u)
    BY <2>11 DEF ReturnThread, qvars, NoLine
  <2> QED
    BY <1>5, <2>1, <2>2, <2>3, <2>4, <2>5, <2>6, <2>7, <2>8, <2>9, <2>10, <2>11 DEF UnitStep
<1>6. CASE UNCHANGED vars
  BY <1>6 DEF vars, qvars, uvars
<1> QED
  BY <1>1, <1>2, <1>3, <1>4, <1>5, <1>6 DEF Next, MainStep

\* The strengthened type invariant holds always.
LEMMA TypeInvariant == Spec => []TypeInv
<1>1. TypeInv /\ [Next]_vars => TypeInv'
  BY NextPhase, NextType DEF TypeInv
<1> QED
  BY <1>1, InitType, PTL DEF Spec

(***************************************************************************)
(* The state of a run always has its type, for every network, and a unit   *)
(* past the fetch works on a real thread.                                  *)
(***************************************************************************)
THEOREM TypeCorrect == Spec => []TypeOK
<1>1. TypeInv => TypeOK
  BY DEF TypeInv
<1> QED
  BY <1>1, TypeInvariant, PTL

-----------------------------------------------------------------------------
(* What a unit holds of the ACTIVE queue lies at or above the head, which   *)
(* only falls while the cores drain it.                                     *)
DispatchInv ==
    /\ \A c \in Cores : Running(c) => deq_idx[c] > pint_q_head["ACTIVE"]
    /\ \A c, d \in Cores : c # d /\ Running(c) /\ Running(d) => deq_idx[c] # deq_idx[d]

\* The steps that neither touch the ACTIVE head nor start a thread.
LEMMA QuietStep ==
    ASSUME TypeInv, NEW u \in Units, UnitStep(u), ~ pint_dequeue_thread(u)
    PROVE  /\ pint_q_head'["ACTIVE"] = pint_q_head["ACTIVE"]
           /\ deq_idx' = deq_idx
           /\ \A v \in Units : Running(v)' => Running(v)
<1> USE DEF TypeInv, TypeOK, Running
<1>1. CASE WriteCompletes(u)
  BY <1>1 DEF WriteCompletes, qvars
<1>2. CASE ReserveSlots(u)
  BY <1>2 DEF ReserveSlots
<1>3. CASE StoreThread(u)
  BY <1>3 DEF StoreThread
<1>4. CASE \/ FetchThread(u) \/ pint_enqueue_flag_clear(u) \/ ReadSignal(u)
           \/ DriveSignal(u) \/ pint_wait_write_done(u) \/ ClaimThread(u)
           \/ ReturnThread(u)
  <2>1. pint_q_head' = pint_q_head /\ deq_idx' = deq_idx
    BY <1>4 DEF FetchThread, pint_enqueue_flag_clear, ReadSignal, DriveSignal,
       pint_wait_write_done, ClaimThread, ReturnThread, qvars
  <2>2. Running(u)
    BY <1>4 DEF FetchThread, pint_enqueue_flag_clear, ReadSignal, DriveSignal,
       pint_wait_write_done, ClaimThread, ReturnThread
  <2>3. \A v \in Units : v # u => pc'[v] = pc[v]
    BY <1>4 DEF FetchThread, pint_enqueue_flag_clear, ReadSignal, DriveSignal,
       pint_wait_write_done, ClaimThread, ReturnThread
  <2> QED
    BY <2>1, <2>2, <2>3
<1> QED
  BY <1>1, <1>2, <1>3, <1>4 DEF UnitStep

\* Every step keeps the indices of running units above the head.
LEMMA DispatchStep == TypeInv /\ DispatchInv /\ [Next]_vars => DispatchInv'
<1> SUFFICES ASSUME TypeInv, DispatchInv, [Next]_vars PROVE DispatchInv'
  OBVIOUS
<1> USE DEF DispatchInv
<1>1. CASE StartParallel
  BY <1>1, UnitIn DEF StartParallel, Running
<1>2. CASE RunSingle
  BY <1>2, UnitIn, UnitsAssumption DEF RunSingle, Running, qvars, TypeInv, PhaseOK, TypeOK
<1>3. CASE pint_swap_active_and_inactive_queue
  BY <1>3, UnitIn DEF pint_swap_active_and_inactive_queue, AllOff, Running
<1>4. CASE NextTime
  BY <1>4, UnitIn DEF NextTime, uvars, Running, TypeInv, PhaseOK
<1>5. ASSUME NEW u \in Units, UnitStep(u) PROVE DispatchInv'
  <2>1. CASE pint_dequeue_thread(u)
    <3>1. u # Mcore
      BY <2>1 DEF pint_dequeue_thread, TypeInv, PhaseOK
    <3>2. u \in Cores
      BY <3>1, UnitIn
    <3>3. /\ deq_idx'[u] = pint_q_head["ACTIVE"]
          /\ pint_q_head'["ACTIVE"] = pint_q_head["ACTIVE"] - 1
          /\ pint_q_head["ACTIVE"] \in Int
          /\ \A v \in Units : deq_idx[v] \in Int
          /\ \A v \in Units : v # u => deq_idx'[v] = deq_idx[v] /\ pc'[v] = pc[v]
      BY <2>1 DEF pint_dequeue_thread, TypeInv, TypeOK
    <3> QED
      BY <3>2, <3>3, UnitIn DEF Running
  <2>2. CASE ~ pint_dequeue_thread(u)
    BY <1>5, <2>2, QuietStep, UnitIn
  <2> QED
    BY <2>1, <2>2
<1>6. CASE UNCHANGED vars
  BY <1>6 DEF vars, qvars, uvars, Running
<1> QED
  BY <1>1, <1>2, <1>3, <1>4, <1>5, <1>6 DEF Next, MainStep

(***************************************************************************)
(* However the cores interleave their atomic adds on the ACTIVE head, no   *)
(* slot is handed to two of them.                                          *)
(***************************************************************************)
THEOREM DispatchSafe == Spec => []NoDoubleDispatch
<1>1. Init => DispatchInv
  BY UnitIn DEF Init, DispatchInv, Running
<1>2. TypeInv /\ DispatchInv => NoDoubleDispatch
  <2> SUFFICES ASSUME TypeInv, DispatchInv, NEW u \in Units, NEW v \in Units,
                      u # v, Running(u), Running(v)
               PROVE  deq_idx[u] # deq_idx[v]
    BY DEF NoDoubleDispatch
  <2>1. u \in Cores /\ v \in Cores
    BY UnitIn, UnitsAssumption DEF TypeInv, PhaseOK, Running
  <2> QED
    BY <2>1 DEF DispatchInv
<1> QED
  BY <1>1, <1>2, DispatchStep, TypeInvariant, PTL DEF Spec

-----------------------------------------------------------------------------
(* The batches reserved on the INACTIVE queue are disjoint intervals below  *)
(* the head, which only grows until the barrier.                            *)
Storing(u) == pc[u] = "store"
BatchEnd(u) == enq_idx[u] + Len(got[u])

BatchInv ==
    /\ pint_q_head["INACTIVE"] >= 0
    /\ \A u \in Units : Storing(u) =>
          enq_idx[u] >= 0 /\ BatchEnd(u) <= pint_q_head["INACTIVE"]
    /\ \A u, v \in Units : u # v /\ Storing(u) /\ Storing(v) =>
          BatchEnd(u) <= enq_idx[v] \/ BatchEnd(v) <= enq_idx[u]

\* A batch has a length.
LEMMA LenGot == ASSUME TypeInv, NEW u \in Units PROVE Len(got[u]) \in Nat
BY DEF TypeInv, TypeOK

\* The steps that leave the INACTIVE head and every batch alone.
LEMMA BatchFrame ==
    ASSUME BatchInv, pint_q_head'["INACTIVE"] = pint_q_head["INACTIVE"],
           \A v \in Units : Storing(v)' =>
               Storing(v) /\ enq_idx'[v] = enq_idx[v] /\ got'[v] = got[v]
    PROVE  BatchInv'
BY DEF BatchInv, BatchEnd

\* Every step keeps the open batches apart and below the head.
LEMMA BatchStep == TypeInv /\ BatchInv /\ [Next]_vars => BatchInv'
<1> SUFFICES ASSUME TypeInv, BatchInv, [Next]_vars PROVE BatchInv'
  OBVIOUS
<1>1. CASE StartParallel
  BY <1>1, UnitIn, BatchFrame DEF StartParallel, Storing, qvars
<1>2. CASE RunSingle
  BY <1>2, BatchFrame DEF RunSingle, Storing, qvars, TypeInv, TypeOK
<1>3. CASE pint_swap_active_and_inactive_queue
  BY <1>3 DEF pint_swap_active_and_inactive_queue, AllOff, Storing, BatchInv
<1>4. CASE NextTime
  BY <1>4, BatchFrame DEF NextTime, uvars, Storing, TypeInv, TypeOK
<1>5. ASSUME NEW u \in Units, UnitStep(u) PROVE BatchInv'
  <2>1. CASE ReserveSlots(u)
    <3>1. /\ ~ Storing(u)
          /\ enq_idx'[u] = pint_q_head["INACTIVE"]
          /\ pint_q_head'["INACTIVE"] = pint_q_head["INACTIVE"] + Len(got[u])
          /\ got' = got
          /\ pint_q_head["INACTIVE"] \in Int
          /\ \A v \in Units : enq_idx[v] \in Int
          /\ \A v \in Units : v # u => enq_idx'[v] = enq_idx[v] /\ pc'[v] = pc[v]
      BY <2>1 DEF ReserveSlots, TypeInv, TypeOK, Storing
    <3> QED
      BY <3>1, LenGot DEF BatchInv, BatchEnd, Storing
  <2>2. CASE pint_dequeue_thread(u)
    BY <2>2, BatchFrame DEF pint_dequeue_thread, Storing, TypeInv, TypeOK
  <2>3. CASE StoreThread(u)
    BY <2>3, BatchFrame DEF StoreThread, Storing
  <2>4. CASE DriveSignal(u)
    <3>1. \A v \in Units : Storing(v)' => v # u
      BY <2>4 DEF DriveSignal, Storing, TypeInv, TypeOK
    <3>2. \A v \in Units : v # u =>
             pc'[v] = pc[v] /\ enq_idx'[v] = enq_idx[v] /\ got'[v] = got[v]
      BY <2>4 DEF DriveSignal, TypeInv, TypeOK
    <3> QED
      BY <2>4, <3>1, <3>2, BatchFrame DEF DriveSignal, Storing, qvars
  <2>5. CASE ClaimThread(u)
    <3>1. /\ pc[u] = "claim" /\ pc' = pc /\ enq_idx' = enq_idx
          /\ pint_q_head' = pint_q_head
          /\ \A v \in Units : v # u => got'[v] = got[v]
      BY <2>5 DEF ClaimThread, qvars, TypeInv, TypeOK
    <3> QED
      BY <3>1, BatchFrame DEF Storing
  <2>6. CASE ReturnThread(u)
    <3>1. /\ pc'[u] # "store" /\ enq_idx' = enq_idx /\ pint_q_head' = pint_q_head
          /\ \A v \in Units : v # u => got'[v] = got[v] /\ pc'[v] = pc[v]
      BY <2>6 DEF ReturnThread, qvars, TypeInv, TypeOK
    <3> QED
      BY <3>1, BatchFrame DEF Storing
  <2>7. CASE \/ FetchThread(u) \/ pint_enqueue_flag_clear(u) \/ ReadSignal(u)
             \/ WriteCompletes(u) \/ pint_wait_write_done(u)
    <3>1. /\ enq_idx' = enq_idx /\ got' = got /\ pint_q_head' = pint_q_head
          /\ pc'[u] # pc[u] => pc'[u] # "store"
          /\ \A v \in Units : v # u => pc'[v] = pc[v]
      BY <2>7 DEF FetchThread, pint_enqueue_flag_clear, ReadSignal, WriteCompletes,
         pint_wait_write_done, qvars, TypeInv, TypeOK
    <3> QED
      BY <3>1, BatchFrame DEF Storing
  <2> QED
    BY <1>5, <2>1, <2>2, <2>3, <2>4, <2>5, <2>6, <2>7 DEF UnitStep
<1>6. CASE UNCHANGED vars
  BY <1>6, BatchFrame DEF vars, qvars, uvars, Storing
<1> QED
  BY <1>1, <1>2, <1>3, <1>4, <1>5, <1>6 DEF Next, MainStep

(***************************************************************************)
(* No core stores a thread over one that another core queued, and every    *)
(* store lies below the head the swap publishes.                           *)
(***************************************************************************)
THEOREM BatchesSafe == Spec => []NoSlotClobber
<1>1. Init => BatchInv
  <2>1. Cardinality(NeedsInit) \in Nat /\ Cardinality(Procs) \in Nat
    BY TasksAssumption, BoundsAssumption, FS_CardinalityType, FS_Subset
  <2>2. ASSUME Init PROVE pint_q_head["INACTIVE"] \in Nat
    <3>1. CASE NeedsInit = {}
      <4>1. pint_q_head = [ACTIVE |-> Cardinality(Procs), INACTIVE |-> 0]
        BY <2>2, <3>1 DEF Init
      <4> QED
        BY <4>1
    <3>2. CASE NeedsInit # {}
      <4>1. pint_q_head = [ACTIVE |-> Cardinality(NeedsInit),
                           INACTIVE |-> Cardinality(Procs)]
        BY <2>2, <3>2 DEF Init
      <4> QED
        BY <2>1, <4>1
    <3> QED
      BY <3>1, <3>2
  <2>3. ASSUME Init PROVE \A u \in Units : ~ Storing(u)
    BY <2>3 DEF Init, Storing
  <2> QED
    BY <2>2, <2>3 DEF BatchInv
<1>2. TypeInv /\ BatchInv => NoSlotClobber
  <2> SUFFICES ASSUME TypeInv, BatchInv, NEW u \in Units
               PROVE  /\ \A i \in Reserved(u) : 0 <= i /\ i < pint_q_head["INACTIVE"]
                      /\ \A v \in Units \ {u} : Reserved(u) \cap Reserved(v) = {}
    BY DEF NoSlotClobber
  <2>1. /\ \A v \in Units : enq_idx[v] \in Int /\ stored[v] \in Nat
        /\ pint_q_head["INACTIVE"] \in Int
    BY DEF TypeInv, TypeOK
  <2>2. \A v \in Units : Len(got[v]) \in Nat
    BY LenGot
  <2>3. ASSUME NEW v \in Units, NEW i \in Reserved(v)
        PROVE  /\ Storing(v) /\ i \in Int
               /\ enq_idx[v] <= i /\ i < BatchEnd(v)
    BY <2>1, <2>2, <2>3 DEF Reserved, Storing, BatchEnd
  <2>4. \A i \in Reserved(u) : 0 <= i /\ i < pint_q_head["INACTIVE"]
    BY <2>1, <2>2, <2>3 DEF BatchInv, BatchEnd
  <2>5. ASSUME NEW v \in Units \ {u}, NEW i \in Reserved(u), i \in Reserved(v)
        PROVE  FALSE
    BY <2>1, <2>2, <2>3, <2>5 DEF BatchInv, BatchEnd
  <2> QED
    BY <2>4, <2>5
<1> QED
  BY <1>1, <1>2, BatchStep, TypeInvariant, PTL DEF Spec

-----------------------------------------------------------------------------
(* Runs to come.  An LPM's runs that have not read their inputs are entries *)
(* of the ACTIVE queue that were not started, entries of the INACTIVE queue *)
(* that are stored, and what the units have claimed and not stored.         *)

Unstarted(i) ==
    \/ mc # "single" /\ i < pint_q_head["ACTIVE"]
    \/ \E u \in Units : pc[u] \in {"fetch", "clear"} /\ deq_idx[u] = i + 1
OnActive(l) == {i \in Slots : Unstarted(i) /\ pint_q_base["ACTIVE"][i] = l}

Stored(i) == i < pint_q_head["INACTIVE"] /\ \A u \in Units : i \notin Reserved(u)
OnInactive(l) == {i \in Slots : Stored(i) /\ pint_q_base["INACTIVE"][i] = l}

Held(u, k) == k \in 1 .. Len(got[u]) /\ (pc[u] = "store" => k > stored[u])
InHand(l) == {x \in Units \X Nat : Held(x[1], x[2]) /\ got[x[1]][x[2]] = l}

Later(l) == OnInactive(l) # {} \/ InHand(l) # {}

\* Unit u has changed an input of l and not yet looked at l's bit.
Driving(u, l) ==
    /\ pc[u] \in {"wait", "claim"}
    /\ \E k \in pos[u] .. Len(Fanout[cur[u]]) : Fanout[cur[u]][k] = l
Owed(l) == Later(l) \/ \E u \in Units : Driving(u, l)

Started(u) == pc[u] \in {"read", "wait", "claim", "store", "return"}

UnitOK(u) ==
    /\ pc[u] # "fault"
    /\ pc[u] \in {"fetch", "clear"} =>
          deq_idx[u] - 1 \in Slots /\ pint_q_base["ACTIVE"][deq_idx[u] - 1] # None
    /\ pc[u] = "clear" =>
          cur[u] \in Lpms /\ pint_q_base["ACTIVE"][deq_idx[u] - 1] = cur[u]
    /\ pc[u] \notin {"claim", "store"} => got[u] = <<>>
    /\ pc[u] \in {"wait", "claim"} => stored[u] = 0
    /\ pc[u] = "wait" => pos[u] = 1
    /\ pc[u] = "store" => stored[u] <= Len(got[u])
    /\ pc[u] = "return" /\ wbuf[u] # None => Fanout[cur[u]] = <<>>
UnitsOK == \A u \in Units : UnitOK(u)

HeadOK ==
    /\ pint_q_head["ACTIVE"] <= QLen /\ pint_q_head["INACTIVE"] <= QLen
    /\ \A i \in Slots : i < pint_q_head["ACTIVE"] => pint_q_base["ACTIVE"][i] # None
    /\ \A i \in Slots : Stored(i) => pint_q_base["INACTIVE"][i] # None
    /\ mc = "parallel" /\ (\E c \in Cores : pc[c] = "off") => pint_q_head["ACTIVE"] <= 0
    /\ mc = "loop" => \A l \in Lpms : OnInactive(l) = {}

\* How many runs of an LPM can be outstanding.
OneOf(S) == \A x, y \in S : x = y
TwoOf(S) == \A x, y, z \in S : x = y \/ y = z \/ x = z
Runs(l) ==
    ({"active"} \X OnActive(l)) \cup ({"inactive"} \X OnInactive(l))
    \cup ({"hand"} \X InHand(l))
CountOK ==
    /\ \A l \in Lpms : TwoOf(Runs(l)) /\ (l \notin pint_enqueue_flag => OneOf(Runs(l)))
    /\ \A p \in Procs : OneOf(OnInactive(p))

FlagOK ==
    \A l \in pint_enqueue_flag :
        /\ OnActive(l) # {} \/ Later(l)
        /\ (\E u \in Units : cur[u] = l /\ Started(u)) => Later(l)

\* What a unit finds in its cache.
CacheOK ==
    /\ \A c \in Cores : pc[c] \in {"off", "dequeue", "fetch", "clear"} => cache[c] = NoLine
    /\ mc # "parallel" => \A s \in Tasks :
          cache[Mcore][s] \in
              {None, IF wbuf[Mcore] # None /\ s = cur[Mcore] THEN wbuf[Mcore] ELSE val[s]}

Right(l) == val[l] = Eval(l, val)
FreshOK ==
    \A u \in Units : cur[u] \in Lpms /\ pc[u] = "read" =>
        \/ Owed(cur[u])
        \/ /\ \A s \in Inputs[cur[u]] : cache[u][s] \in {None, val[s]}
           /\ cache[u][cur[u]] \in {None, val[cur[u]]} \/ Right(cur[u])
WriteOK ==
    \A u \in Units : cur[u] \in Lpms /\ wbuf[u] # None =>
        Owed(cur[u]) \/ wbuf[u] = Eval(cur[u], val)
Working(u, l) == cur[u] = l /\ (pc[u] = "read" \/ wbuf[u] # None)
SettledOK ==
    \A l \in Lpms :
        \/ Right(l) \/ Unrun(l) \/ OnActive(l) # {} \/ Owed(l)
        \/ \E u \in Units : Working(u, l)

\* A step of one unit leaves the others' registers alone.
LEMMA OthersKept ==
    ASSUME TypeInv, NEW u \in Units, UnitStep(u)
    PROVE  /\ mc' = mc
           /\ \A v \in Units : v # u =>
                /\ pc'[v] = pc[v] /\ deq_idx'[v] = deq_idx[v] /\ cur'[v] = cur[v]
                /\ cache'[v] = cache[v] /\ wbuf'[v] = wbuf[v] /\ pos'[v] = pos[v]
                /\ got'[v] = got[v] /\ enq_idx'[v] = enq_idx[v] /\ stored'[v] = stored[v]
<1> USE DEF TypeInv, TypeOK
<1>1. CASE pint_dequeue_thread(u)
  BY <1>1 DEF pint_dequeue_thread
<1>2. CASE FetchThread(u)
  BY <1>2 DEF FetchThread
<1>3. CASE pint_enqueue_flag_clear(u)
  BY <1>3 DEF pint_enqueue_flag_clear
<1>4. CASE ReadSignal(u)
  BY <1>4 DEF ReadSignal
<1>5. CASE DriveSignal(u)
  BY <1>5 DEF DriveSignal
<1>6. CASE WriteCompletes(u)
  BY <1>6 DEF WriteCompletes
<1>7. CASE pint_wait_write_done(u)
  BY <1>7 DEF pint_wait_write_done
<1>8. CASE ClaimThread(u)
  BY <1>8 DEF ClaimThread
<1>9. CASE ReserveSlots(u)
  BY <1>9 DEF ReserveSlots
<1>10. CASE StoreThread(u)
  BY <1>10 DEF StoreThread
<1>11. CASE ReturnThread(u)
  BY <1>11 DEF ReturnThread
<1> QED
  BY <1>1, <1>2, <1>3, <1>4, <1>5, <1>6, <1>7, <1>8, <1>9, <1>10, <1>11 DEF UnitStep

\* The ACTIVE entries to be started are those they were ...
LEMMA ActiveFrame ==
    ASSUME NEW l, pint_q_base'["ACTIVE"] = pint_q_base["ACTIVE"],
           \A i \in Slots : Unstarted(i)' <=> Unstarted(i)
    PROVE  OnActive(l)' = OnActive(l)
BY DEF OnActive

\* ... and so are the stored INACTIVE entries ...
LEMMA InactiveFrame ==
    ASSUME NEW l, pint_q_base'["INACTIVE"] = pint_q_base["INACTIVE"],
           \A i \in Slots : Stored(i)' <=> Stored(i)
    PROVE  OnInactive(l)' = OnInactive(l)
BY DEF OnInactive

\* ... and what the units hold.
LEMMA HandFrame ==
    ASSUME NEW l,
           \A v \in Units, k \in Nat : Held(v, k)' <=> Held(v, k),
           \A v \in Units, k \in Nat : Held(v, k) => got'[v][k] = got[v][k]
    PROVE  InHand(l)' = InHand(l)
BY DEF InHand

\* Unless a unit dequeues, fetches or clears, the ACTIVE entries wait on.
LEMMA ActiveKept ==
    ASSUME TypeInv, NEW u \in Units, UnitStep(u), NEW l,
           pint_q_base'["ACTIVE"] = pint_q_base["ACTIVE"],
           pint_q_head'["ACTIVE"] = pint_q_head["ACTIVE"],
           deq_idx'[u] = deq_idx[u],
           pc'[u] \in {"fetch", "clear"} <=> pc[u] \in {"fetch", "clear"}
    PROVE  OnActive(l)' = OnActive(l)
<1>1. \A v \in Units : /\ deq_idx'[v] = deq_idx[v]
                       /\ pc'[v] \in {"fetch", "clear"} <=> pc[v] \in {"fetch", "clear"}
  BY OthersKept
<1>2. \A i \in Slots : Unstarted(i)' <=> Unstarted(i)
  BY <1>1, OthersKept DEF Unstarted
<1> QED
  BY <1>2, ActiveFrame

\* Unless a unit reserves or stores, the INACTIVE entries do.
LEMMA InactiveKept ==
    ASSUME TypeInv, NEW u \in Units, UnitStep(u), NEW l,
           pint_q_base'["INACTIVE"] = pint_q_base["INACTIVE"],
           pint_q_head'["INACTIVE"] = pint_q_head["INACTIVE"],
           Reserved(u)' = Reserved(u)
    PROVE  OnInactive(l)' = OnInactive(l)
<1>1. \A v \in Units : Reserved(v)' = Reserved(v)
  BY OthersKept DEF Reserved
<1>2. \A i \in Slots : Stored(i)' <=> Stored(i)
  BY <1>1 DEF Stored
<1> QED
  BY <1>2, InactiveFrame

\* Unless a unit claims or stores, it holds what it held.
LEMMA HandKept ==
    ASSUME TypeInv, NEW u \in Units, UnitStep(u), NEW l, got'[u] = got[u],
           \A k \in Nat : Held(u, k)' <=> Held(u, k)
    PROVE  InHand(l)' = InHand(l)
<1>1. \A v \in Units, k \in Nat : Held(v, k)' <=> Held(v, k)
  BY OthersKept DEF Held
<1>2. \A v \in Units : got'[v] = got[v]
  BY OthersKept
<1> QED
  BY <1>1, <1>2, HandFrame

\* A unit at work: a core in a parallel phase, or the mcore in a single one.
LEMMA AtWork ==
    ASSUME TypeInv, NEW u \in Units, pc[u] # "off"
    PROVE  /\ u \in Cores => mc = "parallel"
           /\ u = Mcore => mc = "single"
           /\ u \in Cores \/ u = Mcore
BY UnitIn DEF TypeInv, PhaseOK

\* The runs to come of l are where they were.
Same(l) ==
    OnActive(l)' = OnActive(l) /\ OnInactive(l)' = OnInactive(l) /\ InHand(l)' = InHand(l)

\* A dequeued slot is to be started until it is fetched and the bit cleared.
LEMMA DequeueRuns ==
    ASSUME TypeInv, NEW u \in Units, UnitStep(u), pint_dequeue_thread(u), NEW l
    PROVE  Same(l)
<1>0. /\ pc[u] = "dequeue" /\ mc = "parallel"
      /\ pint_q_head["ACTIVE"] \in Int
      /\ \A v \in Units : deq_idx[v] \in Int
  BY AtWork DEF pint_dequeue_thread, TypeInv, TypeOK, PhaseOK
<1>1. /\ deq_idx'[u] = pint_q_head["ACTIVE"]
      /\ pint_q_head'["ACTIVE"] = pint_q_head["ACTIVE"] - 1
      /\ pint_q_head'["INACTIVE"] = pint_q_head["INACTIVE"]
      /\ pc'[u] = IF pint_q_head["ACTIVE"] > 0 THEN "fetch" ELSE "off"
      /\ pint_q_base' = pint_q_base /\ got' = got
  BY DEF pint_dequeue_thread, TypeInv, TypeOK
<1>2. \A i \in Slots : i \in Int /\ i >= 0
  BY BoundsAssumption DEF Slots
<1>3. \A i \in Slots : Unstarted(i)' <=> Unstarted(i)
  <2> SUFFICES ASSUME NEW i \in Slots PROVE Unstarted(i)' <=> Unstarted(i)
    OBVIOUS
  <2>1. mc' = mc /\ \A v \in Units : v # u => pc'[v] = pc[v] /\ deq_idx'[v] = deq_idx[v]
    BY OthersKept
  <2>2. (\E v \in Units : pc'[v] \in {"fetch", "clear"} /\ deq_idx'[v] = i + 1)
        <=> \/ \E v \in Units : pc[v] \in {"fetch", "clear"} /\ deq_idx[v] = i + 1
            \/ pint_q_head["ACTIVE"] > 0 /\ pint_q_head["ACTIVE"] = i + 1
    BY <1>0, <1>1, <2>1
  <2> QED
    BY <1>0, <1>1, <1>2, <2>1, <2>2 DEF Unstarted
<1>4. OnActive(l)' = OnActive(l)
  BY <1>1, <1>3, ActiveFrame
<1>5. Reserved(u)' = Reserved(u) /\ \A k \in Nat : Held(u, k)' <=> Held(u, k)
  BY <1>0, <1>1 DEF Reserved, Held
<1>6. OnInactive(l)' = OnInactive(l)
  BY <1>1, <1>5, InactiveKept
<1>7. InHand(l)' = InHand(l)
  BY <1>1, <1>5, HandKept
<1> QED
  BY <1>4, <1>6, <1>7 DEF Same

\* Fetching an LPM does not start it: its bit is cleared first.
LEMMA FetchRuns ==
    ASSUME TypeInv, UnitsOK, NEW u \in Units, UnitStep(u), FetchThread(u), NEW l
    PROVE  OnInactive(l)' = OnInactive(l) /\ (l \in Lpms => Same(l))
<1>0. /\ pc[u] = "fetch" /\ deq_idx[u] - 1 \in Slots /\ deq_idx[u] \in Int
      /\ pint_q_base["ACTIVE"][deq_idx[u] - 1] # None
  BY DEF FetchThread, UnitsOK, UnitOK, TypeInv, TypeOK
<1> DEFINE i0 == deq_idx[u] - 1
<1>1. /\ deq_idx' = deq_idx /\ pint_q_head' = pint_q_head
      /\ pint_q_base' = pint_q_base /\ got' = got
      /\ pc'[u] = IF pint_q_base["ACTIVE"][i0] \in Lpms THEN "clear" ELSE "read"
  BY <1>0 DEF FetchThread, TypeInv, TypeOK, qvars
<1>2. \A i \in Slots : i \in Int
  BY BoundsAssumption DEF Slots
<1>3. ASSUME NEW i \in Slots, l \in Lpms
      PROVE  i \in OnActive(l)' <=> i \in OnActive(l)
  <2>1. mc' = mc /\ \A v \in Units : v # u => pc'[v] = pc[v]
    BY OthersKept
  <2>2. CASE i = i0
    <3>1. Unstarted(i)
      BY <1>0, <2>2 DEF Unstarted
    <3>2. pint_q_base["ACTIVE"][i0] = l => Unstarted(i)'
      BY <1>0, <1>1, <1>3, <2>2 DEF Unstarted
    <3> QED
      BY <1>1, <2>2, <3>1, <3>2 DEF OnActive
  <2>3. CASE i # i0
    <3>1. deq_idx[u] # i + 1
      BY <1>0, <1>2, <2>3
    <3>2. Unstarted(i)' <=> Unstarted(i)
      BY <1>1, <2>1, <3>1 DEF Unstarted
    <3> QED
      BY <1>1, <3>2 DEF OnActive
  <2> QED
    BY <2>2, <2>3
<1>4. l \in Lpms => OnActive(l)' = OnActive(l)
  BY <1>3 DEF OnActive
<1>5. Reserved(u)' = Reserved(u) /\ \A k \in Nat : Held(u, k)' <=> Held(u, k)
  BY <1>0, <1>1 DEF Reserved, Held
<1>6. OnInactive(l)' = OnInactive(l)
  BY <1>1, <1>5, InactiveKept
<1>7. InHand(l)' = InHand(l)
  BY <1>1, <1>5, HandKept
<1> QED
  BY <1>4, <1>6, <1>7 DEF Same

\* Reading, driving, writing and returning move no run to come.
LEMMA QuietRuns ==
    ASSUME TypeInv, UnitsOK, NEW u \in Units, UnitStep(u), NEW l,
           \/ ReadSignal(u) \/ DriveSignal(u) \/ WriteCompletes(u)
           \/ pint_wait_write_done(u) \/ ReturnThread(u)
    PROVE  Same(l)
<1>1. /\ pint_q_head' = pint_q_head /\ pint_q_base' = pint_q_base
      /\ deq_idx' = deq_idx
      /\ pc[u] \notin {"fetch", "clear"} /\ pc'[u] \notin {"fetch", "clear"}
  <2>1. CASE ReadSignal(u)
    BY <2>1 DEF ReadSignal, qvars
  <2>2. CASE DriveSignal(u)
    BY <2>2 DEF DriveSignal, qvars, TypeInv, TypeOK
  <2>3. CASE WriteCompletes(u)
    BY <2>3 DEF WriteCompletes, qvars, TypeInv, WbufOK
  <2>4. CASE pint_wait_write_done(u)
    BY <2>4 DEF pint_wait_write_done, qvars, TypeInv, TypeOK
  <2>5. CASE ReturnThread(u)
    BY <2>5 DEF ReturnThread, qvars, TypeInv, TypeOK
  <2> QED
    BY <2>1, <2>2, <2>3, <2>4, <2>5
<1>2. /\ Reserved(u)' = Reserved(u)
      /\ \A k \in Nat : ~ Held(u, k) /\ ~ Held(u, k)'
  <2>1. \A v \in Units : got[v] \in Seq(Lpms) /\ stored[v] \in Nat /\ enq_idx[v] \in Int
    BY DEF TypeInv, TypeOK
  <2>2. Len(got[u]) \in Nat
    BY LenGot
  <2>3. CASE ReturnThread(u)
    <3>1. pc'[u] # "store" /\ got'[u] = <<>>
      BY <2>3 DEF ReturnThread, TypeInv, TypeOK
    <3>2. \/ pc[u] = "return" /\ got[u] = <<>>
          \/ pc[u] = "store" /\ stored[u] = Len(got[u])
      BY <2>3 DEF ReturnThread, UnitsOK, UnitOK
    <3>3. Reserved(u)' = {} /\ Reserved(u) = {}
      BY <2>1, <2>2, <3>1, <3>2 DEF Reserved
    <3>4. \A k \in Nat : ~ Held(u, k) /\ ~ Held(u, k)'
      BY <2>1, <2>2, <3>1, <3>2 DEF Held
    <3> QED
      BY <3>3, <3>4
  <2>4. CASE ~ ReturnThread(u)
    <3>1. /\ pc[u] \notin {"claim", "store"}
          /\ got'[u] = <<>> /\ pc'[u] # "store"
      <4> USE DEF UnitsOK, UnitOK, TypeInv, TypeOK
      <4>1. CASE ReadSignal(u)
        BY <4>1 DEF ReadSignal
      <4>2. CASE DriveSignal(u)
        BY <4>2 DEF DriveSignal
      <4>3. CASE WriteCompletes(u)
        BY <4>3 DEF WriteCompletes, WbufOK
      <4>4. CASE pint_wait_write_done(u)
        BY <4>4 DEF pint_wait_write_done
      <4> QED
        BY <2>4, <4>1, <4>2, <4>3, <4>4
    <3>2. got[u] = <<>>
      BY <3>1 DEF UnitsOK, UnitOK
    <3> QED
      BY <3>1, <3>2 DEF Reserved, Held
  <2> QED
    BY <2>3, <2>4
<1>3. OnActive(l)' = OnActive(l)
  BY <1>1, ActiveKept
<1>4. OnInactive(l)' = OnInactive(l)
  BY <1>1, <1>2, InactiveKept
<1>5. InHand(l)' = InHand(l)
  <2>1. \A v \in Units : v # u => \A k \in Nat : Held(v, k)' <=> Held(v, k)
    BY OthersKept DEF Held
  <2>2. \A v \in Units, k \in Nat : Held(v, k)' <=> Held(v, k)
    BY <1>2, <2>1
  <2>3. \A v \in Units, k \in Nat : Held(v, k) => got'[v][k] = got[v][k]
    BY <1>2, OthersKept
  <2> QED
    BY <2>2, <2>3, HandFrame
<1> QED
  BY <1>3, <1>4, <1>5 DEF Same

\* Clearing its bit starts an LPM: one ACTIVE entry is used up.
LEMMA ClearRuns ==
    ASSUME TypeInv, UnitsOK, DispatchInv, NEW u \in Units, UnitStep(u),
           pint_enqueue_flag_clear(u), NEW l
    PROVE  /\ OnInactive(l)' = OnInactive(l) /\ InHand(l)' = InHand(l)
           /\ OnActive(l)' = OnActive(l) \ {deq_idx[u] - 1}
           /\ l = cur[u] => deq_idx[u] - 1 \in OnActive(l)
           /\ l # cur[u] => OnActive(l)' = OnActive(l)
<1>0. /\ pc[u] = "clear" /\ deq_idx[u] - 1 \in Slots
      /\ pint_q_head["ACTIVE"] \in Int /\ \A v \in Units : deq_idx[v] \in Int
      /\ pint_q_base["ACTIVE"][deq_idx[u] - 1] = cur[u]
  BY DEF pint_enqueue_flag_clear, UnitsOK, UnitOK, TypeInv, TypeOK
<1> DEFINE i0 == deq_idx[u] - 1
<1>1. /\ deq_idx' = deq_idx /\ pint_q_head' = pint_q_head
      /\ pint_q_base' = pint_q_base /\ got' = got
      /\ pc'[u] = "read"
  BY DEF pint_enqueue_flag_clear, TypeInv, TypeOK, qvars
<1>2. \A i \in Slots : i \in Int
  BY BoundsAssumption DEF Slots
<1>3. mc' = mc /\ \A v \in Units : v # u => pc'[v] = pc[v]
  BY OthersKept
<1>4. ~ (mc # "single" /\ i0 < pint_q_head["ACTIVE"])
  <2>1. CASE u \in Cores
    BY <1>0, <2>1 DEF DispatchInv, Running
  <2>2. CASE u = Mcore
    BY <1>0, <2>2, AtWork
  <2> QED
    BY <2>1, <2>2, UnitIn
<1>5. \A v \in Units : v # u /\ pc[v] \in {"fetch", "clear"} => deq_idx[v] # deq_idx[u]
  <2> SUFFICES ASSUME NEW v \in Units, v # u, pc[v] \in {"fetch", "clear"}
               PROVE  deq_idx[v] # deq_idx[u]
    OBVIOUS
  <2>1. u \in Cores /\ v \in Cores
    BY <1>0, AtWork
  <2> QED
    BY <1>0, <2>1 DEF DispatchInv, Running
<1>6. ~ Unstarted(i0)' /\ Unstarted(i0)
  <2>1. i0 + 1 = deq_idx[u]
    BY <1>0
  <2>2. \A v \in Units : ~ (pc'[v] \in {"fetch", "clear"} /\ deq_idx'[v] = i0 + 1)
    BY <1>1, <1>3, <1>5, <2>1
  <2> QED
    BY <1>0, <1>1, <1>3, <1>4, <2>1, <2>2 DEF Unstarted
<1>7. \A i \in Slots : i # i0 => (Unstarted(i)' <=> Unstarted(i))
  <2> SUFFICES ASSUME NEW i \in Slots, i # i0 PROVE Unstarted(i)' <=> Unstarted(i)
    OBVIOUS
  <2>1. deq_idx[u] # i + 1
    BY <1>0, <1>2
  <2> QED
    BY <1>1, <1>3, <2>1 DEF Unstarted
<1>8. OnActive(l)' = OnActive(l) \ {i0}
  BY <1>1, <1>6, <1>7 DEF OnActive
<1>9. l = cur[u] => i0 \in OnActive(l)
  BY <1>0, <1>6 DEF OnActive
<1>10. l # cur[u] => i0 \notin OnActive(l)
  BY <1>0 DEF OnActive
<1>11. Reserved(u)' = Reserved(u) /\ \A k \in Nat : Held(u, k)' <=> Held(u, k)
  BY <1>0, <1>1 DEF Reserved, Held
<1>12. OnInactive(l)' = OnInactive(l)
  BY <1>1, <1>11, InactiveKept
<1>13. InHand(l)' = InHand(l)
  BY <1>1, <1>11, HandKept
<1> QED
  BY <1>8, <1>9, <1>10, <1>12, <1>13

\* What ClaimThread adds.
LEMMA ClaimRuns ==
    ASSUME TypeInv, NEW u \in Units, UnitStep(u), ClaimThread(u), NEW l
    PROVE  /\ OnActive(l)' = OnActive(l) /\ OnInactive(l)' = OnInactive(l)
           /\ \/ l # Fanout[cur[u]][pos[u]]
              \/ l \in pint_enqueue_flag
              => InHand(l)' = InHand(l)
           /\ l = Fanout[cur[u]][pos[u]] /\ l \notin pint_enqueue_flag
              => InHand(l)' = InHand(l) \cup {<<u, Len(got[u]) + 1>>}
<1> DEFINE l0 == Fanout[cur[u]][pos[u]]
<1>0. /\ pc[u] = "claim" /\ pc' = pc /\ deq_idx' = deq_idx
      /\ pint_q_head' = pint_q_head /\ pint_q_base' = pint_q_base
      /\ stored' = stored /\ enq_idx' = enq_idx
      /\ got[u] \in Seq(Lpms)
  BY DEF ClaimThread, TypeInv, TypeOK, qvars
<1>1. got'[u] = IF l0 \in pint_enqueue_flag THEN got[u] ELSE Append(got[u], l0)
  BY DEF ClaimThread, TypeInv, TypeOK
<1>2. OnActive(l)' = OnActive(l)
  BY <1>0, ActiveKept
<1>3. Reserved(u)' = Reserved(u)
  BY <1>0 DEF Reserved
<1>4. OnInactive(l)' = OnInactive(l)
  BY <1>0, <1>3, InactiveKept
<1>5. ASSUME l0 \in pint_enqueue_flag PROVE InHand(l)' = InHand(l)
  <2>1. got'[u] = got[u]
    BY <1>1, <1>5
  <2>2. \A k \in Nat : Held(u, k)' <=> Held(u, k)
    BY <1>0, <2>1 DEF Held
  <2> QED
    BY <2>1, <2>2, HandKept
<1>6. ASSUME l0 \notin pint_enqueue_flag
      PROVE  /\ l # l0 => InHand(l)' = InHand(l)
             /\ l = l0 => InHand(l)' = InHand(l) \cup {<<u, Len(got[u]) + 1>>}
  <2> HIDE DEF l0
  <2>1. got'[u] = Append(got[u], l0)
    BY <1>1, <1>6
  <2>2. /\ Len(got'[u]) = Len(got[u]) + 1 /\ Len(got[u]) \in Nat
        /\ got'[u][Len(got[u]) + 1] = l0
        /\ \A k \in 1 .. Len(got[u]) : got'[u][k] = got[u][k]
    BY <1>0, <2>1
  <2>3. \A k \in Nat : Held(u, k)' <=> Held(u, k) \/ k = Len(got[u]) + 1
    BY <1>0, <2>2 DEF Held
  <2>4. \A k \in Nat : Held(u, k) => k # Len(got[u]) + 1 /\ got'[u][k] = got[u][k]
    BY <2>2 DEF Held
  <2>5. \A v \in Units, k \in Nat : v # u => (Held(v, k)' <=> Held(v, k)) /\ got'[v] = got[v]
    BY OthersKept DEF Held
  <2>6. \A v \in Units, k \in Nat :
           <<v, k>> \in InHand(l)' <=>
             (<<v, k>> \in InHand(l) \/ (v = u /\ k = Len(got[u]) + 1 /\ l = l0))
    BY <2>2, <2>3, <2>4, <2>5 DEF InHand
  <2>7. InHand(l) \subseteq Units \X Nat /\ InHand(l)' \subseteq Units \X Nat
    BY DEF InHand
  <2>8. <<u, Len(got[u]) + 1>> \in Units \X Nat
    BY <2>2
  <2>9. ASSUME NEW x \in Units \X Nat
        PROVE  x \in InHand(l)' <=>
                 (x \in InHand(l) \/ (l = l0 /\ x = <<u, Len(got[u]) + 1>>))
    <3>1. PICK v \in Units, k \in Nat : x = <<v, k>>
      OBVIOUS
    <3> QED
      BY <2>2, <2>6, <3>1
  <2>10. CASE l # l0
    BY <2>7, <2>9, <2>10
  <2>11. CASE l = l0
    <3>1. InHand(l)' \subseteq InHand(l) \cup {<<u, Len(got[u]) + 1>>}
      BY <2>7, <2>9
    <3>2. InHand(l) \cup {<<u, Len(got[u]) + 1>>} \subseteq InHand(l)'
      BY <2>7, <2>8, <2>9, <2>11
    <3> QED
      BY <2>11, <3>1, <3>2
  <2> QED
    BY <2>10, <2>11
<1> QED
  BY <1>2, <1>4, <1>5, <1>6

\* Without an overrun the reserved slots lie in the array.
LEMMA ReserveStores ==
    ASSUME TypeInv, ~ Overrun', NEW u \in Units, ReserveSlots(u)
    PROVE  /\ pc'[u] = "store"
           /\ pint_q_head["INACTIVE"] + Len(got[u]) <= QLen
<1>1. pc'[u] # "overrun"
  BY DEF Overrun
<1>2. pc'[u] = IF pint_q_head["INACTIVE"] + Len(got[u]) > QLen THEN "overrun" ELSE "store"
  BY DEF ReserveSlots, TypeInv, TypeOK
<1>3. ~ (pint_q_head["INACTIVE"] + Len(got[u]) > QLen)
  BY <1>1, <1>2
<1>4. pint_q_head["INACTIVE"] \in Int /\ Len(got[u]) \in Nat /\ QLen \in Nat
  BY LenGot, BoundsAssumption DEF TypeInv, TypeOK
<1> QED
  BY <1>2, <1>3, <1>4

\* Reserving slots moves no run: they count as stored one by one.
LEMMA ReserveRuns ==
    ASSUME TypeInv, ~ Overrun', UnitsOK, BatchInv, NEW u \in Units, UnitStep(u),
           ReserveSlots(u), NEW l
    PROVE  Same(l)
<1>0. /\ pc[u] = "claim" /\ pc'[u] = "store" /\ deq_idx' = deq_idx
      /\ pint_q_head'["ACTIVE"] = pint_q_head["ACTIVE"]
      /\ pint_q_head'["INACTIVE"] = pint_q_head["INACTIVE"] + Len(got[u])
      /\ enq_idx'[u] = pint_q_head["INACTIVE"]
      /\ pint_q_head["INACTIVE"] \in Int
      /\ pint_q_base' = pint_q_base
      /\ stored' = stored /\ stored[u] = 0 /\ got' = got
  BY ReserveStores DEF ReserveSlots, TypeInv, TypeOK, UnitsOK, UnitOK
<1>1. Len(got[u]) \in Nat
  BY LenGot
<1>2. OnActive(l)' = OnActive(l)
  BY <1>0, ActiveKept
<1>3. \A k \in Nat : Held(u, k)' <=> Held(u, k)
  BY <1>0, <1>1 DEF Held
<1>4. InHand(l)' = InHand(l)
  BY <1>0, <1>3, HandKept
<1>5. \A i \in Slots : Stored(i)' <=> Stored(i)
  <2> SUFFICES ASSUME NEW i \in Slots PROVE Stored(i)' <=> Stored(i)
    OBVIOUS
  <2>1. i \in Int
    BY BoundsAssumption DEF Slots
  <2>2. \A v \in Units : v # u => Reserved(v)' = Reserved(v)
    BY OthersKept DEF Reserved
  <2>3. Reserved(u) = {}
    BY <1>0 DEF Reserved
  <2>4. i \in Reserved(u)' <=> pint_q_head["INACTIVE"] <= i /\ i < pint_q_head'["INACTIVE"]
    BY <1>0, <1>1, <2>1 DEF Reserved
  <2> QED
    BY <1>0, <1>1, <2>1, <2>2, <2>3, <2>4 DEF Stored
<1>6. OnInactive(l)' = OnInactive(l)
  BY <1>0, <1>5, InactiveFrame
<1> QED
  BY <1>2, <1>4, <1>6 DEF Same

\* StoreThread moves one run from the unit's hand to the INACTIVE queue.
LEMMA StoreRuns ==
    ASSUME TypeInv, UnitsOK, BatchInv, HeadOK, NEW u \in Units, UnitStep(u),
           StoreThread(u), NEW l
    PROVE  /\ enq_idx[u] + stored[u] \in Slots
           /\ OnActive(l)' = OnActive(l)
           /\ InHand(l)' = InHand(l) \ {<<u, stored[u] + 1>>}
           /\ l # got[u][stored[u] + 1] =>
                OnInactive(l)' = OnInactive(l) /\ InHand(l)' = InHand(l)
           /\ l = got[u][stored[u] + 1] =>
                /\ OnInactive(l)' = OnInactive(l) \cup {enq_idx[u] + stored[u]}
                /\ <<u, stored[u] + 1>> \in InHand(l)
<1> DEFINE k0 == stored[u] + 1
           i0 == enq_idx[u] + stored[u]
           l0 == got[u][k0]
<1>0. /\ pc[u] = "store" /\ pc' = pc /\ stored[u] < Len(got[u]) /\ deq_idx' = deq_idx
      /\ pint_q_head' = pint_q_head /\ got' = got /\ enq_idx' = enq_idx
      /\ stored'[u] = stored[u] + 1 /\ stored[u] \in Nat /\ enq_idx[u] \in Int
      /\ pint_q_head["INACTIVE"] \in Int /\ QLen \in Nat
  BY BoundsAssumption DEF StoreThread, TypeInv, TypeOK
<1>1. Len(got[u]) \in Nat
  BY LenGot
<1>2. i0 \in Slots
  <2>1. enq_idx[u] >= 0 /\ enq_idx[u] + Len(got[u]) <= pint_q_head["INACTIVE"]
    BY <1>0 DEF BatchInv, Storing, BatchEnd
  <2>2. pint_q_head["INACTIVE"] <= QLen
    BY DEF HeadOK
  <2> QED
    BY <1>0, <1>1, <2>1, <2>2 DEF Slots
<1>3. /\ pint_q_base'["ACTIVE"] = pint_q_base["ACTIVE"]
      /\ pint_q_base'["INACTIVE"] = [pint_q_base["INACTIVE"] EXCEPT ![i0] = l0]
      /\ pint_q_base["INACTIVE"] \in [Slots -> Tasks \cup {None}]
  BY DEF StoreThread, TypeInv, TypeOK
<1>4. OnActive(l)' = OnActive(l)
  BY <1>0, <1>3, ActiveKept
<1>5. /\ \A k \in Nat : Held(u, k)' <=> Held(u, k) /\ k # k0
      /\ Held(u, k0) /\ k0 \in Nat
  BY <1>0, <1>1 DEF Held
<1>6. \A v \in Units, k \in Nat : v # u => (Held(v, k)' <=> Held(v, k))
  BY OthersKept DEF Held
<1>7. ASSUME NEW x \in Units \X Nat
      PROVE  x \in InHand(l)' <=> x \in InHand(l) /\ x # <<u, k0>>
  <2>1. PICK v \in Units, k \in Nat : x = <<v, k>>
    OBVIOUS
  <2>2. x = <<u, k0>> <=> v = u /\ k = k0
    BY <2>1
  <2>3. x \in InHand(l)' <=> Held(v, k)' /\ got[v][k] = l
    BY <1>0, <2>1 DEF InHand
  <2>4. x \in InHand(l) <=> Held(v, k) /\ got[v][k] = l
    BY <2>1 DEF InHand
  <2> QED
    BY <1>5, <1>6, <2>2, <2>3, <2>4
<1>8. InHand(l)' = InHand(l) \ {<<u, k0>>}
  <2>1. InHand(l) \subseteq Units \X Nat /\ InHand(l)' \subseteq Units \X Nat
    BY DEF InHand
  <2> QED
    BY <1>7, <2>1
<1>9. <<u, k0>> \in InHand(l) <=> l = l0
  BY <1>5 DEF InHand
<1>10. \A i \in Slots : Stored(i)' <=> Stored(i) \/ i = i0
  <2> SUFFICES ASSUME NEW i \in Slots PROVE Stored(i)' <=> Stored(i) \/ i = i0
    OBVIOUS
  <2>1. i \in Int
    BY BoundsAssumption DEF Slots
  <2>2. \A v \in Units : v # u => Reserved(v)' = Reserved(v)
    BY OthersKept DEF Reserved
  <2>3. i \in Reserved(u) <=> i0 <= i /\ i < BatchEnd(u)
    BY <1>0, <1>1, <2>1 DEF Reserved, BatchEnd
  <2>4. i \in Reserved(u)' <=> i0 + 1 <= i /\ i < BatchEnd(u)
    BY <1>0, <1>1, <2>1, SMTT(30) DEF Reserved, BatchEnd
  <2>5. i0 < BatchEnd(u) /\ BatchEnd(u) <= pint_q_head["INACTIVE"] /\ enq_idx[u] <= i0
        /\ BatchEnd(u) \in Int
    BY <1>0, <1>1 DEF BatchInv, Storing, BatchEnd
  <2>6. ASSUME NEW v \in Units, v # u, i0 \in Reserved(v) PROVE FALSE
    <3>1. /\ Storing(v) /\ Storing(u)
          /\ BatchEnd(u) <= enq_idx[v] \/ BatchEnd(v) <= enq_idx[u]
      BY <1>0, <2>6 DEF Reserved, Storing, BatchInv
    <3>2. enq_idx[v] \in Int /\ stored[v] \in Nat /\ Len(got[v]) \in Nat
      BY LenGot DEF TypeInv, TypeOK
    <3>4. i0 \in enq_idx[v] + stored[v] .. enq_idx[v] + Len(got[v]) - 1
      BY <2>6, <3>1 DEF Reserved, Storing
    <3>3. enq_idx[v] <= i0 /\ i0 < BatchEnd(v)
      <4> HIDE DEF i0
      <4> QED
        BY <3>2, <3>4 DEF BatchEnd
    <3> QED
      BY <1>0, <1>1, <2>5, <3>1, <3>2, <3>3 DEF BatchEnd
  <2>7. CASE i = i0
    <3>1. Stored(i)'
      BY <1>0, <2>2, <2>4, <2>5, <2>6, <2>7 DEF Stored
    <3> QED
      BY <2>7, <3>1
  <2>8. CASE i # i0
    <3>1. i \in Reserved(u)' <=> i \in Reserved(u)
      BY <1>0, <2>1, <2>3, <2>4, <2>8
    <3>2. \A v \in Units : i \in Reserved(v)' <=> i \in Reserved(v)
      BY <2>2, <3>1
    <3> QED
      BY <1>0, <2>8, <3>2 DEF Stored
  <2> QED
    BY <2>7, <2>8
<1>11. ~ Stored(i0)
  <2>1. i0 \in Reserved(u)
    BY <1>0, <1>1 DEF Reserved
  <2> QED
    BY <2>1 DEF Stored
<1>12. ASSUME NEW i \in Slots
       PROVE  i \in OnInactive(l)' <=> i \in OnInactive(l) \/ (i = i0 /\ l = l0)
  <2>1. CASE i = i0
    <3>1. pint_q_base'["INACTIVE"][i] = l0
      BY <1>2, <1>3, <2>1
    <3> QED
      BY <1>10, <1>11, <2>1, <3>1 DEF OnInactive
  <2>2. CASE i # i0
    <3>1. pint_q_base'["INACTIVE"][i] = pint_q_base["INACTIVE"][i]
      BY <1>2, <1>3, <2>2
    <3> QED
      BY <1>10, <2>2, <3>1 DEF OnInactive
  <2> QED
    BY <2>1, <2>2
<1>13. OnInactive(l) \subseteq Slots /\ OnInactive(l)' \subseteq Slots
  BY DEF OnInactive
<1>14. l # l0 => OnInactive(l)' = OnInactive(l)
  BY <1>12, <1>13
<1>15. l = l0 => OnInactive(l)' = OnInactive(l) \cup {i0}
  BY <1>2, <1>12, <1>13
<1> QED
  BY <1>2, <1>4, <1>8, <1>9, <1>14, <1>15

\* Starting a phase moves no run: a lone thread is on its way to the mcore.
LEMMA StartRuns ==
    ASSUME TypeInv, StartParallel \/ RunSingle, NEW l
    PROVE  Same(l)
<1>0. /\ mc = "loop" /\ \A v \in Units : pc[v] = "off"
      /\ pint_q_head["ACTIVE"] \in Int /\ \A i \in Slots : i \in Int /\ i >= 0
  BY UnitIn, BoundsAssumption DEF StartParallel, RunSingle, TypeInv, PhaseOK, TypeOK, Slots
<1>1. /\ pint_q_head' = pint_q_head /\ pint_q_base' = pint_q_base
      /\ got' = got /\ stored' = stored /\ enq_idx' = enq_idx
      /\ \A v \in Units : pc'[v] # "store"
  BY <1>0 DEF StartParallel, RunSingle, qvars, TypeInv, TypeOK
<1>2. \A i \in Slots : Unstarted(i)' <=> Unstarted(i)
  <2>1. CASE StartParallel
    <3>1. mc' = "parallel" /\ \A v \in Units : pc'[v] \notin {"fetch", "clear"}
      BY <1>0, <2>1 DEF StartParallel
    <3> QED
      BY <1>0, <1>1, <3>1 DEF Unstarted
  <2>2. CASE RunSingle
    <3>1. /\ mc' = "single" /\ pint_q_head["ACTIVE"] = 1
          /\ pc'[Mcore] = "fetch" /\ deq_idx'[Mcore] = 1
          /\ \A v \in Units : v # Mcore => pc'[v] = "off"
      BY <1>0, <2>2, UnitIn DEF RunSingle, TypeInv, TypeOK
    <3>2. ASSUME NEW i \in Slots
          PROVE  (\E v \in Units : pc'[v] \in {"fetch", "clear"} /\ deq_idx'[v] = i + 1)
                 <=> i < 1
      BY <1>0, <3>1, UnitIn
    <3> QED
      BY <1>0, <3>1, <3>2 DEF Unstarted
  <2> QED
    BY <2>1, <2>2
<1>3. OnActive(l)' = OnActive(l)
  BY <1>1, <1>2, ActiveFrame
<1>4. \A v \in Units : Reserved(v)' = Reserved(v)
  BY <1>0, <1>1 DEF Reserved
<1>5. \A i \in Slots : Stored(i)' <=> Stored(i)
  BY <1>1, <1>4 DEF Stored
<1>6. OnInactive(l)' = OnInactive(l)
  BY <1>1, <1>5, InactiveFrame
<1>7. \A v \in Units, k \in Nat : Held(v, k)' <=> Held(v, k)
  BY <1>0, <1>1 DEF Held
<1>8. InHand(l)' = InHand(l)
  BY <1>1, <1>7, HandFrame
<1> QED
  BY <1>3, <1>6, <1>8 DEF Same

\* While all units are off nothing is reserved, in hand or being started.
LEMMA OffRuns ==
    ASSUME TypeInv, UnitsOK, \A v \in Units : pc[v] = "off", NEW l
    PROVE  /\ InHand(l) = {}
           /\ \A i \in Slots : Stored(i) <=> i < pint_q_head["INACTIVE"]
           /\ \A i \in Slots : Unstarted(i) <=> mc # "single" /\ i < pint_q_head["ACTIVE"]
<1>1. \A v \in Units : got[v] = <<>> /\ Reserved(v) = {}
  BY DEF UnitsOK, UnitOK, Reserved
<1>2. \A v \in Units, k \in Nat : ~ Held(v, k)
  BY <1>1 DEF Held
<1> QED
  BY <1>1, <1>2 DEF InHand, Stored, Unstarted

\* The swap makes the stored runs the ones to be started.
LEMMA SwapRuns ==
    ASSUME TypeInv, UnitsOK, UnitsOK', TypeInv', pint_swap_active_and_inactive_queue, NEW l
    PROVE  /\ OnActive(l)' = OnInactive(l) /\ OnInactive(l)' = {}
           /\ InHand(l) = {} /\ InHand(l)' = {}
<1>1. /\ \A v \in Units : pc[v] = "off" /\ pc'[v] = "off"
      /\ mc' = "loop"
      /\ pint_q_base'["ACTIVE"] = pint_q_base["INACTIVE"]
      /\ pint_q_head'["ACTIVE"] = pint_q_head["INACTIVE"]
      /\ pint_q_head'["INACTIVE"] = 0
  BY DEF pint_swap_active_and_inactive_queue, AllOff
<1>2. /\ InHand(l) = {}
      /\ \A i \in Slots : Stored(i) <=> i < pint_q_head["INACTIVE"]
  BY <1>1, OffRuns
<1>3. \A v \in Units : got'[v] = <<>> /\ Reserved(v)' = {}
  BY <1>1 DEF UnitsOK, UnitOK, Reserved
<1>4. InHand(l)' = {}
  BY <1>3 DEF InHand, Held
<1>5. \A i \in Slots : Unstarted(i)' <=> i < pint_q_head["INACTIVE"]
  BY <1>1 DEF Unstarted
<1>6. \A i \in Slots : ~ Stored(i)'
  BY <1>1, BoundsAssumption DEF Stored, Slots
<1> QED
  BY <1>1, <1>2, <1>4, <1>5, <1>6 DEF OnActive, OnInactive

\* The processes that a new time wakes are no LPMs.
LEMMA TimeRuns ==
    ASSUME TypeInv, UnitsOK, NextTime, NEW l
    PROVE  OnInactive(l)' = OnInactive(l) /\ (l \in Lpms => Same(l) /\ OnActive(l) = {})
<1>0. /\ mc = "loop" /\ pint_q_head["ACTIVE"] = 0 /\ \A v \in Units : pc[v] = "off"
      /\ \A i \in Slots : i \in Int /\ i >= 0
  BY UnitIn, BoundsAssumption DEF NextTime, TypeInv, PhaseOK, Slots
<1>1. PICK ps \in SUBSET Procs \ {{}} : \E q \in Filled(ps) :
         pint_q_base' = [pint_q_base EXCEPT !["ACTIVE"] = q]
  BY DEF NextTime
<1>2. PICK q \in Filled(ps) : pint_q_base' = [pint_q_base EXCEPT !["ACTIVE"] = q]
  BY <1>1
<1>3. /\ pint_q_base'["INACTIVE"] = pint_q_base["INACTIVE"]
      /\ pint_q_base'["ACTIVE"] = q
      /\ pint_q_head'["INACTIVE"] = pint_q_head["INACTIVE"]
      /\ pc' = pc /\ got' = got /\ stored' = stored /\ enq_idx' = enq_idx
  BY <1>2 DEF NextTime, uvars, TypeInv, TypeOK
<1>4. OnActive(l) = {}
  BY <1>0, OffRuns DEF OnActive
<1>5. l \in Lpms => OnActive(l)' = {}
  <2>1. l \in Lpms => \A i \in Slots : q[i] # l
    BY <1>1, <1>2, TasksAssumption DEF Filled, Tasks
  <2> QED
    BY <1>3, <2>1 DEF OnActive
<1>6. \A v \in Units : Reserved(v)' = Reserved(v)
  BY <1>3 DEF Reserved
<1>7. \A i \in Slots : Stored(i)' <=> Stored(i)
  BY <1>3, <1>6 DEF Stored
<1>8. OnInactive(l)' = OnInactive(l)
  BY <1>3, <1>7, InactiveFrame
<1>9. \A v \in Units, k \in Nat : Held(v, k)' <=> Held(v, k)
  BY <1>3 DEF Held
<1>10. InHand(l)' = InHand(l)
  BY <1>3, <1>9, HandFrame
<1> QED
  BY <1>4, <1>5, <1>8, <1>10 DEF Same

\* Every step keeps what a unit knows of its thread and its batch.
LEMMA UnitsStep ==
    ASSUME TypeInv, TypeInv', ~ Overrun', UnitsOK, HeadOK, [Next]_vars
    PROVE  UnitsOK'
<1>0. QLen \in Nat /\ pint_q_head["ACTIVE"] \in Int
  BY BoundsAssumption DEF TypeInv, TypeOK
<1>1. CASE StartParallel
  <2>1. \A v \in Units : pc'[v] \in {"off", "dequeue"} /\ got'[v] = <<>>
    BY <1>1, UnitIn DEF StartParallel, TypeInv, PhaseOK, UnitsOK, UnitOK
  <2> QED
    BY <2>1 DEF UnitsOK, UnitOK
<1>2. CASE RunSingle
  <2>1. /\ pc'[Mcore] = "fetch" /\ deq_idx'[Mcore] = 1
        /\ pint_q_base' = pint_q_base /\ pint_q_head["ACTIVE"] = 1
        /\ \A v \in Units : v # Mcore => pc'[v] = "off"
        /\ \A v \in Units : got'[v] = <<>>
    BY <1>2, UnitIn DEF RunSingle, TypeInv, TypeOK, PhaseOK, UnitsOK, UnitOK, qvars
  <2>2. 0 \in Slots /\ pint_q_base["ACTIVE"][0] # None
    BY <1>0, <2>1 DEF HeadOK, Slots
  <2> QED
    BY <2>1, <2>2 DEF UnitsOK, UnitOK
<1>3. CASE pint_swap_active_and_inactive_queue
  <2>1. \A v \in Units : pc'[v] = "off" /\ got'[v] = <<>>
    BY <1>3 DEF pint_swap_active_and_inactive_queue, AllOff, UnitsOK, UnitOK
  <2> QED
    BY <2>1 DEF UnitsOK, UnitOK
<1>4. CASE NextTime
  <2>1. \A v \in Units : pc'[v] = "off" /\ got'[v] = <<>>
    BY <1>4, UnitIn DEF NextTime, uvars, TypeInv, PhaseOK, UnitsOK, UnitOK
  <2> QED
    BY <2>1 DEF UnitsOK, UnitOK
<1>5. ASSUME NEW u \in Units, UnitStep(u) PROVE UnitsOK'
  <2>0. pint_q_base'["ACTIVE"] = pint_q_base["ACTIVE"]
    BY <1>5 DEF UnitStep, pint_dequeue_thread, FetchThread, pint_enqueue_flag_clear,
       ReadSignal, DriveSignal, WriteCompletes, pint_wait_write_done, ClaimThread,
       ReserveSlots, StoreThread, ReturnThread, qvars, TypeInv, TypeOK
  <2>1. \A v \in Units : v # u => UnitOK(v)'
    BY <1>5, <2>0, OthersKept DEF UnitsOK, UnitOK
  <2>2. UnitOK(u)
    BY DEF UnitsOK
  <2>3. CASE u \in Cores /\ pint_dequeue_thread(u)
    <3>1. /\ pc[u] = "dequeue" /\ got'[u] = got[u]
          /\ deq_idx'[u] = pint_q_head["ACTIVE"]
          /\ pc'[u] = IF pint_q_head["ACTIVE"] > 0 THEN "fetch" ELSE "off"
      BY <2>3 DEF pint_dequeue_thread, TypeInv, TypeOK
    <3>2. pint_q_head["ACTIVE"] > 0 =>
             /\ pint_q_head["ACTIVE"] - 1 \in Slots
             /\ pint_q_base["ACTIVE"][pint_q_head["ACTIVE"] - 1] # None
      BY <1>0 DEF HeadOK, Slots
    <3>3. UnitOK(u)'
      BY <2>0, <2>2, <3>1, <3>2 DEF UnitOK
    <3> QED
      BY <2>1, <3>3 DEF UnitsOK
  <2>4. CASE FetchThread(u)
    <3>1. /\ pc[u] = "fetch" /\ deq_idx[u] - 1 \in Slots
          /\ pint_q_base["ACTIVE"][deq_idx[u] - 1] # None
      BY <2>2, <2>4 DEF FetchThread, UnitOK
    <3>2. /\ cur'[u] = pint_q_base["ACTIVE"][deq_idx[u] - 1]
          /\ pc'[u] = IF cur'[u] \in Lpms THEN "clear" ELSE "read"
          /\ deq_idx' = deq_idx /\ got' = got
      BY <2>4, <3>1 DEF FetchThread, TypeInv, TypeOK
    <3>3. UnitOK(u)'
      BY <2>0, <2>2, <3>1, <3>2 DEF UnitOK
    <3> QED
      BY <2>1, <3>3 DEF UnitsOK
  <2>5. CASE pint_enqueue_flag_clear(u)
    <3>1. pc[u] = "clear" /\ pc'[u] = "read" /\ got' = got
      BY <2>5 DEF pint_enqueue_flag_clear, TypeInv, TypeOK
    <3>2. UnitOK(u)'
      BY <2>2, <3>1 DEF UnitOK
    <3> QED
      BY <2>1, <3>2 DEF UnitsOK
  <2>6. CASE ReadSignal(u)
    <3>1. UnitOK(u)'
      BY <2>0, <2>2, <2>6 DEF UnitOK, ReadSignal
    <3> QED
      BY <2>1, <3>1 DEF UnitsOK
  <2>7. CASE DriveSignal(u)
    <3>4. pc[u] = "read" /\ wbuf[u] = None /\ cur' = cur
      BY <2>7 DEF DriveSignal, TypeInv, TypeOK, WbufOK
    <3>5. got'[u] = <<>> /\ pos'[u] = 1 /\ stored'[u] = 0
      BY <2>7 DEF DriveSignal, TypeInv, TypeOK
    <3>6. pc'[u] \in {"return", "wait"}
      BY <2>7 DEF DriveSignal, TypeInv, TypeOK
    <3>1. /\ pc[u] = "read" /\ wbuf[u] = None /\ cur' = cur
          /\ pc'[u] \in {"return", "wait"} /\ got'[u] = <<>> /\ pos'[u] = 1
          /\ stored'[u] = 0
      BY <3>4, <3>5, <3>6
    <3>2. pc'[u] = "return" /\ wbuf'[u] # None => Fanout[cur[u]] = <<>>
      BY <2>7, <3>1 DEF DriveSignal, TypeInv, TypeOK
    <3>3. UnitOK(u)'
      BY <3>1, <3>2 DEF UnitOK
    <3> QED
      BY <2>1, <3>3 DEF UnitsOK
  <2>8. CASE WriteCompletes(u)
    <3>1. /\ wbuf'[u] = None /\ pc' = pc /\ got' = got /\ stored' = stored
          /\ pos' = pos /\ deq_idx' = deq_idx /\ cur' = cur
      BY <2>8 DEF WriteCompletes, TypeInv, TypeOK
    <3>2. UnitOK(u)'
      BY <2>0, <2>2, <3>1 DEF UnitOK
    <3> QED
      BY <2>1, <3>2 DEF UnitsOK
  <2>9. CASE pint_wait_write_done(u)
    <3>1. pc[u] = "wait" /\ pc'[u] = "claim" /\ stored' = stored
      BY <2>9 DEF pint_wait_write_done, TypeInv, TypeOK
    <3>2. UnitOK(u)'
      BY <2>2, <3>1 DEF UnitOK
    <3> QED
      BY <2>1, <3>2 DEF UnitsOK
  <2>10. CASE ClaimThread(u)
    <3>1. pc[u] = "claim" /\ pc' = pc /\ stored' = stored
      BY <2>10 DEF ClaimThread
    <3>2. UnitOK(u)'
      BY <2>2, <3>1 DEF UnitOK
    <3> QED
      BY <2>1, <3>2 DEF UnitsOK
  <2>11. CASE ReserveSlots(u)
    <3>1. pc[u] = "claim" /\ pc'[u] = "store" /\ stored' = stored /\ got' = got
      BY <2>11, ReserveStores DEF ReserveSlots
    <3>2. UnitOK(u)'
      BY <2>2, <3>1, LenGot DEF UnitOK
    <3> QED
      BY <2>1, <3>2 DEF UnitsOK
  <2>12. CASE StoreThread(u)
    <3>1. /\ pc[u] = "store" /\ pc' = pc /\ stored'[u] = stored[u] + 1 /\ got' = got
          /\ stored[u] < Len(got[u]) /\ stored[u] \in Nat
      BY <2>12 DEF StoreThread, TypeInv, TypeOK
    <3>2. UnitOK(u)'
      BY <2>2, <3>1, LenGot DEF UnitOK
    <3> QED
      BY <2>1, <3>2 DEF UnitsOK
  <2>13. CASE ReturnThread(u)
    <3>1. pc'[u] \in {"dequeue", "off"} /\ got'[u] = <<>>
      BY <2>13 DEF ReturnThread, TypeInv, TypeOK
    <3>2. UnitOK(u)'
      BY <3>1 DEF UnitOK
    <3> QED
      BY <2>1, <3>2 DEF UnitsOK
  <2> QED
    BY <1>5, <2>3, <2>4, <2>5, <2>6, <2>7, <2>8, <2>9, <2>10, <2>11, <2>12, <2>13 DEF UnitStep
<1>6. CASE UNCHANGED vars
  BY <1>6 DEF vars, qvars, uvars, UnitsOK, UnitOK
<1> QED
  BY <1>1, <1>2, <1>3, <1>4, <1>5, <1>6 DEF Next, MainStep

\* Facts on sets with at most one or two elements.
LEMMA FewRemoved ==
    ASSUME NEW S, NEW R, NEW e \in S, TwoOf(S), R \subseteq S \ {e}
    PROVE  OneOf(R)
BY DEF OneOf, TwoOf

\* Adding a run to at most one leaves at most two.
LEMMA FewAdded ==
    ASSUME NEW S, NEW R, NEW e, OneOf(S), R \subseteq S \cup {e}
    PROVE  TwoOf(R)
BY DEF OneOf, TwoOf

\* Moving a run keeps their number.
LEMMA FewMoved ==
    ASSUME NEW S, NEW R, NEW e \in S, NEW f, R \subseteq (S \ {e}) \cup {f}
    PROVE  (OneOf(S) => OneOf(R)) /\ (TwoOf(S) => TwoOf(R))
BY DEF OneOf, TwoOf

\* A step that moves no run keeps their number.
LEMMA CountKept ==
    ASSUME CountOK, \A l \in Lpms : Same(l), pint_enqueue_flag' = pint_enqueue_flag,
           \A p \in Procs : OnInactive(p)' = OnInactive(p)
    PROVE  CountOK'
<1>1. \A l \in Lpms : Runs(l)' = Runs(l)
  BY DEF Runs, Same
<1> QED
  BY <1>1 DEF CountOK

\* Every step leaves at most two runs of an LPM to come, and one while its bit
\* is clear.
LEMMA CountStep ==
    ASSUME TypeInv, TypeInv', ~ Overrun', UnitsOK, UnitsOK', DispatchInv, BatchInv, HeadOK, CountOK,
           [Next]_vars
    PROVE  CountOK'
<1>1. CASE StartParallel \/ RunSingle
  <2>1. \A l : Same(l)
    BY <1>1, StartRuns
  <2>2. pint_enqueue_flag' = pint_enqueue_flag
    BY <1>1 DEF StartParallel, RunSingle
  <2> QED
    BY <2>1, <2>2, CountKept DEF Same
<1>3. CASE pint_swap_active_and_inactive_queue
  <2>1. \A l : /\ OnActive(l)' = OnInactive(l) /\ OnInactive(l)' = {}
               /\ InHand(l)' = {}
    BY <1>3, SwapRuns
  <2>2. ASSUME NEW l \in Lpms
        PROVE  /\ OneOf(Runs(l)) => OneOf(Runs(l))'
               /\ TwoOf(Runs(l)) => TwoOf(Runs(l))'
    <3>1. \A i \in OnInactive(l) : <<"inactive", i>> \in Runs(l)
      BY DEF Runs
    <3>2. Runs(l)' = {"active"} \X OnInactive(l)
      BY <2>1 DEF Runs
    <3>3. ASSUME OneOf(Runs(l)) PROVE OneOf(Runs(l))'
      <4>1. \A i, j \in OnInactive(l) : i = j
        BY <3>1, <3>3 DEF OneOf
      <4>2. OneOf({"active"} \X OnInactive(l))
        BY <4>1 DEF OneOf
      <4> QED
        BY <3>2, <4>2
    <3>4. ASSUME TwoOf(Runs(l)) PROVE TwoOf(Runs(l))'
      <4>1. \A i, j, k \in OnInactive(l) : i = j \/ j = k \/ i = k
        BY <3>1, <3>4 DEF TwoOf
      <4>2. TwoOf({"active"} \X OnInactive(l))
        BY <4>1 DEF TwoOf
      <4> QED
        BY <3>2, <4>2
    <3> QED
      BY <3>3, <3>4
  <2>4. pint_enqueue_flag' = pint_enqueue_flag
    BY <1>3 DEF pint_swap_active_and_inactive_queue
  <2>5. \A p \in Procs : OneOf(OnInactive(p))'
    BY <2>1 DEF OneOf
  <2> QED
    BY <2>2, <2>4, <2>5 DEF CountOK
<1>4. CASE NextTime
  <2>1. \A l : OnInactive(l)' = OnInactive(l) /\ (l \in Lpms => Same(l))
    BY <1>4, TimeRuns
  <2>2. pint_enqueue_flag' = pint_enqueue_flag
    BY <1>4 DEF NextTime
  <2> QED
    BY <2>1, <2>2, CountKept
<1>5. ASSUME NEW u \in Units, UnitStep(u) PROVE CountOK'
  <2>3. CASE u \in Cores /\ pint_dequeue_thread(u)
    <3>1. \A l : Same(l)
      BY <1>5, <2>3, DequeueRuns
    <3>2. pint_enqueue_flag' = pint_enqueue_flag
      BY <2>3 DEF pint_dequeue_thread
    <3> QED
      BY <3>1, <3>2, CountKept DEF Same
  <2>4. CASE FetchThread(u)
    <3>1. \A l : OnInactive(l)' = OnInactive(l) /\ (l \in Lpms => Same(l))
      BY <1>5, <2>4, FetchRuns
    <3>2. pint_enqueue_flag' = pint_enqueue_flag
      BY <2>4 DEF FetchThread
    <3> QED
      BY <3>1, <3>2, CountKept
  <2>5. CASE pint_enqueue_flag_clear(u)
    <3>1. \A l : /\ OnInactive(l)' = OnInactive(l) /\ InHand(l)' = InHand(l)
                 /\ OnActive(l)' = OnActive(l) \ {deq_idx[u] - 1}
                 /\ l = cur[u] => deq_idx[u] - 1 \in OnActive(l)
                 /\ l # cur[u] => OnActive(l)' = OnActive(l)
      BY <1>5, <2>5, ClearRuns
    <3>2. pint_enqueue_flag' = pint_enqueue_flag \ {cur[u]} /\ cur[u] \in Lpms
      BY <2>5 DEF pint_enqueue_flag_clear, UnitsOK, UnitOK
    <3>3. \A l \in Lpms : l # cur[u] => Runs(l)' = Runs(l)
      BY <3>1 DEF Runs
    <3>4. ASSUME NEW l \in Lpms, l = cur[u] PROVE OneOf(Runs(l))'
      <4> DEFINE e == <<"active", deq_idx[u] - 1>>
      <4>1. e \in Runs(l)
        BY <3>1, <3>4 DEF Runs
      <4>2. Runs(l)' = ({"active"} \X (OnActive(l) \ {deq_idx[u] - 1}))
                        \cup ({"inactive"} \X OnInactive(l)) \cup ({"hand"} \X InHand(l))
        BY <3>1 DEF Runs
      <4>3. Runs(l)' \subseteq Runs(l) \ {e}
        BY <4>2 DEF Runs
      <4>4. TwoOf(Runs(l))
        BY DEF CountOK
      <4> QED
        BY <4>1, <4>3, <4>4, FewRemoved
    <3>5. \A l \in Lpms : l = cur[u] => OneOf(Runs(l))' /\ TwoOf(Runs(l))'
      <4>1. \A R : OneOf(R) => TwoOf(R)
        BY DEF OneOf, TwoOf
      <4> QED
        BY <3>4, <4>1
    <3> QED
      BY <3>1, <3>2, <3>3, <3>5 DEF CountOK
  <2>6. CASE \/ ReadSignal(u) \/ DriveSignal(u) \/ WriteCompletes(u)
             \/ pint_wait_write_done(u) \/ ReturnThread(u)
    <3>1. \A l : Same(l)
      BY <1>5, <2>6, QuietRuns
    <3>2. pint_enqueue_flag' = pint_enqueue_flag
      BY <2>6 DEF ReadSignal, DriveSignal, WriteCompletes, pint_wait_write_done, ReturnThread
    <3> QED
      BY <3>1, <3>2, CountKept DEF Same
  <2>7. CASE ClaimThread(u)
    <3> DEFINE l0 == Fanout[cur[u]][pos[u]]
    <3>1. \A l : /\ OnActive(l)' = OnActive(l) /\ OnInactive(l)' = OnInactive(l)
                 /\ l # l0 \/ l \in pint_enqueue_flag => InHand(l)' = InHand(l)
                 /\ l = l0 /\ l \notin pint_enqueue_flag
                    => InHand(l)' = InHand(l) \cup {<<u, Len(got[u]) + 1>>}
      BY <1>5, <2>7, ClaimRuns
    <3>2. pint_enqueue_flag' = pint_enqueue_flag \cup {l0}
      BY <2>7 DEF ClaimThread
    <3> HIDE DEF l0
    <3>3. ASSUME NEW l \in Lpms, l # l0 \/ l \in pint_enqueue_flag
          PROVE  TwoOf(Runs(l))' /\ (l \notin pint_enqueue_flag' => OneOf(Runs(l))')
      <4>1. Runs(l)' = Runs(l)
        BY <3>1, <3>3 DEF Runs
      <4> QED
        BY <3>2, <3>3, <4>1 DEF CountOK
    <3>4. ASSUME NEW l \in Lpms, l = l0, l \notin pint_enqueue_flag
          PROVE  TwoOf(Runs(l))'
      <4>1. Runs(l)' \subseteq Runs(l) \cup {<<"hand", <<u, Len(got[u]) + 1>> >>}
        BY <3>1, <3>4 DEF Runs
      <4>2. OneOf(Runs(l))
        BY <3>4 DEF CountOK
      <4> QED
        BY <4>1, <4>2, FewAdded
    <3>5. \A p \in Procs : OneOf(OnInactive(p))'
      BY <3>1 DEF CountOK
    <3> QED
      BY <3>2, <3>3, <3>4, <3>5 DEF CountOK
  <2>8. CASE ReserveSlots(u)
    <3>1. \A l : Same(l)
      BY <1>5, <2>8, ReserveRuns
    <3>2. pint_enqueue_flag' = pint_enqueue_flag
      BY <2>8 DEF ReserveSlots
    <3> QED
      BY <3>1, <3>2, CountKept DEF Same
  <2>9. CASE StoreThread(u)
    <3> DEFINE k0 == stored[u] + 1
               i0 == enq_idx[u] + stored[u]
               l0 == got[u][k0]
    <3>1. \A l : /\ OnActive(l)' = OnActive(l)
                 /\ InHand(l)' = InHand(l) \ {<<u, k0>>}
                 /\ l # l0 => OnInactive(l)' = OnInactive(l) /\ InHand(l)' = InHand(l)
                 /\ l = l0 =>
                      /\ OnInactive(l)' = OnInactive(l) \cup {i0}
                      /\ <<u, k0>> \in InHand(l)
      BY <1>5, <2>9, StoreRuns
    <3>2. pint_enqueue_flag' = pint_enqueue_flag
      BY <2>9 DEF StoreThread
    <3>3. l0 \in Lpms
      BY <2>9 DEF StoreThread, TypeInv, TypeOK
    <3> HIDE DEF l0, k0, i0
    <3>4. \A l \in Lpms : l # l0 => Runs(l)' = Runs(l)
      BY <3>1 DEF Runs
    <3>5. ASSUME NEW l \in Lpms, l = l0
          PROVE  /\ OneOf(Runs(l)) => OneOf(Runs(l))'
                 /\ TwoOf(Runs(l)) => TwoOf(Runs(l))'
      <4>1. <<"hand", <<u, k0>> >> \in Runs(l)
        BY <3>1, <3>5 DEF Runs
      <4>2. Runs(l)' = ({"active"} \X OnActive(l)) \cup ({"inactive"} \X (OnInactive(l) \cup {i0}))
                        \cup ({"hand"} \X (InHand(l) \ {<<u, k0>>}))
        BY <3>1, <3>5 DEF Runs
      <4>3. Runs(l)' \subseteq (Runs(l) \ {<<"hand", <<u, k0>> >>}) \cup {<<"inactive", i0>>}
        BY <4>2 DEF Runs
      <4> QED
        BY <4>1, <4>3, FewMoved
    <3>6. \A p \in Procs : OnInactive(p)' = OnInactive(p)
      BY <3>1, <3>3, TasksAssumption
    <3> QED
      BY <3>2, <3>4, <3>5, <3>6 DEF CountOK
  <2> QED
    BY <1>5, <2>3, <2>4, <2>5, <2>6, <2>7, <2>8, <2>9 DEF UnitStep
<1>6. CASE UNCHANGED vars
  <2>1. \A l : Same(l)
    BY <1>6 DEF vars, qvars, uvars, Same, OnActive, Unstarted, OnInactive, Stored,
       Reserved, InHand, Held
  <2>2. pint_enqueue_flag' = pint_enqueue_flag
    BY <1>6 DEF vars
  <2> QED
    BY <2>1, <2>2, CountKept DEF Same
<1> QED
  BY <1>1, <1>3, <1>4, <1>5, <1>6 DEF Next, MainStep

\* Slots that hold every process at most once and every LPM at most twice fit the
\* queue array.
LEMMA SlotsFit ==
    ASSUME LongEnough, NEW n \in Nat, NEW who \in [0 .. n - 1 -> Tasks],
           \A i, j \in 0 .. n - 1 : who[i] = who[j] /\ who[i] \in Procs => i = j,
           \A i, j, k \in 0 .. n - 1 :
              who[i] = who[j] /\ who[j] = who[k] /\ who[i] \in Lpms => i = j \/ j = k \/ i = k
    PROVE  n <= QLen
<1> DEFINE D == 0 .. n - 1
           Again(i) == \E j \in D : j < i /\ who[j] = who[i]
           P == Procs \X {1}
           L == Lpms \X {1, 2}
           f == [i \in D |-> <<who[i], IF who[i] \in Lpms /\ Again(i) THEN 2 ELSE 1>>]
<1>0. IsFiniteSet(Procs) /\ IsFiniteSet(Lpms) /\ Procs \cap Lpms = {}
  BY TasksAssumption
<1>1. IsFiniteSet({1}) /\ Cardinality({1}) = 1
  BY FS_Singleton
<1>2. IsFiniteSet({1, 2}) /\ Cardinality({1, 2}) = 2
  <2>1. {1, 2} = 1 .. 2
    OBVIOUS
  <2>2. 1 \in Int /\ 2 \in Int
    OBVIOUS
  <2>3. IsFiniteSet(1 .. 2) /\ Cardinality(1 .. 2) = IF 1 > 2 THEN 0 ELSE 2 - 1 + 1
    BY <2>2, FS_Interval, Zenon
  <2> QED
    BY <2>1, <2>3
<1>3. /\ Cardinality(Procs) \in Nat /\ Cardinality(Lpms) \in Nat /\ QLen \in Nat
  BY <1>0, FS_CardinalityType, BoundsAssumption
<1>4. IsFiniteSet(P) /\ Cardinality(P) = Cardinality(Procs)
  BY <1>0, <1>1, <1>3, FS_Product
<1>5. IsFiniteSet(L) /\ Cardinality(L) = 2 * Cardinality(Lpms)
  <2>1. IsFiniteSet(L) /\ Cardinality(L) = Cardinality(Lpms) * 2
    BY <1>0, <1>2, FS_Product
  <2> QED
    BY <1>3, <2>1
<1>6. IsFiniteSet(P \cup L) /\ Cardinality(P \cup L) <= QLen
  <2>1. P \cap L = {}
    BY <1>0
  <2>2. Cardinality({}) = 0
    BY FS_EmptySet
  <2>3. /\ IsFiniteSet(P \cup L)
        /\ Cardinality(P \cup L) = Cardinality(P) + Cardinality(L) - Cardinality(P \cap L)
    BY <1>4, <1>5, FS_Union
  <2>4. Cardinality(P \cap L) = 0
    BY <2>1, <2>2
  <2> HIDE DEF P, L
  <2> QED
    BY <1>3, <1>4, <1>5, <2>3, <2>4 DEF LongEnough
<1>7. IsFiniteSet(D) /\ Cardinality(D) = n
  <2>1. IsFiniteSet(D) /\ Cardinality(D) = IF 0 > n - 1 THEN 0 ELSE (n - 1) - 0 + 1
    BY FS_Interval
  <2> QED
    BY <2>1
<1>8. f \in [D -> P \cup L]
  <2>1. ASSUME NEW i \in D PROVE f[i] \in P \cup L
    <3>1. who[i] \in Procs \/ who[i] \in Lpms
      BY DEF Tasks
    <3> QED
      BY <1>0, <3>1
  <2> QED
    BY <2>1
<1>9. SUFFICES ASSUME n > QLen PROVE FALSE
  BY <1>3
<1>10. Cardinality(P \cup L) \in Nat
  BY <1>6, FS_CardinalityType
<1>11. Cardinality(P \cup L) < Cardinality(D)
  BY <1>3, <1>6, <1>7, <1>9, <1>10
<1> HIDE DEF P, L
<1>12. PICK x, y \in D : x # y /\ f[x] = f[y]
  <2> HIDE DEF D, f
  <2>1. \E x, y \in D : x # y /\ f[x] = f[y]
    BY <1>6, <1>7, <1>8, <1>11, FS_PigeonHole
  <2> QED
    BY <2>1
<1>13. ASSUME NEW i \in D, NEW j \in D, i < j, f[i] = f[j] PROVE FALSE
  <2>1. who[i] = who[j]
    BY <1>13
  <2>2. who[i] \in Lpms
    BY <1>13, <2>1 DEF Tasks
  <2>3. f[j][2] = 2
    BY <1>13, <2>1, <2>2
  <2>4. f[i][2] = 2
    BY <1>13, <2>3
  <2>5. Again(i)
    BY <2>4
  <2>6. PICK h \in D : h < i /\ who[h] = who[i]
    BY <2>5
  <2> QED
    BY <1>13, <2>1, <2>2, <2>6
<1> QED
  BY <1>12, <1>13

\* Slots that hold every process and every LPM at most once fit it too: that is
\* what thread_q_len counts.
LEMMA SlotsFitOnce ==
    ASSUME NEW n \in Nat, NEW who \in [0 .. n - 1 -> Tasks],
           \A i, j \in 0 .. n - 1 : who[i] = who[j] => i = j
    PROVE  n <= QLen
<1> DEFINE D == 0 .. n - 1
<1>0. IsFiniteSet(Procs) /\ IsFiniteSet(Lpms) /\ Procs \cap Lpms = {}
  BY TasksAssumption
<1>1. /\ Cardinality(Procs) \in Nat /\ Cardinality(Lpms) \in Nat
      /\ QLen \in Nat /\ QLen >= Cardinality(Procs) + Cardinality(Lpms)
  BY <1>0, FS_CardinalityType, BoundsAssumption
<1>2. IsFiniteSet(Tasks) /\ Cardinality(Tasks) <= QLen /\ Cardinality(Tasks) \in Nat
  <2>1. Tasks = Lpms \cup Procs
    BY DEF Tasks
  <2>2. Lpms \cap Procs = {} /\ Cardinality({}) = 0
    BY <1>0, FS_EmptySet
  <2>3. /\ IsFiniteSet(Lpms \cup Procs)
        /\ Cardinality(Lpms \cup Procs)
             = Cardinality(Lpms) + Cardinality(Procs) - Cardinality(Lpms \cap Procs)
    BY <1>0, FS_Union
  <2>4. Cardinality(Lpms \cap Procs) = 0
    BY <2>2
  <2>5. Cardinality(Tasks) = Cardinality(Lpms) + Cardinality(Procs)
    BY <1>1, <2>1, <2>3, <2>4
  <2> QED
    BY <1>1, <2>1, <2>3, <2>5
<1>3. IsFiniteSet(D) /\ Cardinality(D) = n
  <2>1. IsFiniteSet(D) /\ Cardinality(D) = IF 0 > n - 1 THEN 0 ELSE (n - 1) - 0 + 1
    BY FS_Interval
  <2> QED
    BY <2>1
<1>4. SUFFICES ASSUME n > QLen PROVE FALSE
  BY <1>1
<1>5. Cardinality(Tasks) < Cardinality(D)
  BY <1>1, <1>2, <1>3, <1>4
<1>6. \E x, y \in D : x # y /\ who[x] = who[y]
  <2> HIDE DEF D
  <2> QED
    BY <1>2, <1>3, <1>5, FS_PigeonHole DEF D
<1> QED
  BY <1>6

\* The arrangements of a set fill their slots, each member in one of them.
LEMMA FilledFull ==
    ASSUME NEW set, IsFiniteSet(set), None \notin set, Cardinality(set) <= QLen,
           NEW q \in Filled(set)
    PROVE  /\ \A i \in Slots : i < Cardinality(set) => q[i] \in set
           /\ \A i, j \in Slots : q[i] = q[j] /\ q[i] \in set => i = j
           /\ \A t \in set : \E i \in Slots : i < Cardinality(set) /\ q[i] = t
<1> DEFINE c == Cardinality(set)
           D == 0 .. c - 1
<1>0. c \in Nat /\ QLen \in Nat
  BY FS_CardinalityType, BoundsAssumption
<1>1. D \subseteq Slots /\ \A i \in Slots : i \in Int /\ (i < c <=> i \in D)
  BY <1>0 DEF Slots
<1>2. /\ q \in [Slots -> set \cup {None}]
      /\ \A t \in set : \E i \in D : q[i] = t
      /\ \A i \in Slots : i >= c => q[i] = None
  BY DEF Filled
<1>3. IsFiniteSet(D) /\ Cardinality(D) = c
  <2>0. 0 \in Int /\ c - 1 \in Int
    BY <1>0
  <2>1. IsFiniteSet(D) /\ Cardinality(D) = IF 0 > c - 1 THEN 0 ELSE (c - 1) - 0 + 1
    BY <2>0, FS_Interval, Zenon
  <2> QED
    BY <1>0, <2>1
<1>4. ASSUME NEW h \in D, \A t \in set : \E i \in D \ {h} : q[i] = t PROVE FALSE
  <2> DEFINE g == [t \in set |-> CHOOSE i \in D \ {h} : q[i] = t]
             R == D \ {h}
  <2>1. \A t \in set : g[t] \in R /\ q[g[t]] = t
    BY <1>4
  <2>2. g \in [set -> R]
    BY <2>1
  <2>3. IsFiniteSet(R) /\ Cardinality(R) = c - 1
    <3>1. IsFiniteSet(R) /\ Cardinality(R) = IF h \in D THEN Cardinality(D) - 1 ELSE Cardinality(D)
      BY <1>3, FS_RemoveElement
    <3> QED
      BY <1>3, <3>1
  <2>4. Cardinality(R) < Cardinality(set)
    BY <1>0, <2>3
  <2>5. \E x, y \in set : x # y /\ g[x] = g[y]
    <3> HIDE DEF g, R
    <3> QED
      BY <2>2, <2>3, <2>4, FS_PigeonHole
  <2> QED
    BY <2>1, <2>5
<1>5. ASSUME NEW i \in D PROVE q[i] \in set
  <2>1. SUFFICES ASSUME q[i] = None PROVE FALSE
    BY <1>1, <1>2
  <2>2. \A t \in set : \E k \in D \ {i} : q[k] = t
    BY <1>2, <2>1
  <2> QED
    BY <1>4, <2>2
<1>6. ASSUME NEW i \in D, NEW j \in D, q[i] = q[j], i # j PROVE FALSE
  <2>1. \A t \in set : \E k \in D \ {j} : q[k] = t
    BY <1>2, <1>6
  <2> QED
    BY <1>4, <2>1
<1>7. ASSUME NEW i \in Slots, q[i] \in set PROVE i \in D
  BY <1>0, <1>1, <1>2, <1>7
<1> QED
  BY <1>1, <1>2, <1>5, <1>6, <1>7

\* The batch a unit has claimed fits behind the INACTIVE entries, if there is a
\* second slot for every LPM or no LPM has a second run to come.
LEMMA ReserveFits ==
    ASSUME LongEnough \/ \A l \in Lpms : OneOf(Runs(l)), TypeInv, UnitsOK, BatchInv, HeadOK, CountOK,
           NEW u \in Units, pc[u] = "claim"
    PROVE  pint_q_head["INACTIVE"] + Len(got[u]) <= QLen
<1> DEFINE H == pint_q_head["INACTIVE"]
           n == H + Len(got[u])
           D == 0 .. n - 1
           At(r, i) ==
              \/ i >= H /\ r = <<"hand", <<u, i - H + 1>> >>
              \/ /\ i < H
                 /\ \E v \in Units : i \in Reserved(v) /\ r = <<"hand", <<v, i - enq_idx[v] + 1>> >>
              \/ i < H /\ Stored(i) /\ r = <<"inactive", i>>
           Good(i, t) ==
              \/ t \in Lpms /\ \E r \in Runs(t) : At(r, i)
              \/ t \in Procs /\ i \in OnInactive(t)
<1>0. /\ H \in Nat /\ Len(got[u]) \in Nat /\ QLen \in Nat /\ H <= QLen
      /\ \A v \in Units : /\ enq_idx[v] \in Int /\ stored[v] \in Nat /\ got[v] \in Seq(Lpms)
                          /\ Len(got[v]) \in Nat
  BY LenGot, BoundsAssumption DEF TypeInv, TypeOK, BatchInv, HeadOK
<1>1. Reserved(u) = {}
  BY DEF Reserved
<1>2. \A i \in D : i \in Int /\ i >= 0 /\ i < n
  BY <1>0
<1>3. ASSUME NEW r, NEW i \in D, NEW j \in D, At(r, i), At(r, j) PROVE i = j
  <2>0. i \in Int /\ j \in Int /\ i >= 0 /\ j >= 0
    BY <1>2
  <2>1. \A v \in Units : i \in Reserved(v) \/ j \in Reserved(v) => v # u
    BY <1>1
  <2>2. CASE i >= H
    <3>1. r = <<"hand", <<u, i - H + 1>> >>
      BY <1>0, <1>3, <2>0, <2>2
    <3>2. r = <<"hand", <<u, j - H + 1>> >>
      BY <1>3, <2>1, <3>1
    <3> QED
      BY <1>0, <2>0, <3>1, <3>2
  <2>3. CASE i < H /\ \E v \in Units : i \in Reserved(v) /\ r = <<"hand", <<v, i - enq_idx[v] + 1>> >>
    <3>1. PICK v \in Units : i \in Reserved(v) /\ r = <<"hand", <<v, i - enq_idx[v] + 1>> >>
      BY <2>3
    <3>2. r = <<"hand", <<v, j - enq_idx[v] + 1>> >>
      BY <1>3, <2>1, <3>1
    <3> QED
      BY <1>0, <2>0, <3>1, <3>2
  <2>4. CASE i < H /\ Stored(i) /\ r = <<"inactive", i>>
    BY <1>3, <2>4
  <2> QED
    BY <1>3, <2>2, <2>3, <2>4
<1>4. ASSUME NEW i \in D PROVE \E t \in Tasks : Good(i, t)
  <2>0. i \in Int /\ i >= 0 /\ i < n
    BY <1>2
  <2>1. CASE i >= H
    <3> DEFINE k == i - H + 1
               t == got[u][k]
    <3>1. k \in 1 .. Len(got[u]) /\ k \in Nat
      BY <1>0, <2>0, <2>1
    <3>2. Held(u, k) /\ t \in Lpms
      BY <1>0, <3>1 DEF Held
    <3>3. <<u, k>> \in InHand(t)
      BY <3>1, <3>2 DEF InHand
    <3>4. <<"hand", <<u, k>> >> \in Runs(t)
      BY <3>3 DEF Runs
    <3>5. At(<<"hand", <<u, k>> >>, i)
      BY <2>1
    <3> QED
      BY <3>2, <3>4, <3>5 DEF Tasks
  <2>2. CASE i < H /\ \E v \in Units : i \in Reserved(v)
    <3>0. PICK v \in Units : i \in Reserved(v)
      BY <2>2
    <3> DEFINE k == i - enq_idx[v] + 1
               t == got[v][k]
    <3>1. pc[v] = "store" /\ i \in enq_idx[v] + stored[v] .. enq_idx[v] + Len(got[v]) - 1
      BY <3>0 DEF Reserved
    <3>2. k \in 1 .. Len(got[v]) /\ k \in Nat /\ k > stored[v]
      BY <1>0, <2>0, <3>1, SMTT(30)
    <3>3. Held(v, k) /\ t \in Lpms
      BY <1>0, <3>2 DEF Held
    <3>4. <<v, k>> \in InHand(t)
      BY <3>2, <3>3 DEF InHand
    <3>5. <<"hand", <<v, k>> >> \in Runs(t)
      BY <3>4 DEF Runs
    <3>6. At(<<"hand", <<v, k>> >>, i)
      BY <2>2, <3>0
    <3> QED
      BY <3>3, <3>5, <3>6 DEF Tasks
  <2>3. CASE i < H /\ ~ \E v \in Units : i \in Reserved(v)
    <3> DEFINE t == pint_q_base["INACTIVE"][i]
    <3>1. i \in Slots /\ Stored(i)
      BY <1>0, <2>0, <2>3 DEF Slots, Stored
    <3>2. t # None
      BY <3>1 DEF HeadOK
    <3>3. t \in Tasks
      BY <3>1, <3>2 DEF TypeInv, TypeOK
    <3>4. i \in OnInactive(t)
      BY <3>1 DEF OnInactive
    <3>5. <<"inactive", i>> \in Runs(t)
      BY <3>4 DEF Runs
    <3>6. At(<<"inactive", i>>, i)
      BY <2>3, <3>1
    <3> QED
      BY <3>3, <3>4, <3>5, <3>6 DEF Tasks
  <2> QED
    BY <1>0, <2>0, <2>1, <2>2, <2>3
<1> DEFINE who == [i \in D |-> CHOOSE t \in Tasks : Good(i, t)]
<1>5. \A i \in D : who[i] \in Tasks /\ Good(i, who[i])
  BY <1>4
<1>6. who \in [D -> Tasks]
  BY <1>5
<1> HIDE DEF who
<1>7. ASSUME NEW i \in D, NEW j \in D, who[i] = who[j], who[i] \in Procs PROVE i = j
  <2>1. who[i] \notin Lpms
    BY <1>7, TasksAssumption
  <2>2. i \in OnInactive(who[i]) /\ j \in OnInactive(who[i])
    BY <1>5, <1>7, <2>1
  <2>3. OneOf(OnInactive(who[i]))
    BY <1>7 DEF CountOK
  <2> QED
    BY <2>2, <2>3 DEF OneOf
<1>8. ASSUME NEW i \in D, NEW j \in D, NEW k \in D,
             who[i] = who[j], who[j] = who[k], who[i] \in Lpms
      PROVE  i = j \/ j = k \/ i = k
  <2>1. who[i] \notin Procs
    BY <1>8, TasksAssumption
  <2>2. PICK r \in Runs(who[i]) : At(r, i)
    BY <1>5, <1>8, <2>1
  <2>3. PICK s \in Runs(who[i]) : At(s, j)
    BY <1>5, <1>8, <2>1
  <2>4. PICK t \in Runs(who[i]) : At(t, k)
    BY <1>5, <1>8, <2>1
  <2>5. r = s \/ s = t \/ r = t
    BY <1>8, <2>2, <2>3, <2>4 DEF CountOK, TwoOf
  <2> HIDE DEF At
  <2> QED
    BY <1>3, <2>2, <2>3, <2>4, <2>5
<1>9. ASSUME \A l \in Lpms : OneOf(Runs(l)),
             NEW i \in D, NEW j \in D, who[i] = who[j], who[i] \in Lpms
      PROVE  i = j
  <2>1. who[i] \notin Procs
    BY <1>9, TasksAssumption
  <2>2. PICK r \in Runs(who[i]) : At(r, i)
    BY <1>5, <1>9, <2>1
  <2>3. PICK s \in Runs(who[i]) : At(s, j)
    BY <1>5, <1>9, <2>1
  <2>4. r = s
    BY <1>9, <2>2, <2>3 DEF OneOf
  <2> HIDE DEF At
  <2> QED
    BY <1>3, <2>2, <2>3, <2>4
<1>10. n \in Nat
  BY <1>0
<1> HIDE DEF n
<1>11. CASE LongEnough
  BY <1>6, <1>7, <1>8, <1>10, <1>11, SlotsFit DEF n
<1>12. CASE \A l \in Lpms : OneOf(Runs(l))
  <2>1. \A i, j \in D : who[i] = who[j] => i = j
    BY <1>6, <1>7, <1>9, <1>12 DEF Tasks
  <2>2. n <= QLen
    BY <1>6, <1>10, <2>1, SlotsFitOnce
  <2> QED
    BY <2>2 DEF n
<1> QED
  BY <1>11, <1>12

\* The stored INACTIVE entries are threads: None is stored nowhere.
LEMMA NoneStored ==
    HeadOK <=>
      /\ pint_q_head["ACTIVE"] <= QLen /\ pint_q_head["INACTIVE"] <= QLen
      /\ \A i \in Slots : i < pint_q_head["ACTIVE"] => pint_q_base["ACTIVE"][i] # None
      /\ OnInactive(None) = {}
      /\ mc = "parallel" /\ (\E c \in Cores : pc[c] = "off") => pint_q_head["ACTIVE"] <= 0
      /\ mc = "loop" => \A l \in Lpms : OnInactive(l) = {}
<1>1. (\A i \in Slots : Stored(i) => pint_q_base["INACTIVE"][i] # None)
      <=> OnInactive(None) = {}
  BY DEF OnInactive
<1> QED
  BY <1>1 DEF HeadOK

\* A unit's step that keeps the heads and starts no core's pause keeps HeadOK.
LEMMA HeadKept ==
    ASSUME TypeInv, HeadOK, NEW u \in Units, UnitStep(u), mc # "loop",
           pint_q_head'["ACTIVE"] = pint_q_head["ACTIVE"],
           pint_q_head'["INACTIVE"] <= QLen,
           pint_q_base'["ACTIVE"] = pint_q_base["ACTIVE"],
           OnInactive(None)' = OnInactive(None),
           u \in Cores => pc'[u] # "off" \/ pc[u] = "off"
    PROVE  HeadOK'
<1>1. mc' = mc /\ \A v \in Units : v # u => pc'[v] = pc[v]
  BY OthersKept
<1>2. \A c \in Cores : pc'[c] = "off" => pc[c] = "off"
  BY <1>1, UnitIn
<1>3. pint_q_head'["ACTIVE"] <= QLen /\ OnInactive(None)' = {}
  BY DEF HeadOK, OnInactive
<1>4. \A i \in Slots : i < pint_q_head'["ACTIVE"] => pint_q_base'["ACTIVE"][i] # None
  BY DEF HeadOK
<1>5. mc' = "parallel" /\ (\E c \in Cores : pc'[c] = "off") => pint_q_head'["ACTIVE"] <= 0
  BY <1>1, <1>2 DEF HeadOK
<1>6. \A i \in Slots : Stored(i)' => pint_q_base'["INACTIVE"][i] # None
  BY <1>3 DEF OnInactive
<1> QED
  BY <1>1, <1>3, <1>4, <1>5, <1>6 DEF HeadOK

\* Every step keeps the heads within the arrays and the entries threads.
LEMMA HeadStep ==
    ASSUME TypeInv, TypeInv', ~ Overrun', UnitsOK, UnitsOK', DispatchInv, BatchInv, HeadOK,
           CountOK, [Next]_vars
    PROVE  HeadOK'
<1>0. /\ QLen \in Nat /\ pint_q_head["ACTIVE"] \in Int /\ pint_q_head["INACTIVE"] \in Int
      /\ \A i \in Slots : i \in Int /\ i >= 0
      /\ OnInactive(None) = {}
  BY BoundsAssumption, NoneStored DEF TypeInv, TypeOK, Slots
<1>1. CASE StartParallel \/ RunSingle
  <2>1. /\ pint_q_head' = pint_q_head /\ pint_q_base' = pint_q_base
        /\ mc' = "parallel" => \A c \in Cores : pc'[c] # "off"
        /\ mc' # "loop"
    BY <1>1, UnitIn DEF StartParallel, RunSingle, qvars
  <2>2. OnInactive(None)' = OnInactive(None)
    BY <1>1, StartRuns DEF Same
  <2>3. \A i \in Slots : Stored(i)' => pint_q_base'["INACTIVE"][i] # None
    BY <1>0, <2>2 DEF OnInactive
  <2> QED
    BY <2>1, <2>3 DEF HeadOK
<1>3. CASE pint_swap_active_and_inactive_queue
  <2>1. /\ \A v \in Units : pc[v] = "off"
        /\ mc' = "loop"
        /\ pint_q_base'["ACTIVE"] = pint_q_base["INACTIVE"]
        /\ pint_q_head'["ACTIVE"] = pint_q_head["INACTIVE"]
        /\ pint_q_head'["INACTIVE"] = 0
    BY <1>3 DEF pint_swap_active_and_inactive_queue, AllOff
  <2>2. \A l : OnInactive(l)' = {}
    BY <1>3, SwapRuns
  <2>3. \A i \in Slots : Stored(i) <=> i < pint_q_head["INACTIVE"]
    BY <2>1, OffRuns
  <2>4. \A i \in Slots : i < pint_q_head'["ACTIVE"] => pint_q_base'["ACTIVE"][i] # None
    BY <2>1, <2>3 DEF HeadOK
  <2>5. \A i \in Slots : Stored(i)' => pint_q_base'["INACTIVE"][i] # None
    BY <2>2 DEF OnInactive
  <2> QED
    BY <1>0, <2>1, <2>2, <2>4, <2>5 DEF HeadOK
<1>4. CASE NextTime
  <2>0. PICK ps \in SUBSET Procs \ {{}} : \E q \in Filled(ps) :
            /\ pint_q_base' = [pint_q_base EXCEPT !["ACTIVE"] = q]
            /\ pint_q_head' = [pint_q_head EXCEPT !["ACTIVE"] = Cardinality(ps)]
    BY <1>4 DEF NextTime
  <2>1. PICK q \in Filled(ps) :
            /\ pint_q_base' = [pint_q_base EXCEPT !["ACTIVE"] = q]
            /\ pint_q_head' = [pint_q_head EXCEPT !["ACTIVE"] = Cardinality(ps)]
    BY <2>0
  <2>2. /\ IsFiniteSet(ps) /\ None \notin ps /\ Cardinality(ps) <= QLen
        /\ Cardinality(ps) \in Nat
    <3>1. /\ IsFiniteSet(Procs) /\ ps \subseteq Procs /\ IsFiniteSet(Lpms)
          /\ None \notin Procs
      BY <2>0, TasksAssumption DEF Tasks
    <3>2. IsFiniteSet(ps) /\ Cardinality(ps) <= Cardinality(Procs)
      BY <3>1, FS_Subset
    <3>3. Cardinality(Lpms) \in Nat /\ Cardinality(Procs) \in Nat /\ Cardinality(ps) \in Nat
      BY <3>1, <3>2, FS_CardinalityType
    <3> QED
      BY <1>0, <3>1, <3>2, <3>3, BoundsAssumption
  <2>3. /\ pint_q_base'["ACTIVE"] = q /\ pint_q_base'["INACTIVE"] = pint_q_base["INACTIVE"]
        /\ pint_q_head'["ACTIVE"] = Cardinality(ps)
        /\ pint_q_head'["INACTIVE"] = pint_q_head["INACTIVE"]
        /\ mc = "loop" /\ mc' = mc
    BY <1>4, <2>1 DEF NextTime, TypeInv, TypeOK
  <2>4. \A i \in Slots : i < Cardinality(ps) => q[i] \in ps
    BY <2>1, <2>2, FilledFull
  <2>5. \A l : OnInactive(l)' = OnInactive(l)
    BY <1>4, TimeRuns
  <2>6. \A i \in Slots : Stored(i)' => pint_q_base'["INACTIVE"][i] # None
    BY <1>0, <2>5 DEF OnInactive
  <2> QED
    BY <2>2, <2>3, <2>4, <2>5, <2>6 DEF HeadOK
<1>5. ASSUME NEW u \in Units, UnitStep(u) PROVE HeadOK'
  <2>0. pc[u] # "off"
    BY <1>5 DEF UnitStep, pint_dequeue_thread, FetchThread, pint_enqueue_flag_clear,
       ReadSignal, DriveSignal, WriteCompletes, pint_wait_write_done, ClaimThread,
       ReserveSlots, StoreThread, ReturnThread, TypeInv, WbufOK
  <2>1. mc # "loop"
    BY <2>0, AtWork
  <2>2. pint_q_head["INACTIVE"] <= QLen
    BY DEF HeadOK
  <2>3. CASE u \in Cores /\ pint_dequeue_thread(u)
    <3>1. Same(None)
      BY <1>5, <2>3, DequeueRuns
    <3>2. /\ pint_q_head'["ACTIVE"] = pint_q_head["ACTIVE"] - 1
          /\ pint_q_head'["INACTIVE"] = pint_q_head["INACTIVE"]
          /\ pint_q_base' = pint_q_base
          /\ pc'[u] = IF pint_q_head["ACTIVE"] > 0 THEN "fetch" ELSE "off"
      BY <2>3 DEF pint_dequeue_thread, TypeInv, TypeOK
    <3>3. mc' = mc /\ \A v \in Units : v # u => pc'[v] = pc[v]
      BY <1>5, OthersKept
    <3>4. mc' = "parallel" /\ (\E c \in Cores : pc'[c] = "off") => pint_q_head'["ACTIVE"] <= 0
      BY <1>0, <3>2, <3>3, UnitIn DEF HeadOK
    <3>5. \A i \in Slots : i < pint_q_head'["ACTIVE"] => pint_q_base'["ACTIVE"][i] # None
      BY <1>0, <3>2 DEF HeadOK
    <3>6. \A i \in Slots : Stored(i)' => pint_q_base'["INACTIVE"][i] # None
      BY <1>0, <3>1 DEF OnInactive, Same
    <3>7. pint_q_head'["ACTIVE"] <= QLen
      BY <1>0, <3>2 DEF HeadOK
    <3> QED
      BY <2>1, <2>2, <3>2, <3>3, <3>4, <3>5, <3>6, <3>7 DEF HeadOK
  <2>4. CASE \/ FetchThread(u) \/ pint_enqueue_flag_clear(u) \/ ClaimThread(u)
    <3>1. pint_q_head' = pint_q_head /\ pint_q_base' = pint_q_base /\ pc'[u] # "off"
      BY <2>4 DEF FetchThread, pint_enqueue_flag_clear, ClaimThread, qvars, TypeInv, TypeOK
    <3>2. OnInactive(None)' = OnInactive(None)
      BY <1>5, <2>4, FetchRuns, ClearRuns, ClaimRuns
    <3> QED
      BY <1>5, <2>1, <2>2, <3>1, <3>2, HeadKept
  <2>6. CASE \/ ReadSignal(u) \/ DriveSignal(u) \/ WriteCompletes(u)
             \/ pint_wait_write_done(u) \/ ReturnThread(u)
    <3>1. pint_q_head' = pint_q_head /\ pint_q_base' = pint_q_base
      BY <2>6 DEF ReadSignal, DriveSignal, WriteCompletes, pint_wait_write_done,
         ReturnThread, qvars
    <3>2. u \in Cores => pc'[u] # "off"
      <4> USE <2>0 DEF TypeInv, TypeOK
      <4>1. CASE ReadSignal(u)
        BY <4>1 DEF ReadSignal
      <4>2. CASE DriveSignal(u)
        BY <4>2 DEF DriveSignal
      <4>3. CASE WriteCompletes(u)
        BY <4>3 DEF WriteCompletes
      <4>4. CASE pint_wait_write_done(u)
        BY <4>4 DEF pint_wait_write_done
      <4>5. CASE ReturnThread(u)
        BY <4>5 DEF ReturnThread
      <4> QED
        BY <2>6, <4>1, <4>2, <4>3, <4>4, <4>5
    <3>3. OnInactive(None)' = OnInactive(None)
      BY <1>5, <2>6, QuietRuns DEF Same
    <3> QED
      BY <1>5, <2>1, <2>2, <3>1, <3>2, <3>3, HeadKept
  <2>8. CASE ReserveSlots(u)
    <3>1. /\ pint_q_head'["ACTIVE"] = pint_q_head["ACTIVE"]
          /\ pint_q_head'["INACTIVE"] = pint_q_head["INACTIVE"] + Len(got[u])
          /\ pint_q_base' = pint_q_base /\ pc'[u] # "off"
      BY <2>8, ReserveStores DEF ReserveSlots, TypeInv, TypeOK
    <3>2. pint_q_head'["INACTIVE"] <= QLen
      BY <2>8, <3>1, ReserveStores
    <3>3. OnInactive(None)' = OnInactive(None)
      BY <1>5, <2>8, ReserveRuns DEF Same
    <3> QED
      BY <1>5, <2>1, <3>1, <3>2, <3>3, HeadKept
  <2>9. CASE StoreThread(u)
    <3>1. /\ pint_q_head' = pint_q_head /\ pint_q_base'["ACTIVE"] = pint_q_base["ACTIVE"]
          /\ pc'[u] # "off"
      BY <2>9 DEF StoreThread, TypeInv, TypeOK
    <3>2. got[u][stored[u] + 1] \in Lpms
      BY <2>9 DEF StoreThread, TypeInv, TypeOK
    <3>3. None # got[u][stored[u] + 1]
      BY <3>2, TasksAssumption DEF Tasks
    <3>4. OnInactive(None)' = OnInactive(None)
      BY <1>5, <2>9, <3>3, StoreRuns
    <3> QED
      BY <1>5, <2>1, <2>2, <3>1, <3>4, HeadKept
  <2> QED
    BY <1>5, <2>3, <2>4, <2>6, <2>8, <2>9 DEF UnitStep
<1>6. CASE UNCHANGED vars
  BY <1>6 DEF vars, qvars, uvars, HeadOK, OnInactive, Stored, Reserved
<1> QED
  BY <1>1, <1>3, <1>4, <1>5, <1>6 DEF Next, MainStep

\* A unit's step takes no run from the next phase: only the swap does.
LEMMA LaterKept ==
    ASSUME TypeInv, ~ Overrun', UnitsOK, DispatchInv, BatchInv, HeadOK, NEW u \in Units, UnitStep(u),
           NEW l \in Lpms, Later(l)
    PROVE  Later(l)'
<1>1. CASE u \in Cores /\ pint_dequeue_thread(u)
  BY <1>1, DequeueRuns DEF Same, Later
<1>2. CASE FetchThread(u)
  BY <1>2, FetchRuns DEF Same, Later
<1>3. CASE pint_enqueue_flag_clear(u)
  BY <1>3, ClearRuns DEF Later
<1>4. CASE \/ ReadSignal(u) \/ DriveSignal(u) \/ WriteCompletes(u)
           \/ pint_wait_write_done(u) \/ ReturnThread(u)
  BY <1>4, QuietRuns DEF Same, Later
<1>5. CASE ClaimThread(u)
  <2>1. OnInactive(l)' = OnInactive(l) /\ InHand(l) \subseteq InHand(l)'
    BY <1>5, ClaimRuns
  <2> QED
    BY <2>1 DEF Later
<1>6. CASE ReserveSlots(u)
  BY <1>6, ReserveRuns DEF Same, Later
<1>7. CASE StoreThread(u)
  <2>1. CASE l = got[u][stored[u] + 1]
    <3>1. enq_idx[u] + stored[u] \in OnInactive(l)'
      BY <1>7, <2>1, StoreRuns
    <3> QED
      BY <3>1 DEF Later
  <2>2. CASE l # got[u][stored[u] + 1]
    <3>1. OnInactive(l)' = OnInactive(l) /\ InHand(l)' = InHand(l)
      BY <1>7, <2>2, StoreRuns
    <3> QED
      BY <3>1 DEF Later
  <2> QED
    BY <2>1, <2>2
<1> QED
  BY <1>1, <1>2, <1>3, <1>4, <1>5, <1>6, <1>7 DEF UnitStep

\* Only clearing its bit uses up an ACTIVE entry of an LPM.
LEMMA ActiveWaits ==
    ASSUME TypeInv, ~ Overrun', UnitsOK, DispatchInv, BatchInv, HeadOK, NEW u \in Units, UnitStep(u),
           NEW l \in Lpms, ~ (pint_enqueue_flag_clear(u) /\ cur[u] = l)
    PROVE  OnActive(l)' = OnActive(l)
<1>1. CASE u \in Cores /\ pint_dequeue_thread(u)
  BY <1>1, DequeueRuns DEF Same
<1>2. CASE FetchThread(u)
  BY <1>2, FetchRuns DEF Same
<1>3. CASE pint_enqueue_flag_clear(u)
  BY <1>3, ClearRuns
<1>4. CASE \/ ReadSignal(u) \/ DriveSignal(u) \/ WriteCompletes(u)
           \/ pint_wait_write_done(u) \/ ReturnThread(u)
  BY <1>4, QuietRuns DEF Same
<1>5. CASE ClaimThread(u)
  BY <1>5, ClaimRuns
<1>6. CASE ReserveSlots(u)
  BY <1>6, ReserveRuns DEF Same
<1>7. CASE StoreThread(u)
  BY <1>7, StoreRuns
<1> QED
  BY <1>1, <1>2, <1>3, <1>4, <1>5, <1>6, <1>7 DEF UnitStep

\* The bits a unit's step changes.
LEMMA FlagChange ==
    ASSUME TypeInv, NEW u \in Units, UnitStep(u)
    PROVE  \/ /\ pint_enqueue_flag' = pint_enqueue_flag
              /\ ~ pint_enqueue_flag_clear(u) /\ ~ ClaimThread(u)
           \/ pint_enqueue_flag_clear(u) /\ pint_enqueue_flag' = pint_enqueue_flag \ {cur[u]}
           \/ /\ ClaimThread(u)
              /\ pint_enqueue_flag' = pint_enqueue_flag \cup {Fanout[cur[u]][pos[u]]}
<1>1. CASE ClaimThread(u)
  BY <1>1 DEF ClaimThread
<1>2. CASE pint_enqueue_flag_clear(u)
  BY <1>2 DEF pint_enqueue_flag_clear
<1>3. CASE ~ ClaimThread(u) /\ ~ pint_enqueue_flag_clear(u)
  BY <1>3 DEF UnitStep, pint_dequeue_thread, FetchThread, ReadSignal, DriveSignal,
     WriteCompletes, pint_wait_write_done, ReserveSlots, StoreThread, ReturnThread
<1> QED
  BY <1>1, <1>2, <1>3

\* Only clearing its bit starts an LPM.
LEMMA StartedStep ==
    ASSUME TypeInv, UnitsOK, NEW u \in Units, UnitStep(u), NEW v \in Units, NEW l \in Lpms,
           cur'[v] = l, Started(v)'
    PROVE  \/ cur[v] = l /\ Started(v)
           \/ v = u /\ cur[u] = l /\ pint_enqueue_flag_clear(u)
<1>1. CASE v # u
  BY <1>1, OthersKept DEF Started
<1>2. CASE v = u
  <2> USE <1>2 DEF TypeInv, TypeOK, Started
  <2>1. CASE u \in Cores /\ pint_dequeue_thread(u)
    BY <2>1 DEF pint_dequeue_thread
  <2>2. CASE FetchThread(u)
    <3>1. /\ pc[u] = "fetch" /\ deq_idx[u] - 1 \in Slots
          /\ pint_q_base["ACTIVE"][deq_idx[u] - 1] # None
      BY <2>2 DEF FetchThread, UnitsOK, UnitOK
    <3>2. /\ cur'[u] = pint_q_base["ACTIVE"][deq_idx[u] - 1]
          /\ pc'[u] = IF cur'[u] \in Lpms THEN "clear" ELSE "read"
      BY <2>2, <3>1 DEF FetchThread
    <3> QED
      BY <3>2
  <2>3. CASE pint_enqueue_flag_clear(u)
    BY <2>3 DEF pint_enqueue_flag_clear
  <2>4. CASE ReadSignal(u) \/ DriveSignal(u) \/ pint_wait_write_done(u)
    BY <2>4 DEF ReadSignal, DriveSignal, pint_wait_write_done
  <2>5. CASE WriteCompletes(u)
    BY <2>5 DEF WriteCompletes
  <2>6. CASE ClaimThread(u) \/ ReserveSlots(u) \/ StoreThread(u)
    BY <2>6 DEF ClaimThread, ReserveSlots, StoreThread
  <2>7. CASE ReturnThread(u)
    BY <2>7 DEF ReturnThread
  <2> QED
    BY <2>1, <2>2, <2>3, <2>4, <2>5, <2>6, <2>7 DEF UnitStep
<1> QED
  BY <1>1, <1>2

\* With all units off nothing of the swapped-out ACTIVE queue is left.
LEMMA SwapFinds ==
    ASSUME TypeInv, UnitsOK, HeadOK, pint_swap_active_and_inactive_queue, NEW l
    PROVE  OnActive(l) = {}
<1>1. /\ \A v \in Units : pc[v] = "off"
      /\ mc \in {"parallel", "single"}
  BY DEF pint_swap_active_and_inactive_queue, AllOff
<1>2. \A i \in Slots : Unstarted(i) <=> mc # "single" /\ i < pint_q_head["ACTIVE"]
  BY <1>1, OffRuns
<1>3. mc = "parallel" => pint_q_head["ACTIVE"] <= 0
  BY <1>1, UnitIn, UnitsAssumption DEF HeadOK
<1>4. \A i \in Slots : i \in Int /\ i >= 0
  BY BoundsAssumption DEF Slots
<1>5. pint_q_head["ACTIVE"] \in Int
  BY DEF TypeInv, TypeOK
<1>6. \A i \in Slots : ~ Unstarted(i)
  BY <1>1, <1>2, <1>3, <1>4, <1>5
<1> QED
  BY <1>6 DEF OnActive

\* Every step keeps a run to come for every bit that is set.
LEMMA FlagStep ==
    ASSUME TypeInv, TypeInv', ~ Overrun', UnitsOK, UnitsOK', DispatchInv, BatchInv, HeadOK, FlagOK,
           [Next]_vars
    PROVE  FlagOK'
<1>0. pint_enqueue_flag \subseteq Lpms /\ pint_enqueue_flag' \subseteq Lpms
  BY DEF TypeInv, TypeOK
<1>1. CASE StartParallel \/ RunSingle
  <2>1. \A l : Same(l)
    BY <1>1, StartRuns
  <2>2. /\ pint_enqueue_flag' = pint_enqueue_flag
        /\ \A v \in Units : ~ Started(v)'
    BY <1>1, UnitIn DEF StartParallel, RunSingle, TypeInv, PhaseOK, TypeOK, Started
  <2> QED
    BY <2>1, <2>2 DEF FlagOK, Same, Later
<1>3. CASE pint_swap_active_and_inactive_queue
  <2>1. \A l : /\ OnActive(l)' = OnInactive(l) /\ InHand(l) = {} /\ OnActive(l) = {}
    BY <1>3, SwapRuns, SwapFinds
  <2>2. /\ pint_enqueue_flag' = pint_enqueue_flag
        /\ \A v \in Units : ~ Started(v)'
    BY <1>3 DEF pint_swap_active_and_inactive_queue, AllOff, Started
  <2>3. \A l \in pint_enqueue_flag : OnActive(l)' # {}
    BY <2>1 DEF FlagOK, Later
  <2> QED
    BY <2>2, <2>3 DEF FlagOK
<1>4. CASE NextTime
  <2>1. \A l \in Lpms : Same(l)
    BY <1>4, TimeRuns
  <2>2. /\ pint_enqueue_flag' = pint_enqueue_flag
        /\ \A v \in Units : ~ Started(v)'
    BY <1>4, UnitIn DEF NextTime, uvars, TypeInv, PhaseOK, Started
  <2> QED
    BY <1>0, <2>1, <2>2 DEF FlagOK, Same, Later
<1>5. ASSUME NEW u \in Units, UnitStep(u) PROVE FlagOK'
  <2> SUFFICES ASSUME NEW l \in pint_enqueue_flag'
               PROVE  /\ OnActive(l)' # {} \/ Later(l)'
                      /\ (\E v \in Units : cur'[v] = l /\ Started(v)') => Later(l)'
    BY DEF FlagOK
  <2>0. l \in Lpms
    BY <1>0
  <2>1. CASE l \in pint_enqueue_flag
    <3>1. ~ (pint_enqueue_flag_clear(u) /\ cur[u] = l)
      BY <1>5, <2>1 DEF pint_enqueue_flag_clear
    <3>2. OnActive(l)' = OnActive(l)
      BY <1>5, <2>0, <3>1, ActiveWaits
    <3>3. Later(l) => Later(l)'
      BY <1>5, <2>0, LaterKept
    <3>4. (\E v \in Units : cur'[v] = l /\ Started(v)') => (\E v \in Units : cur[v] = l /\ Started(v))
      BY <1>5, <2>0, <3>1, StartedStep
    <3> QED
      BY <2>1, <3>2, <3>3, <3>4 DEF FlagOK
  <2>2. CASE l \notin pint_enqueue_flag
    <3>1. ClaimThread(u) /\ l = Fanout[cur[u]][pos[u]]
      BY <1>5, <2>2, FlagChange
    <3>2. InHand(l)' = InHand(l) \cup {<<u, Len(got[u]) + 1>>}
      BY <1>5, <2>2, <3>1, ClaimRuns
    <3>3. Later(l)'
      BY <3>2 DEF Later
    <3> QED
      BY <3>3
  <2> QED
    BY <2>1, <2>2
<1>6. CASE UNCHANGED vars
  BY <1>6 DEF vars, qvars, uvars, FlagOK, Later, Started, OnActive, Unstarted, OnInactive,
     Stored, Reserved, InHand, Held
<1> QED
  BY <1>1, <1>3, <1>4, <1>5, <1>6 DEF Next, MainStep

\* An LPM that some input change still owes a run is owed it after a unit's step,
\* unless the step found its bit set: then it waits on ACTIVE and has not started.
LEMMA OwedKept ==
    ASSUME TypeInv, ~ Overrun', UnitsOK, DispatchInv, BatchInv, HeadOK, FlagOK, NEW u \in Units,
           UnitStep(u), NEW l \in Lpms, Owed(l)
    PROVE  \/ Owed(l)'
           \/ OnActive(l)' # {} /\ \A v \in Units : ~ (cur'[v] = l /\ Started(v)')
<1>1. CASE Later(l)
  BY <1>1, LaterKept DEF Owed
<1>2. CASE ~ Later(l)
  <2>1. PICK v \in Units : Driving(v, l)
    BY <1>2 DEF Owed
  <2>2. CASE v # u
    <3>1. pc'[v] = pc[v] /\ cur'[v] = cur[v] /\ pos'[v] = pos[v]
      BY <2>2, OthersKept
    <3>2. Driving(v, l)'
      BY <2>1, <3>1 DEF Driving
    <3> QED
      BY <3>2 DEF Owed
  <2>3. CASE v = u
    <3>1. pc[u] \in {"wait", "claim"}
      BY <2>1, <2>3 DEF Driving
    <3>2. PICK k \in pos[u] .. Len(Fanout[cur[u]]) : Fanout[cur[u]][k] = l
      BY <2>1, <2>3 DEF Driving
    <3>3. cur[u] \in Tasks /\ pos[u] \in Nat \ {0} /\ Len(Fanout[cur[u]]) \in Nat
      BY <3>1, FanoutType DEF TypeInv, TypeOK, CurOK
    <3>4. CASE WriteCompletes(u) \/ pint_wait_write_done(u)
      <4>1. pc'[u] \in {"wait", "claim"} /\ cur' = cur /\ pos' = pos
        BY <3>1, <3>4 DEF WriteCompletes, pint_wait_write_done, TypeInv, TypeOK
      <4>2. Driving(u, l)'
        BY <3>2, <4>1 DEF Driving
      <4> QED
        BY <4>2 DEF Owed
    <3>5. CASE ClaimThread(u)
      <4>1. /\ pc' = pc /\ cur' = cur /\ pos'[u] = pos[u] + 1
        BY <3>5 DEF ClaimThread, TypeInv, TypeOK
      <4>2. CASE k # pos[u]
        <5>1. k \in pos'[u] .. Len(Fanout[cur'[u]])
          BY <3>2, <3>3, <4>1, <4>2
        <5>2. Driving(u, l)'
          BY <3>1, <3>2, <4>1, <5>1 DEF Driving
        <5> QED
          BY <5>2 DEF Owed
      <4>3. CASE k = pos[u] /\ l \notin pint_enqueue_flag
        <5>1. InHand(l)' = InHand(l) \cup {<<u, Len(got[u]) + 1>>}
          BY <3>2, <3>5, <4>3, ClaimRuns
        <5> QED
          BY <5>1 DEF Later, Owed
      <4>4. CASE k = pos[u] /\ l \in pint_enqueue_flag
        <5>1. OnActive(l)' = OnActive(l)
          BY <3>5, ClaimRuns
        <5>2. OnActive(l) # {} /\ \A w \in Units : ~ (cur[w] = l /\ Started(w))
          BY <1>2, <4>4 DEF FlagOK
        <5>3. \A w \in Units : Started(w)' <=> Started(w)
          BY <4>1 DEF Started
        <5> QED
          BY <4>1, <5>1, <5>2, <5>3
      <4> QED
        BY <4>2, <4>3, <4>4
    <3>6. ~ ReserveSlots(u)
      BY <3>2, <3>3 DEF ReserveSlots
    <3> QED
      BY <3>1, <3>4, <3>5, <3>6 DEF UnitStep, pint_dequeue_thread, FetchThread,
         pint_enqueue_flag_clear, ReadSignal, DriveSignal, StoreThread, ReturnThread
  <2> QED
    BY <2>2, <2>3
<1> QED
  BY <1>1, <1>2

\* ... so it is still owed when a unit has started it.
LEMMA OwedStays ==
    ASSUME TypeInv, ~ Overrun', UnitsOK, DispatchInv, BatchInv, HeadOK, FlagOK, NEW u \in Units,
           UnitStep(u), NEW l \in Lpms, Owed(l), NEW v \in Units, cur'[v] = l, Started(v)'
    PROVE  Owed(l)'
BY OwedKept

\* An LPM's value depends on its inputs only.
LEMMA EvalSame ==
    ASSUME NEW l \in Lpms, NEW m \in [Tasks -> Values \cup {None}],
           NEW n \in [Tasks -> Values \cup {None}],
           \A s \in Inputs[l] : m[s] \in Values /\ m[s] = n[s]
    PROVE  Eval(l, m) \in Values /\ Eval(l, m) = Eval(l, n)
BY NetAssumption

\* Memory changes when a write completes only.
LEMMA ValStep ==
    ASSUME TypeInv, NEW u \in Units, UnitStep(u)
    PROVE  val' = val \/ WriteCompletes(u)
BY DEF UnitStep, pint_dequeue_thread, FetchThread, pint_enqueue_flag_clear, ReadSignal,
   DriveSignal, pint_wait_write_done, ClaimThread, ReserveSlots, StoreThread, ReturnThread

\* A write that has completed is one whose readers are still to be woken.
LEMMA InputStep ==
    ASSUME TypeInv, TypeInv', UnitsOK, NEW u \in Units, UnitStep(u), NEW l \in Lpms
    PROVE  \/ Driving(u, l)'
           \/ (\A s \in Inputs[l] : val'[s] = val[s]) /\ Eval(l, val') = Eval(l, val)
<1>0. /\ val \in [Tasks -> Values] /\ val' \in [Tasks -> Values] /\ Inputs[l] \subseteq Tasks
      /\ val \in [Tasks -> Values \cup {None}] /\ val' \in [Tasks -> Values \cup {None}]
  BY NetAssumption DEF TypeInv, TypeOK
<1>1. CASE WriteCompletes(u) /\ cur[u] \in Inputs[l]
  <2>1. /\ wbuf[u] # None /\ pc' = pc /\ pos' = pos /\ cur' = cur
    BY <1>1 DEF WriteCompletes
  <2>2. cur[u] \in Tasks
    BY <1>0, <1>1
  <2>3. PICK k \in 1 .. Len(Fanout[cur[u]]) : Fanout[cur[u]][k] = l
    BY <1>1, NetAssumption
  <2>4. Fanout[cur[u]] # <<>>
    BY <2>2, <2>3, FanoutType
  <2>5. pc[u] = "wait" /\ pos[u] = 1
    BY <2>1, <2>4 DEF TypeInv, WbufOK, UnitsOK, UnitOK
  <2> QED
    BY <2>1, <2>3, <2>5 DEF Driving
<1>2. CASE ~ (WriteCompletes(u) /\ cur[u] \in Inputs[l])
  <2>1. \A s \in Inputs[l] : val'[s] = val[s]
    BY <1>0, <1>2, ValStep DEF WriteCompletes
  <2>2. Eval(l, val') = Eval(l, val)
    BY <1>0, <2>1, EvalSame
  <2> QED
    BY <2>1, <2>2
<1> QED
  BY <1>1, <1>2

\* Every step keeps a core's cache empty until it reads, and the mcore's true to
\* memory, its own pending write included, outside the parallel phase.
LEMMA CacheStep ==
    ASSUME TypeInv, TypeInv', UnitsOK, CacheOK, [Next]_vars
    PROVE  CacheOK'
<1>0. Mcore \in Units /\ Mcore \notin Cores /\ \A c \in Cores : c \in Units
  BY UnitIn, UnitsAssumption
<1> DEFINE Memory(s) == IF wbuf[Mcore] # None /\ s = cur[Mcore] THEN wbuf[Mcore] ELSE val[s]
<1>1. CASE StartParallel
  <2>1. mc' = "parallel" /\ cache' = cache /\ mc = "loop"
    BY <1>1 DEF StartParallel
  <2>2. \A c \in Cores : pc[c] = "off"
    BY <2>1 DEF TypeInv, PhaseOK
  <2> QED
    BY <2>1, <2>2 DEF CacheOK
<1>2. CASE RunSingle
  <2>1. /\ mc = "loop" /\ cache' = cache /\ wbuf' = wbuf /\ cur' = cur /\ val' = val
        /\ \A c \in Cores : pc'[c] = pc[c]
    BY <1>0, <1>2 DEF RunSingle, TypeInv, TypeOK
  <2>2. \A c \in Cores : pc[c] = "off"
    BY <2>1 DEF TypeInv, PhaseOK
  <2> QED
    BY <2>1, <2>2 DEF CacheOK
<1>3. CASE pint_swap_active_and_inactive_queue
  <2>1. /\ pc' = pc /\ wbuf' = wbuf /\ cur' = cur /\ val' = val
        /\ \A c \in Cores : cache'[c] = cache[c]
        /\ cache'[Mcore] = IF mc = "parallel" THEN NoLine ELSE cache[Mcore]
    BY <1>0, <1>3 DEF pint_swap_active_and_inactive_queue, TypeInv, TypeOK
  <2>2. \A s \in Tasks : NoLine[s] = None
    BY DEF NoLine
  <2> QED
    BY <2>1, <2>2 DEF CacheOK
<1>4. CASE NextTime
  BY <1>4 DEF NextTime, uvars, CacheOK
<1>5. ASSUME NEW u \in Units, UnitStep(u) PROVE CacheOK'
  <2>0. mc' = mc /\ \A v \in Units : v # u =>
            pc'[v] = pc[v] /\ cache'[v] = cache[v] /\ wbuf'[v] = wbuf[v] /\ cur'[v] = cur[v]
    BY <1>5, OthersKept
  <2> DEFINE Early(v) == pc[v] \in {"off", "dequeue", "fetch", "clear"}
  <2>1. ASSUME u \in Cores, Early(u)' PROVE cache'[u] = NoLine
    <3> USE DEF TypeInv, TypeOK
    <3>1. CASE pint_dequeue_thread(u)
      BY <1>0, <2>1, <3>1 DEF pint_dequeue_thread, CacheOK
    <3>2. CASE FetchThread(u)
      BY <1>0, <2>1, <3>2 DEF FetchThread, CacheOK
    <3>3. CASE ReturnThread(u)
      BY <2>1, <3>3 DEF ReturnThread
    <3>4. CASE WriteCompletes(u)
      BY <2>1, <3>4 DEF WriteCompletes, WbufOK
    <3>5. CASE DriveSignal(u)
      BY <2>1, <3>5 DEF DriveSignal
    <3>6. CASE \/ pint_enqueue_flag_clear(u) \/ ReadSignal(u) \/ pint_wait_write_done(u)
               \/ ClaimThread(u) \/ ReserveSlots(u) \/ StoreThread(u)
      BY <2>1, <3>6 DEF pint_enqueue_flag_clear, ReadSignal, pint_wait_write_done,
         ClaimThread, ReserveSlots, StoreThread
    <3> QED
      BY <1>5, <3>1, <3>2, <3>3, <3>4, <3>5, <3>6 DEF UnitStep
  <2>2. \A c \in Cores : Early(c)' => cache'[c] = NoLine
    BY <1>0, <2>0, <2>1 DEF CacheOK
  <2>3. ASSUME mc' # "parallel", NEW s \in Tasks
        PROVE  cache'[Mcore][s] \in {None, Memory(s)'}
    <3>0. pc[u] # "off"
      BY <1>5 DEF UnitStep, pint_dequeue_thread, FetchThread, pint_enqueue_flag_clear,
         ReadSignal, DriveSignal, WriteCompletes, pint_wait_write_done, ClaimThread,
         ReserveSlots, StoreThread, ReturnThread, TypeInv, WbufOK
    <3>1. u = Mcore
      BY <2>0, <2>3, <3>0, AtWork
    <3>2. cache[u][s] \in {None, Memory(s)}
      BY <2>0, <2>3, <3>1 DEF CacheOK
    <3> USE DEF TypeInv, TypeOK
    <3>3. CASE ReadSignal(u)
      <4>1. wbuf[u] = None /\ wbuf' = wbuf /\ val' = val
        BY <3>3 DEF ReadSignal, WbufOK
      <4>2. cache'[u][s] \in {cache[u][s], val[s]}
        BY <3>3 DEF ReadSignal
      <4> QED
        BY <3>1, <3>2, <4>1, <4>2
    <3>4. CASE DriveSignal(u)
      <4>1. wbuf[u] = None /\ val' = val /\ cur' = cur
        BY <3>4 DEF DriveSignal, WbufOK
      <4>2. CASE cache' = cache /\ wbuf' = wbuf
        BY <3>1, <3>2, <4>1, <4>2
      <4>3. ASSUME NEW w, cache' = [cache EXCEPT ![u][cur[u]] = w], wbuf' = [wbuf EXCEPT ![u] = w]
            PROVE  cache'[Mcore][s] \in {None, Memory(s)'}
        <5>1. wbuf'[u] = w
          BY <4>3
        <5>2. CASE s = cur[u]
          <6>1. cache'[u][s] = w
            BY <4>3, <5>2
          <6> QED
            BY <3>1, <4>1, <5>1, <5>2, <6>1
        <5>3. CASE s # cur[u]
          <6>1. cache'[u][s] = cache[u][s]
            BY <4>3, <5>3
          <6> QED
            BY <3>1, <3>2, <4>1, <5>3, <6>1
        <5> QED
          BY <5>2, <5>3
      <4>4. \/ cache' = cache /\ wbuf' = wbuf
            \/ \E w : cache' = [cache EXCEPT ![u][cur[u]] = w] /\ wbuf' = [wbuf EXCEPT ![u] = w]
        BY <3>4 DEF DriveSignal
      <4> QED
        BY <4>2, <4>3, <4>4
    <3>5. CASE WriteCompletes(u)
      <4>1. /\ cache' = cache /\ wbuf'[u] = None /\ wbuf[u] # None
            /\ val'[s] = IF s = cur[u] THEN wbuf[u] ELSE val[s]
        BY <3>5 DEF WriteCompletes
      <4> QED
        BY <3>1, <3>2, <4>1
    <3>6. CASE \/ FetchThread(u) \/ ReturnThread(u)
      <4>1. cache' = cache /\ wbuf' = wbuf /\ val' = val /\ wbuf[u] = None
        BY <1>0, <3>1, <3>6 DEF FetchThread, ReturnThread, WbufOK
      <4> QED
        BY <3>1, <3>2, <4>1
    <3>7. CASE \/ pint_enqueue_flag_clear(u) \/ pint_wait_write_done(u)
               \/ ClaimThread(u) \/ ReserveSlots(u) \/ StoreThread(u)
      <4>1. cache' = cache /\ wbuf' = wbuf /\ val' = val /\ cur' = cur
        BY <3>7 DEF pint_enqueue_flag_clear, pint_wait_write_done, ClaimThread,
           ReserveSlots, StoreThread
      <4> QED
        BY <3>1, <3>2, <4>1
    <3> QED
      BY <1>0, <1>5, <3>1, <3>3, <3>4, <3>5, <3>6, <3>7 DEF UnitStep
  <2> QED
    BY <2>2, <2>3 DEF CacheOK
<1>6. CASE UNCHANGED vars
  BY <1>6 DEF vars, uvars, CacheOK
<1> QED
  BY <1>1, <1>2, <1>3, <1>4, <1>5, <1>6 DEF Next, MainStep

\* With every unit off nothing is computed, written or still to be noted.
LEMMA OffIdle ==
    ASSUME TypeInv, \A v \in Units : pc[v] = "off", NEW l
    PROVE  \A v \in Units : ~ Driving(v, l) /\ ~ Working(v, l) /\ wbuf[v] = None
BY DEF Driving, Working, TypeInv, WbufOK

\* What the mcore's own steps leave alone: memory, and no unit has started.
LEMMA MainIdle ==
    ASSUME TypeInv, TypeInv',
           \/ StartParallel \/ RunSingle \/ pint_swap_active_and_inactive_queue \/ NextTime
    PROVE  /\ val' = val
           /\ \A v \in Units : /\ pc[v] = "off" /\ wbuf'[v] = None
                               /\ pc'[v] \in {"off", "dequeue", "fetch"}
<1>1. CASE StartParallel
  <2>1. /\ val' = val /\ \A v \in Units : pc[v] = "off"
        /\ \A v \in Units : pc'[v] \in {"off", "dequeue", "fetch"}
    BY <1>1, UnitIn DEF StartParallel, TypeInv, PhaseOK
  <2> QED
    BY <2>1 DEF TypeInv, WbufOK
<1>2. CASE RunSingle
  <2>1. /\ val' = val /\ \A v \in Units : pc[v] = "off"
        /\ \A v \in Units : pc'[v] \in {"off", "dequeue", "fetch"}
    BY <1>2, UnitIn DEF RunSingle, TypeInv, PhaseOK, TypeOK
  <2> QED
    BY <2>1 DEF TypeInv, WbufOK
<1>3. CASE pint_swap_active_and_inactive_queue
  BY <1>3 DEF pint_swap_active_and_inactive_queue, AllOff, TypeInv, WbufOK
<1>4. CASE NextTime
  BY <1>4, UnitIn DEF NextTime, uvars, TypeInv, PhaseOK, WbufOK
<1> QED
  BY <1>1, <1>2, <1>3, <1>4

\* A unit that has read an LPM's inputs has read what they are now.
LEMMA ReadsFresh ==
    ASSUME TypeInv, FreshOK, NEW u \in Units, pc[u] = "read", NEW l \in Lpms, cur[u] = l,
           \A s \in Reads(l) : cache[u][s] # None, ~ Owed(l)
    PROVE  /\ Eval(l, cache[u]) = Eval(l, val) /\ Eval(l, val) \in Values
           /\ cache[u][l] = Eval(l, val) => Right(l)
<1>1. Inputs[l] \subseteq Reads(l) /\ l \in Reads(l) /\ Inputs[l] \subseteq Tasks
  BY NetAssumption DEF Reads
<1>2. /\ \A s \in Inputs[l] : cache[u][s] \in {None, val[s]}
      /\ cache[u][l] \in {None, val[l]} \/ Right(l)
  BY DEF FreshOK
<1>3. \A s \in Inputs[l] : cache[u][s] = val[s] /\ val[s] \in Values
  BY <1>1, <1>2 DEF TypeInv, TypeOK
<1>4. /\ cache[u] \in [Tasks -> Values \cup {None}] /\ val \in [Tasks -> Values \cup {None}]
  BY DEF TypeInv, TypeOK
<1>5. Eval(l, val) \in Values /\ Eval(l, val) = Eval(l, cache[u])
  BY <1>3, <1>4, EvalSame
<1>6. cache[u][l] = Eval(l, val) => Right(l)
  BY <1>1, <1>2 DEF Right
<1> QED
  BY <1>5, <1>6

\* A completed write of an LPM leaves its output right unless a run is owed.
LEMMA OutputStep ==
    ASSUME TypeInv, TypeInv', UnitsOK, WriteOK, NEW u \in Units, UnitStep(u), NEW l \in Lpms,
           ~ Owed(l), Eval(l, val') = Eval(l, val)
    PROVE  /\ val'[l] = val[l] \/ Right(l)'
           /\ Right(l) => Right(l)'
           /\ WriteCompletes(u) /\ cur[u] = l => Right(l)'
<1>0. l \in Tasks /\ val \in [Tasks -> Values]
  BY DEF TypeInv, TypeOK, Tasks
<1>1. CASE WriteCompletes(u) /\ cur[u] = l
  <2>1. val'[l] = wbuf[u] /\ wbuf[u] # None
    BY <1>0, <1>1 DEF WriteCompletes
  <2>2. wbuf[u] = Eval(l, val)
    BY <1>1, <2>1 DEF WriteOK
  <2> QED
    BY <2>1, <2>2 DEF Right
<1>2. CASE ~ (WriteCompletes(u) /\ cur[u] = l)
  <2>1. val'[l] = val[l]
    BY <1>0, <1>2, ValStep DEF WriteCompletes
  <2> QED
    BY <1>2, <2>1 DEF Right
<1> QED
  BY <1>1, <1>2

\* Every step keeps what the running LPMs have read fresh, or owes them a run.
LEMMA FreshStep ==
    ASSUME TypeInv, TypeInv', ~ Overrun', UnitsOK, DispatchInv, BatchInv, HeadOK, FlagOK, CacheOK, FreshOK,
           WriteOK, [Next]_vars
    PROVE  FreshOK'
<1>1. CASE \/ StartParallel \/ RunSingle \/ pint_swap_active_and_inactive_queue \/ NextTime
  BY <1>1, MainIdle DEF FreshOK
<1>2. ASSUME NEW u \in Units, UnitStep(u) PROVE FreshOK'
  <2> SUFFICES ASSUME NEW v \in Units, NEW l \in Lpms, cur'[v] = l, pc'[v] = "read", ~ Owed(l)'
               PROVE  /\ \A s \in Inputs[l] : cache'[v][s] \in {None, val'[s]}
                      /\ cache'[v][l] \in {None, val'[l]} \/ Right(l)'
    BY DEF FreshOK
  <2>0. ~ Owed(l)
    BY <1>2, OwedStays DEF Started
  <2>1. (\A s \in Inputs[l] : val'[s] = val[s]) /\ Eval(l, val') = Eval(l, val)
    BY <1>2, InputStep DEF Owed
  <2>2. (val'[l] = val[l] \/ Right(l)') /\ (Right(l) => Right(l)')
    BY <1>2, <2>0, <2>1, OutputStep
  <2>3. l \in Tasks /\ Inputs[l] \subseteq Tasks
    BY NetAssumption DEF Tasks
  <2>4. CASE v # u
    <3>1. cur[v] = l /\ pc[v] = "read" /\ cache'[v] = cache[v]
      BY <1>2, <2>4, OthersKept
    <3>2. /\ \A s \in Inputs[l] : cache[v][s] \in {None, val[s]}
          /\ cache[v][l] \in {None, val[l]} \/ Right(l)
      BY <2>0, <3>1 DEF FreshOK
    <3> QED
      BY <2>1, <2>2, <3>1, <3>2
  <2>5. CASE v = u
    <3> USE <2>5 DEF TypeInv, TypeOK
    <3>1. CASE pint_enqueue_flag_clear(u)
      <4>1. pc[u] = "clear" /\ cache' = cache /\ val' = val /\ wbuf[u] = None
        BY <3>1 DEF pint_enqueue_flag_clear, WbufOK
      <4>2. \A s \in Tasks : cache[u][s] \in {None, val[s]}
        <5>1. CASE u \in Cores
          BY <4>1, <5>1 DEF CacheOK, NoLine
        <5>2. CASE u = Mcore
          <6>1. mc # "parallel"
            BY <4>1, <5>2, AtWork
          <6> QED
            BY <4>1, <5>2, <6>1 DEF CacheOK
        <5> QED
          BY <5>1, <5>2, UnitIn
      <4> QED
        BY <2>3, <4>1, <4>2
    <3>2. CASE ReadSignal(u)
      <4>1. cur[u] = l /\ pc[u] = "read" /\ val' = val
        BY <3>2 DEF ReadSignal
      <4>2. \A s \in Tasks : cache'[u][s] \in {cache[u][s], val[s]}
        BY <3>2 DEF ReadSignal
      <4>3. /\ \A s \in Inputs[l] : cache[u][s] \in {None, val[s]}
            /\ cache[u][l] \in {None, val[l]} \/ Right(l)
        BY <2>0, <4>1 DEF FreshOK
      <4> QED
        BY <2>2, <2>3, <4>1, <4>2, <4>3
    <3>3. CASE FetchThread(u)
      <4>1. pc'[u] = "read" => cur'[u] \notin Lpms
        BY <3>3 DEF FetchThread
      <4> QED
        BY <4>1
    <3>4. CASE \/ (u \in Cores /\ pint_dequeue_thread(u)) \/ pint_wait_write_done(u)
               \/ ClaimThread(u) \/ ReserveSlots(u) \/ StoreThread(u) \/ ReturnThread(u)
      BY <3>4 DEF pint_dequeue_thread, pint_wait_write_done, ClaimThread, ReserveSlots,
         StoreThread, ReturnThread
    <3>5. CASE WriteCompletes(u)
      BY <3>5 DEF WriteCompletes, WbufOK
    <3>6. CASE DriveSignal(u)
      BY <3>6 DEF DriveSignal
    <3> QED
      BY <1>2, <3>1, <3>2, <3>3, <3>4, <3>5, <3>6 DEF UnitStep
  <2> QED
    BY <2>4, <2>5
<1>3. CASE UNCHANGED vars
  BY <1>3 DEF vars, qvars, uvars, FreshOK, Right, Owed, Driving, Later, OnInactive,
     Stored, Reserved, InHand, Held
<1> QED
  BY <1>1, <1>2, <1>3 DEF Next, MainStep

\* What DriveSignal leaves in the write buffer.
LEMMA DriveResult ==
    ASSUME TypeInv, NEW u \in Units, DriveSignal(u), NEW l \in Lpms, cur[u] = l
    PROVE  /\ pc[u] = "read" /\ wbuf[u] = None /\ cur' = cur /\ val' = val
           /\ \A s \in Reads(l) : cache[u][s] # None
           /\ pc'[u] \in {"wait", "return"}
           /\ \/ wbuf'[u] = None /\ cache[u][l] = Eval(l, cache[u])
              \/ wbuf'[u] = Eval(l, cache[u])
<1> USE DEF TypeInv, TypeOK
<1>1. /\ pc[u] = "read" /\ wbuf[u] = None /\ cur' = cur /\ val' = val
      /\ \A s \in Reads(l) : cache[u][s] # None
  BY DEF DriveSignal, WbufOK
<1>2. pc'[u] \in {"wait", "return"}
  BY DEF DriveSignal
<1>3. Outcomes(u) = {Eval(l, cache[u])}
  BY DEF Outcomes
<1>4. \/ wbuf' = wbuf /\ cache[u][l] = Eval(l, cache[u])
      \/ wbuf' = [wbuf EXCEPT ![u] = Eval(l, cache[u])]
  BY <1>3 DEF DriveSignal
<1> QED
  BY <1>1, <1>2, <1>4

\* Every step keeps a pending write of an LPM right, or owes it a run.
LEMMA WriteStep ==
    ASSUME TypeInv, TypeInv', ~ Overrun', UnitsOK, DispatchInv, BatchInv, HeadOK, FlagOK, FreshOK,
           WriteOK, [Next]_vars
    PROVE  WriteOK'
<1>1. CASE \/ StartParallel \/ RunSingle \/ pint_swap_active_and_inactive_queue \/ NextTime
  BY <1>1, MainIdle DEF WriteOK
<1>2. ASSUME NEW u \in Units, UnitStep(u) PROVE WriteOK'
  <2> SUFFICES ASSUME NEW v \in Units, NEW l \in Lpms, cur'[v] = l, wbuf'[v] # None, ~ Owed(l)'
               PROVE  wbuf'[v] = Eval(l, val')
    BY DEF WriteOK
  <2>0. Started(v)'
    BY DEF TypeInv, WbufOK, Started
  <2>1. ~ Owed(l)
    BY <1>2, <2>0, OwedStays
  <2>2. Eval(l, val') = Eval(l, val)
    BY <1>2, InputStep DEF Owed
  <2>3. CASE v # u
    <3>1. cur[v] = l /\ wbuf'[v] = wbuf[v]
      BY <1>2, <2>3, OthersKept
    <3> QED
      BY <2>1, <2>2, <3>1 DEF WriteOK
  <2>4. CASE v = u
    <3> USE <2>4 DEF TypeInv, TypeOK
    <3>1. CASE DriveSignal(u)
      <4>1. cur[u] = l
        BY <3>1 DEF DriveSignal
      <4>2. /\ pc[u] = "read" /\ \A s \in Reads(l) : cache[u][s] # None
            /\ wbuf'[u] = Eval(l, cache[u])
        BY <3>1, <4>1, DriveResult
      <4>3. Eval(l, cache[u]) = Eval(l, val)
        BY <2>1, <4>1, <4>2, ReadsFresh
      <4> QED
        BY <2>2, <4>2, <4>3
    <3>2. CASE WriteCompletes(u)
      BY <3>2 DEF WriteCompletes
    <3>3. CASE pint_wait_write_done(u) \/ ReturnThread(u)
      BY <3>3 DEF pint_wait_write_done, ReturnThread
    <3>4. CASE \/ (u \in Cores /\ pint_dequeue_thread(u)) \/ FetchThread(u)
               \/ pint_enqueue_flag_clear(u) \/ ReadSignal(u)
               \/ ClaimThread(u) \/ ReserveSlots(u) \/ StoreThread(u)
      BY <3>4 DEF pint_dequeue_thread, FetchThread, pint_enqueue_flag_clear, ReadSignal,
         ClaimThread, ReserveSlots, StoreThread, WbufOK
    <3> QED
      BY <1>2, <3>1, <3>2, <3>3, <3>4 DEF UnitStep
  <2> QED
    BY <2>3, <2>4
<1>3. CASE UNCHANGED vars
  BY <1>3 DEF vars, qvars, uvars, WriteOK, Owed, Driving, Later, OnInactive,
     Stored, Reserved, InHand, Held
<1> QED
  BY <1>1, <1>2, <1>3 DEF Next, MainStep

\* Every step leaves an LPM right, or with a run to come or under way.
LEMMA SettledStep ==
    ASSUME TypeInv, TypeInv', ~ Overrun', UnitsOK, UnitsOK', DispatchInv, BatchInv, HeadOK, FlagOK, FreshOK,
           WriteOK, SettledOK, [Next]_vars
    PROVE  SettledOK'
<1> SUFFICES ASSUME NEW l \in Lpms
             PROVE  \/ Right(l)' \/ Unrun(l)' \/ OnActive(l)' # {} \/ Owed(l)'
                    \/ \E v \in Units : Working(v, l)'
  BY DEF SettledOK
<1>0. Right(l) \/ Unrun(l) \/ OnActive(l) # {} \/ Owed(l) \/ \E v \in Units : Working(v, l)
  BY DEF SettledOK
<1>1. CASE StartParallel \/ RunSingle \/ NextTime
  <2>1. Same(l) /\ val' = val /\ \A v \in Units : pc[v] = "off"
    BY <1>1, StartRuns, TimeRuns, MainIdle
  <2>2. Right(l) \/ Unrun(l) \/ OnActive(l) # {} \/ Later(l)
    BY <1>0, <2>1, OffIdle DEF Owed
  <2> QED
    BY <2>1, <2>2 DEF Same, Right, Unrun, Later, Owed
<1>2. CASE pint_swap_active_and_inactive_queue
  <2>1. val' = val /\ \A v \in Units : pc[v] = "off"
    BY <1>2, MainIdle
  <2>2. OnActive(l)' = OnInactive(l) /\ InHand(l) = {} /\ OnActive(l) = {}
    BY <1>2, SwapRuns, SwapFinds
  <2>3. Right(l) \/ Unrun(l) \/ Later(l)
    BY <1>0, <2>1, <2>2, OffIdle DEF Owed
  <2> QED
    BY <2>1, <2>2, <2>3 DEF Right, Unrun, Later
<1>3. ASSUME NEW u \in Units, UnitStep(u)
      PROVE  \/ Right(l)' \/ Unrun(l)' \/ OnActive(l)' # {} \/ Owed(l)'
             \/ \E v \in Units : Working(v, l)'
  <2>1. CASE Owed(l)
    BY <1>3, <2>1, OwedKept
  <2>2. CASE ~ Owed(l) /\ ~ Owed(l)'
    <3>1. Eval(l, val') = Eval(l, val)
      BY <1>3, <2>2, InputStep DEF Owed
    <3>2. (Right(l) => Right(l)') /\ (WriteCompletes(u) /\ cur[u] = l => Right(l)')
      BY <1>3, <2>2, <3>1, OutputStep
    <3>3. CASE OnActive(l) # {}
      <4>1. CASE pint_enqueue_flag_clear(u) /\ cur[u] = l
        <5>1. cur'[u] = l /\ pc'[u] = "read"
          BY <4>1 DEF pint_enqueue_flag_clear, TypeInv, TypeOK
        <5> QED
          BY <5>1 DEF Working
      <4>2. CASE ~ (pint_enqueue_flag_clear(u) /\ cur[u] = l)
        BY <1>3, <3>3, <4>2, ActiveWaits
      <4> QED
        BY <4>1, <4>2
    <3>4. ASSUME NEW v \in Units, Working(v, l) PROVE Right(l)' \/ Working(v, l)'
      <4>1. CASE v # u
        BY <1>3, <3>4, <4>1, OthersKept DEF Working
      <4>2. CASE v = u
        <5>0. cur[u] = l /\ pc[u] \in {"read", "wait", "return"} /\ (pc[u] # "read" => wbuf[u] # None)
          BY <3>4, <4>2 DEF Working, TypeInv, WbufOK
        <5>1. CASE WriteCompletes(u)
          BY <3>2, <5>0, <5>1
        <5>2. CASE ReadSignal(u)
          BY <4>2, <5>0, <5>2 DEF ReadSignal, Working
        <5>3. CASE DriveSignal(u)
          <6>1. /\ pc[u] = "read" /\ cur' = cur /\ \A s \in Reads(l) : cache[u][s] # None
                /\ \/ wbuf'[u] = None /\ cache[u][l] = Eval(l, cache[u])
                   \/ wbuf'[u] = Eval(l, cache[u])
            BY <5>0, <5>3, DriveResult
          <6>2. /\ Eval(l, cache[u]) = Eval(l, val) /\ Eval(l, val) \in Values
                /\ cache[u][l] = Eval(l, val) => Right(l)
            BY <2>2, <5>0, <6>1, ReadsFresh
          <6>3. CASE cache[u][l] = Eval(l, cache[u])
            BY <3>2, <6>2, <6>3
          <6>4. CASE wbuf'[u] = Eval(l, cache[u])
            <7>1. wbuf'[u] # None
              BY <6>2, <6>4, TasksAssumption
            <7> QED
              BY <4>2, <5>0, <6>1, <7>1 DEF Working
          <6> QED
            BY <6>1, <6>3, <6>4
        <5> QED
          BY <1>3, <5>0, <5>1, <5>2, <5>3 DEF UnitStep, pint_dequeue_thread, FetchThread,
             pint_enqueue_flag_clear, pint_wait_write_done, ClaimThread, ReserveSlots,
             StoreThread, ReturnThread
      <4> QED
        BY <4>1, <4>2
    <3>5. Unrun(l) => Unrun(l)' \/ Right(l)'
      <4>1. \A s \in Inputs[l] : val'[s] = val[s]
        BY <1>3, <2>2, InputStep DEF Owed
      <4>2. val'[l] = val[l] \/ Right(l)'
        BY <1>3, <2>2, <3>1, OutputStep
      <4> QED
        BY <4>1, <4>2 DEF Unrun, Reads
    <3> QED
      BY <1>0, <2>2, <3>2, <3>3, <3>4, <3>5
  <2> QED
    BY <2>1, <2>2
<1>4. CASE UNCHANGED vars
  BY <1>0, <1>4 DEF vars, qvars, uvars, Right, Unrun, Working, OnActive, Unstarted, Owed, Driving,
     Later, OnInactive, Stored, Reserved, InHand, Held
<1> QED
  BY <1>1, <1>2, <1>3, <1>4 DEF Next, MainStep

-----------------------------------------------------------------------------
(* The invariant of the phase.                                              *)
ActiveInv ==
    /\ DispatchInv /\ BatchInv
    /\ UnitsOK /\ HeadOK /\ CountOK /\ FlagOK
    /\ CacheOK /\ FreshOK /\ WriteOK /\ SettledOK

\* pint_global_init leaves the queues within their arrays, every LPM that
\* needs it once on the queue that runs first, every process once on a queue, and nothing else.
LEMMA InitQueues ==
    ASSUME Init
    PROVE  /\ pint_q_head["ACTIVE"] <= QLen
           /\ pint_q_head["INACTIVE"] <= QLen /\ pint_q_head["INACTIVE"] >= 0
           /\ \A i \in Slots : i < pint_q_head["ACTIVE"] =>
                 pint_q_base["ACTIVE"][i] \in NeedsInit \cup Procs
           /\ \A i \in Slots : i < pint_q_head["INACTIVE"] => pint_q_base["INACTIVE"][i] \in Procs
           /\ \A l \in NeedsInit : \E i \in Slots :
                 i < pint_q_head["ACTIVE"] /\ pint_q_base["ACTIVE"][i] = l
           /\ \A l \in NeedsInit : \A i, j \in Slots :
                 pint_q_base["ACTIVE"][i] = l /\ pint_q_base["ACTIVE"][j] = l => i = j
           /\ \A p \in Procs : \A i, j \in Slots :
                 /\ i < pint_q_head["INACTIVE"] /\ j < pint_q_head["INACTIVE"]
                 /\ pint_q_base["INACTIVE"][i] = p /\ pint_q_base["INACTIVE"][j] = p
                 => i = j
<1>1. /\ IsFiniteSet(NeedsInit) /\ IsFiniteSet(Procs) /\ None \notin NeedsInit /\ None \notin Procs
      /\ Cardinality(NeedsInit) \in Nat /\ Cardinality(Procs) \in Nat
  BY TasksAssumption, BoundsAssumption, FS_CardinalityType, FS_Subset DEF Tasks
<1>2. QLen \in Nat /\ Cardinality(NeedsInit) <= QLen /\ Cardinality(Procs) <= QLen
  <2>1. Cardinality(Lpms) \in Nat /\ Cardinality(NeedsInit) <= Cardinality(Lpms)
    BY TasksAssumption, BoundsAssumption, FS_CardinalityType, FS_Subset
  <2> QED
    BY <1>1, <2>1, BoundsAssumption
<1>3. \A i \in Slots : i \in Int /\ i >= 0
  BY BoundsAssumption DEF Slots
<1>4. PICK a \in Filled(NeedsInit), b \in Filled(Procs) :
         /\ pint_q_base = IF NeedsInit = {} THEN [ACTIVE |-> b, INACTIVE |-> a]
                                       ELSE [ACTIVE |-> a, INACTIVE |-> b]
         /\ pint_q_head = IF NeedsInit = {}
                          THEN [ACTIVE |-> Cardinality(Procs), INACTIVE |-> 0]
                          ELSE [ACTIVE |-> Cardinality(NeedsInit),
                                INACTIVE |-> Cardinality(Procs)]
  BY DEF Init
<1>5. /\ \A i \in Slots : i < Cardinality(NeedsInit) => a[i] \in NeedsInit
      /\ \A i, j \in Slots : a[i] = a[j] /\ a[i] \in NeedsInit => i = j
      /\ \A t \in NeedsInit : \E i \in Slots : i < Cardinality(NeedsInit) /\ a[i] = t
  BY <1>1, <1>2, FilledFull
<1>6. /\ \A i \in Slots : i < Cardinality(Procs) => b[i] \in Procs
      /\ \A i, j \in Slots : b[i] = b[j] /\ b[i] \in Procs => i = j
  BY <1>1, <1>2, FilledFull
<1>7. CASE NeedsInit = {}
  <2>1. /\ pint_q_base["ACTIVE"] = b /\ pint_q_head["ACTIVE"] = Cardinality(Procs)
        /\ pint_q_head["INACTIVE"] = 0
    BY <1>4, <1>7
  <2> QED
    BY <1>1, <1>2, <1>3, <1>6, <1>7, <2>1
<1>8. CASE NeedsInit # {}
  <2>1. /\ pint_q_base["ACTIVE"] = a /\ pint_q_head["ACTIVE"] = Cardinality(NeedsInit)
        /\ pint_q_base["INACTIVE"] = b /\ pint_q_head["INACTIVE"] = Cardinality(Procs)
    BY <1>4, <1>8
  <2>2. \A i \in Slots : i < pint_q_head["ACTIVE"] =>
                 pint_q_base["ACTIVE"][i] \in NeedsInit \cup Procs
    BY <1>1, <1>5, <2>1
  <2>3. /\ \A l \in NeedsInit : \E i \in Slots :
                 i < pint_q_head["ACTIVE"] /\ pint_q_base["ACTIVE"][i] = l
        /\ \A l \in NeedsInit : \A i, j \in Slots :
                 pint_q_base["ACTIVE"][i] = l /\ pint_q_base["ACTIVE"][j] = l => i = j
    BY <1>5, <2>1
  <2>4. \A p \in Procs : \A i, j \in Slots :
                 /\ i < pint_q_head["INACTIVE"] /\ j < pint_q_head["INACTIVE"]
                 /\ pint_q_base["INACTIVE"][i] = p /\ pint_q_base["INACTIVE"][j] = p
                 => i = j
    BY <1>6, <2>1
  <2>5. \A i \in Slots : i < pint_q_head["INACTIVE"] => pint_q_base["INACTIVE"][i] \in Procs
    BY <1>6, <2>1
  <2>6. /\ pint_q_head["ACTIVE"] <= QLen
        /\ pint_q_head["INACTIVE"] <= QLen /\ pint_q_head["INACTIVE"] >= 0
    BY <1>1, <1>2, <2>1
  <2> QED
    BY <2>2, <2>3, <2>4, <2>5, <2>6
<1> QED
  BY <1>7, <1>8

\* The initial state satisfies the invariant.
LEMMA InitActive == Init => ActiveInv
<1> SUFFICES ASSUME Init PROVE ActiveInv
  OBVIOUS
<1>0. TypeInv
  BY InitType
<1>1. /\ mc = "loop" /\ pint_enqueue_flag = {}
      /\ \A u \in Units : /\ pc[u] = "off" /\ got[u] = <<>> /\ wbuf[u] = None
                          /\ cache[u] = NoLine /\ cur[u] = None
      /\ val = InitVal
  BY DEF Init
<1>2. UnitsOK
  BY <1>1 DEF UnitsOK, UnitOK
<1>3. DispatchInv /\ BatchInv
  BY <1>1, InitQueues, UnitIn DEF DispatchInv, Running, BatchInv, Storing
<1>4. /\ \A l : InHand(l) = {}
      /\ \A i \in Slots : Stored(i) <=> i < pint_q_head["INACTIVE"]
      /\ \A i \in Slots : Unstarted(i) <=> i < pint_q_head["ACTIVE"]
  BY <1>0, <1>1, <1>2, OffRuns
<1>5. \A l \in Lpms : OnInactive(l) = {}
  BY <1>4, InitQueues, TasksAssumption DEF OnInactive
<1>6. \A i \in Slots : Stored(i) => pint_q_base["INACTIVE"][i] # None
  BY <1>4, InitQueues, TasksAssumption DEF Tasks
<1>7. HeadOK
  <2>1. \A i \in Slots : i < pint_q_head["ACTIVE"] => pint_q_base["ACTIVE"][i] # None
    BY InitQueues, TasksAssumption, BoundsAssumption DEF Tasks
  <2> QED
    BY <1>1, <1>5, <1>6, <2>1, InitQueues DEF HeadOK
<1>8. \A l \in Lpms : OneOf(OnActive(l)) /\ (l \in NeedsInit => OnActive(l) # {})
  <2>1. \A l \in NeedsInit : OneOf(OnActive(l)) /\ OnActive(l) # {}
    BY <1>4, InitQueues DEF OneOf, OnActive
  <2>2. \A l \in Lpms : l \notin NeedsInit => OnActive(l) = {}
    BY <1>4, InitQueues, TasksAssumption DEF OnActive
  <2> QED
    BY <2>1, <2>2 DEF OneOf
<1>9. \A p \in Procs : OneOf(OnInactive(p))
  BY <1>4, InitQueues DEF OneOf, OnInactive
<1>10. \A l \in Lpms : OneOf(Runs(l)) /\ TwoOf(Runs(l))
  BY <1>4, <1>5, <1>8 DEF Runs, OneOf, TwoOf
<1>11. CountOK /\ FlagOK /\ SettledOK
  BY <1>1, <1>8, <1>9, <1>10 DEF CountOK, FlagOK, SettledOK, Unrun
<1>12. CacheOK
  <2>1. \A s \in Tasks : NoLine[s] = None
    BY DEF NoLine
  <2> QED
    BY <1>1, <2>1, UnitIn DEF CacheOK
<1>13. FreshOK /\ WriteOK
  BY <1>1 DEF FreshOK, WriteOK
<1> QED
  BY <1>2, <1>3, <1>7, <1>11, <1>12, <1>13 DEF ActiveInv

\* Every step that does not overrun the queue keeps the invariant.
LEMMA ActiveStep ==
    TypeInv /\ TypeInv' /\ ~ Overrun' /\ ActiveInv /\ [Next]_vars => ActiveInv'
<1> SUFFICES ASSUME TypeInv, TypeInv', ~ Overrun', ActiveInv, [Next]_vars PROVE ActiveInv'
  OBVIOUS
<1> USE DEF ActiveInv
<1>1. DispatchInv' /\ BatchInv'
  BY DispatchStep, BatchStep
<1>2. UnitsOK'
  BY UnitsStep
<1>3. HeadOK' /\ CountOK' /\ FlagOK'
  BY <1>2, HeadStep, CountStep, FlagStep
<1>4. CacheOK' /\ FreshOK' /\ WriteOK' /\ SettledOK'
  BY <1>2, CacheStep, FreshStep, WriteStep, SettledStep
<1> QED
  BY <1>1, <1>2, <1>3, <1>4

\* The unit that overran the queue stays where it is.
LEMMA OverrunStays == TypeInv /\ Overrun /\ [Next]_vars => Overrun'
<1> SUFFICES ASSUME TypeInv, Overrun, [Next]_vars PROVE Overrun'
  OBVIOUS
<1>1. PICK w \in Units : pc[w] = "overrun"
  BY DEF Overrun
<1>2. mc # "loop" /\ ~ AllOff
  BY <1>1, UnitIn DEF TypeInv, PhaseOK, AllOff
<1>3. ASSUME NEW u \in Units, UnitStep(u) PROVE pc'[w] = "overrun"
  <2>1. CASE w = u
    BY <1>1, <1>3, <2>1 DEF UnitStep, pint_dequeue_thread, FetchThread,
       pint_enqueue_flag_clear, ReadSignal, DriveSignal, WriteCompletes,
       pint_wait_write_done, ClaimThread, ReserveSlots, StoreThread, ReturnThread,
       TypeInv, WbufOK
  <2>2. CASE w # u
    BY <1>1, <1>3, <2>2, OthersKept
  <2> QED
    BY <2>1, <2>2
<1>4. ASSUME UNCHANGED vars PROVE pc'[w] = "overrun"
  BY <1>1, <1>4 DEF vars, uvars
<1>5. pc'[w] = "overrun"
  BY <1>2, <1>3, <1>4 DEF Next, MainStep, StartParallel, RunSingle,
     pint_swap_active_and_inactive_queue, NextTime
<1> QED
  BY <1>5 DEF Overrun

\* The invariant holds until a batch overruns the queue.
LEMMA ActiveInvariant == Spec => [](TypeInv /\ (Overrun \/ ActiveInv))
<1>1. TypeInv /\ TypeInv' /\ (Overrun \/ ActiveInv) /\ [Next]_vars => (Overrun \/ ActiveInv)'
  BY ActiveStep, OverrunStays
<1> QED
  BY <1>1, InitActive, TypeInvariant, PTL DEF Spec

\* A batch fits as long as there is a second slot for every LPM or none has a
\* second run to come.
LEMMA BatchFits ==
    ASSUME LongEnough \/ \A l \in Lpms : OneOf(Runs(l)), TypeInv, TypeInv', ~ Overrun,
           UnitsOK, BatchInv, HeadOK, CountOK, [Next]_vars
    PROVE  ~ Overrun'
<1> SUFFICES ASSUME NEW w \in Units, pc'[w] = "overrun"
             PROVE  FALSE
  BY DEF Overrun
<1>0. /\ pc[w] # "overrun"
      /\ pc \in [Units -> {"off", "dequeue", "fetch", "clear", "read", "wait",
                          "claim", "store", "overrun", "return", "fault"}]
  BY DEF Overrun, TypeInv, TypeOK
<1>1. ASSUME NEW u \in Units, UnitStep(u) PROVE FALSE
  <2>1. u = w
    BY <1>0, <1>1, OthersKept
  <2>2. ReserveSlots(u)
    BY <1>0, <1>1, <2>1 DEF UnitStep, pint_dequeue_thread, FetchThread,
       pint_enqueue_flag_clear, ReadSignal, DriveSignal, WriteCompletes,
       pint_wait_write_done, ClaimThread, StoreThread, ReturnThread
  <2>3. pc[u] = "claim" /\ pint_q_head["INACTIVE"] + Len(got[u]) > QLen
    BY <1>0, <2>1, <2>2 DEF ReserveSlots
  <2>4. pint_q_head["INACTIVE"] + Len(got[u]) <= QLen
    BY <2>3, ReserveFits
  <2>5. pint_q_head["INACTIVE"] \in Int /\ Len(got[u]) \in Nat /\ QLen \in Nat
    BY LenGot, BoundsAssumption DEF TypeInv, TypeOK
  <2> QED
    BY <2>3, <2>4, <2>5
<1>2. pc' # pc
  BY <1>0
<1> QED
  BY <1>0, <1>1, <1>2, UnitIn DEF Next, MainStep, StartParallel, RunSingle,
     pint_swap_active_and_inactive_queue, NextTime, vars, uvars

(***************************************************************************)
(* Queues with a second slot for every LPM would never overrun: at most    *)
(* two runs of an LPM are outstanding, one of them with its bit set.       *)
(* thread_q_len has one slot for each.                                     *)
(***************************************************************************)
THEOREM NoOverrunIfLong == ASSUME LongEnough PROVE Spec => []~Overrun
<1>1. TypeInv /\ TypeInv' /\ ~ Overrun /\ ActiveInv /\ [Next]_vars => ~ Overrun'
  BY BatchFits DEF ActiveInv
<1>2. Init => ~ Overrun
  BY DEF Init, Overrun
<1> QED
  BY <1>1, <1>2, ActiveInvariant, PTL DEF Spec

\* When the time has advanced no LPM has a second run to come, and one whose bit is
\* clear has none: the run that pint_global_init queued with the bit clear is over.
LaterOK ==
    T > 0 => \A l \in Lpms : OneOf(Runs(l)) /\ (l \notin pint_enqueue_flag => Runs(l) = {})

\* Every step keeps that.
LEMMA LaterStep ==
    ASSUME TypeInv, TypeInv', ~ Overrun', UnitsOK, UnitsOK', DispatchInv, BatchInv, HeadOK, LaterOK,
           [Next]_vars
    PROVE  LaterOK'
<1>0. ASSUME T' = T, \A l \in Lpms : Same(l), pint_enqueue_flag' = pint_enqueue_flag
      PROVE  LaterOK'
  <2>1. \A l \in Lpms : Runs(l)' = Runs(l)
    BY <1>0 DEF Runs, Same
  <2> QED
    BY <1>0, <2>1 DEF LaterOK
<1>1. CASE StartParallel \/ RunSingle
  BY <1>0, <1>1, StartRuns DEF StartParallel, RunSingle
<1>3. CASE pint_swap_active_and_inactive_queue
  <2>1. \A l : /\ OnActive(l)' = OnInactive(l) /\ OnInactive(l)' = {}
               /\ InHand(l)' = {}
    BY <1>3, SwapRuns
  <2>2. T' = T /\ pint_enqueue_flag' = pint_enqueue_flag
    BY <1>3 DEF pint_swap_active_and_inactive_queue
  <2>3. ASSUME NEW l \in Lpms, OneOf(Runs(l)) PROVE OneOf(Runs(l))'
    <3>1. \A i \in OnInactive(l) : <<"inactive", i>> \in Runs(l)
      BY DEF Runs
    <3>2. Runs(l)' = {"active"} \X OnInactive(l)
      BY <2>1 DEF Runs
    <3>3. \A i, j \in OnInactive(l) : i = j
      BY <2>3, <3>1 DEF OneOf
    <3>4. OneOf({"active"} \X OnInactive(l))
      BY <3>3 DEF OneOf
    <3> QED
      BY <3>2, <3>4
  <2>4. ASSUME NEW l \in Lpms, Runs(l) = {} PROVE Runs(l)' = {}
    <3>1. \A i \in OnInactive(l) : <<"inactive", i>> \in Runs(l)
      BY DEF Runs
    <3>2. OnInactive(l) = {}
      BY <2>4, <3>1
    <3>3. Runs(l)' = ({"active"} \X {}) \cup ({"inactive"} \X {}) \cup ({"hand"} \X {})
      BY <2>1, <3>2 DEF Runs
    <3> QED
      BY <3>3
  <2> QED
    BY <2>2, <2>3, <2>4 DEF LaterOK
<1>4. CASE NextTime
  <2>1. \A l \in Lpms : Same(l) /\ OnActive(l) = {}
    BY <1>4, TimeRuns
  <2>2. mc = "loop" /\ \A v \in Units : pc[v] = "off"
    BY <1>4, UnitIn DEF NextTime, TypeInv, PhaseOK
  <2>3. \A l \in Lpms : InHand(l) = {}
    BY <2>2, OffRuns
  <2>4. \A l \in Lpms : OnInactive(l) = {}
    BY <2>2 DEF HeadOK
  <2>5. \A l \in Lpms : Runs(l)' = {}
    BY <2>1, <2>3, <2>4 DEF Same, Runs
  <2> QED
    BY <2>5 DEF LaterOK, OneOf
<1>5. ASSUME NEW u \in Units, UnitStep(u) PROVE LaterOK'
  <2>0. T' = T
    BY <1>5 DEF UnitStep, pint_dequeue_thread, FetchThread,
       pint_enqueue_flag_clear, ReadSignal, DriveSignal, WriteCompletes,
       pint_wait_write_done, ClaimThread, ReserveSlots, StoreThread, ReturnThread
  <2>3. CASE u \in Cores /\ pint_dequeue_thread(u)
    BY <1>0, <1>5, <2>0, <2>3, DequeueRuns DEF pint_dequeue_thread
  <2>4. CASE FetchThread(u)
    BY <1>0, <1>5, <2>0, <2>4, FetchRuns DEF FetchThread
  <2>5. CASE pint_enqueue_flag_clear(u)
    <3>1. \A l : /\ OnInactive(l)' = OnInactive(l) /\ InHand(l)' = InHand(l)
                 /\ OnActive(l)' = OnActive(l) \ {deq_idx[u] - 1}
                 /\ l = cur[u] => deq_idx[u] - 1 \in OnActive(l)
                 /\ l # cur[u] => OnActive(l)' = OnActive(l)
      BY <1>5, <2>5, ClearRuns
    <3>2. pint_enqueue_flag' = pint_enqueue_flag \ {cur[u]} /\ cur[u] \in Lpms
      BY <2>5 DEF pint_enqueue_flag_clear, UnitsOK, UnitOK
    <3>3. \A l \in Lpms : l # cur[u] => Runs(l)' = Runs(l)
      BY <3>1 DEF Runs
    <3>4. ASSUME NEW l \in Lpms, l = cur[u], OneOf(Runs(l)) PROVE Runs(l)' = {}
      <4> DEFINE e == <<"active", deq_idx[u] - 1>>
      <4>1. e \in Runs(l)
        BY <3>1, <3>4 DEF Runs
      <4>2. Runs(l)' = ({"active"} \X (OnActive(l) \ {deq_idx[u] - 1}))
                        \cup ({"inactive"} \X OnInactive(l)) \cup ({"hand"} \X InHand(l))
        BY <3>1 DEF Runs
      <4>3. Runs(l)' \subseteq Runs(l) \ {e}
        BY <4>2 DEF Runs
      <4> HIDE DEF e
      <4> QED
        BY <3>4, <4>1, <4>3 DEF OneOf
    <3>5. ASSUME NEW l \in Lpms, T > 0
          PROVE  OneOf(Runs(l))' /\ (l \notin pint_enqueue_flag' => Runs(l)' = {})
      <4>1. OneOf(Runs(l)) /\ (l \notin pint_enqueue_flag => Runs(l) = {})
        BY <3>5 DEF LaterOK
      <4>2. CASE l = cur[u]
        BY <3>4, <4>1, <4>2 DEF OneOf
      <4>3. CASE l # cur[u]
        BY <3>2, <3>3, <4>1, <4>3 DEF OneOf
      <4> QED
        BY <4>2, <4>3
    <3> QED
      BY <2>0, <3>5 DEF LaterOK
  <2>6. CASE \/ ReadSignal(u) \/ DriveSignal(u) \/ WriteCompletes(u)
             \/ pint_wait_write_done(u) \/ ReturnThread(u)
    <3>1. \A l : Same(l)
      BY <1>5, <2>6, QuietRuns
    <3>2. pint_enqueue_flag' = pint_enqueue_flag
      BY <2>6 DEF ReadSignal, DriveSignal, WriteCompletes, pint_wait_write_done, ReturnThread
    <3> QED
      BY <1>0, <2>0, <3>1, <3>2
  <2>7. CASE ClaimThread(u)
    <3> DEFINE l0 == Fanout[cur[u]][pos[u]]
               e == <<"hand", <<u, Len(got[u]) + 1>> >>
    <3>1. \A l : /\ OnActive(l)' = OnActive(l) /\ OnInactive(l)' = OnInactive(l)
                 /\ l # l0 \/ l \in pint_enqueue_flag => InHand(l)' = InHand(l)
                 /\ l = l0 /\ l \notin pint_enqueue_flag
                    => InHand(l)' = InHand(l) \cup {<<u, Len(got[u]) + 1>>}
      BY <1>5, <2>7, ClaimRuns
    <3>2. pint_enqueue_flag' = pint_enqueue_flag \cup {l0}
      BY <2>7 DEF ClaimThread
    <3> HIDE DEF l0
    <3>3. \A l \in Lpms : l # l0 \/ l \in pint_enqueue_flag => Runs(l)' = Runs(l)
      BY <3>1 DEF Runs
    <3>4. \A l \in Lpms : l = l0 /\ l \notin pint_enqueue_flag => Runs(l)' \subseteq Runs(l) \cup {e}
      BY <3>1 DEF Runs
    <3> HIDE DEF e
    <3>5. ASSUME NEW l \in Lpms, T > 0
          PROVE  OneOf(Runs(l))' /\ (l \notin pint_enqueue_flag' => Runs(l)' = {})
      <4>1. OneOf(Runs(l)) /\ (l \notin pint_enqueue_flag => Runs(l) = {})
        BY <3>5 DEF LaterOK
      <4>2. CASE l # l0 \/ l \in pint_enqueue_flag
        BY <3>2, <3>3, <4>1, <4>2 DEF OneOf
      <4>3. CASE l = l0 /\ l \notin pint_enqueue_flag
        <5>1. Runs(l)' \subseteq {e}
          BY <3>4, <4>1, <4>3
        <5> QED
          BY <3>2, <4>3, <5>1 DEF OneOf
      <4> QED
        BY <4>2, <4>3
    <3> QED
      BY <2>0, <3>5 DEF LaterOK
  <2>8. CASE ReserveSlots(u)
    BY <1>0, <1>5, <2>0, <2>8, ReserveRuns DEF ReserveSlots
  <2>9. CASE StoreThread(u)
    <3> DEFINE k0 == stored[u] + 1
               i0 == enq_idx[u] + stored[u]
               l0 == got[u][k0]
    <3>1. \A l : /\ OnActive(l)' = OnActive(l)
                 /\ InHand(l)' = InHand(l) \ {<<u, k0>>}
                 /\ l # l0 => OnInactive(l)' = OnInactive(l) /\ InHand(l)' = InHand(l)
                 /\ l = l0 =>
                      /\ OnInactive(l)' = OnInactive(l) \cup {i0}
                      /\ <<u, k0>> \in InHand(l)
      BY <1>5, <2>9, StoreRuns
    <3>2. pint_enqueue_flag' = pint_enqueue_flag
      BY <2>9 DEF StoreThread
    <3> HIDE DEF l0, k0, i0
    <3>4. \A l \in Lpms : l # l0 => Runs(l)' = Runs(l)
      BY <3>1 DEF Runs
    <3>5. ASSUME NEW l \in Lpms, l = l0
          PROVE  (OneOf(Runs(l)) => OneOf(Runs(l))') /\ Runs(l) # {}
      <4>1. <<"hand", <<u, k0>> >> \in Runs(l)
        BY <3>1, <3>5 DEF Runs
      <4>2. Runs(l)' = ({"active"} \X OnActive(l)) \cup ({"inactive"} \X (OnInactive(l) \cup {i0}))
                        \cup ({"hand"} \X (InHand(l) \ {<<u, k0>>}))
        BY <3>1, <3>5 DEF Runs
      <4>3. Runs(l)' \subseteq (Runs(l) \ {<<"hand", <<u, k0>> >>}) \cup {<<"inactive", i0>>}
        BY <4>2 DEF Runs
      <4> QED
        BY <4>1, <4>3, FewMoved
    <3>6. ASSUME NEW l \in Lpms, T > 0
          PROVE  OneOf(Runs(l))' /\ (l \notin pint_enqueue_flag' => Runs(l)' = {})
      <4>1. OneOf(Runs(l)) /\ (l \notin pint_enqueue_flag => Runs(l) = {})
        BY <3>6 DEF LaterOK
      <4> QED
        BY <3>2, <3>4, <3>5, <4>1 DEF OneOf
    <3> QED
      BY <2>0, <3>6 DEF LaterOK
  <2> QED
    BY <1>5, <2>3, <2>4, <2>5, <2>6, <2>7, <2>8, <2>9 DEF UnitStep
<1>6. CASE UNCHANGED vars
  <2>1. \A l : Same(l)
    BY <1>6 DEF vars, qvars, uvars, Same, OnActive, Unstarted, OnInactive, Stored,
       Reserved, InHand, Held
  <2>2. T' = T /\ pint_enqueue_flag' = pint_enqueue_flag
    BY <1>6 DEF vars
  <2> QED
    BY <1>0, <2>1, <2>2
<1> QED
  BY <1>1, <1>3, <1>4, <1>5, <1>6 DEF Next, MainStep

(***************************************************************************)
(* With the thread_q_len slots of the code, one for every process and one  *)
(* for every LPM, the queues can overrun in the first phase only: once the *)
(* time has advanced no LPM waits twice.                                   *)
(***************************************************************************)
THEOREM LaterNoOverrun == Spec => []OverrunAtStart
<1> DEFINE J == Overrun \/ (ActiveInv /\ LaterOK)
<1>1. Init => J /\ OverrunAtStart
  BY InitActive DEF Init, LaterOK, OverrunAtStart
<1>2. TypeInv /\ TypeInv' /\ J /\ [Next]_vars => J'
  <2>1. ActiveInv /\ UnitsOK' /\ LaterOK /\ TypeInv /\ TypeInv' /\ ~ Overrun' /\ [Next]_vars => LaterOK'
    BY LaterStep DEF ActiveInv
  <2>2. ActiveInv' => UnitsOK'
    BY DEF ActiveInv
  <2> QED
    BY <2>1, <2>2, ActiveStep, OverrunStays
<1>3. TypeInv /\ TypeInv' /\ J /\ OverrunAtStart /\ [Next]_vars => OverrunAtStart'
  <2> SUFFICES ASSUME TypeInv, TypeInv', J, OverrunAtStart, [Next]_vars, Overrun' PROVE T' = 0
    BY DEF OverrunAtStart
  <2>1. T' = T
    <3>1. PICK w \in Units : pc'[w] = "overrun"
      BY DEF Overrun
    <3>2. ~ NextTime
      <4>1. mc' # "loop"
        BY <3>1, UnitIn DEF TypeInv, PhaseOK
      <4> QED
        BY <4>1 DEF NextTime
    <3> QED
      BY <3>2 DEF Next, MainStep, StartParallel, RunSingle, pint_swap_active_and_inactive_queue,
         UnitStep, pint_dequeue_thread, FetchThread, pint_enqueue_flag_clear, ReadSignal,
         DriveSignal, WriteCompletes, pint_wait_write_done, ClaimThread, ReserveSlots,
         StoreThread, ReturnThread, vars
  <2>2. CASE Overrun
    BY <2>1, <2>2 DEF OverrunAtStart
  <2>3. CASE ~ Overrun
    <3>1. SUFFICES ASSUME T > 0 PROVE FALSE
      BY <2>1 DEF TypeInv, TypeOK
    <3>2. \A l \in Lpms : OneOf(Runs(l))
      BY <2>3, <3>1 DEF LaterOK
    <3> QED
      BY <2>3, <3>2, BatchFits DEF ActiveInv
  <2> QED
    BY <2>2, <2>3
<1> HIDE DEF J
<1> QED
  BY <1>1, <1>2, <1>3, TypeInvariant, PTL DEF Spec

(***************************************************************************)
(* No unit ever calls an empty slot or one beyond the array, as long as no *)
(* batch overran the queue: pint_add_list_to_inactive reserves before it   *)
(* stores, but the swap waits for the stores.                              *)
(***************************************************************************)
THEOREM FaultFree == Spec => []NoFault
<1>1. Overrun \/ ActiveInv => NoFault
  BY DEF ActiveInv, UnitsOK, UnitOK, NoFault
<1> QED
  BY <1>1, ActiveInvariant, PTL

(***************************************************************************)
(* A set bit of pint_enqueue_flag always stands for a run still to come,   *)
(* whatever the order in which cores set, clear, reserve and store, until  *)
(* a batch overruns the queue.                                             *)
(***************************************************************************)
THEOREM FlagSafe == Spec => []FlagMeansPending
<1>1. TypeInv /\ (Overrun \/ ActiveInv) => FlagMeansPending
  <2> SUFFICES ASSUME TypeInv, ActiveInv, NEW l \in pint_enqueue_flag
               PROVE  QueuedActive(l) \/ QueuedInactive(l) \/ Claimed(l) \/ Starting(l)
    BY DEF FlagMeansPending
  <2>1. CASE OnActive(l) # {}
    <3>1. PICK i \in Slots : Unstarted(i) /\ pint_q_base["ACTIVE"][i] = l
      BY <2>1 DEF OnActive
    <3>2. CASE i < pint_q_head["ACTIVE"]
      BY <3>1, <3>2 DEF QueuedActive
    <3>3. ASSUME NEW u \in Units, pc[u] \in {"fetch", "clear"}, deq_idx[u] = i + 1
          PROVE  Starting(l)
      <4>1. deq_idx[u] - 1 = i
        BY <3>3, BoundsAssumption DEF Slots
      <4>2. pc[u] = "clear" => cur[u] = l
        BY <3>1, <4>1 DEF ActiveInv, UnitsOK, UnitOK
      <4> QED
        BY <3>1, <3>3, <4>1, <4>2 DEF Starting
    <3> QED
      BY <3>1, <3>2, <3>3 DEF Unstarted
  <2>2. CASE OnInactive(l) # {}
    BY <2>2 DEF OnInactive, Stored, QueuedInactive
  <2>3. CASE InHand(l) # {}
    <3>1. PICK x \in Units \X Nat : Held(x[1], x[2]) /\ got[x[1]][x[2]] = l
      BY <2>3 DEF InHand
    <3> QED
      BY <3>1 DEF Held, Claimed
  <2> QED
    BY <2>1, <2>2, <2>3 DEF ActiveInv, FlagOK, Later
<1> QED
  BY <1>1, ActiveInvariant, PTL

(***************************************************************************)
(* When the phase ends every LPM's output is its function of its inputs:   *)
(* late writes, stale caches, two cores running one LPM and the test and   *)
(* set of its bit never lose a change.  The exceptions are the code's own: *)
(* an LPM that was never queued and none of whose signals changed, and a   *)
(* queue that overran.                                                     *)
(***************************************************************************)
THEOREM SettledSafe == Spec => []Settled
<1>1. TypeInv /\ (Overrun \/ ActiveInv) => Settled
  <2> SUFFICES ASSUME TypeInv, ActiveInv, mc = "loop", pint_q_head["ACTIVE"] <= 0,
                      NEW l \in Lpms
               PROVE  Right(l) \/ Unrun(l)
    BY DEF Settled, Right
  <2>1. \A v \in Units : pc[v] = "off"
    BY UnitIn DEF TypeInv, PhaseOK
  <2>2. /\ InHand(l) = {}
        /\ \A i \in Slots : Unstarted(i) <=> i < pint_q_head["ACTIVE"]
    BY <2>1, OffRuns DEF ActiveInv
  <2>3. \A i \in Slots : ~ (i < pint_q_head["ACTIVE"])
    BY BoundsAssumption DEF Slots, TypeInv, TypeOK
  <2>4. OnActive(l) = {}
    BY <2>2, <2>3 DEF OnActive
  <2>5. OnInactive(l) = {}
    BY DEF ActiveInv, HeadOK
  <2>6. ~ Owed(l) /\ \A v \in Units : ~ Working(v, l)
    BY <2>1, <2>2, <2>5, OffIdle DEF Owed, Later
  <2> QED
    BY <2>4, <2>6 DEF ActiveInv, SettledOK
<1> QED
  BY <1>1, ActiveInvariant, PTL
=============================================================================
