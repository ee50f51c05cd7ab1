------------------------------ MODULE PintMain ------------------------------
(***************************************************************************)
(* The main loop of the PLS runtime in its sequential (CPU_MODE) build:    *)
(* every queue main() drains, the five stages in their order, and what the *)
(* generated threads can do to the queues (simu/src/main.c,                *)
(* simu/src/pint_simu.c, and the statements tgt-pint generates).           *)
(*                                                                         *)
(* What a thread computes is abstracted: it may assign any signal, make    *)
(* any nonblocking assignment, and so on, at most Fuel times altogether.   *)
(***************************************************************************)
EXTENDS Integers, Sequences, FiniteSets, SequencesExt

CONSTANTS
    Procs,      \* processes: initial blocks and always blocks that may suspend
    Statics,    \* always blocks with a single @(...), run from the static table
    Always,     \* the static threads generated with pint_event_flag = 0x55
    Lpms,       \* continuous assignments with a delay
    Nbs,        \* targets of nonblocking assignments
    Strobes,    \* $strobe calls
    SList,      \* SList[s]: the static threads an edge of s wakes
    PList,      \* PList[s]: the static threads that read s
    LList,      \* LList[s]: the LPMs that read s
    Delays,     \* the delays in the design
    None,
    MaxT,       \* bound on the simulation time
    Fuel        \* bound on the statements executed

Signals == Nbs \cup Lpms
Threads == Procs \cup Statics \cup Lpms
QNames == {"ACTIVE", "INACTIVE", "NBASSIGN", "DELAY0", "MONITOR"}
FutureStructs == Procs \cup Nbs        \* pint_future_thread[]

ASSUME MainAssumption ==
    /\ Always \subseteq Statics /\ Delays \subseteq Nat /\ MaxT \in Nat /\ Fuel \in Nat
    /\ SList \in [Signals -> Seq(Statics)] /\ PList \in [Signals -> SUBSET Statics]
    /\ LList \in [Signals -> Seq(Lpms)]

\* The parts of the design are finite and have names of their own.
ASSUME NamesAssumption ==
    /\ IsFiniteSet(Procs) /\ IsFiniteSet(Lpms) /\ IsFiniteSet(Nbs)
    /\ Procs \cap (Statics \cup Lpms \cup Nbs \cup Strobes) = {}
    /\ Statics \cap (Lpms \cup Nbs \cup Strobes) = {}
    /\ Lpms \cap (Nbs \cup Strobes) = {} /\ Nbs \cap Strobes = {}
    /\ None \notin Threads

VARIABLES
    q,             \* [QNames -> Seq(...)]: the queues, each as long as its head
    active_head,   \* main's local copy of the length of ACTIVE_Q
    static_table,  \* static_event_list_table
    future_q,      \* pint_future_q: sequence of FutureStructs
    future_T,      \* pint_future_thread[x].T
    lpm_q,         \* pint_lpm_future_q_idx_active
    lpm_T,         \* pint_lpm_future_thread[l].T
    lpm_state,     \* pint_lpm_future_thread[l].lpm_state
    flags,         \* the bits set in pint_enqueue_flag
    mflags,        \* the bits set in pint_monitor_enqueue_flag
    event_flag,    \* pint_event_flag
    waiters,       \* waiters[s]: the thread_list of the event "s changes"
    T,
    pint_stop,
    stage,         \* where main is
    i, j,          \* its loop counters
    cur,           \* the thread that runs, or None
    fuel

queues == <<q, static_table, future_q, lpm_q, waiters>>
data == <<future_T, lpm_T, lpm_state, flags, mflags, event_flag>>
ctl == <<active_head, T, pint_stop, stage, i, j>>
vars == <<queues, data, ctl, cur, fuel>>

pint_enqueue_thread(qs, name, t) == [qs EXCEPT ![name] = Append(@, t)]
EnqueueAll(qs, name, ts) == [qs EXCEPT ![name] = @ \o ts]

\* pint_queue_init, pint_global_init and the swap before the loop: the delayed
\* LPMs are active and the processes inactive.
Init ==
    /\ \E ls \in SetToSeqs(Lpms), ps \in SetToSeqs(Procs) :
         /\ q = [[n \in QNames |-> <<>>] EXCEPT !["ACTIVE"] = IF ls = <<>> THEN ps ELSE ls,
                                                !["INACTIVE"] = IF ls = <<>> THEN <<>> ELSE ps]
         /\ active_head = IF ls = <<>> THEN Len(ps) ELSE Len(ls)
    /\ static_table = <<>> /\ future_q = <<>> /\ lpm_q = <<>>
    /\ waiters = [s \in Signals |-> <<>>]
    /\ future_T = [x \in FutureStructs |-> 0]
    /\ lpm_T = [l \in Lpms |-> 0]
    /\ lpm_state = [l \in Lpms |-> "WAIT"]
    /\ flags = {} /\ mflags = {}
    /\ event_flag = [s \in Statics |-> IF s \in Always THEN 85 ELSE 1]
    /\ T = 0 /\ pint_stop = FALSE
    /\ stage = "active" /\ i = 0 /\ j = 0
    /\ cur = None /\ fuel = Fuel

-----------------------------------------------------------------------------
(* What a statement does to the queues.                                    *)

\* The LPMs of a list whose bit is clear, each once and in the order of the list.
Clear(list, fl) ==
    {w \in SetToSeqs(ToSet(list) \ fl) :
        \A x, y \in DOMAIN w : x < y =>
            \E a \in DOMAIN list :
                list[a] = w[x] /\ \A b \in DOMAIN list : list[b] = w[y] => a < b}

\* A signal changes: pint_set_event_flag(p_list), then the waiting threads move
\* to INACTIVE_Q, the s_list goes on the static table, and the LPMs of the
\* l_list whose bit was clear go to INACTIVE_Q.
Changed(s, cleared) ==
    LET fl == flags \ cleared
    IN \E wake \in Clear(LList[s], fl) :
         /\ event_flag' = [x \in Statics |-> IF x \in PList[s] THEN 1 ELSE event_flag[x]]
         /\ static_table' = IF SList[s] = <<>> THEN static_table
                                              ELSE Append(static_table, SList[s])
         /\ q' = EnqueueAll(q, "INACTIVE", waiters[s] \o wake)
         /\ waiters' = [waiters EXCEPT ![s] = <<>>]
         /\ flags' = fl \cup ToSet(wake)

\* The target's bit queues the assignment once.
pint_enqueue_nb_thread_by_idx(n) ==
    /\ q' = IF n \in flags THEN q ELSE pint_enqueue_thread(q, "NBASSIGN", n)
    /\ flags' = flags \cup {n}

pint_enqueue_thread_future(x, t) ==
    /\ future_T' = [future_T EXCEPT ![x] = t]
    /\ future_q' = Append(future_q, x)

\* The entry belongs to the statement: a second execution overwrites its time.
\* enqueue_flag makes two assignments of one activation with one target and one delay
\* share an entry; here each may also queue an entry of its own, with the same time.
pint_enqueue_nb_future(n, delay) ==
    IF delay > 0 THEN pint_enqueue_thread_future(n, T + delay) /\ UNCHANGED <<q, flags>>
                 ELSE pint_enqueue_nb_thread_by_idx(n) /\ UNCHANGED <<future_T, future_q>>

\* An LPM that is queued already is only given the new time.
pint_lpm_enqueue_thread_future(l, t) ==
    /\ lpm_T' = [lpm_T EXCEPT ![l] = t]
    /\ lpm_q' = IF l \in ToSet(lpm_q) THEN lpm_q ELSE Append(lpm_q, l)

pint_wait_on_event(s, thread) == waiters' = [waiters EXCEPT ![s] = Append(@, thread)]

-----------------------------------------------------------------------------
(* The statements of the generated threads (tgt-pint/statement.c and, for  *)
(* the LPMs, tgt-pint/pint_show_lpm.c).                                    *)

Burn == fuel > 0 /\ fuel' = fuel - 1

\* A blocking assignment that changes s.
AssignStmt(s) ==
    /\ cur \in Procs \cup Statics /\ Burn
    /\ Changed(s, {})
    /\ UNCHANGED <<future_q, lpm_q, future_T, lpm_T, lpm_state, mflags, ctl, cur>>

\* n <= expression.
NbAssignStmt(n) ==
    /\ cur \in Procs \cup Statics /\ Burn
    /\ pint_enqueue_nb_thread_by_idx(n)
    /\ UNCHANGED <<static_table, future_q, lpm_q, waiters, future_T, lpm_T, lpm_state,
                   mflags, event_flag, ctl, cur>>

\* n <= #d expression.
NbFutureStmt(n, d) ==
    /\ cur \in Procs \cup Statics /\ Burn /\ T + d <= MaxT
    /\ pint_enqueue_nb_future(n, d)
    /\ UNCHANGED <<static_table, lpm_q, waiters, lpm_T, lpm_state, mflags, event_flag,
                   ctl, cur>>

\* $strobe: the bit in pint_monitor_enqueue_flag queues it once per time step.
StrobeStmt(m) ==
    /\ cur \in Procs \cup Statics /\ Burn
    /\ q' = IF m \in mflags THEN q ELSE pint_enqueue_thread(q, "MONITOR", m)
    /\ mflags' = mflags \cup {m}
    /\ UNCHANGED <<static_table, future_q, lpm_q, waiters, future_T, lpm_T, lpm_state,
                   flags, event_flag, ctl, cur>>

\* $finish: pint_stop_simu; the thread and main's current pass go on.
FinishStmt ==
    /\ cur \in Procs \cup Statics /\ Burn
    /\ pint_stop' = TRUE
    /\ UNCHANGED <<queues, data, active_head, T, stage, i, j, cur>>

\* #d: the process resumes at T + d, or from DELAY0_Q.
DelayStmt(d) ==
    /\ cur \in Procs /\ Burn /\ T + d <= MaxT
    /\ IF d > 0 THEN pint_enqueue_thread_future(cur, T + d) /\ UNCHANGED q
                ELSE /\ q' = pint_enqueue_thread(q, "DELAY0", cur)
                     /\ UNCHANGED <<future_T, future_q>>
    /\ cur' = None
    /\ UNCHANGED <<static_table, lpm_q, waiters, lpm_T, lpm_state, flags, mflags,
                   event_flag, ctl>>

\* @(s)
WaitStmt(s) ==
    /\ cur \in Procs /\ Burn
    /\ pint_wait_on_event(s, cur)
    /\ cur' = None
    /\ UNCHANGED <<q, static_table, future_q, lpm_q, data, ctl>>

\* The end of a process, or of one run of a static thread.
ThreadReturns ==
    /\ cur \in Procs \cup Statics
    /\ cur' = None
    /\ UNCHANGED <<queues, data, ctl, fuel>>

\* pint_lpm_N in state WAIT clears its bit and waits for its delay.  A zero delay
\* re-queues it on INACTIVE_Q in state EXEC.
LpmWaits(d) ==
    /\ cur \in Lpms /\ lpm_state[cur] = "WAIT" /\ T + d <= MaxT
    /\ flags' = flags \ {cur}
    /\ IF d > 0
       THEN pint_lpm_enqueue_thread_future(cur, T + d) /\ UNCHANGED <<lpm_state, q>>
       ELSE /\ lpm_state' = [lpm_state EXCEPT ![cur] = "EXEC"]
            /\ q' = pint_enqueue_thread(q, "INACTIVE", cur)
            /\ UNCHANGED <<lpm_T, lpm_q>>
    /\ cur' = None
    /\ UNCHANGED <<static_table, future_q, waiters, future_T, mflags, event_flag, ctl, fuel>>

\* ... and in state EXEC: drive the output, which changes or not.
LpmDrives ==
    /\ cur \in Lpms /\ lpm_state[cur] = "EXEC"
    /\ lpm_state' = [lpm_state EXCEPT ![cur] = "WAIT"]
    /\ \/ Changed(cur, {cur}) /\ Burn
       \/ /\ flags' = flags \ {cur}
          /\ UNCHANGED <<event_flag, static_table, q, waiters, fuel>>
    /\ cur' = None
    /\ UNCHANGED <<future_q, lpm_q, future_T, lpm_T, mflags, ctl>>

ThreadStep ==
    \/ \E s \in Signals : AssignStmt(s) \/ WaitStmt(s)
    \/ \E n \in Nbs : NbAssignStmt(n) \/ \E d \in Delays : NbFutureStmt(n, d)
    \/ \E m \in Strobes : StrobeStmt(m)
    \/ \E d \in Delays : DelayStmt(d) \/ LpmWaits(d)
    \/ FinishStmt
    \/ ThreadReturns
    \/ LpmDrives

-----------------------------------------------------------------------------
(* main's loop, between two threads.                                       *)

pint_swap_active_and_inactive_queue(qs) ==
    [qs EXCEPT !["ACTIVE"] = qs["INACTIVE"], !["INACTIVE"] = <<>>]

\* Stage 1: run ACTIVE_Q in order, swap, until it comes back empty.
RunActive ==
    /\ stage = "active" /\ cur = None /\ i < active_head
    /\ cur' = q["ACTIVE"][i + 1]
    /\ i' = i + 1
    /\ UNCHANGED <<queues, data, active_head, T, pint_stop, stage, j, fuel>>

SwapActive ==
    /\ stage = "active" /\ cur = None /\ active_head > 0 /\ i = active_head
    /\ q' = pint_swap_active_and_inactive_queue(q)
    /\ active_head' = Len(q["INACTIVE"])
    /\ i' = 0
    /\ UNCHANGED <<static_table, future_q, lpm_q, waiters, data, T, pint_stop, stage, j,
                   cur, fuel>>

\* Mutant of LeaveActive: the static table waits for the nonblocking assignments.
LeaveStaticForLater ==
    /\ stage = "active" /\ cur = None /\ active_head = 0
    /\ stage' = IF static_table # <<>> /\ q["NBASSIGN"] = <<>> THEN "static" ELSE "nb"
    /\ i' = 0 /\ j' = 0
    /\ UNCHANGED <<queues, data, active_head, T, pint_stop, cur, fuel>>

\* ... then the static table, or on to stage 2.
LeaveActive ==
    /\ stage = "active" /\ cur = None /\ active_head = 0
    /\ stage' = IF static_table # <<>> THEN "static" ELSE "nb"
    /\ i' = 0 /\ j' = 0
    /\ UNCHANGED <<queues, data, active_head, T, pint_stop, cur, fuel>>

\* execute_static_q_thread_cpu: a flag of 1 is consumed, 0 skips the thread.  The
\* table may grow while it runs.
RunStatic ==
    /\ stage = "static" /\ cur = None /\ i < Len(static_table)
    /\ LET list == static_table[i + 1]
           t == list[j + 1]
       IN /\ cur' = IF event_flag[t] # 0 THEN t ELSE None
          /\ event_flag' = [event_flag EXCEPT ![t] = IF @ = 1 THEN 0 ELSE @]
          /\ IF j + 1 < Len(list) THEN i' = i /\ j' = j + 1 ELSE i' = i + 1 /\ j' = 0
    /\ UNCHANGED <<queues, future_T, lpm_T, lpm_state, flags, mflags, active_head, T,
                   pint_stop, stage, fuel>>

StaticDone ==
    /\ stage = "static" /\ cur = None /\ i = Len(static_table)
    /\ static_table' = <<>>
    /\ q' = pint_swap_active_and_inactive_queue(q)
    /\ active_head' = Len(q["INACTIVE"])
    /\ stage' = "active" /\ i' = 0
    /\ UNCHANGED <<future_q, lpm_q, waiters, data, T, pint_stop, j, cur, fuel>>

\* Mutant of RunNb: pint_nb_assign leaves the bit set.
NbKeepsBit ==
    /\ stage = "nb" /\ i < Len(q["NBASSIGN"])
    /\ LET n == q["NBASSIGN"][i + 1] IN
         Changed(n, {}) \/ UNCHANGED <<flags, event_flag, static_table, q, waiters>>
    /\ i' = i + 1
    /\ UNCHANGED <<future_q, lpm_q, future_T, lpm_T, lpm_state, mflags, active_head, T,
                   pint_stop, stage, j, cur, fuel>>

\* Stage 2: execute_nbassign_q_thread_cpu; pint_nb_assign clears the bit and
\* applies the value, which changes the target or not.
RunNb ==
    /\ stage = "nb" /\ i < Len(q["NBASSIGN"])
    /\ LET n == q["NBASSIGN"][i + 1] IN
         \/ Changed(n, {n})
         \/ /\ flags' = flags \ {n}
            /\ UNCHANGED <<event_flag, static_table, q, waiters>>
    /\ i' = i + 1
    /\ UNCHANGED <<future_q, lpm_q, future_T, lpm_T, lpm_state, mflags, active_head, T,
                   pint_stop, stage, j, cur, fuel>>

\* ... and the loop condition: back to stage 1 while there is something to run.
NbDone ==
    /\ stage = "nb" /\ i = Len(q["NBASSIGN"])
    /\ LET head == IF i > 0 THEN Len(q["INACTIVE"]) ELSE active_head IN
         /\ q' = IF i > 0
                 THEN [pint_swap_active_and_inactive_queue(q) EXCEPT !["NBASSIGN"] = <<>>]
                 ELSE q
         /\ active_head' = head
         /\ stage' = IF head > 0 \/ static_table # <<>> THEN "active" ELSE "delay0"
    /\ i' = 0
    /\ UNCHANGED <<static_table, future_q, lpm_q, waiters, data, T, pint_stop, j, cur, fuel>>

\* while (!pint_stop), at the top of the loop.
LoopTop(stop, qs) ==
    /\ stage' = IF stop THEN "stop" ELSE "active"
    /\ active_head' = Len(qs["ACTIVE"])
    /\ i' = 0

\* Mutant of RunDelay0: DELAY0_Q is not emptied.
Delay0Kept ==
    /\ stage = "delay0" /\ q["DELAY0"] # <<>>
    /\ q' = EnqueueAll(q, "ACTIVE", q["DELAY0"])
    /\ LoopTop(pint_stop, q')
    /\ UNCHANGED <<static_table, future_q, lpm_q, waiters, data, T, pint_stop, j, cur, fuel>>

\* Stage 3: the #0 threads become active.
RunDelay0 ==
    /\ stage = "delay0" /\ q["DELAY0"] # <<>>
    /\ q' = [EnqueueAll(q, "ACTIVE", q["DELAY0"]) EXCEPT !["DELAY0"] = <<>>]
    /\ LoopTop(pint_stop, q')
    /\ UNCHANGED <<static_table, future_q, lpm_q, waiters, data, T, pint_stop, j, cur, fuel>>

NoDelay0 ==
    /\ stage = "delay0" /\ q["DELAY0"] = <<>>
    /\ stage' = "monitor"
    /\ UNCHANGED <<queues, data, active_head, T, pint_stop, i, j, cur, fuel>>

\* Stage 4: strobe_function clears its bit and prints; the last in runs first.
RunMonitor ==
    /\ stage = "monitor" /\ q["MONITOR"] # <<>>
    /\ mflags' = mflags \ {Last(q["MONITOR"])}
    /\ q' = LET rest == [q EXCEPT !["MONITOR"] = Front(@)]
            IN IF rest["MONITOR"] = <<>> THEN pint_swap_active_and_inactive_queue(rest) ELSE rest
    /\ UNCHANGED <<static_table, future_q, lpm_q, waiters, future_T, lpm_T, lpm_state,
                   flags, event_flag, ctl, cur, fuel>>

MonitorDone ==
    /\ stage = "monitor" /\ q["MONITOR"] = <<>>
    /\ stage' = "future"
    /\ UNCHANGED <<queues, data, active_head, T, pint_stop, i, j, cur, fuel>>

\* Mutant of SwapRemove: the last entry is dropped and does not fill the hole.
RemoveLast(s, x) == Front(s)

\* The last entry of the queue fills the hole.
SwapRemove(s, x) == Front([s EXCEPT ![x] = Last(s)])

\* Stage 5: the time advances to the earliest entry of pint_future_q or, when one is
\* not later, of the delayed LPMs.
Earliest(s, time, t) ==
    /\ \E x \in DOMAIN s : time[s[x]] = t
    /\ \A x \in DOMAIN s : t <= time[s[x]]

AdvanceFuture ==
    /\ stage = "future"
    /\ \E next \in 0 .. MaxT :
         /\ Earliest(future_q, future_T, next)
         /\ \A x \in DOMAIN lpm_q : next < lpm_T[lpm_q[x]]
         /\ T' = next
    /\ stage' = "release"
    /\ UNCHANGED <<queues, data, active_head, pint_stop, i, j, cur, fuel>>

AdvanceLpm ==
    /\ stage = "future" /\ future_q # <<>>
    /\ \E next \in 0 .. MaxT :
         /\ Earliest(lpm_q, lpm_T, next)
         /\ \A x \in DOMAIN future_q : next <= future_T[future_q[x]]
         /\ T' = next
    /\ stage' = "dlpm"
    /\ UNCHANGED <<queues, data, active_head, pint_stop, i, j, cur, fuel>>

\* Mutant of Due: the entries from the new time on.
DueFrom(s, time) == {x \in DOMAIN s : time[s[x]] >= T}
\* The entries of a queue found for the new time.
Due(s, time) == {x \in DOMAIN s : time[s[x]] = T}

\* They are taken out from the last to the first: a process becomes active,
\* pint_handle_future_nb queues an assignment.
ReleaseFuture ==
    /\ stage = "release"
    /\ \E x \in Due(future_q, future_T) :
         /\ \A y \in Due(future_q, future_T) : y <= x
         /\ future_q' = SwapRemove(future_q, x)
         /\ IF future_q[x] \in Procs
            THEN q' = pint_enqueue_thread(q, "ACTIVE", future_q[x]) /\ UNCHANGED flags
            ELSE pint_enqueue_nb_thread_by_idx(future_q[x])
    /\ UNCHANGED <<static_table, lpm_q, waiters, future_T, lpm_T, lpm_state, mflags,
                   event_flag, ctl, cur, fuel>>

ReleaseLpm ==
    /\ stage = "dlpm"
    /\ \E x \in Due(lpm_q, lpm_T) :
         /\ \A y \in Due(lpm_q, lpm_T) : y <= x
         /\ lpm_q' = SwapRemove(lpm_q, x)
         /\ lpm_state' = [lpm_state EXCEPT ![lpm_q[x]] = "EXEC"]
         /\ q' = pint_enqueue_thread(q, "ACTIVE", lpm_q[x])
    /\ UNCHANGED <<static_table, future_q, waiters, future_T, lpm_T, flags, mflags,
                   event_flag, ctl, cur, fuel>>

ReleaseDone ==
    /\ \/ stage = "release" /\ Due(future_q, future_T) = {}
       \/ stage = "dlpm" /\ Due(lpm_q, lpm_T) = {}
    /\ LoopTop(pint_stop, q)
    /\ UNCHANGED <<queues, data, T, pint_stop, j, cur, fuel>>

\* Mutants of NoFuture: a single entry counts for none; pint_stop is not set.
StopWithOneLeft ==
    /\ stage = "future" /\ Len(future_q) <= 1
    /\ T' = 0
    /\ pint_stop' = TRUE
    /\ LoopTop(TRUE, q)
    /\ UNCHANGED <<queues, data, j, cur, fuel>>
NeverStop ==
    /\ stage = "future" /\ future_q = <<>>
    /\ T' = 0
    /\ LoopTop(pint_stop, q)
    /\ UNCHANGED <<queues, data, pint_stop, j, cur, fuel>>

\* Nothing on pint_future_q: next_time stays 0 and the simulation ends.
NoFuture ==
    /\ stage = "future" /\ future_q = <<>>
    /\ T' = 0
    /\ pint_stop' = TRUE
    /\ LoopTop(TRUE, q)
    /\ UNCHANGED <<queues, data, j, cur, fuel>>

MainStep ==
    \/ RunActive \/ SwapActive \/ LeaveActive
    \/ RunStatic \/ StaticDone
    \/ RunNb \/ NbDone
    \/ RunDelay0 \/ NoDelay0
    \/ RunMonitor \/ MonitorDone
    \/ AdvanceFuture \/ AdvanceLpm \/ NoFuture
    \/ ReleaseFuture \/ ReleaseLpm \/ ReleaseDone

Next == MainStep \/ ThreadStep

\* One processor executes the loop; a thread's body does not run forever.
Fairness == WF_vars(MainStep) /\ WF_vars(ThreadStep)

Spec == Init /\ [][Next]_vars /\ Fairness
-----------------------------------------------------------------------------
TypeOK ==
    /\ q \in [QNames -> Seq(Threads \cup Nbs \cup Strobes)]
    /\ active_head \in Nat
    /\ static_table \in Seq(Seq(Statics))
    /\ future_q \in Seq(FutureStructs) /\ future_T \in [FutureStructs -> 0 .. MaxT]
    /\ lpm_q \in Seq(Lpms) /\ lpm_T \in [Lpms -> 0 .. MaxT]
    /\ lpm_state \in [Lpms -> {"WAIT", "EXEC"}]
    /\ flags \subseteq Lpms \cup Nbs /\ mflags \subseteq Strobes
    /\ event_flag \in [Statics -> {0, 1, 85}]
    /\ waiters \in [Signals -> Seq(Procs)]
    /\ T \in 0 .. MaxT /\ pint_stop \in BOOLEAN
    /\ stage \in {"active", "static", "nb", "delay0", "monitor", "future",
                 "release", "dlpm", "stop"}
    /\ i \in Nat /\ j \in Nat
    /\ cur \in Threads \cup {None} /\ fuel \in 0 .. Fuel

Count(s, t) == Cardinality({x \in DOMAIN s : s[x] = t})
ActiveLeft == IF stage = "active" THEN SubSeq(q["ACTIVE"], i + 1, active_head) ELSE q["ACTIVE"]

\* How often a process is queued, delayed, waiting or running.
Places(p) ==
    (IF cur = p THEN 1 ELSE 0) + Count(ActiveLeft, p) + Count(q["INACTIVE"], p)
    + Count(q["DELAY0"], p) + Count(future_q, p)
    + Cardinality({s \in Signals : p \in ToSet(waiters[s])})

\* A process is never in two places: a swap, the #0 hand-over, the removal from
\* the future queue and the move from an event's list all take it out of where it
\* was, so no process can run twice for one suspension.  The types hold too.
OnePlace == TypeOK /\ \A p \in Procs : Places(p) <= 1

\* A process leaves the program only by finishing its body: whatever order the
\* stages run in, a suspended process stays in one of the queues main looks at.
NeverDropped ==
    [][\A p \in Procs : Places(p) = 1 /\ Places(p)' = 0 => cur = p]_vars

\* A nonblocking target's bit is set exactly while it waits on NBASSIGN_Q, and an
\* LPM's bit only while a run of it is to come.
NbLeft == IF stage = "nb" THEN SubSeq(q["NBASSIGN"], i + 1, Len(q["NBASSIGN"]))
                          ELSE q["NBASSIGN"]
BitMeansQueued ==
    /\ flags \cap Nbs = ToSet(NbLeft) /\ \A n \in Nbs : Count(NbLeft, n) <= 1
    /\ \A l \in flags \cap Lpms :
          l \in {cur} \cup ToSet(ActiveLeft) \cup ToSet(q["INACTIVE"])
    /\ mflags = ToSet(q["MONITOR"])

\* The static threads not reached yet in the table.
StaticLeft ==
    UNION {ToSet(IF stage = "static" /\ x = i + 1 THEN SubSeq(static_table[x], j + 1, Len(static_table[x]))
                                                  ELSE static_table[x])
           : x \in {y \in DOMAIN static_table : stage = "static" => y > i}}

\* The regions of the stratified event queue.  What falls due at a new time is
\* released as soon as the time has advanced.
Released == {x \in ToSet(future_q) : stage = "release" /\ future_T[x] = T}
ReleasedLpms == {l \in ToSet(lpm_q) : stage = "dlpm" /\ lpm_T[l] = T}

ActiveRegion ==
    ({cur} \ {None}) \cup ToSet(ActiveLeft) \cup ToSet(q["INACTIVE"]) \cup StaticLeft
    \cup (Released \ Nbs) \cup ReleasedLpms
    \cup (IF stage = "nb" THEN ToSet(NbLeft) ELSE {})
    \cup (IF stage \in {"monitor", "future"} THEN ToSet(q["MONITOR"]) ELSE {})
NbaRegion == (Released \cap Nbs) \cup (IF stage = "nb" THEN {} ELSE ToSet(q["NBASSIGN"]))
ZeroRegion == ToSet(q["DELAY0"])
PostponedRegion == IF stage \in {"monitor", "future"} THEN {} ELSE ToSet(q["MONITOR"])
FutureRegion ==
    {<<x, future_T[x]>> : x \in ToSet(future_q) \ Released}
    \cup {<<l, lpm_T[l]>> : l \in ToSet(lpm_q) \ ReleasedLpms}
Stopped == stage = "stop" \/ (stage \in {"release", "dlpm"} /\ pint_stop)

Regions == INSTANCE PintRegions WITH
    Events <- Threads \cup Nbs \cup Strobes, Updates <- Nbs, Background <- Lpms,
    now <- T, active <- ActiveRegion, nba <- NbaRegion, zero <- ZeroRegion,
    postponed <- PostponedRegion, future <- FutureRegion, stopped <- Stopped

\* main's loop implements the stratified event queue.
Stratified == Regions!Spec

\* A delayed process resumes at the very time it asked for.
OnTime ==
    [][\A p \in Procs : p \in ToSet(future_q) /\ p \notin ToSet(future_q')
          => T' = future_T[p]]_vars

\* What main's loop may leave behind when it sets pint_stop itself: processes that
\* have ended or wait for an event, and delayed LPMs that have not driven their output
\* yet.  Stage 5 does not look at the latter, so the change a process waits for may be
\* one of theirs; anything else that could still trigger an event has run.
StopsWhenIdle ==
    [][stage = "future" /\ ~pint_stop /\ pint_stop' =>
          /\ \A p \in Procs : Places(p) = 1 => \E s \in Signals : p \in ToSet(waiters[s])
          /\ flags = {} /\ mflags = {}
          /\ ActiveRegion \cup NbaRegion \cup ZeroRegion \cup PostponedRegion = {}
          /\ FutureRegion = {<<l, lpm_T[l]>> : l \in ToSet(lpm_q)}]_vars

\* Every simulation whose threads stop executing statements comes to an end.
Terminates == <>(stage = "stop")
=============================================================================
