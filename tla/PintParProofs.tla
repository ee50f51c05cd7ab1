----------------------------- MODULE PintParProofs -----------------------------
(***************************************************************************)
(* Theorems about PintPar: for any number of workers and processes, no     *)
(* process is lost or analysed twice, and the code is shown in order.      *)
(***************************************************************************)
EXTENDS PintPar, TLAPS

(* Queues of tasks *)

Range(q) == {q[i] : i \in 1..Len(q)}
Distinct(q) == \A i, j \in 1..Len(q) : q[i] = q[j] => i = j

\* push_back of a new task keeps the tasks apart.
LEMMA AppendTask ==
  ASSUME NEW S, NEW q \in Seq(S), NEW x \in S, Distinct(q), x \notin Range(q)
  PROVE  /\ Append(q, x) \in Seq(S)
         /\ Range(Append(q, x)) = Range(q) \cup {x}
         /\ Distinct(Append(q, x))
<1> DEFINE r == Append(q, x)
<1>1. /\ Len(q) \in Nat /\ Len(r) = Len(q) + 1 /\ r[Len(r)] = x
      /\ \A i \in 1..Len(q) : r[i] = q[i]
      /\ r \in Seq(S)
  OBVIOUS
<1>2. Range(r) = Range(q) \cup {x}
  <2>1. ASSUME NEW y \in Range(r) PROVE y \in Range(q) \cup {x}
    BY <1>1, <2>1 DEF Range
  <2>2. ASSUME NEW y \in Range(q) PROVE y \in Range(r)
    BY <1>1, <2>2 DEF Range
  <2>3. x \in Range(r)
    <3>1. Len(r) \in 1..Len(r)
      BY <1>1
    <3> QED BY <1>1, <3>1 DEF Range
  <2> QED BY <2>1, <2>2, <2>3
<1>3. Distinct(r)
  BY <1>1 DEF Distinct, Range
<1> QED BY <1>1, <1>2, <1>3

\* pop_front takes one task out and leaves the others.
LEMMA TakeTask ==
  ASSUME NEW S, NEW q \in Seq(S), q # <<>>, Distinct(q)
  PROVE  /\ Tail(q) \in Seq(S) /\ Head(q) \in S
         /\ Range(q) = Range(Tail(q)) \cup {Head(q)}
         /\ Head(q) \notin Range(Tail(q))
         /\ Distinct(Tail(q))
<1> DEFINE r == Tail(q)
<1>1. /\ Len(q) \in Nat \ {0} /\ Len(r) = Len(q) - 1 /\ Head(q) = q[1]
      /\ \A i \in 1..Len(r) : r[i] = q[i + 1]
      /\ r \in Seq(S) /\ q[1] \in S
  OBVIOUS
<1>2. Range(q) = Range(r) \cup {q[1]}
  <2>1. ASSUME NEW y \in Range(q) PROVE y \in Range(r) \cup {q[1]}
    <3>1. PICK i \in 1..Len(q) : y = q[i]
      BY DEF Range
    <3>2. i = 1 \/ (i - 1 \in 1..Len(r) /\ r[i - 1] = q[i])
      BY <1>1
    <3> QED BY <3>1, <3>2 DEF Range
  <2>2. ASSUME NEW y \in Range(r) PROVE y \in Range(q)
    BY <1>1, <2>2 DEF Range
  <2>3. q[1] \in Range(q)
    BY <1>1 DEF Range
  <2> QED BY <2>1, <2>2, <2>3
<1>3. q[1] \notin Range(r)
  BY <1>1 DEF Range, Distinct
<1>4. Distinct(r)
  BY <1>1 DEF Distinct
<1> QED BY <1>1, <1>2, <1>3, <1>4
-----------------------------------------------------------------------------
(* The invariant *)

\* Where the threads are in step with what they hold.
ThreadsOK ==
  /\ next <= idx
  /\ at \in {"size", "wait_enter", "wait", "push"} => idx < proc_num
  /\ \A w \in Worker : work[w] # None <=> wat[w] \in {"analyse", "put"}
  /\ \A w \in Worker : wat[w] = "put" => verdict[work[w]] \in Result
  /\ sat \in {"signal", "show"} => next < proc_num
  /\ sat = "exit" => next = proc_num
  /\ at = "done" => sat = "exit"

\* OnePlace, process by process.
Placed ==
  /\ \A x \in Queued \cup Ready \cup InHand : next <= x /\ x < idx
  /\ \A w \in Worker : work[w] # None => next <= work[w] /\ work[w] < idx
  /\ \A x \in Proc : next <= x /\ x < idx =>
       x \in Queued \cup Ready \cup InHand \/ \E w \in Worker : work[w] = x
Apart ==
  /\ Distinct(par_anls_task)
  /\ \A v, w \in Worker : work[v] = work[w] /\ work[v] # None => v = w
  /\ \A w \in Worker : work[w] \notin Queued \cup Ready \cup InHand
  /\ Queued \cap (Ready \cup InHand) = {} /\ Ready \cap InHand = {}

\* A result on its way to the output is that of its process's analysis.
ResultsOK ==
  /\ \A p \in Ready : par_mult_anls_ret[p] = verdict[p]
  /\ sat \in {"signal", "show"} => taken = verdict[next]

ShownOK == Len(shown) = next /\ \A i \in 1..next : shown[i] = verdict[i - 1]

ParInv == TypeOK /\ ThreadsOK /\ Placed /\ Apart /\ ResultsOK /\ ShownOK

\* The initial state: nothing handed out.
LEMMA ParInit == Init => ParInv
<1> SUFFICES ASSUME Init PROVE ParInv
  OBVIOUS
<1>0. Ready = {}
  BY DEF Init, Ready, NoRet
<1>1. TypeOK
  <2>1. par_anls_sts \in [Worker -> BOOLEAN] /\ lock_wait_proc \in BOOLEAN
        /\ par_end_task \in BOOLEAN
    BY Zenon DEF Init
  <2>2. idx \in 0..proc_num /\ next \in 0..proc_num /\ par_task_num \in Int
    BY ParAssumption DEF Init
  <2>3. par_anls_task \in Seq(Proc) /\ shown \in Seq(Result)
    BY DEF Init
  <2>4. /\ at = "lock" /\ sat = "check" /\ taken \in Result
        /\ lock_wait_task \in Worker \cup {Free}
    BY DEF Init, Result
  <2>5. /\ wat \in [Worker -> {"check", "wait_enter", "wait", "analyse", "put", "exit"}]
        /\ work \in [Worker -> Proc \cup {None}]
        /\ verdict \in [Proc -> Result \cup {"none"}]
    BY Zenon DEF Init
  <2> QED BY <1>0, <2>1, <2>2, <2>3, <2>4, <2>5 DEF TypeOK
<1>2. Queued = {} /\ Ready = {} /\ InHand = {}
  BY DEF Init, Queued, Ready, InHand, NoRet
<1>3. ThreadsOK /\ ResultsOK /\ ShownOK
  BY <1>2 DEF Init, ThreadsOK, ResultsOK, ShownOK
<1>4. Placed /\ Apart
  BY <1>2 DEF Init, Placed, Apart, Distinct
<1> QED BY <1>1, <1>3, <1>4 DEF ParInv

\* The invariant says what the properties say.
LEMMA ParImplies == ParInv => OnePlace /\ InOrder
<1> SUFFICES ASSUME ParInv PROVE OnePlace /\ InOrder
  OBVIOUS
<1> USE DEF ParInv
<1>1. InOrder
  BY DEF InOrder, ShownOK, ThreadsOK
<1>2. \A w \in Worker : InWork(w) = {x \in Proc : work[w] = x}
  BY DEF InWork, TypeOK, None, Proc
<1>3. Queued \cup Worked \cup Ready \cup InHand = next..(idx - 1)
  <2>1. /\ Queued \subseteq Proc /\ Ready \subseteq Proc /\ next \in Nat /\ idx \in Int
        /\ next..(idx - 1) \subseteq Proc
    BY ParAssumption DEF TypeOK, Queued, Proc
  <2>2. InHand \subseteq Proc
    BY <2>1, ParAssumption DEF InHand, ThreadsOK, Proc
  <2>3. \A x \in Proc : x \in Worked <=> \E w \in Worker : work[w] = x
    BY <1>2 DEF Worked
  <2>4. Worked \subseteq Proc
    BY <1>2 DEF Worked
  <2>5. \A x \in Proc : x # None /\ x \in Int
    BY DEF Proc, None
  <2>6. \A x \in Proc : x \in next..(idx - 1) <=> next <= x /\ x < idx
    BY <2>1, <2>5
  <2>7. \A x \in Proc : x \in next..(idx - 1) <=>
           x \in Queued \cup Worked \cup Ready \cup InHand
    BY <2>3, <2>5, <2>6 DEF Placed
  <2> QED BY <2>1, <2>2, <2>4, <2>7
<1>4. /\ \A i, j \in 1..Len(par_anls_task) :
           par_anls_task[i] = par_anls_task[j] => i = j
      /\ \A v, w \in Worker : v # w => InWork(v) \cap InWork(w) = {}
      /\ \A w \in Worker : InWork(w) \cap (Queued \cup Ready \cup InHand) = {}
      /\ Queued \cap (Ready \cup InHand) = {} /\ Ready \cap InHand = {}
  BY DEF Apart, Distinct, InWork
<1> QED BY <1>1, <1>3, <1>4 DEF OnePlace
-----------------------------------------------------------------------------
(* The steps *)

BoolsOK ==
  /\ lock_wait_proc \in BOOLEAN /\ par_end_task \in BOOLEAN
  /\ par_anls_sts \in [Worker -> BOOLEAN]

\* The flags stay flags.
LEMMA BoolsStep == ASSUME BoolsOK, [Next]_vars PROVE BoolsOK'
<1>1. CASE Alloc
  BY <1>1, Zenon DEF BoolsOK, Alloc, AllocLock, AllocSize, AllocWait, AllocPush, AllocEnd,
       AllocBroadcast, AllocPoll, AllocJoin, tasks, workers
<1>2. ASSUME NEW w \in Worker, WorkerCheck(w) PROVE BoolsOK'
  BY <1>2 DEF BoolsOK, WorkerCheck, alloc
<1>3. ASSUME NEW w \in Worker, Work(w) \/ WorkerSpurious(w) PROVE BoolsOK'
  BY <1>2, <1>3, Zenon DEF BoolsOK, Work, WorkerWait, WorkerPut, Analyse, WorkerSpurious,
       alloc, tasks
<1>4. CASE Show \/ ShowSpurious
  BY <1>4, Zenon DEF BoolsOK, Show, ShowTake, ShowWait, ShowSignal, ShowProcess, ShowEnd,
       ShowSpurious, alloc, tasks, workers
<1>5. CASE AllocSpurious \/ Done \/ UNCHANGED vars
  BY <1>5, Zenon DEF BoolsOK, AllocSpurious, Done, vars, alloc, tasks, workers
<1> QED BY <1>1, <1>3, <1>4, <1>5 DEF Next

\* The types but for the flags.
DataOK ==
  /\ at \in {"lock", "size", "wait_enter", "wait", "push", "broadcast",
             "poll", "join", "done"}
  /\ idx \in 0..proc_num /\ par_task_num \in Int
  /\ lock_wait_task \in Worker \cup {Free}
  /\ par_anls_task \in Seq(Proc)
  /\ wat \in [Worker -> {"check", "wait_enter", "wait", "analyse", "put", "exit"}]
  /\ work \in [Worker -> Proc \cup {None}]
  /\ Ready \subseteq Proc
  /\ \A p \in Ready : par_mult_anls_ret[p] \in Result
  /\ sat \in {"check", "wait", "signal", "show", "exit"}
  /\ next \in 0..proc_num /\ taken \in Result
  /\ verdict \in [Proc -> Result \cup {"none"}]
  /\ shown \in Seq(Result)

\* TypeOK in its two parts.
LEMMA TypeParts == /\ TypeOK <=> BoolsOK /\ DataOK
                   /\ TypeOK' <=> BoolsOK' /\ DataOK'
BY DEF TypeOK, BoolsOK, DataOK

FlowInv == DataOK /\ ThreadsOK /\ Placed /\ Apart /\ ResultsOK /\ ShownOK

\* A step that moves no process and no result.
Still ==
  /\ UNCHANGED <<idx, par_anls_task, work, par_mult_anls_ret, next, taken, verdict, shown>>
  /\ sat' \in {"signal", "show"} <=> sat \in {"signal", "show"}

\* Such a step keeps what is said of processes and results.
LEMMA StillStep ==
  ASSUME FlowInv, Still
  PROVE  Placed' /\ Apart' /\ ResultsOK' /\ ShownOK'
<1>1. Queued' = Queued /\ Ready' = Ready /\ InHand' = InHand
  BY DEF Still, Queued, Ready, InHand
<1>2. Placed' /\ Apart'
  BY <1>1 DEF FlowInv, Still, Placed, Apart
<1>3. ResultsOK' /\ ShownOK'
  BY <1>1 DEF FlowInv, Still, ResultsOK, ShownOK
<1> QED BY <1>2, <1>3

\* The allocator between two processes, and every wait and wake-up.
LEMMA StillActions ==
  ASSUME FlowInv,
         \/ AllocLock \/ AllocSize \/ AllocWait \/ AllocSpurious \/ AllocEnd
         \/ AllocBroadcast \/ AllocPoll \/ AllocJoin
         \/ ShowWait \/ ShowSpurious \/ ShowSignal \/ ShowEnd
         \/ UNCHANGED vars
         \/ \E w \in Worker : WorkerWait(w) \/ WorkerSpurious(w)
  PROVE  FlowInv'
<1> USE DEF FlowInv, DataOK, ThreadsOK, Still, Ready, alloc, tasks, workers, show, vars
<1>1. CASE AllocLock \/ AllocSize \/ AllocWait \/ AllocSpurious \/ AllocEnd
  <2>1. Still
    BY <1>1 DEF AllocLock, AllocSize, AllocWait, AllocSpurious, AllocEnd
  <2>2. DataOK' /\ ThreadsOK'
    BY <1>1 DEF AllocLock, AllocSize, AllocWait, AllocSpurious, AllocEnd
  <2> QED BY <2>1, <2>2, StillStep
<1>2. CASE AllocBroadcast \/ AllocPoll \/ AllocJoin
  <2>1. Still
    BY <1>2 DEF AllocBroadcast, AllocPoll, AllocJoin
  <2>2. DataOK' /\ ThreadsOK'
    BY <1>2 DEF AllocBroadcast, AllocPoll, AllocJoin, Waiting
  <2> QED BY <2>1, <2>2, StillStep
<1>3. CASE ShowWait \/ ShowSpurious \/ ShowSignal \/ ShowEnd
  <2>1. Still
    BY <1>3 DEF ShowWait, ShowSpurious, ShowSignal, ShowEnd
  <2>2. DataOK' /\ ThreadsOK'
    BY <1>3 DEF ShowWait, ShowSpurious, ShowSignal, ShowEnd
  <2> QED BY <2>1, <2>2, StillStep
<1>4. CASE UNCHANGED vars
  BY <1>4, StillStep
<1>5. ASSUME NEW w \in Worker, WorkerWait(w) \/ WorkerSpurious(w)
      PROVE  FlowInv'
  <2>1. Still
    BY <1>5 DEF WorkerWait, WorkerSpurious
  <2>2. DataOK' /\ ThreadsOK'
    BY <1>5 DEF WorkerWait, WorkerSpurious
  <2> QED BY <2>1, <2>2, StillStep
<1> QED BY <1>1, <1>2, <1>3, <1>4, <1>5

\* A process is handed out.
LEMMA PushStep == ASSUME FlowInv, AllocPush PROVE FlowInv'
<1> USE DEF FlowInv
<1>0. /\ idx \in Proc /\ idx \in Nat /\ next \in Nat /\ idx \notin Queued
      /\ idx' = idx + 1 /\ idx' \in 0..proc_num
      /\ par_anls_task \in Seq(Proc) /\ Distinct(par_anls_task)
  <2>1. /\ idx \in 0..proc_num /\ next \in 0..proc_num /\ proc_num \in Nat
        /\ idx < proc_num /\ idx' = idx + 1
    BY ParAssumption DEF AllocPush, ThreadsOK, DataOK
  <2>2. idx \notin Queued
    BY <2>1 DEF Placed
  <2> QED BY <2>1, <2>2 DEF DataOK, Apart, Proc
<1>1. /\ par_anls_task' \in Seq(Proc) /\ Distinct(par_anls_task')
      /\ Queued' = Queued \cup {idx}
  <2>1. Queued = Range(par_anls_task) /\ Queued' = Range(par_anls_task')
    BY DEF Queued, Range
  <2> QED BY <1>0, <2>1, AppendTask DEF AllocPush
<1>2. Ready' = Ready /\ InHand' = InHand
  BY DEF AllocPush, Ready, InHand, show
<1>3. /\ wat' \in [Worker -> {"check", "wait_enter", "wait", "analyse", "put", "exit"}]
      /\ \A w \in Worker : wat'[w] = wat[w] \/ (wat[w] = "wait" /\ wat'[w] = "check")
  BY DEF AllocPush, SignalTask, Waiting, DataOK
<1>4. DataOK'
  BY <1>0, <1>1, <1>2, <1>3 DEF AllocPush, DataOK, Ready, show, Proc
<1>5. ThreadsOK'
  BY <1>3 DEF AllocPush, ThreadsOK, DataOK, show
<1>6. Placed'
  <2>1. /\ \A x \in Queued' \cup Ready' \cup InHand' : next <= x /\ x < idx'
        /\ \A w \in Worker : work[w] # None => next <= work[w] /\ work[w] < idx'
    <3>1. idx \in Int /\ next \in Int /\ next <= idx
      BY <1>0 DEF ThreadsOK
    <3>2. Queued \cup Ready \cup InHand \subseteq Int
      <4>1. Queued \subseteq Proc /\ Ready \subseteq Proc
        BY DEF DataOK, Queued
      <4>2. InHand \subseteq Int /\ Proc \subseteq Int
        BY <3>1 DEF InHand, Proc
      <4> QED BY <4>1, <4>2
    <3>3. \A w \in Worker : work[w] \in Int
      BY DEF DataOK, Proc, None
    <3> QED BY <1>0, <1>1, <1>2, <3>1, <3>2, <3>3 DEF Placed
  <2>2. ASSUME NEW x \in Proc, next <= x, x < idx'
        PROVE  x \in Queued' \cup Ready' \cup InHand' \/ \E w \in Worker : work[w] = x
    <3>1. x = idx \/ x < idx
      BY <1>0, <2>2 DEF Proc
    <3> QED BY <1>1, <1>2, <2>2, <3>1 DEF Placed
  <2> QED BY <2>1, <2>2 DEF AllocPush, Placed, show
<1>7. Apart'
  BY <1>0, <1>1, <1>2 DEF AllocPush, Apart, Placed, DataOK, show, None
<1>8. ResultsOK' /\ ShownOK'
  BY <1>2 DEF AllocPush, ResultsOK, ShownOK, show
<1> QED BY <1>4, <1>5, <1>6, <1>7, <1>8

\* A worker takes a process, leaves or is about to wait.
LEMMA CheckStep ==
  ASSUME FlowInv, NEW w \in Worker, WorkerCheck(w)
  PROVE  FlowInv'
<1> USE DEF FlowInv
<1>1. CASE par_anls_task = <<>>
  <2>1. Still
    BY <1>1 DEF WorkerCheck, Still, alloc, show
  <2>2. DataOK' /\ ThreadsOK'
    BY <1>1 DEF WorkerCheck, DataOK, ThreadsOK, Ready, alloc, show
  <2> QED BY <2>1, <2>2, StillStep
<1>2. CASE par_anls_task # <<>>
  <2> DEFINE p == Head(par_anls_task)
  <2>1. /\ par_anls_task' \in Seq(Proc) /\ Distinct(par_anls_task')
        /\ p \in Proc /\ Queued = Queued' \cup {p} /\ p \notin Queued'
    <3>1. Queued = Range(par_anls_task) /\ Queued' = Range(par_anls_task')
      BY DEF Queued, Range
    <3>2. par_anls_task' = Tail(par_anls_task)
      BY <1>2 DEF WorkerCheck
    <3>3. par_anls_task \in Seq(Proc) /\ Distinct(par_anls_task)
      BY DEF DataOK, Apart
    <3> QED BY <1>2, <3>1, <3>2, <3>3, TakeTask
  <2>2. /\ work' = [work EXCEPT ![w] = p] /\ wat' = [wat EXCEPT ![w] = "analyse"]
        /\ work[w] = None /\ p # None
    BY <1>2, <2>1 DEF WorkerCheck, ThreadsOK, Proc, None
  <2>3. /\ Ready' = Ready /\ InHand' = InHand
        /\ UNCHANGED <<at, idx, par_task_num, lock_wait_task, par_mult_anls_ret, sat,
                       next, taken, verdict, shown>>
    BY <1>2 DEF WorkerCheck, Ready, InHand, alloc, show
  <2>4. DataOK'
    BY <2>1, <2>2, <2>3 DEF DataOK
  <2>5. ThreadsOK'
    BY <2>2, <2>3 DEF ThreadsOK, DataOK
  <2>6. Placed'
    <3>1. \A x \in Queued' \cup Ready' \cup InHand' : next <= x /\ x < idx
      BY <2>1, <2>3 DEF Placed
    <3>2. \A v \in Worker : work'[v] # None => next <= work'[v] /\ work'[v] < idx
      BY <2>1, <2>2 DEF Placed, DataOK
    <3>3. ASSUME NEW x \in Proc, next <= x, x < idx
          PROVE  x \in Queued' \cup Ready' \cup InHand' \/ \E v \in Worker : work'[v] = x
      <4>1. CASE x = p
        BY <2>2, <4>1 DEF DataOK
      <4>2. CASE x # p /\ x \in Queued \cup Ready \cup InHand
        BY <2>1, <2>3, <4>2
      <4>3. CASE \E v \in Worker : work[v] = x
        <5>1. PICK v \in Worker : work[v] = x
          BY <4>3
        <5>2. v # w
          BY <2>2, <5>1 DEF Proc, None
        <5> QED BY <2>2, <5>1, <5>2 DEF DataOK
      <4> QED BY <3>3, <4>1, <4>2, <4>3 DEF Placed
    <3> QED BY <2>3, <3>1, <3>2, <3>3 DEF Placed
  <2>7. Apart'
    BY <2>1, <2>2, <2>3 DEF Apart, DataOK
  <2>8. ResultsOK' /\ ShownOK'
    BY <2>3 DEF ResultsOK, ShownOK
  <2> QED BY <2>4, <2>5, <2>6, <2>7, <2>8
<1> QED BY <1>1, <1>2

\* An analysis ends; its process is nowhere else, so no result changes.
LEMMA AnalyseStep ==
  ASSUME FlowInv, NEW w \in Worker, NEW r \in Result, Analyse(w, r)
  PROVE  FlowInv'
<1> USE DEF FlowInv
<1>1. /\ work[w] \in Proc /\ verdict' = [verdict EXCEPT ![work[w]] = r]
      /\ work[w] \notin Ready \cup InHand /\ next <= work[w]
      /\ wat' = [wat EXCEPT ![w] = "put"] /\ wat[w] = "analyse"
  BY DEF Analyse, ThreadsOK, DataOK, Apart, Placed
<1>2. /\ Ready' = Ready /\ InHand' = InHand /\ Queued' = Queued
      /\ UNCHANGED <<at, idx, par_task_num, lock_wait_task, par_anls_task, work,
                     par_mult_anls_ret, sat, next, taken, shown>>
  BY DEF Analyse, Ready, InHand, Queued, alloc, tasks, show
<1>3. DataOK'
  BY <1>1, <1>2 DEF DataOK
<1>4. ThreadsOK'
  <2>1. \A v \in Worker : wat'[v] = "put" => verdict'[work'[v]] \in Result
    <3> SUFFICES ASSUME NEW v \in Worker, wat'[v] = "put"
                 PROVE  verdict'[work[v]] \in Result
      BY <1>2
    <3>1. v # w => wat[v] = "put" /\ work[v] \in Proc /\ verdict[work[v]] \in Result
      BY <1>1 DEF ThreadsOK, DataOK
    <3> QED BY <1>1, <3>1 DEF DataOK
  <2> QED BY <1>1, <1>2, <2>1 DEF ThreadsOK, DataOK
<1>5. Placed' /\ Apart'
  BY <1>2 DEF Placed, Apart
<1>6. ResultsOK'
  <2>1. \A p \in Ready : verdict'[p] = verdict[p]
    BY <1>1 DEF DataOK
  <2>2. sat \in {"signal", "show"} => verdict'[next] = verdict[next]
    BY <1>1, ParAssumption DEF InHand, DataOK, ThreadsOK, Proc
  <2> QED BY <1>2, <2>1, <2>2 DEF ResultsOK
<1>7. ShownOK'
  <2>1. \A i \in 1..next : i - 1 \in Proc /\ i - 1 # work[w]
    BY <1>1, ParAssumption DEF DataOK, Proc
  <2> QED BY <1>1, <1>2, <2>1 DEF ShownOK, DataOK
<1> QED BY <1>3, <1>4, <1>5, <1>6, <1>7

\* A result goes to the map.
LEMMA PutStep ==
  ASSUME FlowInv, NEW w \in Worker, WorkerPut(w)
  PROVE  FlowInv'
<1> USE DEF FlowInv
<1> DEFINE p == work[w]
<1>1. /\ p \in Proc /\ p # None /\ verdict[p] \in Result
      /\ next <= p /\ p < idx
      /\ p \notin Queued \cup Ready \cup InHand
      /\ wat[w] = "put"
  BY DEF WorkerPut, ThreadsOK, DataOK, Apart, Placed
<1>2. /\ Ready' = Ready \cup {p}
      /\ par_mult_anls_ret'[p] = verdict[p]
      /\ \A q \in Ready : par_mult_anls_ret'[q] = par_mult_anls_ret[q]
  BY <1>1 DEF WorkerPut, Put, Ready
<1>3. /\ wat' = [wat EXCEPT ![w] = "check"] /\ work' = [work EXCEPT ![w] = None]
      /\ UNCHANGED <<at, idx, par_task_num, lock_wait_task, par_anls_task, next, taken,
                     verdict, shown>>
      /\ sat' = IF sat = "wait" THEN "check" ELSE sat
  BY DEF WorkerPut, alloc, tasks
<1>4. Queued' = Queued /\ InHand' = InHand
  BY <1>3 DEF Queued, InHand, DataOK
<1>5. DataOK'
  BY <1>1, <1>2, <1>3 DEF DataOK
<1>6. ThreadsOK'
  BY <1>3 DEF ThreadsOK, DataOK
<1>7. Placed'
  <2>1. \A x \in Queued' \cup Ready' \cup InHand' : next <= x /\ x < idx
    BY <1>1, <1>2, <1>4 DEF Placed
  <2>2. \A v \in Worker : work'[v] # None => next <= work'[v] /\ work'[v] < idx
    BY <1>3 DEF Placed, DataOK
  <2>3. ASSUME NEW x \in Proc, next <= x, x < idx
        PROVE  x \in Queued' \cup Ready' \cup InHand' \/ \E v \in Worker : work'[v] = x
    <3>1. CASE x \in Queued \cup Ready \cup InHand
      BY <1>2, <1>4, <3>1
    <3>2. CASE \E v \in Worker : work[v] = x
      <4>1. PICK v \in Worker : work[v] = x
        BY <3>2
      <4>2. CASE v = w
        BY <1>2, <4>1, <4>2
      <4>3. CASE v # w
        BY <1>3, <4>1, <4>3 DEF DataOK
      <4> QED BY <4>2, <4>3
    <3> QED BY <2>3, <3>1, <3>2 DEF Placed
  <2> QED BY <1>3, <2>1, <2>2, <2>3 DEF Placed
<1>8. Apart'
  <2>1. None \notin Queued' \cup Ready' \cup InHand'
    <3>1. next \in Nat
      BY DEF DataOK
    <3> QED BY <1>1, <1>2, <1>4, <3>1 DEF Placed, None
  <2>2. \A v \in Worker : v # w => work'[v] = work[v] /\ work[v] # p
    BY <1>1, <1>3 DEF Apart, DataOK
  <2>3. work'[w] = None
    BY <1>3 DEF DataOK
  <2>4. \A v \in Worker : work'[v] \notin Queued' \cup Ready' \cup InHand'
    BY <1>2, <1>4, <2>1, <2>2, <2>3 DEF Apart
  <2>5. \A u, v \in Worker : work'[u] = work'[v] /\ work'[u] # None => u = v
    BY <2>2, <2>3 DEF Apart
  <2> QED BY <1>1, <1>2, <1>3, <1>4, <2>4, <2>5 DEF Apart
<1>9. ResultsOK' /\ ShownOK'
  BY <1>2, <1>3 DEF ResultsOK, ShownOK, DataOK
<1> QED BY <1>5, <1>6, <1>7, <1>8, <1>9

\* The next result is taken out of the map.
LEMMA TakeStep == ASSUME FlowInv, ShowTake PROVE FlowInv'
<1> USE DEF FlowInv
<1>1. /\ next \in Ready /\ next < proc_num /\ sat = "check" /\ sat' = "signal"
      /\ InHand = {} /\ InHand' = {next}
      /\ taken' = par_mult_anls_ret[next]
      /\ UNCHANGED <<at, idx, par_task_num, lock_wait_task, par_anls_task, wat, work, next,
                     verdict, shown>>
  BY DEF ShowTake, Ready, InHand, alloc, tasks, workers
<1>2. /\ Ready' = Ready \ {next} /\ Queued' = Queued
      /\ \A q \in Ready' : par_mult_anls_ret'[q] = par_mult_anls_ret[q]
  BY <1>1 DEF ShowTake, Without, Ready, Queued
<1>3. DataOK' /\ ThreadsOK'
  BY <1>1, <1>2 DEF DataOK, ThreadsOK
<1>4. Placed' /\ Apart'
  <2>1. Queued' \cup Ready' \cup InHand' = Queued \cup Ready \cup InHand
    BY <1>1, <1>2
  <2>2. Placed'
    BY <1>1, <2>1 DEF Placed
  <2>3. Apart'
    BY <1>1, <1>2, <2>1 DEF Apart
  <2> QED BY <2>2, <2>3
<1>5. ResultsOK' /\ ShownOK'
  BY <1>1, <1>2 DEF ResultsOK, ShownOK
<1> QED BY <1>3, <1>4, <1>5

\* A process is shown with the result taken for it.
LEMMA ShowStep == ASSUME FlowInv, ShowProcess PROVE FlowInv'
<1> USE DEF FlowInv
<1>1. /\ sat = "show" /\ sat' = "check" /\ next' = next + 1
      /\ InHand = {next} /\ InHand' = {}
      /\ shown' = Append(shown, taken)
      /\ UNCHANGED <<at, idx, par_task_num, lock_wait_task, par_anls_task, wat, work,
                     par_mult_anls_ret, taken, verdict>>
      /\ Ready' = Ready /\ Queued' = Queued
  BY DEF ShowProcess, Ready, Queued, InHand, alloc, tasks, workers
<1>2. /\ next \in 0..proc_num /\ proc_num \in Nat /\ next < proc_num
      /\ idx \in 0..proc_num /\ next < idx
  BY <1>1, ParAssumption DEF DataOK, ThreadsOK, Placed
<1>3. DataOK'
  BY <1>1, <1>2 DEF DataOK, Ready
<1>4. ThreadsOK'
  BY <1>1, <1>2 DEF ThreadsOK, DataOK
<1>5. Placed'
  <2>1. /\ Queued \cup Ready \subseteq Int
        /\ \A w \in Worker : work[w] \in Int
        /\ next \notin Queued \cup Ready
        /\ \A w \in Worker : work[w] # next
    <3>1. Queued \subseteq Proc /\ Ready \subseteq Proc
      BY DEF DataOK, Queued
    <3>2. \A w \in Worker : work[w] \in Int
      BY DEF DataOK, Proc, None
    <3>3. Proc \subseteq Int
      BY DEF Proc
    <3> QED BY <1>1, <3>1, <3>2, <3>3 DEF Apart
  <2>2. /\ \A x \in Queued' \cup Ready' \cup InHand' : next' <= x /\ x < idx
        /\ \A w \in Worker : work[w] # None => next' <= work[w] /\ work[w] < idx
    BY <1>1, <1>2, <2>1 DEF Placed
  <2>3. ASSUME NEW x \in Proc, next' <= x, x < idx
        PROVE  x \in Queued' \cup Ready' \cup InHand' \/ \E w \in Worker : work[w] = x
    <3>1. x # next /\ next <= x
      BY <1>1, <1>2, <2>3 DEF Proc
    <3> QED BY <1>1, <2>3, <3>1 DEF Placed
  <2> QED BY <1>1, <2>2, <2>3 DEF Placed
<1>6. Apart'
  BY <1>1 DEF Apart
<1>7. ResultsOK'
  BY <1>1 DEF ResultsOK
<1>8. ShownOK'
  <2>1. Len(shown) = next /\ shown \in Seq(Result) /\ taken \in Result /\ next \in Nat
    BY <1>2 DEF ShownOK, DataOK
  <2>2. /\ Len(shown') = next + 1 /\ shown'[next + 1] = taken
        /\ \A i \in 1..next : shown'[i] = shown[i]
    BY <1>1, <2>1
  <2>3. taken = verdict[next]
    BY <1>1 DEF ResultsOK
  <2>4. ASSUME NEW i \in 1..(next + 1) PROVE shown'[i] = verdict[i - 1]
    <3>1. CASE i = next + 1
      BY <2>1, <2>2, <2>3, <3>1
    <3>2. CASE i # next + 1
      BY <2>1, <2>2, <3>2 DEF ShownOK
    <3> QED BY <3>1, <3>2
  <2> QED BY <1>1, <2>2, <2>4 DEF ShownOK
<1> QED BY <1>3, <1>4, <1>5, <1>6, <1>7, <1>8

\* Every step keeps the invariant.
LEMMA ParNext == ASSUME ParInv, [Next]_vars PROVE ParInv'
<1>1. BoolsOK /\ FlowInv
  BY TypeParts DEF ParInv, FlowInv
<1>2. BoolsOK'
  BY <1>1, BoolsStep
<1>3. FlowInv'
  <2>1. CASE Alloc \/ AllocSpurious
    BY <1>1, <2>1, StillActions, PushStep DEF Alloc
  <2>2. ASSUME NEW w \in Worker, Work(w) \/ WorkerSpurious(w) PROVE FlowInv'
    BY <1>1, <2>2, StillActions, CheckStep, AnalyseStep, PutStep DEF Work
  <2>3. CASE Show \/ ShowSpurious
    BY <1>1, <2>3, StillActions, TakeStep, ShowStep DEF Show
  <2>4. CASE Done \/ UNCHANGED vars
    BY <1>1, <2>4, StillActions DEF Done
  <2> QED BY <2>1, <2>2, <2>3, <2>4 DEF Next
<1> QED BY <1>2, <1>3, TypeParts DEF ParInv, FlowInv

\* For any number of workers, of processes and of results kept ahead, every
\* process handed out is in exactly one place: none is lost between the
\* allocator, the workers and the output thread, and none is analysed twice.
THEOREM ParOnePlace == Spec => []OnePlace
BY ParInit, ParNext, ParImplies, PTL DEF Spec

\* For any number of workers, of processes and of results kept ahead, the code
\* is shown in the order of the design, each process with its own result, and
\* all of it when the generator ends.
THEOREM ParInOrder == Spec => []InOrder
BY ParInit, ParNext, ParImplies, PTL DEF Spec
=============================================================================
