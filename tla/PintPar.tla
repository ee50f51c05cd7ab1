------------------------------- MODULE PintPar -------------------------------
(***************************************************************************)
(* The threads of the code generator (tgt-pint/pint.c, pint_dump_process   *)
(* with PINT_PAR_MODE_EN).                                                 *)
(*                                                                         *)
(* The allocator, which is the main thread, hands the processes of the     *)
(* design out by index; the workers analyse them in any order; one thread  *)
(* shows them, that is generates their code, in the order of the design.   *)
(* The results travel through the map par_mult_anls_ret.  Every change of  *)
(* the map is made under par_lock_wait_anls, but the allocator reads its   *)
(* size under par_lock_wait_proc.  par_end_task is set without a lock.     *)
(*                                                                         *)
(* A critical section that touches only what its mutex protects is one     *)
(* step.  The two sections that also read something else, and then wait,   *)
(* are two: the mutex is held in between.                                  *)
(***************************************************************************)
EXTENDS Integers, Sequences, FiniteSets

CONSTANTS
  Worker,
  PINT_PAR_ANLS_NUM,  \* the number of workers, and of results to keep ahead
  proc_num

ASSUME ParAssumption ==
  /\ IsFiniteSet(Worker) /\ Worker # {}
  /\ PINT_PAR_ANLS_NUM \in Nat \ {0}
  /\ proc_num \in Nat

Proc == 0..(proc_num - 1)
NULL == "NULL"            \* the result of an analysis that failed
Result == {"info", NULL}
None == -1
Free == "free"

VARIABLES
  at,       \* where the allocator is
  idx,      \* the next process to hand out
  par_task_num,
  lock_wait_proc,  \* TRUE: the allocator holds it
  lock_wait_task,  \* the worker that holds it, or Free
  par_anls_task,
  par_end_task,
  wat,      \* where each worker is
  work,     \* the process a worker analyses, or None
  par_anls_sts,
  par_mult_anls_ret,
  sat,      \* where the showing thread is
  next,     \* its idx
  taken,    \* what it took out of the map for next
  verdict,  \* history: what the analysis of each process came to
  shown     \* history: the results the processes were shown with, in order

alloc == <<at, idx, par_task_num, lock_wait_proc>>
tasks == <<lock_wait_task, par_anls_task, par_end_task>>
workers == <<wat, work, par_anls_sts, verdict>>
show == <<sat, next, taken, shown>>
vars == <<alloc, tasks, workers, par_mult_anls_ret, show>>

NoRet == [p \in {} |-> NULL]
Waiting == {w \in Worker : wat[w] = "wait"}

Init ==
  /\ at = "lock" /\ idx = 0 /\ par_task_num = 0 /\ lock_wait_proc = FALSE
  /\ lock_wait_task = Free /\ par_anls_task = <<>> /\ par_end_task = FALSE
  /\ wat = [w \in Worker |-> "check"] /\ work = [w \in Worker |-> None]
  /\ par_anls_sts = [w \in Worker |-> FALSE]
  /\ par_mult_anls_ret = NoRet
  /\ sat = "check" /\ next = 0 /\ taken = NULL
  /\ verdict = [p \in Proc |-> "none"] /\ shown = <<>>
-----------------------------------------------------------------------------
(* pint_alloc_mult_anls_task *)

AllocLock ==
  /\ at = "lock" /\ idx < proc_num
  /\ ~lock_wait_proc
  /\ lock_wait_proc' = TRUE /\ at' = "size"
  /\ UNCHANGED <<idx, par_task_num, tasks, workers, par_mult_anls_ret, show>>

\* The size of the map, read while workers and the showing thread change it.
Full == Cardinality(DOMAIN par_mult_anls_ret) >= PINT_PAR_ANLS_NUM

AllocSize ==
  /\ at = "size"
  /\ \/ Full /\ at' = "wait_enter" /\ UNCHANGED <<par_task_num, lock_wait_proc>>
     \/ /\ ~Full
        /\ par_task_num' = par_task_num + 1
        /\ lock_wait_proc' = FALSE /\ at' = "push"
  /\ UNCHANGED <<idx, tasks, workers, par_mult_anls_ret, show>>

AllocWait ==
  /\ at = "wait_enter"
  /\ lock_wait_proc' = FALSE /\ at' = "wait"
  /\ UNCHANGED <<idx, par_task_num, tasks, workers, par_mult_anls_ret, show>>

\* pthread_cond_wait may return without a signal.
AllocSpurious ==
  /\ at = "wait" /\ at' = "lock"
  /\ UNCHANGED <<idx, par_task_num, lock_wait_proc, tasks, workers,
                 par_mult_anls_ret, show>>

\* pthread_cond_signal: one of the waiting workers goes on, if there is one.
SignalTask ==
  IF Waiting = {} THEN UNCHANGED wat
  ELSE \E w \in Waiting : wat' = [wat EXCEPT ![w] = "check"]

AllocPush ==
  /\ at = "push" /\ lock_wait_task = Free
  /\ par_anls_task' = Append(par_anls_task, idx)
  /\ idx' = idx + 1 /\ at' = "lock"
  /\ SignalTask
  /\ UNCHANGED <<par_task_num, lock_wait_proc, lock_wait_task, par_end_task,
                 work, par_anls_sts, verdict, par_mult_anls_ret, show>>

AllocEnd ==
  /\ at = "lock" /\ idx = proc_num
  /\ par_end_task' = TRUE /\ at' = "broadcast"
  /\ UNCHANGED <<idx, par_task_num, lock_wait_proc, lock_wait_task,
                 par_anls_task, workers, par_mult_anls_ret, show>>

AllocBroadcast ==
  /\ at = "broadcast" /\ lock_wait_task = Free
  /\ wat' = [w \in Worker |-> IF w \in Waiting THEN "check" ELSE wat[w]]
  /\ at' = "poll"
  /\ UNCHANGED <<idx, par_task_num, lock_wait_proc, tasks, work, par_anls_sts,
                 verdict, par_mult_anls_ret, show>>

AllocPoll ==
  /\ at = "poll"
  /\ at' = IF \A w \in Worker : par_anls_sts[w] THEN "join" ELSE "broadcast"
  /\ UNCHANGED <<idx, par_task_num, lock_wait_proc, tasks, workers,
                 par_mult_anls_ret, show>>

\* pthread_join of the workers and of the showing thread.
AllocJoin ==
  /\ at = "join"
  /\ \A w \in Worker : wat[w] = "exit"
  /\ sat = "exit"
  /\ at' = "done"
  /\ UNCHANGED <<idx, par_task_num, lock_wait_proc, tasks, workers,
                 par_mult_anls_ret, show>>
-----------------------------------------------------------------------------
(* pint_par_mult_anls *)

\* Under par_lock_wait_task: a task is taken, the end is seen, or the worker
\* is about to wait and still holds the mutex.
WorkerCheck(w) ==
  /\ wat[w] = "check" /\ lock_wait_task = Free
  /\ \/ /\ par_anls_task # <<>>
        /\ work' = [work EXCEPT ![w] = Head(par_anls_task)]
        /\ par_anls_task' = Tail(par_anls_task)
        /\ wat' = [wat EXCEPT ![w] = "analyse"]
        /\ UNCHANGED <<lock_wait_task, par_anls_sts>>
     \/ /\ par_anls_task = <<>> /\ par_end_task
        /\ par_anls_sts' = [par_anls_sts EXCEPT ![w] = TRUE]
        /\ wat' = [wat EXCEPT ![w] = "exit"]
        /\ UNCHANGED <<lock_wait_task, par_anls_task, work>>
     \/ /\ par_anls_task = <<>> /\ ~par_end_task
        /\ lock_wait_task' = w
        /\ wat' = [wat EXCEPT ![w] = "wait_enter"]
        /\ UNCHANGED <<par_anls_task, work, par_anls_sts>>
  /\ UNCHANGED <<alloc, par_end_task, verdict, par_mult_anls_ret, show>>

WorkerWait(w) ==
  /\ wat[w] = "wait_enter"
  /\ lock_wait_task' = Free
  /\ wat' = [wat EXCEPT ![w] = "wait"]
  /\ UNCHANGED <<alloc, par_anls_task, par_end_task, work, par_anls_sts,
                 verdict, par_mult_anls_ret, show>>

WorkerSpurious(w) ==
  /\ wat[w] = "wait"
  /\ wat' = [wat EXCEPT ![w] = "check"]
  /\ UNCHANGED <<alloc, tasks, work, par_anls_sts, verdict,
                 par_mult_anls_ret, show>>

\* analysis_massign_v2 succeeds or fails.
Analyse(w, r) ==
  /\ wat[w] = "analyse"
  /\ verdict' = [verdict EXCEPT ![work[w]] = r]
  /\ wat' = [wat EXCEPT ![w] = "put"]
  /\ UNCHANGED <<alloc, tasks, work, par_anls_sts, par_mult_anls_ret, show>>

Put(p, r) ==
  par_mult_anls_ret' = [q \in DOMAIN par_mult_anls_ret \cup {p} |->
                          IF q = p THEN r ELSE par_mult_anls_ret[q]]

\* Under par_lock_wait_anls; the signal reaches the showing thread if it waits.
WorkerPut(w) ==
  /\ wat[w] = "put"
  /\ Put(work[w], verdict[work[w]])
  /\ sat' = IF sat = "wait" THEN "check" ELSE sat
  /\ wat' = [wat EXCEPT ![w] = "check"] /\ work' = [work EXCEPT ![w] = None]
  /\ UNCHANGED <<alloc, tasks, par_anls_sts, verdict, next, taken, shown>>
-----------------------------------------------------------------------------
(* pint_par_show_process *)

\* Mutant of Without: the result stays in the map.
WithoutErase(p) == UNCHANGED par_mult_anls_ret

\* erase(idx)
Without(p) ==
  par_mult_anls_ret' = [q \in DOMAIN par_mult_anls_ret \ {p} |->
                          par_mult_anls_ret[q]]

\* Mutant of ShowTake: an if in place of the while; operator[] of the map
\* makes a null result for an index it does not hold.
ShowTakeOnce ==
  /\ sat = "check" /\ next < proc_num
  /\ taken' = IF next \in DOMAIN par_mult_anls_ret
              THEN par_mult_anls_ret[next] ELSE NULL
  /\ Without(next)
  /\ sat' = "signal"
  /\ UNCHANGED <<alloc, tasks, workers, next, shown>>

\* Under par_lock_wait_anls.
ShowTake ==
  /\ sat = "check" /\ next < proc_num
  /\ next \in DOMAIN par_mult_anls_ret
  /\ taken' = par_mult_anls_ret[next]
  /\ Without(next)
  /\ sat' = "signal"
  /\ UNCHANGED <<alloc, tasks, workers, next, shown>>

ShowWait ==
  /\ sat = "check" /\ next < proc_num
  /\ next \notin DOMAIN par_mult_anls_ret
  /\ sat' = "wait"
  /\ UNCHANGED <<alloc, tasks, workers, par_mult_anls_ret, next, taken, shown>>

ShowSpurious ==
  /\ sat = "wait" /\ sat' = "check"
  /\ UNCHANGED <<alloc, tasks, workers, par_mult_anls_ret, next, taken, shown>>

\* Mutant of ShowSignal: par_task_num is brought down without a signal.
ShowSignalMissing ==
  /\ sat = "signal" /\ ~lock_wait_proc
  /\ par_task_num' = par_task_num - 1
  /\ sat' = "show"
  /\ UNCHANGED <<at, idx, lock_wait_proc, tasks, workers, par_mult_anls_ret,
                 next, taken, shown>>

\* Under par_lock_wait_proc; the signal reaches the allocator if it waits.
ShowSignal ==
  /\ sat = "signal" /\ ~lock_wait_proc
  /\ par_task_num' = par_task_num - 1
  /\ at' = IF at = "wait" THEN "lock" ELSE at
  /\ sat' = "show"
  /\ UNCHANGED <<idx, lock_wait_proc, tasks, workers, par_mult_anls_ret,
                 next, taken, shown>>

\* show_process(dsgn_all_proc[idx], mult_anls_ret); idx++
ShowProcess ==
  /\ sat = "show"
  /\ shown' = Append(shown, taken)
  /\ next' = next + 1
  /\ sat' = "check"
  /\ UNCHANGED <<alloc, tasks, workers, par_mult_anls_ret, taken>>

ShowEnd ==
  /\ sat = "check" /\ next = proc_num
  /\ sat' = "exit"
  /\ UNCHANGED <<alloc, tasks, workers, par_mult_anls_ret, next, taken, shown>>
-----------------------------------------------------------------------------
Alloc == AllocLock \/ AllocSize \/ AllocWait \/ AllocPush \/ AllocEnd
         \/ AllocBroadcast \/ AllocPoll \/ AllocJoin

Work(w) ==
  \/ WorkerCheck(w) \/ WorkerWait(w) \/ WorkerPut(w)
  \/ \E r \in Result : Analyse(w, r)

Show == ShowTake \/ ShowWait \/ ShowSignal \/ ShowProcess \/ ShowEnd

Done == at = "done" /\ UNCHANGED vars

Next ==
  \/ Alloc \/ AllocSpurious
  \/ \E w \in Worker : Work(w) \/ WorkerSpurious(w)
  \/ Show \/ ShowSpurious
  \/ Done

\* The threads are pthreads: each one that can go on does, and a mutex that is
\* released again and again, as by workers that wake up for nothing, is given
\* at last to a thread that asks for it.
Fairness == SF_vars(Alloc) /\ (\A w \in Worker : SF_vars(Work(w))) /\ SF_vars(Show)

Spec == Init /\ [][Next]_vars /\ Fairness
-----------------------------------------------------------------------------
Queued == {par_anls_task[i] : i \in 1..Len(par_anls_task)}
InWork(w) == IF work[w] = None THEN {} ELSE {work[w]}
Worked == UNION {InWork(w) : w \in Worker}
Ready == DOMAIN par_mult_anls_ret
InHand == IF sat \in {"signal", "show"} THEN {next} ELSE {}

TypeOK ==
  /\ at \in {"lock", "size", "wait_enter", "wait", "push", "broadcast",
             "poll", "join", "done"}
  /\ idx \in 0..proc_num /\ par_task_num \in Int
  /\ lock_wait_proc \in BOOLEAN /\ lock_wait_task \in Worker \cup {Free}
  /\ par_anls_task \in Seq(Proc) /\ par_end_task \in BOOLEAN
  /\ wat \in [Worker -> {"check", "wait_enter", "wait", "analyse", "put", "exit"}]
  /\ work \in [Worker -> Proc \cup {None}]
  /\ par_anls_sts \in [Worker -> BOOLEAN]
  /\ Ready \subseteq Proc
  /\ \A p \in Ready : par_mult_anls_ret[p] \in Result
  /\ sat \in {"check", "wait", "signal", "show", "exit"}
  /\ next \in 0..proc_num /\ taken \in Result
  /\ verdict \in [Proc -> Result \cup {"none"}]
  /\ shown \in Seq(Result)

\* The processes are shown in the order of the design, each with the result
\* of its own analysis, in whatever order the workers finish; and when the
\* generator ends, all are.
InOrder ==
  /\ Len(shown) = next
  /\ \A i \in 1..next : shown[i] = verdict[i - 1]
  /\ at = "done" => next = proc_num

\* A process that was handed out is in exactly one place: the queue, with one
\* worker, in the map, with the showing thread or shown.  The types hold too.
OnePlace ==
  /\ TypeOK
  /\ Queued \cup Worked \cup Ready \cup InHand = next..(idx - 1)
  /\ \A i, j \in 1..Len(par_anls_task) :
       par_anls_task[i] = par_anls_task[j] => i = j
  /\ \A v, w \in Worker : v # w => InWork(v) \cap InWork(w) = {}
  /\ \A w \in Worker : InWork(w) \cap (Queued \cup Ready \cup InHand) = {}
  /\ Queued \cap (Ready \cup InHand) = {} /\ Ready \cap InHand = {}

\* The generator ends: no wake-up is lost between the three conditions, and
\* the allocator, the workers and the showing thread never wait for each other
\* in a circle.
Completes == <>(at = "done")
=============================================================================
