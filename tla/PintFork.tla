------------------------------ MODULE PintFork ------------------------------
(***************************************************************************)
(* fork ... join as the code generator emits it (show_fork_join_stmt,      *)
(* tgt-pint/statement.c), on the parallel run time.                        *)
(*                                                                         *)
(* The parent queues its children for the next pass of the active phase    *)
(* and returns with its program counter at the join.  A child may suspend  *)
(* itself with a delay; at its end it adds 1 to fork_cnt, the one that     *)
(* brings it to the number of children queues the parent, and only then    *)
(* the child resets its own program counter.  The fork stands in a loop,   *)
(* so counter, children and program counters are used again.               *)
(***************************************************************************)
EXTENDS Integers, FiniteSets

CONSTANTS
  Core,
  Child,
  Rounds  \* bound: passes through the loop

VARIABLES
  active, inactive,  \* copies of each thread in ACTIVE_Q and INACTIVE_Q
  future,            \* children suspended by a delay
  core,              \* the thread each core runs, and where it is
  pint_thread_pc_x,  \* 0: start from the top
  fork_cnt,
  round,             \* joins passed
  started, ended     \* history: children of this round

vars == <<active, inactive, future, core, pint_thread_pc_x, fork_cnt, round,
          started, ended>>

Parent == "parent"
Thread == Child \cup {Parent}

ASSUME ForkAssumption ==
  IsFiniteSet(Child) /\ Child # {} /\ Parent \notin Child /\ Rounds \in Nat \ {0}

\* The number of children, in both tests.  Mutant of cnt: one is forgotten.
cntOneLess == Cardinality(Child) - 1
cnt == Cardinality(Child)

Idle == [at |-> "idle"]
At(t, where) == [at |-> where, t |-> t]
Runs(c, t, where) == core[c] = At(t, where)
Goto(c, t, where) == core' = [core EXCEPT ![c] = At(t, where)]
Return(c) == core' = [core EXCEPT ![c] = Idle]
AllIdle == \A c \in Core : core[c] = Idle
Nothing == [t \in Thread |-> 0]

Init ==
  /\ active = [Nothing EXCEPT ![Parent] = 1]
  /\ inactive = Nothing
  /\ future = {}
  /\ core = [c \in Core |-> Idle]
  /\ pint_thread_pc_x = Nothing
  /\ fork_cnt = 0 /\ round = 0 /\ started = {} /\ ended = {}

\* Where a thread's program counter sends it.
Entry(t) ==
  IF t # Parent THEN "body" ELSE IF pint_thread_pc_x[t] = 0 THEN "fork" ELSE "join"

\* A core takes a thread and jumps to its program counter.
TakeThread(c, t) ==
  /\ core[c] = Idle /\ active[t] > 0
  /\ active' = [active EXCEPT ![t] = @ - 1]
  /\ Goto(c, t, Entry(t))
  /\ started' = IF t = Parent THEN started ELSE started \cup {t}
  /\ UNCHANGED <<inactive, future, pint_thread_pc_x, fork_cnt, round, ended>>

-----------------------------------------------------------------------------
(* The parent. *)

EnqueueChildren(c) ==
  /\ Runs(c, Parent, "fork")
  /\ inactive' = [t \in Thread |-> IF t \in Child THEN inactive[t] + 1 ELSE inactive[t]]
  /\ Goto(c, Parent, "setpc")
  /\ started' = {} /\ ended' = {}
  /\ UNCHANGED <<active, future, pint_thread_pc_x, fork_cnt, round>>

SetPc(c) ==
  /\ Runs(c, Parent, "setpc")
  /\ pint_thread_pc_x' = [pint_thread_pc_x EXCEPT ![Parent] = 1]
  /\ Return(c)
  /\ UNCHANGED <<active, inactive, future, fork_cnt, round, started, ended>>

CountAfterJoin == 0

\* if (cnt != fork_cnt) return; and the loop goes on to the next fork.
Join(c) ==
  /\ Runs(c, Parent, "join")
  /\ IF fork_cnt = cnt
     THEN /\ fork_cnt' = CountAfterJoin
          /\ round' = round + 1
          /\ IF round' < Rounds THEN Goto(c, Parent, "fork") ELSE Return(c)
     ELSE Return(c) /\ UNCHANGED <<fork_cnt, round>>
  /\ UNCHANGED <<active, inactive, future, pint_thread_pc_x, started, ended>>

-----------------------------------------------------------------------------
(* A child. *)

\* A delay in the child's statement: program counter, future queue, return.
ChildDelay(c, t) ==
  /\ Runs(c, t, "body") /\ pint_thread_pc_x[t] = 0
  /\ pint_thread_pc_x' = [pint_thread_pc_x EXCEPT ![t] = 1]
  /\ future' = future \cup {t}
  /\ Return(c)
  /\ UNCHANGED <<active, inactive, fork_cnt, round, started, ended>>

\* The child whose addition finds cnt - 1 wakes the parent.  Mutants of Wakes:
\* the first child does; no test of the old value.
WakesFirst(old) == old = 0
WakesAlways(old) == TRUE
Wakes(old) == old = cnt - 1

\* int old_value = pint_atomic_add(&fork_cnt, 1)
ChildEnd(c, t) ==
  /\ Runs(c, t, "body")
  /\ fork_cnt' = fork_cnt + 1
  /\ Goto(c, t, IF Wakes(fork_cnt) THEN "wake" ELSE "reset")
  /\ ended' = ended \cup {t}
  /\ UNCHANGED <<active, inactive, future, pint_thread_pc_x, round, started>>

WakeParent(c, t) ==
  /\ Runs(c, t, "wake")
  /\ inactive' = [inactive EXCEPT ![Parent] = @ + 1]
  /\ Goto(c, t, "reset")
  /\ UNCHANGED <<active, future, pint_thread_pc_x, fork_cnt, round, started, ended>>

\* Mutant of PcAfterEnd: the program counter stays where the child ended.
PcKept(t) == pint_thread_pc_x[t]
PcAfterEnd(t) == 0

ResetPc(c, t) ==
  /\ Runs(c, t, "reset")
  /\ pint_thread_pc_x' = [pint_thread_pc_x EXCEPT ![t] = PcAfterEnd(t)]
  /\ Return(c)
  /\ UNCHANGED <<active, inactive, future, fork_cnt, round, started, ended>>

-----------------------------------------------------------------------------
(* The main loop, on the other side of the barrier. *)

SwapQueues ==
  /\ AllIdle /\ active = Nothing /\ inactive # Nothing
  /\ active' = inactive /\ inactive' = Nothing
  /\ UNCHANGED <<future, core, pint_thread_pc_x, fork_cnt, round, started, ended>>

\* The children whose delay ends first.
NextTime(ts) ==
  /\ AllIdle /\ active = Nothing /\ inactive = Nothing /\ ts # {}
  /\ active' = [t \in Thread |-> IF t \in ts THEN 1 ELSE 0]
  /\ future' = future \ ts
  /\ UNCHANGED <<inactive, core, pint_thread_pc_x, fork_cnt, round, started, ended>>

Step ==
  \/ \E c \in Core :
       \/ EnqueueChildren(c) \/ SetPc(c) \/ Join(c)
       \/ \E t \in Thread : TakeThread(c, t)
       \/ \E t \in Child :
            ChildDelay(c, t) \/ ChildEnd(c, t) \/ WakeParent(c, t) \/ ResetPc(c, t)
  \/ SwapQueues
  \/ \E ts \in SUBSET future : NextTime(ts)

\* The design has stopped: nothing is queued.
Finished == AllIdle /\ active = Nothing /\ inactive = Nothing /\ future = {}
Next == Step \/ (Finished /\ UNCHANGED vars)

\* The run time never stops while something is queued: cores return to their
\* loops, the barrier opens, and time advances.
Spec == Init /\ [][Next]_vars /\ WF_vars(Step)

-----------------------------------------------------------------------------
(* Properties. *)

\* Queues and program counters have their types, the counter never exceeds the number of children.
TypeOK ==
  /\ active \in [Thread -> Nat] /\ inactive \in [Thread -> Nat]
  /\ future \subseteq Child
  /\ pint_thread_pc_x \in [Thread -> {0, 1}]
  /\ fork_cnt \in 0 .. cnt
  /\ round \in 0 .. Rounds

Copies(t) ==
  active[t] + inactive[t] + Cardinality({c \in Core : core[c] # Idle /\ core[c].t = t})
    + IF t \in future THEN 1 ELSE 0

\* However the children's ends interleave on the cores, no thread is ever
\* queued, suspended and running more than once.  The types hold too.
OneCopy == TypeOK /\ \A t \in Thread : Copies(t) <= 1

\* A child that was forked again starts from the top, although the reset of its
\* program counter comes after the wake-up of the parent that forks it.
FreshStart ==
  \A t \in Child :
    active[t] + inactive[t] > 0 /\ t \notin started => pint_thread_pc_x[t] = 0

\* The parent passes the join only when every child of this round has ended.
JoinAfterAll == [][round' # round => ended = Child]_vars

\* Every round is joined: the parent is neither woken too early nor forgotten.
Joins == <>(round = Rounds)
=============================================================================
