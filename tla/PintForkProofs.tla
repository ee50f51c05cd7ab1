--------------------------- MODULE PintForkProofs ---------------------------
(***************************************************************************)
(* Theorems about PintFork: for any number of cores, children and rounds,  *)
(* no thread is queued, suspended or running twice, a child forked again   *)
(* starts from the top, and the parent passes the join only when every     *)
(* child of the round has ended.                                           *)
(***************************************************************************)
EXTENDS PintFork, FiniteSetTheorems, TLAPS

(* The invariant *)

On(c, t) == core[c] # Idle /\ core[c].t = t
Busy(t) == \E c \in Core : On(c, t)
AtPlace(t, where) == \E c \in Core : Runs(c, t, where)
Away(t) == active[t] = 0 /\ inactive[t] = 0 /\ t \notin future /\ ~Busy(t)

ParentAt == [at : {"fork", "setpc", "join"}, t : {Parent}]
ChildAt == [at : {"body", "wake", "reset"}, t : Child]

DataOK ==
  /\ active \in [Thread -> {0, 1}] /\ inactive \in [Thread -> {0, 1}]
  /\ future \subseteq Child /\ started \subseteq Child /\ ended \subseteq Child
  /\ pint_thread_pc_x \in [Thread -> {0, 1}]
  /\ core \in [Core -> {Idle} \cup ParentAt \cup ChildAt]
  /\ fork_cnt \in Nat /\ round \in 0 .. Rounds

\* OneCopy, place by place.
OnceOK ==
  /\ \A c, d \in Core, t \in Thread : On(c, t) /\ On(d, t) => c = d
  /\ \A t \in Thread :
       /\ active[t] = 1 => inactive[t] = 0 /\ t \notin future /\ ~Busy(t)
       /\ inactive[t] = 1 => t \notin future /\ ~Busy(t)
       /\ t \in future => ~Busy(t)

\* The parent is before a fork, or has left the loop.
Before ==
  \/ active[Parent] = 1 /\ pint_thread_pc_x[Parent] = 0
  \/ AtPlace(Parent, "fork")
  \/ round = Rounds

Out(t) == active[t] = 1 \/ inactive[t] = 1 \/ t \in future \/ AtPlace(t, "body")

BeforeOK ==
  Before =>
    /\ fork_cnt = 0
    /\ \A t \in Child : Away(t)
    /\ round = Rounds => Away(Parent)

\* Between fork and join the counter counts the children that ended, and the
\* others are queued, suspended or in their statement.
ForkedOK ==
  ~Before =>
    /\ fork_cnt = Cardinality(ended)
    /\ \A t \in Child : t \notin ended <=> Out(t)

Woken ==
  \/ active[Parent] = 1 \/ inactive[Parent] = 1 \/ AtPlace(Parent, "join")
  \/ \E t \in Child : AtPlace(t, "wake")

ParentOK ==
  /\ Woken /\ ~Before => ended = Child
  /\ \A t \in Child : AtPlace(t, "wake") => Away(Parent)
  /\ \A t, u \in Child : AtPlace(t, "wake") /\ AtPlace(u, "wake") => t = u
  /\ active[Parent] = 1 \/ Busy(Parent) =>
       \A t \in Child : active[t] = 0 /\ ~Busy(t)
  /\ AtPlace(Parent, "setpc") => ended = {}
  /\ pint_thread_pc_x[Parent] = 0 =>
       active[Parent] = 1 \/ AtPlace(Parent, "fork") \/ AtPlace(Parent, "setpc")

FreshOK ==
  \A t \in Child :
    /\ pint_thread_pc_x[t] = 1 => t \in started /\ ~Away(t)
    /\ AtPlace(t, "body") => t \in started

ForkInv == DataOK /\ OnceOK /\ BeforeOK /\ ForkedOK /\ ParentOK /\ FreshOK
-----------------------------------------------------------------------------
(* What a core's next place changes *)

Where == {"fork", "setpc", "join", "body", "wake", "reset"}

\* A record At(t, where) names its thread and its place.
LEMMA AtFacts ==
  ASSUME NEW c \in Core, NEW t, NEW where
  PROVE  Runs(c, t, where) => On(c, t) /\ core[c].at = where
<1>1. At(t, where) # Idle
  <2>1. DOMAIN At(t, where) = {"at", "t"} /\ DOMAIN Idle = {"at"}
    BY DEF At, Idle
  <2>2. {"at", "t"} # {"at"}
    OBVIOUS
  <2> QED BY <2>1, <2>2
<1>2. At(t, where).t = t /\ At(t, where).at = where
  BY DEF At
<1> QED BY <1>1, <1>2 DEF Runs, On

\* A thread at some place is held by a core.
LEMMA PlaceIsBusy == \A t, where : AtPlace(t, where) => Busy(t)
BY AtFacts DEF AtPlace, Busy

\* A core that holds a thread is somewhere in it.
LEMMA OnIsAt ==
  ASSUME DataOK, NEW c \in Core, NEW t \in Thread, On(c, t)
  PROVE  core[c] = At(t, core[c].at) /\ core[c].at \in Where
<1>1. core[c] \in ParentAt \cup ChildAt
  BY DEF DataOK, On
<1> QED BY <1>1 DEF ParentAt, ChildAt, At, Where, On

\* A core in thread t goes on to another place of it.
LEMMA Moves ==
  ASSUME DataOK, OnceOK, NEW c \in Core, NEW t \in Thread, NEW where \in Where,
         On(c, t), Goto(c, t, where)
  PROVE  /\ \A d, e \in Core, u \in Thread : On(d, u)' /\ On(e, u)' => d = e
         /\ \A u \in Thread : Busy(u)' <=> Busy(u)
         /\ \A u \in Thread, x \in Where :
              AtPlace(u, x)' <=> IF u = t THEN x = where ELSE AtPlace(u, x)
<1>0. core' = [core EXCEPT ![c] = At(t, where)] /\ core'[c] = At(t, where)
      /\ \A d \in Core : d # c => core'[d] = core[d]
  BY DEF Goto, DataOK
<1>1. On(c, t)' /\ \A u \in Thread : On(c, u)' <=> u = t
  <2>1. core'[c] # Idle /\ core'[c].t = t
    <3>1. DOMAIN At(t, where) = {"at", "t"} /\ DOMAIN Idle = {"at"}
      BY DEF At, Idle
    <3>2. {"at", "t"} # {"at"}
      OBVIOUS
    <3>3. At(t, where).t = t
      BY DEF At
    <3> QED BY <1>0, <3>1, <3>2, <3>3
  <2> QED BY <2>1 DEF On, Idle
<1>2. \A d \in Core, u \in Thread : d # c => (On(d, u)' <=> On(d, u))
  BY <1>0 DEF On, Idle
<1>3. \A u \in Thread : On(c, u) <=> u = t
  BY DEF On
<1>4. \A d \in Core, u \in Thread, x \in Where : d # c => (Runs(d, u, x)' <=> Runs(d, u, x))
  BY <1>0 DEF Runs, At
<1>5. \A u \in Thread, x \in Where : Runs(c, u, x)' <=> u = t /\ x = where
  BY <1>0 DEF Runs, At
<1>6. \A d \in Core, u \in Thread : On(d, u) => (d = c <=> u = t)
  BY <1>3 DEF OnceOK
<1>7. \A d \in Core, u \in Thread, x \in Where : Runs(d, u, x) => (d = c <=> u = t)
  BY <1>6, AtFacts
<1> QED BY <1>1, <1>2, <1>3, <1>4, <1>5, <1>6, <1>7 DEF Busy, AtPlace, OnceOK

\* An idle core takes thread t, which no core holds.
LEMMA Takes ==
  ASSUME DataOK, OnceOK, NEW c \in Core, NEW t \in Thread, NEW where \in Where,
         core[c] = Idle, ~Busy(t), Goto(c, t, where)
  PROVE  /\ \A d, e \in Core, u \in Thread : On(d, u)' /\ On(e, u)' => d = e
         /\ \A u \in Thread : Busy(u)' <=> Busy(u) \/ u = t
         /\ \A u \in Thread, x \in Where :
              AtPlace(u, x)' <=> IF u = t THEN x = where ELSE AtPlace(u, x)
<1>0. core' = [core EXCEPT ![c] = At(t, where)] /\ core'[c] = At(t, where)
      /\ \A d \in Core : d # c => core'[d] = core[d]
  BY DEF Goto, DataOK
<1>1. On(c, t)' /\ \A u \in Thread : On(c, u)' <=> u = t
  <2>1. core'[c] # Idle /\ core'[c].t = t
    <3>1. DOMAIN At(t, where) = {"at", "t"} /\ DOMAIN Idle = {"at"}
      BY DEF At, Idle
    <3>2. {"at", "t"} # {"at"}
      OBVIOUS
    <3>3. At(t, where).t = t
      BY DEF At
    <3> QED BY <1>0, <3>1, <3>2, <3>3
  <2> QED BY <2>1 DEF On, Idle
<1>2. \A d \in Core, u \in Thread : d # c => (On(d, u)' <=> On(d, u))
  BY <1>0 DEF On, Idle
<1>3. \A d \in Core, u \in Thread : On(d, u) => d # c /\ u # t
  BY DEF On, Busy
<1>4. \A d \in Core, u \in Thread, x \in Where : d # c => (Runs(d, u, x)' <=> Runs(d, u, x))
  BY <1>0 DEF Runs, At
<1>5. \A u \in Thread, x \in Where : Runs(c, u, x)' <=> u = t /\ x = where
  BY <1>0 DEF Runs, At
<1>6. \A d \in Core, u \in Thread, x \in Where : Runs(d, u, x) => d # c /\ u # t
  BY <1>3, AtFacts
<1> QED BY <1>1, <1>2, <1>3, <1>4, <1>5, <1>6 DEF Busy, AtPlace, OnceOK

\* A core returns from thread t to its loop.
LEMMA Leaves ==
  ASSUME DataOK, OnceOK, NEW c \in Core, NEW t \in Thread, On(c, t), Return(c)
  PROVE  /\ \A d, e \in Core, u \in Thread : On(d, u)' /\ On(e, u)' => d = e
         /\ \A u \in Thread : Busy(u)' <=> Busy(u) /\ u # t
         /\ \A u \in Thread, x \in Where : AtPlace(u, x)' <=> u # t /\ AtPlace(u, x)
<1>0. core' = [core EXCEPT ![c] = Idle] /\ core'[c] = Idle
      /\ \A d \in Core : d # c => core'[d] = core[d]
  BY DEF Return, DataOK
<1>1. \A u \in Thread : ~On(c, u)'
  BY <1>0 DEF On, Idle
<1>2. \A d \in Core, u \in Thread : d # c => (On(d, u)' <=> On(d, u))
  BY <1>0 DEF On, Idle
<1>3. \A d \in Core, u \in Thread : On(d, u) => (d = c <=> u = t)
  BY DEF On, OnceOK
<1>4. \A d \in Core, u \in Thread, x \in Where : d # c => (Runs(d, u, x)' <=> Runs(d, u, x))
  BY <1>0 DEF Runs, At
<1>5. \A u \in Thread, x \in Where : ~Runs(c, u, x)'
  <2> SUFFICES ASSUME NEW u \in Thread, NEW x \in Where PROVE core'[c] # At(u, x)
    BY DEF Runs, At
  <2>1. DOMAIN At(u, x) = {"at", "t"} /\ DOMAIN Idle = {"at"}
    BY DEF At, Idle
  <2>2. {"at", "t"} # {"at"}
    OBVIOUS
  <2> QED BY <1>0, <2>1, <2>2
<1>6. \A d \in Core, u \in Thread, x \in Where : Runs(d, u, x) => (d = c <=> u = t)
  BY <1>3, AtFacts
<1> QED BY <1>1, <1>2, <1>3, <1>4, <1>5, <1>6 DEF Busy, AtPlace, OnceOK

\* Nothing a core does: the places stay.
LEMMA Stays ==
  ASSUME UNCHANGED core, OnceOK
  PROVE  /\ \A d, e \in Core, u \in Thread : On(d, u)' /\ On(e, u)' => d = e
         /\ \A u \in Thread : Busy(u)' <=> Busy(u)
         /\ \A u \in Thread, x \in Where : AtPlace(u, x)' <=> AtPlace(u, x)
BY DEF Busy, AtPlace, On, Runs, OnceOK, At, Idle

\* When all cores are in their loops no thread is held.
LEMMA NoneBusy ==
  ASSUME AllIdle
  PROVE  \A u \in Thread : ~Busy(u) /\ \A x \in Where : ~AtPlace(u, x)
<1>1. \A u \in Thread : ~Busy(u)
  BY DEF AllIdle, Busy, On
<1> QED BY <1>1, AtFacts DEF AtPlace, Busy

-----------------------------------------------------------------------------
(* The invariant is kept *)

\* The initial state: the parent alone, before its first fork.
LEMMA ForkInit == Init => ForkInv
<1> SUFFICES ASSUME Init PROVE ForkInv
  OBVIOUS
<1> USE ForkAssumption
<1>1. AllIdle
  BY DEF Init, AllIdle
<1>2. DataOK
  BY DEF Init, DataOK, Nothing, Thread
<1>3. \A u \in Thread : ~Busy(u) /\ \A x \in Where : ~AtPlace(u, x)
  BY <1>1, NoneBusy
<1>4. active[Parent] = 1 /\ \A t \in Child : active[t] = 0
  BY DEF Init, Nothing, Thread
<1>5. \A t \in Thread : inactive[t] = 0 /\ pint_thread_pc_x[t] = 0 /\ t \notin future
  BY DEF Init, Nothing
<1>6. Child \subseteq Thread /\ Parent \in Thread
  BY DEF Thread
<1>7. Before
  BY <1>4, <1>5, <1>6 DEF Before
<1>8. fork_cnt = 0 /\ round = 0 /\ round # Rounds
  BY DEF Init
<1>9. "wake" \in Where /\ "body" \in Where /\ "setpc" \in Where /\ "join" \in Where
  BY DEF Where
<1>10. OnceOK
  BY <1>3, <1>4, <1>5 DEF OnceOK, Thread, Busy
<1>11. BeforeOK /\ ForkedOK
  BY <1>3, <1>4, <1>5, <1>6, <1>7, <1>8 DEF BeforeOK, ForkedOK, Away
<1>12. ParentOK
  BY <1>3, <1>4, <1>6, <1>7, <1>9 DEF ParentOK
<1>13. FreshOK
  BY <1>3, <1>5, <1>6, <1>9 DEF FreshOK
<1> QED BY <1>2, <1>10, <1>11, <1>12, <1>13 DEF ForkInv

\* A core takes a thread from ACTIVE_Q.
LEMMA StepTake ==
  ASSUME ForkInv, NEW c \in Core, NEW t \in Thread, TakeThread(c, t)
  PROVE  ForkInv'
<1> USE ForkAssumption DEF ForkInv
<1> DEFINE where == Entry(t)
<1>1. /\ t # Parent => where = "body"
      /\ t = Parent /\ pint_thread_pc_x[t] = 0 => where = "fork"
      /\ t = Parent /\ pint_thread_pc_x[t] # 0 => where = "join"
  BY DEF Entry
<1> HIDE DEF where
<1>2. /\ core[c] = Idle /\ active[t] > 0
      /\ active' = [active EXCEPT ![t] = @ - 1]
      /\ Goto(c, t, where)
      /\ started' = IF t = Parent THEN started ELSE started \cup {t}
      /\ UNCHANGED <<inactive, future, pint_thread_pc_x, fork_cnt, round, ended>>
  BY DEF TakeThread, where
<1>3. where \in Where /\ Child \subseteq Thread /\ Parent \in Thread
      /\ {"body", "wake", "fork", "join", "setpc", "reset"} \subseteq Where
  BY <1>1 DEF Where, Thread
<1>4. active[t] = 1 /\ active'[t] = 0 /\ \A u \in Thread : u # t => active'[u] = active[u]
  BY <1>2 DEF DataOK
<1>5. ~Busy(t) /\ inactive[t] = 0 /\ t \notin future
  BY <1>4 DEF OnceOK
<1>6. /\ \A d, e \in Core, u \in Thread : On(d, u)' /\ On(e, u)' => d = e
      /\ \A u \in Thread : Busy(u)' <=> Busy(u) \/ u = t
      /\ \A u \in Thread, x \in Where :
           AtPlace(u, x)' <=> IF u = t THEN x = where ELSE AtPlace(u, x)
  BY <1>2, <1>3, <1>5, Takes
<1>7. DataOK'
  <2>1. At(t, where) \in ParentAt \cup ChildAt
    BY <1>1 DEF At, ParentAt, ChildAt, Thread
  <2>2. core' \in [Core -> {Idle} \cup ParentAt \cup ChildAt]
    BY <1>2, <2>1 DEF DataOK, Goto
  <2>3. active' \in [Thread -> {0, 1}]
    BY <1>2, <1>4 DEF DataOK
  <2> QED BY <1>2, <2>2, <2>3 DEF DataOK, Thread, Idle, ParentAt, ChildAt
<1>8. OnceOK'
  BY <1>2, <1>4, <1>5, <1>6 DEF OnceOK
<1>9. Before' <=> Before
  <2>1. \A x \in Where : ~AtPlace(t, x)
    BY <1>5, PlaceIsBusy
  <2> QED BY <1>1, <1>2, <1>3, <1>4, <1>5, <1>6, <2>1 DEF Before
<1>10. BeforeOK'
  BY <1>1, <1>2, <1>3, <1>4, <1>5, <1>6, <1>9 DEF BeforeOK, Before, Away
<1>11. ForkedOK'
  BY <1>1, <1>2, <1>3, <1>4, <1>5, <1>6, <1>9 DEF ForkedOK, Out
<1>12. ParentOK'
  BY <1>1, <1>2, <1>3, <1>4, <1>5, <1>6, <1>9 DEF ParentOK, Woken, Away
<1>13. FreshOK'
  BY <1>1, <1>2, <1>3, <1>4, <1>5, <1>6 DEF FreshOK, Away
<1> QED BY <1>7, <1>8, <1>10, <1>11, <1>12, <1>13

\* The parent queues its children.
LEMMA StepEnqueue ==
  ASSUME ForkInv, NEW c \in Core, EnqueueChildren(c)
  PROVE  ForkInv'
<1> USE ForkAssumption DEF ForkInv
<1>1. Child \subseteq Thread /\ Parent \in Thread
      /\ {"body", "wake", "fork", "join", "setpc", "reset"} \subseteq Where
  BY DEF Where, Thread
<1>2. On(c, Parent) /\ AtPlace(Parent, "fork") /\ Before /\ Busy(Parent)
  BY AtFacts, PlaceIsBusy DEF EnqueueChildren, AtPlace, Before
<1>3. /\ Goto(c, Parent, "setpc")
      /\ started' = {} /\ ended' = {}
      /\ UNCHANGED <<active, future, pint_thread_pc_x, fork_cnt, round>>
  BY DEF EnqueueChildren
<1>4. /\ \A d, e \in Core, u \in Thread : On(d, u)' /\ On(e, u)' => d = e
      /\ \A u \in Thread : Busy(u)' <=> Busy(u)
      /\ \A u \in Thread, x \in Where :
           AtPlace(u, x)' <=> IF u = Parent THEN x = "setpc" ELSE AtPlace(u, x)
  BY <1>1, <1>2, <1>3, Moves
<1>5. fork_cnt = 0 /\ (\A t \in Child : Away(t)) /\ round # Rounds
  BY <1>2 DEF BeforeOK, Away
<1>6. \A t \in Child : active[t] = 0 /\ inactive[t] = 0 /\ t \notin future
        /\ ~Busy(t) /\ pint_thread_pc_x[t] = 0
  BY <1>1, <1>5 DEF FreshOK, Away, DataOK
<1>7. inactive'[Parent] = inactive[Parent] /\ \A t \in Child : inactive'[t] = 1
  BY <1>1, <1>6 DEF EnqueueChildren
<1>8. \A t \in Child, x \in Where : ~AtPlace(t, x)
  BY <1>6, PlaceIsBusy
<1>9. DataOK'
  <2>1. At(Parent, "setpc") \in ParentAt
    BY DEF At, ParentAt
  <2>2. core' \in [Core -> {Idle} \cup ParentAt \cup ChildAt]
    BY <1>3, <2>1 DEF DataOK, Goto
  <2>3. inactive' \in [Thread -> {0, 1}]
    BY <1>1, <1>6 DEF DataOK, EnqueueChildren
  <2> QED BY <1>3, <2>2, <2>3 DEF DataOK, Thread, Idle, ParentAt, ChildAt
<1>10. active[Parent] = 0 /\ inactive[Parent] = 0
  BY <1>1, <1>2 DEF OnceOK, DataOK
<1>11. OnceOK'
  BY <1>1, <1>3, <1>4, <1>6, <1>7, <1>10 DEF OnceOK, Thread
<1>12. ~Before'
  BY <1>1, <1>3, <1>4, <1>5, <1>10 DEF Before
<1>13. BeforeOK' /\ ForkedOK'
  BY <1>3, <1>5, <1>7, <1>12, FS_EmptySet DEF BeforeOK, ForkedOK, Out
<1>14. ParentOK'
  BY <1>1, <1>3, <1>4, <1>6, <1>7, <1>8, <1>10, <1>12 DEF ParentOK, Woken
<1>15. FreshOK'
  BY <1>1, <1>3, <1>4, <1>6, <1>8 DEF FreshOK
<1> QED BY <1>9, <1>11, <1>13, <1>14, <1>15

\* The parent stores its program counter and returns.
LEMMA StepSetPc ==
  ASSUME ForkInv, NEW c \in Core, SetPc(c)
  PROVE  ForkInv'
<1> USE ForkAssumption DEF ForkInv
<1>1. Child \subseteq Thread /\ Parent \in Thread
      /\ {"body", "wake", "fork", "join", "setpc", "reset"} \subseteq Where
  BY DEF Where, Thread
<1>2. On(c, Parent) /\ AtPlace(Parent, "setpc") /\ Busy(Parent)
  BY AtFacts, PlaceIsBusy DEF SetPc, AtPlace
<1>3. /\ Return(c)
      /\ UNCHANGED <<active, inactive, future, fork_cnt, round, started, ended>>
      /\ pint_thread_pc_x'[Parent] = 1
      /\ \A t \in Child : pint_thread_pc_x'[t] = pint_thread_pc_x[t]
  BY <1>1 DEF SetPc, DataOK
<1>4. /\ \A d, e \in Core, u \in Thread : On(d, u)' /\ On(e, u)' => d = e
      /\ \A u \in Thread : Busy(u)' <=> Busy(u) /\ u # Parent
      /\ \A u \in Thread, x \in Where : AtPlace(u, x)' <=> u # Parent /\ AtPlace(u, x)
  BY <1>1, <1>2, <1>3, Leaves
<1>5. ~AtPlace(Parent, "fork") /\ ~AtPlace(Parent, "join")
  <2>1. \A x \in Where : AtPlace(Parent, x) => x = core[c].at
    BY <1>1, <1>2, AtFacts DEF AtPlace, OnceOK
  <2>2. core[c].at = "setpc"
    BY AtFacts DEF SetPc
  <2> QED BY <1>1, <2>1, <2>2
<1>6. active[Parent] = 0 /\ inactive[Parent] = 0 /\ \A t \in Child : ~Busy(t)
  BY <1>1, <1>2 DEF OnceOK, DataOK, ParentOK
<1>7. ~Before /\ ~Before'
  BY <1>1, <1>2, <1>3, <1>4, <1>5, <1>6 DEF Before, BeforeOK, Away
<1>8. DataOK'
  <2>1. core' \in [Core -> {Idle} \cup ParentAt \cup ChildAt]
    BY <1>3 DEF DataOK, Return
  <2>2. pint_thread_pc_x' \in [Thread -> {0, 1}]
    BY <1>1 DEF DataOK, SetPc
  <2> QED BY <1>3, <2>1, <2>2 DEF DataOK, Thread, Idle, ParentAt, ChildAt
<1>9. OnceOK'
  BY <1>3, <1>4 DEF OnceOK
<1>10. BeforeOK' /\ ForkedOK'
  BY <1>1, <1>3, <1>4, <1>7 DEF BeforeOK, ForkedOK, Out
<1>11. ParentOK'
  BY <1>1, <1>3, <1>4, <1>5, <1>6, <1>7 DEF ParentOK, Woken, Away
<1>12. FreshOK'
  BY <1>1, <1>3, <1>4 DEF FreshOK, Away
<1> QED BY <1>8, <1>9, <1>10, <1>11, <1>12

\* The parent passes the join, or would return from it too early.
LEMMA StepJoin ==
  ASSUME ForkInv, NEW c \in Core, Join(c)
  PROVE  ForkInv' /\ ended = Child
<1> USE ForkAssumption DEF ForkInv
<1>1. Child \subseteq Thread /\ Parent \in Thread
      /\ {"body", "wake", "fork", "join", "setpc", "reset"} \subseteq Where
  BY DEF Where, Thread
<1>2. On(c, Parent) /\ AtPlace(Parent, "join") /\ Busy(Parent)
  BY AtFacts, PlaceIsBusy DEF Join, AtPlace
<1>3. ~AtPlace(Parent, "fork") /\ ~AtPlace(Parent, "setpc")
  <2>1. \A x \in Where : AtPlace(Parent, x) => x = core[c].at
    BY <1>1, <1>2, AtFacts DEF AtPlace, OnceOK
  <2>2. core[c].at = "join"
    BY AtFacts DEF Join
  <2> QED BY <1>1, <2>1, <2>2
<1>4. active[Parent] = 0 /\ inactive[Parent] = 0
      /\ \A t \in Child : active[t] = 0 /\ ~Busy(t)
  BY <1>1, <1>2 DEF OnceOK, DataOK, ParentOK
<1>5. ~Before /\ round # Rounds
  BY <1>2, <1>3, <1>4 DEF Before, BeforeOK, Away
<1>6. ended = Child /\ fork_cnt = cnt
  BY <1>2, <1>5 DEF ParentOK, Woken, ForkedOK, cnt
<1>7. /\ fork_cnt' = 0 /\ round' = round + 1
      /\ IF round' < Rounds THEN Goto(c, Parent, "fork") ELSE Return(c)
      /\ UNCHANGED <<active, inactive, future, pint_thread_pc_x, started, ended>>
  BY <1>6 DEF Join, CountAfterJoin
<1>8. \A t \in Child : active[t] = 0 /\ inactive[t] = 0 /\ t \notin future /\ ~Busy(t)
  BY <1>1, <1>4, <1>5, <1>6 DEF ForkedOK, Out, DataOK
<1>9. round' \in 0 .. Rounds /\ (round' < Rounds <=> round' # Rounds)
  BY <1>5, <1>7 DEF DataOK
<1>10. \A t \in Child, x \in Where : ~AtPlace(t, x)
  BY <1>8, PlaceIsBusy
<1>11. \A t \in Child : pint_thread_pc_x[t] = 0
  BY <1>1, <1>8 DEF FreshOK, Away, DataOK
<1>12. pint_thread_pc_x[Parent] = 1
  BY <1>1, <1>3, <1>4 DEF ParentOK, DataOK
<1>13. CASE round' < Rounds
  <2>1. Goto(c, Parent, "fork") /\ round' # Rounds
    BY <1>7, <1>9, <1>13
  <2>2. /\ \A d, e \in Core, u \in Thread : On(d, u)' /\ On(e, u)' => d = e
        /\ \A u \in Thread : Busy(u)' <=> Busy(u)
        /\ \A u \in Thread, x \in Where :
             AtPlace(u, x)' <=> IF u = Parent THEN x = "fork" ELSE AtPlace(u, x)
    BY <1>1, <1>2, <2>1, Moves
  <2>3. DataOK'
    <3>1. At(Parent, "fork") \in ParentAt
      BY DEF At, ParentAt
    <3>2. core' \in [Core -> {Idle} \cup ParentAt \cup ChildAt]
      BY <2>1, <3>1 DEF DataOK, Goto
    <3> QED BY <1>7, <1>9, <3>2 DEF DataOK, Thread, Idle, ParentAt, ChildAt
  <2>4. OnceOK'
    BY <1>7, <2>2 DEF OnceOK
  <2>5. Before'
    BY <1>1, <2>2 DEF Before
  <2>6. BeforeOK' /\ ForkedOK'
    BY <1>1, <1>7, <1>8, <2>1, <2>2, <2>5 DEF BeforeOK, ForkedOK, Away
  <2>7. ParentOK'
    BY <1>1, <1>4, <1>7, <1>8, <1>10, <1>12, <2>2, <2>5 DEF ParentOK
  <2>8. FreshOK'
    BY <1>1, <1>7, <1>10, <1>11, <2>2 DEF FreshOK
  <2> QED BY <1>6, <2>3, <2>4, <2>6, <2>7, <2>8
<1>14. CASE ~(round' < Rounds)
  <2>1. Return(c) /\ round' = Rounds
    BY <1>7, <1>9, <1>14
  <2>2. /\ \A d, e \in Core, u \in Thread : On(d, u)' /\ On(e, u)' => d = e
        /\ \A u \in Thread : Busy(u)' <=> Busy(u) /\ u # Parent
        /\ \A u \in Thread, x \in Where : AtPlace(u, x)' <=> u # Parent /\ AtPlace(u, x)
    BY <1>1, <1>2, <2>1, Leaves
  <2>3. DataOK'
    <3>1. core' \in [Core -> {Idle} \cup ParentAt \cup ChildAt]
      BY <2>1 DEF DataOK, Return
    <3> QED BY <1>7, <1>9, <3>1 DEF DataOK, Thread, Idle, ParentAt, ChildAt
  <2>4. OnceOK'
    BY <1>7, <2>2 DEF OnceOK
  <2>5. Before'
    BY <2>1 DEF Before
  <2>6. BeforeOK' /\ ForkedOK'
    <3>1. Parent \notin future
      BY DEF DataOK
    <3> QED BY <1>1, <1>4, <1>7, <1>8, <2>2, <2>5, <3>1 DEF BeforeOK, ForkedOK, Away
  <2>7. ParentOK'
    BY <1>1, <1>4, <1>7, <1>8, <1>10, <1>12, <2>2, <2>5 DEF ParentOK
  <2>8. FreshOK'
    BY <1>1, <1>7, <1>10, <1>11, <2>2 DEF FreshOK
  <2> QED BY <1>6, <2>3, <2>4, <2>6, <2>7, <2>8
<1> QED BY <1>13, <1>14

\* What the invariant says of a child that a core is running.
LEMMA ChildRuns ==
  ASSUME ForkInv, NEW c \in Core, NEW t \in Child, NEW where \in Where,
         Runs(c, t, where)
  PROVE  /\ Child \subseteq Thread /\ Parent \in Thread /\ t # Parent
         /\ {"body", "wake", "fork", "join", "setpc", "reset"} \subseteq Where
         /\ On(c, t) /\ Busy(t)
         /\ \A x \in Where : AtPlace(t, x) <=> x = where
         /\ active[t] = 0 /\ inactive[t] = 0 /\ t \notin future
         /\ ~Before /\ active[Parent] = 0 /\ ~Busy(Parent) /\ Parent \notin future
         /\ pint_thread_pc_x[Parent] = 1
         /\ t \in ended <=> where # "body"
<1> USE ForkAssumption DEF ForkInv
<1>1. /\ Child \subseteq Thread /\ Parent \in Thread /\ t # Parent
      /\ {"body", "wake", "fork", "join", "setpc", "reset"} \subseteq Where
  BY DEF Where, Thread
<1>2. On(c, t) /\ Busy(t) /\ core[c].at = where
  BY AtFacts DEF Busy
<1>3. \A x \in Where : AtPlace(t, x) <=> x = where
  BY <1>1, <1>2, AtFacts DEF AtPlace, OnceOK
<1>4. active[t] = 0 /\ inactive[t] = 0 /\ t \notin future
  BY <1>1, <1>2 DEF OnceOK, DataOK
<1>5. ~Before
  BY <1>2 DEF BeforeOK, Away
<1>6. active[Parent] = 0 /\ ~Busy(Parent) /\ Parent \notin future
  BY <1>1, <1>2 DEF ParentOK, DataOK
<1>7. pint_thread_pc_x[Parent] = 1
  BY <1>1, <1>6, PlaceIsBusy DEF ParentOK, DataOK
<1>8. t \in ended <=> where # "body"
  BY <1>1, <1>3, <1>4, <1>5 DEF ForkedOK, Out
<1> QED BY <1>1, <1>2, <1>3, <1>4, <1>5, <1>6, <1>7, <1>8

\* A child suspends itself.
LEMMA StepDelay ==
  ASSUME ForkInv, NEW c \in Core, NEW t \in Child, ChildDelay(c, t)
  PROVE  ForkInv'
<1> USE ForkAssumption DEF ForkInv
<1>0. "body" \in Where /\ Runs(c, t, "body")
  BY DEF Where, ChildDelay
<1>1. /\ Child \subseteq Thread /\ Parent \in Thread /\ t # Parent
      /\ {"body", "wake", "fork", "join", "setpc", "reset"} \subseteq Where
      /\ On(c, t) /\ Busy(t)
      /\ \A x \in Where : AtPlace(t, x) <=> x = "body"
      /\ active[t] = 0 /\ inactive[t] = 0 /\ t \notin future
      /\ ~Before /\ active[Parent] = 0 /\ ~Busy(Parent) /\ Parent \notin future
      /\ pint_thread_pc_x[Parent] = 1 /\ t \notin ended
  BY <1>0, ChildRuns
<1>2. /\ Return(c) /\ future' = future \cup {t}
      /\ UNCHANGED <<active, inactive, fork_cnt, round, started, ended>>
      /\ pint_thread_pc_x'[t] = 1
      /\ \A u \in Thread : u # t => pint_thread_pc_x'[u] = pint_thread_pc_x[u]
  BY <1>1 DEF ChildDelay, DataOK
<1>3. /\ \A d, e \in Core, u \in Thread : On(d, u)' /\ On(e, u)' => d = e
      /\ \A u \in Thread : Busy(u)' <=> Busy(u) /\ u # t
      /\ \A u \in Thread, x \in Where : AtPlace(u, x)' <=> u # t /\ AtPlace(u, x)
  BY <1>1, <1>2, Leaves
<1>4. DataOK'
  <2>1. core' \in [Core -> {Idle} \cup ParentAt \cup ChildAt]
    BY <1>2 DEF DataOK, Return
  <2>2. pint_thread_pc_x' \in [Thread -> {0, 1}]
    BY <1>1 DEF DataOK, ChildDelay
  <2> QED BY <1>2, <2>1, <2>2 DEF DataOK, Thread, Idle, ParentAt, ChildAt
<1>5. OnceOK'
  BY <1>1, <1>2, <1>3 DEF OnceOK
<1>6. ~Before'
  BY <1>1, <1>2, <1>3 DEF Before
<1>7. BeforeOK' /\ ForkedOK'
  BY <1>1, <1>2, <1>3, <1>6 DEF BeforeOK, ForkedOK, Out
<1>8. ParentOK'
  BY <1>1, <1>2, <1>3, <1>6 DEF ParentOK, Woken, Away
<1>9. FreshOK'
  BY <1>1, <1>2, <1>3 DEF FreshOK, Away
<1> QED BY <1>4, <1>5, <1>7, <1>8, <1>9

\* A child ends: the one that completes the count will wake the parent.
LEMMA StepEnd ==
  ASSUME ForkInv, NEW c \in Core, NEW t \in Child, ChildEnd(c, t)
  PROVE  ForkInv'
<1> USE ForkAssumption DEF ForkInv
<1> DEFINE where == IF Wakes(fork_cnt) THEN "wake" ELSE "reset"
<1>0. "body" \in Where /\ where \in Where /\ where \in {"wake", "reset"}
      /\ Runs(c, t, "body")
  BY DEF Where, ChildEnd
<1>1. /\ Child \subseteq Thread /\ Parent \in Thread /\ t # Parent
      /\ {"body", "wake", "fork", "join", "setpc", "reset"} \subseteq Where
      /\ On(c, t) /\ Busy(t)
      /\ \A x \in Where : AtPlace(t, x) <=> x = "body"
      /\ active[t] = 0 /\ inactive[t] = 0 /\ t \notin future
      /\ ~Before /\ active[Parent] = 0 /\ ~Busy(Parent) /\ Parent \notin future
      /\ pint_thread_pc_x[Parent] = 1 /\ t \notin ended
  BY <1>0, ChildRuns
<1>2. /\ Goto(c, t, where) /\ fork_cnt' = fork_cnt + 1 /\ ended' = ended \cup {t}
      /\ UNCHANGED <<active, inactive, future, pint_thread_pc_x, round, started>>
  BY DEF ChildEnd
<1>3. where = "wake" <=> fork_cnt = cnt - 1
  BY DEF Wakes
<1> HIDE DEF where
<1>4. /\ \A d, e \in Core, u \in Thread : On(d, u)' /\ On(e, u)' => d = e
      /\ \A u \in Thread : Busy(u)' <=> Busy(u)
      /\ \A u \in Thread, x \in Where :
           AtPlace(u, x)' <=> IF u = t THEN x = where ELSE AtPlace(u, x)
  BY <1>0, <1>1, <1>2, Moves
<1>5. fork_cnt' = Cardinality(ended') /\ ended' \subseteq Child
      /\ (fork_cnt' = cnt => ended' = Child)
  <2>1. IsFiniteSet(ended) /\ ended \subseteq Child
    BY FS_Subset DEF DataOK
  <2>2. fork_cnt = Cardinality(ended)
    BY <1>1 DEF ForkedOK
  <2>3. Cardinality(ended') = Cardinality(ended) + 1
    BY <1>1, <1>2, <2>1, FS_AddElement
  <2>4. Cardinality(ended') = Cardinality(Child) => ended' = Child
    BY <1>2, <2>1, FS_Subset
  <2> QED BY <1>2, <2>1, <2>2, <2>3, <2>4 DEF cnt
<1>6. \A u \in Child : ~AtPlace(u, "wake")
  BY <1>1 DEF ParentOK, Woken
<1>7. where = "wake" => ended' = Child
  <2>1. cnt \in Nat
    BY FS_CardinalityType DEF cnt
  <2> QED BY <1>2, <1>3, <1>5, <2>1
<1>8. DataOK'
  <2>1. At(t, where) \in ChildAt
    BY <1>0 DEF At, ChildAt
  <2>2. core' \in [Core -> {Idle} \cup ParentAt \cup ChildAt]
    BY <1>2, <2>1 DEF DataOK, Goto
  <2> QED BY <1>2, <1>5, <2>2 DEF DataOK, Thread, Idle, ParentAt, ChildAt
<1>9. OnceOK'
  BY <1>2, <1>4 DEF OnceOK
<1>10. ~Before'
  BY <1>1, <1>2, <1>4 DEF Before
<1>11. BeforeOK' /\ ForkedOK'
  BY <1>0, <1>1, <1>2, <1>4, <1>5, <1>10 DEF BeforeOK, ForkedOK, Out
<1>12. ParentOK'
  <2>1. inactive[Parent] = 0
    BY <1>1 DEF ParentOK, Woken, DataOK
  <2>2. ~AtPlace(Parent, "join") /\ ~AtPlace(Parent, "setpc")
    BY <1>1, PlaceIsBusy
  <2> QED BY <1>0, <1>1, <1>2, <1>4, <1>6, <1>7, <1>10, <2>1, <2>2
          DEF ParentOK, Woken, Away
<1>13. FreshOK'
  BY <1>0, <1>1, <1>2, <1>4 DEF FreshOK, Away
<1> QED BY <1>8, <1>9, <1>11, <1>12, <1>13

\* The last child queues the parent.
LEMMA StepWake ==
  ASSUME ForkInv, NEW c \in Core, NEW t \in Child, WakeParent(c, t)
  PROVE  ForkInv'
<1> USE ForkAssumption DEF ForkInv
<1>0. {"wake", "reset"} \subseteq Where /\ Runs(c, t, "wake")
  BY DEF Where, WakeParent
<1>1. /\ Child \subseteq Thread /\ Parent \in Thread /\ t # Parent
      /\ {"body", "wake", "fork", "join", "setpc", "reset"} \subseteq Where
      /\ On(c, t) /\ Busy(t)
      /\ \A x \in Where : AtPlace(t, x) <=> x = "wake"
      /\ active[t] = 0 /\ inactive[t] = 0 /\ t \notin future
      /\ ~Before /\ active[Parent] = 0 /\ ~Busy(Parent) /\ Parent \notin future
      /\ pint_thread_pc_x[Parent] = 1 /\ t \in ended
  BY <1>0, ChildRuns
<1>2. inactive[Parent] = 0 /\ ended = Child
  BY <1>1 DEF ParentOK, Woken, Away
<1>3. /\ Goto(c, t, "reset")
      /\ UNCHANGED <<active, future, pint_thread_pc_x, fork_cnt, round, started, ended>>
      /\ inactive'[Parent] = 1 /\ \A u \in Child : inactive'[u] = inactive[u]
  BY <1>1, <1>2 DEF WakeParent, DataOK
<1>4. /\ \A d, e \in Core, u \in Thread : On(d, u)' /\ On(e, u)' => d = e
      /\ \A u \in Thread : Busy(u)' <=> Busy(u)
      /\ \A u \in Thread, x \in Where :
           AtPlace(u, x)' <=> IF u = t THEN x = "reset" ELSE AtPlace(u, x)
  BY <1>0, <1>1, <1>3, Moves
<1>5. DataOK'
  <2>1. At(t, "reset") \in ChildAt
    BY DEF At, ChildAt
  <2>2. core' \in [Core -> {Idle} \cup ParentAt \cup ChildAt]
    BY <1>3, <2>1 DEF DataOK, Goto
  <2>3. inactive' \in [Thread -> {0, 1}]
    BY <1>1, <1>2 DEF DataOK, WakeParent
  <2> QED BY <1>3, <2>2, <2>3 DEF DataOK, Thread, Idle, ParentAt, ChildAt
<1>6. OnceOK'
  BY <1>1, <1>3, <1>4 DEF OnceOK, Thread
<1>7. ~Before'
  BY <1>1, <1>3, <1>4 DEF Before
<1>8. BeforeOK' /\ ForkedOK'
  BY <1>1, <1>3, <1>4, <1>7 DEF BeforeOK, ForkedOK, Out
<1>9. ParentOK'
  <2>1. ~AtPlace(Parent, "setpc")
    BY <1>1, PlaceIsBusy
  <2>2. \A u \in Child : AtPlace(u, "wake") => u = t
    BY <1>0, <1>1 DEF ParentOK
  <2> QED BY <1>1, <1>2, <1>3, <1>4, <1>7, <2>1, <2>2 DEF ParentOK, Away
<1>10. FreshOK'
  BY <1>1, <1>3, <1>4 DEF FreshOK, Away
<1> QED BY <1>5, <1>6, <1>8, <1>9, <1>10

\* An ended child clears its program counter, whoever runs meanwhile.
LEMMA StepReset ==
  ASSUME ForkInv, NEW c \in Core, NEW t \in Child, ResetPc(c, t)
  PROVE  ForkInv'
<1> USE ForkAssumption DEF ForkInv
<1>0. "reset" \in Where /\ Runs(c, t, "reset")
  BY DEF Where, ResetPc
<1>1. /\ Child \subseteq Thread /\ Parent \in Thread /\ t # Parent
      /\ {"body", "wake", "fork", "join", "setpc", "reset"} \subseteq Where
      /\ On(c, t) /\ Busy(t)
      /\ \A x \in Where : AtPlace(t, x) <=> x = "reset"
      /\ active[t] = 0 /\ inactive[t] = 0 /\ t \notin future
      /\ ~Before /\ active[Parent] = 0 /\ ~Busy(Parent) /\ Parent \notin future
      /\ pint_thread_pc_x[Parent] = 1 /\ t \in ended
  BY <1>0, ChildRuns
<1>2. /\ Return(c)
      /\ UNCHANGED <<active, inactive, future, fork_cnt, round, started, ended>>
      /\ pint_thread_pc_x'[t] = 0
      /\ \A u \in Thread : u # t => pint_thread_pc_x'[u] = pint_thread_pc_x[u]
  BY <1>1 DEF ResetPc, PcAfterEnd, DataOK
<1>3. /\ \A d, e \in Core, u \in Thread : On(d, u)' /\ On(e, u)' => d = e
      /\ \A u \in Thread : Busy(u)' <=> Busy(u) /\ u # t
      /\ \A u \in Thread, x \in Where : AtPlace(u, x)' <=> u # t /\ AtPlace(u, x)
  BY <1>1, <1>2, Leaves
<1>4. DataOK'
  <2>1. core' \in [Core -> {Idle} \cup ParentAt \cup ChildAt]
    BY <1>2 DEF DataOK, Return
  <2>2. pint_thread_pc_x' \in [Thread -> {0, 1}]
    BY <1>1 DEF DataOK, ResetPc, PcAfterEnd
  <2> QED BY <1>2, <2>1, <2>2 DEF DataOK, Thread, Idle, ParentAt, ChildAt
<1>5. OnceOK'
  BY <1>1, <1>2, <1>3 DEF OnceOK
<1>6. ~Before'
  BY <1>1, <1>2, <1>3 DEF Before
<1>7. BeforeOK' /\ ForkedOK'
  BY <1>1, <1>2, <1>3, <1>6 DEF BeforeOK, ForkedOK, Out
<1>8. ParentOK'
  BY <1>1, <1>2, <1>3, <1>6 DEF ParentOK, Woken, Away
<1>9. FreshOK'
  BY <1>1, <1>2, <1>3 DEF FreshOK, Away
<1> QED BY <1>4, <1>5, <1>7, <1>8, <1>9

\* INACTIVE_Q becomes ACTIVE_Q: parent and children are never both in it.
LEMMA StepSwap ==
  ASSUME ForkInv, SwapQueues
  PROVE  ForkInv'
<1> USE ForkAssumption DEF ForkInv
<1>1. Child \subseteq Thread /\ Parent \in Thread
      /\ {"body", "wake", "fork", "join", "setpc", "reset"} \subseteq Where
  BY DEF Where, Thread
<1>2. /\ \A t \in Thread : active[t] = 0 /\ inactive'[t] = 0
      /\ active' = inactive
      /\ UNCHANGED <<future, core, pint_thread_pc_x, fork_cnt, round, started, ended>>
  BY DEF SwapQueues, Nothing
<1>3. \A u \in Thread : ~Busy(u) /\ \A x \in Where : ~AtPlace(u, x)
  BY NoneBusy DEF SwapQueues
<1>4. /\ \A d, e \in Core, u \in Thread : On(d, u)' /\ On(e, u)' => d = e
      /\ \A u \in Thread : ~Busy(u)'
      /\ \A u \in Thread, x \in Where : ~AtPlace(u, x)'
  BY <1>2, <1>3, Stays
<1>5. DataOK'
  BY <1>2 DEF DataOK, SwapQueues, Nothing, Thread, Idle, ParentAt, ChildAt
<1>6. OnceOK'
  BY <1>2, <1>3, <1>4 DEF OnceOK
<1>7. pint_thread_pc_x[Parent] = 1
  BY <1>1, <1>2, <1>3 DEF ParentOK, DataOK
<1>8. Before' <=> Before
  BY <1>1, <1>2, <1>3, <1>4, <1>7 DEF Before
<1>9. BeforeOK' /\ ForkedOK'
  BY <1>1, <1>2, <1>3, <1>4, <1>8 DEF BeforeOK, ForkedOK, Away, Out
<1>10. ParentOK'
  <2>1. inactive[Parent] = 1 => \A t \in Child : inactive[t] = 0
    <3>1. CASE Before
      BY <1>1, <3>1 DEF BeforeOK, Away
    <3>2. CASE ~Before
      BY <1>1, <3>2 DEF ForkedOK, ParentOK, Woken, Out, DataOK
    <3> QED BY <3>1, <3>2
  <2>2. Woken' => Woken
    BY <1>1, <1>2, <1>4 DEF Woken
  <2> QED BY <1>1, <1>2, <1>4, <1>7, <1>8, <2>1, <2>2 DEF ParentOK
<1>11. FreshOK'
  BY <1>1, <1>2, <1>3, <1>4 DEF FreshOK, Away
<1> QED BY <1>5, <1>6, <1>9, <1>10, <1>11

\* Time advances to the children whose delay ends.
LEMMA StepTime ==
  ASSUME ForkInv, NEW ts \in SUBSET future, NextTime(ts)
  PROVE  ForkInv'
<1> USE ForkAssumption DEF ForkInv
<1>1. Child \subseteq Thread /\ Parent \in Thread /\ future \subseteq Child
      /\ {"body", "wake", "fork", "join", "setpc", "reset"} \subseteq Where
  BY DEF Where, Thread, DataOK
<1>2. /\ \A t \in Thread : active[t] = 0 /\ inactive[t] = 0
      /\ \A t \in Thread : active'[t] = IF t \in ts THEN 1 ELSE 0
      /\ future' = future \ ts
      /\ UNCHANGED <<inactive, core, pint_thread_pc_x, fork_cnt, round, started, ended>>
  BY DEF NextTime, Nothing
<1>3. \A u \in Thread : ~Busy(u) /\ \A x \in Where : ~AtPlace(u, x)
  BY NoneBusy DEF NextTime
<1>4. /\ \A d, e \in Core, u \in Thread : On(d, u)' /\ On(e, u)' => d = e
      /\ \A u \in Thread : ~Busy(u)'
      /\ \A u \in Thread, x \in Where : ~AtPlace(u, x)'
  BY <1>2, <1>3, Stays
<1>5. DataOK'
  BY <1>2 DEF DataOK, NextTime, Thread, Idle, ParentAt, ChildAt
<1>6. OnceOK'
  BY <1>2, <1>3, <1>4 DEF OnceOK
<1>7. pint_thread_pc_x[Parent] = 1 /\ active'[Parent] = 0
  BY <1>1, <1>2, <1>3 DEF ParentOK, DataOK
<1>8. Before' <=> Before
  BY <1>1, <1>2, <1>3, <1>4, <1>7 DEF Before
<1>9. BeforeOK' /\ ForkedOK'
  BY <1>1, <1>2, <1>3, <1>4, <1>7, <1>8 DEF BeforeOK, ForkedOK, Away, Out
<1>10. ParentOK'
  BY <1>1, <1>2, <1>3, <1>4, <1>7, <1>8 DEF ParentOK, Woken
<1>11. FreshOK'
  BY <1>1, <1>2, <1>3, <1>4 DEF FreshOK, Away
<1> QED BY <1>5, <1>6, <1>9, <1>10, <1>11

\* Every step, and a stuttering one, keeps the invariant.
LEMMA ForkStep == ForkInv /\ [Next]_vars => ForkInv'
<1> SUFFICES ASSUME ForkInv, [Next]_vars PROVE ForkInv'
  OBVIOUS
<1>1. ASSUME UNCHANGED vars PROVE ForkInv'
  <2> USE ForkAssumption DEF ForkInv
  <2>1. UNCHANGED <<active, inactive, future, core, pint_thread_pc_x, fork_cnt, round,
                    started, ended>>
    BY <1>1 DEF vars
  <2>2. Child \subseteq Thread /\ Parent \in Thread
        /\ {"body", "wake", "fork", "join", "setpc", "reset"} \subseteq Where
    BY DEF Where, Thread
  <2>3. /\ \A d, e \in Core, u \in Thread : On(d, u)' /\ On(e, u)' => d = e
        /\ \A u \in Thread : Busy(u)' <=> Busy(u)
        /\ \A u \in Thread, x \in Where : AtPlace(u, x)' <=> AtPlace(u, x)
    BY <2>1, Stays
  <2>4. (Before' <=> Before) /\ \A t \in Thread : Away(t)' <=> Away(t)
    BY <2>1, <2>2, <2>3 DEF Before, Away
  <2>5. DataOK' /\ OnceOK'
    BY <2>1, <2>3 DEF DataOK, OnceOK, Thread, Idle, ParentAt, ChildAt
  <2>6. BeforeOK' /\ ForkedOK'
    BY <2>1, <2>2, <2>3, <2>4 DEF BeforeOK, ForkedOK, Out
  <2>7. ParentOK' /\ FreshOK'
    BY <2>1, <2>2, <2>3, <2>4 DEF ParentOK, Woken, FreshOK
  <2> QED BY <2>5, <2>6, <2>7
<1>2. ASSUME Step PROVE ForkInv'
  <2>1. CASE \E c \in Core : EnqueueChildren(c) \/ SetPc(c) \/ Join(c)
    BY <2>1, StepEnqueue, StepSetPc, StepJoin
  <2>2. CASE \E c \in Core : \E t \in Thread : TakeThread(c, t)
    BY <2>2, StepTake
  <2>3. CASE \E c \in Core : \E t \in Child :
               ChildDelay(c, t) \/ ChildEnd(c, t) \/ WakeParent(c, t) \/ ResetPc(c, t)
    BY <2>3, StepDelay, StepEnd, StepWake, StepReset
  <2>4. CASE SwapQueues
    BY <2>4, StepSwap
  <2>5. CASE \E ts \in SUBSET future : NextTime(ts)
    BY <2>5, StepTime
  <2> QED BY <1>2, <2>1, <2>2, <2>3, <2>4, <2>5 DEF Step
<1> QED BY <1>1, <1>2 DEF Next

\* A thread with at most one place has at most one copy.
LEMMA ForkImplies == ForkInv => OneCopy /\ FreshStart
<1> SUFFICES ASSUME ForkInv PROVE OneCopy /\ FreshStart
  OBVIOUS
<1> USE ForkAssumption DEF ForkInv
<1>1. cnt \in Nat /\ fork_cnt <= cnt
  <2>1. cnt \in Nat /\ Cardinality(ended) <= cnt
    BY FS_CardinalityType, FS_Subset DEF cnt, DataOK
  <2> QED BY <2>1 DEF BeforeOK, ForkedOK
<1>2. TypeOK
  BY <1>1 DEF DataOK, TypeOK
<1>3. ASSUME NEW t \in Thread PROVE Copies(t) <= 1
  <2> DEFINE S == {c \in Core : core[c] # Idle /\ core[c].t = t}
  <2>1. \A c, d \in S : c = d
    BY DEF OnceOK, On
  <2>2. S = {} \/ \E c : S = {c}
    BY <2>1
  <2>3. Cardinality(S) = IF Busy(t) THEN 1 ELSE 0
    BY <2>2, FS_EmptySet, FS_Singleton DEF Busy, On
  <2> HIDE DEF S
  <2>4. Copies(t) = active[t] + inactive[t] + Cardinality(S) + IF t \in future THEN 1 ELSE 0
    BY DEF Copies, S
  <2>5. active[t] \in {0, 1} /\ inactive[t] \in {0, 1}
    BY DEF DataOK
  <2> QED BY <2>3, <2>4, <2>5 DEF OnceOK
<1>4. FreshStart
  BY DEF FreshStart, FreshOK, DataOK, Thread
<1> QED BY <1>2, <1>3, <1>4 DEF OneCopy

\* However many children end on however many cores, no thread is ever queued,
\* suspended and running more than once.
THEOREM ForkOneCopy == Spec => []OneCopy
BY ForkInit, ForkStep, ForkImplies, PTL DEF Spec

\* A child forked again starts from the top, although its program counter is
\* cleared after the parent was woken.
THEOREM ForkFreshStart == Spec => []FreshStart
BY ForkInit, ForkStep, ForkImplies, PTL DEF Spec

\* The parent passes the join only when every child of the round has ended.
THEOREM ForkJoinAfterAll == Spec => JoinAfterAll
<1>1. ForkInv /\ [Next]_vars => [round' # round => ended = Child]_vars
  <2> SUFFICES ASSUME ForkInv, Next, round' # round PROVE ended = Child
    BY DEF vars
  <2>1. \E c \in Core : Join(c)
    BY DEF Next, Step, EnqueueChildren, SetPc, TakeThread, ChildDelay, ChildEnd,
       WakeParent, ResetPc, SwapQueues, NextTime, vars
  <2> QED BY <2>1, StepJoin
<1> QED BY <1>1, ForkInit, ForkStep, PTL DEF Spec, JoinAfterAll
=====
