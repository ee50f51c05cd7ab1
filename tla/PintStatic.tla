----------------------------- MODULE PintStatic -----------------------------
(***************************************************************************)
(* The parallel pass over the static event table (simu/src/main.c,         *)
(* execute_static_q_thread): always blocks with a single @(...) are not    *)
(* queued; an edge appends the list of the blocks it wakes to              *)
(* static_event_list_table, and stage 1 divides the items of all lists     *)
(* among the cores.                                                        *)
(*                                                                         *)
(* Up to STATIC_SWITCH_MODE_SIZE items the cores take every                *)
(* PINT_CORE_NUM-th item and run it; beyond, each core screens a block of  *)
(* items, publishes the valid threads on ACTIVE_Q but the first, and after *)
(* a barrier all run what they find there.  What a thread puts on the      *)
(* other queues is left out.                                               *)
(***************************************************************************)
EXTENDS Integers, Sequences, FiniteSets, SequencesExt

CONSTANTS
    PINT_CORE_NUM,
    STATIC_SWITCH_MODE_SIZE,
    PINT_NCORE_LIST_SIZE,    \* length of a core's ncore_thread_list
    Threads,     \* the static threads
    Always,      \* those whose pint_event_flag is 0x55
    Lists,       \* the s_lists of the signals
    Wakes,       \* Wakes[t]: the s_list of what t assigns, <<>> if it has none
    PList,       \* PList[t]: the threads whose flag that assignment sets
    None,
    Cap,         \* the entries of static_event_list_table
    MaxPass,     \* bound on the passes
    MaxEdges,    \* bound on the edges static threads cause in a pass
    MaxItems     \* bound on the items of a pass, for the history

Cores == 0 .. PINT_CORE_NUM - 1
Entries == 0 .. Cap - 1
Items == 0 .. MaxItems

ASSUME StaticAssumption ==
    /\ PINT_CORE_NUM \in Nat \ {0}
    \* a screening core has at least one item
    /\ STATIC_SWITCH_MODE_SIZE \in Nat /\ STATIC_SWITCH_MODE_SIZE >= PINT_CORE_NUM - 1
    /\ PINT_NCORE_LIST_SIZE \in Nat \ {0}
    /\ MaxEdges \in Nat /\ Cap \in Nat /\ Cap > MaxEdges
    /\ Always \subseteq Threads /\ None \notin Threads /\ <<>> \notin Lists
    /\ Wakes \in [Threads -> Lists \cup {<<>>}] /\ PList \in [Threads -> SUBSET Threads]

VARIABLES
    table_num,    \* static_event_list_table_num: the entries and, << 12, the items
    tlist,        \* static_event_list_table
    tsize,        \* static_event_list_table_size
    event_flag,   \* pint_event_flag
    active,       \* ACTIVE_Q
    mc,           \* the mcore: "loop" or "pass"
    pass,         \* how many passes were filled
    edges,        \* how many edges this pass has caused
    pc, total_thread_num, i, cur,
    dst,          \* the valid threads a core has screened
    enq_idx,
    start, seen, picked, ran   \* history: the items at the start of the pass,
                               \* how often each was looked at, and the threads
                               \* found valid and run

tvars == <<table_num, tlist, tsize>>
cvars == <<pc, total_thread_num, i, cur, dst, enq_idx>>
hvars == <<start, seen, picked, ran>>
vars == <<tvars, event_flag, active, mc, pass, edges, cvars, hvars>>

Init ==
    /\ table_num = [entries |-> 0, items |-> 0]
    /\ tlist = [e \in Entries |-> <<>>] /\ tsize = [e \in Entries |-> 0]
    /\ event_flag = [t \in Threads |-> IF t \in Always THEN 85 ELSE 1]
    /\ active = <<>> /\ mc = "loop" /\ pass = 0 /\ edges = 0
    /\ pc = [c \in Cores |-> "off"]
    /\ total_thread_num = [c \in Cores |-> 0]
    /\ i = [c \in Cores |-> 0]
    /\ cur = [c \in Cores |-> None]
    /\ dst = [c \in Cores |-> <<>>]
    /\ enq_idx = [c \in Cores |-> 0]
    /\ start = 0 /\ seen = [x \in Items |-> 0]
    /\ picked = [t \in Threads |-> 0] /\ ran = [t \in Threads |-> 0]

-----------------------------------------------------------------------------
(* The mcore.                                                              *)

\* The threads of the active phase before the pass cause some edges, and leave
\* room in the table for those of the pass.
Fill ==
    /\ mc = "loop" /\ table_num.entries = 0 /\ pass < MaxPass
    /\ pass' = pass + 1
    /\ \E n \in 1 .. Cap - MaxEdges : \E ls \in [0 .. n - 1 -> Lists] :
         /\ tlist' = [e \in Entries |-> IF e < n THEN ls[e] ELSE tlist[e]]
         /\ tsize' = [e \in Entries |-> IF e < n THEN Len(ls[e]) ELSE tsize[e]]
         /\ table_num' = [entries |-> n,
                          items |-> Len(FlattenSeq([e \in 1 .. n |-> ls[e - 1]]))]
    /\ \E set \in SUBSET (Threads \ Always) :
         event_flag' = [t \in Threads |-> IF t \in set THEN 1 ELSE event_flag[t]]
    /\ UNCHANGED <<active, mc, edges, cvars, hvars>>

\* START_PARALLEL_WITH_CYCLE_COUNT(execute_static_q_thread, ...).
StartPass ==
    /\ mc = "loop" /\ table_num.entries > 0
    /\ mc' = "pass"
    /\ pc' = [c \in Cores |-> "start"]
    /\ start' = table_num.items
    /\ UNCHANGED <<tvars, event_flag, active, pass, edges, total_thread_num, i, cur,
                   dst, enq_idx, seen, picked, ran>>

Joined == mc = "pass" /\ \A c \in Cores : pc[c] = "off"

\* static_event_list_table_num = 0 and the swap.
PassDone ==
    /\ Joined
    /\ table_num' = [entries |-> 0, items |-> 0]
    /\ mc' = "loop" /\ active' = <<>> /\ edges' = 0
    /\ seen' = [x \in Items |-> 0]
    /\ picked' = [t \in Threads |-> 0] /\ ran' = [t \in Threads |-> 0]
    /\ UNCHANGED <<tlist, tsize, event_flag, pass, cvars, start>>

-----------------------------------------------------------------------------
(* A core.                                                                 *)

Screening(c) == total_thread_num[c] > STATIC_SWITCH_MODE_SIZE
div(c) == total_thread_num[c] \div PINT_CORE_NUM
mod(c) == total_thread_num[c] % PINT_CORE_NUM
\* Mutants of num: the remainder is forgotten; one core too many gets a part of it.
numWithoutRest(c) == div(c)
numOneMore(c) == div(c) + (IF mod(c) >= c THEN 1 ELSE 0)
num(c) == div(c) + (IF mod(c) > c THEN 1 ELSE 0)
off(c) == div(c) * c + (IF mod(c) > c THEN c ELSE mod(c))

\* The item a core looks at next.
Item(c) == IF Screening(c) THEN off(c) + i[c] ELSE c + i[c] * PINT_CORE_NUM

\* The walk over the sizes: the entries that hold an item, none past the table.
Holding(x) ==
    LET before[e \in 0 .. Cap] == IF e = 0 THEN 0 ELSE before[e - 1] + tsize[e - 1]
    IN {<<e, x - before[e] + 1>> : e \in {d \in Entries : before[d] <= x /\ x < before[d + 1]}}

\* pint_dcache_discard, then the number of items is read once.
ReadTotal(c) ==
    /\ pc[c] = "start"
    /\ total_thread_num' = [total_thread_num EXCEPT ![c] = table_num.items]
    /\ i' = [i EXCEPT ![c] = 0]
    /\ dst' = [dst EXCEPT ![c] = <<>>]
    /\ cur' = [cur EXCEPT ![c] = None]
    /\ pc' = [pc EXCEPT ![c] = "item"]
    /\ UNCHANGED <<tvars, event_flag, active, mc, pass, edges, enq_idx, hvars>>

\* Look at one item: skip it, or pick its thread.  A thread is fetched with the
\* list of a slot that another core may be storing to.
Examine(c) ==
    /\ pc[c] = "item" /\ i[c] < num(c)
    /\ seen' = [seen EXCEPT ![Item(c)] = @ + 1]
    /\ IF Holding(Item(c)) = {}
       THEN /\ pc' = [pc EXCEPT ![c] = "fault"]
            /\ UNCHANGED <<i, cur, picked>>
       ELSE \E h \in Holding(Item(c)) :
              LET t == IF h[2] <= Len(tlist[h[1]]) THEN tlist[h[1]][h[2]] ELSE None IN
              IF t = None
              THEN pc' = [pc EXCEPT ![c] = "fault"] /\ UNCHANGED <<i, cur, picked>>
              ELSE IF event_flag[t] = 0
              THEN i' = [i EXCEPT ![c] = @ + 1] /\ UNCHANGED <<pc, cur, picked>>
              ELSE /\ cur' = [cur EXCEPT ![c] = t]
                   /\ picked' = [picked EXCEPT ![t] = @ + 1]
                   /\ pc' = [pc EXCEPT ![c] =
                                IF event_flag[t] = 1 THEN "clear"
                                ELSE IF Screening(c) THEN "collect" ELSE "run"]
                   /\ UNCHANGED i
    /\ UNCHANGED <<tvars, event_flag, active, mc, pass, edges, total_thread_num, dst,
                   enq_idx, start, ran>>

\* pint_event_flag[q_flag_idx] = 0, a store of its own.
ClearFlag(c) ==
    /\ pc[c] = "clear"
    /\ event_flag' = [event_flag EXCEPT ![cur[c]] = 0]
    /\ pc' = [pc EXCEPT ![c] = IF Screening(c) THEN "collect" ELSE "run"]
    /\ UNCHANGED <<tvars, active, mc, pass, edges, total_thread_num, i, cur, dst,
                   enq_idx, hvars>>

\* screen_valid_static_task: dst[valid_thread_num++], and a full list goes to
\* ACTIVE_Q at once when the core has more items than its list can hold.  The
\* slots are not read before the barrier, so reserving and storing are one step.
Collect(c) ==
    /\ pc[c] = "collect"
    /\ LET all == Append(dst[c], cur[c])
           flush == num(c) > PINT_NCORE_LIST_SIZE /\ Len(all) = PINT_NCORE_LIST_SIZE
       IN /\ active' = IF flush THEN active \o all ELSE active
          /\ dst' = [dst EXCEPT ![c] = IF flush THEN <<>> ELSE all]
    /\ i' = [i EXCEPT ![c] = @ + 1]
    /\ cur' = [cur EXCEPT ![c] = None]
    /\ pc' = [pc EXCEPT ![c] = "item"]
    /\ UNCHANGED <<tvars, event_flag, mc, pass, edges, total_thread_num, enq_idx, hvars>>

\* Mutants of Publish: the kept thread is published too; a core without a thread
\* does not wait for the others.
PublishAll(c) ==
    /\ pc[c] = "item" /\ i[c] = num(c) /\ Screening(c)
    /\ IF dst[c] = <<>> THEN UNCHANGED <<active, cur>>
                        ELSE /\ active' = active \o dst[c]
                             /\ cur' = [cur EXCEPT ![c] = Head(dst[c])]
    /\ pc' = [pc EXCEPT ![c] = "sync"]
    /\ UNCHANGED <<tvars, event_flag, mc, pass, edges, total_thread_num, i, dst,
                   enq_idx, hvars>>
PublishNoSync(c) ==
    /\ pc[c] = "item" /\ i[c] = num(c) /\ Screening(c)
    /\ IF dst[c] = <<>> THEN UNCHANGED <<active, cur>>
                        ELSE /\ active' = active \o Tail(dst[c])
                             /\ cur' = [cur EXCEPT ![c] = Head(dst[c])]
    /\ pc' = [pc EXCEPT ![c] = IF dst[c] = <<>> THEN "dequeue" ELSE "sync"]
    /\ UNCHANGED <<tvars, event_flag, mc, pass, edges, total_thread_num, i, dst,
                   enq_idx, hvars>>

\* ... its end: the first thread is kept, the others are published.
Publish(c) ==
    /\ pc[c] = "item" /\ i[c] = num(c) /\ Screening(c)
    /\ IF dst[c] = <<>> THEN UNCHANGED <<active, cur>>
                        ELSE /\ active' = active \o Tail(dst[c])
                             /\ cur' = [cur EXCEPT ![c] = Head(dst[c])]
    /\ pc' = [pc EXCEPT ![c] = "sync"]
    /\ UNCHANGED <<tvars, event_flag, mc, pass, edges, total_thread_num, i, dst,
                   enq_idx, hvars>>

\* uap.sync: all cores go on together.
Sync ==
    /\ \A c \in Cores : pc[c] = "sync"
    /\ pc' = [c \in Cores |-> IF cur[c] # None THEN "run" ELSE "dequeue"]
    /\ UNCHANGED <<tvars, event_flag, active, mc, pass, edges, total_thread_num, i, cur,
                   dst, enq_idx, hvars>>

DequeueActive(c) ==
    /\ pc[c] = "dequeue"
    /\ IF active = <<>>
       THEN pc' = [pc EXCEPT ![c] = "off"] /\ UNCHANGED <<active, cur>>
       ELSE /\ cur' = [cur EXCEPT ![c] = Last(active)]
            /\ active' = Front(active)
            /\ pc' = [pc EXCEPT ![c] = "run"]
    /\ UNCHANGED <<tvars, event_flag, mc, pass, edges, total_thread_num, i, dst,
                   enq_idx, hvars>>

\* execute_static_by_static_alloc returns.
AllocDone(c) ==
    /\ pc[c] = "item" /\ i[c] = num(c) /\ ~Screening(c)
    /\ pc' = [pc EXCEPT ![c] = "off"]
    /\ UNCHANGED <<tvars, event_flag, active, mc, pass, edges, total_thread_num, i, cur,
                   dst, enq_idx, hvars>>

\* The thread has returned: on to the next item, or to the queue.
After(c) ==
    /\ pc' = [pc EXCEPT ![c] = IF Screening(c) THEN "dequeue" ELSE "item"]
    /\ i' = [i EXCEPT ![c] = IF Screening(c) THEN @ ELSE @ + 1]
    /\ cur' = [cur EXCEPT ![c] = None]

\* The thread runs without an edge ...
RunThread(c) ==
    /\ pc[c] = "run"
    /\ ran' = [ran EXCEPT ![cur[c]] = @ + 1]
    /\ After(c)
    /\ UNCHANGED <<tvars, event_flag, active, mc, pass, edges, total_thread_num, dst,
                   enq_idx, start, seen, picked>>

\* ... or with one: pint_set_event_flag(p_list), then pint_process_event_list adds
\* (thread_num << 12) + 1 to the table's word and keeps the low part ...
RunWithEdge(c) ==
    /\ pc[c] = "run" /\ Wakes[cur[c]] # <<>> /\ edges < MaxEdges
    /\ edges' = edges + 1
    /\ event_flag' = [t \in Threads |-> IF t \in PList[cur[c]] THEN 1 ELSE event_flag[t]]
    /\ ran' = [ran EXCEPT ![cur[c]] = @ + 1]
    /\ enq_idx' = [enq_idx EXCEPT ![c] = table_num.entries]
    /\ table_num' = [entries |-> table_num.entries + 1,
                     items |-> table_num.items + Len(Wakes[cur[c]])]
    /\ pc' = [pc EXCEPT ![c] = "list"]
    /\ UNCHANGED <<tlist, tsize, active, mc, pass, total_thread_num, i, cur, dst, start,
                   seen, picked>>

\* ... and stores the list and its size.
StoreList(c) ==
    /\ pc[c] = "list"
    /\ tlist' = [tlist EXCEPT ![enq_idx[c]] = Wakes[cur[c]]]
    /\ pc' = [pc EXCEPT ![c] = "size"]
    /\ UNCHANGED <<table_num, tsize, event_flag, active, mc, pass, edges,
                   total_thread_num, i, cur, dst, enq_idx, hvars>>

StoreSize(c) ==
    /\ pc[c] = "size"
    /\ tsize' = [tsize EXCEPT ![enq_idx[c]] = Len(Wakes[cur[c]])]
    /\ After(c)
    /\ UNCHANGED <<table_num, tlist, event_flag, active, mc, pass, edges,
                   total_thread_num, dst, enq_idx, hvars>>

MainStep == StartPass \/ PassDone \/ Sync

CoreStep(c) ==
    \/ ReadTotal(c) \/ Examine(c) \/ ClearFlag(c) \/ Collect(c) \/ Publish(c)
    \/ DequeueActive(c) \/ AllocDone(c) \/ RunThread(c) \/ RunWithEdge(c)
    \/ StoreList(c) \/ StoreSize(c)

Next == Fill \/ MainStep \/ \E c \in Cores : CoreStep(c)

\* Started cores execute, and the mcore goes on when they have parked.
Fairness == WF_vars(MainStep) /\ \A c \in Cores : WF_vars(CoreStep(c))

Spec == Init /\ [][Next]_vars /\ Fairness
-----------------------------------------------------------------------------
TypeOK ==
    /\ table_num \in [entries : Nat, items : Nat]
    /\ tlist \in [Entries -> Seq(Threads)] /\ tsize \in [Entries -> Nat]
    /\ event_flag \in [Threads -> {0, 1, 85}]
    /\ active \in Seq(Threads) /\ mc \in {"loop", "pass"}
    /\ pass \in 0 .. MaxPass /\ edges \in 0 .. MaxEdges
    /\ pc \in [Cores -> {"off", "start", "item", "clear", "collect", "sync", "dequeue",
                         "run", "list", "size", "fault"}]
    /\ total_thread_num \in [Cores -> Nat] /\ i \in [Cores -> Nat]
    /\ cur \in [Cores -> Threads \cup {None}] /\ dst \in [Cores -> Seq(Threads)]
    /\ enq_idx \in [Cores -> Nat]
    /\ start \in Nat /\ seen \in [Items -> Nat]
    /\ picked \in [Threads -> Nat] /\ ran \in [Threads -> Nat]

\* The cores divide the items among them without a gap or an overlap: when the
\* pass is over each item it began with was looked at exactly once, whatever the
\* remainder of the division and in both modes.
EachItemOnce == Joined => \A x \in Items : x < start => seen[x] = 1

\* Every thread found valid is run as often as it was found: the hand-over through
\* ncore_thread_list, ACTIVE_Q and the barrier loses and doubles nothing.
PickedRuns == Joined => picked = ran

\* A core that read the number of items after a thread of this pass had added to
\* it, and one that therefore screens while the others take strides.
Late(c) == mc = "pass" /\ pc[c] # "start" /\ total_thread_num[c] # start
Crossed(c) == Late(c) /\ Screening(c) /\ start <= STATIC_SWITCH_MODE_SIZE

\* The types hold, and no core walks past the entries that are stored, but for a
\* late core at an appended item: the number of items is raised before the list
\* and its size are stored.
NoWildRead ==
    TypeOK /\ \A c \in Cores : pc[c] = "fault" => Late(c) /\ Item(c) >= start

\* "The wait statement contains [...] a sub-statement to execute when an event
\* triggers" (tgt-pint/statement.c:514): when main clears the table, every list
\* in it was served, also the lists that static threads appended.
NoEntryLost == Joined => \A x \in Items : x < table_num.items => seen[x] > 0

\* The pass ends: no core waits at the barrier for one that never comes, unless an
\* append took the number of items over the limit between the reads of two cores,
\* or a late core met an entry that was not stored.
PassEnds == mc = "pass" ~> (mc = "loop" \/ \E c \in Cores : pc[c] = "fault" \/ Crossed(c))
=============================================================================
