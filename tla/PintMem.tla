------------------------------- MODULE PintMem ------------------------------
(***************************************************************************)
(* The simulation memory (pint_mem_alloc, pint_mem_free, pint_mem_compact, *)
(* pint_simu.c) and its one user that keeps memory over time steps: the    *)
(* delayed nonblocking assignment (pint_enqueue_nb_future, main.c).        *)
(*                                                                         *)
(* A CROSS_T block is bumped off the current one of two arenas and entered *)
(* in that arena's table.  At the end of a time step, when the arena is    *)
(* half full, all cores copy the live blocks to the other arena, each core *)
(* a slice of the table, and store the new address in the one reference    *)
(* a block knows.  A delayed assignment keeps its value and a descriptor   *)
(* (the info: where the value is) in such a block, the address of the info *)
(* in a pint_future_thread entry, and registers the info's own src field   *)
(* as the reference.                                                       *)
(*                                                                         *)
(* All blocks have one size, so an address is an arena and an index, and   *)
(* arena and table are full together.  Arena 1 follows arena 0 in memory.  *)
(***************************************************************************)
EXTENDS Integers, FiniteSets, Sequences

CONSTANTS
  NCores,         \* cores, numbered from 0; 256 in the code
  Stmt,           \* delayed assignments of the design
  Value,
  Cap,            \* blocks of an arena
  MaxExec,        \* bound: executions that allocate
  MaxCompactions  \* bound: copying compactions in a run

ASSUME MemAssumption ==
  NCores \in Nat \ {0} /\ Cap \in Nat \ {0} /\ MaxCompactions \in Nat /\ MaxExec \in Nat

VARIABLES
  stage,              \* "active", "release" or "compact"
  _mem_cur_ind, _mem_alloc_tab_head, _mem_chunk_head, _mem_cross_t_count,
  tab,                \* the two tables: type and block of an entry
  mem,                \* the two arenas
  entry,              \* pint_future_thread[].nb of each pending assignment
  want,               \* history: the value assigned last
  core,               \* what each core is doing
  moved,              \* history: how often the kernel moved each table entry
  pint_mem_compact_count,
  execs,              \* executions that allocated
  exhausted,          \* history: an allocation found its arena full
  outlived            \* history: a block was moved for the second time

heads == <<_mem_cur_ind, _mem_alloc_tab_head, _mem_chunk_head>>
vars == <<stage, heads, _mem_cross_t_count, tab, mem, entry, want, core, moved,
          pint_mem_compact_count, execs, exhausted, outlived>>

Core == 0 .. NCores - 1
Arena == {0, 1}
Index == 0 .. Cap - 1
Addr == Arena \X Index
None == <<>>
CROSS_T == 2
Free == 0
EmptyTab == [type |-> Free, p |-> 0]
EmptyBlock == [tab |-> 0, ref |-> None, val |-> None, src |-> None]
Idle == [at |-> "idle"]
Undefined == [at |-> "undefined"]
cur == _mem_cur_ind
old == 1 - cur
Block(a) == mem[a[1]][a[2]]
Pending == {s \in Stmt : entry[s] # None}
AllIdle == \A c \in Core : core[c] = Idle

Init ==
  /\ stage = "active"
  /\ _mem_cur_ind = 0
  /\ _mem_alloc_tab_head = [a \in Arena |-> 0]
  /\ _mem_chunk_head = [a \in Arena |-> 0]
  /\ _mem_cross_t_count = 0
  /\ tab = [a \in Arena |-> [i \in Index |-> EmptyTab]]
  /\ mem = [a \in Arena |-> [i \in Index |-> EmptyBlock]]
  /\ entry = [s \in Stmt |-> None]
  /\ want = [s \in Stmt |-> None]
  /\ core = [c \in Core |-> Idle]
  /\ moved = [i \in Index |-> 0]
  /\ pint_mem_compact_count = 0
  /\ execs = 0
  /\ exhausted = FALSE /\ outlived = FALSE

-----------------------------------------------------------------------------
(* pint_mem_alloc, for a statement or for the kernel: two atomic adds. *)

\* Mutant of ChunkOffset: the offset is read after the addition of another core.
ChunkOffsetLate(a) == IF _mem_chunk_head[a] = 0 THEN 0 ELSE _mem_chunk_head[a] - 1
ChunkOffset(a) == _mem_chunk_head[a]

\* The offset is used unless the head, read again after the addition, lies beyond
\* the arena: then it is 0, and the first block is handed out once more.  x is what
\* the addition returned; additions of other cores may have raised the head.
Offsets(x, head) == IF x + 1 > Cap THEN {0} ELSE IF head > Cap THEN {x, 0} ELSE {x}

AllocChunk(c, job) ==
  /\ _mem_chunk_head' = [_mem_chunk_head EXCEPT ![cur] = @ + 1]
  /\ exhausted' = (exhausted \/ _mem_chunk_head[cur] >= Cap)
  /\ core' = [core EXCEPT ![c] = [at |-> "tab", job |-> job, p |-> ChunkOffset(cur)]]

CountAlloc(job) == _mem_cross_t_count + 1
Allocating == {c \in Core : core[c].at = "tab"}

AllocTab(c) ==
  /\ core[c].at = "tab"
  /\ _mem_alloc_tab_head' = [_mem_alloc_tab_head EXCEPT ![cur] = @ + 1]
  /\ _mem_cross_t_count' = CountAlloc(core[c].job)
  /\ \E p \in Offsets(core[c].p, _mem_chunk_head[cur]),
        t \in Offsets(_mem_alloc_tab_head[cur],
                      _mem_alloc_tab_head[cur] + Cardinality(Allocating)) :
       /\ tab' = [tab EXCEPT ![cur][t] = [type |-> CROSS_T, p |-> p]]
       /\ mem' = [mem EXCEPT ![cur][p].tab = t, ![cur][p].ref = None]
       /\ core' = [core EXCEPT ![c].at = "fill", ![c].p = p]
  /\ UNCHANGED <<stage, _mem_cur_ind, _mem_chunk_head, entry, want, moved,
                 pint_mem_compact_count, execs, exhausted, outlived>>

-----------------------------------------------------------------------------
(* The active phase: threads execute delayed assignments. *)

\* The core that runs the thread of statement s.
Running(c, s) ==
  \/ core[c].at \in {"tab", "fill"} /\ core[c].job.s = s
  \/ core[c].at = "thread" /\ core[c].s = s

\* The first execution in an invocation of the thread allocates a block, also when
\* the entry of an earlier invocation is still pending.
Execute(c, s, v) ==
  /\ stage = "active" /\ core[c] = Idle
  /\ \A d \in Core : ~Running(d, s)
  /\ AllocChunk(c, [of |-> "thread", s |-> s, v |-> v])
  /\ execs < MaxExec /\ execs' = execs + 1
  /\ UNCHANGED <<stage, _mem_cur_ind, _mem_alloc_tab_head, _mem_cross_t_count, tab,
                 mem, entry, want, moved, pint_mem_compact_count, outlived>>

\* pint_mem_free: a block of the current arena, marked free and uncounted.  The
\* head counts bytes and is added to a pointer to words, so the test reaches four
\* times as far as the blocks given out, into arena 1 when arena 0 is current.
InCurrent(a) ==
  a # None /\ LET i == Cap * (a[1] - cur) + a[2]
              IN i >= 0 /\ i < 4 * _mem_chunk_head[cur]
Freed(a) ==
  IF InCurrent(a) /\ tab[a[1]][Block(a).tab].type = CROSS_T
  THEN /\ _mem_cross_t_count' = _mem_cross_t_count - 1
       /\ tab' = [tab EXCEPT ![a[1]][Block(a).tab].type = Free]
  ELSE UNCHANGED <<_mem_cross_t_count, tab>>

\* The value is stored in the block and pint_enqueue_nb_future is called: with a
\* delay the entry and the reference are set, without one the value is used and
\* the block freed at once.  The block of an entry that was pending stays behind.
pint_enqueue_nb_future(c, delay) ==
  /\ core[c].at = "fill" /\ core[c].job.of = "thread"
  /\ LET s == core[c].job.s
         a == <<cur, core[c].p>>
     IN /\ mem' = [mem EXCEPT ![cur][core[c].p] =
                     [tab |-> @.tab, val |-> core[c].job.v, src |-> a,
                      ref |-> IF delay > 0 THEN a ELSE @.ref]]
        /\ core' = [core EXCEPT ![c] = [at |-> "thread", s |-> s, blk |-> a]]
        /\ IF delay > 0
           THEN /\ entry' = [entry EXCEPT ![s] = a]
                /\ want' = [want EXCEPT ![s] = core[c].job.v]
                /\ UNCHANGED <<_mem_cross_t_count, tab>>
           ELSE /\ Freed(a)
                /\ UNCHANGED <<entry, want>>
  /\ UNCHANGED <<stage, heads, moved, pint_mem_compact_count, execs, exhausted, outlived>>

\* The same statement again in the same invocation: the value goes to the same
\* block, and its enqueue_flag makes pint_enqueue_nb_future return.
ExecuteAgain(c, v) ==
  /\ core[c].at = "thread"
  /\ mem' = [mem EXCEPT ![cur][core[c].blk[2]].val = v]
  /\ want' = [want EXCEPT ![core[c].s] = IF entry[core[c].s] = core[c].blk
                                              THEN v ELSE @]
  /\ UNCHANGED <<stage, heads, _mem_cross_t_count, tab, entry, core, moved,
                 pint_mem_compact_count, execs, exhausted, outlived>>

ThreadReturns(c) ==
  /\ core[c].at = "thread"
  /\ core' = [core EXCEPT ![c] = Idle]
  /\ UNCHANGED <<stage, heads, _mem_cross_t_count, tab, mem, entry, want, moved,
                 pint_mem_compact_count, execs, exhausted, outlived>>

-----------------------------------------------------------------------------
(* The end of a time step. *)

EndActive ==
  /\ stage = "active" /\ AllIdle
  /\ stage' = "release"
  /\ UNCHANGED <<heads, _mem_cross_t_count, tab, mem, entry, want, core, moved,
                 pint_mem_compact_count, execs, exhausted, outlived>>

\* pint_handle_future_nb: the value is copied from where the info says, and the
\* block there is freed.  Where two executions queued the same pint_future_thread,
\* the second call in the stage finds the block free and changes nothing.
pint_handle_future_nb(s) ==
  /\ stage = "release" /\ s \in Pending
  /\ Freed(Block(entry[s]).src)
  /\ entry' = [entry EXCEPT ![s] = None]
  /\ want' = [want EXCEPT ![s] = None]
  /\ UNCHANGED <<stage, heads, mem, core, moved, pint_mem_compact_count, execs, exhausted, outlived>>

HalfFull == 2 * _mem_chunk_head[cur] >= Cap \/ 2 * _mem_alloc_tab_head[cur] >= Cap

\* pint_mem_compact with no CROSS_T block, and with room enough.
ResetArena ==
  /\ stage = "release" /\ _mem_cross_t_count = 0
  /\ _mem_alloc_tab_head' = [_mem_alloc_tab_head EXCEPT ![cur] = 0]
  /\ _mem_chunk_head' = [_mem_chunk_head EXCEPT ![cur] = 0]
  /\ stage' = "active"
  /\ UNCHANGED <<_mem_cur_ind, _mem_cross_t_count, tab, mem, entry, want, core,
                 moved, pint_mem_compact_count, execs, exhausted, outlived>>

KeepArena ==
  /\ stage = "release" /\ _mem_cross_t_count # 0 /\ ~HalfFull
  /\ stage' = "active"
  /\ UNCHANGED <<heads, _mem_cross_t_count, tab, mem, entry, want, core, moved,
                 pint_mem_compact_count, execs, exhausted, outlived>>

\* The slice of core c out of n table entries: the first n % NCores cores get
\* one entry more.
loop_size(c, n) == IF c < n % NCores THEN n \div NCores + 1 ELSE n \div NCores

\* Mutant of offset: the first cores are not allowed for.
offsetEqual(c, n) == c * loop_size(c, n)
offset(c, n) ==
  IF c < n % NCores THEN c * loop_size(c, n) ELSE c * loop_size(c, n) + (n % NCores)

\* The blocks the kernel is to move, and those it has moved before: their reference
\* lies in the arena they come from.
Live(a) == {i \in 0 .. _mem_alloc_tab_head[a] - 1 : i < Cap /\ tab[a][i].type = CROSS_T}
MovedBefore(i) == LET ref == mem[cur][tab[cur][i].p].ref IN ref # None /\ ref[1] # cur

StartCompact ==
  /\ stage = "release" /\ _mem_cross_t_count # 0 /\ HalfFull
  /\ pint_mem_compact_count < MaxCompactions
  /\ pint_mem_compact_count' = pint_mem_compact_count + 1
  /\ _mem_cur_ind' = old
  /\ _mem_cross_t_count' = 0
  /\ LET n == _mem_alloc_tab_head[cur]
     IN core' = [c \in Core |-> [at |-> "walk", k |-> offset(c, n),
                                 end |-> offset(c, n) + loop_size(c, n)]]
  /\ moved' = [i \in Index |-> 0]
  /\ outlived' = (outlived \/ \E i \in Live(cur) : MovedBefore(i))
  /\ stage' = "compact"
  /\ UNCHANGED <<_mem_alloc_tab_head, _mem_chunk_head, tab, mem, entry, want, execs,
                 exhausted>>

\* One entry of the old table: a live block is allocated anew.
WalkLive(c) ==
  /\ core[c].at = "walk" /\ core[c].k < core[c].end /\ core[c].k < Cap
  /\ tab[old][core[c].k].type = CROSS_T
  /\ AllocChunk(c, [of |-> "kernel", s |-> None, k |-> core[c].k, end |-> core[c].end])
  /\ UNCHANGED <<stage, _mem_cur_ind, _mem_alloc_tab_head, _mem_cross_t_count, tab,
                 mem, entry, want, moved, pint_mem_compact_count, execs, outlived>>

WalkFree(c) ==
  /\ core[c].at = "walk" /\ core[c].k < core[c].end /\ core[c].k < Cap
  /\ tab[old][core[c].k].type # CROSS_T
  /\ core' = [core EXCEPT ![c].k = @ + 1]
  /\ UNCHANGED <<stage, heads, _mem_cross_t_count, tab, mem, entry, want, moved,
                 pint_mem_compact_count, execs, exhausted, outlived>>

\* Once the table was full its head counts entries beyond it.  What the kernel finds
\* there is undefined, and the model does not follow that core any further.
WalkBeyond(c) ==
  /\ core[c].at = "walk" /\ core[c].k < core[c].end /\ core[c].k >= Cap
  /\ core' = [core EXCEPT ![c] = Undefined]
  /\ UNCHANGED <<stage, heads, _mem_cross_t_count, tab, mem, entry, want, moved,
                 pint_mem_compact_count, execs, exhausted, outlived>>

\* The data, the info among them, are copied; the header is the new block's.
CopyBlock(c) ==
  /\ core[c].at = "fill" /\ core[c].job.of = "kernel"
  /\ LET from == mem[old][tab[old][core[c].job.k].p]
     IN mem' = [mem EXCEPT ![cur][core[c].p] =
                  [from EXCEPT !.tab = mem[cur][core[c].p].tab, !.ref = None]]
  /\ moved' = [moved EXCEPT ![core[c].job.k] = @ + 1]
  /\ core' = [core EXCEPT ![c].at = "patch"]
  /\ UNCHANGED <<stage, heads, _mem_cross_t_count, tab, entry, want,
                 pint_mem_compact_count, execs, exhausted, outlived>>

\* Mutant of Patched: the new address is not stored.
NotPatched(m, r, a) == m
Patched(m, r, a) == [m EXCEPT ![r[1]][r[2]].src = a]

\* pint_mem_set_ref(p, ref); *ref = p
PatchRef(c) ==
  /\ core[c].at = "patch"
  /\ LET ref == mem[old][tab[old][core[c].job.k].p].ref
     IN mem' = IF ref = None THEN mem
               ELSE Patched([mem EXCEPT ![cur][core[c].p].ref = ref], ref,
                            <<cur, core[c].p>>)
  /\ core' = [core EXCEPT ![c] = [at |-> "walk", k |-> core[c].job.k + 1,
                                  end |-> core[c].job.end]]
  /\ UNCHANGED <<stage, heads, _mem_cross_t_count, tab, entry, want, moved,
                 pint_mem_compact_count, execs, exhausted, outlived>>

WalkDone(c) ==
  /\ core[c].at = "walk" /\ core[c].k = core[c].end
  /\ core' = [core EXCEPT ![c] = Idle]
  /\ UNCHANGED <<stage, heads, _mem_cross_t_count, tab, mem, entry, want, moved,
                 pint_mem_compact_count, execs, exhausted, outlived>>

EndCompact ==
  /\ stage = "compact" /\ AllIdle
  /\ _mem_alloc_tab_head' = [_mem_alloc_tab_head EXCEPT ![old] = 0]
  /\ _mem_chunk_head' = [_mem_chunk_head EXCEPT ![old] = 0]
  /\ stage' = "active"
  /\ UNCHANGED <<_mem_cur_ind, _mem_cross_t_count, tab, mem, entry, want, core,
                 moved, pint_mem_compact_count, execs, exhausted, outlived>>

Next ==
  \/ \E c \in Core :
       \/ \E s \in Stmt, v \in Value : Execute(c, s, v)
       \/ AllocTab(c)
       \/ \E delay \in {0, 1} : pint_enqueue_nb_future(c, delay)
       \/ \E v \in Value : ExecuteAgain(c, v)
       \/ ThreadReturns(c)
       \/ WalkLive(c) \/ WalkFree(c) \/ WalkBeyond(c) \/ CopyBlock(c) \/ PatchRef(c) \/ WalkDone(c)
  \/ \E s \in Stmt : pint_handle_future_nb(s)
  \/ EndActive \/ ResetArena \/ KeepArena \/ StartCompact \/ EndCompact

Spec == Init /\ [][Next]_vars

-----------------------------------------------------------------------------
(* Properties. *)

\* Entries are addresses.
TypeOK ==
  /\ stage \in {"active", "release", "compact"}
  /\ _mem_cur_ind \in Arena
  /\ _mem_alloc_tab_head \in [Arena -> Nat]
  /\ _mem_chunk_head \in [Arena -> Nat]
  /\ _mem_cross_t_count \in Int
  /\ entry \in [Stmt -> Addr \cup {None}]

\* Until an arena is full, no two live table entries of the current arena share a
\* block, whatever the order of the two atomic adds on different cores.  The types
\* hold always.
BlocksApart ==
  TypeOK /\ (~exhausted => \A i, j \in Live(cur) : tab[cur][i].p = tab[cur][j].p => i = j)

\* When the kernel is done every live block has been moved once, unless an arena
\* was full before.
EachMovedOnce ==
  ~exhausted /\ stage = "compact" /\ AllIdle =>
    \A i \in Index : moved[i] = IF i \in Live(old) THEN 1 ELSE 0

\* Through its entry assignment s finds the value assigned last, in a live block
\* of the current arena.
Kept(s) ==
  LET a == Block(entry[s]).src
  IN /\ a \in Addr /\ a[1] = cur /\ a[2] < _mem_chunk_head[cur]
     /\ tab[cur][Block(a).tab] = [type |-> CROSS_T, p |-> a[2]]
     /\ Block(a).val = want[s]

\* Each pending assignment keeps its value over the time steps, compactions and
\* other executions in between, as long as no arena was full and the kernel moved
\* no block for the second time: it patches the info a block was made with, but
\* pint_future_thread[].nb keeps the address of that info in an arena given up.
ValueKept ==
  stage # "compact" => exhausted \/ outlived \/ \A s \in Pending : Kept(s)
=============================================================================
