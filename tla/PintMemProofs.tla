--------------------------- MODULE PintMemProofs ----------------------------
(***************************************************************************)
(* Theorems about PintMem: for any number of cores, statements, executions *)
(* and compactions and arenas of any size, until an arena is full no two   *)
(* live blocks overlap and a compaction moves every live block once; and   *)
(* until the kernel moves a block for the second time, each pending        *)
(* assignment finds the value assigned last.                               *)
(***************************************************************************)
EXTENDS PintMem, FiniteSetTheorems, TLAPS


(* The invariant *)

UserJob == [of : {"thread"}, s : Stmt, v : Value]
KernelJob == [of : {"kernel"}, s : {None}, k : Index, end : Nat]
CoreAt ==
  {Idle} \cup [at : {"tab", "fill"}, job : UserJob \cup KernelJob, p : Index]
         \cup [at : {"patch"}, job : KernelJob, p : Index]
         \cup [at : {"thread"}, s : Stmt, blk : Addr]
         \cup [at : {"walk"}, k : Nat, end : Nat]
TabEntry == [type : {Free, CROSS_T}, p : Index]
BlockAt == [tab : Index, ref : Addr \cup {None}, val : Value \cup {None}, src : Addr \cup {None}]

DataOK ==
  /\ stage \in {"active", "release", "compact"}
  /\ _mem_cur_ind \in Arena
  /\ _mem_alloc_tab_head \in [Arena -> 0 .. Cap]
  /\ _mem_chunk_head \in [Arena -> 0 .. Cap]
  /\ tab \in [Arena -> [Index -> TabEntry]]
  /\ mem \in [Arena -> [Index -> BlockAt]]
  /\ entry \in [Stmt -> Addr \cup {None}]
  /\ want \in [Stmt -> Value \cup {None}]
  /\ core \in [Core -> CoreAt]
  /\ moved \in [Index -> Nat]
  /\ pint_mem_compact_count \in Nat /\ execs \in Nat

\* The types alone, which hold also once an arena was full.
LooseAt ==
  {Idle, Undefined}
    \cup [at : {"tab"}, job : UserJob \cup KernelJob, p : Nat]
    \cup [at : {"fill"}, job : UserJob \cup KernelJob, p : Index]
    \cup [at : {"patch"}, job : KernelJob, p : Index]
    \cup [at : {"thread"}, s : Stmt, blk : Addr]
    \cup [at : {"walk"}, k : Nat, end : Nat]
LooseOK ==
  /\ stage \in {"active", "release", "compact"}
  /\ _mem_cur_ind \in Arena
  /\ _mem_alloc_tab_head \in [Arena -> Nat]
  /\ _mem_chunk_head \in [Arena -> Nat]
  /\ _mem_cross_t_count \in Int
  /\ tab \in [Arena -> [Index -> TabEntry]]
  /\ mem \in [Arena -> [Index -> BlockAt]]
  /\ entry \in [Stmt -> Addr \cup {None}]
  /\ core \in [Core -> LooseAt]

\* What the cores do in each stage; outside a compaction the other arena is empty.
StageOK ==
  /\ stage = "release" => AllIdle
  /\ \A c \in Core :
       /\ core[c].at \in {"tab", "fill"} =>
            IF stage = "compact" THEN core[c].job.of = "kernel"
                                 ELSE stage = "active" /\ core[c].job.of = "thread"
       /\ core[c].at = "thread" => stage = "active"
       /\ core[c].at \in {"walk", "patch"} => stage = "compact"
  /\ stage # "compact" => _mem_alloc_tab_head[old] = 0 /\ _mem_chunk_head[old] = 0

\* The two heads differ by the cores between the two additions.
HeadOK == _mem_chunk_head[cur] = _mem_alloc_tab_head[cur] + Cardinality(Allocating)

\* The block a core has to itself.
Has(c) == core[c].at \in {"tab", "fill", "patch", "thread"}
Own(c) == IF core[c].at = "thread" THEN core[c].blk[2] ELSE core[c].p

Entered(a) == 0 .. _mem_alloc_tab_head[a] - 1
Given(a) == 0 .. _mem_chunk_head[a] - 1

\* The blocks of the cores are apart, and so are those of the table's entries; a
\* block and its entry name each other once the core has made the entry.
OwnOK ==
  /\ \A c \in Core : Has(c) => Own(c) \in Given(cur)
  /\ \A c, d \in Core : Has(c) /\ Has(d) /\ Own(c) = Own(d) => c = d
  /\ \A c \in Core : core[c].at = "thread" => core[c].blk[1] = cur
EntryOK ==
  /\ \A e \in Entered(cur) : tab[cur][e].p \in Given(cur)
  /\ \A e, f \in Entered(cur) : tab[cur][e].p = tab[cur][f].p => e = f
  /\ \A c \in Core, e \in Entered(cur) : core[c].at = "tab" => tab[cur][e].p # core[c].p
BackOK ==
  /\ \A x \in Given(cur) :
       (\A c \in Core : core[c].at = "tab" => core[c].p # x) =>
         mem[cur][x].tab \in Entered(cur) /\ tab[cur][mem[cur][x].tab].p = x
  /\ \A c \in Core : core[c].at \in {"fill", "patch"} =>
         tab[cur][mem[cur][core[c].p].tab].type = CROSS_T

\* Where an info has been filled in it says where the value is.
SrcOK ==
  /\ \A s \in Pending : Block(entry[s]).src \in Addr
  /\ \A x \in Given(cur) :
       (\A c \in Core : core[c].at \in {"tab", "fill"} => core[c].p # x) =>
         mem[cur][x].src \in Addr
  /\ stage = "compact" => \A x \in Given(old) : mem[old][x].src \in Addr

OldOK ==
  stage = "compact" =>
    /\ \A e \in Entered(old) : tab[old][e].p \in Given(old)
    /\ \A e, f \in Entered(old) : tab[old][e].p = tab[old][f].p => e = f

\* The kernel: the part of the old table a core has, and how far it is.
n0 == _mem_alloc_tab_head[old]
From(c) == offset(c, n0)
To(c) == offset(c, n0) + loop_size(c, n0)
Past(c) == IF core[c].at = "walk" THEN core[c].k
           ELSE IF core[c].at = "idle" THEN To(c) ELSE core[c].job.k
Moving(c) == core[c].at \in {"tab", "fill", "patch"}
Moves(c, e) == e < Past(c) \/ (core[c].at = "patch" /\ core[c].job.k = e)

WalkOK ==
  stage = "compact" => \A c \in Core :
    /\ From(c) <= Past(c) /\ Past(c) <= To(c)
    /\ core[c].at = "walk" => core[c].end = To(c)
    /\ Moving(c) => /\ core[c].job.end = To(c) /\ core[c].job.k < To(c)
                    /\ tab[old][core[c].job.k].type = CROSS_T
MovedOK ==
  stage = "compact" =>
    /\ \A c \in Core, e \in Index : From(c) <= e /\ e < To(c) =>
         moved[e] = IF Moves(c, e) /\ tab[old][e].type = CROSS_T THEN 1 ELSE 0
    /\ \A e \in Index : e >= n0 => moved[e] = 0
MemInv ==
  /\ DataOK /\ StageOK /\ HeadOK /\ OwnOK /\ EntryOK /\ BackOK
  /\ SrcOK /\ OldOK /\ WalkOK /\ MovedOK

(* What a pending assignment relies on, when no block is moved twice: its     *)
(* info stays where it was made.                                             *)

Target(s) == Block(entry[s]).src
Entry(s) == Block(entry[s]).tab
\* The block has been copied and the info patched, where the kernel runs.
Done(s) == \E c \in Core : From(c) <= Entry(s) /\ Entry(s) < Past(c)
Ready(s) == stage = "compact" => Done(s)

Link(a, s) ==
  /\ a \in Addr /\ a[1] = cur /\ a[2] \in Given(cur)
  /\ tab[cur][Block(a).tab] = [type |-> CROSS_T, p |-> a[2]]
  /\ Block(a).val = want[s] /\ Block(a).ref = entry[s]

\* The counter counts the live entries.
CountOK == _mem_cross_t_count = Cardinality(Live(cur))

\* A statement is executed by one core, and has an info of its own.
StmtOK ==
  /\ stage = "active" => \A c, d \in Core, s \in Stmt : Running(c, s) /\ Running(d, s) => c = d
  /\ \A s, t \in Pending : entry[s] = entry[t] => s = t

\* Each pending assignment has a live block of its own.
Mine(c, s) == core[c].at = "thread" /\ core[c].s = s /\ core[c].blk = entry[s]
KeptOK ==
  \A s \in Pending : Ready(s) =>
    /\ Link(Target(s), s)
    /\ \A t \in Pending : Ready(t) /\ Target(s) = Target(t) => s = t
    /\ \A c \in Core : Has(c) /\ Own(c) = Target(s)[2] => Mine(c, s)

\* The reference of a live block: the info it was made with, in the block itself
\* or, once it was moved, in the arena it came from.
Busy(x) == \E c \in Core : core[c].at \in {"fill", "patch"} /\ core[c].p = x
Referred(x) ==
  /\ mem[cur][x].ref \in Addr
  /\ mem[cur][x].ref[1] = cur => stage # "compact" /\ mem[cur][x].ref = <<cur, x>>
RefOK == \A e \in Live(cur) : Busy(tab[cur][e].p) \/ Referred(tab[cur][e].p)

\* A new info is in the block it tells of.
InfoOK ==
  stage # "compact" => \A s \in Pending : entry[s][1] = cur => Target(s) = entry[s]
MovingOK ==
  stage = "compact" =>
    /\ \A s \in Pending :
         /\ entry[s][1] = old /\ Entry(s) \in Entered(old)
         /\ tab[old][Entry(s)] = [type |-> CROSS_T, p |-> entry[s][2]]
         /\ Block(entry[s]).val = want[s]
         /\ \A c \in Core : core[c].at = "patch" /\ core[c].job.k = Entry(s) =>
               mem[cur][core[c].p].val = want[s]
    /\ \A e \in Live(old) : mem[old][tab[old][e].p].ref = <<old, tab[old][e].p>>

Values == CountOK /\ StmtOK /\ KeptOK /\ RefOK /\ InfoOK /\ MovingOK
ValueInv == MemInv /\ Values

-----------------------------------------------------------------------------
(* The slices of the table: the parts of the cores are apart and cover it. *)

\* Quotient and rest.
LEMMA DivMod ==
  ASSUME NEW n \in Nat, NEW m \in Nat, m > 0
  PROVE /\ n \div m \in Nat /\ n % m \in 0 .. m - 1
        /\ n = m * (n \div m) + (n % m)
  BY SMT

\* The division of the kernel's loop: n entries for NCores cores.
LEMMA Division ==
  ASSUME NEW n \in Nat
  PROVE /\ n \div NCores \in Nat /\ n % NCores \in 0 .. NCores - 1
        /\ n = NCores * (n \div NCores) + (n % NCores)
BY MemAssumption, DivMod

\* Where the part of a core begins and ends, in a form with one product.
LEMMA SliceIs ==
  ASSUME NEW n \in Nat, NEW c \in Core
  PROVE /\ c * (n \div NCores) \in Nat
        /\ offset(c, n) = c * (n \div NCores) + (IF c < n % NCores THEN c ELSE n % NCores)
        /\ loop_size(c, n) = (n \div NCores) + (IF c < n % NCores THEN 1 ELSE 0)
        /\ offset(c, n) \in Nat /\ loop_size(c, n) \in Nat
<1> DEFINE q == n \div NCores
           r == n % NCores
<1>1. q \in Nat /\ r \in 0 .. NCores - 1 /\ c \in Nat
  BY Division, MemAssumption DEF Core
<1>2. c * (q + 1) = c * q + c /\ c * q \in Nat
  <2> HIDE DEF q
  <2> QED
    BY <1>1, SMT
<1>3. loop_size(c, n) = q + (IF c < r THEN 1 ELSE 0)
  BY <1>1 DEF loop_size
<1>4. offset(c, n) = c * q + (IF c < r THEN c ELSE r)
  <2>1. offset(c, n) = IF c < r THEN c * loop_size(c, n) ELSE c * loop_size(c, n) + r
    BY DEF offset
  <2> HIDE DEF q, r
  <2>2. CASE c < r
    <3>1. loop_size(c, n) = q + 1
      BY <2>2, <1>3, <1>1
    <3> QED
      BY <2>1, <2>2, <3>1, <1>2, <1>1
  <2>3. CASE ~(c < r)
    <3>1. loop_size(c, n) = q
      BY <2>3, <1>3, <1>1
    <3> QED
      BY <2>1, <2>3, <3>1, <1>2, <1>1
  <2> QED
    BY <2>2, <2>3
<1> QED
  <2> HIDE DEF q, r
  <2>1. offset(c, n) \in Nat /\ loop_size(c, n) \in Nat
    BY <1>1, <1>2, <1>3, <1>4
  <2> USE DEF q, r
  <2> QED
    BY <1>1, <1>2, <1>3, <1>4, <2>1

\* Multiplication with a larger factor.
LEMMA TimesUp ==
  ASSUME NEW a \in Nat, NEW b \in Nat, NEW q \in Nat, a < b
  PROVE a * q + q <= b * q
<1>1. PICK d \in Nat : b = a + 1 + d
  <2>1. b - a - 1 \in Nat /\ b = a + 1 + (b - a - 1)
    OBVIOUS
  <2> QED
    BY <2>1
<1>2. b * q = a * q + q + d * q
  BY <1>1
<1>3. d * q >= 0 /\ a * q \in Nat /\ d * q \in Nat
  BY <1>1
<1> QED
  BY <1>2, <1>3

\* A part ends where the next begins, or before.
LEMMA SlicesApart ==
  ASSUME NEW n \in Nat, NEW c \in Core, NEW d \in Core, c < d
  PROVE offset(c, n) + loop_size(c, n) <= offset(d, n)
<1> DEFINE q == n \div NCores
           r == n % NCores
<1>1. q \in Nat /\ r \in Nat /\ c \in Nat /\ d \in Nat
  BY Division, MemAssumption DEF Core
<1>2. c * q + q <= d * q /\ c * q \in Nat /\ d * q \in Nat
  BY TimesUp, <1>1
<1>3. /\ offset(c, n) = c * q + (IF c < r THEN c ELSE r)
      /\ loop_size(c, n) = q + (IF c < r THEN 1 ELSE 0)
      /\ offset(d, n) = d * q + (IF d < r THEN d ELSE r)
  BY SliceIs
<1> HIDE DEF q, r
<1> QED
  BY <1>1, <1>2, <1>3

\* A part lies within the table.
LEMMA SliceInside ==
  ASSUME NEW n \in Nat, NEW c \in Core
  PROVE offset(c, n) + loop_size(c, n) <= n
<1> DEFINE q == n \div NCores
           r == n % NCores
<1>1. q \in Nat /\ r \in Nat /\ c \in Nat /\ NCores \in Nat /\ c < NCores /\ r < NCores
  BY Division, MemAssumption DEF Core
<1>2. c * q + q <= NCores * q /\ c * q \in Nat /\ NCores * q \in Nat
  BY TimesUp, <1>1
<1>3. /\ offset(c, n) = c * q + (IF c < r THEN c ELSE r)
      /\ loop_size(c, n) = q + (IF c < r THEN 1 ELSE 0)
  BY SliceIs
<1>4. n = NCores * q + r
  BY Division
<1> HIDE DEF q, r
<1> QED
  BY <1>1, <1>2, <1>3, <1>4

\* Every entry of the table is in the part of some core.
LEMMA SlicesCover ==
  ASSUME NEW n \in Nat, NEW e \in Nat, e < n
  PROVE \E c \in Core : offset(c, n) <= e /\ e < offset(c, n) + loop_size(c, n)
<1> DEFINE q == n \div NCores
           r == n % NCores
<1>1. q \in Nat /\ r \in Nat /\ NCores \in Nat /\ r < NCores /\ NCores > 0
  BY Division, MemAssumption
<1>2. n = NCores * q + r
  BY Division
<1>3. \A c \in Core :
        /\ c * q \in Nat
        /\ offset(c, n) = c * q + (IF c < r THEN c ELSE r)
        /\ loop_size(c, n) = q + (IF c < r THEN 1 ELSE 0)
  BY SliceIs
<1>p. \A x \in Nat : x * (q + 1) = x * q + x /\ x * q \in Nat
  <2> HIDE DEF q
  <2> QED
    BY <1>1, SMT
<1> HIDE DEF q, r
<1>4. CASE e < r * (q + 1)
  <2>1. PICK c \in Nat, m \in Nat : e = c * (q + 1) + m /\ m < q + 1
    <3>1. q + 1 > 0 /\ q + 1 \in Nat
      BY <1>1
    <3>2. /\ e \div (q + 1) \in Nat /\ e % (q + 1) \in 0 .. q
          /\ e = (q + 1) * (e \div (q + 1)) + (e % (q + 1))
      <4> DEFINE m == q + 1
      <4>1. m \in Nat /\ m > 0 /\ m - 1 = q
        BY <1>1
      <4>2. /\ e \div m \in Nat /\ e % m \in 0 .. m - 1
            /\ e = m * (e \div m) + (e % m)
        <5> HIDE DEF m
        <5> QED
          BY <4>1, DivMod
      <4> QED
        BY <4>1, <4>2
    <3>3. (q + 1) * (e \div (q + 1)) = (e \div (q + 1)) * (q + 1)
      BY <3>1, <3>2, SMT
    <3>4. e % (q + 1) \in Nat /\ e % (q + 1) < q + 1
      BY <3>2, <1>1
    <3> QED
      BY <3>2, <3>3, <3>4
  <2>2. c < r
    <3>1. SUFFICES ASSUME c >= r PROVE FALSE
      BY <1>1
    <3>2. r * (q + 1) <= c * (q + 1)
      <4>1. CASE c = r
        BY <4>1, <1>1, <1>p
      <4>2. CASE c > r
        BY <4>2, TimesUp, <1>1, <1>p
      <4> QED
        BY <3>1, <4>1, <4>2, <1>1
    <3> QED
      BY <3>2, <2>1, <1>4, <1>p, <1>1
  <2>3. c \in Core
    BY <2>2, <1>1 DEF Core
  <2> QED
    BY <2>1, <2>2, <2>3, <1>3, <1>p, <1>1
<1>5. CASE e >= r * (q + 1)
  <2>1. q > 0
    <3>1. SUFFICES ASSUME q = 0 PROVE FALSE
      BY <1>1
    <3>2. n = r /\ r * (q + 1) = r
      BY <3>1, <1>1, <1>2
    <3> QED
      BY <3>2, <1>5, <1>1
  <2>0. e - r \in Nat
    BY <1>5, <1>p, <1>1
  <2>2. PICK c \in Nat, m \in Nat : e - r = c * q + m /\ m < q
    <3>2. /\ (e - r) \div q \in Nat /\ (e - r) % q \in 0 .. q - 1
          /\ e - r = q * ((e - r) \div q) + ((e - r) % q)
      BY <2>0, <2>1, <1>1, SMT
    <3>3. q * ((e - r) \div q) = ((e - r) \div q) * q
      BY <3>2, <1>1, SMT
    <3>4. (e - r) % q \in Nat /\ (e - r) % q < q
      BY <3>2, <1>1
    <3> QED
      BY <3>2, <3>3, <3>4
  <2>3. c < NCores
    <3>1. SUFFICES ASSUME c >= NCores PROVE FALSE
      BY <1>1
    <3>2. NCores * q <= c * q
      <4>1. CASE c = NCores
        BY <4>1, <1>1, <1>p
      <4>2. CASE c > NCores
        BY <4>2, TimesUp, <1>1, <1>p
      <4> QED
        BY <3>1, <4>1, <4>2, <1>1
    <3> QED
      BY <3>2, <2>2, <1>2, <1>p, <1>1
  <2>4. c >= r
    <3>1. SUFFICES ASSUME c < r PROVE FALSE
      BY <1>1
    <3>2. c * q + q <= r * q
      BY <3>1, TimesUp, <1>1
    <3> QED
      BY <3>2, <2>2, <1>5, <1>p, <1>1
  <2>5. c \in Core
    BY <2>3, <1>1 DEF Core
  <2> QED
    BY <2>2, <2>4, <2>5, <1>3, <1>p, <1>1
<1> QED
  BY <1>4, <1>5, <1>p, <1>1

-----------------------------------------------------------------------------
(* Shapes. *)

\* What a core's record holds at each place.
LEMMA Shapes ==
  ASSUME DataOK, NEW c \in Core
  PROVE /\ core[c].at \in {"idle", "tab", "fill", "patch", "thread", "walk"}
        /\ core[c].at = "idle" <=> core[c] = Idle
        /\ core[c].at \in {"tab", "fill"} =>
             core[c] \in [at : {"tab", "fill"}, job : UserJob \cup KernelJob, p : Index]
        /\ core[c].at = "patch" => core[c] \in [at : {"patch"}, job : KernelJob, p : Index]
        /\ core[c].at = "thread" => core[c] \in [at : {"thread"}, s : Stmt, blk : Addr]
        /\ core[c].at = "walk" => core[c] \in [at : {"walk"}, k : Nat, end : Nat]
<1>1. core[c] \in CoreAt
  BY DEF DataOK
<1> QED
  BY <1>1 DEF CoreAt, Idle

\* The block of a core, and the entry of the kernel.
LEMMA Parts ==
  ASSUME DataOK, StageOK, NEW c \in Core
  PROVE /\ core[c].at \in {"tab", "fill", "patch"} => core[c].p \in Index
        /\ core[c].at = "thread" => core[c].blk \in Addr /\ core[c].blk[2] \in Index
                                    /\ core[c].blk = <<core[c].blk[1], core[c].blk[2]>>
        /\ core[c].at \in {"tab", "fill"} /\ stage # "compact" => core[c].job \in UserJob
        /\ Moving(c) /\ stage = "compact" => core[c].job \in KernelJob
<1>1. core[c].at = "thread" => core[c].blk \in Addr
  BY Shapes
<1>2. \A a \in Addr : a[2] \in Index /\ a = <<a[1], a[2]>>
  BY DEF Addr
<1>3. core[c].at \in {"tab", "fill"} =>
        core[c].p \in Index /\ core[c].job \in UserJob \cup KernelJob
  BY Shapes
<1>4. core[c].at = "patch" => core[c].p \in Index /\ core[c].job \in KernelJob
  BY Shapes
<1>5. \A j \in UserJob \cup KernelJob :
        /\ j.of = "thread" => j \in UserJob
        /\ j.of = "kernel" => j \in KernelJob
  BY DEF UserJob, KernelJob
<1>6. core[c].at \in {"tab", "fill"} /\ stage # "compact" => core[c].job.of = "thread"
  BY DEF StageOK
<1>7. core[c].at \in {"tab", "fill"} /\ stage = "compact" => core[c].job.of = "kernel"
  BY DEF StageOK
<1> QED
  BY <1>1, <1>2, <1>3, <1>4, <1>5, <1>6, <1>7 DEF Moving

\* The numbers of the arenas and the heads.
LEMMA Heads ==
  ASSUME DataOK
  PROVE /\ cur \in Arena /\ old \in Arena /\ old # cur
        /\ \A a \in Arena : /\ _mem_alloc_tab_head[a] \in Nat /\ _mem_alloc_tab_head[a] <= Cap
                            /\ _mem_chunk_head[a] \in Nat /\ _mem_chunk_head[a] <= Cap
                            /\ Entered(a) \subseteq Index /\ Given(a) \subseteq Index
                            /\ Entered(a) \subseteq Nat /\ Given(a) \subseteq Nat
BY MemAssumption, SMTT(30) DEF DataOK, Arena, cur, old, Entered, Given, Index

\* The cores are finitely many.
LEMMA CoreFinite == IsFiniteSet(Core) /\ IsFiniteSet(Allocating)
<1>1. 0 \in Int /\ NCores - 1 \in Int
  BY MemAssumption
<1>2. IsFiniteSet(Core)
  BY <1>1, FS_Interval, Zenon DEF Core
<1>3. Allocating \subseteq Core
  BY DEF Allocating
<1> QED
  BY <1>2, <1>3, FS_Subset

\* So are the entries of a table.
LEMMA LiveFinite ==
  ASSUME DataOK, NEW a \in Arena
  PROVE IsFiniteSet(Live(a)) /\ Cardinality(Live(a)) \in Nat /\ Cardinality(Live(a)) <= Cap
<1>1. 0 \in Int /\ Cap - 1 \in Int
  BY MemAssumption
<1>2. IsFiniteSet(Index) /\ Cardinality(Index) = Cap
  <2>1. IsFiniteSet(Index)
    BY <1>1, FS_Interval, Zenon DEF Index
  <2>2. Cardinality(Index) = IF 0 > Cap - 1 THEN 0 ELSE (Cap - 1) - 0 + 1
    BY <1>1, FS_Interval, Zenon DEF Index
  <2> QED
    BY <2>1, <2>2, MemAssumption
<1>3. Live(a) \subseteq Index
  BY Heads DEF Live, Entered
<1>4. IsFiniteSet(Live(a)) /\ Cardinality(Live(a)) <= Cap
  BY <1>2, <1>3, FS_Subset
<1> QED
  BY <1>4, FS_CardinalityType

-----------------------------------------------------------------------------
(* One lemma for each action: it keeps the invariant. *)

\* ThreadReturns
LEMMA ThreadReturnsKeeps ==
  ASSUME MemInv, NEW c \in Core, ThreadReturns(c)
  PROVE MemInv'
<1> USE DEF MemInv
<1>a. /\ core[c].at = "thread" /\ core' = [core EXCEPT ![c] = Idle]
      /\ UNCHANGED <<stage, _mem_cur_ind, _mem_alloc_tab_head, _mem_chunk_head, tab, mem, moved>>
      /\ UNCHANGED <<_mem_cross_t_count, entry, want, pint_mem_compact_count, execs>>
  BY DEF ThreadReturns, heads
<1>b. /\ core \in [Core -> CoreAt] /\ core' \in [Core -> CoreAt]
      /\ core'[c] = Idle /\ core'[c].at = "idle" /\ \A d \in Core : d # c => core'[d] = core[d]
  BY <1>a DEF DataOK, CoreAt, Idle
<1>s. stage = "active"
  BY <1>a DEF StageOK
<1>u. /\ cur' = cur /\ old' = old
      /\ \A a : Entered(a)' = Entered(a) /\ Given(a)' = Given(a) /\ Live(a)' = Live(a)
  BY <1>a DEF cur, old, Entered, Given, Live
<1>1. DataOK'
  BY <1>a, <1>b DEF DataOK
<1>2. StageOK'
  BY <1>a, <1>b, <1>s, <1>u DEF StageOK, AllIdle
<1>3. HeadOK'
  <2>1. Allocating' = Allocating
    BY <1>a, <1>b DEF Allocating
  <2> QED
    BY <2>1, <1>a, <1>u DEF HeadOK
<1>4. OwnOK'
  BY <1>a, <1>b, <1>u DEF OwnOK, Has, Own
<1>5. EntryOK'
  BY <1>a, <1>b, <1>u DEF EntryOK
<1>6. BackOK'
  BY <1>a, <1>b, <1>u, SMTT(30) DEF BackOK
<1>7. SrcOK'
  BY <1>a, <1>b, <1>s, <1>u DEF SrcOK, Pending, Block
<1>8. OldOK' /\ WalkOK' /\ MovedOK'
  BY <1>a, <1>s DEF OldOK, WalkOK, MovedOK
<1> QED
  BY <1>1, <1>2, <1>3, <1>4, <1>5, <1>6, <1>7, <1>8

\* The part of a core, in numbers.
LEMMA PartOf ==
  ASSUME DataOK, NEW c \in Core
  PROVE /\ n0 \in Nat /\ n0 <= Cap /\ From(c) \in Nat /\ To(c) \in Nat /\ To(c) <= n0
        /\ \A d \in Core, e \in Nat :
             From(c) <= e /\ e < To(c) /\ From(d) <= e /\ e < To(d) => c = d
<1>1. n0 \in Nat /\ n0 <= Cap
  BY Heads DEF n0
<1>2. \A d \in Core : /\ offset(d, n0) \in Nat /\ loop_size(d, n0) \in Nat
                      /\ offset(d, n0) + loop_size(d, n0) <= n0
  BY <1>1, SliceIs, SliceInside
<1>3. \A d, f \in Core : d < f => offset(d, n0) + loop_size(d, n0) <= offset(f, n0)
  BY <1>1, SlicesApart
<1>4. \A d, f \in Core : d = f \/ d < f \/ f < d
  BY MemAssumption DEF Core
<1> HIDE DEF n0
<1> QED
  BY <1>1, <1>2, <1>3, <1>4 DEF From, To

\* WalkDone
LEMMA WalkDoneKeeps ==
  ASSUME MemInv, NEW c \in Core, WalkDone(c)
  PROVE MemInv'
<1> USE DEF MemInv
<1>a. /\ core[c].at = "walk" /\ core[c].k = core[c].end /\ core' = [core EXCEPT ![c] = Idle]
      /\ UNCHANGED <<stage, _mem_cur_ind, _mem_alloc_tab_head, _mem_chunk_head, tab, mem, moved>>
      /\ UNCHANGED <<_mem_cross_t_count, entry, want, pint_mem_compact_count, execs>>
  BY DEF WalkDone, heads
<1>b. /\ core \in [Core -> CoreAt] /\ core' \in [Core -> CoreAt]
      /\ core'[c] = Idle /\ core'[c].at = "idle" /\ \A d \in Core : d # c => core'[d] = core[d]
  BY <1>a DEF DataOK, CoreAt, Idle
<1>s. stage = "compact"
  BY <1>a DEF StageOK
<1>u. /\ cur' = cur /\ old' = old /\ n0' = n0
      /\ \A a : Entered(a)' = Entered(a) /\ Given(a)' = Given(a) /\ Live(a)' = Live(a)
      /\ \A d \in Core : From(d)' = From(d) /\ To(d)' = To(d)
  BY <1>a DEF cur, old, Entered, Given, Live, n0, From, To
<1>1. DataOK'
  BY <1>a, <1>b DEF DataOK
<1>2. StageOK'
  BY <1>a, <1>b, <1>s, <1>u DEF StageOK, AllIdle
<1>3. HeadOK'
  <2>1. Allocating' = Allocating
    BY <1>a, <1>b DEF Allocating
  <2> QED
    BY <2>1, <1>a, <1>u DEF HeadOK
<1>4. OwnOK'
  BY <1>a, <1>b, <1>u DEF OwnOK, Has, Own
<1>5. EntryOK'
  BY <1>a, <1>b, <1>u DEF EntryOK
<1>6. BackOK'
  BY <1>a, <1>b, <1>u, SMTT(30) DEF BackOK
<1>7. SrcOK'
  BY <1>a, <1>b, <1>s, <1>u DEF SrcOK, Pending, Block
<1>8. OldOK'
  BY <1>a, <1>u DEF OldOK
<1>9. \A d \in Core : Past(d)' = Past(d) /\ \A e : Moves(d, e)' <=> Moves(d, e)
  <2>1. To(c) = core[c].k
    BY <1>a, <1>s DEF WalkOK
  <2>2. \A d \in Core : Past(d)' = Past(d)
    BY <2>1, <1>a, <1>b, <1>u DEF Past
  <2> QED
    BY <2>2, <1>a, <1>b DEF Moves
<1>10. WalkOK'
  BY <1>a, <1>b, <1>u, <1>9 DEF WalkOK, Moving
<1>11. MovedOK'
  BY <1>a, <1>u, <1>9 DEF MovedOK
<1> QED
  BY <1>1, <1>2, <1>3, <1>4, <1>5, <1>6, <1>7, <1>8, <1>10, <1>11

\* WalkFree
LEMMA WalkFreeKeeps ==
  ASSUME MemInv, NEW c \in Core, WalkFree(c)
  PROVE MemInv'
<1> USE DEF MemInv
<1>a. /\ core[c].at = "walk" /\ core[c].k < core[c].end
      /\ tab[old][core[c].k].type # CROSS_T
      /\ core' = [core EXCEPT ![c].k = @ + 1]
      /\ UNCHANGED <<stage, _mem_cur_ind, _mem_alloc_tab_head, _mem_chunk_head, tab, mem, moved>>
      /\ UNCHANGED <<_mem_cross_t_count, entry, want, pint_mem_compact_count, execs>>
  BY DEF WalkFree, heads
<1>w. core[c] \in [at : {"walk"}, k : Nat, end : Nat]
  BY <1>a, Shapes
<1>b. /\ core \in [Core -> CoreAt]
      /\ core'[c] = [core[c] EXCEPT !.k = @ + 1]
      /\ core'[c] \in [at : {"walk"}, k : Nat, end : Nat]
      /\ core'[c].at = "walk" /\ core'[c].k = core[c].k + 1 /\ core'[c].end = core[c].end
      /\ \A d \in Core : d # c => core'[d] = core[d]
  BY <1>a, <1>w DEF DataOK
<1>c. core' \in [Core -> CoreAt]
  BY <1>a, <1>b DEF CoreAt
<1>s. stage = "compact"
  BY <1>a DEF StageOK
<1>u. /\ cur' = cur /\ old' = old /\ n0' = n0
      /\ \A a : Entered(a)' = Entered(a) /\ Given(a)' = Given(a) /\ Live(a)' = Live(a)
      /\ \A d \in Core : From(d)' = From(d) /\ To(d)' = To(d)
  BY <1>a DEF cur, old, Entered, Given, Live, n0, From, To
<1>1. DataOK'
  BY <1>a, <1>c DEF DataOK
<1>2. StageOK'
  BY <1>a, <1>b, <1>s, <1>u DEF StageOK
<1>3. HeadOK'
  <2>1. Allocating' = Allocating
    BY <1>a, <1>b DEF Allocating
  <2> QED
    BY <2>1, <1>a, <1>u DEF HeadOK
<1>4. OwnOK'
  BY <1>a, <1>b, <1>u DEF OwnOK, Has, Own
<1>5. EntryOK'
  BY <1>a, <1>b, <1>u DEF EntryOK
<1>6. BackOK'
  BY <1>a, <1>b, <1>u, SMTT(30) DEF BackOK
<1>7. SrcOK'
  BY <1>a, <1>b, <1>s, <1>u DEF SrcOK, Pending, Block
<1>8. OldOK'
  BY <1>a, <1>u DEF OldOK
<1>9. /\ core[c].end = To(c) /\ From(c) <= core[c].k
      /\ Past(c) = core[c].k /\ Past(c)' = core[c].k + 1
      /\ \A d \in Core : d # c => Past(d)' = Past(d)
  BY <1>a, <1>b, <1>s, <1>u DEF WalkOK, Past
<1>n. From(c) \in Nat /\ To(c) \in Nat /\ core[c].k \in Nat
  BY PartOf, <1>w
<1>10. WalkOK'
  BY <1>a, <1>b, <1>u, <1>9, <1>n DEF WalkOK, Moving
<1>11. MovedOK'
  <2>1. \A d \in Core, e \in Index : tab[old][e].type = CROSS_T => (Moves(d, e)' <=> Moves(d, e))
    <3>1. Index \subseteq Nat
      BY MemAssumption DEF Index
    <3> QED
      BY <1>a, <1>b, <1>9, <1>n, <3>1 DEF Moves
  <2> QED
    BY <1>a, <1>u, <2>1 DEF MovedOK
<1> QED
  BY <1>1, <1>2, <1>3, <1>4, <1>5, <1>6, <1>7, <1>8, <1>10, <1>11

\* EndActive and KeepArena
LEMMA StageMoveKeeps ==
  ASSUME MemInv, EndActive \/ KeepArena
  PROVE MemInv'
<1> USE DEF MemInv
<1>a. /\ stage # "compact" /\ stage' # "compact" /\ stage' \in {"active", "release"}
      /\ UNCHANGED <<_mem_cur_ind, _mem_alloc_tab_head, _mem_chunk_head, tab, mem, moved, core>>
      /\ UNCHANGED <<_mem_cross_t_count, entry, want, pint_mem_compact_count, execs>>
  BY DEF EndActive, KeepArena, heads
<1>i. AllIdle
  BY DEF EndActive, KeepArena, StageOK
<1>u. /\ cur' = cur /\ old' = old /\ n0' = n0 /\ Allocating' = Allocating
      /\ \A a : Entered(a)' = Entered(a) /\ Given(a)' = Given(a) /\ Live(a)' = Live(a)
  BY <1>a DEF cur, old, Entered, Given, Live, n0, Allocating
<1>1. DataOK'
  BY <1>a DEF DataOK
<1>2. StageOK'
  BY <1>a, <1>i, <1>u DEF StageOK, AllIdle, Idle
<1>3. HeadOK' /\ OwnOK' /\ EntryOK' /\ BackOK'
  BY <1>a, <1>u DEF HeadOK, OwnOK, Has, Own, EntryOK, BackOK
<1>4. SrcOK'
  BY <1>a, <1>u DEF SrcOK, Pending, Block
<1>5. OldOK' /\ WalkOK' /\ MovedOK'
  BY <1>a DEF OldOK, WalkOK, MovedOK
<1> QED
  BY <1>1, <1>2, <1>3, <1>4, <1>5

\* pint_mem_alloc, the first addition: the block is beyond those given out.
LEMMA AllocChunkKeeps ==
  ASSUME MemInv, NEW c \in Core, NEW job \in UserJob \cup KernelJob, AllocChunk(c, job),
         core[c].at \in {"idle", "walk"},
         \/ stage = "active" /\ job.of = "thread"
         \/ /\ stage = "compact" /\ job.of = "kernel" /\ core[c].at = "walk"
            /\ job.k = core[c].k /\ job.end = core[c].end /\ core[c].k < core[c].end
            /\ tab[old][core[c].k].type = CROSS_T,
         UNCHANGED <<stage, _mem_cur_ind, _mem_alloc_tab_head, _mem_cross_t_count, tab,
                     mem, entry, want, moved, pint_mem_compact_count>>,
         execs' \in Nat, ~exhausted'
  PROVE MemInv'
<1> USE DEF MemInv
<1> DEFINE h == _mem_chunk_head[cur]
           new == [at |-> "tab", job |-> job, p |-> h]
<1>h. h \in Nat /\ h < Cap /\ h \in Index
  <2>1. ~(h >= Cap)
    BY Zenon DEF AllocChunk
  <2>2. h \in Nat
    BY Heads
  <2> HIDE DEF h
  <2> QED
    BY <2>1, <2>2, MemAssumption DEF Index
<1>a. /\ _mem_chunk_head' = [_mem_chunk_head EXCEPT ![cur] = @ + 1]
      /\ core' = [core EXCEPT ![c] = new]
  BY DEF AllocChunk, ChunkOffset
<1>b. /\ core \in [Core -> CoreAt] /\ core'[c] = new
      /\ \A d \in Core : d # c => core'[d] = core[d]
  BY <1>a DEF DataOK
<1>n. core'[c].at = "tab" /\ core'[c].job = job /\ core'[c].p = h
  BY <1>b
<1>u. /\ cur' = cur /\ old' = old /\ n0' = n0 /\ cur \in Arena /\ old \in Arena /\ cur # old
      /\ \A a : Entered(a)' = Entered(a) /\ Live(a)' = Live(a)
      /\ \A d \in Core : From(d)' = From(d) /\ To(d)' = To(d)
  BY Heads DEF cur, old, Entered, Live, n0, From, To
<1>g. /\ Given(cur)' = Given(cur) \cup {h} /\ h \notin Given(cur)
      /\ Given(old)' = Given(old)
      /\ _mem_chunk_head'[cur] = h + 1 /\ _mem_chunk_head'[old] = _mem_chunk_head[old]
  <2>1. _mem_chunk_head'[cur] = h + 1 /\ _mem_chunk_head'[old] = _mem_chunk_head[old]
    BY <1>a, <1>u DEF DataOK
  <2> QED
    BY <2>1, <1>h, <1>u DEF Given
<1>1. DataOK'
  <2>1. new \in CoreAt
    BY <1>h DEF CoreAt
  <2>2. core' \in [Core -> CoreAt]
    BY <2>1, <1>a DEF DataOK
  <2>3. _mem_chunk_head' \in [Arena -> 0 .. Cap]
    BY <1>a, <1>h, <1>u, MemAssumption DEF DataOK
  <2> QED
    BY <2>2, <2>3 DEF DataOK
<1>2. StageOK'
  BY <1>b, <1>n, <1>u, <1>g DEF StageOK
<1>3. HeadOK'
  <2>1. Allocating' = Allocating \cup {c} /\ c \notin Allocating
    BY <1>b, <1>n DEF Allocating
  <2>2. Cardinality(Allocating') = Cardinality(Allocating) + 1
    BY <2>1, CoreFinite, FS_AddElement
  <2>3. Cardinality(Allocating) \in Nat
    BY CoreFinite, FS_CardinalityType
  <2>4. _mem_alloc_tab_head[cur] \in Nat
    BY Heads
  <2> HIDE DEF h
  <2>5. h = _mem_alloc_tab_head[cur] + Cardinality(Allocating)
    BY DEF HeadOK, h
  <2> QED
    BY <2>2, <2>3, <2>4, <2>5, <1>g, <1>u DEF HeadOK
<1>4. OwnOK'
  <2>1. \A d \in Core : d # c => (Has(d)' <=> Has(d)) /\ Own(d)' = Own(d)
    BY <1>b DEF Has, Own
  <2>2. Own(c)' = h
    BY <1>n DEF Own
  <2>3. \A d \in Core : d # c /\ Has(d) => Own(d) # h
    BY <1>g DEF OwnOK
  <2> HIDE DEF h, new
  <2>4. (\A d \in Core : Has(d) => Own(d) \in Given(cur))'
    BY <2>1, <2>2, <1>g, <1>u DEF OwnOK
  <2>5. (\A d, f \in Core : Has(d) /\ Has(f) /\ Own(d) = Own(f) => d = f)'
    BY <2>1, <2>2, <2>3 DEF OwnOK
  <2>6. (\A d \in Core : core[d].at = "thread" => core[d].blk[1] = cur)'
    BY <1>b, <1>n, <1>u DEF OwnOK
  <2> QED
    BY <2>4, <2>5, <2>6 DEF OwnOK
<1>5. EntryOK'
  <2> HIDE DEF h, new
  <2> QED
    BY <1>b, <1>n, <1>u, <1>g DEF EntryOK
<1>6. BackOK'
  <2> HIDE DEF h, new
  <2> QED
    BY <1>b, <1>n, <1>u, <1>g, SMTT(30) DEF BackOK
<1>7. SrcOK'
  <2> HIDE DEF h, new
  <2>1. (\A s \in Pending : Block(entry[s]).src \in Addr)'
    BY DEF SrcOK, Pending, Block
  <2> QED
    BY <2>1, <1>b, <1>n, <1>u, <1>g DEF SrcOK
<1>8. OldOK'
  BY <1>u, <1>g DEF OldOK
<1>9. ASSUME stage = "compact"
      PROVE \A d \in Core : Past(d)' = Past(d) /\ \A e : Moves(d, e)' <=> Moves(d, e)
  <2>2. \A d \in Core : Past(d)' = Past(d)
    BY <1>9, <1>b, <1>n, <1>u DEF Past
  <2> QED
    BY <2>2, <1>b, <1>n DEF Moves
<1>10. WalkOK'
  BY <1>b, <1>n, <1>u, <1>9 DEF WalkOK, Moving, Past
<1>11. MovedOK'
  BY <1>u, <1>9 DEF MovedOK
<1> QED
  BY <1>1, <1>2, <1>3, <1>4, <1>5, <1>6, <1>7, <1>8, <1>10, <1>11

\* Execute
LEMMA ExecuteKeeps ==
  ASSUME MemInv, NEW c \in Core, NEW s \in Stmt, NEW v \in Value, Execute(c, s, v), ~exhausted'
  PROVE MemInv'
<1> DEFINE job == [of |-> "thread", s |-> s, v |-> v]
<1>1. job \in UserJob \cup KernelJob /\ job.of = "thread"
  BY DEF UserJob
<1>2. /\ stage = "active" /\ core[c].at = "idle" /\ AllocChunk(c, job)
      /\ UNCHANGED <<stage, _mem_cur_ind, _mem_alloc_tab_head, _mem_cross_t_count, tab,
                     mem, entry, want, moved, pint_mem_compact_count>>
      /\ execs' \in Nat
  BY DEF Execute, Idle, MemInv, DataOK
<1> HIDE DEF job
<1> QED
  BY <1>1, <1>2, AllocChunkKeeps

\* WalkLive
LEMMA WalkLiveKeeps ==
  ASSUME MemInv, NEW c \in Core, WalkLive(c), ~exhausted'
  PROVE MemInv'
<1> DEFINE job == [of |-> "kernel", s |-> None, k |-> core[c].k, end |-> core[c].end]
<1>1. /\ core[c].at = "walk" /\ core[c].k < core[c].end
      /\ tab[old][core[c].k].type = CROSS_T /\ AllocChunk(c, job)
      /\ UNCHANGED <<stage, _mem_cur_ind, _mem_alloc_tab_head, _mem_cross_t_count, tab,
                     mem, entry, want, moved, pint_mem_compact_count>>
      /\ execs' \in Nat /\ stage = "compact"
  BY DEF WalkLive, MemInv, DataOK, StageOK
<1>2. core[c].k \in Nat /\ core[c].end \in Nat /\ core[c].end = To(c)
  BY <1>1, Shapes DEF MemInv, WalkOK
<1>3. core[c].k \in Index
  BY <1>1, <1>2, PartOf, MemAssumption DEF MemInv, Index
<1>4. job \in UserJob \cup KernelJob /\ job.of = "kernel" /\ job.k = core[c].k /\ job.end = core[c].end
  BY <1>2, <1>3 DEF KernelJob
<1> HIDE DEF job
<1> QED
  BY <1>1, <1>4, AllocChunkKeeps

\* The second addition, where the arena has room: the offsets are used.
LEMMA AllocTabIs ==
  ASSUME MemInv, NEW c \in Core, AllocTab(c)
  PROVE LET t == _mem_alloc_tab_head[cur]
            p == core[c].p
        IN /\ core[c].at = "tab"
           /\ _mem_alloc_tab_head' = [_mem_alloc_tab_head EXCEPT ![cur] = @ + 1]
           /\ _mem_cross_t_count' = _mem_cross_t_count + 1
           /\ tab' = [tab EXCEPT ![cur][t] = [type |-> CROSS_T, p |-> p]]
           /\ mem' = [mem EXCEPT ![cur][p].tab = t, ![cur][p].ref = None]
           /\ core' = [core EXCEPT ![c].at = "fill"]
           /\ UNCHANGED <<stage, _mem_cur_ind, _mem_chunk_head, entry, want, moved,
                          pint_mem_compact_count, execs>>
<1> USE DEF MemInv
<1> DEFINE t == _mem_alloc_tab_head[cur]
           p == core[c].p
<1>1. core[c].at = "tab"
  BY DEF AllocTab
<1>2. /\ core[c] \in [at : {"tab", "fill"}, job : UserJob \cup KernelJob, p : Index]
      /\ p \in Index
  BY <1>1, Shapes
<1>3. Offsets(p, _mem_chunk_head[cur]) = {p}
  <2>1. _mem_chunk_head[cur] \in Nat /\ _mem_chunk_head[cur] <= Cap
    BY Heads
  <2> QED
    BY <2>1, <1>2, MemAssumption DEF Offsets, Index
<1>4. Offsets(t, t + Cardinality(Allocating)) = {t}
  <2>1. t \in Nat /\ t + Cardinality(Allocating) <= Cap
    BY Heads DEF HeadOK, Allocating
  <2>2. Cardinality(Allocating) \in Nat /\ Cardinality(Allocating) # 0
    <3>1. IsFiniteSet(Allocating) /\ c \in Allocating
      BY <1>1, CoreFinite DEF Allocating
    <3> QED
      BY <3>1, FS_EmptySet, FS_CardinalityType
  <2> HIDE DEF t
  <2> QED
    BY <2>1, <2>2, MemAssumption DEF Offsets
<1>5. /\ tab' = [tab EXCEPT ![cur][t] = [type |-> CROSS_T, p |-> p]]
      /\ mem' = [mem EXCEPT ![cur][p].tab = t, ![cur][p].ref = None]
      /\ core' = [core EXCEPT ![c].at = "fill", ![c].p = p]
  BY <1>3, <1>4 DEF AllocTab
<1>6. core' = [core EXCEPT ![c].at = "fill"]
  <2>1. core' = [core EXCEPT ![c] = [core[c] EXCEPT !.at = "fill", !.p = core[c].p]]
    BY <1>5 DEF DataOK
  <2>2. [core[c] EXCEPT !.at = "fill", !.p = core[c].p] = [core[c] EXCEPT !.at = "fill"]
    BY <1>2
  <2> QED
    BY <2>1, <2>2
<1> QED
  BY <1>1, <1>5, <1>6 DEF AllocTab, CountAlloc

\* AllocTab: the entry is beyond those of the table, the block is entered nowhere.
LEMMA AllocTabKeeps ==
  ASSUME MemInv, NEW c \in Core, AllocTab(c)
  PROVE MemInv'
<1> USE DEF MemInv
<1> DEFINE t == _mem_alloc_tab_head[cur]
           p == core[c].p
<1>a. /\ core[c].at = "tab"
      /\ _mem_alloc_tab_head' = [_mem_alloc_tab_head EXCEPT ![cur] = @ + 1]
      /\ _mem_cross_t_count' = _mem_cross_t_count + 1
      /\ tab' = [tab EXCEPT ![cur][t] = [type |-> CROSS_T, p |-> p]]
      /\ mem' = [mem EXCEPT ![cur][p].tab = t, ![cur][p].ref = None]
      /\ core' = [core EXCEPT ![c].at = "fill"]
      /\ UNCHANGED <<stage, _mem_cur_ind, _mem_chunk_head, entry, want, moved,
                     pint_mem_compact_count, execs>>
  BY AllocTabIs
<1>p. /\ p \in Index /\ core[c].job \in UserJob \cup KernelJob
      /\ core[c] \in [at : {"tab", "fill"}, job : UserJob \cup KernelJob, p : Index]
  BY <1>a, Shapes
<1>b. /\ core \in [Core -> CoreAt] /\ core'[c] = [core[c] EXCEPT !.at = "fill"]
      /\ core'[c].at = "fill" /\ core'[c].job = core[c].job /\ core'[c].p = p
      /\ core'[c] \in [at : {"tab", "fill"}, job : UserJob \cup KernelJob, p : Index]
      /\ \A d \in Core : d # c => core'[d] = core[d]
  BY <1>a, <1>p DEF DataOK
<1>t. /\ Allocating = Allocating' \cup {c} /\ c \notin Allocating'
      /\ Cardinality(Allocating) = Cardinality(Allocating') + 1
      /\ Cardinality(Allocating') \in Nat
  <2>1. Allocating' = Allocating \ {c} /\ c \in Allocating
    BY <1>a, <1>b DEF Allocating
  <2>2. Cardinality(Allocating') = Cardinality(Allocating) - 1 /\ IsFiniteSet(Allocating')
    BY <2>1, CoreFinite, FS_RemoveElement
  <2>3. Cardinality(Allocating) \in Nat /\ Cardinality(Allocating') \in Nat
    BY <2>2, CoreFinite, FS_CardinalityType
  <2> QED
    BY <2>1, <2>2, <2>3
<1>h. /\ t \in Nat /\ t < _mem_chunk_head[cur] /\ t < Cap /\ t \in Index
      /\ _mem_chunk_head[cur] = t + Cardinality(Allocating)
  <2>1. t \in Nat /\ _mem_chunk_head[cur] \in Nat /\ _mem_chunk_head[cur] <= Cap
    BY Heads
  <2>2. _mem_chunk_head[cur] = t + Cardinality(Allocating)
    BY DEF HeadOK
  <2> HIDE DEF t
  <2> QED
    BY <2>1, <2>2, <1>t, MemAssumption DEF Index
<1>u. /\ cur' = cur /\ old' = old /\ cur \in Arena /\ old \in Arena /\ cur # old
      /\ Entered(old)' = Entered(old) /\ n0' = n0
      /\ \A a : Given(a)' = Given(a)
      /\ \A d \in Core : From(d)' = From(d) /\ To(d)' = To(d)
  <2>1. /\ cur' = cur /\ old' = old /\ cur \in Arena /\ old \in Arena /\ cur # old
    BY <1>a, Heads DEF cur, old
  <2>2. n0' = n0
    BY <2>1, <1>a DEF n0, DataOK
  <2>3. \A d \in Core : From(d)' = From(d) /\ To(d)' = To(d)
    BY <2>2 DEF From, To
  <2> QED
    BY <2>1, <2>2, <2>3, <1>a DEF Entered, Given, n0
<1>e. /\ _mem_alloc_tab_head'[cur] = t + 1
      /\ Entered(cur)' = Entered(cur) \cup {t} /\ t \notin Entered(cur)
  <2>1. _mem_alloc_tab_head'[cur] = t + 1
    BY <1>a, <1>u DEF DataOK
  <2> QED
    BY <2>1, <1>h, <1>u DEF Entered
<1>T. /\ tab'[cur][t] = [type |-> CROSS_T, p |-> p]
      /\ \A x \in Index : x # t => tab'[cur][x] = tab[cur][x]
      /\ tab'[old] = tab[old]
      /\ tab' \in [Arena -> [Index -> TabEntry]]
  BY <1>a, <1>u, <1>h, <1>p DEF DataOK, TabEntry
<1>M. /\ mem'[cur][p].tab = t /\ mem'[cur][p].src = mem[cur][p].src
      /\ \A x \in Index : x # p => mem'[cur][x] = mem[cur][x]
      /\ mem'[old] = mem[old]
      /\ mem' \in [Arena -> [Index -> BlockAt]]
  <2>1. mem' = [mem EXCEPT ![cur] = [mem[cur] EXCEPT ![p] =
                  [mem[cur][p] EXCEPT !.tab = t, !.ref = None]]]
    BY <1>a, <1>u, <1>p DEF DataOK
  <2>2. mem[cur][p] \in BlockAt
    BY <1>u, <1>p DEF DataOK
  <2> DEFINE b == [mem[cur][p] EXCEPT !.tab = t, !.ref = None]
  <2>3. b \in BlockAt /\ b.tab = t /\ b.src = mem[cur][p].src
    BY <2>2, <1>h DEF BlockAt
  <2> HIDE DEF b, t, p
  <2> QED
    BY <2>1, <2>3, <1>u, <1>p DEF DataOK, b
<1>x. Entered(cur) \subseteq Index /\ Given(cur) \subseteq Index /\ Entered(cur) \subseteq Nat
      /\ Entered(old) \subseteq Index /\ Given(old) \subseteq Index
  BY Heads
<1>o. p \in Given(cur) /\ \A d \in Core : core[d].at = "tab" /\ core[d].p = p => d = c
  BY <1>a DEF OwnOK, Has, Own
<1>f. \A x \in Entered(cur) : tab[cur][x].p # p /\ tab[cur][x].p \in Given(cur)
  BY <1>a DEF EntryOK
<1> HIDE DEF t, p
<1>1. DataOK'
  <2>1. core' \in [Core -> CoreAt]
    BY <1>a, <1>b DEF CoreAt
  <2>3. _mem_alloc_tab_head' \in [Arena -> 0 .. Cap]
    BY <1>a, <1>h, <1>u, MemAssumption DEF DataOK, t
  <2> QED
    BY <2>1, <2>3, <1>a, <1>T, <1>M DEF DataOK
<1>2. StageOK'
  BY <1>a, <1>b, <1>u, <1>e DEF StageOK, AllIdle, Idle, n0
<1>3. HeadOK'
  <2>1. (_mem_chunk_head[cur] = _mem_alloc_tab_head[cur] + Cardinality(Allocating))'
    BY <1>a, <1>t, <1>h, <1>e, <1>u
  <2> QED
    BY <2>1 DEF HeadOK
<1>4. OwnOK'
  <2>1. \A d \in Core : (Has(d)' <=> Has(d)) /\ Own(d)' = Own(d)
    BY <1>a, <1>b DEF Has, Own, p
  <2>6. (\A d \in Core : core[d].at = "thread" => core[d].blk[1] = cur)'
    BY <1>b, <1>u DEF OwnOK
  <2> QED
    BY <2>1, <2>6, <1>u DEF OwnOK
<1>5. EntryOK'
  <2>1. (\A e \in Entered(cur) : tab[cur][e].p \in Given(cur))'
    BY <1>e, <1>T, <1>f, <1>o, <1>u, <1>x
  <2>2. (\A e, f \in Entered(cur) : tab[cur][e].p = tab[cur][f].p => e = f)'
    BY <1>e, <1>T, <1>f, <1>u, <1>x DEF EntryOK
  <2>3. (\A d \in Core, e \in Entered(cur) : core[d].at = "tab" => tab[cur][e].p # core[d].p)'
    BY <1>a, <1>b, <1>o, <1>e, <1>T, <1>u, <1>x DEF EntryOK
  <2> QED
    BY <2>1, <2>2, <2>3 DEF EntryOK
<1>6. BackOK'
  <2>1. ASSUME NEW x \in Given(cur), (\A d \in Core : core[d].at = "tab" => core[d].p # x)'
        PROVE (mem[cur][x].tab \in Entered(cur) /\ tab[cur][mem[cur][x].tab].p = x)'
    <3>1. CASE x = p
      BY <3>1, <1>M, <1>T, <1>e, <1>u
    <3>2. CASE x # p
      <4>1. \A d \in Core : core[d].at = "tab" => core[d].p # x
        BY <2>1, <3>2, <1>b DEF p
      <4>2. mem[cur][x].tab \in Entered(cur) /\ tab[cur][mem[cur][x].tab].p = x
        BY <4>1 DEF BackOK
      <4> QED
        BY <4>2, <3>2, <1>M, <1>T, <1>e, <1>u, <1>x
    <3> QED
      BY <3>1, <3>2
  <2>2. ASSUME NEW d \in Core, (core[d].at \in {"fill", "patch"})'
        PROVE (tab[cur][mem[cur][core[d].p].tab].type = CROSS_T)'
    <3>1. CASE d = c
      BY <3>1, <1>b, <1>M, <1>T, <1>u
    <3>2. CASE d # c
      <4>1. core[d].at \in {"fill", "patch"} /\ core'[d] = core[d]
        BY <2>2, <3>2, <1>b
      <4>2. tab[cur][mem[cur][core[d].p].tab].type = CROSS_T
        BY <4>1 DEF BackOK
      <4>3. core[d].p # p /\ core[d].p \in Given(cur)
        BY <4>1, <3>2, <1>a DEF OwnOK, Has, Own, p
      <4>4. \A f \in Core : core[f].at = "tab" => core[f].p # core[d].p
        BY <4>1, <4>3 DEF OwnOK, Has, Own
      <4>5. mem[cur][core[d].p].tab \in Entered(cur)
        BY <4>3, <4>4 DEF BackOK
      <4> QED
        BY <4>1, <4>2, <4>3, <4>5, <1>M, <1>T, <1>e, <1>u, <1>x
    <3> QED
      BY <3>1, <3>2
  <2> QED
    BY <2>1, <2>2, <1>u, SMTT(30) DEF BackOK
<1>7. SrcOK'
  <2>0. \A a \in Addr : Block(a)'.src = Block(a).src
    <3>1. \A a \in Arena, x \in Index : mem'[a][x].src = mem[a][x].src
      BY <1>M, <1>u DEF Arena
    <3> QED
      BY <3>1 DEF Block, Addr
  <2>1. (\A s \in Pending : Block(entry[s]).src \in Addr)'
    <3> SUFFICES ASSUME NEW s \in Stmt, entry[s] # None, entry' = entry
                 PROVE Block(entry[s])'.src \in Addr
      BY <1>a DEF Pending
    <3>1. entry[s] \in Addr /\ s \in Pending
      BY DEF DataOK, Pending
    <3> QED
      BY <3>1, <2>0 DEF SrcOK
  <2>2. ASSUME NEW x \in Given(cur), (\A d \in Core : core[d].at \in {"tab", "fill"} => core[d].p # x)'
        PROVE mem'[cur][x].src \in Addr
    <3>1. x # p
      BY <2>2, <1>b
    <3>2. \A d \in Core : core[d].at \in {"tab", "fill"} => core[d].p # x
      BY <2>2, <1>b, <3>1 DEF p
    <3> QED
      BY <3>1, <3>2, <1>M, <1>x DEF SrcOK
  <2>3. stage = "compact" => \A x \in Given(old) : mem'[old][x].src \in Addr
    BY <1>M DEF SrcOK
  <2> QED
    BY <2>1, <2>2, <2>3, <1>a, <1>u DEF SrcOK
<1>8. OldOK'
  BY <1>a, <1>u, <1>T DEF OldOK
<1>9. \A d \in Core : Past(d)' = Past(d) /\ \A e : Moves(d, e)' <=> Moves(d, e)
  <2>2. \A d \in Core : Past(d)' = Past(d)
    BY <1>a, <1>b, <1>u DEF Past
  <2> QED
    BY <2>2, <1>a, <1>b DEF Moves
<1>10. WalkOK'
  BY <1>a, <1>b, <1>u, <1>9, <1>T DEF WalkOK, Moving
<1>11. MovedOK'
  BY <1>a, <1>u, <1>9, <1>T DEF MovedOK
<1> QED
  BY <1>1, <1>2, <1>3, <1>4, <1>5, <1>6, <1>7, <1>8, <1>10, <1>11

\* pint_mem_free changes the type of one table entry, or nothing.
LEMMA FreedIs ==
  ASSUME tab \in [Arena -> [Index -> TabEntry]], mem \in [Arena -> [Index -> BlockAt]],
         NEW a \in Addr, Freed(a)
  PROVE /\ tab' \in [Arena -> [Index -> TabEntry]]
        /\ \A b \in Arena, x \in Index :
             /\ tab'[b][x].p = tab[b][x].p
             /\ tab'[b][x] = tab[b][x] \/ (b = a[1] /\ x = Block(a).tab)
        /\ _mem_cross_t_count \in Int => _mem_cross_t_count' \in Int
<1> DEFINE t == Block(a).tab
<1>1. a[1] \in Arena /\ a[2] \in Index /\ t \in Index
  <2>1. a[1] \in Arena /\ a[2] \in Index
    BY DEF Addr
  <2> QED
    BY <2>1 DEF Block, BlockAt
<1> HIDE DEF t
<1>2. CASE UNCHANGED <<_mem_cross_t_count, tab>>
  BY <1>2
<1>3. CASE /\ _mem_cross_t_count' = _mem_cross_t_count - 1
           /\ tab' = [tab EXCEPT ![a[1]][t].type = Free]
  <2>1. /\ tab' = [tab EXCEPT ![a[1]] = [tab[a[1]] EXCEPT ![t] =
                     [tab[a[1]][t] EXCEPT !.type = Free]]]
        /\ tab[a[1]] \in [Index -> TabEntry] /\ tab[a[1]][t] \in TabEntry
    BY <1>1, <1>3
  <2> DEFINE f == [tab[a[1]][t] EXCEPT !.type = Free]
  <2>2. f \in TabEntry /\ f.p = tab[a[1]][t].p
    BY <2>1 DEF TabEntry
  <2> HIDE DEF f
  <2>3. tab' = [tab EXCEPT ![a[1]] = [tab[a[1]] EXCEPT ![t] = f]]
    BY <2>1 DEF f
  <2>4. tab' \in [Arena -> [Index -> TabEntry]]
    BY <2>2, <2>3, <1>1
  <2>5. \A b \in Arena, x \in Index :
          tab'[b][x] = IF b = a[1] /\ x = t THEN f ELSE tab[b][x]
    BY <2>3, <1>1
  <2> QED
    BY <2>2, <2>4, <2>5, <1>3 DEF t
<1> QED
  BY <1>2, <1>3 DEF Freed, t

\* pint_enqueue_nb_future
LEMMA EnqueueKeeps ==
  ASSUME MemInv, NEW c \in Core, NEW delay \in {0, 1}, pint_enqueue_nb_future(c, delay)
  PROVE MemInv'
<1> USE DEF MemInv
<1> DEFINE s == core[c].job.s
           p == core[c].p
           a == <<cur, p>>
           new == [at |-> "thread", s |-> s, blk |-> a]
           b == [tab |-> mem[cur][p].tab, val |-> core[c].job.v, src |-> a,
                 ref |-> IF delay > 0 THEN a ELSE mem[cur][p].ref]
<1>s. core[c].at = "fill" /\ core[c].job.of = "thread" /\ stage = "active"
  BY DEF pint_enqueue_nb_future, StageOK
<1>p. p \in Index /\ core[c].job \in UserJob /\ s \in Stmt /\ core[c].job.v \in Value
  <2>1. p \in Index /\ core[c].job \in UserJob
    BY <1>s, Parts
  <2> QED
    BY <2>1 DEF UserJob
<1>u. /\ cur' = cur /\ old' = old /\ cur \in Arena /\ old \in Arena /\ cur # old
      /\ \A x : Entered(x)' = Entered(x) /\ Given(x)' = Given(x)
      /\ a \in Addr /\ a[1] = cur /\ a[2] = p
      /\ Entered(cur) \subseteq Index /\ Given(cur) \subseteq Index
  BY Heads, <1>p DEF pint_enqueue_nb_future, heads, cur, old, Entered, Given, Addr
<1>a. /\ core' = [core EXCEPT ![c] = new]
      /\ mem' = [mem EXCEPT ![cur][p] = b]
      /\ UNCHANGED <<stage, _mem_cur_ind, _mem_alloc_tab_head, _mem_chunk_head, moved,
                     pint_mem_compact_count, execs>>
  BY DEF pint_enqueue_nb_future, heads
<1>d. \/ /\ entry' = [entry EXCEPT ![s] = a] /\ want' = [want EXCEPT ![s] = core[c].job.v]
         /\ UNCHANGED <<_mem_cross_t_count, tab>>
      \/ Freed(a) /\ UNCHANGED <<entry, want>>
  BY DEF pint_enqueue_nb_future
<1>b. /\ core \in [Core -> CoreAt] /\ core'[c] = new
      /\ core'[c].at = "thread" /\ core'[c].blk = a
      /\ \A d \in Core : d # c => core'[d] = core[d]
  BY <1>a DEF DataOK
<1>o. /\ p \in Given(cur)
      /\ \A d \in Core : d # c /\ core[d].at \in {"tab", "fill", "patch"} => core[d].p # p
  BY <1>s DEF OwnOK, Has, Own
<1>k. mem[cur][p].tab \in Entered(cur) /\ tab[cur][mem[cur][p].tab].p = p
  BY <1>s, <1>o DEF BackOK
<1>T. /\ /\ \A x \in Index : tab'[cur][x].p = tab[cur][x].p
         /\ \A x \in Index : tab'[cur][x] = tab[cur][x] \/ x = mem[cur][p].tab
      /\ tab' \in [Arena -> [Index -> TabEntry]]
  <2>1. CASE UNCHANGED <<_mem_cross_t_count, tab>>
    BY <2>1 DEF DataOK
  <2>2. CASE Freed(a)
    <3>1. Block(a).tab = mem[cur][p].tab
      BY <1>u DEF Block
    <3>2. tab \in [Arena -> [Index -> TabEntry]] /\ mem \in [Arena -> [Index -> BlockAt]]
      BY DEF DataOK
    <3> HIDE DEF a
    <3> QED
      BY <2>2, <3>1, <3>2, <1>u, FreedIs
  <2> QED
    BY <1>d, <2>1, <2>2
<1>M. /\ mem'[cur][p].tab = mem[cur][p].tab /\ mem'[cur][p].src = a
      /\ \A x \in Index : x # p => mem'[cur][x] = mem[cur][x]
      /\ mem'[old] = mem[old]
      /\ mem' \in [Arena -> [Index -> BlockAt]]
  <2>1. mem[cur][p] \in BlockAt
    BY <1>u, <1>p DEF DataOK
  <2>2. b \in BlockAt /\ b.tab = mem[cur][p].tab /\ b.src = a
    <3>1. mem[cur][p].tab \in Index /\ mem[cur][p].ref \in Addr \cup {None}
      BY <2>1 DEF BlockAt
    <3>2. (IF delay > 0 THEN a ELSE mem[cur][p].ref) \in Addr \cup {None}
      BY <3>1, <1>u
    <3> HIDE DEF a
    <3> QED
      BY <3>1, <3>2, <1>p, <1>u DEF BlockAt
  <2> HIDE DEF b, p, a
  <2> QED
    BY <2>2, <1>a, <1>p, <1>u DEF DataOK
<1> HIDE DEF p, s, a, b
<1>1. DataOK'
  <2>1. core' \in [Core -> CoreAt]
    BY <1>a, <1>p, <1>u DEF CoreAt, DataOK
  <2>2. entry' \in [Stmt -> Addr \cup {None}] /\ want' \in [Stmt -> Value \cup {None}]
    BY <1>d, <1>p, <1>u DEF DataOK
  <2> QED
    BY <2>1, <2>2, <1>a, <1>T, <1>M DEF DataOK
<1>2. StageOK'
  BY <1>a, <1>b, <1>s, <1>u DEF StageOK
<1>3. HeadOK'
  <2>1. Allocating' = Allocating
    BY <1>s, <1>b DEF Allocating
  <2> QED
    BY <2>1, <1>a, <1>u, <1>T DEF HeadOK
<1>4. OwnOK'
  <2>1. \A d \in Core : (Has(d)' <=> Has(d)) /\ Own(d)' = Own(d)
    BY <1>s, <1>b, <1>u DEF Has, Own, p
  <2>6. (\A d \in Core : core[d].at = "thread" => core[d].blk[1] = cur)'
    BY <1>b, <1>u DEF OwnOK
  <2> QED
    BY <2>1, <2>6, <1>u DEF OwnOK
<1>5. EntryOK'
  BY <1>b, <1>u, <1>T DEF EntryOK
<1>6. BackOK'
  <2>1. (\A x \in Given(cur) :
          (\A d \in Core : core[d].at = "tab" => core[d].p # x) =>
            mem[cur][x].tab \in Entered(cur) /\ tab[cur][mem[cur][x].tab].p = x)'
    <3> SUFFICES ASSUME NEW x \in Given(cur),
                        \A d \in Core : core'[d].at = "tab" => core'[d].p # x
                 PROVE mem'[cur][x].tab \in Entered(cur) /\ tab'[cur][mem'[cur][x].tab].p = x
      BY <1>u
    <3>1. \A d \in Core : core[d].at = "tab" => core[d].p # x
      BY <1>b, <1>s
    <3>2. mem[cur][x].tab \in Entered(cur) /\ tab[cur][mem[cur][x].tab].p = x
      BY <3>1 DEF BackOK
    <3>3. mem'[cur][x].tab = mem[cur][x].tab
      BY <1>M, <1>u
    <3> QED
      BY <3>2, <3>3, <1>T, <1>u
  <2>2. ASSUME NEW d \in Core, core'[d].at \in {"fill", "patch"}
        PROVE (tab[cur][mem[cur][core[d].p].tab].type = CROSS_T)'
    <3>1. d # c /\ core'[d] = core[d] /\ core[d].at \in {"fill", "patch"}
      BY <2>2, <1>b
    <3>2. core[d].p # p /\ core[d].p \in Given(cur)
      BY <3>1, <1>o DEF OwnOK, Has, Own
    <3>3. \A f \in Core : core[f].at = "tab" => core[f].p # core[d].p
      BY <3>1 DEF OwnOK, Has, Own
    <3>4. /\ mem[cur][core[d].p].tab \in Entered(cur)
          /\ tab[cur][mem[cur][core[d].p].tab].p = core[d].p
          /\ tab[cur][mem[cur][core[d].p].tab].type = CROSS_T
      BY <3>1, <3>2, <3>3 DEF BackOK
    <3>5. mem[cur][core[d].p].tab # mem[cur][p].tab
      BY <3>2, <3>4, <1>k
    <3> QED
      BY <3>1, <3>2, <3>4, <3>5, <1>T, <1>M, <1>u, SMTT(30)
  <2> QED
    BY <2>1, <2>2 DEF BackOK
<1>7. SrcOK'
  <2>0. \A x \in Addr : Block(x).src \in Addr => mem'[x[1]][x[2]].src \in Addr
    <3>1. \A x \in Arena, y \in Index : mem[x][y].src \in Addr => mem'[x][y].src \in Addr
      BY <1>M, <1>u DEF Arena
    <3> QED
      BY <3>1 DEF Block, Addr
  <2>1. (\A t \in Pending : Block(entry[t]).src \in Addr)'
    <3> SUFFICES ASSUME NEW t \in Stmt, entry'[t] # None
                 PROVE mem'[entry'[t][1]][entry'[t][2]].src \in Addr
      BY DEF Pending, Block
    <3>1. CASE entry'[t] = a
      BY <3>1, <1>M, <1>u
    <3>2. CASE entry'[t] # a
      <4>1. entry'[t] = entry[t]
        BY <3>2, <1>d, <1>p DEF DataOK
      <4>2. entry[t] \in Addr /\ t \in Pending
        BY <4>1 DEF DataOK, Pending
      <4> QED
        BY <4>1, <4>2, <2>0 DEF SrcOK
    <3> QED
      BY <3>1, <3>2
  <2>2. ASSUME NEW x \in Given(cur),
               \A d \in Core : core'[d].at \in {"tab", "fill"} => core'[d].p # x
        PROVE mem'[cur][x].src \in Addr
    <3>1. CASE x = p
      BY <3>1, <1>M, <1>u
    <3>2. CASE x # p
      <4>1. \A d \in Core : core[d].at \in {"tab", "fill"} => core[d].p # x
        BY <2>2, <3>2, <1>b DEF p
      <4> QED
        BY <4>1, <3>2, <1>M, <1>u DEF SrcOK
    <3> QED
      BY <3>1, <3>2
  <2> QED
    BY <2>1, <2>2, <1>a, <1>s, <1>u DEF SrcOK
<1>8. OldOK' /\ WalkOK' /\ MovedOK'
  BY <1>a, <1>s DEF OldOK, WalkOK, MovedOK
<1> QED
  BY <1>1, <1>2, <1>3, <1>4, <1>5, <1>6, <1>7, <1>8

\* ExecuteAgain
LEMMA ExecuteAgainKeeps ==
  ASSUME MemInv, NEW c \in Core, NEW v \in Value, ExecuteAgain(c, v)
  PROVE MemInv'
<1> USE DEF MemInv
<1> DEFINE p == core[c].blk[2]
<1>a. /\ core[c].at = "thread" /\ stage = "active"
      /\ mem' = [mem EXCEPT ![cur][p].val = v]
      /\ want' = [want EXCEPT ![core[c].s] =
                    IF entry[core[c].s] = core[c].blk THEN v ELSE @]
      /\ UNCHANGED <<stage, _mem_cur_ind, _mem_alloc_tab_head, _mem_chunk_head, tab, core, moved>>
      /\ UNCHANGED <<_mem_cross_t_count, entry, pint_mem_compact_count, execs>>
  BY DEF ExecuteAgain, heads, StageOK
<1>p. p \in Index /\ core[c].s \in Stmt
  BY <1>a, Parts, Shapes
<1>u. /\ cur' = cur /\ old' = old /\ cur \in Arena /\ old \in Arena /\ cur # old
      /\ \A x : Entered(x)' = Entered(x) /\ Given(x)' = Given(x) /\ Live(x)' = Live(x)
      /\ Allocating' = Allocating /\ Given(cur) \subseteq Index
  BY Heads, <1>a DEF cur, old, Entered, Given, Live, Allocating
<1>M. /\ mem' \in [Arena -> [Index -> BlockAt]]
      /\ \A x \in Arena, y \in Index : mem'[x][y].tab = mem[x][y].tab /\ mem'[x][y].src = mem[x][y].src
  <2>1. mem[cur][p] \in BlockAt
    BY <1>u, <1>p DEF DataOK
  <2> DEFINE b == [mem[cur][p] EXCEPT !.val = v]
  <2>2. b \in BlockAt /\ b.tab = mem[cur][p].tab /\ b.src = mem[cur][p].src
    BY <2>1 DEF BlockAt
  <2>3. mem' = [mem EXCEPT ![cur] = [mem[cur] EXCEPT ![p] = b]]
    BY <1>a, <1>p, <1>u DEF DataOK
  <2> HIDE DEF b, p
  <2> QED
    BY <2>2, <2>3, <1>p, <1>u DEF DataOK
<1>1. DataOK'
  BY <1>a, <1>p, <1>M DEF DataOK
<1>2. StageOK' /\ HeadOK' /\ OwnOK' /\ EntryOK'
  <2>1. StageOK'
    BY <1>a, <1>u DEF StageOK
  <2>2. HeadOK' /\ OwnOK' /\ EntryOK'
    BY <1>a, <1>u DEF HeadOK, OwnOK, Has, Own, EntryOK
  <2> QED
    BY <2>1, <2>2
<1>3. BackOK'
  <2>1. \A d \in Core : core[d].at \in {"fill", "patch"} => core[d].p \in Index
    BY Parts
  <2>2. (\A x \in Given(cur) :
          (\A d \in Core : core[d].at = "tab" => core[d].p # x) =>
            mem[cur][x].tab \in Entered(cur) /\ tab[cur][mem[cur][x].tab].p = x)'
    BY <1>a, <1>u, <1>M, SMTT(30) DEF BackOK
  <2>3. (\A d \in Core : core[d].at \in {"fill", "patch"} =>
            tab[cur][mem[cur][core[d].p].tab].type = CROSS_T)'
    BY <1>a, <1>u, <1>M, <2>1, SMTT(30) DEF BackOK
  <2> QED
    BY <2>2, <2>3 DEF BackOK
<1>4. SrcOK'
  <2>1. (\A t \in Pending : Block(entry[t]).src \in Addr)'
    <3> SUFFICES ASSUME NEW t \in Stmt, entry[t] # None
                 PROVE mem'[entry[t][1]][entry[t][2]].src \in Addr
      BY <1>a DEF Pending, Block
    <3>1. entry[t] \in Addr /\ t \in Pending
      BY DEF DataOK, Pending
    <3>2. entry[t][1] \in Arena /\ entry[t][2] \in Index
      BY <3>1 DEF Addr
    <3> QED
      BY <3>1, <3>2, <1>M DEF SrcOK, Block
  <2>2. (\A x \in Given(cur) :
          (\A d \in Core : core[d].at \in {"tab", "fill"} => core[d].p # x) =>
             mem[cur][x].src \in Addr)'
    BY <1>a, <1>u, <1>M DEF SrcOK
  <2> QED
    BY <2>1, <2>2, <1>a DEF SrcOK
<1>5. OldOK' /\ WalkOK' /\ MovedOK'
  BY <1>a DEF OldOK, WalkOK, MovedOK
<1> QED
  BY <1>1, <1>2, <1>3, <1>4, <1>5

\* pint_handle_future_nb
LEMMA HandleKeeps ==
  ASSUME MemInv, NEW s \in Stmt, pint_handle_future_nb(s)
  PROVE MemInv'
<1> USE DEF MemInv
<1> DEFINE a == Block(entry[s]).src
<1>a. /\ stage = "release" /\ s \in Pending /\ Freed(a)
      /\ entry' = [entry EXCEPT ![s] = None] /\ want' = [want EXCEPT ![s] = None]
      /\ UNCHANGED <<stage, _mem_cur_ind, _mem_alloc_tab_head, _mem_chunk_head, mem, core, moved>>
      /\ UNCHANGED <<pint_mem_compact_count, execs>>
  BY DEF pint_handle_future_nb, heads
<1>b. a \in Addr
  BY <1>a DEF SrcOK
<1>i. \A d \in Core : core[d].at = "idle"
  BY <1>a DEF StageOK, AllIdle, Idle
<1>u. /\ cur' = cur /\ old' = old /\ cur \in Arena /\ old \in Arena /\ cur # old
      /\ \A x : Entered(x)' = Entered(x) /\ Given(x)' = Given(x)
      /\ Allocating' = Allocating /\ Entered(cur) \subseteq Index
  BY Heads, <1>a DEF cur, old, Entered, Given, Allocating
<1> HIDE DEF a
<1>T. /\ \A x \in Index : tab'[cur][x].p = tab[cur][x].p
      /\ tab' \in [Arena -> [Index -> TabEntry]]
  <2>1. tab \in [Arena -> [Index -> TabEntry]] /\ mem \in [Arena -> [Index -> BlockAt]]
    BY DEF DataOK
  <2> QED
    BY <2>1, <1>a, <1>b, <1>u, FreedIs
<1>1. DataOK'
  BY <1>a, <1>T DEF DataOK
<1>2. StageOK'
  BY <1>a, <1>u DEF StageOK, AllIdle
<1>3. HeadOK' /\ OwnOK'
  BY <1>a, <1>u, <1>T DEF HeadOK, OwnOK, Has, Own
<1>4. EntryOK'
  BY <1>a, <1>i, <1>u, <1>T DEF EntryOK
<1>5. BackOK'
  BY <1>a, <1>i, <1>u, <1>T DEF BackOK
<1>6. SrcOK'
  <2>1. \A t \in Stmt : entry'[t] # None => t \in Pending /\ entry'[t] = entry[t]
    BY <1>a DEF Pending, DataOK
  <2>2. (\A t \in Pending : Block(entry[t]).src \in Addr)'
    BY <2>1, <1>a DEF SrcOK, Pending, Block
  <2> QED
    BY <2>2, <1>a, <1>u DEF SrcOK
<1>7. OldOK' /\ WalkOK' /\ MovedOK'
  BY <1>a DEF OldOK, WalkOK, MovedOK
<1> QED
  BY <1>1, <1>2, <1>3, <1>4, <1>5, <1>6, <1>7

\* What the kernel reads of the old arena: a block given out, with its info.
LEMMA KernelReads ==
  ASSUME MemInv, NEW c \in Core, stage = "compact", Moving(c)
  PROVE /\ core[c].job \in KernelJob /\ core[c].job.k \in Index /\ core[c].p \in Index
        /\ core[c].job.k \in Nat /\ core[c].job.end = To(c)
        /\ From(c) <= core[c].job.k /\ core[c].job.k < To(c) /\ Past(c) = core[c].job.k
        /\ core[c].job.k \in Entered(old)
        /\ tab[old][core[c].job.k].type = CROSS_T
        /\ tab[old][core[c].job.k].p \in Index
        /\ mem[old][tab[old][core[c].job.k].p] \in BlockAt
        /\ mem[old][tab[old][core[c].job.k].p].src \in Addr
<1> USE DEF MemInv
<1>1. core[c].job \in KernelJob /\ core[c].p \in Index
  BY Parts DEF Moving
<1>2. core[c].job.k \in Index /\ core[c].job.k \in Nat
  BY <1>1, MemAssumption DEF KernelJob, Index
<1>3. /\ core[c].job.end = To(c) /\ core[c].job.k < To(c) /\ From(c) <= Past(c)
      /\ tab[old][core[c].job.k].type = CROSS_T
  BY DEF WalkOK
<1>4. Past(c) = core[c].job.k
  BY DEF Past, Moving
<1>5. core[c].job.k \in Entered(old)
  BY <1>2, <1>3, PartOf DEF n0, Entered
<1>6. tab[old][core[c].job.k].p \in Given(old)
  BY <1>5 DEF OldOK
<1>7. tab[old][core[c].job.k].p \in Index /\ old \in Arena
  BY <1>6, Heads
<1> QED
  BY <1>1, <1>2, <1>3, <1>4, <1>5, <1>6, <1>7 DEF SrcOK, DataOK

\* CopyBlock
LEMMA CopyBlockKeeps ==
  ASSUME MemInv, NEW c \in Core, CopyBlock(c)
  PROVE MemInv'
<1> USE DEF MemInv
<1> DEFINE p == core[c].p
           k == core[c].job.k
           from == mem[old][tab[old][k].p]
           b == [from EXCEPT !.tab = mem[cur][p].tab, !.ref = None]
<1>a. /\ core[c].at = "fill" /\ stage = "compact" /\ Moving(c)
      /\ mem' = [mem EXCEPT ![cur][p] = b]
      /\ moved' = [moved EXCEPT ![k] = @ + 1]
      /\ core' = [core EXCEPT ![c].at = "patch"]
      /\ UNCHANGED <<stage, _mem_cur_ind, _mem_alloc_tab_head, _mem_chunk_head, tab>>
      /\ UNCHANGED <<_mem_cross_t_count, entry, want, pint_mem_compact_count, execs>>
  BY DEF CopyBlock, heads, StageOK, Moving
<1>k. /\ p \in Index /\ k \in Index /\ k \in Nat /\ core[c].job \in KernelJob
      /\ From(c) <= k /\ k < To(c) /\ Past(c) = k
      /\ tab[old][k].type = CROSS_T
      /\ from \in BlockAt /\ from.src \in Addr
  BY <1>a, KernelReads, Zenon
<1>b. /\ core \in [Core -> CoreAt] /\ core'[c] = [core[c] EXCEPT !.at = "patch"]
      /\ core'[c].at = "patch" /\ core'[c].job = core[c].job /\ core'[c].p = p
      /\ core'[c] \in [at : {"patch"}, job : KernelJob, p : Index]
      /\ \A d \in Core : d # c => core'[d] = core[d]
  <2>1. core[c] \in [at : {"tab", "fill"}, job : UserJob \cup KernelJob, p : Index]
    BY <1>a, Shapes
  <2> QED
    BY <2>1, <1>a, <1>k DEF DataOK
<1>u. /\ cur' = cur /\ old' = old /\ cur \in Arena /\ old \in Arena /\ cur # old /\ n0' = n0
      /\ \A x : Entered(x)' = Entered(x) /\ Given(x)' = Given(x) /\ Live(x)' = Live(x)
      /\ \A d \in Core : From(d)' = From(d) /\ To(d)' = To(d)
      /\ Given(cur) \subseteq Index
  BY Heads, <1>a DEF cur, old, Entered, Given, Live, n0, From, To
<1>M. /\ mem'[cur][p].tab = mem[cur][p].tab /\ mem'[cur][p].src \in Addr
      /\ \A x \in Index : x # p => mem'[cur][x] = mem[cur][x]
      /\ mem'[old] = mem[old]
      /\ mem' \in [Arena -> [Index -> BlockAt]]
  <2>1. mem[cur][p].tab \in Index
    BY <1>u, <1>k, SMTT(30) DEF DataOK, BlockAt
  <2> HIDE DEF from
  <2>2. b \in BlockAt /\ b.tab = mem[cur][p].tab /\ b.src = from.src
    BY <2>1, <1>k DEF BlockAt
  <2> HIDE DEF b, p
  <2> QED
    BY <2>2, <1>a, <1>k, <1>u DEF DataOK
<1> HIDE DEF p, k, from, b
<1>1. DataOK'
  <2>1. core' \in [Core -> CoreAt]
    BY <1>a, <1>b DEF CoreAt
  <2>2. moved' \in [Index -> Nat]
    BY <1>a, <1>k DEF DataOK
  <2> QED
    BY <2>1, <2>2, <1>a, <1>M DEF DataOK
<1>2. StageOK'
  BY <1>a, <1>b DEF StageOK
<1>3. HeadOK'
  <2>1. Allocating' = Allocating
    BY <1>a, <1>b DEF Allocating
  <2> QED
    BY <2>1, <1>a, <1>u DEF HeadOK
<1>4. OwnOK'
  <2>1. \A d \in Core : (Has(d)' <=> Has(d)) /\ Own(d)' = Own(d)
    BY <1>a, <1>b DEF Has, Own, p
  <2>6. (\A d \in Core : core[d].at = "thread" => core[d].blk[1] = cur)'
    BY <1>b, <1>u DEF OwnOK
  <2> QED
    BY <2>1, <2>6, <1>u DEF OwnOK
<1>5. EntryOK'
  BY <1>a, <1>b, <1>u DEF EntryOK
<1>t. \A x \in Index : mem'[cur][x].tab = mem[cur][x].tab
  BY <1>M
<1>6. BackOK'
  <2>1. (\A x \in Given(cur) :
          (\A d \in Core : core[d].at = "tab" => core[d].p # x) =>
            mem[cur][x].tab \in Entered(cur) /\ tab[cur][mem[cur][x].tab].p = x)'
    BY <1>a, <1>b, <1>t, <1>u DEF BackOK
  <2>2. \A d \in Core : core'[d].at \in {"fill", "patch"} =>
          core[d].at \in {"fill", "patch"} /\ core'[d].p = core[d].p /\ core[d].p \in Index
    BY <1>a, <1>b, Parts DEF p
  <2>3. (\A d \in Core : core[d].at \in {"fill", "patch"} =>
            tab[cur][mem[cur][core[d].p].tab].type = CROSS_T)'
    BY <2>2, <1>a, <1>t, <1>u, SMTT(30) DEF BackOK
  <2> QED
    BY <2>1, <2>3, SMTT(30) DEF BackOK
<1>7. SrcOK'
  <2>1. (\A t \in Pending : Block(entry[t]).src \in Addr)'
    <3> SUFFICES ASSUME NEW t \in Stmt, entry[t] # None
                 PROVE mem'[entry[t][1]][entry[t][2]].src \in Addr
      BY <1>a DEF Pending, Block
    <3>1. entry[t] \in Addr /\ t \in Pending
      BY DEF DataOK, Pending
    <3>2. entry[t][1] \in {cur, old} /\ entry[t][2] \in Index
      BY <3>1, <1>u DEF Addr, Arena
    <3>3. mem[entry[t][1]][entry[t][2]].src \in Addr
      BY <3>1 DEF SrcOK, Block
    <3> QED
      BY <3>2, <3>3, <1>M
  <2>2. ASSUME NEW x \in Given(cur),
               \A d \in Core : core'[d].at \in {"tab", "fill"} => core'[d].p # x
        PROVE mem'[cur][x].src \in Addr
    <3>1. CASE x = p
      BY <3>1, <1>M
    <3>2. CASE x # p
      <4>1. \A d \in Core : core[d].at \in {"tab", "fill"} => core[d].p # x
        BY <2>2, <3>2, <1>b DEF p
      <4> QED
        BY <4>1, <3>2, <1>M, <1>u DEF SrcOK
    <3> QED
      BY <3>1, <3>2
  <2>3. \A x \in Given(old) : mem'[old][x].src \in Addr
    BY <1>M, <1>a DEF SrcOK
  <2> QED
    BY <2>1, <2>2, <2>3, <1>u DEF SrcOK
<1>8. OldOK'
  BY <1>a, <1>u DEF OldOK
<1>9. \A d \in Core : Past(d)' = Past(d)
  BY <1>a, <1>b, <1>u DEF Past
<1>10. WalkOK'
  BY <1>a, <1>b, <1>u, <1>9 DEF WalkOK, Moving
<1>11. MovedOK'
  <2>0. Index \subseteq Nat /\ n0 \in Nat /\ To(c) \in Nat /\ To(c) <= n0
    BY MemAssumption, PartOf DEF Index
  <2>1. ASSUME NEW d \in Core, NEW e \in Index, From(d) <= e /\ e < To(d)
        PROVE moved'[e] = IF Moves(d, e)' /\ tab[old][e].type = CROSS_T THEN 1 ELSE 0
    <3>0. moved[e] = IF Moves(d, e) /\ tab[old][e].type = CROSS_T THEN 1 ELSE 0
      BY <2>1, <1>a DEF MovedOK
    <3>1. CASE e = k
      <4>1. d = c
        BY <3>1, <2>1, <2>0, <1>k, PartOf
      <4>2. ~Moves(d, e) /\ Moves(d, e)'
        BY <3>1, <4>1, <1>a, <1>b, <1>k DEF Moves, k
      <4>3. moved[k] = 0 /\ moved'[k] = 1
        BY <3>0, <3>1, <4>1, <4>2, <1>a, <1>k DEF DataOK
      <4> QED
        BY <3>1, <4>1, <4>2, <4>3, <1>k
    <3>2. CASE e # k
      <4>1. Moves(d, e)' <=> Moves(d, e)
        BY <3>2, <1>a, <1>b, <1>9 DEF Moves, k
      <4> QED
        BY <3>0, <3>2, <4>1, <1>a, <1>k DEF DataOK
    <3> QED
      BY <3>1, <3>2
  <2>2. ASSUME NEW e \in Index, e >= n0
        PROVE moved'[e] = 0
    <3>1. e # k
      BY <2>0, <2>2, <1>k
    <3> QED
      BY <3>1, <2>2, <1>a, <1>k DEF MovedOK, DataOK
  <2> QED
    BY <2>1, <2>2, <1>a, <1>u DEF MovedOK
<1> QED
  BY <1>1, <1>2, <1>3, <1>4, <1>5, <1>6, <1>7, <1>8, <1>10, <1>11

\* PatchRef
LEMMA PatchRefKeeps ==
  ASSUME MemInv, NEW c \in Core, PatchRef(c)
  PROVE MemInv'
<1> USE DEF MemInv
<1> DEFINE p == core[c].p
           k == core[c].job.k
           ref == mem[old][tab[old][k].p].ref
           new == [at |-> "walk", k |-> k + 1, end |-> core[c].job.end]
<1>a. /\ core[c].at = "patch" /\ stage = "compact" /\ Moving(c)
      /\ core' = [core EXCEPT ![c] = new]
      /\ UNCHANGED <<stage, _mem_cur_ind, _mem_alloc_tab_head, _mem_chunk_head, tab, moved>>
      /\ UNCHANGED <<_mem_cross_t_count, entry, want, pint_mem_compact_count, execs>>
  BY Zenon DEF PatchRef, heads, StageOK, Moving
<1>m. mem' = IF ref = None THEN mem
             ELSE Patched([mem EXCEPT ![cur][p].ref = ref], ref, <<cur, p>>)
  BY Zenon DEF PatchRef
<1>k. /\ p \in Index /\ k \in Index /\ k \in Nat /\ core[c].job \in KernelJob
      /\ core[c].job.end = To(c)
      /\ From(c) <= k /\ k < To(c) /\ Past(c) = k
      /\ tab[old][k].type = CROSS_T /\ ref \in Addr \cup {None}
  <2>1. mem[old][tab[old][core[c].job.k].p] \in BlockAt
    BY <1>a, KernelReads, SMTT(30)
  <2>2. ref \in Addr \cup {None}
    BY <2>1, SMTT(30) DEF BlockAt
  <2> QED
    BY <2>2, <1>a, KernelReads, Zenon
<1>n. From(c) \in Nat /\ To(c) \in Nat
  BY PartOf
<1>b. /\ core \in [Core -> CoreAt] /\ core'[c] = new
      /\ core'[c].at = "walk" /\ core'[c].k = k + 1 /\ core'[c].end = To(c)
      /\ new \in [at : {"walk"}, k : Nat, end : Nat]
      /\ \A d \in Core : d # c => core'[d] = core[d]
  BY <1>a, <1>k, <1>n DEF DataOK
<1>u. /\ cur' = cur /\ old' = old /\ cur \in Arena /\ old \in Arena /\ cur # old /\ n0' = n0
      /\ \A x : Entered(x)' = Entered(x) /\ Given(x)' = Given(x) /\ Live(x)' = Live(x)
      /\ \A d \in Core : From(d)' = From(d) /\ To(d)' = To(d)
      /\ Given(cur) \subseteq Index /\ Given(old) \subseteq Index
  BY Heads, <1>a DEF cur, old, Entered, Given, Live, n0, From, To
<1>M. /\ mem' \in [Arena -> [Index -> BlockAt]]
      /\ \A x \in Arena, y \in Index : /\ mem'[x][y].tab = mem[x][y].tab
                                       /\ mem[x][y].src \in Addr => mem'[x][y].src \in Addr
  <2> HIDE DEF p, ref
  <2>1. CASE ref = None
    BY <2>1, <1>m DEF DataOK
  <2>2. CASE ref # None
    <3> DEFINE m == [mem EXCEPT ![cur] = [mem[cur] EXCEPT ![p] = [mem[cur][p] EXCEPT !.ref = ref]]]
    <3>0. ref \in Addr /\ ref[1] \in Arena /\ ref[2] \in Index /\ <<cur, p>> \in Addr
      BY <2>2, <1>k, <1>u DEF Addr
    <3>1. mem[cur][p] \in BlockAt
      BY <1>u, <1>k DEF DataOK
    <3>2. /\ [mem[cur][p] EXCEPT !.ref = ref] \in BlockAt
          /\ [mem[cur][p] EXCEPT !.ref = ref].tab = mem[cur][p].tab
          /\ [mem[cur][p] EXCEPT !.ref = ref].src = mem[cur][p].src
      BY <3>0, <3>1 DEF BlockAt
    <3>3. /\ m \in [Arena -> [Index -> BlockAt]]
          /\ \A x \in Arena, y \in Index : m[x][y].tab = mem[x][y].tab /\ m[x][y].src = mem[x][y].src
      BY <3>2, <1>k, <1>u DEF DataOK
    <3>4. mem' = [m EXCEPT ![ref[1]][ref[2]].src = <<cur, p>>]
      BY <2>2, <1>m, <1>k, <1>u DEF Patched, DataOK
    <3> HIDE DEF m
    <3>5. m[ref[1]][ref[2]] \in BlockAt
      BY <3>0, <3>3
    <3> DEFINE b == [m[ref[1]][ref[2]] EXCEPT !.src = <<cur, p>>]
    <3>6. b \in BlockAt /\ b.tab = m[ref[1]][ref[2]].tab /\ b.src = <<cur, p>>
      BY <3>0, <3>5 DEF BlockAt
    <3>7. mem' = [m EXCEPT ![ref[1]] = [m[ref[1]] EXCEPT ![ref[2]] = b]]
      BY <3>0, <3>3, <3>4
    <3> HIDE DEF b
    <3> QED
      BY <3>0, <3>3, <3>6, <3>7, ZenonT(30)
  <2> QED
    BY <2>1, <2>2
<1> HIDE DEF p, k, ref
<1>1. DataOK'
  <2>1. core' \in [Core -> CoreAt]
    BY <1>a, <1>b DEF CoreAt
  <2> QED
    BY <2>1, <1>a, <1>M DEF DataOK
<1>2. StageOK'
  BY <1>a, <1>b DEF StageOK
<1>3. HeadOK'
  <2>1. Allocating' = Allocating
    BY <1>a, <1>b DEF Allocating
  <2> QED
    BY <2>1, <1>a, <1>u DEF HeadOK
<1>4. OwnOK'
  BY <1>b, <1>u DEF OwnOK, Has, Own
<1>5. EntryOK'
  BY <1>a, <1>b, <1>u DEF EntryOK
<1>6. BackOK'
  <2>1. (\A x \in Given(cur) :
          (\A d \in Core : core[d].at = "tab" => core[d].p # x) =>
            mem[cur][x].tab \in Entered(cur) /\ tab[cur][mem[cur][x].tab].p = x)'
    BY <1>a, <1>b, <1>M, <1>u DEF BackOK
  <2>2. \A d \in Core : core'[d].at \in {"fill", "patch"} =>
          core[d].at \in {"fill", "patch"} /\ core'[d].p = core[d].p /\ core[d].p \in Index
    BY <1>b, Parts
  <2>3. (\A d \in Core : core[d].at \in {"fill", "patch"} =>
            tab[cur][mem[cur][core[d].p].tab].type = CROSS_T)'
    BY <2>2, <1>a, <1>M, <1>u, SMTT(30) DEF BackOK
  <2> QED
    BY <2>1, <2>3, Zenon DEF BackOK
<1>7. SrcOK'
  <2>1. (\A t \in Pending : Block(entry[t]).src \in Addr)'
    <3> SUFFICES ASSUME NEW t \in Stmt, entry[t] # None
                 PROVE mem'[entry[t][1]][entry[t][2]].src \in Addr
      BY <1>a DEF Pending, Block
    <3>1. entry[t] \in Addr /\ t \in Pending
      BY DEF DataOK, Pending
    <3>2. entry[t][1] \in Arena /\ entry[t][2] \in Index
      BY <3>1 DEF Addr
    <3>3. mem[entry[t][1]][entry[t][2]].src \in Addr
      BY <3>1 DEF SrcOK, Block
    <3> QED
      BY <3>2, <3>3, <1>M
  <2>2. (\A x \in Given(cur) :
          (\A d \in Core : core[d].at \in {"tab", "fill"} => core[d].p # x) =>
             mem[cur][x].src \in Addr)'
    BY <1>a, <1>b, <1>u, <1>M DEF SrcOK
  <2>3. (stage = "compact" => \A x \in Given(old) : mem[old][x].src \in Addr)'
    BY <1>a, <1>u, <1>M DEF SrcOK
  <2> QED
    BY <2>1, <2>2, <2>3 DEF SrcOK
<1>8. OldOK'
  BY <1>a, <1>u DEF OldOK
<1>9. Past(c)' = k + 1 /\ \A d \in Core : d # c => Past(d)' = Past(d)
  BY <1>a, <1>b, <1>u DEF Past
<1>10. WalkOK'
  BY <1>a, <1>b, <1>u, <1>k, <1>n, <1>9 DEF WalkOK, Moving
<1>11. MovedOK'
  <2>0. Index \subseteq Nat
    BY MemAssumption DEF Index
  <2>1. \A d \in Core, e \in Index : Moves(d, e)' <=> Moves(d, e)
    BY <2>0, <1>a, <1>b, <1>k, <1>9 DEF Moves, k
  <2> QED
    BY <2>1, <1>a, <1>u DEF MovedOK
<1> QED
  BY <1>1, <1>2, <1>3, <1>4, <1>5, <1>6, <1>7, <1>8, <1>10, <1>11

\* ResetArena
LEMMA ResetArenaKeeps ==
  ASSUME MemInv, ResetArena
  PROVE MemInv'
<1> USE DEF MemInv
<1>a. /\ stage = "release" /\ stage' = "active" /\ _mem_cross_t_count = 0
      /\ _mem_alloc_tab_head' = [_mem_alloc_tab_head EXCEPT ![cur] = 0]
      /\ _mem_chunk_head' = [_mem_chunk_head EXCEPT ![cur] = 0]
      /\ UNCHANGED <<_mem_cur_ind, tab, mem, moved, core>>
      /\ UNCHANGED <<_mem_cross_t_count, entry, want, pint_mem_compact_count, execs>>
  BY DEF ResetArena
<1>i. \A d \in Core : core[d] = Idle /\ core[d].at = "idle"
  BY <1>a DEF StageOK, AllIdle, Idle
<1>u. /\ cur' = cur /\ old' = old /\ cur \in Arena /\ old \in Arena /\ cur # old
      /\ _mem_alloc_tab_head'[cur] = 0 /\ _mem_chunk_head'[cur] = 0
      /\ _mem_alloc_tab_head'[old] = _mem_alloc_tab_head[old]
      /\ _mem_chunk_head'[old] = _mem_chunk_head[old]
  BY <1>a, Heads DEF cur, old, DataOK
<1>e. Entered(cur)' = {} /\ Given(cur)' = {} /\ Live(cur)' = {} /\ Allocating' = {}
  BY <1>a, <1>i, <1>u DEF Entered, Given, Live, Allocating
<1>1. DataOK'
  <2>1. 0 \in 0 .. Cap
    BY MemAssumption
  <2>2. _mem_alloc_tab_head' \in [Arena -> 0 .. Cap] /\ _mem_chunk_head' \in [Arena -> 0 .. Cap]
    BY <2>1, <1>a, <1>u DEF DataOK
  <2> QED
    BY <2>2, <1>a DEF DataOK
<1>2. StageOK'
  BY <1>a, <1>i, <1>u DEF StageOK, AllIdle
<1>3. HeadOK'
  BY <1>a, <1>u, <1>e, FS_EmptySet DEF HeadOK
<1>4. OwnOK' /\ EntryOK' /\ BackOK'
  BY <1>a, <1>i, <1>e DEF OwnOK, EntryOK, BackOK, Has
<1>5. SrcOK'
  <2>1. (\A t \in Pending : Block(entry[t]).src \in Addr)'
    BY <1>a DEF SrcOK, Pending, Block
  <2> QED
    BY <2>1, <1>a, <1>e DEF SrcOK
<1>6. OldOK' /\ WalkOK' /\ MovedOK'
  BY <1>a DEF OldOK, WalkOK, MovedOK
<1> QED
  BY <1>1, <1>2, <1>3, <1>4, <1>5, <1>6

\* EndCompact
LEMMA EndCompactKeeps ==
  ASSUME MemInv, EndCompact
  PROVE MemInv'
<1> USE DEF MemInv
<1>a. /\ stage = "compact" /\ stage' = "active"
      /\ _mem_alloc_tab_head' = [_mem_alloc_tab_head EXCEPT ![old] = 0]
      /\ _mem_chunk_head' = [_mem_chunk_head EXCEPT ![old] = 0]
      /\ UNCHANGED <<_mem_cur_ind, tab, mem, moved, core>>
      /\ UNCHANGED <<_mem_cross_t_count, entry, want, pint_mem_compact_count, execs>>
  BY DEF EndCompact
<1>i. \A d \in Core : core[d] = Idle /\ core[d].at = "idle"
  BY DEF EndCompact, AllIdle, Idle
<1>u. /\ cur' = cur /\ old' = old /\ cur \in Arena /\ old \in Arena /\ cur # old
      /\ _mem_alloc_tab_head'[old] = 0 /\ _mem_chunk_head'[old] = 0
      /\ _mem_alloc_tab_head'[cur] = _mem_alloc_tab_head[cur]
      /\ _mem_chunk_head'[cur] = _mem_chunk_head[cur]
  BY <1>a, Heads DEF cur, old, DataOK
<1>e. Entered(cur)' = Entered(cur) /\ Given(cur)' = Given(cur) /\ Live(cur)' = Live(cur)
      /\ Allocating' = Allocating
  BY <1>a, <1>u DEF Entered, Given, Live, Allocating
<1>1. DataOK'
  <2>1. 0 \in 0 .. Cap
    BY MemAssumption
  <2>2. _mem_alloc_tab_head' \in [Arena -> 0 .. Cap] /\ _mem_chunk_head' \in [Arena -> 0 .. Cap]
    BY <2>1, <1>a, <1>u DEF DataOK
  <2> QED
    BY <2>2, <1>a DEF DataOK
<1>2. StageOK'
  BY <1>a, <1>i, <1>u DEF StageOK, AllIdle
<1>3. HeadOK'
  BY <1>a, <1>u, <1>e DEF HeadOK
<1>4. OwnOK' /\ EntryOK' /\ BackOK'
  BY <1>a, <1>i, <1>u, <1>e DEF OwnOK, EntryOK, BackOK, Has
<1>5. SrcOK'
  <2>1. (\A t \in Pending : Block(entry[t]).src \in Addr)'
    BY <1>a DEF SrcOK, Pending, Block
  <2> QED
    BY <2>1, <1>a, <1>u, <1>e DEF SrcOK
<1>6. OldOK' /\ WalkOK' /\ MovedOK'
  BY <1>a DEF OldOK, WalkOK, MovedOK
<1> QED
  BY <1>1, <1>2, <1>3, <1>4, <1>5, <1>6

\* StartCompact: the arenas change places, the parts are handed out.
LEMMA StartCompactKeeps ==
  ASSUME MemInv, StartCompact
  PROVE MemInv'
<1> USE DEF MemInv
<1> DEFINE n == _mem_alloc_tab_head[cur]
<1>a. /\ stage = "release" /\ stage' = "compact"
      /\ pint_mem_compact_count' = pint_mem_compact_count + 1
      /\ _mem_cur_ind' = old /\ _mem_cross_t_count' = 0
      /\ core' = [c \in Core |-> [at |-> "walk", k |-> offset(c, n),
                                  end |-> offset(c, n) + loop_size(c, n)]]
      /\ moved' = [i \in Index |-> 0]
      /\ UNCHANGED <<_mem_alloc_tab_head, _mem_chunk_head, tab, mem, entry, want, execs>>
  BY DEF StartCompact
<1>i. \A d \in Core : core[d] = Idle /\ core[d].at = "idle"
  BY <1>a DEF StageOK, AllIdle, Idle
<1>u. /\ cur' = old /\ old' = cur /\ cur \in Arena /\ old \in Arena /\ cur # old
      /\ _mem_alloc_tab_head[old] = 0 /\ _mem_chunk_head[old] = 0
      /\ n \in Nat /\ n <= Cap /\ n0' = n
  BY <1>a, Heads DEF cur, old, Arena, StageOK, n0
<1> HIDE DEF n
<1>n. \A c \in Core : offset(c, n) \in Nat /\ loop_size(c, n) \in Nat
                      /\ offset(c, n) + loop_size(c, n) \in Nat
  <2>1. \A c \in Core : offset(c, n) \in Nat /\ loop_size(c, n) \in Nat
    BY <1>u, SliceIs
  <2> QED
    BY <2>1
<1>c. \A c \in Core : /\ core'[c].at = "walk" /\ core'[c].k = offset(c, n)
                      /\ core'[c].end = offset(c, n) + loop_size(c, n)
                      /\ core'[c] \in [at : {"walk"}, k : Nat, end : Nat]
  BY <1>a, <1>n
<1>e. /\ Entered(cur)' = {} /\ Given(cur)' = {} /\ Live(cur)' = {} /\ Allocating' = {}
      /\ Entered(old)' = Entered(cur) /\ Given(old)' = Given(cur)
  <2>1. Allocating' = {}
    BY <1>c DEF Allocating
  <2> QED
    BY <2>1, <1>a, <1>u DEF Entered, Given, Live
<1>1. DataOK'
  <2>1. core' \in [Core -> CoreAt]
    BY <1>a, <1>c DEF CoreAt
  <2>2. moved' \in [Index -> Nat] /\ _mem_cur_ind' \in Arena /\ pint_mem_compact_count' \in Nat
    BY <1>a, <1>u DEF DataOK
  <2> QED
    BY <2>1, <2>2, <1>a DEF DataOK
<1>2. StageOK'
  BY <1>a, <1>c DEF StageOK
<1>3. HeadOK'
  BY <1>a, <1>u, <1>e, FS_EmptySet DEF HeadOK
<1>4. OwnOK' /\ EntryOK' /\ BackOK'
  BY <1>c, <1>e DEF OwnOK, EntryOK, BackOK, Has
<1>5. SrcOK'
  <2>1. (\A t \in Pending : Block(entry[t]).src \in Addr)'
    BY <1>a DEF SrcOK, Pending, Block
  <2>2. \A x \in Given(cur) : mem[cur][x].src \in Addr
    BY <1>i DEF SrcOK
  <2> QED
    BY <2>1, <2>2, <1>a, <1>u, <1>e DEF SrcOK
<1>6. OldOK'
  BY <1>a, <1>u, <1>e DEF OldOK, EntryOK
<1>7. \A c \in Core : /\ From(c)' = offset(c, n) /\ To(c)' = offset(c, n) + loop_size(c, n)
                      /\ Past(c)' = offset(c, n)
  BY <1>c, <1>u DEF From, To, Past
<1>8. WalkOK'
  BY <1>c, <1>n, <1>7 DEF WalkOK, Moving
<1>9. MovedOK'
  <2>1. \A c \in Core, e \in Index : From(c)' <= e => ~Moves(c, e)'
    <3>1. Index \subseteq Nat
      BY MemAssumption DEF Index
    <3> QED
      BY <3>1, <1>c, <1>n, <1>7 DEF Moves
  <2>2. \A e \in Index : moved'[e] = 0
    BY <1>a
  <2> QED
    BY <2>1, <2>2 DEF MovedOK
<1> QED
  BY <1>1, <1>2, <1>3, <1>4, <1>5, <1>6, <1>8, <1>9

\* At the start both arenas are empty and every core is idle.
LEMMA MemInvInit ==
  ASSUME Init
  PROVE MemInv
<1>a. \A c \in Core : core[c] = Idle /\ core[c].at = "idle"
  BY DEF Init, Idle
<1>u. /\ cur = 0 /\ old = 1 /\ Pending = {} /\ Allocating = {} /\ stage = "active"
      /\ \A a \in Arena : Entered(a) = {} /\ Given(a) = {} /\ Live(a) = {}
      /\ _mem_chunk_head[cur] = 0 /\ _mem_alloc_tab_head[cur] = 0
      /\ _mem_chunk_head[old] = 0 /\ _mem_alloc_tab_head[old] = 0
      /\ _mem_cross_t_count = 0
  BY <1>a DEF Init, cur, old, Pending, Allocating, Arena, Entered, Given, Live
<1>1. DataOK
  <2>1. EmptyTab \in TabEntry /\ EmptyBlock \in BlockAt /\ Idle \in CoreAt
    BY MemAssumption DEF EmptyTab, EmptyBlock, TabEntry, BlockAt, Free, Index, CoreAt
  <2> QED
    BY <2>1, MemAssumption DEF Init, DataOK, Arena
<1>2. StageOK
  BY <1>a, <1>u DEF StageOK, AllIdle
<1>3. HeadOK
  BY <1>u, FS_EmptySet DEF HeadOK, Arena
<1>4. OwnOK /\ EntryOK /\ BackOK
  BY <1>a, <1>u DEF OwnOK, EntryOK, BackOK, Has, Arena
<1>5. SrcOK /\ OldOK /\ WalkOK /\ MovedOK
  BY <1>a, <1>u DEF SrcOK, OldOK, WalkOK, MovedOK, Arena
<1> QED
  BY <1>1, <1>2, <1>3, <1>4, <1>5 DEF MemInv

\* No core is handed an entry beyond the table.
LEMMA BeyondNever ==
  ASSUME MemInv, NEW c \in Core, WalkBeyond(c)
  PROVE FALSE
<1>1. /\ core[c].at = "walk" /\ core[c].k < core[c].end /\ core[c].k >= Cap
      /\ core[c].end = To(c)
  BY DEF WalkBeyond, MemInv, StageOK, WalkOK
<1>2. core[c].k \in Nat
  BY <1>1, Shapes DEF MemInv
<1> QED
  BY <1>1, <1>2, PartOf, MemAssumption DEF MemInv

\* Every step keeps the invariant while no arena is full.
LEMMA MemInvNext ==
  ASSUME MemInv, [Next]_vars, ~exhausted'
  PROVE MemInv'
<1>1. ASSUME NEW c \in Core, NEW s \in Stmt, NEW v \in Value, Execute(c, s, v)
      PROVE MemInv'
  BY <1>1, ExecuteKeeps
<1>2. ASSUME NEW c \in Core, AllocTab(c)
      PROVE MemInv'
  BY <1>2, AllocTabKeeps
<1>3. ASSUME NEW c \in Core, NEW delay \in {0, 1}, pint_enqueue_nb_future(c, delay)
      PROVE MemInv'
  BY <1>3, EnqueueKeeps
<1>4. ASSUME NEW c \in Core, NEW v \in Value, ExecuteAgain(c, v)
      PROVE MemInv'
  BY <1>4, ExecuteAgainKeeps
<1>5. ASSUME NEW c \in Core, ThreadReturns(c)
      PROVE MemInv'
  BY <1>5, ThreadReturnsKeeps
<1>6. ASSUME NEW c \in Core, WalkLive(c) \/ WalkFree(c)
      PROVE MemInv'
  BY <1>6, WalkLiveKeeps, WalkFreeKeeps
<1>12. ASSUME NEW c \in Core, WalkBeyond(c)
       PROVE FALSE
  BY <1>12, BeyondNever
<1>7. ASSUME NEW c \in Core, CopyBlock(c) \/ PatchRef(c) \/ WalkDone(c)
      PROVE MemInv'
  BY <1>7, CopyBlockKeeps, PatchRefKeeps, WalkDoneKeeps
<1>8. ASSUME NEW s \in Stmt, pint_handle_future_nb(s)
      PROVE MemInv'
  BY <1>8, HandleKeeps
<1>9. CASE EndActive \/ KeepArena
  BY <1>9, StageMoveKeeps
<1>10. CASE ResetArena \/ StartCompact \/ EndCompact
  BY <1>10, ResetArenaKeeps, StartCompactKeeps, EndCompactKeeps
<1>11. CASE UNCHANGED vars
  <2>1. DataOK' /\ StageOK'
    BY <1>11 DEF vars, heads, MemInv, DataOK, StageOK, AllIdle, old, cur
  <2>2. HeadOK' /\ OwnOK' /\ EntryOK'
    BY <1>11 DEF vars, heads, MemInv, HeadOK, Allocating, Live, OwnOK, Has, Own, EntryOK, Entered, Given, cur
  <2>3. BackOK' /\ SrcOK'
    BY <1>11 DEF vars, heads, MemInv, BackOK, SrcOK, Entered, Given, Pending, Block, old, cur
  <2>4. OldOK' /\ WalkOK'
    BY <1>11 DEF vars, heads, MemInv, OldOK, WalkOK, Entered, Given, From, To, Past, Moving, n0, old, cur
  <2>5. MovedOK'
    BY <1>11 DEF vars, heads, MemInv, MovedOK, Moves, From, To, Past, n0, old, cur
  <2> QED
    BY <2>1, <2>2, <2>3, <2>4, <2>5 DEF MemInv
<1> QED
  BY <1>1, <1>2, <1>3, <1>4, <1>5, <1>6, <1>7, <1>8, <1>9, <1>10, <1>11, <1>12 DEF Next

-----------------------------------------------------------------------------
(* The types, with no condition on the arenas. *)

\* The records of the cores.
LEMMA LooseShapes ==
  ASSUME LooseOK, NEW c \in Core
  PROVE /\ core[c].at = "tab" => core[c] \in [at : {"tab"}, job : UserJob \cup KernelJob, p : Nat]
        /\ core[c].at = "fill" => core[c] \in [at : {"fill"}, job : UserJob \cup KernelJob, p : Index]
        /\ core[c].at = "patch" => core[c] \in [at : {"patch"}, job : KernelJob, p : Index]
        /\ core[c].at = "thread" => core[c] \in [at : {"thread"}, s : Stmt, blk : Addr]
        /\ core[c].at = "walk" => core[c] \in [at : {"walk"}, k : Nat, end : Nat]
<1>1. core[c] \in LooseAt
  BY DEF LooseOK
<1> QED
  BY <1>1 DEF LooseAt, Idle, Undefined

\* A core and a block at a time are changed.
LEMMA LooseCore ==
  ASSUME core \in [Core -> LooseAt], NEW c \in Core, NEW r \in LooseAt,
         core' = [core EXCEPT ![c] = r]
  PROVE core' \in [Core -> LooseAt]
OBVIOUS

LEMMA LooseMem ==
  ASSUME NEW m \in [Arena -> [Index -> BlockAt]], NEW a \in Arena, NEW x \in Index, NEW b \in BlockAt
  PROVE [m EXCEPT ![a][x] = b] \in [Arena -> [Index -> BlockAt]]
OBVIOUS

\* pint_mem_alloc, the first addition.
LEMMA LooseAllocChunk ==
  ASSUME LooseOK, NEW c \in Core, NEW job \in UserJob \cup KernelJob, AllocChunk(c, job),
         UNCHANGED <<stage, _mem_cur_ind, _mem_alloc_tab_head, _mem_cross_t_count, tab, mem, entry>>
  PROVE LooseOK'
<1>1. cur \in Arena /\ _mem_chunk_head[cur] \in Nat
  BY DEF LooseOK, cur
<1>2. [at |-> "tab", job |-> job, p |-> _mem_chunk_head[cur]] \in LooseAt
  BY <1>1 DEF LooseAt
<1>3. core' \in [Core -> LooseAt]
  BY <1>2, LooseCore DEF LooseOK, AllocChunk, ChunkOffset
<1>4. _mem_chunk_head' \in [Arena -> Nat]
  BY <1>1 DEF LooseOK, AllocChunk
<1> QED
  BY <1>3, <1>4 DEF LooseOK

\* The second one.
LEMMA LooseAllocTab ==
  ASSUME LooseOK, NEW c \in Core, AllocTab(c)
  PROVE LooseOK'
<1>1. cur \in Arena /\ _mem_alloc_tab_head[cur] \in Nat
  BY DEF LooseOK, cur
<1>2. core[c] \in [at : {"tab"}, job : UserJob \cup KernelJob, p : Nat]
  BY LooseShapes DEF AllocTab
<1>3. \A h : \A x \in Nat : Offsets(x, h) \subseteq Index
  BY MemAssumption DEF Offsets, Index
<1>4. PICK p \in Index, t \in Index :
        /\ tab' = [tab EXCEPT ![cur][t] = [type |-> CROSS_T, p |-> p]]
        /\ mem' = [mem EXCEPT ![cur][p].tab = t, ![cur][p].ref = None]
        /\ core' = [core EXCEPT ![c].at = "fill", ![c].p = p]
  BY <1>1, <1>2, <1>3 DEF AllocTab
<1>5. tab' \in [Arena -> [Index -> TabEntry]]
  BY <1>1, <1>4 DEF LooseOK, TabEntry
<1>6. mem' \in [Arena -> [Index -> BlockAt]]
  <2> DEFINE b == [mem[cur][p] EXCEPT !.tab = t, !.ref = None]
  <2>1. mem[cur][p] \in BlockAt
    BY <1>1 DEF LooseOK
  <2>2. b \in BlockAt
    BY <2>1 DEF BlockAt
  <2>3. mem' = [mem EXCEPT ![cur][p] = b]
    BY <1>1, <1>4 DEF LooseOK
  <2> HIDE DEF b
  <2> QED
    BY <2>2, <2>3, <1>1, LooseMem DEF LooseOK
<1>7. core' \in [Core -> LooseAt]
  <2> DEFINE r == [core[c] EXCEPT !.at = "fill", !.p = p]
  <2>1. r \in LooseAt
    BY <1>2 DEF LooseAt
  <2>2. core' = [core EXCEPT ![c] = r]
    BY <1>4 DEF LooseOK
  <2> HIDE DEF r
  <2> QED
    BY <2>1, <2>2, LooseCore DEF LooseOK
<1>8. _mem_alloc_tab_head' \in [Arena -> Nat] /\ _mem_cross_t_count' \in Int
  BY <1>1 DEF AllocTab, CountAlloc, LooseOK
<1> QED
  BY <1>5, <1>6, <1>7, <1>8 DEF AllocTab, LooseOK

\* pint_enqueue_nb_future and ExecuteAgain store in the core's block.
LEMMA LooseEnqueue ==
  ASSUME LooseOK, NEW c \in Core, NEW delay \in {0, 1}, pint_enqueue_nb_future(c, delay)
  PROVE LooseOK'
<1> DEFINE p == core[c].p
           s == core[c].job.s
           a == <<cur, p>>
           b == [tab |-> mem[cur][p].tab, val |-> core[c].job.v, src |-> a,
                 ref |-> IF delay > 0 THEN a ELSE mem[cur][p].ref]
<1>1. /\ cur \in Arena /\ core[c].at = "fill" /\ core[c].job.of = "thread"
      /\ core[c] \in [at : {"fill"}, job : UserJob \cup KernelJob, p : Index]
  BY LooseShapes DEF pint_enqueue_nb_future, LooseOK, cur
<1>2. p \in Index /\ s \in Stmt /\ core[c].job.v \in Value /\ a \in Addr
  BY <1>1 DEF UserJob, KernelJob, Addr
<1>3. mem' \in [Arena -> [Index -> BlockAt]]
  <2>1. mem[cur][p] \in BlockAt
    BY <1>1, <1>2 DEF LooseOK
  <2>2. b \in BlockAt
    <3>1. mem[cur][p].tab \in Index /\ mem[cur][p].ref \in Addr \cup {None}
      BY <2>1 DEF BlockAt
    <3> HIDE DEF a
    <3> QED
      BY <3>1, <1>2 DEF BlockAt
  <2>3. mem' = [mem EXCEPT ![cur][p] = b]
    BY DEF pint_enqueue_nb_future
  <2> HIDE DEF b, p
  <2> QED
    BY <2>2, <2>3, <1>1, <1>2, LooseMem DEF LooseOK
<1>4. core' \in [Core -> LooseAt]
  <2>1. [at |-> "thread", s |-> s, blk |-> a] \in LooseAt
    <3> HIDE DEF s, a
    <3> QED
      BY <1>2 DEF LooseAt
  <2>2. core' = [core EXCEPT ![c] = [at |-> "thread", s |-> s, blk |-> a]]
    BY DEF pint_enqueue_nb_future
  <2> QED
    BY <2>1, <2>2, LooseCore DEF LooseOK
<1>5. /\ entry' \in [Stmt -> Addr \cup {None}] /\ _mem_cross_t_count' \in Int
      /\ tab' \in [Arena -> [Index -> TabEntry]]
  <2>1. \/ entry' = [entry EXCEPT ![s] = a] /\ UNCHANGED <<_mem_cross_t_count, tab>>
        \/ Freed(a) /\ UNCHANGED entry
    BY DEF pint_enqueue_nb_future
  <2> HIDE DEF a, s
  <2>2. CASE entry' = [entry EXCEPT ![s] = a] /\ UNCHANGED <<_mem_cross_t_count, tab>>
    BY <2>2, <1>2 DEF LooseOK
  <2>3. CASE Freed(a) /\ UNCHANGED entry
    BY <2>3, <1>2, FreedIs DEF LooseOK
  <2> QED
    BY <2>1, <2>2, <2>3
<1> QED
  BY <1>3, <1>4, <1>5 DEF LooseOK, pint_enqueue_nb_future, heads

LEMMA LooseExecuteAgain ==
  ASSUME LooseOK, NEW c \in Core, NEW v \in Value, ExecuteAgain(c, v)
  PROVE LooseOK'
<1> DEFINE x == core[c].blk[2]
<1>1. cur \in Arena /\ x \in Index
  BY LooseShapes DEF ExecuteAgain, LooseOK, cur, Addr
<1>0. mem' = [mem EXCEPT ![cur][x].val = v] /\ mem \in [Arena -> [Index -> BlockAt]]
  BY DEF ExecuteAgain, LooseOK
<1> HIDE DEF x
<1> DEFINE b == [mem[cur][x] EXCEPT !.val = v]
<1>2. b \in BlockAt
  <2>1. mem[cur][x] \in BlockAt
    BY <1>0, <1>1
  <2> QED
    BY <2>1 DEF BlockAt
<1>3. mem' = [mem EXCEPT ![cur][x] = b]
  BY <1>0, <1>1
<1> HIDE DEF b
<1>4. mem' \in [Arena -> [Index -> BlockAt]]
  <2>1. mem \in [Arena -> [Index -> BlockAt]]
    BY <1>0
  <2>2. [mem EXCEPT ![cur][x] = b] \in [Arena -> [Index -> BlockAt]]
    BY <2>1, <1>1, <1>2, LooseMem, Zenon
  <2> QED
    BY <2>2, <1>3, Zenon
<1>5. UNCHANGED <<stage, _mem_cur_ind, _mem_alloc_tab_head, _mem_chunk_head,
                  _mem_cross_t_count, tab, entry, core>>
  BY DEF ExecuteAgain, heads
<1> QED
  BY <1>4, <1>5 DEF LooseOK

\* CopyBlock and PatchRef.
LEMMA LooseCopy ==
  ASSUME LooseOK, NEW c \in Core, CopyBlock(c) \/ PatchRef(c)
  PROVE LooseOK'
<1> DEFINE p == core[c].p
           k == core[c].job.k
           from == mem[old][tab[old][k].p]
<1>1. /\ cur \in Arena /\ old \in Arena /\ p \in Index
      /\ core[c].job \in KernelJob /\ k \in Index /\ core[c].job.end \in Nat
  <2>1. cur \in Arena /\ old \in Arena
    BY DEF LooseOK, cur, old, Arena
  <2>2. p \in Index /\ core[c].job \in KernelJob
    <3>1. CASE CopyBlock(c)
      <4>1. /\ core[c] \in [at : {"fill"}, job : UserJob \cup KernelJob, p : Index]
            /\ core[c].job.of = "kernel"
        BY <3>1, LooseShapes DEF CopyBlock
      <4> QED
        BY <4>1 DEF UserJob
    <3>2. CASE PatchRef(c)
      BY <3>2, LooseShapes DEF PatchRef
    <3> QED
      BY <3>1, <3>2
  <2> QED
    BY <2>1, <2>2 DEF KernelJob
<1>2. from \in BlockAt /\ mem[cur][p] \in BlockAt
  <2>1. tab[old][k].p \in Index
    BY <1>1 DEF LooseOK, TabEntry
  <2> QED
    BY <2>1, <1>1 DEF LooseOK
<1> HIDE DEF from
<1>3. CASE CopyBlock(c)
  <2> DEFINE b == [from EXCEPT !.tab = mem[cur][p].tab, !.ref = None]
             r == [core[c] EXCEPT !.at = "patch"]
  <2>1. b \in BlockAt
    BY <1>2 DEF BlockAt
  <2>2. mem' = [mem EXCEPT ![cur][p] = b] /\ core' = [core EXCEPT ![c] = r]
    BY <1>3 DEF CopyBlock, from, LooseOK
  <2>3. r \in LooseAt
    <3>1. core[c] \in [at : {"fill"}, job : UserJob \cup KernelJob, p : Index]
      BY <1>3, LooseShapes DEF CopyBlock
    <3> QED
      BY <3>1, <1>1 DEF LooseAt
  <2> HIDE DEF b, r, p
  <2>4. mem' \in [Arena -> [Index -> BlockAt]] /\ core' \in [Core -> LooseAt]
    BY <2>1, <2>2, <2>3, <1>1, LooseMem, LooseCore DEF LooseOK
  <2> QED
    BY <2>4, <1>3 DEF CopyBlock, LooseOK, heads
<1>4. CASE PatchRef(c)
  <2> DEFINE ref == from.ref
             b == [mem[cur][p] EXCEPT !.ref = ref]
             m == [mem EXCEPT ![cur][p] = b]
             a == <<cur, p>>
             r == [at |-> "walk", k |-> k + 1, end |-> core[c].job.end]
  <2>1. ref \in Addr \cup {None} /\ a \in Addr /\ b \in BlockAt
    BY <1>1, <1>2 DEF BlockAt, Addr
  <2>2. m \in [Arena -> [Index -> BlockAt]]
    <3> HIDE DEF b, p
    <3> QED
      BY <2>1, <1>1, LooseMem DEF LooseOK
  <2>3. core' = [core EXCEPT ![c] = r] /\ mem' = IF ref = None THEN mem ELSE Patched(m, ref, a)
    BY <1>1, <1>4 DEF PatchRef, from, LooseOK
  <2>4. r \in LooseAt
    BY <1>1, MemAssumption DEF LooseAt, Index
  <2> HIDE DEF m, r, a, ref
  <2>5. ASSUME ref # None
        PROVE Patched(m, ref, a) \in [Arena -> [Index -> BlockAt]]
    <3>1. ref[1] \in Arena /\ ref[2] \in Index
      BY <2>1, <2>5 DEF Addr
    <3> DEFINE q == [m[ref[1]][ref[2]] EXCEPT !.src = a]
    <3>2. q \in BlockAt
      BY <2>1, <2>2, <3>1 DEF BlockAt
    <3>3. Patched(m, ref, a) = [m EXCEPT ![ref[1]][ref[2]] = q]
      BY <2>2, <3>1 DEF Patched
    <3> HIDE DEF q
    <3> QED
      BY <2>2, <3>1, <3>2, <3>3, LooseMem
  <2>6. mem' \in [Arena -> [Index -> BlockAt]] /\ core' \in [Core -> LooseAt]
    BY <2>3, <2>4, <2>5, LooseCore DEF LooseOK
  <2> QED
    BY <2>6, <1>4 DEF PatchRef, LooseOK, heads
<1> QED
  BY <1>3, <1>4

\* The other steps of a core.
LEMMA LooseWalk ==
  ASSUME LooseOK, NEW c \in Core,
         ThreadReturns(c) \/ WalkFree(c) \/ WalkBeyond(c) \/ WalkDone(c)
  PROVE LooseOK'
<1>1. PICK r \in LooseAt : core' = [core EXCEPT ![c] = r]
  <2>1. CASE WalkFree(c)
    <3>1. core[c] \in [at : {"walk"}, k : Nat, end : Nat]
      BY <2>1, LooseShapes DEF WalkFree
    <3> DEFINE r == [core[c] EXCEPT !.k = @ + 1]
    <3>2. r \in LooseAt
      BY <3>1 DEF LooseAt
    <3>3. core' = [core EXCEPT ![c] = r]
      BY <2>1 DEF WalkFree, LooseOK
    <3> QED
      BY <3>2, <3>3
  <2>2. CASE ~WalkFree(c)
    <3>1. Idle \in LooseAt /\ Undefined \in LooseAt
      BY DEF LooseAt
    <3> QED
      BY <2>2, <3>1 DEF ThreadReturns, WalkBeyond, WalkDone
  <2> QED
    BY <2>1, <2>2
<1>2. core' \in [Core -> LooseAt]
  BY <1>1, LooseCore DEF LooseOK
<1>3. UNCHANGED <<stage, _mem_cur_ind, _mem_alloc_tab_head, _mem_chunk_head,
                  _mem_cross_t_count, tab, mem, entry>>
  BY DEF ThreadReturns, WalkFree, WalkBeyond, WalkDone, heads
<1> QED
  BY <1>2, <1>3 DEF LooseOK

\* The steps of the main program.
LEMMA LooseStage ==
  ASSUME LooseOK, EndActive \/ ResetArena \/ KeepArena \/ StartCompact \/ EndCompact
  PROVE LooseOK'
<1>1. cur \in Arena /\ old \in Arena
  BY DEF LooseOK, cur, old, Arena
<1>2. CASE EndActive \/ KeepArena
  BY <1>2 DEF EndActive, KeepArena, LooseOK, heads
<1>3. CASE ResetArena \/ EndCompact
  BY <1>1, <1>3 DEF ResetArena, EndCompact, LooseOK
<1>4. CASE StartCompact
  <2> DEFINE n == _mem_alloc_tab_head[cur]
  <2>1. n \in Nat
    BY <1>1 DEF LooseOK
  <2> HIDE DEF n
  <2>2. \A c \in Core : offset(c, n) \in Nat /\ loop_size(c, n) \in Nat
    BY <2>1, SliceIs
  <2>3. core' = [c \in Core |-> [at |-> "walk", k |-> offset(c, n),
                                 end |-> offset(c, n) + loop_size(c, n)]]
    BY <1>4 DEF StartCompact, n
  <2>4. \A c \in Core : [at |-> "walk", k |-> offset(c, n),
                         end |-> offset(c, n) + loop_size(c, n)] \in LooseAt
    <3>1. \A x, y \in Nat : [at |-> "walk", k |-> x, end |-> x + y] \in LooseAt
      BY DEF LooseAt
    <3> QED
      BY <2>2, <3>1
  <2>5. core' \in [Core -> LooseAt]
    BY <2>3, <2>4
  <2> QED
    BY <2>5, <1>1, <1>4 DEF StartCompact, LooseOK
<1> QED
  BY <1>2, <1>3, <1>4

\* pint_handle_future_nb
LEMMA LooseHandle ==
  ASSUME LooseOK, NEW s \in Stmt, pint_handle_future_nb(s)
  PROVE LooseOK'
<1> DEFINE a == Block(entry[s]).src
<1>1. entry[s] \in Addr
  BY DEF pint_handle_future_nb, LooseOK, Pending
<1>2. a \in Addr \cup {None}
  <2>1. mem[entry[s][1]][entry[s][2]] \in BlockAt
    BY <1>1 DEF Addr, LooseOK
  <2> QED
    BY <2>1 DEF Block, BlockAt
<1>3. /\ Freed(a) /\ entry' = [entry EXCEPT ![s] = None]
      /\ UNCHANGED <<stage, _mem_cur_ind, _mem_alloc_tab_head, _mem_chunk_head, mem, core>>
  BY DEF pint_handle_future_nb, heads
<1> HIDE DEF a
<1>4. tab' \in [Arena -> [Index -> TabEntry]] /\ _mem_cross_t_count' \in Int
  <2>1. CASE a \in Addr
    BY <2>1, <1>3, FreedIs DEF LooseOK
  <2>2. CASE a = None
    BY <2>2, <1>3 DEF Freed, InCurrent, LooseOK
  <2> QED
    BY <2>1, <2>2, <1>2
<1> QED
  BY <1>3, <1>4 DEF LooseOK

\* At the start, and after every step.
LEMMA LooseInit ==
  ASSUME Init
  PROVE LooseOK
<1>1. EmptyTab \in TabEntry /\ EmptyBlock \in BlockAt /\ Idle \in LooseAt
  BY MemAssumption DEF EmptyTab, EmptyBlock, TabEntry, BlockAt, Free, Index, LooseAt
<1> QED
  BY <1>1 DEF Init, LooseOK, Arena

LEMMA LooseNext ==
  ASSUME LooseOK, [Next]_vars
  PROVE LooseOK'
<1>1. ASSUME NEW c \in Core, NEW s \in Stmt, NEW v \in Value, Execute(c, s, v)
      PROVE LooseOK'
  <2>1. [of |-> "thread", s |-> s, v |-> v] \in UserJob \cup KernelJob
    BY DEF UserJob
  <2> QED
    BY <1>1, <2>1, LooseAllocChunk DEF Execute
<1>2. ASSUME NEW c \in Core, WalkLive(c)
      PROVE LooseOK'
  <2>1. core[c] \in [at : {"walk"}, k : Nat, end : Nat] /\ core[c].k < Cap
    BY <1>2, LooseShapes DEF WalkLive
  <2>2. [of |-> "kernel", s |-> None, k |-> core[c].k, end |-> core[c].end]
          \in UserJob \cup KernelJob
    BY <2>1, MemAssumption DEF KernelJob, Index
  <2> QED
    BY <1>2, <2>2, LooseAllocChunk DEF WalkLive
<1>3. ASSUME NEW c \in Core, AllocTab(c)
      PROVE LooseOK'
  BY <1>3, LooseAllocTab
<1>4. ASSUME NEW c \in Core, NEW delay \in {0, 1}, pint_enqueue_nb_future(c, delay)
      PROVE LooseOK'
  BY <1>4, LooseEnqueue
<1>5. ASSUME NEW c \in Core, NEW v \in Value, ExecuteAgain(c, v)
      PROVE LooseOK'
  BY <1>5, LooseExecuteAgain
<1>6. ASSUME NEW c \in Core, CopyBlock(c) \/ PatchRef(c)
      PROVE LooseOK'
  BY <1>6, LooseCopy
<1>7. ASSUME NEW c \in Core, ThreadReturns(c) \/ WalkFree(c) \/ WalkBeyond(c) \/ WalkDone(c)
      PROVE LooseOK'
  BY <1>7, LooseWalk
<1>8. ASSUME NEW s \in Stmt, pint_handle_future_nb(s)
      PROVE LooseOK'
  BY <1>8, LooseHandle
<1>9. CASE EndActive \/ ResetArena \/ KeepArena \/ StartCompact \/ EndCompact
  BY <1>9, LooseStage
<1>10. CASE UNCHANGED vars
  BY <1>10 DEF vars, heads, LooseOK
<1> QED
  BY <1>1, <1>2, <1>3, <1>4, <1>5, <1>6, <1>7, <1>8, <1>9, <1>10 DEF Next

\* Full once, full for ever.
LEMMA ExhaustedStays ==
  ASSUME exhausted, [Next]_vars
  PROVE exhausted'
BY ZenonT(30) DEF Next, vars, Execute, AllocChunk, AllocTab, pint_enqueue_nb_future, ExecuteAgain,
   ThreadReturns, WalkLive, WalkFree, WalkBeyond, CopyBlock, PatchRef, WalkDone,
   pint_handle_future_nb, EndActive, ResetArena, KeepArena, StartCompact, EndCompact

-----------------------------------------------------------------------------
(* The theorems. *)

\* Until an arena is full the invariant holds.
LEMMA MemInvHolds == Spec => []((exhausted \/ MemInv) /\ LooseOK)
<1>1. Init => (exhausted \/ MemInv) /\ LooseOK
  BY MemInvInit, LooseInit
<1>2. (exhausted \/ MemInv) /\ LooseOK /\ [Next]_vars => ((exhausted \/ MemInv) /\ LooseOK)'
  BY MemInvNext, LooseNext, ExhaustedStays
<1> QED
  BY <1>1, <1>2, PTL DEF Spec

\* The state has its types, and until an allocation finds its arena full, no two
\* live table entries share a block: for any number of cores and arenas of any size.
THEOREM MemBlocksApart == Spec => []BlocksApart
<1>1. (exhausted \/ MemInv) /\ LooseOK => BlocksApart
  <2> SUFFICES ASSUME exhausted \/ MemInv, LooseOK PROVE BlocksApart
    OBVIOUS
  <2>1. TypeOK
    BY DEF LooseOK, TypeOK
  <2>2. Live(cur) \subseteq Entered(cur)
    BY DEF Live, Entered
  <2> QED
    BY <2>1, <2>2 DEF BlocksApart, MemInv, EntryOK
<1> QED
  BY <1>1, MemInvHolds, PTL

\* When every core is done with its part of the table, each live block of the old
\* arena has been copied once and nothing else has, unless an arena was full.
THEOREM MemEachMovedOnce == Spec => []EachMovedOnce
<1>1. (exhausted \/ MemInv) /\ LooseOK => EachMovedOnce
  <2> SUFFICES ASSUME MemInv, stage = "compact", AllIdle, NEW i \in Index
               PROVE moved[i] = IF i \in Live(old) THEN 1 ELSE 0
    BY DEF EachMovedOnce
  <2>0. DataOK /\ i \in Nat /\ n0 \in Nat
    BY PartOf, Heads, MemAssumption DEF MemInv, Index, n0
  <2>1. CASE i >= n0
    <3>1. i \notin Live(old)
      BY <2>0, <2>1 DEF Live, n0
    <3> QED
      BY <2>1, <3>1 DEF MemInv, MovedOK
  <2>2. CASE i < n0
    <3>1. PICK c \in Core : From(c) <= i /\ i < To(c)
      BY <2>0, <2>2, SlicesCover DEF From, To
    <3>2. Past(c) = To(c) /\ core[c].at = "idle"
      BY DEF Past, AllIdle, Idle
    <3>3. Moves(c, i)
      BY <3>1, <3>2 DEF Moves
    <3>4. i \in Live(old) <=> tab[old][i].type = CROSS_T
      BY <2>0, <2>2, MemAssumption DEF Live, n0, Index
    <3> QED
      BY <3>1, <3>3, <3>4 DEF MemInv, MovedOK
  <2> QED
    BY <2>0, <2>1, <2>2
<1> QED
  BY <1>1, MemInvHolds, PTL

-----------------------------------------------------------------------------
(* The pending assignments. *)

\* The parts of an address.
LEMMA AddrParts ==
  ASSUME NEW a \in Addr
  PROVE a[1] \in Arena /\ a[2] \in Index /\ a = <<a[1], a[2]>>
BY DEF Addr

\* The info of a pending assignment is an address.
LEMMA PendingIs ==
  ASSUME MemInv, NEW s \in Pending
  PROVE s \in Stmt /\ entry[s] \in Addr /\ Target(s) \in Addr
BY DEF Pending, MemInv, DataOK, SrcOK, Target

\* The block a core is filling in belongs to no pending assignment.
LEMMA Elsewhere ==
  ASSUME ValueInv, NEW c \in Core, core[c].at \in {"tab", "fill", "patch"}, NEW s \in Pending
  PROVE /\ Ready(s) => Target(s) # <<cur, core[c].p>>
        /\ entry[s] # <<cur, core[c].p>>
<1>1. Has(c) /\ Own(c) = core[c].p /\ core[c].at # "thread"
  BY DEF Has, Own
<1>2. ASSUME Ready(s)
      PROVE Target(s)[2] # core[c].p
  BY <1>1, <1>2 DEF ValueInv, Values, KeptOK, Mine
<1>3. Ready(s) => Target(s) # <<cur, core[c].p>>
  BY <1>2
<1>4. ASSUME entry[s] = <<cur, core[c].p>>
      PROVE FALSE
  <2>1. entry[s][1] = cur /\ cur # old
    BY <1>4, Heads DEF ValueInv, Values, MemInv
  <2>2. stage # "compact"
    BY <2>1 DEF ValueInv, Values, MovingOK
  <2>3. Target(s) = entry[s] /\ Ready(s)
    BY <2>1, <2>2 DEF ValueInv, Values, InfoOK, Ready
  <2> QED
    BY <2>3, <1>3, <1>4
<1> QED
  BY <1>3, <1>4

\* The live entries of a table that is not full.
LEMMA LiveIs ==
  ASSUME DataOK
  PROVE \A a \in Arena : Live(a) = {e \in Entered(a) : tab[a][e].type = CROSS_T}
<1>1. \A a \in Arena : \A e \in Entered(a) : e < Cap
  BY Heads, MemAssumption DEF Index
<1> QED
  BY <1>1 DEF Live, Entered

\* A step that moves a core and touches neither tables nor memory.
LEMMA CoreFrame ==
  ASSUME ValueInv,
         UNCHANGED <<stage, _mem_cur_ind, _mem_alloc_tab_head, _mem_cross_t_count>>,
         UNCHANGED <<tab, mem, entry, want>>,
         Given(cur) \subseteq Given(cur)',
         \A s \in Pending : Ready(s)' <=> Ready(s),
         \A c \in Core :
           /\ core[c].at \in {"fill", "patch"} =>
                core'[c].at \in {"fill", "patch"} /\ core'[c].p = core[c].p
           /\ core'[c].at = "patch" => core'[c] = core[c]
           /\ Has(c)' => \/ Own(c)' \notin Given(cur)
                         \/ /\ Has(c) /\ Own(c)' = Own(c)
                            /\ core[c].at = "thread" => core'[c] = core[c]
  PROVE CountOK' /\ KeptOK' /\ RefOK' /\ InfoOK' /\ MovingOK'
<1> USE DEF ValueInv, Values, Mine
<1>u. /\ cur' = cur /\ old' = old /\ Pending' = Pending
      /\ \A a : Entered(a)' = Entered(a) /\ Live(a)' = Live(a)
  BY DEF cur, old, Pending, Entered, Live
<1>t. \A s : Target(s)' = Target(s) /\ Entry(s)' = Entry(s) /\ Block(entry[s])' = Block(entry[s])
  BY DEF Target, Entry, Block
<1>l. \A a, s : Link(a, s) => Link(a, s)'
  BY <1>u DEF Link, Block
<1>1. KeptOK'
  <2> SUFFICES ASSUME NEW s \in Pending, Ready(s)
               PROVE /\ Link(Target(s), s)'
                     /\ \A t \in Pending : Ready(t) /\ Target(s) = Target(t) => s = t
                     /\ \A c \in Core : Has(c)' /\ Own(c)' = Target(s)[2] =>
                          Mine(c, s)'
    BY <1>u, <1>t DEF KeptOK
  <2>1. Link(Target(s), s) /\ Target(s)[2] \in Given(cur)
    BY DEF KeptOK, Link
  <2>2. Link(Target(s), s)'
    <3>1. ASSUME NEW a, a = Target(s)
          PROVE Link(a, s)'
      BY <3>1, <2>1, <1>l
    <3> QED
      BY <3>1, <1>t
  <2> QED
    BY <2>1, <2>2 DEF KeptOK
<1>2. RefOK' /\ CountOK'
  <2>1. \A x : (Busy(x) => Busy(x)') /\ (Referred(x)' <=> Referred(x))
    BY <1>u DEF Busy, Referred
  <2> QED
    BY <2>1, <1>u DEF RefOK, CountOK
<1>3. InfoOK'
  BY <1>u, <1>t DEF InfoOK
<1>4. MovingOK'
  <2> SUFFICES ASSUME stage = "compact"
               PROVE MovingOK'
    BY DEF MovingOK
  <2>1. \A c \in Core : core'[c].at = "patch" => core[c].at = "patch" /\ core'[c] = core[c]
    OBVIOUS
  <2>2. ASSUME NEW s \in Pending
        PROVE /\ entry[s][1] = old /\ Entry(s) \in Entered(old)
              /\ tab[old][Entry(s)] = [type |-> CROSS_T, p |-> entry[s][2]]
              /\ Block(entry[s]).val = want[s]
    BY DEF MovingOK
  <2>3. ASSUME NEW s \in Pending, NEW c \in Core, core'[c].at = "patch", core'[c].job.k = Entry(s)
        PROVE mem[cur][core'[c].p].val = want[s]
    BY <2>1, <2>3 DEF MovingOK
  <2>4. \A e \in Live(old) : mem[old][tab[old][e].p].ref = <<old, tab[old][e].p>>
    BY DEF MovingOK
  <2>5. mem' = mem /\ tab' = tab /\ entry' = entry /\ want' = want
    OBVIOUS
  <2> QED
    BY <2>2, <2>3, <2>4, <2>5, <1>u, <1>t DEF MovingOK
<1> QED
  BY <1>1, <1>2, <1>3, <1>4

\* Execute
LEMMA ExecuteValues ==
  ASSUME ValueInv, NEW c \in Core, NEW s \in Stmt, NEW v \in Value, Execute(c, s, v)
  PROVE Values'
<1> USE DEF ValueInv, Values, Mine
<1> DEFINE h == _mem_chunk_head[cur]
           new == [at |-> "tab", job |-> [of |-> "thread", s |-> s, v |-> v], p |-> h]
<1>a. /\ stage = "active" /\ core[c] = Idle /\ core[c].at = "idle"
      /\ \A d \in Core : ~Running(d, s)
      /\ _mem_chunk_head' = [_mem_chunk_head EXCEPT ![cur] = @ + 1]
      /\ core' = [core EXCEPT ![c] = new]
      /\ UNCHANGED <<stage, _mem_cur_ind, _mem_alloc_tab_head, _mem_cross_t_count>>
      /\ UNCHANGED <<tab, mem, entry, want>>
  BY DEF Execute, AllocChunk, ChunkOffset, Idle
<1>b. core'[c] = new /\ \A d \in Core : d # c => core'[d] = core[d]
  BY <1>a DEF MemInv, DataOK
<1>n. core'[c].at = "tab" /\ core'[c].job.s = s /\ core'[c].p = h
  BY <1>b
<1>g. Given(cur) \subseteq Given(cur)' /\ h \notin Given(cur) /\ Pending' = Pending
  <2>1. h \in Nat /\ _mem_chunk_head'[cur] = h + 1 /\ cur' = cur
    BY <1>a, Heads DEF MemInv, DataOK, cur
  <2> QED
    BY <2>1, <1>a DEF Given, Pending
<1> HIDE DEF h, new
<1>1. CountOK' /\ KeptOK' /\ RefOK' /\ InfoOK' /\ MovingOK'
  <2>1. \A t \in Pending : Ready(t)' <=> Ready(t)
    BY <1>a DEF Ready
  <2>2. Own(c)' = h
    BY <1>n DEF Own
  <2>3. \A d \in Core :
          /\ core[d].at \in {"fill", "patch"} =>
               core'[d].at \in {"fill", "patch"} /\ core'[d].p = core[d].p
          /\ core'[d].at = "patch" => core'[d] = core[d]
          /\ Has(d)' => \/ Own(d)' \notin Given(cur)
                        \/ /\ Has(d) /\ Own(d)' = Own(d)
                           /\ core[d].at = "thread" => core'[d] = core[d]
    BY <2>2, <1>a, <1>b, <1>n, <1>g DEF Has, Own
  <2> QED
    BY <2>1, <2>3, <1>a, <1>g, CoreFrame
<1>2. StmtOK'
  <2>1. \A d \in Core, t \in Stmt : Running(d, t)' => Running(d, t) \/ (d = c /\ t = s)
    BY <1>b, <1>n DEF Running
  <2>2. (stage = "active" => \A d, f \in Core, t \in Stmt : Running(d, t) /\ Running(f, t) => d = f)'
    BY <2>1, <1>a DEF StmtOK
  <2>3. (\A r, t \in Pending : entry[r] = entry[t] => r = t)'
    BY <1>a, <1>g DEF StmtOK
  <2> QED
    BY <2>2, <2>3 DEF StmtOK
<1> QED
  BY <1>1, <1>2

\* ThreadReturns
LEMMA ThreadReturnsValues ==
  ASSUME ValueInv, NEW c \in Core, ThreadReturns(c)
  PROVE Values'
<1> USE DEF ValueInv, Values, Mine
<1>a. /\ core[c].at = "thread" /\ stage = "active" /\ core' = [core EXCEPT ![c] = Idle]
      /\ UNCHANGED <<stage, _mem_cur_ind, _mem_alloc_tab_head, _mem_chunk_head, _mem_cross_t_count>>
      /\ UNCHANGED <<tab, mem, entry, want>>
  BY DEF ThreadReturns, heads, MemInv, StageOK
<1>b. /\ core'[c] = Idle /\ core'[c].at = "idle"
      /\ \A d \in Core : d # c => core'[d] = core[d]
  BY <1>a DEF MemInv, DataOK, Idle
<1>g. Given(cur)' = Given(cur) /\ Pending' = Pending
  BY <1>a DEF Given, cur, Pending
<1>1. CountOK' /\ KeptOK' /\ RefOK' /\ InfoOK' /\ MovingOK'
  <2>1. \A t \in Pending : Ready(t)' <=> Ready(t)
    BY <1>a DEF Ready
  <2>3. \A d \in Core :
          /\ core[d].at \in {"fill", "patch"} =>
               core'[d].at \in {"fill", "patch"} /\ core'[d].p = core[d].p
          /\ core'[d].at = "patch" => core'[d] = core[d]
          /\ Has(d)' => \/ Own(d)' \notin Given(cur)
                        \/ /\ Has(d) /\ Own(d)' = Own(d)
                           /\ core[d].at = "thread" => core'[d] = core[d]
    BY <1>a, <1>b DEF Has, Own
  <2> QED
    BY <2>1, <2>3, <1>a, <1>g, CoreFrame
<1>2. StmtOK'
  <2>1. \A d \in Core, t \in Stmt : Running(d, t)' => Running(d, t)
    BY <1>b DEF Running
  <2> QED
    BY <2>1, <1>a, <1>b, <1>g DEF StmtOK
<1> QED
  BY <1>1, <1>2

\* StmtOK is about the active phase.
LEMMA NotActive ==
  ASSUME ValueInv, stage' # "active", UNCHANGED entry
  PROVE StmtOK'
<1>1. Pending' = Pending
  BY DEF Pending
<1> QED
  BY <1>1 DEF ValueInv, Values, StmtOK

\* WalkLive
LEMMA WalkLiveValues ==
  ASSUME ValueInv, NEW c \in Core, WalkLive(c)
  PROVE Values'
<1> USE DEF ValueInv, Values, Mine
<1> DEFINE h == _mem_chunk_head[cur]
           job == [of |-> "kernel", s |-> None, k |-> core[c].k, end |-> core[c].end]
           new == [at |-> "tab", job |-> job, p |-> h]
<1>a. /\ stage = "compact" /\ core[c].at = "walk"
      /\ _mem_chunk_head' = [_mem_chunk_head EXCEPT ![cur] = @ + 1]
      /\ core' = [core EXCEPT ![c] = new]
      /\ UNCHANGED <<stage, _mem_cur_ind, _mem_alloc_tab_head, _mem_cross_t_count>>
      /\ UNCHANGED <<tab, mem, entry, want>>
  BY DEF WalkLive, AllocChunk, ChunkOffset, MemInv, StageOK
<1>b. core'[c] = new /\ \A d \in Core : d # c => core'[d] = core[d]
  BY <1>a DEF MemInv, DataOK
<1>n. core'[c].at = "tab" /\ core'[c].job.k = core[c].k /\ core'[c].p = h
  BY <1>b
<1>g. Given(cur) \subseteq Given(cur)' /\ h \notin Given(cur) /\ Pending' = Pending
  <2>1. h \in Nat /\ _mem_chunk_head'[cur] = h + 1 /\ cur' = cur
    BY <1>a, Heads DEF MemInv, DataOK, cur
  <2> QED
    BY <2>1, <1>a DEF Given, Pending
<1> HIDE DEF h, new, job
<1>1. CountOK' /\ KeptOK' /\ RefOK' /\ InfoOK' /\ MovingOK'
  <2>0. \A d \in Core : From(d)' = From(d) /\ Past(d)' = Past(d)
    BY <1>a, <1>b, <1>n DEF From, To, Past, n0, old, cur
  <2>1. \A t \in Pending : Ready(t)' <=> Ready(t)
    BY <2>0, <1>a DEF Ready, Done, Entry, Block
  <2>2. Own(c)' = h
    BY <1>n DEF Own
  <2>3. \A d \in Core :
          /\ core[d].at \in {"fill", "patch"} =>
               core'[d].at \in {"fill", "patch"} /\ core'[d].p = core[d].p
          /\ core'[d].at = "patch" => core'[d] = core[d]
          /\ Has(d)' => \/ Own(d)' \notin Given(cur)
                        \/ /\ Has(d) /\ Own(d)' = Own(d)
                           /\ core[d].at = "thread" => core'[d] = core[d]
    BY <2>2, <1>a, <1>b, <1>n, <1>g DEF Has, Own
  <2> QED
    BY <2>1, <2>3, <1>a, <1>g, CoreFrame
<1>2. StmtOK'
  BY <1>a, NotActive
<1> QED
  BY <1>1, <1>2

\* WalkFree and WalkDone: no pending assignment's entry is passed over.
LEMMA WalkOnValues ==
  ASSUME ValueInv, NEW c \in Core, WalkFree(c) \/ WalkDone(c)
  PROVE Values'
<1> USE DEF ValueInv, Values, Mine
<1>a. /\ stage = "compact" /\ core[c].at = "walk"
      /\ UNCHANGED <<stage, _mem_cur_ind, _mem_alloc_tab_head, _mem_chunk_head, _mem_cross_t_count>>
      /\ UNCHANGED <<tab, mem, entry, want>>
  BY DEF WalkFree, WalkDone, heads, MemInv, StageOK
<1>w. core[c] \in [at : {"walk"}, k : Nat, end : Nat] /\ core[c].end = To(c)
  BY <1>a, Shapes DEF MemInv, WalkOK
<1>g. /\ Given(cur)' = Given(cur) /\ Pending' = Pending
      /\ \A d \in Core : From(d)' = From(d) /\ To(d)' = To(d)
      /\ \A t : Entry(t)' = Entry(t)
  BY <1>a DEF Given, cur, Pending, From, To, n0, old, Entry, Block
<1>b. /\ core'[c].at \in {"walk", "idle"}
      /\ \A d \in Core : d # c => core'[d] = core[d]
      /\ \/ core'[c].at = "walk" /\ core'[c].k = core[c].k + 1 /\ tab[old][core[c].k].type # CROSS_T
         \/ core'[c].at = "idle" /\ core[c].k = core[c].end
  <2>1. CASE WalkFree(c)
    BY <2>1, <1>w DEF WalkFree, MemInv, DataOK
  <2>2. CASE WalkDone(c)
    BY <2>2 DEF WalkDone, MemInv, DataOK, Idle
  <2> QED
    BY <2>1, <2>2
<1>1. CountOK' /\ KeptOK' /\ RefOK' /\ InfoOK' /\ MovingOK'
  <2>0. /\ \A d \in Core : d # c => Past(d)' = Past(d)
        /\ Past(c) = core[c].k
        /\ \/ Past(c)' = core[c].k + 1 /\ tab[old][core[c].k].type # CROSS_T
           \/ Past(c)' = core[c].k
    BY <1>a, <1>b, <1>g, <1>w DEF Past
  <2>1. ASSUME NEW t \in Pending
        PROVE Ready(t)' <=> Ready(t)
    <3>0. tab[old][Entry(t)] = [type |-> CROSS_T, p |-> entry[t][2]]
      BY <1>a DEF MovingOK
    <3>1. Entry(t) # core[c].k \/ tab[old][core[c].k].type = CROSS_T
      BY <3>0
    <3>2. Entry(t) \in Nat /\ core[c].k \in Nat
      BY <1>a, <1>w, Heads DEF MovingOK, MemInv
    <3>3. \A d \in Core : Entry(t) < Past(d)' <=> Entry(t) < Past(d)
      BY <2>0, <3>1, <3>2
    <3>4. Done(t)' <=> Done(t)
      BY <3>3, <1>g DEF Done
    <3> QED
      BY <3>4, <1>a DEF Ready
  <2>3. \A d \in Core :
          /\ core[d].at \in {"fill", "patch"} =>
               core'[d].at \in {"fill", "patch"} /\ core'[d].p = core[d].p
          /\ core'[d].at = "patch" => core'[d] = core[d]
          /\ Has(d)' => \/ Own(d)' \notin Given(cur)
                        \/ /\ Has(d) /\ Own(d)' = Own(d)
                           /\ core[d].at = "thread" => core'[d] = core[d]
    BY <1>a, <1>b DEF Has, Own
  <2> QED
    BY <2>1, <2>3, <1>a, <1>g, CoreFrame
<1>2. StmtOK'
  BY <1>a, NotActive
<1> QED
  BY <1>1, <1>2

\* EndActive and KeepArena
LEMMA StageMoveValues ==
  ASSUME ValueInv, EndActive \/ KeepArena
  PROVE Values'
<1> USE DEF ValueInv, Values, Mine
<1>a. /\ stage # "compact" /\ stage' # "compact"
      /\ UNCHANGED <<_mem_cur_ind, _mem_alloc_tab_head, _mem_chunk_head, _mem_cross_t_count>>
      /\ UNCHANGED <<tab, mem, core, entry, want>>
  BY DEF EndActive, KeepArena, heads
<1>i. \A c \in Core : core[c].at = "idle"
  BY DEF EndActive, KeepArena, MemInv, StageOK, AllIdle, Idle
<1>u. /\ cur' = cur /\ Pending' = Pending
      /\ \A a : Live(a)' = Live(a) /\ Given(a)' = Given(a)
      /\ \A s : Target(s)' = Target(s) /\ Block(entry[s])' = Block(entry[s])
      /\ \A s : Ready(s) /\ Ready(s)'
  BY <1>a DEF cur, Pending, Live, Given, Target, Block, Ready
<1>1. StmtOK'
  <2>1. \A d \in Core, t \in Stmt : ~Running(d, t)'
    BY <1>a, <1>i DEF Running
  <2> QED
    BY <2>1, <1>a, <1>i, <1>u DEF StmtOK
<1>2. KeptOK'
  BY <1>a, <1>u DEF KeptOK, Link, Block, Has, Own
<1>3. RefOK' /\ CountOK'
  BY <1>a, <1>u DEF RefOK, Busy, Referred, CountOK
<1>4. InfoOK' /\ MovingOK'
  BY <1>a, <1>u DEF InfoOK, MovingOK
<1> QED
  BY <1>1, <1>2, <1>3, <1>4

\* AllocTab: a new live entry, the core's.
LEMMA AllocTabValues ==
  ASSUME ValueInv, NEW c \in Core, AllocTab(c)
  PROVE Values'
<1> USE DEF ValueInv, Values, Mine
<1> DEFINE t == _mem_alloc_tab_head[cur]
           p == core[c].p
<1>a. /\ core[c].at = "tab"
      /\ _mem_alloc_tab_head' = [_mem_alloc_tab_head EXCEPT ![cur] = @ + 1]
      /\ _mem_cross_t_count' = _mem_cross_t_count + 1
      /\ tab' = [tab EXCEPT ![cur][t] = [type |-> CROSS_T, p |-> p]]
      /\ mem' = [mem EXCEPT ![cur][p].tab = t, ![cur][p].ref = None]
      /\ core' = [core EXCEPT ![c].at = "fill"]
      /\ UNCHANGED <<stage, _mem_cur_ind, _mem_chunk_head, entry, want>>
  BY AllocTabIs
<1>w. UNCHANGED <<stage, entry, want>>
  BY <1>a
<1>p. /\ p \in Index
      /\ core[c] \in [at : {"tab", "fill"}, job : UserJob \cup KernelJob, p : Index]
  BY <1>a, Shapes DEF MemInv
<1>b. /\ core'[c] = [core[c] EXCEPT !.at = "fill"]
      /\ core'[c].at = "fill" /\ core'[c].job = core[c].job /\ core'[c].p = p
      /\ \A d \in Core : d # c => core'[d] = core[d]
  BY <1>a, <1>p DEF MemInv, DataOK
<1>u. /\ cur' = cur /\ old' = old /\ cur \in Arena /\ old \in Arena /\ cur # old
      /\ \A a : Given(a)' = Given(a)
      /\ Pending' = Pending /\ n0' = n0 /\ Entered(old)' = Entered(old)
      /\ Entered(cur) \subseteq Index /\ Given(cur) \subseteq Index /\ t \in Nat
      /\ Entered(old) \subseteq Index
  <2>1. cur' = cur /\ old' = old
    BY <1>a DEF cur, old
  <2>2. /\ cur \in Arena /\ old \in Arena /\ cur # old /\ t \in Nat
        /\ Entered(cur) \subseteq Index /\ Given(cur) \subseteq Index /\ Entered(old) \subseteq Index
    BY Heads DEF MemInv
  <2>3. \A a : Given(a)' = Given(a)
    BY <1>a DEF Given
  <2>4. Pending' = Pending
    BY <1>a DEF Pending
  <2>5. n0' = n0 /\ Entered(old)' = Entered(old)
    BY <1>a, <2>1, <2>2 DEF n0, Entered, MemInv, DataOK
  <2> QED
    BY <2>1, <2>2, <2>3, <2>4, <2>5
<1>T. /\ \A x \in Index : x # t => tab'[cur][x] = tab[cur][x]
      /\ tab'[old] = tab[old]
      /\ t \in Index => tab'[cur][t] = [type |-> CROSS_T, p |-> p]
  BY <1>a, <1>u DEF MemInv, DataOK
<1>e. /\ Entered(cur)' = Entered(cur) \cup {t} /\ t \notin Entered(cur)
      /\ Live(old)' = Live(old) /\ t \in Index
  <2>1. _mem_alloc_tab_head'[cur] = t + 1 /\ _mem_alloc_tab_head'[old] = _mem_alloc_tab_head[old]
    BY <1>a, <1>u DEF MemInv, DataOK
  <2>2. Live(old)' = Live(old)
    BY <2>1, <1>T, <1>u DEF Live
  <2>3. /\ Entered(cur)' = Entered(cur) \cup {t} /\ t \notin Entered(cur)
    BY <2>1, <1>u DEF Entered
  <2>4. t \in Index
    <3>1. c \in Allocating
      BY <1>a DEF Allocating
    <3>2. Cardinality(Allocating) # 0 /\ Cardinality(Allocating) \in Nat
      BY <3>1, CoreFinite, FS_EmptySet, FS_CardinalityType
    <3>3. _mem_chunk_head[cur] = t + Cardinality(Allocating) /\ _mem_chunk_head[cur] <= Cap
      BY <1>u, Heads DEF MemInv, HeadOK
    <3> HIDE DEF t
    <3> QED
      BY <3>2, <3>3, <1>u, MemAssumption DEF Index
  <2> QED
    BY <2>2, <2>3, <2>4
<1>M. /\ \A x \in Index : x # p => mem'[cur][x] = mem[cur][x]
      /\ mem'[old] = mem[old] /\ mem'[cur][p].val = mem[cur][p].val
  BY <1>a, <1>u, <1>p DEF MemInv, DataOK
<1>m. \A a \in Addr : a # <<cur, p>> => mem'[a[1]][a[2]] = mem[a[1]][a[2]]
  <2>1. \A x \in Arena, y \in Index : x # cur \/ y # p => mem'[x][y] = mem[x][y]
    BY <1>M, <1>u DEF Arena
  <2> QED
    BY <2>1 DEF Addr
<1> HIDE DEF t, p
<1>k. \A s \in Pending : /\ entry[s] # <<cur, p>> /\ entry[s] \in Addr /\ Target(s) \in Addr
                         /\ Ready(s) => Target(s) # <<cur, p>>
  BY <1>a, Elsewhere, PendingIs DEF p
<1>n. \A s \in Pending : Block(entry[s])' = Block(entry[s])
  BY <1>k, <1>m, <1>a DEF Block
<1>h. \A s \in Pending : Target(s)' = Target(s) /\ Entry(s)' = Entry(s)
  BY <1>n DEF Target, Entry
<1>r. \A s \in Pending : Ready(s)' <=> Ready(s)
  <2>1. \A d \in Core : From(d)' = From(d) /\ To(d)' = To(d)
    BY <1>u DEF From, To
  <2>2. \A d \in Core : Past(d)' = Past(d)
    BY <2>1, <1>a, <1>b DEF Past
  <2> QED
    BY <2>1, <2>2, <1>a, <1>h DEF Ready, Done
<1>o. \A d \in Core : (Has(d)' <=> Has(d)) /\ Own(d)' = Own(d)
  BY <1>a, <1>b DEF Has, Own, p
<1>1. KeptOK'
  <2> SUFFICES ASSUME NEW s \in Pending, Ready(s), NEW a, a = Target(s)
               PROVE /\ Link(a, s)'
                     /\ \A r \in Pending : Ready(r) /\ a = Target(r) => s = r
                     /\ \A d \in Core : Has(d) /\ Own(d) = a[2] =>
                          Mine(d, s)'
    BY <1>u, <1>h, <1>r, <1>o DEF KeptOK
  <2>1. /\ Link(a, s)
        /\ \A r \in Pending : Ready(r) /\ a = Target(r) => s = r
        /\ \A d \in Core : Has(d) /\ Own(d) = a[2] => Mine(d, s)
    BY DEF KeptOK
  <2>2. mem'[a[1]][a[2]] = mem[a[1]][a[2]] /\ a \in Addr
    BY <1>k, <1>m
  <2>3. /\ a[1] = cur /\ a[2] \in Given(cur)
        /\ tab[cur][mem[cur][a[2]].tab] = [type |-> CROSS_T, p |-> a[2]]
        /\ mem[cur][a[2]].val = want[s] /\ mem[cur][a[2]].tab \in Entered(cur)
        /\ mem[cur][a[2]].ref = entry[s]
    <3>1. /\ a[1] = cur /\ a[2] \in Given(cur)
          /\ tab[cur][mem[cur][a[2]].tab] = [type |-> CROSS_T, p |-> a[2]]
          /\ mem[cur][a[2]].val = want[s] /\ mem[cur][a[2]].ref = entry[s]
      BY <2>1 DEF Link, Block
    <3>2. \A d \in Core : core[d].at = "tab" => core[d].p # a[2]
      BY <2>1 DEF Has, Own
    <3> QED
      BY <3>1, <3>2, SMTT(30) DEF MemInv, BackOK
  <2>4. Link(a, s)'
    <3>1. tab'[cur][mem[cur][a[2]].tab] = tab[cur][mem[cur][a[2]].tab]
      BY <2>3, <1>T, <1>e, <1>u
    <3> QED
      BY <2>2, <2>3, <3>1, <1>a, <1>u DEF Link, Block
  <2>5. \A d \in Core : Has(d) /\ Own(d) = a[2] => Mine(d, s)'
    BY <2>1, <1>a, <1>b
  <2> QED
    BY <2>1, <2>4, <2>5
<1>2. RefOK' /\ CountOK'
  <2>0. Live(cur)' = Live(cur) \cup {t} /\ t \notin Live(cur)
    <3>1. t < Cap /\ tab'[cur][t].type = CROSS_T
      BY <1>T, <1>e, MemAssumption DEF Index
    <3> QED
      BY <3>1, <1>e, <1>T, <1>u DEF Live, Entered
  <2>1. Cardinality(Live(cur)') = Cardinality(Live(cur)) + 1
    BY <2>0, LiveFinite, <1>u, FS_AddElement DEF MemInv
  <2>2. ASSUME NEW e \in Live(cur)'
        PROVE Busy(tab[cur][e].p)' \/ Referred(tab[cur][e].p)'
    <3>1. CASE e = t
      <4>1. tab'[cur][e].p = p
        BY <3>1, <1>T, <1>e
      <4> QED
        BY <4>1, <1>b, <1>u DEF Busy
    <3>2. CASE e # t
      <4>1. e \in Live(cur) /\ e \in Entered(cur)
        BY <2>0, <3>2 DEF Live, Entered
      <4>2. tab'[cur][e] = tab[cur][e]
        BY <4>1, <3>2, <1>T, <1>u
      <4>3. tab[cur][e].p # p /\ tab[cur][e].p \in Index
        BY <4>1, <1>a, <1>u DEF MemInv, EntryOK, p
      <4>4. ASSUME NEW x, x = tab[cur][e].p
            PROVE Busy(x)' \/ Referred(x)'
        <5>1. mem'[cur][x] = mem[cur][x]
          BY <4>3, <4>4, <1>M
        <5>2. Busy(x) => Busy(x)'
          BY <1>a, <1>b DEF Busy
        <5>3. Referred(x) => Referred(x)'
          BY <5>1, <1>w, <1>u DEF Referred
        <5> QED
          BY <4>1, <4>4, <5>2, <5>3 DEF RefOK
      <4> QED
        BY <4>2, <4>4, <1>u
    <3> QED
      BY <3>1, <3>2
  <2>3. CountOK'
    BY <2>1, <1>a, <1>u DEF CountOK
  <2> QED
    BY <2>2, <2>3, <1>u DEF RefOK
<1>3. InfoOK'
  BY <1>a, <1>u, <1>n, <1>h DEF InfoOK
<1>4. MovingOK'
  <2>1. \A d \in Core : core'[d].at = "patch" =>
          /\ core'[d] = core[d] /\ core[d].at = "patch"
          /\ mem'[cur][core[d].p] = mem[cur][core[d].p]
    <3>1. \A d \in Core : core[d].at = "patch" => core[d].p # p /\ core[d].p \in Index
      BY <1>a, Parts DEF MemInv, OwnOK, Has, Own, p
    <3> QED
      BY <3>1, <1>b, <1>M, ZenonT(30)
  <2> SUFFICES ASSUME stage = "compact"
               PROVE MovingOK'
    BY <1>a DEF MovingOK
  <2>2. (\A s \in Pending :
          /\ entry[s][1] = old /\ Entry(s) \in Entered(old)
          /\ tab[old][Entry(s)] = [type |-> CROSS_T, p |-> entry[s][2]]
          /\ Block(entry[s]).val = want[s])'
    BY <1>a, <1>u, <1>T, <1>h, <1>n DEF MovingOK
  <2>3. (\A s \in Pending : \A d \in Core : core[d].at = "patch" /\ core[d].job.k = Entry(s) =>
               mem[cur][core[d].p].val = want[s])'
    <3> SUFFICES ASSUME NEW s \in Pending, NEW d \in Core,
                        core'[d].at = "patch", core'[d].job.k = Entry(s)
                 PROVE mem'[cur][core'[d].p].val = want[s]
      BY <1>w, <1>u, <1>h
    <3>1. core[d].at = "patch" /\ core[d].job.k = Entry(s)
      BY <2>1
    <3>2. mem[cur][core[d].p].val = want[s]
      BY <3>1 DEF MovingOK
    <3> QED
      BY <2>1, <3>2
  <2>4. (\A e \in Live(old) : mem[old][tab[old][e].p].ref = <<old, tab[old][e].p>>)'
    BY <1>e, <1>u, <1>T, <1>M DEF MovingOK
  <2> QED
    BY <2>2, <2>3, <2>4 DEF MovingOK
<1>5. StmtOK'
  <2>1. \A d \in Core, s \in Stmt : Running(d, s)' => Running(d, s)
    BY <1>a, <1>b DEF Running
  <2> QED
    BY <2>1, <1>a, <1>b, <1>u DEF StmtOK
<1> QED
  BY <1>1, <1>2, <1>3, <1>4, <1>5

\* The block of a ready assignment and its table entry name each other.
LEMMA TargetEntry ==
  ASSUME ValueInv, NEW s \in Pending, Ready(s), NEW a, a = Target(s)
  PROVE /\ a \in Addr /\ a[1] = cur /\ a[2] \in Given(cur) /\ a = <<cur, a[2]>>
        /\ mem[cur][a[2]].tab \in Entered(cur)
        /\ tab[cur][mem[cur][a[2]].tab] = [type |-> CROSS_T, p |-> a[2]]
        /\ mem[cur][a[2]].val = want[s] /\ mem[cur][a[2]].ref = entry[s]
        /\ \A d \in Core : Has(d) /\ Own(d) = a[2] => Mine(d, s)
<1>1. /\ Link(a, s)
      /\ \A d \in Core : Has(d) /\ Own(d) = a[2] => Mine(d, s)
  BY DEF ValueInv, Values, KeptOK
<1>2. /\ a \in Addr /\ a[1] = cur /\ a[2] \in Given(cur)
      /\ tab[cur][mem[cur][a[2]].tab] = [type |-> CROSS_T, p |-> a[2]]
      /\ mem[cur][a[2]].val = want[s] /\ mem[cur][a[2]].ref = entry[s]
  BY <1>1 DEF Link, Block
<1>3. \A d \in Core : core[d].at = "tab" => core[d].p # a[2]
  BY <1>1 DEF Has, Own, Mine
<1>4. mem[cur][a[2]].tab \in Entered(cur)
  BY <1>2, <1>3, SMTT(30) DEF ValueInv, Values, MemInv, BackOK
<1> QED
  BY <1>1, <1>2, <1>4, AddrParts

\* pint_mem_free of a block that is live: one live entry less.
LEMMA FreedLive ==
  ASSUME MemInv, CountOK, NEW a \in Addr, Freed(a), a[1] = cur, a[2] \in Given(cur),
         Block(a).tab \in Entered(cur), tab[cur][Block(a).tab].type = CROSS_T,
         UNCHANGED <<_mem_cur_ind, _mem_alloc_tab_head>>
  PROVE Live(cur)' = Live(cur) \ {Block(a).tab} /\ CountOK'
<1> DEFINE t == Block(a).tab
<1>u. cur \in Arena /\ cur' = cur /\ Entered(cur) \subseteq Index
  BY Heads DEF MemInv, cur
<1>1. InCurrent(a)
  <2>1. a[2] \in Nat /\ a[2] < _mem_chunk_head[cur] /\ _mem_chunk_head[cur] \in Nat /\ cur \in Int
    BY <1>u, Heads DEF MemInv, Given, Arena
  <2>2. Cap * (a[1] - cur) + a[2] = a[2]
    BY <2>1, MemAssumption
  <2>3. a # None
    BY SMTT(30) DEF Addr, None
  <2> QED
    BY <2>1, <2>2, <2>3 DEF InCurrent
<1>2. /\ _mem_cross_t_count' = _mem_cross_t_count - 1
      /\ tab' = [tab EXCEPT ![cur][t].type = Free]
      /\ t \in Entered(cur) /\ tab[cur][t].type = CROSS_T
  BY <1>1 DEF Freed
<1> HIDE DEF t
<1>3. /\ tab'[cur][t].type = Free
      /\ \A x \in Index : x # t => tab'[cur][x] = tab[cur][x]
  BY <1>2, <1>u DEF MemInv, DataOK, TabEntry
<1>4. Live(cur)' = Live(cur) \ {t} /\ t \in Live(cur)
  <2>1. t < Cap
    BY <1>2, <1>u, MemAssumption DEF Index
  <2> QED
    BY <2>1, <1>2, <1>3, <1>u DEF Live, Entered, Free, CROSS_T
<1>5. Cardinality(Live(cur)') = Cardinality(Live(cur)) - 1
  BY <1>4, LiveFinite, <1>u, FS_RemoveElement, ZenonT(60) DEF MemInv
<1> QED
  BY <1>2, <1>4, <1>5, <1>u DEF CountOK, t

\* pint_enqueue_nb_future
LEMMA EnqueueValues ==
  ASSUME ValueInv, NEW c \in Core, NEW delay \in {0, 1}, pint_enqueue_nb_future(c, delay)
  PROVE Values'
<1> USE DEF ValueInv, Values, Mine
<1> SUFFICES ASSUME NEW s, s = core[c].job.s, NEW p, p = core[c].p,
                    NEW a, a = <<cur, p>>, NEW v, v = core[c].job.v
             PROVE Values'
  OBVIOUS
<1> DEFINE new == [at |-> "thread", s |-> s, blk |-> a]
           b == [tab |-> mem[cur][p].tab, val |-> v, src |-> a,
                 ref |-> IF delay > 0 THEN a ELSE mem[cur][p].ref]
<1>s. core[c].at = "fill" /\ stage = "active" /\ stage' = "active"
  BY DEF pint_enqueue_nb_future, MemInv, StageOK
<1>p. p \in Index /\ s \in Stmt
  <2>1. p \in Index /\ core[c].job \in UserJob
    BY <1>s, Parts DEF MemInv
  <2> QED
    BY <2>1 DEF UserJob
<1>u. /\ cur' = cur /\ cur \in Arena
      /\ \A x : Given(x)' = Given(x)
      /\ a \in Addr /\ a[1] = cur /\ a[2] = p
      /\ Entered(cur) \subseteq Index /\ Given(cur) \subseteq Index
  BY Heads, <1>p DEF pint_enqueue_nb_future, heads, cur, Given, Addr, MemInv
<1>a. /\ core' = [core EXCEPT ![c] = new]
      /\ mem' = [mem EXCEPT ![cur][p] = b]
      /\ UNCHANGED <<_mem_cur_ind, _mem_alloc_tab_head>>
  BY DEF pint_enqueue_nb_future, heads
<1>d. \/ /\ delay > 0
         /\ entry' = [entry EXCEPT ![s] = a] /\ want' = [want EXCEPT ![s] = v]
         /\ UNCHANGED <<tab, _mem_cross_t_count>>
      \/ ~(delay > 0) /\ Freed(a) /\ UNCHANGED <<entry, want>>
  BY DEF pint_enqueue_nb_future
<1>b. /\ core'[c] = new
      /\ core'[c].at = "thread" /\ core'[c].blk = a /\ core'[c].s = s
      /\ \A d \in Core : d # c => core'[d] = core[d]
  BY <1>a DEF MemInv, DataOK
<1>o. /\ p \in Given(cur)
      /\ \A d \in Core : d # c /\ core[d].at \in {"tab", "fill", "patch"} => core[d].p # p
      /\ \A d \in Core : Has(d) /\ Own(d) = p => d = c
  BY <1>s DEF MemInv, OwnOK, Has, Own
<1>k. /\ mem[cur][p].tab \in Entered(cur) /\ tab[cur][mem[cur][p].tab].p = p
      /\ tab[cur][mem[cur][p].tab].type = CROSS_T
  BY <1>s, <1>o, SMTT(30) DEF MemInv, BackOK
<1>T. /\ \A x \in Index : tab'[cur][x] = tab[cur][x] \/ (~(delay > 0) /\ x = mem[cur][p].tab)
      /\ Live(cur)' = IF delay > 0 THEN Live(cur) ELSE Live(cur) \ {mem[cur][p].tab}
      /\ \A x \in Index : tab'[cur][x].p = tab[cur][x].p
      /\ CountOK'
  <2>1. CASE delay > 0
    <3>1. Live(cur)' = Live(cur)
      BY <2>1, <1>a, <1>d, <1>u DEF Live
    <3> QED
      BY <2>1, <1>d, <1>u, <3>1 DEF CountOK
  <2>2. CASE ~(delay > 0)
    <3>1. Block(a).tab = mem[cur][p].tab
      BY <1>u DEF Block
    <3>2. tab \in [Arena -> [Index -> TabEntry]] /\ mem \in [Arena -> [Index -> BlockAt]]
      BY DEF MemInv, DataOK
    <3>3. Freed(a) /\ a[1] = cur /\ a[2] \in Given(cur) /\ Block(a).tab \in Entered(cur)
          /\ tab[cur][Block(a).tab].type = CROSS_T
      BY <2>2, <3>1, <1>d, <1>k, <1>o, <1>u
    <3>4. Live(cur)' = Live(cur) \ {Block(a).tab} /\ CountOK'
      BY <3>3, <1>a, <1>u, FreedLive
    <3>5. /\ \A x \in Index : tab'[cur][x].p = tab[cur][x].p
          /\ \A x \in Index : tab'[cur][x] = tab[cur][x] \/ x = Block(a).tab
      BY <3>2, <3>3, <1>u, FreedIs
    <3> QED
      BY <2>2, <3>1, <3>4, <3>5
  <2> QED
    BY <2>1, <2>2
<1>M. /\ mem'[cur][p] = b
      /\ \A x \in Addr : x # a => mem'[x[1]][x[2]] = mem[x[1]][x[2]]
  <2>1. /\ mem'[cur][p] = b
        /\ \A x \in Arena, y \in Index : x # cur \/ y # p => mem'[x][y] = mem[x][y]
    <3> HIDE DEF b
    <3> QED
      BY <1>a, <1>p, <1>u DEF MemInv, DataOK
  <2> QED
    BY <2>1 DEF Addr
<1>B. b.tab = mem[cur][p].tab /\ b.val = v /\ b.src = a /\ (delay > 0 => b.ref = a)
  OBVIOUS
<1> HIDE DEF b, new
<1>q. \A t \in Pending : /\ entry[t] # a /\ entry[t] \in Addr /\ Target(t) \in Addr
                         /\ Target(t) # a /\ t \in Stmt
  BY <1>s, <1>p, Elsewhere, PendingIs DEF Ready
<1> DEFINE Other == IF delay > 0 THEN Pending \ {s} ELSE Pending
<1>P. /\ \A t \in Other : t \in Pending /\ t \in Pending' /\ entry'[t] = entry[t] /\ want'[t] = want[t]
      /\ \A t \in Pending' : t \in Other \/ (t = s /\ delay > 0)
      /\ delay > 0 => entry'[s] = a /\ want'[s] = v /\ s \in Pending'
  <2>1. CASE delay > 0
    <3>1. /\ entry'[s] = a /\ want'[s] = v
          /\ \A t \in Stmt : t # s => entry'[t] = entry[t] /\ want'[t] = want[t]
      BY <2>1, <1>d, <1>p DEF MemInv, DataOK
    <3>2. a # None
      BY <1>u DEF Addr, None
    <3> QED
      BY <2>1, <3>1, <3>2, <1>p, <1>q DEF Pending
  <2>2. CASE ~(delay > 0)
    BY <2>2, <1>d DEF Pending
  <2> QED
    BY <2>1, <2>2
<1> HIDE DEF Other
<1>t. \A t \in Other : Block(entry[t])' = Block(entry[t]) /\ Target(t)' = Target(t)
  <2>1. \A t \in Other : Block(entry[t])' = Block(entry[t])
    BY <1>P, <1>q, <1>M DEF Block
  <2> QED
    BY <2>1 DEF Target
<1>n. delay > 0 => Target(s)' = a
  BY <1>P, <1>M, <1>B, <1>u, Zenon DEF Target, Block
<1>r. \A t : Ready(t) /\ Ready(t)'
  BY <1>s DEF Ready
<1>o2. \A d \in Core : (Has(d)' <=> Has(d)) /\ Own(d)' = Own(d)
  BY <1>s, <1>b, <1>u DEF Has, Own
<1>l. \A t \in Other : Link(Target(t), t)'
  <2> SUFFICES ASSUME NEW t \in Other, NEW x, x = Target(t)
               PROVE Link(x, t)'
    BY <1>t
  <2>1. /\ x \in Addr /\ x[1] = cur /\ x[2] \in Given(cur) /\ x = <<cur, x[2]>>
        /\ mem[cur][x[2]].tab \in Entered(cur)
        /\ tab[cur][mem[cur][x[2]].tab] = [type |-> CROSS_T, p |-> x[2]]
        /\ mem[cur][x[2]].val = want[t] /\ mem[cur][x[2]].ref = entry[t]
    BY <1>r, <1>P, TargetEntry
  <2>2. x[2] # p /\ mem[cur][x[2]].tab \in Index
    BY <2>1, <1>P, <1>q, <1>u
  <2>3. mem[cur][x[2]].tab # mem[cur][p].tab
    BY <2>1, <2>2, <1>k
  <2>4. mem'[cur][x[2]] = mem[cur][x[2]]
    BY <2>1, <1>P, <1>M, <1>q
  <2>5. tab'[cur][mem[cur][x[2]].tab] = tab[cur][mem[cur][x[2]].tab]
    BY <2>2, <2>3, <1>T
  <2> QED
    BY <2>1, <2>4, <2>5, <1>P, <1>u DEF Link, Block
<1>1. KeptOK'
  <2>1. ASSUME NEW t \in Other
        PROVE \A d \in Core : Has(d)' /\ Own(d)' = Target(t)[2] =>
                 Mine(d, t)'
    <3>1. Own(c) # Target(t)[2] /\ \A d \in Core : Has(d) /\ Own(d) = Target(t)[2] =>
             Mine(d, t)
      <4>1. \A d \in Core : Has(d) /\ Own(d) = Target(t)[2] => Mine(d, t)
        BY <1>r, <1>P DEF KeptOK
      <4> QED
        BY <4>1, <1>s DEF Has
    <3> QED
      BY <3>1, <1>o2, <1>b, <1>P
  <2>2. ASSUME delay > 0
        PROVE Link(a, s)'
    <3>1. tab'[cur][mem[cur][p].tab] = [type |-> CROSS_T, p |-> p]
      <4>1. mem[cur][p].tab \in Index
        BY <1>k, <1>u
      <4>2. tab[cur][mem[cur][p].tab] \in TabEntry
        BY <4>1, <1>u DEF MemInv, DataOK
      <4>3. tab[cur][mem[cur][p].tab] = [type |-> CROSS_T, p |-> p]
        BY <4>2, <1>k, SMTT(30) DEF TabEntry
      <4> QED
        BY <4>1, <4>3, <2>2, <1>T
    <3> QED
      BY <2>2, <3>1, <1>u, <1>o, <1>M, <1>B, <1>P, SMTT(30) DEF Link, Block
  <2>3. ASSUME delay > 0
        PROVE \A d \in Core : Has(d)' /\ Own(d)' = a[2] => Mine(d, s)'
    BY <2>3, <1>o, <1>o2, <1>b, <1>u, <1>P
  <2>4. \A t, r \in Other : Target(t) = Target(r) => t = r
    BY <1>r, <1>P DEF KeptOK
  <2> SUFFICES ASSUME NEW t \in Pending'
               PROVE /\ Link(Target(t), t)'
                     /\ \A r \in Pending' : Target(t)' = Target(r)' => t = r
                     /\ \A d \in Core : Has(d)' /\ Own(d)' = Target(t)'[2] =>
                          Mine(d, t)'
    BY DEF KeptOK
  <2>5. CASE t \in Other
    <3>1. \A r \in Pending' : Target(t)' = Target(r)' => t = r
      BY <2>4, <2>5, <1>P, <1>t, <1>n, <1>q
    <3> QED
      BY <3>1, <2>1, <2>5, <1>l, <1>t
  <2>6. CASE t = s /\ delay > 0
    <3>1. \A r \in Pending' : Target(t)' = Target(r)' => t = r
      BY <2>6, <1>P, <1>t, <1>n, <1>q
    <3>2. Link(Target(t), t)'
      BY <2>2, <2>6, <1>n
    <3> QED
      BY <3>1, <3>2, <2>3, <2>6, <1>n
  <2> QED
    BY <2>5, <2>6, <1>P
<1>2. RefOK'
  <2> SUFFICES ASSUME NEW e \in Live(cur)', NEW x, x = tab'[cur][e].p
               PROVE Busy(x)' \/ Referred(x)'
    BY <1>u DEF RefOK
  <2>1. e \in Live(cur) /\ e \in Entered(cur) /\ tab[cur][e].p = x /\ x \in Index
    <3>1. e \in Live(cur)
      BY <1>T
    <3>2. e \in Entered(cur)
      BY <3>1 DEF Live, Entered
    <3> QED
      BY <3>1, <3>2, <1>T, <1>u DEF MemInv, EntryOK
  <2>2. CASE x = p
    <3>1. delay > 0
      <4>1. SUFFICES ASSUME ~(delay > 0) PROVE FALSE
        OBVIOUS
      <4>2. e # mem[cur][p].tab
        BY <4>1, <1>T
      <4> QED
        BY <2>1, <2>2, <4>2, <1>k DEF MemInv, EntryOK
    <3>2. mem'[cur][x].ref = <<cur, x>>
      BY <2>2, <3>1, <1>M, <1>B
    <3> QED
      BY <2>2, <3>2, <1>u, <1>s DEF Referred
  <2>3. CASE x # p
    <3>1. mem'[cur][x] = mem[cur][x]
      <4>1. <<cur, x>> \in Addr /\ <<cur, x>> # a
        BY <2>1, <2>3, <1>u DEF Addr
      <4> QED
        BY <4>1, <1>M
    <3>2. Referred(x) => Referred(x)'
      BY <3>1, <1>s, <1>u DEF Referred
    <3>3. Busy(x) => Busy(x)'
      BY <2>3, <1>b DEF Busy
    <3> QED
      BY <2>1, <3>2, <3>3 DEF RefOK
  <2> QED
    BY <2>2, <2>3
<1>3. InfoOK'
  <2> SUFFICES ASSUME NEW t \in Pending', entry'[t][1] = cur
               PROVE Target(t)' = entry'[t]
    BY <1>u DEF InfoOK
  <2>1. CASE t \in Other
    BY <2>1, <1>s, <1>P, <1>t DEF InfoOK
  <2>2. CASE t = s /\ delay > 0
    BY <2>2, <1>n, <1>P
  <2> QED
    BY <2>1, <2>2, <1>P
<1>4. MovingOK'
  BY <1>s DEF MovingOK
<1>5. StmtOK'
  <2>1. \A d \in Core, t \in Stmt : Running(d, t)' => Running(d, t)
    BY <1>s, <1>b DEF Running
  <2>2. (stage = "active" => \A d, f \in Core, t \in Stmt : Running(d, t) /\ Running(f, t) => d = f)'
    BY <2>1, <1>s DEF StmtOK
  <2>5. (\A r, t \in Pending : entry[r] = entry[t] => r = t)'
    BY <1>P, <1>q DEF StmtOK
  <2> QED
    BY <2>2, <2>5 DEF StmtOK
<1> QED
  BY <1>T, <1>1, <1>2, <1>3, <1>4, <1>5

\* ExecuteAgain: the block written is the pending assignment's, or nobody's.
LEMMA ExecuteAgainValues ==
  ASSUME ValueInv, NEW c \in Core, NEW v \in Value, ExecuteAgain(c, v)
  PROVE Values'
<1> USE DEF ValueInv, Values, Mine
<1> SUFFICES ASSUME NEW s, s = core[c].s, NEW p, p = core[c].blk[2]
             PROVE Values'
  OBVIOUS
<1>a. /\ core[c].at = "thread" /\ stage = "active"
      /\ UNCHANGED <<stage, _mem_cur_ind, _mem_alloc_tab_head, _mem_chunk_head, tab, entry, core>>
      /\ UNCHANGED _mem_cross_t_count
  BY DEF ExecuteAgain, heads, MemInv, StageOK
<1>e. /\ mem' = [mem EXCEPT ![cur][p].val = v]
      /\ want' = [want EXCEPT ![s] = IF entry[s] = core[c].blk THEN v ELSE @]
  BY DEF ExecuteAgain
<1>p. p \in Index /\ s \in Stmt /\ core[c].blk = <<cur, p>> /\ Has(c) /\ Own(c) = p
  BY <1>a, Parts, Shapes DEF MemInv, OwnOK, Has, Own
<1>u. /\ cur' = cur /\ cur \in Arena /\ Pending' = Pending
      /\ \A x : Given(x)' = Given(x) /\ Live(x)' = Live(x)
      /\ \A t : Ready(t) /\ Ready(t)'
  BY Heads, <1>a DEF cur, Given, Live, Pending, MemInv, Ready
<1>M. /\ \A x \in Arena, y \in Index :
           /\ mem'[x][y].tab = mem[x][y].tab /\ mem'[x][y].src = mem[x][y].src
           /\ mem'[x][y].ref = mem[x][y].ref
           /\ x # cur \/ y # p => mem'[x][y] = mem[x][y]
      /\ mem'[cur][p].val = v
  <2>1. mem[cur][p] \in BlockAt
    BY <1>u, <1>p DEF MemInv, DataOK
  <2> DEFINE b == [mem[cur][p] EXCEPT !.val = v]
  <2>2. b.tab = mem[cur][p].tab /\ b.src = mem[cur][p].src /\ b.ref = mem[cur][p].ref /\ b.val = v
    BY <2>1 DEF BlockAt
  <2>3. mem' = [mem EXCEPT ![cur] = [mem[cur] EXCEPT ![p] = b]]
    BY <1>e, <1>p, <1>u DEF MemInv, DataOK
  <2> HIDE DEF b
  <2> QED
    BY <2>2, <2>3, <1>p, <1>u DEF MemInv, DataOK
<1>w. /\ \A t \in Stmt : t # s => want'[t] = want[t]
      /\ want'[s] = IF entry[s] = <<cur, p>> THEN v ELSE want[s]
  BY <1>e, <1>p DEF MemInv, DataOK
<1>t. \A t \in Pending : Target(t)' = Target(t)
  <2> SUFFICES ASSUME NEW t \in Pending, NEW x, x = entry[t]
               PROVE mem'[x[1]][x[2]].src = mem[x[1]][x[2]].src
    BY <1>a DEF Target, Block
  <2>1. x[1] \in Arena /\ x[2] \in Index
    BY PendingIs, AddrParts
  <2> QED
    BY <2>1, <1>M
<1>l. \A t \in Pending : Link(Target(t), t)'
  <2> SUFFICES ASSUME NEW t \in Pending, NEW x, x = Target(t)
               PROVE Link(x, t)'
    BY <1>t
  <2>1. /\ x \in Addr /\ x[1] = cur /\ x[2] \in Given(cur) /\ x = <<cur, x[2]>>
        /\ mem[cur][x[2]].tab \in Entered(cur)
        /\ tab[cur][mem[cur][x[2]].tab] = [type |-> CROSS_T, p |-> x[2]]
        /\ mem[cur][x[2]].val = want[t] /\ mem[cur][x[2]].ref = entry[t]
        /\ \A d \in Core : Has(d) /\ Own(d) = x[2] => Mine(d, t)
    BY <1>u, TargetEntry
  <2>2. x[2] \in Index /\ t \in Stmt
    BY <2>1, AddrParts, PendingIs
  <2>3. mem'[cur][x[2]].val = want'[t]
    <3>1. CASE x[2] = p
      <4>1. t = s /\ entry[t] = <<cur, p>>
        BY <3>1, <2>1, <1>p
      <4> QED
        BY <3>1, <4>1, <1>M, <1>w
    <3>2. CASE x[2] # p
      <4>1. mem'[cur][x[2]] = mem[cur][x[2]]
        BY <3>2, <2>2, <1>M, <1>u
      <4>2. entry[t] # <<cur, p>>
        <5>1. SUFFICES ASSUME entry[t] = <<cur, p>> PROVE FALSE
          OBVIOUS
        <5>2. entry[t][1] = cur /\ stage # "compact"
          BY <5>1, <1>a
        <5>3. x = <<cur, p>>
          BY <5>1, <5>2 DEF InfoOK
        <5> QED
          BY <5>3, <3>2
      <4>3. want'[t] = want[t]
        BY <4>2, <2>2, <1>w
      <4> QED
        BY <4>1, <4>3, <2>1
    <3> QED
      BY <3>1, <3>2
  <2>4. mem'[cur][x[2]].tab = mem[cur][x[2]].tab /\ mem'[cur][x[2]].ref = mem[cur][x[2]].ref
    BY <2>2, <1>M, <1>u
  <2> QED
    BY <2>1, <2>3, <2>4, <1>a, <1>u DEF Link, Block
<1>o. \A d \in Core : (Has(d)' <=> Has(d)) /\ Own(d)' = Own(d)
  BY <1>a DEF Has, Own
<1>1. KeptOK'
  <2> SUFFICES ASSUME NEW t \in Pending
               PROVE /\ Link(Target(t), t)'
                     /\ \A r \in Pending : Target(t)' = Target(r)' => t = r
                     /\ \A d \in Core : Has(d)' /\ Own(d)' = Target(t)'[2] =>
                          Mine(d, t)'
    BY <1>u DEF KeptOK
  <2>1. /\ \A r \in Pending : Target(t) = Target(r) => t = r
        /\ \A d \in Core : Has(d) /\ Own(d) = Target(t)[2] => Mine(d, t)
    BY <1>u DEF KeptOK
  <2> QED
    BY <2>1, <1>a, <1>l, <1>t, <1>o
<1>2. RefOK' /\ CountOK'
  <2> SUFFICES ASSUME NEW e \in Live(cur), NEW x, x = tab[cur][e].p
               PROVE Busy(x)' \/ Referred(x)'
    BY <1>a, <1>u DEF RefOK, CountOK
  <2>1. x \in Index
    BY <1>u, Heads DEF Live, Entered, MemInv, EntryOK
  <2>2. Referred(x)' <=> Referred(x)
    BY <2>1, <1>M, <1>a, <1>u DEF Referred
  <2> QED
    BY <2>2, <1>a DEF Busy, RefOK
<1>3. InfoOK'
  BY <1>a, <1>u, <1>t DEF InfoOK
<1>4. MovingOK'
  BY <1>a DEF MovingOK
<1>5. StmtOK'
  <2>1. \A d \in Core, t \in Stmt : Running(d, t)' <=> Running(d, t)
    BY <1>a DEF Running
  <2> QED
    BY <2>1, <1>a, <1>u DEF StmtOK
<1> QED
  BY <1>1, <1>2, <1>3, <1>4, <1>5

\* pint_handle_future_nb: what is freed is the block of the assignment handled.
LEMMA HandleValues ==
  ASSUME ValueInv, NEW s \in Stmt, pint_handle_future_nb(s)
  PROVE Values'
<1> USE DEF ValueInv, Values, Mine
<1> SUFFICES ASSUME NEW a, a = Target(s)
             PROVE Values'
  OBVIOUS
<1>a. /\ stage = "release" /\ s \in Pending /\ Freed(a)
      /\ UNCHANGED <<stage, _mem_cur_ind, _mem_alloc_tab_head, _mem_chunk_head, mem, core>>
  BY DEF pint_handle_future_nb, heads, Target
<1>d. entry' = [entry EXCEPT ![s] = None] /\ want' = [want EXCEPT ![s] = None]
  BY DEF pint_handle_future_nb
<1>i. \A d \in Core : core[d].at = "idle"
  BY <1>a DEF MemInv, StageOK, AllIdle, Idle
<1>P. /\ Pending' = Pending \ {s}
      /\ \A t \in Pending' : entry'[t] = entry[t] /\ want'[t] = want[t]
  BY <1>a, <1>d DEF Pending, MemInv, DataOK
<1>u. /\ cur' = cur /\ cur \in Arena
      /\ \A x : Given(x)' = Given(x)
      /\ \A t : Ready(t) /\ Ready(t)'
      /\ Entered(cur) \subseteq Index
  BY Heads, <1>a DEF cur, Given, MemInv, Ready
<1>b. /\ a \in Addr /\ a[1] = cur /\ a[2] \in Given(cur) /\ a = <<cur, a[2]>>
      /\ mem[cur][a[2]].tab \in Entered(cur)
      /\ tab[cur][mem[cur][a[2]].tab] = [type |-> CROSS_T, p |-> a[2]]
  BY <1>a, <1>u, TargetEntry
<1>c. Block(a).tab = mem[cur][a[2]].tab
  BY <1>b DEF Block
<1>T. /\ /\ \A x \in Index : tab'[cur][x].p = tab[cur][x].p
         /\ \A x \in Index : tab'[cur][x] = tab[cur][x] \/ x = mem[cur][a[2]].tab
      /\ Live(cur)' = Live(cur) \ {mem[cur][a[2]].tab} /\ CountOK'
  <2>1. tab \in [Arena -> [Index -> TabEntry]] /\ mem \in [Arena -> [Index -> BlockAt]]
    BY DEF MemInv, DataOK
  <2>2. tab[cur][Block(a).tab].type = CROSS_T
    BY <1>b, <1>c
  <2>3. Live(cur)' = Live(cur) \ {Block(a).tab} /\ CountOK'
    BY <2>2, <1>a, <1>b, <1>c, FreedLive
  <2>4. /\ \A x \in Index : tab'[cur][x].p = tab[cur][x].p
        /\ \A x \in Index : tab'[cur][x] = tab[cur][x] \/ x = Block(a).tab
    BY <2>1, <1>a, <1>b, <1>u, FreedIs
  <2> QED
    BY <2>3, <2>4, <1>c
<1>t. \A t \in Pending' : Target(t)' = Target(t) /\ Block(entry[t])' = Block(entry[t])
  BY <1>a, <1>P DEF Target, Block
<1>k. \A t \in Pending' : Target(t) # a /\ t \in Pending
  BY <1>a, <1>P, <1>u DEF KeptOK
<1>l. \A t \in Pending' : Link(Target(t), t)'
  <2> SUFFICES ASSUME NEW t \in Pending', NEW x, x = Target(t)
               PROVE Link(x, t)'
    BY <1>t
  <2>0. t \in Pending
    BY <1>k
  <2>1. /\ x \in Addr /\ x[1] = cur /\ x[2] \in Given(cur) /\ x = <<cur, x[2]>>
        /\ mem[cur][x[2]].tab \in Entered(cur)
        /\ tab[cur][mem[cur][x[2]].tab] = [type |-> CROSS_T, p |-> x[2]]
        /\ mem[cur][x[2]].val = want[t] /\ mem[cur][x[2]].ref = entry[t]
    BY <2>0, <1>u, TargetEntry
  <2>2. x[2] # a[2]
    BY <2>1, <1>k, <1>b
  <2>3. mem[cur][x[2]].tab # mem[cur][a[2]].tab
    BY <2>1, <2>2, <1>b
  <2>4. tab'[cur][mem[cur][x[2]].tab] = tab[cur][mem[cur][x[2]].tab]
    BY <2>1, <2>3, <1>T, <1>u
  <2> QED
    BY <2>1, <2>4, <1>a, <1>u, <1>P DEF Link, Block
<1>1. KeptOK'
  <2> SUFFICES ASSUME NEW t \in Pending'
               PROVE /\ Link(Target(t), t)'
                     /\ \A r \in Pending' : Target(t)' = Target(r)' => t = r
                     /\ \A d \in Core : ~Has(d)'
    BY DEF KeptOK
  <2>1. \A r \in Pending' : Target(t) = Target(r) => t = r
    BY <1>k, <1>u DEF KeptOK
  <2>2. \A d \in Core : ~Has(d)'
    BY <1>a, <1>i DEF Has
  <2> QED
    BY <2>1, <2>2, <1>l, <1>t
<1>2. RefOK'
  <2> SUFFICES ASSUME NEW e \in Live(cur)', NEW x, x = tab'[cur][e].p
               PROVE Busy(x)' \/ Referred(x)'
    BY <1>u DEF RefOK
  <2>1. e \in Live(cur) /\ e \in Index
    BY <1>T, <1>u DEF Live, Entered
  <2>2. x = tab[cur][e].p
    BY <2>1, <1>T
  <2>3. (Busy(x)' <=> Busy(x)) /\ (Referred(x)' <=> Referred(x))
    BY <1>a, <1>u DEF Busy, Referred
  <2> QED
    BY <2>1, <2>2, <2>3 DEF RefOK
<1>3. InfoOK'
  <2> SUFFICES ASSUME NEW t \in Pending', entry[t][1] = cur
               PROVE Target(t)' = entry'[t]
    BY <1>P, <1>u DEF InfoOK
  <2>1. Target(t) = entry[t]
    BY <1>a, <1>k DEF InfoOK
  <2> QED
    BY <2>1, <1>P, <1>t
<1>4. MovingOK'
  BY <1>a DEF MovingOK
<1>5. StmtOK'
  <2>1. (\A r, t \in Pending : entry[r] = entry[t] => r = t)'
    BY <1>P, <1>k DEF StmtOK
  <2> QED
    BY <2>1, <1>a, <1>i DEF StmtOK
<1> QED
  BY <1>T, <1>1, <1>2, <1>3, <1>4, <1>5

\* CopyBlock: the copy has the value assigned last.
LEMMA CopyBlockValues ==
  ASSUME ValueInv, NEW c \in Core, CopyBlock(c)
  PROVE Values'
<1> USE DEF ValueInv, Values, Mine
<1> SUFFICES ASSUME NEW p, p = core[c].p, NEW k, k = core[c].job.k,
                    NEW from, from = mem[old][tab[old][k].p]
             PROVE Values'
  OBVIOUS
<1> DEFINE b == [from EXCEPT !.tab = mem[cur][p].tab, !.ref = None]
<1>a. /\ core[c].at = "fill" /\ stage = "compact" /\ Moving(c) /\ stage' = "compact"
      /\ UNCHANGED <<stage, _mem_cur_ind, _mem_alloc_tab_head, _mem_chunk_head, tab, entry, want>>
      /\ UNCHANGED _mem_cross_t_count
  BY SMTT(30) DEF CopyBlock, heads, MemInv, StageOK, Moving
<1>m. mem' = [mem EXCEPT ![cur][p] = b]
  BY DEF CopyBlock
<1>k. p \in Index /\ from \in BlockAt /\ core[c].job \in KernelJob
  BY <1>a, KernelReads, SMTT(30)
<1>b. /\ core'[c].at = "patch" /\ core'[c].job = core[c].job /\ core'[c].p = p
      /\ \A d \in Core : d # c => core'[d] = core[d]
  <2>1. core[c] \in [at : {"tab", "fill"}, job : UserJob \cup KernelJob, p : Index]
    BY <1>a, Shapes DEF MemInv
  <2> QED
    BY <2>1 DEF CopyBlock, MemInv, DataOK
<1>u. /\ cur' = cur /\ old' = old /\ cur \in Arena /\ old \in Arena /\ cur # old
      /\ Pending' = Pending /\ Entered(old) \subseteq Index /\ Given(old) \subseteq Index
      /\ \A x : Entered(x)' = Entered(x) /\ Given(x)' = Given(x) /\ Live(x)' = Live(x)
      /\ \A d \in Core : From(d)' = From(d) /\ To(d)' = To(d)
  BY Heads, <1>a DEF cur, old, Entered, Given, Live, n0, From, To, MemInv, Pending
<1>M. /\ \A x \in Addr : x # <<cur, p>> => mem'[x[1]][x[2]] = mem[x[1]][x[2]]
      /\ \A x \in Index : x # p => mem'[cur][x] = mem[cur][x]
      /\ \A x \in Index : mem'[old][x] = mem[old][x]
      /\ mem'[cur][p].val = from.val
  <2>1. b.val = from.val
    BY <1>k, SMTT(30) DEF BlockAt
  <2> HIDE DEF b
  <2>2. /\ mem'[cur][p] = b
        /\ \A x \in Arena, y \in Index : x # cur \/ y # p => mem'[x][y] = mem[x][y]
    BY <1>m, <1>k, <1>u DEF MemInv, DataOK
  <2>3. \A x \in Addr : x # <<cur, p>> => mem'[x[1]][x[2]] = mem[x[1]][x[2]]
    BY <2>2 DEF Addr
  <2> QED
    BY <2>1, <2>2, <2>3, <1>u, Zenon
<1> HIDE DEF b
<1>q. \A t \in Pending : /\ entry[t] # <<cur, p>> /\ entry[t] \in Addr /\ Target(t) \in Addr
                         /\ Ready(t) => Target(t) # <<cur, p>>
  BY <1>a, Elsewhere, PendingIs
<1>t. \A t \in Pending : /\ Block(entry[t])' = Block(entry[t])
                         /\ Target(t)' = Target(t) /\ Entry(t)' = Entry(t)
  <2>1. \A t \in Pending : Block(entry[t])' = Block(entry[t])
    BY <1>a, <1>q, <1>M, SMTT(30) DEF Block
  <2> QED
    BY <2>1 DEF Target, Entry
<1>r. \A t \in Pending : Ready(t)' <=> Ready(t)
  <2>1. \A d \in Core : Past(d)' = Past(d)
    BY <1>a, <1>b, <1>u DEF Past
  <2> QED
    BY <2>1, <1>a, <1>u, <1>t DEF Ready, Done
<1>o. \A d \in Core : (Has(d)' <=> Has(d)) /\ Own(d)' = Own(d)
  BY <1>a, <1>b DEF Has, Own
<1>1. KeptOK'
  <2> SUFFICES ASSUME NEW t \in Pending, Ready(t), NEW x, x = Target(t)
               PROVE /\ Link(x, t)'
                     /\ \A r \in Pending : Ready(r) /\ x = Target(r) => t = r
                     /\ \A d \in Core : Has(d) /\ Own(d) = x[2] =>
                          Mine(d, t)'
    BY <1>u, <1>t, <1>r, <1>o DEF KeptOK
  <2>1. /\ Link(x, t)
        /\ \A r \in Pending : Ready(r) /\ x = Target(r) => t = r
        /\ \A d \in Core : Has(d) /\ Own(d) = x[2] => Mine(d, t)
    BY DEF KeptOK
  <2>2. mem'[x[1]][x[2]] = mem[x[1]][x[2]]
    BY <1>q, <1>M, SMTT(30)
  <2>3. Link(x, t)'
    BY <2>1, <2>2, <1>a, <1>u DEF Link, Block
  <2>4. \A d \in Core : Has(d) /\ Own(d) = x[2] => Mine(d, t)'
    BY <2>1, <1>a, <1>b
  <2> QED
    BY <2>1, <2>3, <2>4
<1>2. RefOK' /\ CountOK'
  <2> SUFFICES ASSUME NEW e \in Live(cur), NEW x, x = tab[cur][e].p
               PROVE Busy(x)' \/ Referred(x)'
    BY <1>a, <1>u DEF RefOK, CountOK
  <2>1. x \in Index
    BY <1>u, Heads DEF Live, Entered, MemInv, EntryOK
  <2>2. CASE x = p
    BY <2>2, <1>b DEF Busy
  <2>3. CASE x # p
    <3>1. Referred(x)' <=> Referred(x)
      BY <2>1, <2>3, <1>M, <1>a, <1>u DEF Referred
    <3>2. Busy(x) => Busy(x)'
      BY <2>3, <1>b DEF Busy
    <3> QED
      BY <3>1, <3>2 DEF RefOK
  <2> QED
    BY <2>2, <2>3
<1>3. InfoOK'
  BY <1>a DEF InfoOK
<1>4. MovingOK'
  <2>1. (\A s \in Pending :
          /\ entry[s][1] = old /\ Entry(s) \in Entered(old)
          /\ tab[old][Entry(s)] = [type |-> CROSS_T, p |-> entry[s][2]]
          /\ Block(entry[s]).val = want[s])'
    BY <1>a, <1>u, <1>t DEF MovingOK
  <2>2. (\A s \in Pending : \A d \in Core : core[d].at = "patch" /\ core[d].job.k = Entry(s) =>
               mem[cur][core[d].p].val = want[s])'
    <3> SUFFICES ASSUME NEW s \in Pending, NEW d \in Core,
                        core'[d].at = "patch", core'[d].job.k = Entry(s)
                 PROVE mem'[cur][core'[d].p].val = want[s]
      BY <1>a, <1>u, <1>t
    <3>1. CASE d = c
      <4>1. k = Entry(s)
        BY <3>1, <1>b
      <4>2. /\ tab[old][k] = [type |-> CROSS_T, p |-> entry[s][2]] /\ entry[s][1] = old
            /\ Block(entry[s]).val = want[s]
        BY <4>1, <1>a DEF MovingOK
      <4>3. tab[old][k].p = entry[s][2]
        BY <4>2
      <4>4. from.val = want[s]
        BY <4>2, <4>3 DEF Block
      <4> QED
        <5>1. core'[d].p = p
          BY <3>1, <1>b
        <5>2. mem'[cur][p].val = want[s]
          BY <4>4, <1>M, SMTT(30)
        <5> QED
          BY <5>1, <5>2
    <3>2. CASE d # c
      <4>1. core'[d] = core[d] /\ core[d].at = "patch" /\ core[d].job.k = Entry(s)
        BY <3>2, <1>b
      <4>2. mem[cur][core[d].p].val = want[s]
        BY <4>1, <1>a DEF MovingOK
      <4>3. core[d].p # p /\ core[d].p \in Index
        BY <4>1, <3>2, <1>a, Parts DEF MemInv, OwnOK, Has, Own
      <4> QED
        BY <4>1, <4>2, <4>3, <1>M, SMTT(30)
    <3> QED
      BY <3>1, <3>2
  <2>3. (\A e \in Live(old) : mem[old][tab[old][e].p].ref = <<old, tab[old][e].p>>)'
    <3> SUFFICES ASSUME NEW e \in Live(old)
                 PROVE mem'[old][tab[old][e].p].ref = <<old, tab[old][e].p>>
      BY <1>a, <1>u
    <3>1. tab[old][e].p \in Index
      BY <1>a, <1>u DEF Live, Entered, MemInv, OldOK
    <3> QED
      BY <3>1, <1>a, <1>M DEF MovingOK
  <2> QED
    BY <2>1, <2>2, <2>3 DEF MovingOK
<1>5. StmtOK'
  BY <1>a, NotActive
<1> QED
  BY <1>1, <1>2, <1>3, <1>4, <1>5

\* PatchRef: the info of the assignment whose entry this is gets the new address.
LEMMA PatchRefValues ==
  ASSUME ValueInv, NEW c \in Core, PatchRef(c)
  PROVE Values'
<1> USE DEF ValueInv, Values, Mine
<1> SUFFICES ASSUME NEW p, p = core[c].p, NEW k, k = core[c].job.k
             PROVE Values'
  OBVIOUS
<1>a. /\ core[c].at = "patch" /\ stage = "compact" /\ Moving(c) /\ stage' = "compact"
      /\ UNCHANGED <<stage, _mem_cur_ind, _mem_alloc_tab_head, _mem_chunk_head, tab, entry, want>>
      /\ UNCHANGED _mem_cross_t_count
  BY Zenon DEF PatchRef, heads, MemInv, StageOK, Moving
<1>k. /\ p \in Index /\ k \in Nat /\ k \in Entered(old) /\ tab[old][k].type = CROSS_T
      /\ From(c) <= k /\ k < To(c) /\ Past(c) = k
  BY <1>a, KernelReads, SMTT(30)
<1> SUFFICES ASSUME NEW y, y = tab[old][k].p
             PROVE Values'
  OBVIOUS
<1>S. y \in Index /\ mem[old][y].ref = <<old, y>>
  <2>1. k \in Live(old) /\ y \in Index
    <3>1. y \in Index /\ k \in Index
      BY <1>a, KernelReads, SMTT(30)
    <3> QED
      BY <3>1, <1>k, MemAssumption DEF Live, Entered, Index
  <2> QED
    BY <2>1, <1>a DEF MovingOK
<1>u. /\ cur' = cur /\ old' = old /\ cur \in Arena /\ old \in Arena /\ cur # old /\ Pending' = Pending
      /\ \A x : Entered(x)' = Entered(x) /\ Given(x)' = Given(x) /\ Live(x)' = Live(x)
      /\ \A d \in Core : From(d)' = From(d) /\ To(d)' = To(d)
  BY Heads, <1>a DEF cur, old, Entered, Given, Live, n0, From, To, MemInv, Pending
<1>m. mem' = [[mem EXCEPT ![cur][p].ref = <<old, y>>] EXCEPT ![old][y].src = <<cur, p>>]
  <2>1. ASSUME NEW r, r = <<old, y>>
        PROVE mem' = [[mem EXCEPT ![cur][p].ref = r] EXCEPT ![old][y].src = <<cur, p>>]
    <3>1. r # None /\ mem[old][tab[old][k].p].ref = r
      BY <2>1, <1>S DEF None
    <3>2. mem' = [[mem EXCEPT ![cur][p].ref = r] EXCEPT ![r[1]][r[2]].src = <<cur, p>>]
      BY <3>1, Zenon DEF PatchRef, Patched
    <3>3. r[1] = old /\ r[2] = y
      BY <2>1
    <3> QED
      BY <3>2, <3>3, Zenon
  <2> QED
    BY <2>1, Zenon
<1>M. /\ \A x \in Index : /\ mem'[cur][x].tab = mem[cur][x].tab /\ mem'[cur][x].val = mem[cur][x].val
                          /\ mem'[cur][x].src = mem[cur][x].src
                          /\ x # p => mem'[cur][x] = mem[cur][x]
      /\ mem'[cur][p].ref = <<old, y>>
      /\ \A x \in Index : x # y => mem'[old][x] = mem[old][x]
      /\ mem'[old][y].tab = mem[old][y].tab
      /\ mem'[old][y].ref = mem[old][y].ref
      /\ mem'[old][y].val = mem[old][y].val
      /\ mem'[old][y].src = <<cur, p>>
  <2> DEFINE b1 == [mem[cur][p] EXCEPT !.ref = <<old, y>>]
             b2 == [mem[old][y] EXCEPT !.src = <<cur, p>>]
  <2>0. y \in Index /\ mem[cur][p] \in BlockAt /\ mem[old][y] \in BlockAt
    BY <1>S, <1>k, <1>u DEF MemInv, DataOK
  <2>1. /\ b1.tab = mem[cur][p].tab /\ b1.val = mem[cur][p].val /\ b1.src = mem[cur][p].src
        /\ b1.ref = <<old, y>>
    BY <2>0 DEF BlockAt
  <2>2. /\ b2.tab = mem[old][y].tab /\ b2.val = mem[old][y].val /\ b2.ref = mem[old][y].ref
        /\ b2.src = <<cur, p>>
    BY <2>0 DEF BlockAt
  <2>3. mem'[cur] = [mem[cur] EXCEPT ![p] = b1] /\ mem'[old] = [mem[old] EXCEPT ![y] = b2]
    BY <1>m, <2>0, <1>k, <1>u DEF MemInv, DataOK
  <2>4. mem[cur] \in [Index -> BlockAt] /\ mem[old] \in [Index -> BlockAt]
    BY <1>u DEF MemInv, DataOK
  <2> HIDE DEF b1, b2
  <2> QED
    BY <2>0, <2>1, <2>2, <2>3, <2>4, <1>k
<1>b. /\ core'[c].at = "walk" /\ core'[c].k = k + 1
      /\ \A d \in Core : d # c => core'[d] = core[d]
  BY Zenon DEF PatchRef, MemInv, DataOK
<1>q. \A t \in Pending :
        /\ entry[t] = <<old, entry[t][2]>> /\ entry[t][1] = old /\ entry[t][2] \in Index
        /\ Entry(t) \in Nat /\ (Entry(t) = k <=> entry[t][2] = y)
        /\ t \in Stmt /\ Block(entry[t]).val = want[t]
  <2> SUFFICES ASSUME NEW t \in Pending
               PROVE /\ entry[t] = <<old, entry[t][2]>> /\ entry[t][1] = old /\ entry[t][2] \in Index
                     /\ Entry(t) \in Nat /\ (Entry(t) = k <=> entry[t][2] = y)
                     /\ t \in Stmt /\ Block(entry[t]).val = want[t]
    OBVIOUS
  <2>1. /\ t \in Stmt /\ entry[t] \in Addr /\ entry[t][1] = old /\ Entry(t) \in Entered(old)
        /\ tab[old][Entry(t)] = [type |-> CROSS_T, p |-> entry[t][2]]
        /\ Block(entry[t]).val = want[t]
    BY <1>a, PendingIs DEF MovingOK
  <2>2. entry[t][2] \in Index /\ entry[t] = <<old, entry[t][2]>> /\ Entry(t) \in Nat
    BY <2>1, AddrParts, Heads, <1>u DEF MemInv
  <2>3. tab[old][Entry(t)].p = entry[t][2]
    BY <2>1
  <2>4. Entry(t) = k <=> entry[t][2] = y
    BY <2>1, <2>3, <1>a, <1>k DEF MemInv, OldOK
  <2> QED
    BY <2>1, <2>2, <2>4
<1>j. \A t, r \in Pending : Entry(t) = k /\ Entry(r) = k => t = r
  BY <1>q DEF StmtOK
<1>t. \A t \in Pending :
        /\ Entry(t)' = Entry(t) /\ Block(entry[t])'.val = Block(entry[t]).val
        /\ Target(t)' = IF Entry(t) = k THEN <<cur, p>> ELSE Target(t)
  <2> SUFFICES ASSUME NEW t \in Pending, NEW x, x = entry[t][2]
               PROVE /\ mem'[old][x].tab = mem[old][x].tab
                     /\ mem'[old][x].val = mem[old][x].val
                     /\ mem'[old][x].src = IF x = y THEN <<cur, p>> ELSE mem[old][x].src
    BY <1>a, <1>q, <1>u, SMTT(30) DEF Entry, Target, Block
  <2>1. CASE x = y
    BY <2>1, <1>M
  <2>2. CASE x # y
    BY <2>2, <1>M, <1>q
  <2> QED
    BY <2>1, <2>2
<1>r. \A t \in Pending : IF Entry(t) = k THEN Ready(t)' /\ ~Ready(t) ELSE Ready(t)' <=> Ready(t)
  <2>1. Past(c)' = k + 1 /\ \A d \in Core : d # c => Past(d)' = Past(d)
    BY <1>a, <1>b, <1>u DEF Past
  <2>2. \A t \in Pending : Entry(t) = k => Ready(t)'
    BY <2>1, <1>k, <1>t, <1>u DEF Ready, Done
  <2>3. \A t \in Pending : Entry(t) = k => ~Ready(t)
    <3>1. SUFFICES ASSUME NEW d \in Core, From(d) <= k, k < Past(d) PROVE FALSE
      BY <1>a DEF Ready, Done
    <3>2. Past(d) <= To(d) /\ Past(d) \in Int /\ To(d) \in Nat
      <4>1. Past(d) <= To(d) /\ To(d) \in Nat
        BY <1>a, PartOf DEF MemInv, WalkOK
      <4>2. Past(d) \in Int
        <5>1. CASE core[d].at = "walk"
          BY <5>1, Shapes DEF Past, MemInv
        <5>2. CASE Moving(d)
          BY <5>2, <1>a, KernelReads, SMTT(30)
        <5>3. CASE core[d].at = "idle"
          BY <5>3, <4>1 DEF Past
        <5> QED
          BY <5>1, <5>2, <5>3, <1>a, Shapes DEF Moving, MemInv, StageOK
      <4> QED
        BY <4>1, <4>2
    <3>3. d = c
      BY <3>1, <3>2, <1>k, PartOf DEF MemInv
    <3> QED
      BY <3>1, <3>3, <1>k
  <2>4. ASSUME NEW t \in Pending, Entry(t) # k
        PROVE Ready(t)' <=> Ready(t)
    <3>1. Entry(t) \in Nat
      BY <1>q
    <3>2. \A d \in Core : Entry(t) < Past(d)' <=> Entry(t) < Past(d)
      BY <2>1, <2>4, <3>1, <1>k
    <3> QED
      BY <3>2, <1>a, <1>t, <1>u DEF Ready, Done
  <2> QED
    BY <2>2, <2>3, <2>4
<1>o. /\ ~Has(c)' /\ Has(c) /\ Own(c) = p
      /\ \A d \in Core : d # c => (Has(d)' <=> Has(d)) /\ Own(d)' = Own(d)
  BY <1>a, <1>b DEF Has, Own
<1>e. \A t \in Pending : Ready(t) => Target(t) # <<cur, p>>
  BY <1>a, Elsewhere
<1>l. \A t \in Pending : Ready(t) => Link(Target(t), t)'
  <2> SUFFICES ASSUME NEW t \in Pending, Ready(t), NEW x, x = Target(t)
               PROVE Link(x, t)'
    BY <1>r, <1>t
  <2>1. /\ x \in Addr /\ x[1] = cur /\ x[2] \in Given(cur)
        /\ tab[cur][mem[cur][x[2]].tab] = [type |-> CROSS_T, p |-> x[2]]
        /\ mem[cur][x[2]].val = want[t] /\ mem[cur][x[2]].ref = entry[t] /\ x = <<cur, x[2]>>
    BY TargetEntry
  <2>2. x[2] \in Index /\ mem'[cur][x[2]] = mem[cur][x[2]]
    <3>1. x[2] # p
      BY <2>1, <1>e
    <3>2. x[2] \in Index
      BY <2>1, AddrParts
    <3> QED
      BY <3>1, <3>2, <1>M
  <2> QED
    BY <2>1, <2>2, <1>M, <1>a, <1>u DEF Link, Block
<1>n. \A s \in Pending : Entry(s) = k => Link(Target(s), s)'
  <2> SUFFICES ASSUME NEW s \in Pending, Entry(s) = k, NEW x, x = <<cur, p>>
               PROVE Link(x, s)'
    BY <1>t
  <2>0. x \in Addr /\ x[1] = cur /\ x[2] = p
    BY <1>k, <1>u DEF Addr
  <2>1. p \in Given(cur)
    BY <1>o DEF MemInv, OwnOK
  <2>2. \A d \in Core : core[d].at = "tab" => core[d].p # p
    BY <1>a DEF MemInv, OwnOK, Has, Own
  <2>3. /\ mem[cur][p].tab \in Entered(cur) /\ tab[cur][mem[cur][p].tab].p = p
        /\ tab[cur][mem[cur][p].tab].type = CROSS_T
    BY <2>1, <2>2, <1>a DEF MemInv, BackOK
  <2>4. tab[cur][mem[cur][p].tab] \in TabEntry
    BY <2>3, <1>u, Heads DEF MemInv, DataOK
  <2>5. tab[cur][mem[cur][p].tab] = [type |-> CROSS_T, p |-> p]
    BY <2>3, <2>4, SMTT(30) DEF TabEntry
  <2> QED
    <3>1. mem'[cur][p].ref = entry[s]
      BY <1>M, <1>q
    <3>2. mem'[cur][p].val = want[s] /\ mem'[cur][p].tab = mem[cur][p].tab
      <4>1. mem[cur][p].val = want[s]
        BY <1>a DEF MovingOK
      <4> QED
        BY <4>1, <1>M, <1>k
    <3> QED
      BY <2>0, <2>1, <2>5, <3>1, <3>2, <1>a, <1>u, SMTT(30) DEF Link, Block
<1>1. KeptOK'
  <2> SUFFICES ASSUME NEW t \in Pending, Ready(t)'
               PROVE /\ Link(Target(t), t)'
                     /\ \A r \in Pending : Ready(r)' /\ Target(t)' = Target(r)' => t = r
                     /\ \A d \in Core : Has(d)' /\ Own(d)' = Target(t)'[2] =>
                          Mine(d, t)'
    BY <1>u DEF KeptOK
  <2>0. \A r \in Pending : Ready(r)' => Entry(r) = k \/ Ready(r)
    BY <1>r
  <2>1. CASE Entry(t) = k
    <3>1. Target(t)' = <<cur, p>> /\ Target(t)'[2] = p
      BY <2>1, <1>t
    <3>2. Link(Target(t), t)'
      BY <2>1, <1>n
    <3>3. \A r \in Pending : Ready(r)' /\ Target(t)' = Target(r)' => t = r
      BY <3>1, <2>0, <2>1, <1>t, <1>e, <1>j
    <3>4. \A d \in Core : Has(d)' => Own(d)' # p
      BY <1>o DEF MemInv, OwnOK
    <3> QED
      BY <3>1, <3>2, <3>3, <3>4
  <2>2. CASE Entry(t) # k
    <3>0. Ready(t) /\ Target(t)' = Target(t)
      BY <2>0, <2>2, <1>t
    <3>1. Link(Target(t), t)'
      BY <3>0, <1>l
    <3>2. ASSUME NEW r \in Pending, Ready(r)', Target(t)' = Target(r)'
          PROVE t = r
      <4>1. Entry(r) # k
        BY <3>0, <3>2, <1>t, <1>e
      <4>2. Ready(r) /\ Target(r) = Target(t)
        BY <4>1, <3>0, <3>2, <2>0, <1>t
      <4> QED
        BY <4>2, <3>0 DEF KeptOK
    <3>3. \A d \in Core : Has(d)' /\ Own(d)' = Target(t)[2] => Mine(d, t)'
      BY <3>0, <1>a, <1>o, <1>b DEF KeptOK
    <3> QED
      BY <3>0, <3>1, <3>2, <3>3
  <2> QED
    BY <2>1, <2>2
<1>2. RefOK' /\ CountOK'
  <2> SUFFICES ASSUME NEW e \in Live(cur), NEW x, x = tab[cur][e].p
               PROVE Busy(x)' \/ Referred(x)'
    BY <1>a, <1>u DEF RefOK, CountOK
  <2>1. x \in Index
    BY <1>u, Heads DEF Live, Entered, MemInv, EntryOK
  <2>2. CASE x = p
    <3>1. mem'[cur][x].ref = <<old, y>> /\ <<old, y>> \in Addr
      BY <2>2, <1>M, <1>S, <1>u DEF Addr
    <3> QED
      BY <3>1, <1>u DEF Referred
  <2>3. CASE x # p
    <3>1. Referred(x)' <=> Referred(x)
      BY <2>1, <2>3, <1>M, <1>a, <1>u DEF Referred
    <3>2. Busy(x) => Busy(x)'
      BY <2>3, <1>b DEF Busy
    <3> QED
      BY <3>1, <3>2 DEF RefOK
  <2> QED
    BY <2>2, <2>3
<1>3. InfoOK'
  BY <1>a DEF InfoOK
<1>4. MovingOK'
  <2>1. (\A t \in Pending :
          /\ entry[t][1] = old /\ Entry(t) \in Entered(old)
          /\ tab[old][Entry(t)] = [type |-> CROSS_T, p |-> entry[t][2]]
          /\ Block(entry[t]).val = want[t])'
    BY <1>a, <1>u, <1>t DEF MovingOK
  <2>2. (\A t \in Pending : \A d \in Core : core[d].at = "patch" /\ core[d].job.k = Entry(t) =>
               mem[cur][core[d].p].val = want[t])'
    <3> SUFFICES ASSUME NEW t \in Pending, NEW d \in Core,
                        core'[d].at = "patch", core'[d].job.k = Entry(t)
                 PROVE mem'[cur][core'[d].p].val = want[t]
      BY <1>a, <1>u, <1>t
    <3>1. core'[d] = core[d] /\ core[d].at = "patch" /\ core[d].job.k = Entry(t)
      BY <1>b
    <3>2. mem[cur][core[d].p].val = want[t]
      BY <3>1, <1>a DEF MovingOK
    <3>3. core[d].p \in Index
      BY <3>1, Parts DEF MemInv
    <3> QED
      BY <3>1, <3>2, <3>3, <1>M
  <2>3. (\A e \in Live(old) : mem[old][tab[old][e].p].ref = <<old, tab[old][e].p>>)'
    <3> SUFFICES ASSUME NEW e \in Live(old), NEW x, x = tab[old][e].p
                 PROVE mem'[old][x].ref = <<old, x>>
      BY <1>a, <1>u
    <3>1. x \in Index
      BY <1>a, <1>u, Heads DEF Live, Entered, MemInv, OldOK
    <3>2. mem[old][x].ref = <<old, x>>
      BY <1>a DEF MovingOK
    <3> QED
      BY <3>1, <3>2, <1>M
  <2> QED
    BY <2>1, <2>2, <2>3 DEF MovingOK
<1>5. StmtOK'
  BY <1>a, NotActive
<1> QED
  BY <1>1, <1>2, <1>3, <1>4, <1>5

\* ResetArena: with no live block no assignment is pending.
LEMMA ResetArenaValues ==
  ASSUME ValueInv, ResetArena
  PROVE Values'
<1> USE DEF ValueInv, Values, Mine
<1>a. /\ stage = "release" /\ stage' = "active" /\ _mem_cross_t_count = 0
      /\ _mem_alloc_tab_head' = [_mem_alloc_tab_head EXCEPT ![cur] = 0]
      /\ UNCHANGED <<_mem_cur_ind, _mem_cross_t_count, core, entry>>
  BY DEF ResetArena
<1>u. cur \in Arena /\ cur' = cur
  BY <1>a, Heads DEF MemInv, cur
<1>l. Live(cur) = {}
  <2>1. IsFiniteSet(Live(cur)) /\ Cardinality(Live(cur)) = 0
    BY <1>a, <1>u, LiveFinite DEF MemInv, CountOK
  <2> QED
    BY <2>1, FS_EmptySet
<1>p. Pending = {} /\ Pending' = {}
  <2>1. ASSUME NEW s \in Pending PROVE FALSE
    <3> SUFFICES ASSUME NEW x, x = Target(s) PROVE FALSE
      OBVIOUS
    <3>1. Ready(s)
      BY <1>a DEF Ready
    <3>2. /\ mem[cur][x[2]].tab \in Entered(cur)
          /\ tab[cur][mem[cur][x[2]].tab] = [type |-> CROSS_T, p |-> x[2]]
      BY <3>1, TargetEntry
    <3>3. tab[cur][mem[cur][x[2]].tab].type = CROSS_T
      BY <3>2
    <3>4. mem[cur][x[2]].tab \in Live(cur)
      <4>1. Live(cur) = {e \in Entered(cur) : tab[cur][e].type = CROSS_T}
        BY LiveIs, Heads DEF MemInv
      <4> QED
        BY <4>1, <3>2, <3>3
    <3> QED
      BY <3>4, <1>l
  <2> QED
    BY <2>1, <1>a DEF Pending
<1>i. \A d \in Core : core'[d].at = "idle"
  BY <1>a DEF MemInv, StageOK, AllIdle, Idle
<1>1. Live(cur)' = {}
  <2>1. _mem_alloc_tab_head'[cur] = 0
    BY <1>a, <1>u DEF MemInv, DataOK
  <2> QED
    BY <2>1, <1>u DEF Live
<1>2. StmtOK'
  <2>1. \A d \in Core, t \in Stmt : ~Running(d, t)'
    BY <1>i DEF Running
  <2> QED
    BY <2>1, <1>p, <1>i DEF StmtOK
<1>3. CountOK'
  BY <1>1, <1>a, FS_EmptySet DEF CountOK
<1> QED
  BY <1>1, <1>2, <1>3, <1>p, <1>a DEF KeptOK, RefOK, InfoOK, MovingOK

\* StartCompact, with every info in the arena that is left.
LEMMA StartCompactValues ==
  ASSUME ValueInv, StartCompact, ~outlived'
  PROVE Values'
<1> USE DEF ValueInv, Values, Mine
<1> DEFINE n == _mem_alloc_tab_head[cur]
<1>a. /\ stage = "release" /\ stage' = "compact"
      /\ _mem_cur_ind' = old /\ _mem_cross_t_count' = 0
      /\ core' = [c \in Core |-> [at |-> "walk", k |-> offset(c, n),
                                  end |-> offset(c, n) + loop_size(c, n)]]
      /\ UNCHANGED <<_mem_alloc_tab_head, tab, mem, entry, want>>
  BY DEF StartCompact
<1>i. \A d \in Core : core[d].at = "idle"
  BY <1>a DEF MemInv, StageOK, AllIdle, Idle
<1>u. /\ cur' = old /\ old' = cur /\ cur \in Arena /\ old \in Arena
      /\ _mem_alloc_tab_head[old] = 0 /\ n \in Nat /\ n0' = n
  BY <1>a, Heads DEF MemInv, cur, old, Arena, StageOK, n0
<1> HIDE DEF n
<1>c. \A c \in Core : core'[c].at = "walk" /\ core'[c].k = offset(c, n) /\ offset(c, n) \in Nat
  BY <1>a, <1>u, SliceIs
<1>p. /\ Pending' = Pending
      /\ \A s : Target(s)' = Target(s) /\ Entry(s)' = Entry(s) /\ Block(entry[s])' = Block(entry[s])
      /\ \A s : Ready(s)
  BY <1>a DEF Pending, Target, Entry, Block, Ready
<1>e. Live(cur)' = {} /\ Live(old)' = Live(cur) /\ Entered(old)' = Entered(cur)
  BY <1>a, <1>u DEF Live, Entered
<1>f. \A e \in Live(cur) : mem[cur][tab[cur][e].p].ref = <<cur, tab[cur][e].p>>
  <2> SUFFICES ASSUME NEW e \in Live(cur), NEW x, x = tab[cur][e].p
               PROVE mem[cur][x].ref = <<cur, x>>
    OBVIOUS
  <2>1. Referred(x)
    BY <1>i DEF RefOK, Busy
  <2>2. ~MovedBefore(e)
    BY Zenon DEF StartCompact
  <2>3. mem[cur][x].ref \in Addr /\ mem[cur][x].ref # None
    BY <2>1 DEF Referred, Addr, None
  <2>4. mem[cur][x].ref[1] = cur
    BY <2>2, <2>3 DEF MovedBefore
  <2> QED
    BY <2>1, <2>4 DEF Referred
<1>t. \A s \in Pending : entry[s][1] = cur /\ Target(s) = entry[s]
  <2> SUFFICES ASSUME NEW s \in Pending, NEW x, x = Target(s)
               PROVE entry[s][1] = cur /\ x = entry[s]
    OBVIOUS
  <2>1. /\ x[1] = cur /\ x = <<cur, x[2]>> /\ mem[cur][x[2]].tab \in Entered(cur)
        /\ tab[cur][mem[cur][x[2]].tab] = [type |-> CROSS_T, p |-> x[2]]
        /\ mem[cur][x[2]].ref = entry[s]
    BY <1>p, TargetEntry
  <2>2. tab[cur][mem[cur][x[2]].tab].type = CROSS_T /\ tab[cur][mem[cur][x[2]].tab].p = x[2]
    BY <2>1
  <2>3. mem[cur][x[2]].tab \in Live(cur)
    <3>1. Live(cur) = {e \in Entered(cur) : tab[cur][e].type = CROSS_T}
      BY LiveIs, Heads DEF MemInv
    <3> QED
      BY <3>1, <2>1, <2>2
  <2>4. mem[cur][x[2]].ref = <<cur, x[2]>>
    BY <2>2, <2>3, <1>f
  <2> QED
    BY <2>1, <2>4
<1>k. \A s \in Pending :
        /\ Entry(s) \in Entered(cur) /\ tab[cur][Entry(s)] = [type |-> CROSS_T, p |-> entry[s][2]]
        /\ Block(entry[s]).val = want[s]
  <2> SUFFICES ASSUME NEW s \in Pending, NEW x, x = Target(s)
               PROVE /\ Entry(s) \in Entered(cur)
                     /\ tab[cur][Entry(s)] = [type |-> CROSS_T, p |-> entry[s][2]]
                     /\ Block(entry[s]).val = want[s]
    OBVIOUS
  <2>1. /\ x[1] = cur /\ mem[cur][x[2]].tab \in Entered(cur)
        /\ tab[cur][mem[cur][x[2]].tab] = [type |-> CROSS_T, p |-> x[2]]
        /\ mem[cur][x[2]].val = want[s]
    BY <1>p, TargetEntry
  <2> QED
    BY <2>1, <1>t DEF Entry, Block
<1>r. \A s \in Pending : ~Ready(s)'
  <2> SUFFICES ASSUME NEW s \in Pending, NEW c \in Core, From(c)' <= Entry(s), Entry(s) < Past(c)'
               PROVE FALSE
    BY <1>a, <1>p DEF Ready, Done
  <2>1. From(c)' = offset(c, n) /\ Past(c)' = offset(c, n) /\ offset(c, n) \in Nat
    BY <1>c, <1>u DEF From, Past
  <2>2. Entry(s) \in Nat
    BY <1>k, <1>u, Heads DEF MemInv
  <2> QED
    BY <2>1, <2>2
<1>1. StmtOK'
  BY <1>a, NotActive
<1>2. KeptOK' /\ RefOK' /\ InfoOK' /\ CountOK'
  BY <1>a, <1>p, <1>r, <1>e, FS_EmptySet DEF KeptOK, RefOK, InfoOK, CountOK
<1>3. MovingOK'
  <2>1. (\A s \in Pending :
          /\ entry[s][1] = old /\ Entry(s) \in Entered(old)
          /\ tab[old][Entry(s)] = [type |-> CROSS_T, p |-> entry[s][2]]
          /\ Block(entry[s]).val = want[s])'
    BY <1>a, <1>p, <1>u, <1>e, <1>t, <1>k
  <2>2. \A d \in Core : core'[d].at # "patch"
    BY <1>c
  <2>3. (\A e \in Live(old) : mem[old][tab[old][e].p].ref = <<old, tab[old][e].p>>)'
    BY <1>a, <1>u, <1>e, <1>f
  <2> QED
    BY <2>1, <2>2, <2>3, <1>p, <1>e DEF MovingOK
<1> QED
  BY <1>1, <1>2, <1>3

\* EndCompact: every entry has been passed, so every info is patched.
LEMMA EndCompactValues ==
  ASSUME ValueInv, EndCompact
  PROVE Values'
<1> USE DEF ValueInv, Values, Mine
<1>a. /\ stage = "compact" /\ stage' = "active"
      /\ _mem_alloc_tab_head' = [_mem_alloc_tab_head EXCEPT ![old] = 0]
      /\ _mem_chunk_head' = [_mem_chunk_head EXCEPT ![old] = 0]
      /\ UNCHANGED <<_mem_cur_ind, _mem_cross_t_count, tab, mem, core, entry, want>>
  BY DEF EndCompact
<1>i. \A d \in Core : core[d].at = "idle" /\ core[d] = Idle
  BY DEF EndCompact, AllIdle, Idle
<1>u. /\ cur' = cur /\ cur \in Arena /\ old \in Arena /\ cur # old /\ Pending' = Pending
      /\ \A s : Target(s)' = Target(s) /\ Ready(s)'
  BY <1>a, Heads DEF cur, MemInv, Pending, Target, Block, Ready
<1>e. Given(cur)' = Given(cur) /\ Live(cur)' = Live(cur)
  <2>1. /\ _mem_alloc_tab_head'[cur] = _mem_alloc_tab_head[cur]
        /\ _mem_chunk_head'[cur] = _mem_chunk_head[cur]
    BY <1>a, <1>u DEF MemInv, DataOK
  <2> QED
    BY <2>1, <1>a, <1>u DEF Given, Live
<1>r. \A s \in Pending : Ready(s)
  <2> SUFFICES ASSUME NEW s \in Pending
               PROVE Done(s)
    BY DEF Ready
  <2>1. Entry(s) \in Entered(old)
    BY <1>a DEF MovingOK
  <2>2. n0 \in Nat /\ Entry(s) \in Nat /\ Entry(s) < n0
    BY <2>1, <1>u, Heads DEF MemInv, n0, Entered
  <2>3. PICK c \in Core : From(c) <= Entry(s) /\ Entry(s) < To(c)
    <3> HIDE DEF n0
    <3> QED
      BY <2>2, SlicesCover DEF From, To
  <2>4. Past(c) = To(c)
    BY <1>i DEF Past
  <2> QED
    BY <2>3, <2>4 DEF Done
<1>1. StmtOK'
  <2>1. \A d \in Core, t \in Stmt : ~Running(d, t)'
    BY <1>a, <1>i DEF Running
  <2> QED
    BY <2>1, <1>a, <1>i, <1>u DEF StmtOK
<1>2. KeptOK'
  <2> SUFFICES ASSUME NEW s \in Pending, NEW x, x = Target(s)
               PROVE /\ Link(x, s)'
                     /\ \A t \in Pending : x = Target(t) => s = t
                     /\ \A d \in Core : ~Has(d)'
    BY <1>u DEF KeptOK
  <2>1. Link(x, s) /\ \A t \in Pending : x = Target(t) => s = t
    BY <1>r DEF KeptOK
  <2>2. Link(x, s)'
    BY <2>1, <1>a, <1>u, <1>e DEF Link, Block
  <2>3. \A d \in Core : ~Has(d)'
    BY <1>a, <1>i DEF Has
  <2> QED
    BY <2>1, <2>2, <2>3
<1>3. RefOK' /\ CountOK'
  <2>1. \A e \in Live(cur) : Referred(tab[cur][e].p)
    BY <1>i DEF RefOK, Busy
  <2>2. \A x : Referred(x) => Referred(x)'
    BY <1>a, <1>u DEF Referred
  <2> QED
    BY <2>1, <2>2, <1>a, <1>u, <1>e DEF RefOK, CountOK
<1>4. InfoOK'
  <2>1. \A s \in Pending : entry[s][1] # cur
    BY <1>a, <1>u DEF MovingOK
  <2> QED
    BY <2>1, <1>a, <1>u DEF InfoOK
<1>5. MovingOK'
  BY <1>a DEF MovingOK
<1> QED
  BY <1>1, <1>2, <1>3, <1>4, <1>5

\* At the start nothing is pending.
LEMMA ValueInvInit ==
  ASSUME Init
  PROVE ValueInv
<1>1. MemInv
  BY MemInvInit
<1>2. \A c \in Core : core[c].at = "idle"
  BY DEF Init, Idle
<1>3. Pending = {} /\ Live(cur) = {} /\ stage = "active"
  BY DEF Init, Pending, Live, cur, Arena
<1>4. \A d \in Core, t \in Stmt : ~Running(d, t)
  BY <1>2 DEF Running
<1>5. StmtOK
  BY <1>2, <1>3, <1>4 DEF StmtOK
<1>6. CountOK
  BY <1>3, FS_EmptySet DEF CountOK, Init
<1> QED
  BY <1>1, <1>3, <1>5, <1>6 DEF ValueInv, Values, KeptOK, RefOK, InfoOK, MovingOK

\* Every step keeps the invariant, unless an arena is full or a block moved again.
LEMMA ValueInvNext ==
  ASSUME ValueInv, [Next]_vars, ~exhausted', ~outlived'
  PROVE ValueInv'
<1>0. MemInv'
  BY MemInvNext DEF ValueInv, Values
<1>1. ASSUME NEW c \in Core, NEW s \in Stmt, NEW v \in Value, Execute(c, s, v)
      PROVE Values'
  BY <1>1, ExecuteValues
<1>2. ASSUME NEW c \in Core, AllocTab(c)
      PROVE Values'
  BY <1>2, AllocTabValues
<1>3. ASSUME NEW c \in Core, NEW delay \in {0, 1}, pint_enqueue_nb_future(c, delay)
      PROVE Values'
  BY <1>3, EnqueueValues
<1>4. ASSUME NEW c \in Core, NEW v \in Value, ExecuteAgain(c, v)
      PROVE Values'
  BY <1>4, ExecuteAgainValues
<1>5. ASSUME NEW c \in Core, ThreadReturns(c)
      PROVE Values'
  BY <1>5, ThreadReturnsValues
<1>6. ASSUME NEW c \in Core, WalkLive(c) \/ WalkFree(c) \/ WalkDone(c)
      PROVE Values'
  BY <1>6, WalkLiveValues, WalkOnValues
<1>7. ASSUME NEW c \in Core, CopyBlock(c) \/ PatchRef(c)
      PROVE Values'
  BY <1>7, CopyBlockValues, PatchRefValues
<1>8. ASSUME NEW s \in Stmt, pint_handle_future_nb(s)
      PROVE Values'
  BY <1>8, HandleValues
<1>9. ASSUME EndActive \/ KeepArena
      PROVE Values'
  BY <1>9, StageMoveValues
<1>10. ASSUME ResetArena \/ StartCompact \/ EndCompact
       PROVE Values'
  BY <1>10, ResetArenaValues, StartCompactValues, EndCompactValues
<1>11. ASSUME UNCHANGED vars
       PROVE Values'
  <2>1. /\ UNCHANGED <<stage, _mem_cur_ind, _mem_alloc_tab_head, _mem_cross_t_count>>
        /\ UNCHANGED <<_mem_chunk_head, tab, mem, entry, want, core>>
    BY <1>11 DEF vars, heads
  <2>2. /\ Given(cur)' = Given(cur) /\ Pending' = Pending
        /\ \A s \in Pending : Ready(s)' <=> Ready(s)
    BY <2>1 DEF Given, Pending, cur, Ready, Done, From, To, Past, Entry, Block, n0, old
  <2>3. \A d \in Core : (Has(d)' <=> Has(d)) /\ Own(d)' = Own(d)
    BY <2>1 DEF Has, Own
  <2>4. CountOK' /\ KeptOK' /\ RefOK' /\ InfoOK' /\ MovingOK'
    BY <2>1, <2>2, <2>3, CoreFrame
  <2>5. \A d \in Core, s \in Stmt : Running(d, s)' <=> Running(d, s)
    BY <2>1 DEF Running
  <2>6. StmtOK'
    BY <2>1, <2>2, <2>5 DEF ValueInv, Values, StmtOK
  <2> QED
    BY <2>4, <2>6 DEF Values
<1>13. ASSUME NEW c \in Core, WalkBeyond(c)
       PROVE FALSE
  BY <1>13, BeyondNever DEF ValueInv
<1>12. Values'
  <2> QED
    BY <1>13, <1>1, <1>2, <1>3, <1>4, <1>5, <1>6, <1>7, <1>8, <1>9, <1>10, <1>11 DEF Next
<1> QED
  BY <1>0, <1>12 DEF ValueInv

\* A block is moved for the second time once and for all.
LEMMA OutlivedStays ==
  ASSUME outlived, [Next]_vars
  PROVE outlived'
BY ZenonT(30) DEF Next, vars, Execute, AllocTab, pint_enqueue_nb_future, ExecuteAgain,
   ThreadReturns, WalkLive, WalkFree, WalkBeyond, CopyBlock, PatchRef, WalkDone,
   pint_handle_future_nb, EndActive, ResetArena, KeepArena, StartCompact, EndCompact

\* Through its entry each pending assignment finds the value assigned last, in a
\* live block of the current arena, whatever was executed, handled and compacted in
\* between, until an arena is full or the kernel moves a block for the second time.
THEOREM MemValueKept == Spec => []ValueKept
<1>1. exhausted \/ outlived \/ ValueInv => ValueKept
  <2> SUFFICES ASSUME ValueInv, stage # "compact", NEW s \in Pending
               PROVE Kept(s)
    BY DEF ValueKept
  <2> SUFFICES ASSUME NEW a, a = Target(s)
               PROVE /\ a \in Addr /\ a[1] = cur /\ a[2] < _mem_chunk_head[cur]
                     /\ tab[cur][Block(a).tab] = [type |-> CROSS_T, p |-> a[2]]
                     /\ Block(a).val = want[s]
    BY DEF Kept, Target
  <2>1. Link(a, s)
    BY DEF ValueInv, Values, KeptOK, Ready
  <2>2. a[2] < _mem_chunk_head[cur]
    BY <2>1, Heads DEF Link, Given, ValueInv, MemInv
  <2> QED
    BY <2>1, <2>2 DEF Link
<1>2. Init => exhausted \/ outlived \/ ValueInv
  BY ValueInvInit
<1>3. (exhausted \/ outlived \/ ValueInv) /\ [Next]_vars
        => (exhausted \/ outlived \/ ValueInv)'
  BY ValueInvNext, ExhaustedStays, OutlivedStays
<1> QED
  BY <1>1, <1>2, <1>3, PTL DEF Spec

=============================================================================
