# A TLA+ model of the PLS run time

PLS (`src/README.md`) is a Verilog simulator built on Icarus Verilog: the
upstream front end elaborates a design, the back end `src/tgt-pint` compiles it
to C, and the generated program is linked with the run time in `src/simu` and
executed either on the host (`CPU_MODE`, sequential, the default) or on a
many-core accelerator (`PINT_PARALLEL_MODE`). This directory models the run
time's scheduler in both builds, its memory and files, what the generated threads
do to them, and the threads of the code generator itself.

## Inventory

| Component | State | Operations | Interacts through |
|---|---|---|---|
| main loop (`simu/src/main.c`, `main`) | the queues `pint_q_base/head`, `pint_stop`, `T` | five stages: active/inactive and static table, nonblocking assignments, `#0`, `$strobe`, next time | calls threads, swaps the queues, starts the ncores |
| active phase (`execute_active_q_thread`, `pint_add_list_to_inactive`) | ACTIVE and INACTIVE queues, `pint_enqueue_flag` | dequeue, run, wake the LPMs of a changed signal | atomic adds, test-and-set bits, late writes, private caches |
| events (`pint_wait_on_event`, `pint_move_event_thread_list`) | `thread_num` (lock and capacity), `thread_head`, `thread_list` | wait, trigger | swap lock shared by all cores |
| static table (`execute_static_*`) | `static_event_list_table`, `pint_event_flag` | always blocks with one `@(...)` | filled by changes of signals, drained by stage 1 |
| nonblocking assignments (`pint_nb_*`) | `pint_nbq_base`, pending bits, `updt_cnt/updt_idx` | queue once, apply in stage 2 | the bits are shared with the LPMs' |
| future queues | `pint_future_q`, `pint_lpm_future_q` and their entries | delay a thread, an assignment or an LPM; release the earliest | unordered arrays searched by stage 5 |
| memory (`pint_mem_*`) | three arenas, references | allocate, free, compact | compaction between two times |
| edges, 4-state values (`edge*`, `pint_net.*`) | none | pure functions | used by all generated code |
| system tasks (`pint_vpi.c`, `cpu_adapt.c`) | descriptor table, VCD state | `$display`, `$fopen`, `$readmem`, ... | messages from device to host |
| PLI mode | change lists of the ports | handshake with the host per step | interrupts |
| code generator (`tgt-pint`) | design data base | emits threads, LPMs, lists, array sizes | the run time relies on its lists and bounds |
| - its analysis threads (`pint_dump_process`) | `par_anls_task`, `par_mult_anls_ret`, `par_end_task` | give out processes, analyse, show in order | three mutexes, three condition variables |
| - fork and join (`show_fork_join_stmt`) | a counter per fork, the children's `pc` | start the children, count them off, wake the parent | queues of the run time |
| - shadows (`pint_proc_mult_*`) | `TMP`, `MASK`, `FLG`, `UPDT` of an invocation | copy at entry, assign, store at `PC_END` | the shared signal or array |

Hard behaviours: cores that interleave on queues with nothing but atomic adds
and bits between them; writes that leave a core late and caches that are
discarded by hand; counters that go below zero; a lock word that doubles as a
capacity; unordered future arrays with removal by swapping; the order of five
stages that re-enter one another; tables filled while they are drained; blocks
that are moved while others point to them; copies of shared signals that are
written back later. The list with lines is `hazards` in `PROJECT.json`.

What makes each component correct: a thread is dispatched once per queueing and
never lost (active phase, events, main loop); every continuous assignment is a
function of its inputs when a phase ends (active phase); the stages run in the
stratified order, and delays are kept (main loop); a waiter is found by the next
trigger (events); an update is applied once (nonblocking assignments) and to every
word (arrays); a block keeps its value while it is in use (memory); exactly the
sensitive processes run for a change (edges); a descriptor leads to its file and
a reader ends (files); a parent resumes once, after its last child (fork); every
bit holds what it was last assigned (shadows); the output is complete and in order
(analysis threads).

## Modules

**PintActive** - stage 1 in the parallel build. One action per shared access of
a core: `pint_dequeue_thread` (the atomic add) and `FetchThread` (the read of the
slot), `pint_enqueue_flag_clear`, `ReadSignal`, `DriveSignal` (compare and
write), `WriteCompletes` / `pint_wait_write_done`, `ClaimThread` (the
test-and-set per list entry), `ReserveSlots` (the atomic add), `StoreThread`,
`ReturnThread` (with `pint_dcache_discard`); and the mcore's `StartParallel`,
`RunSingle`, the swap and `NextTime`. A task is identified with the signal it
drives; what an LPM computes is the constant operator `Eval`, what a process
drives is free. The memory system is external: a write is buffered until it
completes, a read is cached until the next discard. The mcore discards its cache
after a parallel phase, not after a thread it called itself. `pint_global_init` queues only
the LPMs in `NeedsInit` (pint.c:4979). The queue arrays have `QLen` slots, and the module
assumes of it what `thread_q_len` gives, one per process and LPM; a reservation beyond the
array takes the unit to the state "overrun", after which the code writes over whatever
follows the array and the model goes no further with that unit.

**PintEvent** - one event with `pint_lock`, `pint_unlock`,
`pint_wait_on_event` and `pint_move_event_thread_list`, each shared access one
action, under a small phase loop (take a thread, barrier, swap, next time). The
history variable `stale` records that a trigger took the lock with a count that was
no longer the head: the properties that hold without such a trigger are stated with
it as the exception.

**PintMain** - `main` in the sequential build: the five stages, every queue, and
one action per scheduling statement of a thread (assignment, nonblocking
assignment with and without delay, `$strobe`, `$finish`, `#d`, `@(s)`, the two
states of a delayed LPM). Queues are sequences as long as their heads; the
future arrays are sequences with the code's removal by swapping. Stage 5 first
moves the time (`AdvanceFuture`, `AdvanceLpm`) and then takes out what is `Due`, one
entry per step from the last to the first (`ReleaseFuture`, `ReleaseLpm`), until none is
left (`ReleaseDone`); nothing else happens in between.

**PintStatic** - the parallel pass over the static event table. A core reads the
total (`ReadTotal`), computes its share (`div`, `mod`, `num`, `off`) and looks at
its items (`Examine`, `ClearFlag`); up to `STATIC_SWITCH_MODE_SIZE` items it runs
them itself, beyond it screens them (`Collect`, `Publish`), meets the others at the
barrier (`Sync`) and runs what is on ACTIVE_Q (`DequeueActive`). A thread may cause
an edge that appends a list (`RunWithEdge`, `StoreList`, `StoreSize`, three shared
accesses), in either mode. A core that starts late reads the raised total, and an item it then
looks for may not be stored yet: it ends in the state "fault". The packed word `static_event_list_table_num` is a pair of entries and
items. What a core finds in an entry is what was stored there, in an earlier pass
too: the walk over the sizes does not know where the table ends.

**PintNb** - nonblocking assignments to words of arrays. A core assigns a word of
the copy (`AssignWord`), searches `updt_idx` (`ScanNoted`), loads the count and tests it
(`LoadCount`), stores the place and the count (`NoteWord`), and takes the pending bit and
queues the array (`QueueArray`); between any two of these another core may come. The count is loaded
once, as the compiler does with `-O2` (simu/CMakeLists.txt). The history `raced` holds the arrays of which
two cores had loaded the count at once. Stage 2 (`StartUpdate` to
`EndUpdate`) copies the noted words, or the whole array when the count says so.

**PintMem** - the arenas of `pint_mem_*` and the delayed nonblocking assignments
that live in them. `AllocChunk` and `AllocTab` are the two atomic adds of an
allocation, with the branches of a full arena (`Offsets`: the offset becomes 0, and the head,
read again after the add, may have been raised by others); a block goes to
`pint_enqueue_nb_future`, waits across time and is freed by `pint_handle_future_nb`. A statement may
be executed again while its entry is pending: the entry then leads to the new block and the
old one stays behind. Between two times the cores compact an arena that is more
than half full (`StartCompact`, `Walk*`, `CopyBlock`, `PatchRef`, `EndCompact`), each in
its part of the table (`loop_size`, `offset`); a table that was full has a head beyond its
end, and a core that walks there (`WalkBeyond`) is not followed. All blocks have one size. The histories
`exhausted` and `outlived` record that an allocation found its arena full and that a
compaction moved a block for the second time.

**PintFd** - the file messages of `cpu_adapt.c`: `Fopen`, `Fclose`, `Fwrite`, `Fseek` (with
`$rewind` and `$ftell`), `Feof`, `Fgets`, `Fgetc`, `Ungetc`, on a descriptor that is a word of
W bits with one or two bits set (`Words`; a shift by the width is any of the two outcomes a processor
gives) and is decoded by counting shifts. A channel can be used after it was closed; the host has
then perhaps given its number to another file, and the history `strayed` says which files were met in this
way. `Fgetc` at the end of a file reads nothing, answers 0 and leaves the position; `Ungetc` writes
whatever byte it is given one position back; `Fgets` skips a whole line, sends what fits the register
and overruns its buffer with a line that is longer still (the state "undefined"). The host's files and
descriptors are external.

**PintEdge** - operators only: the five functions that find an edge, the slices of the
s_list, e_list and array lists that an edge selects, and, as the reference, the edges
of the Verilog standard and the entries sensitive to a change.

**PintSignal** - a signal or an array with all that assigns it: assignments that
go to the signal at once (`Direct`, by each of the five kinds), and processes that work on
a copy and store it at `PC_END` (`Enter`, `Assign`, `FindEdge` and `Store` as two steps, between which
other cores store; `LeaveUnchanged`). A change runs the slices that PintEdge gives for its
edge. The constant `Designs` says who assigns the signal and how, with a shadow or without
(`others`), on one core or on several; `sig` is compared with
the history `value` of the completed assignments. A masked store is one instruction (`uap.shm`) for signals
of up to four bits and several for wider ones (pint_net.h:3669-3672), so designs on several
cores have narrow signals (`NarrowAssumption`). The histories `stale` and `lost` record that a copy is out of
date and that a process without mask stored one.

**PintFork** - the generated code of a fork: the parent queues its children, sets
its `pc` and counts itself off; each child delays, ends, counts itself off, wakes the
parent if it was the last and only then resets its `pc`.

**PintPar** - the threads that analyse the processes of a design while it is
compiled. One action per critical section, with the wait of a condition variable as
a state of its own that a signal, a broadcast or a spurious wake-up leaves.

**PintRegions** - what the scheduler promises: a stratified event queue.
`PintMain` implements it under the mapping at its end (`Stratified`): a region is what is
left in the queues main will still drain for it, the static table and the running thread belong
to the active region, and what is due at a new time is released there as soon as the time has
moved, before main has taken it out entry by entry. Two things
the code does are part of the promise and worth knowing: with nothing but
delayed LPMs pending the simulation ends (`Background`), and the final time is
not kept.

**PintActiveProofs**, **PintEventProofs**, **PintMainProofs**, **PintNbProofs**, **PintForkProofs**,
**PintMemProofs**, **PintSignalProofs**, **PintParProofs** - the theorems about the module in their name.

**MCPintActive**, **MCPintMain**, **MCPintStatic**, **MCPintNb**, **MCPintMem**, **MCPintFd**,
**MCPintSignal** - the small designs for TLC.

Definitions named as mutants in their comments are broken variants of the
definition that follows them; they are used to test that the properties can
fail and are part of no specification.

## Runs

| Run | Instance | Result |
|---|---|---|
| active | 2 ncores + mcore, 2 processes, 3 LPMs, two of them reconverging and one not queued at the start, 2 time steps, the 5 slots of `thread_q_len` | passes, `Quiesces` |
| event | 2 cores, 2 waiters, 2 triggers, 2 time steps | passes, `PhaseEnds` |
| event_race | 2 cores, 2 waiters, 1 trigger, 3 time steps | `NoThreadLost` violated |
| main | 2 processes, 2 static threads, 1 delayed LPM, 1 nonblocking target, 1 strobe, delays 0..2, times 0..2, 4 statements | passes, `Stratified`, `Terminates` |
| static | 2 cores, 4 always blocks, up to 3 lists of 1, 2 and 4, 2 passes, 1 edge per pass, in strides and while screening | passes, `PassEnds` |
| static_lost | stride mode, a block that drives another block's signal | `NoEntryLost` violated |
| fd | words of 5 bits, 4 files opened and closed before, 2 more opens, files with empty, ended, unended, long and very long lines, one that cannot be opened, registers of 2 bytes | passes, `ReaderEnds` |
| nb | 2 cores, an array with more words than places assigned by both and one assigned by one; both update; 2 steps | passes |
| mem | 2 cores, 2 statements, 4 executions, 3 blocks per arena, 2 compactions | passes; full arenas occur |
| fork | 3 cores, 3 children, 3 rounds | passes, `JoinAfterAll`, `Joins` |
| par | 2 workers, 4 processes | passes, `Completes` |
| signal | bit 0 in 0, 1, x, z and one bit above; lists of 0..2 entries of each sort; 2 processes with shadows, with and without masks, and assignments without shadow, in sequence and on 2 cores | passes |

Except in PintActive, a module's type invariant is a conjunct of one of these invariants.

Bounds. `MaxT` bounds the time (two advances are enough to meet a thread that
was delayed across a step), `Fuel` the number of statements threads execute
(four let two processes suspend, resume and interfere through one signal),
`QLen` the queue arrays: it is what `thread_q_len` gives, a slot per process and LPM. The network of MCPintActive is the smallest where one change
wakes an LPM along two paths, with an LPM that `pint_global_init` does not queue. It is too small to overrun its
slots, which takes a chain of four LPMs each of which wakes all the later ones; what holds with and without an overrun is proved.
In PintStatic `Cap` is the length of the table, `MaxPass` the number of passes
(two, so that a pass meets the stale entries of an earlier one), `MaxEdges` the
lists appended in one pass and `MaxItems` the items whose visits are counted; with
two cores both remainders occur, and `PINT_NCORE_LIST_SIZE` 2 lets a core's list
fill up and be flushed. In `static` the limit `STATIC_SWITCH_MODE_SIZE` is 3, so that
tables below it are walked by stride and the larger ones screened; the block that causes an edge is in a
list of each kind, so that lists are appended in both modes and the total can cross the limit
while cores still read it.
In PintNb the places of `updt_idx` (16 in the code) are fewer than the words of an
array, so that an array overflows. In PintFd `W` (32) is 5 and the run starts when the design has had `Before` = W - 1 files open and has
closed them (MCPintFd): the two opens of the run are then the one whose word is 1 shifted by the width and the first of the second row,
and there are closed channels to use by mistake. The last two words of `TotalOpens` = 2W - 1, excepted in `RoundTrip`, are not reached. Two opens are enough to reuse a descriptor; a written file has one byte
(`MaxLen`), so that gaps in a file are not written. These sizes are uniform in
the code: no branch depends on them beyond being reached or not. In PintMem the
arenas are smaller than the bounded number of blocks (`Cap`, `MaxExec`), so that they fill up. PintPar gives each worker two processes, which
lets the result map fill up (`PINT_PAR_ANLS_NUM`) while the output thread waits for an
earlier one. In PintSignal two entries of a sort tell the first, the last and the
number of a slice apart; the edge functions look at bit 0 and at equality only.
Deadlock is checked in `fork`, `par` and `signal`; elsewhere a finished simulation stops,
and so does a bounded one.

Fairness. Weak fairness of each unit and of the mcore: a started ncore executes
instructions until it parks, writes complete, the mcore leaves the barrier. A
core that spins in `pint_lock` is disabled in the model until the word is
non-zero; the other cores' fairness, not the lock's, makes it progress, which
holds for the bounded number of lockers of a phase. In PintMain the single
processor makes progress and a thread's body returns. In PintStatic each core and
the mcore are weakly fair, as in PintActive; the barrier releases the cores once all
have reached it. In PintFd the design's read loop goes on. In PintFork cores and the
mcore are weakly fair. In PintPar each thread is strongly fair: a spurious wake-up
sends a thread back to its wait and the mutexes are taken and released again and again, so that
its next step is enabled infinitely often, not continuously; a pthread mutex that is
released infinitely often is granted.

Two runs show a disagreement between the code and a comment, quoted in `PROJECT.json`.

* `event_race` (the wait statement, `tgt-pint/statement.c:514`): the trigger reads
  `thread_head` (main.c:243) before it takes the lock, and a waiter that joins in
  between is dropped by `thread_head = 0`.
* `static_lost` (the same comment): the cores read the total of the static table once (main.c:502), and
  main discards the table after the pass (main.c:778) with the lists that the pass itself
  appended; the sequential build re-reads the bound and serves them.

Exceptions in what passes. No constraint or hypothesis keeps the failing cases out, except for the wide signals of
`NarrowAssumption`; the bounds keep out the queue overrun and the 62nd and 63rd word. Where the code fails, the property names the case, as narrowly as the model can tell it, and holds
in all others:

* `KeptUnlessStale`, `MovedOnce`: a trigger with a stale count (main.c:249).
* `NoFault`, `FlagMeansPending`, `Settled`, `Quiesces`: a batch that went beyond the queue array
  (pint.c:4873). `OverrunAtStart`, proved below, says that this can only happen before the time first advances, since from then
  on the bits bound the runs that wait. `Settled` also excepts an LPM that was not queued at the start
  and whose inputs still have their initial values.
* `NoWildRead`, `PassEnds`: a core that read the total after a thread of the pass had raised it,
  looking for an appended item (pint_simu.c:314); for `PassEnds` also such a core that screens while the
  others stride (main.c:511).
* `ChangeNoted`, `Updated`: an array whose notes two cores made at once (pint_simu.c:263). An increment is lost, and the
  array is updated in part although the comment at `updt_cnt` (pint_simu.h:132) has all of it updated.
* `RoundTrip`: the 32nd word is 1 << 32, the 62nd 0 and the 63rd another file's, while cpu_adapt.c:349 speaks of 63 files.
* `InputKept`, `ReadsWhole`, `ReaderEnds`: a `$fgetc` at the end of the file, whose `$ungetc` writes a zero over
  the last byte (a loop that peeks each time then never ends), a design that puts back another byte,
  and a file met through a channel that was closed. `ReadsWhole` excepts the bytes of lines longer than the register,
  `ReaderEnds` lines longer than the host's buffer.
* `BlocksApart`, `EachMovedOnce`: an arena that was full. `ValueKept`: also a block moved for
  the second time, whose `pint_future_thread[].nb` leads to an arena in use again (main.c:201), while `CROSS_T`
  (pint_simu.h:334) is to cross T with its reference.
* `Receives`: a process on several cores without mask, an invocation of which assigned nothing, stored its old
  copy (pint.c:530).
* `StopsWhenIdle`: the delayed LPMs, which stage 5 does not look at (main.c:952). What a waiting process waits for
  may be a change of theirs.

## Proofs

`PintActiveProofs` proves for every set of cores, network, queue length and time
bound allowed by the assumptions of PintActive:

* `TypeCorrect`: `Spec => []TypeOK`. `TypeOK` is not inductive: that a driven
  value is a value needs that a unit past `fetch` runs a task and has read its
  inputs, that only a running unit has a pending write, and which units run in
  which state of the mcore. These are the conjuncts `CurOK`, `WbufOK` and
  `PhaseOK` of `TypeInv`.
* `DispatchSafe`: `Spec => []NoDoubleDispatch`. The strengthening `DispatchInv`
  says that the index of every running unit lies above the head, and that while
  the mcore runs a thread no ncore does.
* `BatchesSafe`: `Spec => []NoSlotClobber`, with `BatchInv`: batches lie below
  the head as reserved, and the swap finds no batch open.

* `FaultFree`, `FlagSafe` and `SettledSafe`: `[]NoFault`, `[]FlagMeansPending` and
  `[]Settled`, for queues of the length the code allocates. The properties hold until a
  batch overruns the array, and the invariant is proved in the form `Overrun \/ ActiveInv`.
* `LaterNoOverrun`: `Spec => []OverrunAtStart` for queues of the length the code allocates. When the time first
  advances no run is left; from then on (`LaterOK`) an LPM has one run to come if its bit is set and none if not,
  and a slot per thread is enough (`SlotsFitOnce`).
* `NoOverrunIfLong`: with a second slot for every LPM (`LongEnough`) there is no overrun. The code
  does not reserve these slots, so this theorem says what is missing and the others do not use it.

The last five share the invariant `ActiveInv`. It counts the runs of an LPM still to
come, wherever they are: entries of ACTIVE not started (`OnActive`, the slots that a unit
has dequeued and not yet cleared included), entries of INACTIVE that are stored
(`OnInactive`), and what units have claimed and not stored (`InHand`). `CountOK`: there are at
most two, and at most one while the bit is clear; a process is queued at most once. By
the pigeonhole principle (`SlotsFit`, `ReserveFits`) a reservation then stays within the array
(`HeadOK`), if the array is long enough, and no unit finds an empty slot (`UnitsOK`). `FlagOK` says what a set bit stands for,
and in particular that once a unit has started an LPM whose bit is set, a *later* run of it
is on its way; without this `Settled` has no inductive form, since a core that finds the bit
set relies on a run that must not have read its inputs. `CacheOK`, `FreshOK` and `WriteOK`
say what a unit has read and is about to write: the values in memory, unless a run of the
LPM is owed (`Owed`: a later run, or a unit that changed an input and has not yet reached the
LPM in its list). `SettledOK` closes the argument: an LPM whose output is not its function
has a run to come or under way. The proofs rest on one lemma per action on where the runs
are (`DequeueRuns` to `TimeRuns`).

The assumptions of PintActive are disjoint finite sets of tasks and
cores, lists and inputs over the declared tasks, `Eval` a function of the inputs, and
that the code generator lists an LPM at each of its inputs.

`PintEventProofs` proves `EventLockExcludes`, `EventKeptUnlessStale` and `EventMovedOnce` for any
number of cores, waiters and triggers. The word that is both lock and capacity is zero
exactly while a core works under the lock (`Excludes`); each core's thread and counts fit its
place (`PlaceOK`), a slot that a trigger may come to read holds a waiter (`SlotsOK`), and the empty
slots of INACTIVE_Q are those the core with the lock has still to fill (`QueueOK`). These
hold always; `OnceOK`, that each waiter is in exactly one place (`Kept`, `Apart`, `Single`), holds as long
as no trigger has taken the lock with a stale count.

`PintNbProofs` proves `NbChangeNoted` and `NbUpdated` for arrays and places of any size and any number
of cores, any of which may assign any array. The invariant `NbInv`
follows a word from the store to the copy through the search, the load of the count, the note and the pending
bit to the update (`FoundOK`): in an array that did not race the difference is noted, covered by the count having
passed the places, or in the hands of a core. `CoreOK` says why a race is the only exception: the count that a core is about
to store is up to date, and no other core is about to store one, unless the array has raced. That a listener runs once
per changed word (`WokenOK`) holds in raced arrays too.

`PintForkProofs` proves `ForkOneCopy`, `ForkFreshStart` and `ForkJoinAfterAll` for any number of cores,
children and rounds. In `ForkInv` the counter counts the children that ended while
the others are queued, delayed or in their body, and every thread has one place; a child that the parent forks again
before its previous run has reset its `pc` is the case that makes `FreshStart` hard.

`PintSignalProofs` proves `SignalReceives` and `SignalRunsSensitive` for every set of
processes and words, lists of any length and any mix of assignments, processes without mask on several
cores included, for narrow signals where there are several cores (`NarrowAssumption`). The pure part comes first:
`EdgeDecided`, each of the five functions agrees with the standard's edges, and
`SliceIsSensitive`, the slice cut for an edge holds the sensitive entries. `Receives` is
not inductive: it needs that the mask is what the invocation assigned (`MaskMade`) and,
without a mask, that the copy is the signal unless it is stale (`Alone`, `Copied`, `StaleHow`) or the
invocation assigned all of it (`MadeWhole`), so that storing all is storing what was assigned (`WithSame`) except
where `lost` is set. `Found` says that the edge is still that of the
store when the store happens.

`PintParProofs` proves `ParOnePlace` and `ParInOrder` for any number of workers and
processes. The invariant `ParInv` states `OnePlace` process by process (`Placed`, `Apart`) and adds
where each thread is (`ThreadsOK`) and that a result on its way is that of its
process (`ResultsOK`): an analysis that ends changes no result that was handed on, since
its process is nowhere else. Most steps move nothing (`Still`); the six that do have a
lemma each.

`PintMemProofs` proves `MemBlocksApart`, `MemEachMovedOnce` and `MemValueKept` for any number of cores, statements,
executions and compactions and arenas of any size. Once an arena is full only the types are left
(`LooseOK`); until then `MemInv` holds, so the invariant is `exhausted \/ MemInv`, and for the value
`exhausted \/ outlived \/ ValueInv`: the first compaction patches the
info in the arena it leaves, where `pint_future_thread[].nb` still points, and the second
one hands that memory out again. In `MemInv` the two heads differ by the cores between the two
adds of an allocation (`HeadOK`); the blocks of those cores, of the cores filling a block and of the table's
entries are apart (`OwnOK`, `EntryOK`, `BackOK`); during a compaction each core is at a point of its
slice and has copied the live entries before it (`WalkOK`, `MovedOK`). The arithmetic of the slices
is on its own: `SlicesApart`, `SliceInside` and `SlicesCover` say that the quotient, the rest and the offsets of
pint_simu.c give every entry of a table of any length to one core. `ValueInv` adds the way from a pending
assignment to its block: an assignment has a live block of its own (`KeptOK`, `StmtOK`), a new info is in the
block itself (`InfoOK`), a live block, one that a later execution left behind too, has its reference there or in the arena it was
moved from (`RefOK`), and during a compaction the old block keeps the value until the copy is filled in and the info
patched (`MovingOK`). `CountOK`, the counter counts the live entries, is what makes `ResetArena` safe.

`PintMainProofs` proves all safety properties of PintMain for every design (any finite sets of
processes, LPMs and nonblocking targets, any static threads and lists), any delays and any
bounds on time and statements, and that PintMain implements PintRegions. The assumptions are
`MainAssumption` (the lists are over the design's threads) and `NamesAssumption` (the parts
are finite and disjoint), which TLC evaluates on the run's design. `MainInv` consists of

* `QueueOK`, what each queue can hold;
* `StageOK`, where main's counters are and which queues it has found or left empty on its way
  through the stages, which is what the order of the regions rests on;
* `TimeOK`, nothing pending is overdue;
* `PlaceOK`, a process has at most one place and one entry on the list of one event;
* `FlagOK`, `BitMeansQueued` and at most one entry per `$strobe`.

`OnePlace` alone is not inductive: a trigger moves a whole list of waiters, so the count on each list
is needed besides the number of lists, and `StageOK` says which part of ACTIVE_Q is still to
run. The proof counts: `Count(s, t)` is a cardinality, and the lemmas at the start say how
it changes under `Append`, concatenation, `SubSeq`, removal by swapping and enumeration
(`CountAppend` to `Enumerates`). For each action there is a lemma on types, stages and times (`...Shape`)
and one on the places and bits (`...Moves`), which gives `Kept`: a step leaves the number of places of
every process that does not run as it was. From these follow `EveryProcessOnePlace`,
`BitsMeanQueued`, `NoProcessDropped`, `ProcessesOnTime` and `EndsWhenIdle`.

`LoopIsStratified` (`Spec => Stratified`) has a third lemma per action (`...Refines`). A
statement of a thread, an entry of the static table, a nonblocking assignment and a `$strobe` are
`Execute`; leaving stage 1 with assignments queued is `ActivateNba`, stage 3 `ActivateZero`, the step
to stage 4 `ActivatePostponed`, the advance of the time `Advance`, the end `Stop`; every other step of main
shows in no region. `TableLeft` and its lemmas say what is left of the static table while
lists are appended to it.

Only model-checked: PintStatic, PintFd and all liveness properties (`Terminates` among them),
which are beyond the prover. In PintStatic the table is filled with `FlattenSeq` and held by a
recursive function, and in PintFd a descriptor is decoded by the recursive `Shifts`, the inverse of a
power of two: what these return for every table and word needs an induction over data, and
the properties of both modules rest on it.

## Not modelled

The Verilog front end and the other Icarus back ends (upstream code, the bulk of
the repository); expressions, data-flow analyses and `force` of the code generator;
the arithmetic operators of `pint_net.*`; VCD, `$display` and `$readmem` (formatting
and I/O); performance counters; PLI mode, whose host side is not in the repository.
In the modelled parts: SUB_T_CLEAR blocks and blocks of different sizes (PintMem), what a program does after
undefined behaviour (an overrun queue, a walk beyond a table, an overrun buffer), reads of the
terminal (PintFd), masked stores of wide signals on several cores (PintSignal), a failing
`pthread_create`, which ends the program (PintPar, pint.c:2196-2199), nested forks, the shadows of MULT_SIG_2 and of arrays
(MULT_ARR_23), where a changed word of more than four bits is recognised by the edge of its
bit 0 (pint.c:698). `PROJECT.json` names
every part.

## Plan

Done, in this order: PintActive with its first theorems, PintEvent, PintMain with
PintRegions, PintStatic, PintNb, PintMem, PintFd, PintFork, PintPar, PintEdge and
PintSignal.

Then the theorems on PintSignal, PintPar, PintFork, PintEvent, PintNb, PintMem, those on the
flags, the queues' bounds and the outcome of PintActive, and the theorems on PintMain with
its refinement of PintRegions.

Left: the partition of PintStatic's items, the composition of PintStatic with the swap of
PintActive, and `force`.
