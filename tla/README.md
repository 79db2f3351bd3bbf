# A TLA+ model of the CG-OoO simulator

The repository is a cycle simulator for three processor cores: an in-order one
(`ino`), an out-of-order one (`o3`) and CG-OoO (`bb`), which schedules whole
blocks.  A binary translator prepares the program for CG-OoO, a Pin front end runs
the program, injects wrong paths at mispredicted branches and hands instructions
to the core, and the core is a ring of stages called once per simulated cycle.
This directory holds TLA+ modules that model its control, the TLC configurations
that check them on small instances, and TLAPS proofs.

All paths below are relative to `src/src/` of the repository.

## 1. Inventory

| component | state it keeps | operations | what makes it correct |
|---|---|---|---|
| o3 register renaming: `backend/unit/registerRename.cpp`, `backend/o3/rfManager.cpp` | speculative and committed alias tables, state and `_prev_pr` of every physical register, free list | rename, readiness test, complete, commit, squash recovery | free list exact; one owner for each register; sources name their producers; the tables survive a squash |
| o3 pipeline: `backend/o3/{sysCore,fetch,decode,schedulers,execution,memory,commit}.cpp` | instruction queue, ports, reservation station, units, ROB, pipe state, squash number and type | one handler per stage, `completeIns`, `squashCtrl`, two recoveries | right path committed once and in order; nothing lost by a squash; the oldest culprit is the one squashed |
| o3 load/store queue: `backend/o3/{lsq,memManager}.cpp` | two queues, a state per entry | reserve, address, disambiguate, violation search, commit, squash | queues agree with the ROB; committed stores survive a squash; perfect disambiguation never squashes |
| CG-OoO core: `backend/bb/`, `backend/unit/{dynBasicblock,bbInstruction}.cpp` | block ROB, block windows, per-block counts and flags, permits to run ahead | block fetch, window allocation, issue from window heads and behind them, block commit and squash | blocks commit whole and in order; windows are not leaked; local values are handed over in order |
| CG-OoO register files: `backend/bb/{registerRename,grfManager,lrfManager}.cpp` | segmented global file with a free list per segment, local files with busy states | rename by segment, complete, commit by block, squash | as for o3, in every segment |
| in-order core: `backend/ino/` | scoreboard, window, ports, memory buffer | issue in order, write back, squash | no read before its producer; the core does not stop |
| front end: `frontend/{pars,uOpGen,memlog,bkEnd}.cpp` | semaphores, wrong-path flags, saved context, memory log, code or block cache | trace, predict, start and end a wrong path, hand over | excursions leave no mark; the threads take turns; every right-path instruction is handed over once |
| shared pipeline state: `global/g_variable.h` | pipe state, squash number, type, code cache | setters used by every stage | the number only falls within an episode |
| ports, tables, wires, units: `backend/unit/` | queues with a delay per entry, wire counts, timers | push, pop, flush, charge a wire | order kept; a flush takes exactly the young end |
| cache hierarchy: `backend/cache/` | lines, replacement bits, a queue of timed actions, requests under way and their dependants, per controller | access, hit, miss, insert, write back, reply | every request answered once and in time; no write lost between levels |
| binary translator: `binaryTranslator/` | flow graph, dominators, SSA stacks, liveness, interference graphs, schedules | block formation, dominance frontiers, SSA, copies, scheduling, allocation, copy removal | the emitted program reads what the original read, on every path |
| branch predictors: `backend/bp/`, `lib/bp_lib/` | tables, history, return stack | predict, update, squash | history restored on a squash |
| static parser, simulation points, signals: `frontend/` | static code tables | parse, count | the static block list matches the binary |
| energy and statistics: `energy/`, `lib/` | counters | count | no influence on the pipeline |

**How they interact.**  Each core's `runCore` calls its stages from the back to
the front: commit, memory, execution, (ROB squash), schedule, decode, fetch.
The stages share the queues between them and `g_var`; there is no other message.
Commit, schedule and execution call the register file managers and the load/store
queue; the memory stage asks the cache hierarchy for a latency and waits for it
with the clock of the core standing still.  Front end and core are two threads
handing over with semaphores; the core runs only when the code cache is full
enough and no wrong path is being traced, and returns when fetch runs dry in the
normal state.  The translator runs beforehand; only its output file is read.

**What is hard.**  Execution completes in any order while five stages read a pipe
state that execution alone changes, and that the stages called before it see a
cycle late.  A culprit may be found while an older squash is under way, or an
older one while a younger is.  Each stage flushes its own queue, and only the
instruction queue remembers what was in flight.  Register recovery rebuilds four
tables from one.  In CG-OoO instructions run while blocks are fetched, committed
and squashed, so that a block may be half dispatched, half fetched or half
complete when it is put back.  The front end executes wrong paths for real and
must take them back.  A cache action holds on to lines and entries over many
cycles.  The translator's passes each rely on facts an earlier pass established
and a third may have broken.  `PROJECT.json` lists the hazards at their lines with
the properties that cover each, or why none does.

## 2. Modules

| module | what it is |
|---|---|
| `O3Rename`, `MCO3Rename` | out-of-order renaming: the two tables, the register file, the free list, under the calls the stages make |
| `O3Rename_proofs` | its invariants and its action property, proved for every size |
| `InOrderCommit` | the abstract specification of a core: the right path is committed in order (`SafeSpec`) and completely (`Spec`) |
| `Queues`, `Queues_proofs` | what a stage does to a queue (take the front, flush the young end, filter, put in order), the lists of registers of both renaming models, and the lemmas about them |
| `O3Core`, `MCO3Core` | the out-of-order pipeline and its squash machine, implementing `InOrderCommit` |
| `O3Core_proofs` | its inductive invariant, a lemma for each stage, its properties and the safety of its refinement, proved for every program and every size |
| `InoCore`, `MCInoCore` | the in-order pipeline, implementing `InOrderCommit` |
| `InoCore_proofs` | its inductive invariant, its scoreboard and the safety of its refinement, proved for every program and every size |
| `BBCore`, `MCBBCore` | the CG-OoO pipeline, implementing `InOrderCommit` block by block |
| `BBCore_proofs` | its inductive invariant, a lemma for each stage, its properties and the safety of its refinement, proved for every program and every size |
| `BBWindow`, `MCBBWindow` | its block windows, issue logic and local register files |
| `BBWindow_proofs` | its invariants, proved for every set of programs and every size |
| `BBRename`, `MCBBRename` | its segmented global renaming |
| `BBRename_proofs` | its invariants, proved for every size and segmentation |
| `Application` | the instrumented program by itself, the abstract specification of the front end: `SafeSpec`, and `Spec` with its progress |
| `FrontEnd`, `MCFrontEnd` | the two threads and the excursions down wrong paths, implementing `Application` |
| `FrontEnd_proofs` | the taking of turns, the safety of its refinement and the tracing of the right path, proved for every program |
| `CacheHierarchy`, `MCCacheHierarchy` | caches, DRAM and the messages between them |
| `Translator`, `MCTranslator` | the passes of the binary translator, and its output run beside its input |

Each of the three cores implements the same abstract specification, and
`BBCore` relies on `BBWindow` and `BBRename` for what it abstracts: which
dispatched instruction may issue, and where its operands are.  `O3Core` relies on
`O3Rename` in the same way.

### O3Rename

A state variable for each field of `o3_registerRename`; `rob` holds the operand
lists `o3_rfManager` writes into the instructions between dispatch and commit.

- `renameRegs` is one `o3_rfManager::renameRegs` behind its `canRename` test.
  Sources are looked up first, then each destination pops the free list, takes
  the old mapping as `_prev_pr` and becomes the mapping.  `front` is the
  destination list of the instruction at the front of the decode port; it is part
  of the state because the liveness property is about the one that waits.
- `isReady` is the issue of an instruction all of whose sources are readable,
  `completeRegs` the write-back.
- `commitRegs` retires the oldest one: previous registers are made available and
  pushed on the free list, destinations become the committed ones.
- `squashROB` and `squashRenameReg` are the two halves of a recovery, a cycle
  apart in the code.

Positions in the ROB replace sequence numbers.  Registers are numbered from 1 and
0 is the null link.  Register values, wires and energy counters are not modelled.
An instruction's destination list is assumed without repetition, which the parser
of the static code does not check.

### O3Core

One action per stage and one cycle per turn of `turn`.  An instruction is its
index in the traced program, wrong-path ones included, as in the code, where the
sequence number of an instruction is fixed when it is traced.

| code | model |
|---|---|
| `commitImpl` | `commitImpl(k)`: the first `k` of the ROB leave ROB, instruction queue and load queue; a committed store stays in the store queue |
| `doMEMORY`, `lsq.cpp`, `memManager.cpp` | `doMEMORY`: finished loads complete, both queues are squashed in a flush, loads go to the cache or to an older store, committed stores go to the cache and leave |
| `completeIns` | a recursive function over the units that are done, oldest first, keeping the oldest culprit; `badInsID` is the function's static variable |
| `squashCtrl` | `squashCtrl`: normal, wait for the units, flush, drain, squash the ROB, normal |
| `bpMispredSquash`, `memMispredSquash` | delete the wrong path and put the rest back; put everything back |
| `schedulerImpl` | dispatch `k` decoded instructions where every table has room, issue `m` ready ones, oldest first |
| `doDECODE`, `doFETCH` | move in order, or flush |
| the instrumentation thread | `frontend`: top up the code cache to any point that is not in front of a wrong-path instruction |

Wires, port delays, and unit, forwarding and cache latencies only decide how much
a stage does in a cycle.  Every stage but fetch, which has no wires, therefore
does any amount its other guards allow, none included; every latency of the code
is among the behaviours.  Left out: operand forwarding from the common data bus
(readiness comes from completion only), more than one reservation station, the
bound of the instruction queue, statistics and energy.  Rename registers are
counted, and readiness read, from the instructions in flight; that this is what
the register file computes is what `O3Rename` shows (`TrueProducers`, and
`InFlightExact`, which is proved).  Squashing is enabled, as
`g_cfg->isEnSquash` is in the shipped configuration.

The end of a program is the code's `FRONTEND_DONE` case: fetch returns for good
when the code cache, the instruction queue and the ROB are empty.  The stages
handle it, but the call that would ask for it is commented out
(`frontend/pars.cpp:227`), so in a simulation the last instructions stay in the
pipe.

### InoCore

The same shape as `O3Core`, with a scoreboard of busy registers, an
instruction window issued in order and a memory buffer in place of renaming,
reservation station and load/store queue.  A culprit is looked for only while the
pipe is in its normal state (`ino/execution.cpp:104`).

Here the write-back is modelled exactly, because it decides how long an
instruction stays in its unit: every unit takes one cycle (`exeUnitLat`), a
memory access waits for room in the memory port and a result for a write wire of
the register file, and both are counted.  Forwarding is disabled and a store
leaves the store buffer in the cycle it enters it, as in the shipped
configuration.

### BBCore

`O3Core` with blocks: `bbQUE`, `bbROB` and `bbCache` hold blocks, `blk` what a
`dynBasicblock` counts and remembers (how many of its instructions were fetched
and are complete, whether it violated, its permit to run ahead), and
`commitImpl`, `bpMispredSquash` and `memMispredSquash` work on blocks.  The
windows are one set of dispatched instructions: any of them may issue whose
register operands are there, and `overtook` remembers of a memory operation that it
left before an older store of its own block, which only a block with a permit
lets it do.

One assumption is about time.  In a block that lost its permit to run ahead, a load
that did not leave its window before an older store of the block (`overtook`) does
not get its data before that store has its address: the computation of an address
takes equally long for both, and the load takes another memory latency
(`hasFinishedIns`).  That a block that commits has been fetched completely, which
`commitBB` asserts, is not assumed but checked (`CommitAgrees`).

A block may have instructions of both paths: the frontend flags a mispredicted branch
itself, and operations it makes up when it closes a block on the wrong path.  The
core is entered between two blocks, the next of which has an instruction of the
right path (`supplyPoints`).

A store that finds a violating load in an older block than the culprit known, or the
first one, makes that load the culprit; if the store is itself on the wrong path,
`completeIns` does not look at it (`backend/bb/execution.cpp:139`).  The squash number
may then be younger than a wrong-path block, which commit will not pass;
`SquashesOldestBlock` makes this one exception.  It is harmless while the block of
the mispredicted branch, older still, is in flight and yet to be found.

The frontend hands over when the cache holds more blocks than `NearEmpty`
(`BB_CNT_THR`) or the trace is at its end (`handedOver`).

### BBWindow

One `turn` per step of a cycle: commit, completion, window clean-up
(`manageBusyBBWin`), dispatch, the scan of the windows slot by slot, squash.  The
scan is as in `hasReadyInsInBBWins`: windows in the order of their heads' blocks,
within a window the head and, with run-ahead issue, a few instructions behind a
stalled one.  Waiting operands leave the wait list for good when found readable
(`lrfManager::isReady`, also once per cycle for all).  The per-cycle sets of
registers that stalled instructions read and write, the flag for loads behind a
stalled store, and the lazy way both are reset are the code's.  Execution is the
time between issue and completion, an operand from elsewhere an instruction named
in `needs`; the recovery picks any block in flight, `MaxSquash` times at most.

With run-ahead issue an instruction may overwrite a local register before a
stalled earlier reader of it in the same window has issued, because the sets are
cleared at the first question of a cycle instead of the first record
(`bb/bbWindow.cpp:128`; line 111 says they are kept to avoid this hazard).  It
changes timing only, since values come from the trace.  `LocalValuesHandedOver`
therefore asks for the order where run-ahead issue is off.

### BBRename

`O3Rename` with a free list per segment and block-granular commit.  A window takes
registers from its own segment first and then round the circle
(`getAvailablePR`); a register goes back to the segment its number belongs to
(`PR2APRindx`).  `windowsFor` gives a new block any free window and an open block
its own.  An instruction keeps a wait list from which readable operands are
dropped for good, and looks at a register of a far segment once per cycle.
`commitBB` frees, for each definition of the block, the register it supersedes,
including those the block itself has defined and superseded.

### FrontEnd and Application

`Application` runs the program by itself: branches go either way, stores go to
memory, system calls to the operating system.  `FrontEnd` runs it instrumented.
The application thread executes, for each instruction, the routines in the order
in which `pin__instruction` inserts them (log the memory about to be written, test
for system calls, trace, end an excursion; after a branch hand it over, trace it
and perhaps start an excursion); the back-end thread predicts and, with enough
blocks traced, runs the core.  Semaphores, `g_appEnd`, `g_wrong_path`,
`g_was_wp`, the flags for invalid stores and the memory log have their names from
the code.  The refinement mapping undoes, in every state, the excursion under way
as `recover` would undo it.

Assumed: the static block list has every branch's successors, and for a block it
lists, once each, the instructions up to the next one, perhaps more
(`StaticBBAssumption`); the CG-OoO variant of block tracing is selected;
instrumentation and wrong paths are on (simulation windows are not modelled).
`pin__doFinish` finishes a semaphore the other thread may be about to wait for; Pin
leaves that undefined and the model lets the call return or not.

### CacheHierarchy

A controller is a set of one cache, a port, a queue of timed actions (`hier.queue`,
`timeActionMap` in the code), and the requests it has under way: the original
entry of each line, the entries that depend on it, and the lines it waits for.  An
action of the queue is executed with everything it calls, messages to other
controllers included, since the crossbar delivers at once: `AccessAction`,
`HitAction`, `MissAction`, `MissReplyAction`, `InsertAction`, `EvictAction`,
`RequestReplyAction` and `handle_deps` have the names of the code.  `access` and
`return` are the two ends of `Driver::request`, `clock` one due action, `tick` the
cycles up to the next.  The code moves no data; the model adds a bit beside each
copy of a line that says whether a memory with data would have the last write
there, so that a lost write-back is visible.  `last_accessed_cycle` is read
uninitialised: each cache may turn away its first access.

Two pieces of the code turn out to be unreachable while the core makes one request
at a time: a write-back never meets a read under way for the same line, which the
merging of requests in `request_cb` is for, and an insertion never finds its port
taken.  Both are in the model, as in the code.

### Translator

One action per pass of `main.cpp`, or per sweep of a pass that iterates until
nothing changes: basic blocks, dominators, dominance frontiers, phi placement,
renaming, copies for phi-functions, liveness, list scheduling, colouring (global
registers, or local and global ones), removal of superfluous copies.  Names are
pairs of a variable and an SSA index.  When the translation is done the original
and the translated program run side by side, block by block, down any path of the
flow graph, and each read is compared: `misread` collects the instructions that
read something else through a name, `misled` those that do through a register.

The conditions in the properties are where the code does not keep what one would
expect of it:

- write-after-read and write-after-write dependences are not kept
  (`instruction.cpp:543` says SSA form needs none), but the copies that replace
  phi-functions write names more than once, so list scheduling can break them:
  `NamesMeetDefinitions` asks for code without copies or without scheduling;
- a copy goes in front of the last branch of its block even when that branch
  writes what is copied (a TODO of `insertMOVop`): `copiesAtEnd`;
- a definition nobody reads has no interference edges and may be given a live
  register: `everyResultRead`;
- liveness and colouring see the order before scheduling, the other order is
  emitted (`main.cpp:106` has the check commented out): only `NO_LIST_SCH` is
  compared;
- `deadMovOpElim` is the violation below.

A known wrong result is in the instance and excluded by name.  `build_dominators`
stops on a sweep that changes no set (`dominator.cpp:26`), but a block whose known
ancestors have nothing in common keeps the set it had, itself, and only drops its
flag on that sweep (`dominator.cpp:57`): the blocks it leads to are not visited again
and keep dominators they do not have.  It takes code that two functions jump into,
and six blocks or more.  `stale` is the set of blocks one more sweep would change, and
`DominatorsExact` claims the exact sets for every block an entry reaches that no stale
block leads to, and nothing for the others.  The graphs `SharedTail` and
`SharedLoop` of `MCTranslator` stop early; without the exclusion `DominatorsExact`
fails on them.  The other properties have no such exclusion and hold on them.

Seen while modelling and kept out by the instance: a branch to its own fall-through duplicates an ancestor (`ProgramsAssumption`);
stores are not ordered behind earlier loads; a branch of type `s` has no
dependence on what precedes it.

## 3. Runs

| run | question | instance; distinct states |
|---|---|---|
| `rename` | do tables, states, links and free list stay consistent, and does a waiting instruction get its registers? | 2 architectural, 3 rename registers, ROB of 3; about 805 000 |
| `core` | does the squash machine lose, duplicate or leave anything, and does the core implement `InOrderCommit`? | programs of four instructions that begin with a memory access and have a wrong-path instruction in second or third place, three longer ones, six with memory mis-speculation; about 325 000 |
| `core_mixed` | is only the wrong path deleted? | one program; **violated** |
| `ino` | the same for the in-order core, with an exact scoreboard | every program of five instructions over three sorts around a mispredicted branch, and one longer; about 311 000 |
| `ino_held` | does the core keep committing? | one program, a memory port of one entry; **violated** |
| `block_core` | the same for blocks, and is a permit revoked once? | twelve programs of up to five blocks, five of them with blocks of both paths; about 139 000 |
| `window` | are local values, busy states and windows consistent, and does every block retire? | four programs, two windows, with and without run-ahead, two recoveries; about 390 000 |
| `block_rename` | are the segments' free lists exact, do operands stay readable, does a block get its registers? | two segments of two registers, two windows, blocks of two; about 221 000 |
| `frontend` | does an excursion leave a mark, do the threads take turns, is the right path traced once? | nine instructions with loops, an indirect jump, a call, a system call and stores, one of them too large for the log; about 14 000 |
| `cache` | is every access answered once, in time and with the last write? | two caches of two ways, three lines, the latencies of `l1_d_0`, `l2_0` and DRAM in `config/simple.yaml` and a grid of others; about 299 000 |
| `translator` | are dominators, names, registers and schedules right, and do the passes end? | about 1 150 programs over nine flow graphs, two of which `build_dominators` does not settle on, both register modes, both scheduling modes; about 126 000 |
| `translator_dead` | is a copy that is removed as dead really dead? | the same programs; **violated** |

### What the properties say

`rename`: `FreeListExact` (no leak, no double free), `CommittedMapExact` (the map
recovery starts from), `SpeculativeMap` (youngest definition), `TrueProducers`
(sources of an in-flight instruction), `ReadableStaysReadable` (the issue logic
never looks twice), `RenameNeverStarves`.

`core`: `EveryInstructionAccountedFor` (committed, in flight and waiting make up
the supplied trace at every moment of a squash), `QueuesAgree` (ROB and ports are
the instruction queue, in order, and the load/store queue is the ROB's memory
operations), `SquashesOldestCulprit` (number and type are those of the oldest
culprit, and the drain reaches it), `QuiescentAtRecovery` (nothing of the squashed
instructions is left when the ROB is dropped), `CommittedStoresReachTheCache`,
`PerfectMemoryNeverSquashes`, and the refinement `ImplementsInOrderCommit`, whose
safety part says that nothing but the right path commits, in order, and whose
liveness part that all of it does.

`ino`: `PipelineConsistent` (tables within their sizes; a register is busy exactly
while one issued instruction is to write it, through every flush; a wrong-path
store is not started unless an older access was held back, see below) and the
refinement.

`block_core`: `SquashesOldestBlock`, `PermitRevokedOnce` (the assertion of
`revokeRunaheadPermit`), `CommitAgrees` (counts of a block agree with its
instructions, block ROB and block queue with each other) and the refinement, for the
blocks wholly on the right path.

`window`: `LocalValuesHandedOver` (without run-ahead the busy states alone put
readers behind writers and writers behind each other, windows being reused with
writes pending), `BusyRegistersExact`, `WindowsConsistent` (windows are available
or busy, hold one block each, and the block on fetch has one), and
`EveryBlockRetires`.

`block_rename`: `FreeListsExact`, `CommittedMapExact`, `TrueProducers`,
`DroppedStayReadable`, `RenameNeverStarves`.

`frontend`: `TurnsAlternate` (the core runs only while the application waits and
nothing is in the log), `RightPathTraced` (each right-path instruction once and in
order, wrong-path ones flagged), and `ImplementsApplication` (with excursions
undone it is the application by itself, and it runs to its end).

`cache`: `LastWriteFound` (the last write is always in DRAM, a modified line or a
message, a hit finds its line a latency later, and an access is answered with
that write), `RepliesExact` (one answer for each requester that waits, none for
anybody else, and the core waits no longer than a miss in every cache takes).

`translator`: `DominatorsExact`, `NamesMeetDefinitions`, `LiveRegistersDistinct`,
`RegistersMeetDefinitions`, `ScheduleKeepsDependences` and `SweepsSettle`, which
bounds the sweeps of the iterating passes.

### The violations

- `core_mixed`.  `bpMispredSquash` ends a wrong-path run at the first younger
  instruction that is not `isMemOrBrViolation` (`backend/o3/commit.cpp:145`).  A
  right-path load just behind the run that a late store has flagged in the
  meantime satisfies that predicate too, is taken for a part of the run, and is
  deleted; it never commits.  The comments there say that what is not on the wrong
  path is pushed back and what is on it is deleted.  The programs of `core` keep a
  violating load away from the end of a run.
- `ino_held`.  While the pipe waits for the units to empty the memory stage starts
  no store (`backend/ino/memory.cpp:89`).  When the port to it is full of one, the
  next memory access cannot leave its unit, so the wait never ends, although both
  are older than the squash: `commit::verifySim` asserts "No commit for too long".
  In `ino` the memory port is larger than the number of units can fill.
- `translator_dead`.  `deadMovOpElim` drops a copy when no other instruction of
  the block reads its source (`binaryTranslator/basicblock.cpp:1332`), and lets the
  writer of the source write the destination instead, though a later block may
  still read the source.

Three more behaviours of the same kind have no run of their own.  In CG-OoO a
mispredicted branch usually ends a block that begins on the right path; the whole
block counts as on the wrong path (`wrongPathCheck`) and a squash deletes it
(`backend/bb/commit.cpp:209`), so its right-path instructions never commit.  The
model does the same, `MixedPrograms` of `MCBBCore` have such blocks, and the
properties are about the blocks wholly on the right path.  And in
the in-order core a branch held in its unit by a full memory port, while a younger
wrong-path instruction completes, is passed over: the squash number is too young
and the drain never ends (`backend/ino/execution.cpp:104`); `ino` has a memory
port that does not fill.  The third came out of the proof of `PipelineConsistent`:
"no store of the wrong path is started", which `memoryImpl` asserts
(`backend/ino/memory.cpp:99`), holds in `ino` but is not inductive, and it is false
with a memory port of one entry.  A load of the wrong path in a unit that comes
before that of an older wrong-path store takes the entry and becomes the squash
number; the store, held back, enters the port later, is too old for the flush,
and is started while the pipe drains.  `WrongPathStoresHeld` therefore says what is
true of every size: such a store is older than the squash number or in front of an
older access in the port, and the pipe is draining.

### Bounds

Queues, ports, ROB and windows are shorter than the programs, so every one of them
fills up; the stage width is 2, so two units complete in one cycle in either
order; the memory width is 1, as configured.  The renaming instances have fewer
rename registers than the ROB can ask for, so renaming stalls, and instructions
that write two registers or a block that writes one twice, so partial updates
show.  In `window` the two windows are reused while writes are pending, and a
window is longer than a run-ahead scan.  `MaxSquash` bounds the recoveries of a
behaviour in `BBWindow`; two let one follow the other from any state the first leaves.  In
`FrontEnd`, `MaxIns` ends loops of the program; excursions of up to four
instructions cover a block end, a store, a system call and the end of the program
on the wrong path.  In `CacheHierarchy` three lines compete for two ways, so a
line is displaced, written back, and asked for again while that is under way; the
lines are interchangeable, which the symmetry of the run uses; the latencies of
`config/simple.yaml` without those of its third level, which is left out, are one of
nineteen choices, the others make replies, hits and
write-backs fall into the same cycle.  Two caches are enough for
a cache that has neighbours on both sides: the core above, a cache or memory below.  In `Translator`, `MaxSweeps` is above
what any program needs, and `SweepsSettle` checks that.  Nothing is cut off by a
state constraint.

### Fairness

`rename` and `block_rename` assume weak fairness of issue and completion of each
entry, of commit and of recovery (and of the clock tick), and none of renaming or
squashing: every stage is called every cycle and every unit has a finite latency.
The core runs and `window` assume that `runCore` does not stop and, for progress,
strong fairness of the steps that move something: a stage may do nothing in a
cycle because of a wire, a delay or a latency, but wires are free again in the
next cycle and delays and latencies are finite.  Strong fairness is needed because
a cycle in which nothing moves disables nothing for good, but makes the step that
could move wait for its stage's next turn.  `frontend` assumes weak fairness of
both threads, which the operating system schedules.  `cache` and `translator`
need none: that an answer comes, and that a pass ends, is a bound on cycles and on
sweeps, checked as an invariant.  Deadlock is not checked where the program
simulated or translated ends (`frontend`, `translator`, `translator_dead`).

## 4. Proofs

Every theorem holds for every value of the constants that meets the assumptions
its module names, which TLC evaluates in each run.

**`O3Rename_proofs`** proves, for every number of registers, every ROB size and every
set of operand lists, that the seven state properties of `O3Rename` are
invariants of its specification, and the action property `ReadableStaysReadable`.
The assumptions are `SizesAssumption` (there is a rename register and a ROB entry)
and `ListsAssumption` (lists name registers, destination lists without
repetition).

None of the properties is inductive alone.  The inductive invariant `IInv` is
their conjunction with two facts about shape: the operand lists of an entry have
matching lengths, and the ROB is empty while the tables wait to be restored.  Two
of the seven, `InFlightExact` (one owner for each register) and `UndoChain` (a
commit frees the definition superseded), are there for the argument and not in a
run.  The argument is the life of a register.  Renaming takes registers from the
free list, which hold nothing else (`FreeListExact`), so ownership stays unique
(`InFlightExact`); the sources and links it records come from the speculative
map, so they name the youngest definitions (`SpeculativeMap` gives
`TrueProducers` and `UndoChain`).  What a position maps to does not change when
younger instructions come (`MapsToSame`, `MapsToExtendNext`), nor when the oldest
commits, because its definitions pass into the committed map (`MapsToCommit`).  A
commit frees the previous definition, which by `UndoChain` is the committed
register, so `CommittedMapExact` survives.  Recovery lists what is not committed;
that the ascending list has each register once is a counting argument
(`AscendingEnumerates`).  `ReadableStaysReadable` follows because a register a
commit frees is not the source of any younger instruction
(`CommitSparesSources`): had it been, the committing instruction would have
written the register in between.

**`BBRename_proofs`** proves the four invariants of `BBRename` for every number of
registers, segments, windows and blocks, under the assumptions of the module
(segments of equal size, each with room for architectural registers and more, as
many windows for each, destination lists without repetition).  A block, unlike an
instruction, may define a register more than once.  `IInv` has the shape of that of `O3Rename`, with these differences.

- `getAvailablePR` looks into the segments one after the other.  That it finds a
  register when there is one is that a walk of `n` steps round a circle of `n`
  visits every place once (`RoundTheCircle`, `AvailableRegisters`), and that a register
  is given back to the list it came from follows from where `PR2APRindx` says it
  belongs.  The registers the constructor makes architectural are different ones
  because a number is determined by quotient and remainder (`InitialRegisters`).
- `commitBB` retires several definitions at once: it sets the state of each, then
  frees what each supersedes.  `UndoChain` makes the superseded registers of the
  block different from each other (`ChainLinks`), nothing behind the block names
  one of them (`SupersededUnnamed`), and those of its own registers that are not
  superseded are exactly the last definitions, which become the committed map
  (`KeptToTheEnd`, `CommittedBehind`, `CommittedAfter`).  The order in the code,
  marking every destination before freeing any, is what makes this true
  when a block frees its own registers.
- A dropped operand stays readable because the register it names is that of the
  youngest older definition: it can only be freed by a block that supersedes it,
  and such a definition would be younger than the reader.

The walk of the ROB to find the head block, the lists a block collects and the
refilled lists are handled by lemmas about concatenations (`FlattenElements`,
`FlattenDistinct` in `Queues_proofs`).

**`O3Core_proofs`** proves the pipeline correct for every set
of programs, every width and every length of every queue (`ProgramsAssumption`:
programs are finite sequences of instructions; `SizesAssumption`: sizes are
positive, each program has a memory model).  The properties of the run speak of
sequences that are prefixes and concatenations of one another; the inductive
invariant `IInv` says the same with sets and orders, because a queue in program
order is determined by its elements (`SameElements`, `LeastElementsPrefix`), and a
step is then a statement about which instructions move.  Its parts:

- `InOrder`, `TraceOrder`, `WindowOrder`: which queues are in program order, that
  retired, fetched and waiting instructions follow one another without a gap from
  the oldest one in flight, that ROB and ports hold the oldest of the instruction
  queue;
- `Stages`: the stage an instruction says it is at is where it is;
- `LSQ`: the load queue holds the oldest loads of the ROB, the store queue the
  oldest stores behind committed ones, and nothing older than the squash number is
  missing;
- `Squashing`: outside the normal state the squash number is the static of
  `completeIns` and the oldest culprit detected in the ROB, and the type says which
  kind it is.  No cycle ends with a detected culprit older than it;
- `Flushing`: which queues a flush has already emptied of young instructions, as
  the stages have their turn one by one within the flush cycle (`FlushedIn`);
- `Disambiguated`: a load that read the cache under perfect disambiguation has no
  older store to its address in the store queue.

`completeIns` is the step that needs all of them: several units write back in one
cycle, each may be a culprit and may flag a load, and the squash number must still
be the least of all (`CompleteUnit`, `CompleteSteps`).  From `IInv` follow
`QueuesAlwaysAgree`, `OldestCulpritSquashed`, `RecoveryIsQuiescent`, `PerfectMemory`
and `CommittedStoresSurvive`.

That nothing is lost needs one more hypothesis, `Unmixed`: memory is disambiguated
perfectly, or no right-path load comes immediately behind a wrong-path
instruction.  The run `core_mixed` shows that the code breaks `OnlyWrongPathDeleted`
for a program without it, and every program of `core` has it.  Under it
`NothingLost`, `WrongPathDeleted` and `CommitsInOrder` hold, the last being the
safety part of the refinement: every step of the pipeline is a step of
`InOrderCommit` or leaves it alone.

**`InoCore_proofs`** does the same for the in-order core, for every set of programs
and every size (`ProgramsAssumption`: programs are finite sequences of instructions
that write finitely many registers; `SizesAssumption`: sizes are positive).  Nothing
is assumed of the wires or of the memory port; the violation `ino_held` is one of
liveness, and every state it leads to satisfies the invariant.  `IInv` has the parts
of that of `O3Core`, but

- instructions are in order only up to issue (`IssueOrder`: what has begun is older
  than what is in `issuePort`, that older than what is in the window); behind it a
  unit may hold one back for a wire or for the memory port while younger ones pass,
  so `memPort` and `memBuff` are only without repetition.  What a flush has taken from
  the back of such a queue is therefore not everything young, only the young end
  (`EndsBefore`), and `Squashing` says of the squash number that it is a wrong-path
  instruction in iROB that has left its unit, not that it is the oldest;
- that recovery deletes only the wrong path has another reason than in `O3Core`:
  draining ends when the oldest instruction of iROB is at the squash number, so
  nothing older is left, whichever culprit was chosen (`HeadIsOldest`);
- the memory queues are empty when the ROB is squashed (`MemoryDrained`): accesses
  end in order, and the last of a flushed queue is older than the squash number;
- `ScoreboardExact` is inductive with these: registers of flushed instructions stay
  busy because their stage does, a new reservation meets no busy register
  (`SchedulerNormal`), and the reset comes when nothing is in flight
  (`ScoreboardStep`).

From `IInv` follow `PipelineIsConsistent`, `NothingLost` and `CommitsInOrder`, the
last for every program: the condition `O3Core` needs is about loads that violate
memory order, which this core does not have.

**`BBCore_proofs`** proves the CG-OoO pipeline for every set of programs and every
size (`ProgramsAssumption`: a program is a non-empty finite sequence of instructions,
its blocks numbered `1 ..` in the order of the trace; `SizesAssumption`: sizes are
positive).  The unit of fetch, squash and commit is the block, of everything
in between the instruction, so `IInv` has to tie the two together:

- `InOrder`, `TraceOrder`, `WindowOrder`, `Stages`, `LSQ`: as in `O3Core`, with
  retired, fetched and waiting *blocks* following one another.  An instruction counts
  as dispatched by its stage, and `bbROB` holds exactly the blocks with one that is;
- `Fetching`: fetch goes through the blocks in order, all but `currentBB` are done,
  and the count of a block says which of its instructions are popped.  A block that
  waits, put back or never fetched, is new but for its permit (`Fresh`); were one
  count left from before a squash, fetch would resume in the middle;
- `Counting`: a block's count is that of its complete instructions.  It is what lets
  `commitBB` take a block by comparing two numbers, and it survives a flush because
  instructions and counts are reset together;
- `MovesOn`: fetch has left a block before its last instruction completes.  This is
  what the assertion on `doneFetch` in `commitBB` needs, and it is a matter of
  progress: if fetch had no block to move on to it would stay, and the block would
  commit under it.  The hand-over threshold prevents it: the frontend runs again
  whenever too few blocks are left, before the instruction is through decode;
- `Squashing`: outside the normal state the squash number is the head of the block of
  the culprit, and no block with a detected culprit is older, but for a wrong-path
  store that completed beside the violation it found (`CompleteUnit`, `Violation`);
- `Flushing`: how far a flush has come;
- `Permits`: a block without its permit to run ahead is the oldest there is, has not
  violated memory order, and none of its loads completes before a store that precedes
  it.  So the store finds nothing in its own block, nothing older is left to find
  something in it, and the permit is taken once.

The fetch of a cycle, which pops instructions one by one and moves from block to
block, is first shown to be one step on sets (`FetchImpl`, `FetchCycle`): some blocks
are taken, the oldest instructions of those at hand popped, and fetch is done with
the blocks it has gone past.  From `IInv` follow `CommitAlwaysAgrees`,
`OldestBlockSquashed` and `RevokedOnce`.

`NothingLost` and `CommitsInOrder`, the safety part of the refinement, hold for every
program, blocks with instructions of both paths included.  What they speak of is the
unit the code has: a block with an instruction of the wrong path, which a squash
deletes whole, against one wholly on the right path.  Every block handed over is
retired, in flight, waiting or deleted (`Accounted`); the culprit of a branch squash is
on the wrong path, so the squashed block is one to delete, and the run behind it ends
before the first block with an instruction of the right path, so the others are of the
wrong path altogether (`SquashAccounts`).  Right-path instructions are therefore lost
only with a block that has one of the wrong path as well.

**`BBWindow_proofs`** proves the three invariants of `BBWindow` for every set of
programs, every number and length of windows and every number of recoveries, under
the assumptions of the module (`BBWindowAssumption`: sizes are positive and there
are two windows at least; `ProgramsAssumption`: the instructions of a block follow
one another in the program).  `IInv` adds to them what ties the windows to the rest:

- `Dispatched`, `WindowContents`: an instruction is in the pipe if and only if it
  is below `Limit`, which is `nextIns`, or `squashSN` while a flush waits for the
  older blocks; a window holds what was dispatched into it and has not issued, and
  the instructions of one block are all in one window;
- `BlocksInFlight`, `OnFetch`: `bbROB` is in order and has every block with an
  instruction that is not complete, and the window on fetch is that of its youngest
  block, the only one that can be dispatched in part.  This is why `writeBBWin`
  puts an instruction behind those of its own block, why `getAnAvailBBWin` is called
  only for a block of which nothing was dispatched, and why nothing is left in the
  windows when `squashROB` restarts fetch;
- `PendingWrites`: an issued instruction holds its results alone.  `issue` keeps it
  because `canReserveRF` refuses a busy register, looking at operands because
  `firstRead` changes no busy one (`LookFacts`), recovery because everything in
  flight is either complete or flushed before the reset.

`LocalValuesAreHandedOver` then follows from what is at the head of a window
(`HeadReady`): earlier instructions of the block that are not complete have issued
and hold their results, so an operand found readable, or dropped from the wait
list, has been written (`LookPreserves`).  With run-ahead issue an instruction
behind the head is looked at too, and the argument fails where the code does.

**`FrontEnd_proofs`** proves `ThreadsTakeTurns` and `ExcursionsLeaveNoMark` for every
program, block list and length of an excursion.  The invariant says where the one
token of the semaphores is and which flags an excursion sets.  The refinement takes
the excursion back in the mapping, so the argument is that each wrong-path step
changes what the saved context and the log undo (`SavedExtends`, `RecoverUndoes`),
and each right-path step is the application's.

`RightPathIsTraced` needs `TraceInv`, which speaks of the trace as a list of blocks:

- `Numbered`: the blocks taken by the core, those in the cache and the open one hold
  the numbers `1 .. tracedIns` of the right path, ascending from block to block, each
  once, with the right flags.  Within a block the order is that of the schedule, so
  only a block's set of numbers counts (`Nths`), and `Rescheduled` shows that
  `pin__getBBhead`, which makes up an entry for what was not executed, keeps it;
- `Listed`, `Straight`: every entry of an open block is in its static list, once, and
  what comes next lies behind all of them unless it starts a block.  Otherwise
  `pin__makeNewBBIns`, which enters an address once, would drop an executed
  instruction;
- `Landing`: wherever control goes but to the next instruction, by a branch of
  either path, a prediction out of the BTB or a recovery, a block starts there.

The last two rest on `StaticBBAssumption`: with a successor of a branch missing from
the block list, an excursion that returns into the middle of a block would enter the
right-path instruction as one it already has, with the flag of the wrong path.

**`Queues_proofs`** holds the lemmas about queues these rest on, and the induction
over numbers they need.  The induction theorems of the library take a predicate as a
parameter, which the provers here cannot instantiate; `LeastNat` (a set of numbers
has a least member) takes a set, and `UpTo` and `Recursion` derive from it what is
needed of a function defined by recursion over `0 .. n`.

Only model-checked: liveness and therefore the liveness parts of the three kinds of
refinement, which are out of the prover's reach; what `Translator` computes, whose
passes are recursive operators over a flow graph, so that their results for every
input are inductions over data; and `CacheHierarchy`, which uses a recursive
operator, for replies that go up through the levels in one step, and can carry no
theorem as it stands.

## 5. What could come next

1. `CacheHierarchy` with its replies as a recursive function instead of an operator,
   and a proof that they are exact.
2. The load/store queue with a memory image, so that what a load returns is part
   of the state; the violation search that stops above index 0
   (`backend/o3/lsq.cpp:133`) belongs there.
3. Ports and wires: delays, wire counts refreshed by the first access of a cycle,
   operand forwarding over the common data bus with its assertion.
4. The history of the tournament predictor across squashes.

## 6. Not modelled

- The tables of the branch predictors, and the o3 branch prediction stage, which
  only keeps statistics: they decide when a wrong path is taken and which, and the
  models leave that open.
- Operand forwarding over the common data bus, wire counts other than the write
  wires of the in-order register file and the read wires of block windows, port
  delays and latencies: the cores do any amount of work their guards allow, so
  these only restrict what is modelled.
- Values: what a load reads is not followed through the load/store queues.
- In the front end: the other two tracing variants, simulation windows, code that
  is not instrumented, the tables built at instrumentation time.
- In the caches: statistics, the instruction side, which nothing asks, the
  replacement policies no configuration selects, several sets.
- In the translator: superblocks and phraseblocks, removal of no-ops, load
  annotation, special registers, parsing and output.
- The static code parser, simulation points and signals (file input and process
  plumbing), the energy model, the statistics, and the support library; most of
  the repository's lines are these and vendored tools (a thermal simulator, gem5
  predictors, cache and power models) that have no influence on the order of
  events.
