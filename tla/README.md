# Verification of the convex-hull accelerator project

TLA+ models, TLC runs and TLAPS proofs for the three programs of this
repository:

* `src/Stratus` - a synthesizable processing element (PE) that finds the upper
  common tangent of two upper hulls of 16 points, with its testbench;
* `src/TLM` - the same PE behind memory-mapped registers, a bus and a polling
  testbench;
* `src/riscv-vp` - a multi-core platform with one PE per core and one shared DMA
  (`vp/src/platform/astral32-mc`), and the bare-metal program that computes the
  upper hull of 64 points on it (`sw/convex-hull`).

`SW` below is `src/riscv-vp/sw/convex-hull`, `VP` is
`src/riscv-vp/vp/src/platform/astral32-mc`.

## 1. Inventory

| part | state | operations | interacts with |
|---|---|---|---|
| barrier, `SW/semaphore.h:55` | `barrier_counter`, `barrier_lock`, `barrier_sem` | `barrier()` at the end of every level | all harts, through shared memory |
| semaphores, `SW/semaphore.h:16` | a word each; the reservations of the cores | `sem_init`, `sem_wait`, `sem_post` (LR/SC loops) | barrier, DMA lock |
| accelerator access, `SW/acc.h`, `SW/main.c:61` | mutex `lock`, the array `data` of each hart | program the DMA to send points, to fetch indices | DMA registers |
| DMA, `VP/dma.h` | four registers, `run_event`, a buffer | register accesses, the copying thread | memory, the PEs |
| PE, `VP/CTSearcher.cpp` and `TLM/CTSearcher.cpp` | input, inner and output FIFOs | `blocking_transport`, four threads | DMA or bus |
| searchers L, R, B (three copies) | the points of one request | `searchCTB`, `searchCT` | each other through FIFOs |
| hull merging, `SW/main.c:29` | `input_x`, `input_y`, `length` | pack, search, move, per pair and level | barrier, accelerator |
| end of the program, `SW/bootstrap.S:65` | `exit_counter` | draw a number, exit call | all harts |
| `Stratus/Testbench.cpp` | counters of two threads, reset | feed 5 pairs, fetch 5 results, stop | the PE's channels |
| `TLM/Testbench.cpp`, `Initiator.cpp` | loop of one thread | write R, poll CHECK, read RESULT | bus |
| `TLM/SimpleBus.h`, `MemoryMap.h` | list of windows | decode, transport, DMI | testbench, PE |
| `VP/mc_main.cpp` | - | builds and connects the platform | everything |

What is hard in it: five harts that share three semaphores, a counter, one DMA
and the arrays, without any hand-shake beyond the barrier; a start of the DMA
that returns before the DMA has started; results read with nothing but timing to
say that they are there; pipelines with a channel per operand; search arithmetic
with cut-off widths, ties and padding. `PROJECT.json` lists the hazards at their
lines, each with the properties that cover it.

What makes each part correct: the barrier keeps all harts in one level and loses
no wake-up; a semaphore loses no update; one hart at a time programs the DMA,
each transfer is its own, and the indices merged with belong to the pair just
packed; the PE answers in order, once per request, from the data of that request;
the indices are the upper common tangent; the merge never touches another hart's
slots and ends with the hull of all points; the program ends after everybody is
through.

## 2. Modules

| module | models | as |
|---|---|---|
| `Lockstep` | what the callers of a barrier expect | abstract: `Enter`, `Leave` in the same level |
| `Turnstile` | what this barrier does at any timing: as many leave as have come | abstract: `Enter`, `Leave` with permits |
| `Barrier` | `barrier()`, the level loop, the `sem_init` calls of hart 0 | one action per access to a shared word |
| `Shutdown` | `Barrier`, the printing of hart 0, the exit of `bootstrap.S` | composition |
| `CountingSemaphore` | what a semaphore promises | abstract |
| `Semaphore` | `sem_wait`, `sem_post` | load-reserved, store-conditional, retry |
| `AccService` | what the lock and the DMA are for: a private accelerator per hart | abstract |
| `Platform` | the address map: ports of `mc_main.cpp`, addresses of `acc.h` and `main.c`, register offsets of `dma.h` and the PE | operators |
| `AccDma` | `acc.h`, the lock of `main.c`, `dma.h`, the PEs' registers; every access goes through `Platform` | harts, DMA thread, PEs |
| `TangentSearch` | the arithmetic of the three searchers | operators |
| `Tangent` | one search, L and R in any order | state machine over `TangentSearch` |
| `HullMerge` | the level loop of `main.c` on the shared arrays | harts, with `Lockstep` as the barrier and `TangentSearch` as the PE |
| `PeService` | what a PE promises to its client | abstract |
| `SearcherNet` | the threads L, R, B, CTSearcher and their channels | generic step of a thread |
| `StratusSystem` | `System`, `Testbench` of `src/Stratus` with `SearcherNet` | composition |
| `MemoryMap` | `MemoryMap.h` and the decoding of `SimpleBus.h` | operators |
| `TlmSystem` | `Testbench`, `Initiator`, bus, PE of `src/TLM` with `SearcherNet` | composition |
| `MC...` | values for the constants | |
| `BarrierProofs` | theorems about `Barrier` and `Shutdown` | |
| `SemaphoreProofs` | theorems about `Semaphore` | |
| `AccDmaProofs` | theorems about `Platform` and `AccDma`, and that it implements `AccService` | |
| `TangentProofs` | theorems about `Tangent`, lemmas about `TangentSearch` | |
| `HullMergeProofs` | theorems about `HullMerge`, with the lemmas of `TangentProofs` | |
| `SearcherNetProofs` | what the network keeps with any client | lemmas |
| `StratusProofs`, `TlmProofs` | theorems about the two systems with that network | |

The layers fit together through the abstract specifications: `Barrier` uses a
semaphore as one atomic step, which `Semaphore` implements (`CountingSemaphore`);
`HullMerge` uses the barrier as `Lockstep`, which `Barrier` implements as long as no
post is stolen (`LockstepUnlessStolen`), so what is said of the hull is said of such
runs; what `Barrier` implements in every run is `Turnstile`. `HullMerge` uses
the accelerator as a function of the pair just packed, which is what
`AccDma` implements (`AccService`, `FreshIndices`); `AccDma` uses a PE as a
queue of requests and answers, which `SearcherNet` inside `StratusSystem` and
`TlmSystem` implements (`PeService`); and what the PE computes is `Tangent`.

Correspondence with the code (every definition has its lines in `map` of
`PROJECT.json`):

* **Barrier.** `pc[h]` names the next access of hart `h`: `arrive` is
  `sem_wait(__lock)`, `test`/`count` the load and the store of `(*counter)++`,
  `sleep` is `sem_wait(__sem)`, `post` the loop of `sem_post(__sem)`. The counter
  is an ordinary word, so load and store are separate steps. The work of a level
  is one step without any guard: a hart without a pair at a level is back at once.
* **Shutdown.** A hart draws its number with one `amoadd` and then compares a
  register for ever: `Exit` is enabled from the start of the loop or never.
* **Semaphore.** `lr.w` takes a reservation, `sc.w` succeeds only with it; any
  store to the word ends reservations, and one may also be lost for no reason the
  program sees. LR/SC come from the processor model, which is external.
* **Platform.** The port whose window is first to contain an address gets the
  access, with the offset into the window; the table of ports, the constants of
  `acc.h`, the addresses from `hart_id` and the offsets in the models are written
  down where the source has them, so a disagreement would show.
* **AccDma.** `SetSrc` .. `SetOp` are the register stores of `acc.h`, decoded by
  `Platform` and then by the register table of `dma.h`; `SetOp` only notifies the
  event, `EventFires` wakes the DMA thread if it waits and is lost if it does not.
  `Execute` is the switch over the operation and the loop over blocks of the
  buffer; `DmaRead...`/`DmaWrite...` are the two halves of a block, to memory or
  to the registers of a PE by address. A memory area is split into its first two
  bytes and the rest, because a fetch overwrites only these; the contents are
  tokens that name a hart and a pair.
* **TangentSearch.** `Wrap` is the conversion to `sc_int<SCALE>`, kept where the
  code has it (`Diff`) and absent where operands are not cut (`Minus`). `Descend`
  stands for `idx -= (condition)` in a loop: the index is the number of keys that
  did not fall behind. BLOCK stands for BLOCK_SIZE, KEY_SIZE and the depth-1 gap,
  which hang together: 4 in the source.
* **HullMerge.** One action per phase of a pair: packing reads the shared arrays,
  the search uses only what was packed, then `length` is overwritten, then the
  right part is moved. The search works on the packed and padded 2 x 16 points.
* **SearcherNet.** A token is the set of requests whose data it carries, so a
  mix-up of requests shows as a set with two members. A thread is its sequence of
  blocking reads and writes.
* **TlmSystem.** A transport call runs in the caller's thread; `Transport` is the
  initiator and the bus, the steps after it are `blocking_transport`. The word
  widths are scaled (8 and 16 bits for 32 and 64) with the top bit of the base set
  as in the source. The client keeps R, RESULT and CHECK apart by address only.

## 3. Runs

| run | instance | shows |
|---|---|---|
| `barrier_any_timing` | 4 participants of 5 cores, 3 levels | lock, conservation of wake-ups, full trips, first barrier, harmless late `sem_init`, lockstep up to the first stolen post |
| `barrier_turnstile` | 3 harts, 3 levels, exit | refinement of `Turnstile` with its liveness, the program ends unless a post is stolen, only after everybody |
| `barrier_reuse` (violation) | 2 harts, 2 levels | the reused semaphore lets a hart lap another |
| `barrier_six_of_five` (violation) | PROCESSORS = CORES + 1 | nobody leaves the first barrier |
| `semaphore` | 3 harts on one word | no lost update, refinement of `CountingSemaphore` |
| `dma_prompt` | 3 harts, 2 pairs each, PromptTransfer | exclusive programming, own transfers, fresh indices, refinement of `AccService` with all addresses decoded, all merged |
| `dma_overrun` (violation) | 2 harts, any timing | a hart merges with its own points instead of indices |
| `tangent` | 16 points, blocks of 4, 16 bits, as in the source | the PE returns the upper tangent |
| `hull_merge` | 16 points, BLOCK 2, 4 harts of which 3 take part | the printed chain is the hull of all points; the harts' regions are disjoint, nothing is read or written outside them, halves are ready and fit the arrays of `main`, no overflow |
| `hull_too_long` (violation) | a half with more points than the PE takes | the result is not the hull |
| `stratus` | 5 requests, channels of 2 | pipelining keeps requests apart and in order, ends drained |
| `tlm` | 5 requests, channels of 1 | registers, polling, order, termination |

Why the bounds are enough. Three harts are the least with a releasing hart, a
sleeping hart and one that comes back early; three levels let the barrier be used
again twice. Two pairs per hart let a result of the pair before be taken for the
current one. In `tangent` the sizes and widths are those of the source, and the
hulls are all chains of up to three points on a small grid, chains of every length
around a block boundary with different slopes, and the largest coordinates. In
`hull_merge` the scaled PE takes 4 points, so 16 points already give hulls that
fill it, three participants make strides wrap, and one input has the shape of the
committed one (a long run of equal points at height 0 fills the first half; TLC checks
that it is among the inputs). The other inputs are all of 343 parabolas modulo 7
that are `Narrow`: no part to be merged has more than 4 points on its hull. The points of
`input.h` themselves are checked to be `Growing` and `Narrow` at the sizes of the
source (`CommittedAssumption`), which is what the theorems about the merge tree ask
of an input. Five requests are those of the testbenches; with channels of 1 or 2 all of them are in flight at once, so
every channel is both full and empty.

Inputs. Hulls run from left to right with coordinates in `0 .. 32767`, as in
`input.h`; the packing pads with `y = 0`, so points below 0 are out of scope.
Hulls whose last points have `y = 0` themselves, as high as the padding, are among
the inputs of `tangent` and `hull_merge`. Where several points lie on the tangent the
searchers choose the leftmost one of each hull, which `FindsTangent` states.

Timing. Nothing is assumed of the barrier: a level takes no time or any time, and
each hart goes as fast as it likes. The price is that a hart may come back before a
sleeper of the last barrier has woken up, and take its post (`Theft`). The properties
say what holds then, and how much: `ImplementsTurnstile` and the invariants hold in
every run; `LockstepUnlessStolen` says that up to the first theft the harts are in
lockstep, and that the theft is what ends it; `EndsUnlessStolen` that the program
ends if there is none. A run with a theft may leave a hart asleep for ever, which is
why these runs turn deadlock checking off; `barrier_reuse` shows one.

One timing assumption is a constant, so that it is visible what depends on it:
`PromptTransfer`, a transfer is over before the hart releases the lock. The DMA
starts 10 ns after the store and the PE takes no simulated time; the hart does
not ask. Without it: `dma_overrun`.

Fairness is weak fairness of every thread: cores, DMA, PEs and testbench are
SystemC threads of one simulation, in which time goes on, so one that can go on
does. Strong fairness for semaphores is not needed, since each is taken a bounded
number of times: a hart that keeps losing the race for a post loses it to at most
`DEPTH` returns of each other hart. In `Semaphore` a store-conditional may fail for ever in one hart
only while others succeed; `ImplementsCounting` asks for progress of some hart, no
more. The runs that turn deadlock checking off are of programs that end
(`sc_stop`, the exit call, `done` harts); `hull_merge` keeps it, with an explicit
`Terminated` step, in place of a liveness property.

## 4. Findings

1. `barrier_reuse`: one semaphore serves all barriers. A hart that returns early
   and reaches the next barrier takes the post of a sleeper of the previous one;
   `report.md:16` claims the harts are kept in the same iteration. It is the only way
   in which the harts get out of step (`LockstepUntilTheft`).
2. `barrier_six_of_five`: `PROCESSORS` is 6, "total number of cores"; the platform
   has five, and everybody waits in the first barrier for ever.
3. `dma_overrun`: the lock is for "atomic access to the DMA" (`report.md:16`), but
   covers the register stores, not the transfer.
4. `hull_too_long`: the last level would have to merge halves of up to 32 points
   with a PE for 16; longer halves are cut off. The committed points do not do
   that (the hulls of its 32-point halves have 2 and 15 points; they are `Narrow`).

Also met while reading: `bootstrap.S` jumps to labels `end` and `core5` that it
does not define, and the software's `Makefile` names an `irq.c` that is not there,
so the committed sources do not build as they are. The assertion of `parse()` in
`mc_main.cpp:76`, "RAM too big, would overlap memory", compares with the end of the
second searcher's window only: memory placed by option at 0x75000000 passes it and
lies over the windows of the other searchers. No run or script of the repository
passes that option; at the default place the windows are proved disjoint.

## 5. Proofs

All theorems hold for every value of the constants that satisfies the assumptions
in the modules (positive numbers of harts, levels, pairs).

**BarrierProofs**, for any `CORES`, `PROCESSORS`, `DEPTH` and any timing: `TypeCorrect`,
`LockIsExclusive`, `WakeupsConserved`, `TripsAreFull`, `FirstBarrierCorrect`,
`InitCorrect`, `TurnstileImplemented`, `LockstepUntilTheft`.
The inductive invariant is `BarrierInv`. Its heart is `Conservation`: harts
waiting = counter + semaphore + posts owed. Someone who finds the counter at
`PROCESSORS - 1` is not waiting, so at most `PROCESSORS - 1` harts are, which
leaves nothing for the other two terms: everybody else is asleep and no old post
is left. `TripsFull` alone is not inductive, because a state with a stray post
would be allowed; `SeenInv` carries the loaded counter from load to store;
`InitInv` says that nobody can trip while hart 0 still initialises. Sets of
sleepers are counted with the library's `FS_` theorems. For `TurnstileImplemented` the
permits of the abstract state are mapped to the posts sent, the posts owed and the
return of who owes them; by `Conservation` they are the harts in the barrier less the
counter (`PermitsCount`), so a hart that is counted brings no permit and the one that
resets the counter brings `PROCESSORS`. `LockstepUntilTheft` has no hypothesis: it
carries `Orderly`, which says of a state that no post has gone astray, through
every step that is not a theft, by counting again: as many posts are outstanding as
harts of the older level sleep (`PostsAreForTheLate`), so while there is a post
there is somebody it is meant for. Its corollary `LockstepWithoutTheft` is the form
in which `HullMerge` relies on it.

**SemaphoreProofs**, for any set of harts: `TypeCorrect` (the unsigned word never
wraps), `NoUpdateIsLost`, `CountingImplemented` (each successful
store-conditional is one abstract operation, every other step stutters). The
invariant: whoever holds a valid reservation has loaded the current value.

**AccDmaProofs**, for any `CORES`, `PAIRS`: `TypeCorrect`, `LockIsExclusive`,
`RegistersAreMine` with any timing, `TransferIsMine` under `PromptTransfer`. The
invariant `DmaInv` adds to the exclusion how many registers a hart has written
(`RegsInv`): inside the programming section the hart is alone, so what it wrote
stays. `CopyInv` adds that a running transfer has a hart waiting at its release.
The address map first, for any number of searchers that fits 32 bits and any place of
the stacks in memory that linker and compiler choose:
`WindowsDisjoint`, `AddressesLeadHome` (the addresses computed from `hart_id` select
the searcher of that hart and the register meant), `AddressesDistinct`,
`RegistersAgree`. They are arithmetic on constants; the invariants of the DMA rest
on them, for every access is decoded.

Its second half, under `PromptTransfer`: `IndicesAreFresh`, `OneIsOutstanding`,
`ServiceIsSafe`. The invariant `AccInv` adds to `DmaInv` where the current request
of each hart is (`ServiceInv`): packed in its array; then, from the start of the
send to the end of the fetch, in exactly one of the PE's input, the PE's output and
the DMA's buffer; then in the first bytes of its array. `FreshIndices` alone is not
inductive, since it says nothing about requests under way. The refinement mapping
takes the step of a hart from its `pc` and from whether its transfer is over, so
that a hart waiting at the release of the lock has taken the abstract step already.

**ExitIsLast** (in `BarrierProofs`, about `Shutdown`), when
`EXIT_AT >= CORES - 1`: whoever makes the exit call is the last hart, and the hull
has been printed. The source has 4 for five cores. The invariant counts: the
counter equals the number of harts that have drawn, and these are through with
their loops; who draws `CORES - 1` leaves nobody else.

**TangentProofs**, for any block size, any width of the coordinates and any two upper
hulls that lie side by side (`HullsAssumption`): `TheBlocksAreHit`,
`TheTangentIsFound`. Seen from a point beside it a hull rises up to the point the
tangent touches and falls behind it, so the comparisons that hold are those beyond
some index, and counting them finds it (`Counting`, `Blocks`); the point that touches
the other hull tells on which side of a point the tangent point lies (`TestOfR`,
`TestOfQ`). No difference of coordinates wraps (`NoWrap`), the products are compared
through one algebraic identity (`Slopes`), and the padding only falls (`PadFalls`),
so it is never chosen, though it may be as high as the hull. Induction along a hull
is done by taking the least counterexample (`LeastElement`), since the library's
induction theorems cannot be instantiated. The second half is about two hulls that
meet in one point on the x axis, as the halves of `input.h` do (`MeetPoint`,
`MeetFound`): there `Tangent` does not apply, and what the PE returns still joins them.

**HullMergeProofs**, for any number of harts, levels and block size:

* `RegionsAreDisjoint`, for any input. The barrier keeps working harts in one level,
  and at that level hart `h` is at the pairs `h, h + PROCESSORS, ...`; equal
  remainders are needed for two pairs to be equal.
* `EveryHartStaysInside`, `TheHalvesAreReady`, `TheBufferFits`, `TheHullIsPrinted`,
  in every run in which the hulls to be packed fit the arrays of `main` (`Fit`).
* `NarrowInputsFit`: for inputs no part of which has more than `MAX_HULL` points on its
  hull (`Narrow`), `Fit` always holds, and with it all of these, without a hypothesis
  about the run. Without such a condition they are false: that is finding 4.
  `SmallInputsFit` says the same of any input of at most `2 * MAX_HULL` points.

The inductive invariant is `HullInv`. `HalvesReady` alone says nothing about the
parts nobody is packing, so `KeptInv` says of every part of every level, from when
it has been made (`Done`) until the level above uses it up (`Begun`), that it is the
hull of its points, that it can be given to the PE (`Shape`) and that its last point
is repeated at most once per level (`Few`); `PairInv` says that from packing to
moving a hart holds the hulls of its own pair and the indices the PE returned for
them. A step of one hart leaves what the others have alone because the pairs
are disjoint (`Separate`). The step that matters is `Move`: the two chains, cut at
the indices of `TangentFound` or `MeetFound`, are a chain with no point of either part
above it (`MergeIsHull`), at the place where the level above looks for it
(`MoveMakes`). `NarrowFits` then counts: the points of a stored chain that do not
repeat are distinct and on the hull of their part (`ChainCounted`).

Assumed are the shape of the inputs (`HullAssumption`: `Growing`, the points run
from left to right, and may repeat one point on the x axis to the end of a half)
and two facts of arithmetic the provers do not know and TLC evaluates: the powers of two up
to `2^DEPTH` (`PowerAssumption`) and of the width of a coordinate
(`WidthAssumption`).

**SearcherNetProofs, StratusProofs, TlmProofs**, for any capacity and number of
requests. Every channel has one writer and one reader, each at one place of its
loop. `NetInv` says therefore, without a word about schedules, that the n-th token
of every channel is that of request n, by counting the rounds of each thread; the
lemmas hold for any client that writes its n-th request as n. With the testbench of
`src/Stratus` as the client follow `NetTypeCorrect`, `ThreadsInStep`,
`ResultsAreOwn`, `NothingIsLost` (drained at the stop) and `PipelineIsService`;
with `find_UCT` behind the registers `PromisesAreKept`, `ResultsAreOwn` and
`SearcherIsService`, and `AccessesAreDecoded`: the bus leads the three register
addresses to the PE, at the offsets meant. For that `DecodesWell` follows an address
through every conversion of `MemoryMap.h` and `SimpleBus.h`, for any widths of `int` and
`Addr`: base, end and access are all cut to an `int` and sign-extended in the same
way, so the comparisons agree as long as the window does not straddle the middle
of the ints (`MemoryMapAssumption`; the source's 0x90000000 is in the upper half).

Only model-checked is what is under liveness, which is out of the prover's reach, as
is ENABLED: `AllMerged`, `EndsUnlessStolen`, `Completes`, and of the refinements
(`ImplementsTurnstile`, `ImplementsCounting`, `ImplementsService`, `ImplementsPe`) the
fairness part; their initial states and steps are proved. Every invariant a run
checks is also a theorem.

## 6. Not modelled

The RISC-V virtual prototype itself (another repository), file input and output,
printing, log formatting, build and synthesis scripts. The interrupt handler of
`bootstrap.S` is marked abandoned. Cycle counts of the synthesized pipeline are
abstracted to interleaving.

Code without a caller in the repository, so that no behaviour of the programs
reaches it: `print_sem`; the direct path of `acc.h` (`_is_using_dma` is 1 in every
call); the other operations of the DMA, and its interrupt, which no hart enables;
reads of the DMA's registers; in `SimpleBus.h` debug transport, the DMI pointers
(no initiator asks for one) and their invalidation (no target calls it).

The four threads inside a PE of the platform are not composed with `AccDma` a
second time: they are those of `src/TLM` word for word, whose system is shown to
implement `PeService` (`SearcherIsService`), and `AccDma` uses no more of a PE than
that. The construction of the platform has no state after elaboration; what it
decides, the address map and the numbers of cores and searchers, is `Platform`.

## 7. What is left

The order followed: barrier, semaphores, accelerator access, end of the program,
tangent search, hull merging, the two testbench systems, the address map, then the
proofs from the inside out. What would add most to it:

1. the placement options of `mc_main.cpp` with the check of `parse()` (the hazard
   without a property), once a script uses them;
2. the step from `HullMerge` to `Barrier` and `AccDma` as one refinement: the abstract
   barrier and PE of `HullMerge` are each shown to be implemented, but not both in
   one composed module;
3. a barrier with two semaphores, if the program is repaired, for which `Lockstep`
   should hold with any timing and without `~Theft`.
