# Afterfree: TLA+ models of the pager, the replay worker, the recorder and the interposer

Afterfree lets a single-threaded Linux program give back the memory of large
outputs it has computed. The program's output buffers are captured as *recipes*
(the machine code and the inputs that computed them). A separate, sandboxed
worker process replays a recipe and the runtime compares the result with the
bytes in memory, byte by byte. Only then may the pages be discarded. A later
access faults, and the runtime restores the pages by asking the worker to
replay the recipe again. A program that knows nothing of all this can be run
under a preloaded library that does the capturing for it.

## Inventory

| Part | Source | State | Operations | Module |
|---|---|---|---|---|
| Pager | `native/runtime.cpp` | table of buffers, page states, protections, counters, resident target | `af_alloc`, `af_submit`, `af_evict`, `af_manage`, `af_set_resident_target`, `prepare`, `af_materialize`, `af_free`, the SIGSEGV handler | `Pager` |
| Memory the application sees | (promise of the above) | value of every page | load, store, alloc, free | `PlainMemory` |
| Replay channel | `native/runtime.cpp`, `native/worker.cpp`, `native/transport.hpp`, `native/common.hpp` | socket contents, shared window, `channel_broken`, where each side is | `request`, `submit`'s streaming loop, `restore_span`, `af_init`, `af_shutdown`, the worker's loop | `Channel` |
| Worker store | `native/worker.cpp` | recipes by id, retained bytes | REGISTER, RESTORE*, DROP | `Channel` |
| Allocation index | `native/runtime.cpp` | sorted array of buffers | insert, remove, containing, find, prepare's range walk | `AllocationIndex` |
| Preload interposer | `native/preload.cpp` | heap, the capture in progress, retry table, instrumented ranges | interposed malloc/free/realloc, candidates, capture, `finish`, dlopen/dlclose | `Interposer` |
| Template cache | `native/template.hpp` | templates by entry, clock, retained bytes | get, put, erase | `TemplateCache`, with the promise `RecencyList` |
| Recorder | `native/recorder.hpp`, `byte_mask.hpp` | inputs, frontier, writes | read, write, reject, inline_loop, finish | `Recorder`, `RecordReplay` |
| Recipe encoding | `native/common.hpp` | none | segments, the checks of decode | `RecordReplay` |
| Emulator | `native/emulator.hpp` | initialized and written bytes, step count | run, its block and memory hooks, the final checks | `RecordReplay` |
| Native replay | `native/native_replay.hpp`, `native_loop.hpp` | machine state, window, page checkpoints | validate, stream, slice; decode's control flow and flag analysis | `NativeReplay`, `ControlFlow`, `RecordReplay` (loops during a capture) |
| x86 decoder, affine proofs, memory routine extents | `native/x86.hpp`, `affine.hpp`, `unwind.cpp` | none | analyses of instructions | not modelled |
| Sandbox, launcher | `native/sandbox.hpp`, `launch.c`, `launch.cpp` | none | one-time set-up | not modelled |
| Python runtime | `afterfree/runtime.py` | open buffers | argument checks and calls of the C interface | not modelled |
| Command line, measurement, tools | `afterfree/*.py`, `tools/*.py` | none | launching and reporting | not modelled |

The pager calls the worker through the channel: `Pager` abstracts a whole request
to its outcomes (answered, refused, channel broken), and `Channel` shows that
those are the only outcomes: that a successful submission leaves an exact recipe
in the worker (`SealedIsExact`) and a successful restore gives the right bytes
(`RestoredIsOriginal`). `RecordReplay` and `NativeReplay` look inside the worker: at
whether a recorded recipe replays, and whether single pages of it can be restored.
`Interposer` uses the operators of `RecencyList` for its templates, and
`TemplateCache` is shown to implement that list.

What makes the code hard: system calls that fail half-way through an eviction or
a restore; a worker that dies, is late, or answers after the caller gave up; a
stream of windows that restarts; a recipe the worker has committed and the
application refuses; counters that are updated from several places; recipes
whose restore always covers the whole region.

## Modules

### `PlainMemory`

The promise: memory. `extent`, `mem`, `out` (what the last load returned) and
`status`. The one thing the pager may do that plain memory does not is to end
the process.

### `Pager`

`buf[b]` is a slot of the table `buffers`: `state` is `Buffer::state` (and FREE
when `data` is null), `page` is `Buffer::pages` (0 cold, 1 clean, 3 dirty),
`prot` and `phys` are what the kernel knows: the protection and the real bytes of
each page. The other variables have the names of the runtime's globals;
`held`/`recipes` are the worker's map. There is one thread, and the handler runs
with every signal blocked, so every entry point and every fault is one step; the
failures that can happen inside it are choices of the step, switched on by the
constant `Failing`. A load or a store is an application step the protection
allows; one it does not allow is `LoadFault` or `StoreFault`, which is the
handler followed by the access.

`collect` is a loop over a total order of candidates. It is modelled by the set
`E` it evicts: a prefix of that order, as long as the target is exceeded.

### `Channel`

Two processes and the two directions of a socket. Every struct written is one
message; every read is a step, so the worker can die and time pass between any
two. Bytes are abstracted to whether they equal the application's (`right`). The
worker writes the window at a step of its own. `NoAnswer` is a read that fails:
the application's socket has a 35 second timeout, the worker's has none. A
message carries the number of the call it belongs to, which no guard looks at:
it is there to state `InStep`.

`af_get_worker_profile` does not break the channel when the bytes that follow
its header do not come in time. They stay in the socket, and `Readable` models
what the following reads then see.

### `AllocationIndex`

The array `allocation_index` that finds the buffer of an address. One search,
`after_address`, is shared by insertion, removal, lookup and `prepare`; its loop
and the walk of `prepare` are modelled an iteration a step, over an address space
of `Word` addresses. `mmap` may place an allocation anywhere it fits, so the
order of the index is not the order of allocation. Nothing runs between the steps
of a call: the runtime is single-threaded and the handler is not entered from
inside it; the steps are there to state the invariant of the loops.

### `Recorder` and `RecordReplay`

A producer reads and writes bytes; the recorder keeps the marks `written` and
`input`, the captured `data`, and `frontier`: the output is nearly always written
from its start to its end, and such writes only move the frontier. `finish` then
takes the whole output, or the longest run of completely written pages, as the
recipe's region. `consumed` and `stored` are what the producer really did; no
guard looks at them. A byte's contents are reduced to whether it still holds what
it held when the call began.

`RecordReplay` adds the producer's `history`, the instruction count, the loops
the recorder lets run natively, the layout of the recorded instructions (`code`, sets
of bytes that may overlap), and then the other side: the recipe is encoded,
submitted and decoded, and the emulator makes the same accesses again on memory
that holds nothing but the recipe, with its own record of initialized and written
bytes. `Unencodable`, `Unsubmittable`, `Undecodable`, `Unmappable`, `Denied` and
`Conclusion` give the check that refuses the recipe, if one does, in the order of
the code; the checks that are not among them are listed under the limits below.
The emulator may stop anywhere, as it does after 30 seconds. It runs with its hooks
(registration) or without (restore). One instruction makes one access; a loop of
`Body` instructions stores once an iteration.

### `TemplateCache` and `RecencyList`

The cache orders templates by a clock and makes room in a loop. An `Iteration` of
the loop erases the template with the smallest time; `Shrunk` is as many iterations
as there are templates, the ones after the loop's end changing nothing.
`RecencyList` is what all that is for: a list in the order of use that keeps as many
of the last used items as fit. `ByUse` is the refinement mapping: the templates of
the map, each at the place of its time among all times.

### `Interposer`

One step per interposed call, per event of the program (allocation, access, call,
return, dlopen, dlclose) and per phase of a capture. A producer may free or
reallocate its own output, call itself, or have its capture refused half-way.
`held` and `stale` are history: what the program holds, and whether the buffer at
the captured address is still the one the producer was given. What `finish`
reported of a buffer is kept in its `verdict`, also for history only.

`collect`, `af_manage` and `af_manage_fails` are the runtime's policy as the
interposer meets it: which heaps they may leave. With a resident target
(`resident_target_set`) an allocation or a finished capture evicts some of the
buffers that are sealed and were never evicted, in a number and an order that sizes
and times decide, but not the one just sealed; without one, exactly that one is
evicted. A load makes an evicted buffer `restored`, which is not evicted again; a
store pins it.

A producer that is called again from its own call site ends the process with
code 195, when the inner call returns to the address the VM was told to stop at
(`InnerReturn`, preload.cpp:797). That is what the code does; no property is
stated about it.

### `NativeReplay`

A compiled recipe is a fixed sequence of basic blocks, each storing some bytes at
the output frontier. A block's prologue is modelled with its fast path: it skips
its checks while the cursor is below `trigger`. Validation runs in windows or in
one piece and leaves checkpoints; a restore starts from one.

### `ControlFlow`

What `decode` of native_replay.hpp demands of the recorded instructions, its
passes that find where the flags are live, an instruction a step, and the execution
of the compiled code, whose own checks destroy flags that are not live. All programs
of up to four addresses are initial states.

Operators marked *Fault* in the modules are single deviations from the code
(a dropped guard, a missing reset); substituting one for the definition it
precedes makes the property named after it in `PROJECT.json` fail.

## Runs

| Run | Instance | Shows |
|---|---|---|
| `pager_exact` | one buffer of three pages, two values, every call failing at will, recipes with and without checkpoints, of two sizes | page states, protections, counters and recipes agree; a modified buffer stays pinned; the pager implements `PlainMemory` |
| `pager_policy` | three buffers of at most two pages, three pages together, a resident target of one page; no system call fails, the worker may be lost | the target is exceeded only when nothing is left to evict and the peak reports it; cold pages are recoverable; the process is stopped only when the worker is lost |
| `channel` | two buffers, two windows, a budget of 3 for recipes of size 1 and 2, five calls; output streamed through the shared window, written to it at once, or sent over the socket | what is sealed is exact and what is restored is right, with deaths, timeouts, restarts and refusals; request and answer stay in step; the budget is kept; no window is overwritten before it is compared |
| `channel_live` | one buffer, a budget of 1, five calls, the same modes | every call returns or ends the process; the worker ends once the application is gone |
| `index` | three slots, thirteen addresses, pages of two, allocations of one or two pages | the index lists the live buffers in order; the search finds the owner of an address; `index_remove` never aborts; `prepare` reaches exactly the pages a range touches |
| `record_replay` | ten bytes in pages of two, an output of two pages and a half, a code page, three accesses of up to three bytes or loops of up to two iterations, recorded instructions that overlap or do not, limits of six instructions, one input segment and an encoding of four bytes | inputs and writes are exact; what `finish` lets through is encoded, decoded and replayed, with five exceptions by name; a replay gives the producer's bytes; `finish` refuses only for cause |
| `templates` | four entry points, templates of 1, 2, 4 and 6 bytes, at most three and at most five bytes | the sum of bytes is exact; the cache implements `RecencyList` |
| `interposer_heap` | two addresses shared by libc and the managed heap, sizes around the threshold and the maximum, one producer nested once, a resident target | allocations and frees lose nothing; a capture never seals a later buffer at the same address |
| `interposer_retry` | two functions in two modules that share the backoff table, one address, two failures, no resident target | the instrumented ranges are the known modules but those a dispatched producer runs in, and the known modules are the loaded ones once a change was dealt with; every function is tried again |
| `interposer_rejected` | one function, two addresses, a resident target | the finding below |
| `native_replay` | pages of two bytes, blocks that store up to three, up to five of them, outputs of up to seven bytes, windows of one and two pages | validation accepts only a whole run; stores stay in the window; the pages said to be restorable are those that are, and their restore is exact |
| `control_flow` | every program of up to four addresses | accepted code stays in the recorded instructions; no test of a flag sees what the inserted checks left |

The finding. `README.md` line 47 says that rejected recipes leave the
application's original output resident. `finish` of `preload.cpp` submits the
region, which seals the buffer, and then calls `af_manage`. When that fails the
candidate is counted and reported as rejected, but the buffer is sealed. In the
steps that `interposer_rejected` shows there is a resident target and another sealed
buffer, whose eviction fails; `collect` passes over the new buffer, so that it stays
resident until the collection of a later allocation evicts it. (Without a target it
is the eviction of the new buffer that fails, and nothing but a call of `af_evict`
evicts it later.) Its contents are safe (the recipe was compared); it is the report
and the sentence that do not agree.

Bounds. Three pages are the least with a region that is a proper part of the
buffer and has an inner page, so that read-ahead can stop at a resident page;
with three buffers an allocation makes eviction choose between two others. Two
windows are the least for a stream that is half compared when it restarts. Five
calls allow initialising, submitting both buffers, and two more calls on what they
left behind. Three slots are the least for an insertion and a removal in the
middle of the index, and thirteen addresses leave room for gaps between three
buffers. Three accesses are the least for a write through the frontier, one through
the marks and a read, in every order; one input segment and six instructions are
few enough for both limits to be met. There an encoding is a header of one byte and
the input bytes (the entries of the tables weigh nothing), so that with a limit of
four some are too long and some not shorter than their output; the two layouts are
one instruction, and two of which the second starts inside the first. The template of six
bytes is larger than the cache, and four entries are more than it may hold.
Two functions are the least for one to overwrite the other's backoff entry. An
output of seven bytes has three full pages and a partial one. Where the real
system may stop (the process ended, the bound on calls or operations reached) the
models stutter, so deadlock is checked everywhere else.

Fairness. `channel_live`: both processes are scheduled (weak fairness of the steps
that continue a call, and of the worker's). A read of the application ends because
the socket has a timeout; a replay ends because it is bounded in instructions and
by the sandbox's CPU limit. Nothing is assumed about new calls, or about either
process dying. `interposer_retry`: a producer that was called returns (weak
fairness of `Return`), and the program keeps calling each of its functions with an
eligible buffer as long as it keeps having one (strong fairness of
`CallWithBuffer`). This is an assumption about the program and not about the
scheduler: `RetriedEventually` says that the backoff table does not pass over a
function for good, which can only be asked of a function that is called again and
again.

## Proofs

All theorems hold for every value of the constants that meets the named
assumptions of the module; TLC evaluates those on the instances above.

**Pager.** `PagerInvariant` holds the inductive invariant, what each operation does
to one slot, and one lemma per action that it keeps the invariant; `PagerProofs`
has one lemma per action that says what it does to the memory the application sees,
and the theorems. It proves, for every number of buffers,
pages and values, every target and every set of failing calls, all safety
properties of `Pager` that the runs check: `TypeCorrect`,
`ProtectionIsRight`, `EvictionLosesNothing`, `WholeRegionSafe`, `AccountingExact`,
`ColdRecoverable`, `RecipesReleased`, `PeakIsPeak` and `StopHasCause` are
invariants, `PinnedStaysPinned` and `TargetIsMet` are action properties, and
`ImplementsMemory` is the refinement of `PlainMemory`. The assumptions are that the table is finite, a
page and a validation time are not zero, and the read-ahead limit is at least one.

The argument is one inductive invariant, `IInv`. None of the properties is
inductive alone. Losslessness needs that a sealed or evicted region has no dirty
page and that a clean page holds what the recipe computes. The whole-region
restore needs that a region without checkpoints is cold only as a whole and only
while evicted, and the counters need this in turn, because the restore adds the
whole region to them. That recipes are recoverable needs ids to be unique among
the live slots. Each operation is first shown to preserve what holds of one slot
(`SlotOK`), as a fact about records, and then what relates slots to each other
and to the worker. The refinement rests on one lemma per action that says what the
action does to the logical contents of each page: nothing, unless it is a
store, an allocation or a free. `TargetIsMet` rests on a candidate being wholly
resident: what `collect` subtracts for it while choosing is what its eviction frees.

**Channel and worker store.** `ChannelProofs` proves every safety property of
`Channel`, for every number of buffers, windows and calls, every budget and every way
the output is passed: `SealedStaysExact`, `RestoreIsFaithful`, `CallsStayPaired`,
`BudgetIsKept`, and the action property `WindowIsHeld`. `CInv` (`ConversationKept`)
describes the whole conversation: where the two processes are, what is in each
direction of the socket and what the window holds fit one of ten shapes, one per
kind of call and stage of it (`Rests`, `Greets`, `Drops`, `Queries`, `Profiles`,
`Restores`, `Submits`, `Streams`, `Seals`, `Sends`), unless a profile was left unread
(`Late`): then every read is off, and nothing read passes for a validation or a
restore. Exactness alone is not inductive: that the recipe
in the worker is right when the application seals is known only from how far the
comparison of windows has come and which answers are still on their way.
The budget is a sum over recipes, written as the number of pairs of an id and a
byte; a commit or a drop exchanges one row of these pairs. `CInv` also gives the
safety half of `CallsReturn`: by `NeverBothWait` the two processes never both read from
an empty socket in the middle of a call, so a read that times out has a slow or dead
worker to blame. That a call then does return needs fairness and stays with TLC.

**Allocation index.** `AllocationIndexProofs` proves `IndexIsExact`,
`SearchFindsOwner`, `RemoveNeverAborts` and `PrepareCoversRange` for any number of
slots, any page size and address space. `AInv` adds to the exactness of the list
that live buffers are not empty and do not overlap, the loop invariant of the search
(`Narrowed`: below `low` every buffer starts at or before the address, from `high` on
none does), and that the count is the number of buffers listed. The last is what
makes an insertion fit: the slot being filled is not listed, so the array has a free
cell. For the walk of `prepare`, `Walking` says that what is covered is what the range
touches of the buffers passed, and `Sized` that buffers are whole pages; when the
walk ends, a buffer not passed starts past the range.

**Recorder and replay.** `RecorderProofs` proves `InputsAreExact`,
`WritesAreKept`, `RegionIsProduced` and `FootprintIsMapped` for every memory,
output, set of code pages and limit. Its `IInv` says that a byte not stored yet
holds its original value (so that a late capture is still right), that every mark
is on a listed page, and on which ground `finish` may take a region for complete.
For the replay it adds the producer's history: `Explained` relates it to the memory
the producer leaves, `Follows` relates the replay's memory after each access to the
recipe and the accesses before it. From these come `ReplayReproduces`, and
`NothingIsMissing`: no recipe is refused for a missing input, an output byte not
produced or another digest.

Two more theorems compare the checks of the two sides. `RefusalHasCause`
(`RefusedForCause`) needs `Paged`, that the listed pages are page-aligned, and
`Chosen`, what `finish` leaves behind when it settles on a region.
`RecordedIsAccepted` (`AcceptsRecorded`) says that no modelled check of `encode`,
`submit`, `decode` or the replay refuses what `finish` let through, except in five
cases, in each of which it names the cause: the encoding is too long, or not shorter
than the output; there are too many segments; recorded instructions overlap; the
replay was stopped before its end. `Settled`
keeps what `finish` established (page budget, region, no store to code) until the
replay looks at it; `Metered` relates the recorder's instruction count and the
emulator's through sums over the history, a loop counting `Body` for each iteration;
and the segments are shown to partition the inputs, so that their lengths add up to
the byte count of the header (`SegmentBytes`). Besides, it is assumed that no code
page lies in the output (instructions are recorded from executable mappings only,
and the runtime maps its buffers for data), that the recorder keeps no more
instructions than a recipe may have (it gives up at a million), and that the limit
of scratch is below the limit of pages (with 256 MiB of output, 68 MiB below 1 GiB);
that the pages then pass `decode` is a lemma, `PagesBelow`.

**Native replay.** `NativeReplayProofs` proves `ValidRunIsWhole`,
`StoresStayInWindow`, `PageableIsExact` and `RestoresAreExact` for every sequence of
blocks, page size, output length and window size, with and without the fast path. The
cursor, the instructions left and the bytes digested are tied to the number of the
block that runs through `Stored`, the bytes stored by the blocks before it (a sum,
written as the number of pairs of a block and one of its bytes, so that one block
more adds its own row). `Collection` says which page boundaries have been seen, which
is the hard part: the fast path skips the check that would see one, and is right
because `trigger` is never past the next boundary that counts. `Restoring` says that
a run from a checkpoint is in the state validation had at the same block.

**Control flow.** `NativeReplayProofs` also proves `NeverLeavesRecording` and
`TestsSeeGuestFlags` for every number of instructions and every graph. During the
passes of `decode`, what is live is needed (`Grounded`), and as long as nothing has
changed in this pass, what is needed of the visited instructions is live (`Settled`):
a pass without a change has reached a fixed point. Execution then keeps a live flag
the guest's (`Running`). `LiveFlagsOnlyGrow` says that no pass takes a live flag
back; each pass that changes something adds one, so there are at most as many as
instructions.

**Template cache.** `TemplateCacheProofs` proves `RetainedIsExact` and
`CacheForgetsOldest`, the refinement of `RecencyList`, for every set of entry points
and sizes and for all limits that allow one template at least. The invariant `TInv`
says that the count of bytes is right, that the limits hold, that no template was
used later than the clock says, and that some sequence of the entries is in the
strict order of their times. That times differ is what makes the search for the
oldest template and the mapping `ByUse` definite. The sequence carries the whole
argument: erasing takes one entry out of it, a hit moves one to its end, and each
iteration of the loop takes its first (`CutFurther`). `ShrunkIs` shows by a least
counterexample that the loop leaves the sequence cut at the first place where the new
template fits, and `FitsIffNotCrowded` that this is the place the abstract list asks
for: the loop tests the bytes and the number before the insertion, the list after it.
An empty cache ends the loop whatever its limits say, which is right because `put`
has refused a template larger than the limit before.

**Interposer.** `InterposerProofs` proves `NothingIsLost`, `RangesStayExact` and
`OnlyOwnBufferSealed` for any number of addresses, sizes, functions and modules and
any depth of nesting. Its `IInv` adds that a capture is in progress only within a
producer, that a capture whose buffer was freed or moved is rejected (which is why
`finish` does not seal what lies there now), and that what a dispatched producer took
out of the instrumented ranges is a part of the known modules. `PolicyKeeps` and
`ManageKeeps` say what the policy leaves alone: it changes the state of buffers and
neither who owns an address nor its size.

Some facts here need induction over a number (the bytes of the first *i* blocks are
finitely many; a boundary lies in some block; what a loop has done after *i*
iterations). They are proved from a least
counterexample, whose existence is the well-foundedness of the naturals.

Only model-checked is all liveness (`CallsReturn`, `WorkerLeaves`,
`RetriedEventually`), which is out of the prover's reach.

## Limits of the models

- One application thread, and signal handlers of the application that do not
  touch managed memory while a call of the runtime is in progress.
- In `Pager` a page holds one value; partial last pages and sub-page recipes are
  rounded as `rounded()` does.
- In `Channel` whether a replay is right is a choice. What is shown is that a wrong
  one is never trusted.
- In `RecordReplay` an instruction makes one access, and the emulator is taken to
  execute an instruction as the processor did. So the block hook's comparison of the
  code it meets with the recorded instructions never fails and is left out, and the
  result differs only where something read did. Left out as well are the checks of
  fields that the recorder copies (magic, version, alignment, `mxcsr`, the size of
  one instruction), of `submit` that the recipe belongs to the buffer, and failures
  of `mmap`, of the emulator's own calls and of the digest.
- The masks of `byte_mask.hpp` are sets of bytes: which bytes are marked is modelled,
  not the shifts and 64-bit words that mark them.
- In `Interposer` the unmapping of the new buffer in `realloc`, whose result is not
  looked at after `af_prepare_read` has failed, is taken to succeed. The path is
  modelled because `realloc` has it; the runtime's `prepare` ends the process rather
  than fail on a buffer that is live.

## Not modelled

- What an instruction does: the x86 decoder, the translation to host code, and the
  instructions Unicorn runs. Their state is the processor's.
- The proofs that a loop stores at consecutive addresses (`affine.hpp`) and the
  read plans built on them: analyses of register arithmetic, with no state that
  outlives one call.
- The instantiation of a template for a new call: its result is a guess that the
  worker validates like any recipe.
- The extents of `memcpy`, `memmove` and `memset` (`unwind.cpp`): one walk over
  unwind tables and branches at start-up.
- The bytes of the recipe encoding, and decoding of bytes that no encoder wrote.
- The policy probe and PUT of the worker, which only the tests send.
- `af_capture`, which runs the recorder and calls `af_submit`; the interposed
  system calls, which call `prepare` and forward; statistics; error texts.
- Sandbox and launcher, which are set up once; the Python runtime, which checks
  arguments and calls the C interface; command line, measurement and tools.
