# Verification of the branch-shadowing mitigation

This directory holds TLA+ models of the program in `src/`, the TLC
configurations that check them on small instances, and TLAPS proofs of what
holds for every instance.

## The system

The repository has three programs and the LLVM tree one of them lives in.

| Part | Source | State | Operations |
|---|---|---|---|
| branch conversion pass | `llvm/lib/Target/X86/X86BranchConversion.cpp` | the block list of one machine function, `processedMBBs`, the list of lanes `takenBlocks` | `runOnMachineFunction` and the `replace...` functions it calls |
| converted code | what the pass emits | program counter, R11, R13, R15, EFLAGS | one x86-64 instruction at a time |
| code generator around the pass | `MachineBasicBlock.cpp`, `AsmPrinter.cpp`, `X86RegisterInfo.cpp`, `X86TargetMachine.cpp` | the control-flow graph, the reserved registers | fall-through, block labels, encoding of `cmov` |
| LBR device | `module_lbr_chardev/module` | one buffer and one read index for all openers; per CPU the branch record ring and its switch | module init and exit, `ioctl`, `read`, one kernel thread per CPU to switch recording on or off |
| LBR reader | `shadow_code/untrusted/misc/LbrReader.cpp`, `LbrStats.cpp` | a file descriptor, a buffer, the samples | open, dump, 32 reads, pick the record of the measured branch, close |
| shadow code builder | `shadow_code/untrusted/shadow`, `mem`, the setup functions of `BranchShadow.cpp` | lists of placed and of loose segments, one mapping | add a segment, finalize (place, map, move, compute jumps, write), look up an address |
| experiment harness | `shadow_code/untrusted`, `scripts`, `trusted`, `shared` | samples, shadow code in memory | one experiment per command line option |

The pass and the two other programs do not call each other: the harness
measures what the pass is meant to hide, through the device.  Within the pass
everything is sequential.  What makes it hard is that the loop over the blocks
changes the list it walks, that a *lane* is opened by one block, led around
others and closed by a third, and that the result is only right if the layout,
the recorded successors, the registers and the flags agree.  The device is
concurrent: several processes, a kernel thread per CPU, and no lock.

What makes each part correct:

* pass: it terminates, aborts only on what it does not support, completes
  every trampoline exactly once, and leaves no block that runs on into a
  neighbour, no block without its label and no branch unconverted;
* converted code: it takes the path of the source function, reaches the next
  block, keeps the program's registers, and (what the mitigation is for) passes
  the jump behind every block it skips;
* device: a dump holds the last branches in order, a reader gets the dump
  whole, recording is switched on again, no access outside the buffer;
* shadow code builder: segments do not overlap and stay within the mapping, the
  positioned ones keep their low address bits, every jump lands on its target.

## Modules

`BranchConversion` is the pass.  The block list is `before \o after`, split at
the iterator `iMBB`; `code[b]` and `succ[b]` are the instructions and recorded
successors of block `b`; `lanes` and `pending` are `takenBlocks` split at
`laneIterator`; `takenLane`, `mbb`, `fakeBlock` and `originalFallThrough` are
the loop's local variables.  The actions follow the loop:

| Action | Code |
|---|---|
| `NextBlock` | head of the loop: mark as processed, read the fall-through, insert the fake block |
| `LaneArrives`, `LaneSkips`, `LaneCannotSkip`, `LaneDies` | one iteration over a lane, by its branches |
| `LanesDone` | a lane of its own for a block nobody arrived at |
| `EmptyBlock`, `SplitJump`, `ReplaceUnconditionalJump`, `ReplaceIndirectJump`, `ReplaceConditionalBranch`, `UnsupportedBranch`, `NoWayOut`, `ReplaceNoBranchBlock` | the conversion of the block's end, with both assertions and the `llvm_unreachable` |
| `Finish` | the jump over the trampolines |

An instruction is its opcode class, the blocks it names and its condition
code.  Straight-line code is one instruction that sets the flags (`body`) or
does not (`keep`).  A conditional branch that tests no flag (`jrcxz`, `loop`,
`xbegin`) is a `jcc` without a condition code: the assertion of
`getCMovFromCond` fails for it, and the pass ends there.  Successors are sets.  Two
things the code does are not in the model: a lane that is erased is never freed,
and `erase` followed by `laneIterator--` at the front of the list steps before
`begin()`, which the list implementation in use allows because it is circular.

`SourceExecution` says what running the source function means: which block
control goes to next, given the flags at the end of the current one.
`ConvertedExecution` extends `BranchConversion`: the pass runs, then its result
is executed with one action per instruction.  The variables `at`, `flags` and
`tick` record the source blocks entered, and `Source == INSTANCE
SourceExecution` under that mapping is the abstract specification the detailed
one implements.  `Emission` chooses between machine code, where the encoder
drops the first operand of the tied `cmov`, and assembly text, where the
printer writes it; `Homes` are the registers the allocator may keep a program
value in.

`LbrDevice` is the device and its clients in one module, because neither means
anything without the other.  Per CPU: the ring of branch records, its top, the
recording switch and the kernel filter.  In the module: the buffer, the read
index, the four static thread pointers.  Per client: where it is in the ioctl, in
`device_read` or between calls, and what it has read, byte by byte.

| Action | Code |
|---|---|
| `Ioctl`, `ReadTos`, `ReadNext`, `ResetIndex` | `device_ioctl` up to `all_enable_LBR`; `ReadNext` is one of the 32 `read_next()` |
| `CreateThread`, `CreateFails`, `WakeThread` | `all_enable_LBR`, which sleeps in `kthread_create` |
| `EnableLBR`, `FilterLBR` | `enable_LBR` in a thread, switch first, filter second |
| `ReadRecord`, `OtherRead`, `TestIndex`, `CopyByte`, `CopyFromNull` | `device_read`: the call, the loop's test and its body are separate steps, and the body may use the index it reads or the one the test read |
| `Measure`, `NextRound` | `LbrStats::add_from_lbr_data`; the scripts run the next process, or the same one measures again |
| `UserBranch`, `KernelBranch`, `Migrate` | the processor and the scheduler |

`Init` is the state when `start_function` has returned: its threads are woken and
have not run, and `kmalloc` may have failed.  `count`, `lastSrc` and `want` are
history variables: how many branches were recorded, which was the last of the
measured one, and what both were when a client's ioctl stopped the recording.
The kernel is one that does not preempt kernel code (`Free`): what runs on a CPU
without sleeping is not interrupted by the scheduler, though interrupts occur and
their branches are recorded.

`ShadowLayout` is the code builder, as arithmetic on addresses.  `Plan`, `Kind`,
`Target` and `GivenPos` say which segments the three setup functions make and in
which order they add them; the actions are the steps of `add_segment`,
`place_segment`, `finalize` and `AlignedMem::allocate`, with every assertion as a
step to `aborted`.  The area is written twice, and both are steps: with nops
before any jump is computed (`FillWithNops`), so also where the builder aborts
later, and with the segments at the end (`Write`).  Segment sizes, spacing and jump ranges are the code's.
`Align` stands for 2^32 and `PageSize` for 4096; `AddressAssumption` says that the
whole area is smaller than `Align`.  Of a segment's bytes only the jump is kept.

`MCBranchConversion`, `MCConvertedExecution` and `MCShadowLayout` give the sets of blocks the
input functions are made of, and the addresses.  The theorems
are in modules of their own, each of which extends the one before it where a proof
needs the earlier result: `BranchConversionProofs`, `PassSteps` (what each step of
the pass does, as lemmas), `LayoutProofs`, `PathProofs`, `ExecutionProofs` and
`TrailProofs` for the pass and the code it emits, `LbrDeviceProofs` for the device,
`ShadowLayoutProofs` for the code builder.
Definitions whose comment begins with "Mutant" are deliberately wrong versions
of the definition that follows; putting one in its place must break a property.

## Runs

| Run | Checks | On |
|---|---|---|
| `pass` | `TypeOK`, `OpenTrampolinesHaveOneLane`, `EveryBlockLeaves`, `NamedBlocksHaveLabels`, `PassTerminates` | every function of three blocks out of all accepted kinds (9792 functions) |
| `refuse` | `RefusesOnlyUnsupported`, `ConversionInvariant`, `AssertionsHold` | three blocks, each of the four unsupported kinds among them, assertions on |
| `exec` | `XTypeOK`, `FollowsSource` | three accepted blocks, converted and run, with flags live across blocks |
| `trail` | `NoBranchLeft`, `ReachesNextBlock`, `ForwardJumpsVisitEveryBlock` | four blocks without branch pairs and indirect jumps, so that a branch can skip two, converted and run with dummy instructions |
| `lbr` | `LTypeOK`, `DumpIsTrail`, `MeasuresLatest`, `KernelEntriesOldest`, `ValidAccesses`, `RecordingResumes` | one client at a time, two CPUs one of which has a thread, two dumps, rings of two records of two bytes, three branches, failing allocations |
| `layout` | `LayoutTypeOK`, `SegmentsDisjoint`, `LowBitsKept`, `JumpsLand`, `AbortsOnlyUnsupported`, `AreaMapped`, `JneAtAlignedSrc` | the three builders, direct and indirect, 104 distances, 14 addresses, 4 mappings |

Three blocks are enough for a forward branch over a block, a backward branch,
a self-loop, a fall-through, two lanes that meet and a block nobody reaches, in
every combination; four let a lane skip twice.  A block has at most three
instructions, which is what the pass distinguishes (it looks at the last two),
or four where two branches stand in front of a jump, which is what
`getFallThrough` may find itself unable to analyze.  Two conditions are needed
for branch pairs (`jne`, `jp`), one elsewhere.

In `lbr` a ring of two records wraps around with three branches, two bytes to a
record let a short read (three bytes, by another program) leave the index within
a record, and two dumps let the second find what the first left: an index, stale
records in the client's memory, threads that have not run.  The second CPU has no
thread, as the fifth of a machine has none in the code.  The system may stop: the
clients need not go on, so deadlock is not checked.  `layout` has the distances on
both sides of every limit of `Supported`, and addresses for which the area
crosses, begins at and ends just behind a multiple of `Align`; the builder is a
program that ends.

`AbortsOnlyUnsupported` says for which distances from src to dst each builder
finishes (for example 12 to 129 bytes for a direct forward jump), `JumpsLand` for
which of these the finished code is right: for all but the `jne` over more than 129
bytes (the builder finishes up to 242), whose distance is narrowed to a byte
unchecked.  `AreaMapped` says that there are exactly two ways out of the mapping: below it when the first
segment's low bits are all zero, and behind it when the area begins in the last
bytes before a multiple of `Align`.  Both are far between with 2^32.

Six runs show where the code disagrees with what is said of it:

| Run | Property | What TLC finds |
|---|---|---|
| `v_empty` | `SkipHasFakeBlock` | after an empty block the lane that arrived there is not updated; it is led around all later blocks and the assertion "assuming this will never happen for last block" fails |
| `v_branches` | `NoBranchLeft` | the first branch of a pair and every indirect jump stay, against "convert all branch instructions" in `README.md` |
| `v_reserved` | `ProgramValueIntact` | R13 and R14 are reserved for the pass, which uses R13 and R15 |
| `v_asm` | `FollowsSource` | printed as text, the `cmov` writes R11 instead of R15 and a conditional branch is never taken |
| `v_dummy` | `FollowsSource` | with `-x86-bc-dummy-instr`, a skip-trampoline fills up with `ADD8ri`, which sets the flags; a block that is reached by a skip and tests the flags of an earlier block branches the other way |
| `v_lbr` | `DumpIsTrail` | with two clients an ioctl overwrites the buffer a client is reading; what `tester/trigger_dump.c` takes for its dump is records of two CPUs |

`exec` checks `FollowsSource` without the dummy instructions, because of `v_dummy`;
`trail` has them, and blocks that set the flags they test.  A block that ends in a
trap fails the assertion on line 306 (`Supported` excludes it).

`ValidAccesses` lets two accesses go wrong and no other: the copy through the null
pointer after `kmalloc` has failed, and the one through the error pointer after
`kthread_create` has.  Both are in the code and in the model, and after the second
`RecordingResumes` asks for nothing, since the threads that exist are never woken.
What two clients do to each other (the read index past the end of the buffer, a thread
woken when it is gone) is in the model too and excluded from `lbr`, which has one;
`v_lbr` shows one case of it.

## Fairness

The pass is a sequential program, so a step that is enabled is taken
(`WF_vars(PassStep)` in `FairSpec`).  A processor executes the next instruction
(`WF` on `Convert` and on `Execute` in `XFairSpec`).  Nothing is assumed of how
conditions turn out: a loop of the source may run for ever, and `ReachesNextBlock`
only asks that the converted code keeps entering blocks as the source would.

In `LbrDevice` a process inside the kernel goes on (`WF` on `KernelStep`), and
the scheduler gives a thread that is ready its turn (`SF`, because the CPU may be
busy with module code again and again in between, which disables the thread's
step each time).  Clients are under no obligation.

## Proofs

Every theorem holds for every value of the constants that satisfies the named
assumptions of the modules.  None of them is evaluated by example: a function of
any number of blocks, a ring of any size, any number of CPUs, any addresses.

| Theorem | Module | Says |
|---|---|---|
| `TypeCorrect` | `BranchConversionProofs` | `Spec => []TypeOK` |
| `InvariantHolds` | `BranchConversionProofs` | `Spec => []ConversionInvariant` |
| `RefusesNothingElse` | `BranchConversionProofs` | `Spec => []RefusesOnlyUnsupported` |
| `AssertionsNeverFail` | `BranchConversionProofs` | `Spec => []AssertionsHold` |
| `TrampolinesCompleted` | `LayoutProofs` | `Spec => [](Supported(fn) => OpenTrampolinesHaveOneLane)` |
| `PathsHold` | `PathProofs` | `Spec => []PathsInvariant` |
| `BlocksLeave` | `PathProofs` | `Spec => [](Supported(fn) => EveryBlockLeaves)` |
| `AllConverted` | `PathProofs` | `Spec => [](Supported(fn) /\ AllAtEnd(fn) => NoBranchLeft)` |
| `LabelsEmitted` | `PathProofs` | `Spec => [](Supported(fn) => NamedBlocksHaveLabels)` |
| `RunTyped` | `ExecutionProofs` | `XSpec => [](Supported(fn) => XTypeOK)` |
| `RunFollowsSource` | `ExecutionProofs` | `XSpec /\ Supported(fn) /\ FlagsSafe(fn) => FollowsSource`, for machine code |
| `TrailsLaid` | `TrailProofs` | `Spec => []TrailsInvariant` |
| `TrailIsLeft` | `TrailProofs` | `XSpec /\ Supported(fn) /\ AllAtEnd(fn) /\ JumpsLast(fn) => ForwardJumpsVisitEveryBlock` |
| `KernelEntriesStayOldest` | `LbrDeviceProofs` | `Spec => []KernelEntriesOldest` |
| `DeviceTyped` | `LbrDeviceProofs` | `Spec => []LTypeOK` |
| `AccessesValid` | `LbrDeviceProofs` | one client: `Spec => []ValidAccesses` |
| `DumpReadsTrail` | `LbrDeviceProofs` | one client: `Spec => []DumpIsTrail` |
| `LatestMeasured` | `LbrDeviceProofs` | one client: `Spec => []MeasuresLatest` |
| `SegmentsApart` | `ShadowLayoutProofs` | `Spec => []SegmentsDisjoint` |
| `BitsKept` | `ShadowLayoutProofs` | `Spec => []LowBitsKept` |
| `JumpsArrive` | `ShadowLayoutProofs` | `Spec => []JumpsLand` |
| `LayoutTyped` | `ShadowLayoutProofs` | `Spec => []LayoutTypeOK` |
| `JneFound` | `ShadowLayoutProofs` | `Spec => []JneAtAlignedSrc` |
| `AreaInMapping` | `ShadowLayoutProofs` | `Spec => []AreaMapped` |
| `AbortsAreUnsupported` | `ShadowLayoutProofs` | `Spec => []AbortsOnlyUnsupported` |

**The pass.**  `SourcesAssumption` says that a source instruction names blocks of
the function, that a direct branch names exactly one and that a return, a call or
a stop names none.  The hypotheses are conditions on the input function, each
with functions on both sides of it: `Supported` (no empty block, no block that ends in
a trap, no conditional tail call and no branch that tests no flag) is what the pass refuses otherwise, and `AllAtEnd`
(no indirect jump, and conditional branches only at the end of a block or in front
of its last jump) is what `analyzeBranch` finds; `v_branches` shows that without it
branches do stay.

That no assertion fails is not inductive.  That a lane has a fake block to skip
through at the last block depends on every lane's destination being still
ahead, which depends on `processedMBBs` and the rest of the list covering the
function, and on blocks ahead not having been touched.  `PassInvariant` collects
this: `AfterInOrder`, `AfterUntouched`, `VisitedOrAhead`, `LanesApart`,
`LanesLeadAhead` and `AtBlock`.  Each action has a lemma; `BlocksFrame`,
`LanesFrame` and `TermFrame` say once what an action that leaves the blocks, the
lanes or the end of a block alone preserves.

`LayoutProofs` adds what is true of the list.  `OneLane`: every block the pass has
made and not yet filled is the current block of exactly one open lane, no two
lanes share one, and no lane is open on a filled one.  `LayoutOK`: the list ends with
the last source block while it is walked (`EndsAtN`), the remembered fall-through
is ahead (`FallThroughAhead`), a block that ends by loading R15 stands in front of
a fake block (`LeaBeforeFake`), the fake block just made stands behind its block
(`FakeBehind`), and no block is in both halves (`PlacedOrAhead`).

`PathProofs` adds where each block leads.  A *goal* `g` gives every block the source
block it is on the way to; `PathInvariant` says that there is a goal that agrees with
every trampoline and under which a source block is its own (`GoalOK`, `PathsOK`); that
a converted block goes on to blocks whose goals are where its source block went
(`ConvertedOK`), and so does the block being converted while its end is still to be
replaced (`AtSource`); that a jump split off a block and still ahead leads to its
goal (`SplitGoals`); and that a lane is bound for the goal of the block it completes
(`LaneGoals`).  Each action's lemma names the goal after the step.  In the final
state this gives `EveryBlockLeaves`.

`LabelsEmitted` needs the recorded successors too, because `AsmPrinter` leaves out
the label of a block that seems to be entered by fall-through only.  `LabelState` says
that every block the pass has made, other than a fake one, is a recorded successor of
some visited block (`BlocksLinked`); that the target of a jump at the end of such a block,
and every block a source block named in the first place, is a recorded successor of
the block that names it (`JumpsLinked`, `SourcesLinked`); and that a fake block stands
between a visited block and the next (`FakeFollows`), so that a visited block never
falls through into a successor that is not fake.

**The converted code.**  `RunFollowsSource` is the refinement: the converted code
implements `SourceExecution` under the mapping `Source`.  Every instruction
either is a step the source does not see or enters a block the source goes to next.
The invariant `RunOK(g)` takes a goal from `PathInvariant`: outside the source
blocks, the goal of the block control is in is one the source goes to next; R15
holds an address with such a goal whenever a fake block is entered (`Bound15`),
and between the load and the `cmov` the registers hold what was loaded (`Loaded`).
Hypotheses: `Emission = "obj"`, because the text form is wrong (`v_asm`), and
`FlagsSafe`, which restricts nothing without dummy instructions and asks, with
them, that every block sets its flags itself (`v_dummy` shows what happens
otherwise).  `RunTyped` says besides where control can be: from the call to the
return it is at an instruction of a block or just behind the last one.

**The trail.**  `TrailIsLeft` is what the conversion is for.  A goal is not enough for
it: a trampoline may reach its goal and have left a jump out.  `TrailInvariant`
says that there are two maps of the blocks, the source block `o[b]` a block was made
for and the one fake block `v[b]` a trampoline is entered through.  They agree with
the instructions: an address a block loads is that of a trampoline of the same owner,
entered through the fake block directly behind (`LoadsOK`); a trampoline passes control on to
the fake block behind the next block, or ends at that next block, or goes back to a source
block not ahead of its owner (`RoutesOK`).  While the pass runs, an open lane is
entered through the fake block at the end of the list and bound for a block ahead of
its owner (`LanesOnWay`), which needs that no block is in the list twice (`ListOK`) and that
source blocks are visited in their order, each with the jump split off it directly behind
(`OrderOK`).  In a run, `RunOnTrail` then says that the fake blocks passed since source
block `at`, at place `s` of the list, are those at `s + 1`, `s + 3`, and so on, with a
block that is not fake in front of each (`Ladder`); in a fake block R15 holds a
trampoline entered through it, and in a trampoline the last one passed is its own.
Where the trampoline ends, that is all fake blocks up to the destination
(`ForwardTrail`).

`JumpsLast` asks that an unconditional jump ends its block, which it does in LLVM,
where it is a terminator.  Nothing is asked of the flags or of the way the
code is emitted: with the dummy instructions, or as text, control may go to the wrong
block, but it leaves the trail of the block it goes to.

**The device.**  `KernelEntriesStayOldest` and `DeviceTyped` hold for any CPUs, clients
(several at once, too), ring size and number of ioctls.  `DeviceTyped` keeps the loops
of `read_lbr`, on both sides, and the places a client writes to within their arrays,
and the thread pointers on threads that exist.  It does not bound the read index: with two
clients that does run past the buffer, and with one `AccessesValid` says that it does not.  `enable_LBR` switches the
recording on before it sets the filter, so the first rests on who can be in that
window.  `FilterInvariant` adds what is needed: records are numbered up to `count`; a
CPU that records unfiltered has a thread between the two steps, so no program runs
there; and before the filter is set no program's branch is on record.

The three theorems about what a client reads assume `OneClient`, that there are no
two; `v_lbr` shows that with two clients they are false.  They follow a record all
the way from the processor to the client.  `RingOK`: the record in a slot is as many
branches old as the slot is behind the top.  For a client, `DumpInvariant` says what
holds at each of its program points: while it copies the registers the recording on its
CPU is off and has not moved since the stop (`Stopped`), the part of the buffer written so far is the trail from
the oldest record on (`Saving`), and then all of it (`Dumped`); the read index is
where the client is, and what it has read is the buffer up to there (`Position`); the
threads it is about to wake exist (`Waking`); and the sample is the latest measured
branch if that is within the ring (`Measured`).  The assumptions are that the ring and
its records are not empty and that the CPUs with threads are finitely many natural
numbers.

**The code builder.**  `LayoutInvariant` has four parts.  `PlacementOK`: the list is in
order of positions with no two segments overlapping, except for the one pair the
reversed builder puts at its own distance; what has been added and what is still to
come is the plan; the positioned segments are where they were given until the move
(`Unmoved`), and every other segment with a position is in the list.  `MemOK`: how large the mapping is and where
the area begins in it.  `Moved`: after the move the positioned segments are a multiple
of `Align` from where they were given.  `JumpOK`: a jump that has been computed lands on
its target, unless it is a `jne` whose distance does not fit a byte.  The positions of loose segments are recursive functions over
the list, backwards from a positioned segment and forwards behind it; `BackIs` and
`AheadIs` prove their closed form (a sum of sizes and spacings).  That takes an
induction, done without the library's induction theorems: a set of naturals that is
not empty has a least element (`LeastElement`, from `WFMin`), so a property that
passes from each number to the next has no counterexample (`AllNumbers`).
`AbortsAreUnsupported` compares the assertions with the table `Supported`, for all ten
ways to build.  `SupportedIs` takes the table apart: there is room between the two
positioned segments for the ones between them (`Room`), and every short jump is in its range
(`Reach`).  `SupportInvariant` then says how far each segment is from the positioned
one it is placed against, phase by phase (`BeforeFirst`, `Between`, `BehindSecond`), so
that `RoomIs` and `ReachIs` give what the assertions of `place_segment` and of
`SegJump` admit.  `JumpsArrive` rests on both invariants: the `jne` spans the distance
it was given (`JneSpan`), and among the supported ones that fits a byte up to 129.
The assumptions are that `PageSize` divides `Align` (`AlignAssumption`), and that there
are 600 bytes of room around both given addresses, which are less than `Align` apart
(`AddressAssumption`).

**Only model-checked.**  Everything about termination and fairness
(`PassTerminates`, `ReachesNextBlock`, `RecordingResumes`), which is out of the
prover's reach.  Every other property of a passing run is a theorem, on the
hypotheses in the table.  The violation
runs are counterexamples and need no proof.

## Not modelled

* LLVM apart from the pass and what it uses, and the vendored libraries: third-party
  code, unchanged.  It is 99.9 % of the lines of the repository, so the map covers
  only a small share of them.
* Unloading the device (`end_function`).  It wakes threads and waits for nobody;
  every behaviour in which one of them, or an ioctl, is still under way runs in
  freed memory.  Likewise kernels that preempt kernel code, on which an ioctl may
  move to another CPU between its steps, and calls before `start_function` has
  returned.  Note that `lbr_dumper.c` does not compile as it stands
  (`MODULE_LICENSE("GPL")t ;`, line 19).
* What a write to unmapped memory does after `AlignedMem::allocate` has missed a
  failure of `mmap` (it compares with `nullptr`); the behaviour ends there.
* Statistics: floating point.  `MiniStatistics::stddev` adds `(v - avg, 2)`, a comma
  expression whose value is 2, so the result is the square root of 2 for every sample.
* What a build without assertions does with a conditional branch whose target is not a
  block, or that tests no flag: `llvm_unreachable` and, in `getCMovFromCond`, an index
  outside a table are undefined behaviour there.  In the model the pass ends in every build.
* `LbrReader::read_lbr` has no `return` on its normal path; no caller uses its value,
  and the model assumes it returns.
* The victims are a few lines of assembly without state; the experiments measure
  hardware that has no model here.
