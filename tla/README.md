# Trisha in TLA+

Trisha compiles Trident programs to Triton assembly, runs, proves and verifies
them (singly and in batches), mines Neptune blocks on CPU and GPU, and prepares
Neptune transactions. This directory models the parts of it whose correctness
depends on orders of events, on what is left over from earlier events, or on
generated code that has to mean what its source means: mining with its sessions
and searches, batch proving, the GPU accelerator shared by proof threads, the
way of a program from Trident's intermediate representation through lowering
and linking to the machine, the verifier that lets a neural compiler replace
code, and the commands that handle transactions and wallets. TLC checks the
models on small instances; TLAPS proves most of their safety properties for all
values of the constants (see Proofs).

    tlc -config MCMiningRange.cfg MCMiningRange        # and so on for each run
    tlapm MiningRangeProofs.tla                        # and so on for each *Proofs

`PROJECT.json` lists the runs, the source lines behind every definition, the
hazards with the properties that cover them, and for each property a mutated
definition that violates it. Definitions commented "Variant of ..." are these
mutants; no specification uses them.

## Inventory

| part | source | state | how it interacts |
|---|---|---|---|
| range search | `honeycrisp/mining_session.rs`, `neptune_mine.rs`, `aruminium_mine.rs`, `tip5.metal`, `types.rs` | atomic attempt counter, mutex winner slot, mapped GPU flag and payload | host threads and the GPU dispatcher share counter and slot; the lanes of a kernel share the mapped state |
| mining session | `cli/mining_session.rs`, `cli/mine.rs`, `cli/neptune.rs` | budget spent, template, pending result, legacy buffer | RPC to a node that other miners use too; calls the range search once per batch |
| batch runner | `cli/batch.rs` | window of thread handles, results by index | used by `prove`, `run`, `verify`, `deploy` batches |
| batch proving | `cli/prove.rs`, `cli/proof_file.rs` | proof files on disk, exit code | jobs of one batch write to one directory |
| stack legalization | `rs/lower/legalize.rs`, `sequence.rs` | none; the code it emits borrows RAM of the program | called by the lowerer for deep accesses and shuffles |
| Triton lowering | `rs/lower/triton.rs`, `target_call.rs` | labels, deferred blocks, the scratch search | emits assembly for the linker |
| linker | `rs/lower/linker.rs`, `rs/lower/mod.rs` | none | joins module assemblies, drops unreachable code, adds verifier routines |
| recursive verification | `rs/recursive/` | the RAM that its routines reserve | assembly that the linker appends to programs |
| stack verifier | `rs/cost/stack_verifier/`, `rs/cost/scorer.rs` | stack of a simulated block | judges candidates of the neural compiler and variants of training data |
| neural compiler | `rs/neural/` | tokens said, the grammar's account of the stack | asks the verifier; reports which block won |
| cost model | `rs/cost/` | cost tables | estimates |
| wgpu prover hooks | `wgpu/accelerator.rs`, `patches/gpu.rs` | staging pool, twiddle cache, memory budget | the patched prover calls them from every proof thread; one accelerator per process |
| guess and legacy buffer | `honeycrisp/warrior.rs`, `rs/warrior.rs`, `wgpu/warrior.rs`, `wgpu/accelerator.rs`, `wgpu/shaders/mine.wgsl`, `neptune_mine.rs` | guesser tree of 43 GB; result buffer of a batch | `mine` of a program; legacy batches of a session |
| Neptune transactions | `neptune/`, `cli/deploy/` | artifacts on disk | programs, intents and private files of the user; one request to a gateway |
| neuron commands | `cli/neuron.rs`, `cli/neptune.rs` | wallets on disk, hidden addresses per network | calls of neptune-cli, which asks the node |
| command front ends, node start, saved states | `cli/` | local files | sequential |
| CPU warrior, conversion | `rs/` | none | calls of Triton VM |
| libraries, baselines, scripts, vendor patches | `lib/`, `baselines/`, `scripts/`, `patches/` | data | none at run time |

What is hard here, and what makes each part correct:

* **Interleavings.** Workers reserve, hash and publish in separate steps; lanes
  race for a flag; proof threads take and return staging buffers. Correct: every
  attempt is handed out once, only real wins win, a buffer has one user.
* **Staleness.** The tip moves between two fetches, a legacy buffer outlives its
  template, a GPU payload outlives its launch, the recorded size of a pooled
  buffer is not its real size. Correct: what is used is checked at the moment it
  is used.
* **Failure.** A kernel that lies, a node that rejects, a lost answer, a job
  that panics, a write that is cut short, a poisoned lock. Correct: one budget,
  one accepted block, exit code 0 only for whole proofs, no thread stuck.
* **Files and other processes.** The user saves an intent while it is checked,
  two commands write to one file, a node is restarted on another network between
  two calls, a command is killed half way. Correct: what is sent is what was
  checked, what was reported stays true, only the meant wallet goes.
* **Generated code.** Bodies are emitted later than the branch that jumps to
  them, labels are renamed and found again by suffix, digests come off a stack
  in reverse. Correct: the linked program does what the source does.
* **Judgements.** A block replaces another because it agreed on some stacks.
  Correct: it agrees on all of them.
* **Boundaries.** `u64::MAX`, rounded launches, last partial batches, a run of
  zero cells at the last address of the field, chunk remainders.

## Modules

**`RangeSearch`** is the abstract search. It has a set of untried attempts that
only shrinks, a winner that is written once, and an answer: "found" with a
winner, "none" only when nothing is left to try, or a panic. Who searches and in
which portions is not visible.

**`MiningRange`** is one call of `mine_cpu_range` or `mine_gpu_range`. `next`
and `end` are `Attempts`, `winner` is `Winner`, `pc` and `held` are each
worker's position and reserved range, `found` and `payload` are `MineState`,
`lanes` are the threads of the launched kernel. A look at the winner
(`CheckWinner`), the atomic `fetch_update` (`CpuReserve`, `GpuReserve`), the
hash, and the publication are separate steps, as they are separate atomic
accesses in the code. `Dispatch` resets the flag and launches whole groups;
lanes hash, claim (`LaneClaim`) and write the payload in two steps; `Complete`
is the synchronous end of the command. `Validate` hashes the returned nonce on
the host and panics over a false one. A panic leaves the scope only after every
worker has been joined (`Return`). Whether an attempt meets the target, and
whether the kernel says so, are chosen apart, so a defective kernel is covered.
The panic of `Attempts::new` on an overflowing range is part of `Init`.

**`MiningSession`** is `run` with the closures of `run_neptune`: fetch and parse,
check the budget, prepare the legacy buffer, search one batch, fetch again,
compare parents, submit, and act on the answer. Each `?` of the code is a way to
`Fail`. The node is external and adversarial only in the sense that nothing is
assumed of it: its tip moves over a fork and back at any time, it rejects what
it likes, requests and answers get lost, a template may be missing or
inconsistent, and a request that timed out may still be accepted. A batch is one
step, since a session uses nothing but what `RangeSearch` promises; that
`MiningRange` keeps this promise is `ImplementsSearch`. In the other direction
`BudgetHolds` shows that a session never passes a range whose end overflows, so
the panic of `Attempts::new` cannot come from a session.

**`BatchRunner`** is `run_batch`: spawn in order, join the oldest when the window
is full, store by the index kept beside the handle, panic inside the scope when
a job panicked. **`ProveBatch`** extends it by what `cmd_prove_batch` does: the
collision check before any work, the directory that may not be creatable, and
per job compiling and proving (`Work`) and `fs::write` in its two steps,
truncation (`Create`) and content (`Write`), each of which can fail.

**`TritonMachine`** is the part of Triton VM that lowered stack code uses, one
action per instruction. It is external to the repository. **`Legalize`** is
`legalize.rs` and `sequence.rs` as functions from operations to instructions.
**`StackLowering`** lowers programs of stack and RAM operations with them, and
executes the code instruction by instruction beside the meaning of the source
operations (`Meaning`, external: Trident's TIR). `at` marks the instructions
where the code of an operation, or of a shuffle of several, is complete.

**`GpuHooks`** says how each hook of `GpuAccelerator` divides a call into passes:
what stays on the host because it is small, irregular or over budget, what is
cut into chunks of rows, and how many workgroups a dispatch has.
**`GpuStaging`** runs such passes from several threads on one accelerator: the
pool is locked only to take out or to put back a buffer, the twiddle cache is
locked once to fill it and once more, for the rest of the NTT, to use it. A
panic drops the thread's buffer and poisons the twiddle lock if it is held.

**`TritonNative`** adds the rest of the instructions that programs use to
`TritonMachine`: streams, arithmetic on words, sponge, Merkle and dot product
steps, and the verifier snippets of tasm-lib, which here accept a proof or do
not. **`TirLowering`** is `lower_op` for every operation of TIR, with fresh
labels, the list of deferred bodies that is emptied after each function
(`Flush`), the scratch search, and the checks on entry points and target calls.
**`RecursiveAssembly`** is the code that `rs/recursive/` generates.
**`Linker`** is `link`: mangled labels, the call graph read from the text, the
guess at a label by its suffix, reachability, the prelude, and the routines
appended. **`LinkedPrograms`** lowers and links programs of several modules,
executes them on the machine, and says independently, on structured programs,
what their operations mean.

**`BlockVerifier`** is the stack verifier: `ExecuteLine` simulates an
instruction as `executor.rs` does, `VerifyEquivalent` compares two blocks on
the test stacks, and the scores, the diagnosis and the price of a block follow.
Bitwise `and` and `xor` are constants of the module, and so is the largest
height of a table, the largest power of two of a `u64`.
**`NeuralVocabulary`** is the vocabulary of both model versions and the grammar
(`GrammarStep`, `ValidMask`). In **`NeuralBlocks`** a model says one admitted
token after the other, its choices being arbitrary; what it said is decoded,
judged and reported, and variants of a block are made for training. The
machine's own meaning of the same lines (`Machine`) is written beside it.

**`CommandJobs`** is the frame of several processes of one user, each with a
script of commands; a process can be killed between any two of its steps.
**`NeptuneTransaction`** is what `neptune/lib.rs` decides about an intent; a
value in a file is kept with its spelling, so that a decoder which reads more
than the encoder writes can be told apart. **`NeptuneSubmission`** has the
deploy commands step by step: read the program, inspect the intent, read it,
check, inspect the auth file, open it, create and write an artifact, send one
request, read the answer. Each inspection and the reading after it are separate
steps, because the code goes by path both times.
**`NeuronWallet`** has the neuron commands, with each call of neptune-cli and
each file operation as a step. **`NeptuneCommands`** runs both kinds beside each
other, while files are saved and the node is moved.

**`ParallelFind`** is rayon's `find_any` (external). **`GuesserBuffer`** builds
the legacy tree round by round and swap by swap, and searches on it.
**`NonceGuess`** is `mine` of a program: the choice of a backend, the search of
a pool, of a loop, and of batches on the GPU, whose lanes run the kernel step by
step. **`MineCommand`** is the command with both.

`MC*` modules and `.cfg` files instantiate these; `*Proofs` modules hold the
theorems.

Composition: `MiningSession` and `MiningRange` both refine `RangeSearch`;
`ProveBatch` extends `BatchRunner`; `StackLowering` extends `Legalize` extends
`TritonMachine`; `MCGpuStaging` joins `GpuStaging` with `GpuHooks` through the
constant operators `Passes` and `Words`. `LinkedPrograms` extends `Linker`, which
extends `RecursiveAssembly` and `TirLowering`, which extend `Legalize` and
`TritonNative`. `NeuralBlocks` joins verifier and vocabulary, `NeptuneCommands`
submissions and wallets, `MineCommand` tree and guess.

## Runs

| run | instance | result |
|---|---|---|
| `mining_range` | 2 host workers, 4-lane launches in groups of 2, numbers 0..6, six calls, three teams | holds; about 255,000 states |
| `mining_session` | 3 tips on both sides of a fork on four networks, 2 masts, batches of 2, limits 0, 1, 4, 5, backends cpu, gpu, auto | holds; about 88,000 states |
| `mining_session_refresh` | the same | violated, see Findings |
| `prove_batch` | 4 jobs, windows 0 to 3, colliding and distinct names, files of earlier batches | holds; about 84,000 states |
| `stack_lowering` | field of 9, window 4, chunks of 2, six programs, every subset of occupied cells | holds; about 693,000 states |
| `gpu_staging` | 2 threads with any of 8 proofs each, pool of 2, budget 40 words, dispatches of 8 groups | holds; about 174,000 states |
| `gpu_staging_columns` | the same | violated, see Findings |
| `linked_programs` | 22 programs of up to 3 modules on a field of 127, real window, chunks and hash width | holds; about 7,600 states |
| `neural_blocks` | words of 8 bits, field of 241; any two tokens on stacks of 0, 9 and 63 words, any three of those that matter to six blocks, 64 starts | holds; about 37,000 states |
| `neural_order` | the same, one block with `pow` | violated, see Findings |
| `neptune_commands` | up to 2 processes; an intent for each check that only it refuses; 2 networks, up to 7 addresses | holds; about 117,000 states |
| `mine_command` | trees of 32, 64 and 128 leaves with the real five rounds, 3 threads; batches of 4 lanes, every backend | holds; about 16,000 states |

What they show:

* `mining_range`: `ReservationsPartition` (disjoint reservations that make up
  exactly the range up to the counter, which stops at the end), `WinnerIsValid`,
  `NoneMeansAllTried`, `BoundedOvershoot` (at most one more reservation per
  worker after a win), `PayloadIsFresh`, `Terminates`, `ImplementsSearch`.
* `mining_session`: `BudgetHolds`, `SubmissionIsCurrent` (a submission is the
  block it was mined on, still the tip at the last fetch), `OneBlockPerSession`
  (also when the answer to an accepted submission is lost), `BufferMatches`,
  `SelectionHonored` (across a fork), `SessionEnds`, `SessionImplementsSearch`.
* `prove_batch`: `ResultsBelong`, `ProofsSurvive` (no job
  destroys the proof of another), `ZeroExitMeansProved` (no partial and no
  earlier file is taken for success), `BatchEnds`.
* `stack_lowering`: `LoweringIsExact`, `OccupiedCellsSurvive` at every
  instruction, `FailsOnlyWhenFull`, `Ends`.
* `gpu_staging`: `BuffersExclusive`, `CopiesFit`, `TwiddlesMatch`,
  `WholeAnswers`, `FailureIsContained`, `ThreadsStop`.
* `linked_programs`: `LinkedIsExact` (every label called is defined once, and
  the executed program leaves stack, streams, sponge and RAM as the source
  would, and crashes only when the source fails).
* `neural_blocks`: `AcceptedIsSame` (a block that was accepted does on every
  tried stack what the original does), `MaskIsSound` (the grammar never believes
  in more words than there are), `RewardsAreEarned`, `JudgesAgree` (the
  diagnosis and the shaped score of an accepted block are those of an equal
  one, but for a block that leaves no word).
* `neptune_commands`: `SubmissionIsExact` (what a gateway gets is canonical,
  described output by output, and the kernel that the proof is about; a private
  auth file was inspected before), `ReportsAreTrue`, `AnswersAreRight`, `WalletIsMeant`.
* `mine_command`: `PathsAuthenticate` (every leaf and path of the tree is that
  of a verifier who builds it from 32 buds per leaf), `GuessIsHonest` (a
  reported nonce and digest belong together and win; none means all were tried).

In `neural_blocks` the blocks have only instructions that the verifier
executes as Triton does, and short words where Triton requires them. Outside of
that set it accepts too much, by its own comments: unknown instructions are
ignored, `xb_mul` and the like leave the stack alone although the grammar knows
their effect, the implied range checks of u32 instructions are not simulated, so
that their removal is accepted, and input, secrets and memory are read as dummy
zeros. `grammar.rs` forgets types beyond 64 words from the top, and does not
follow them through `swap`, `pick` and `place`; depth is what the mask uses, and
that is right. 41 test stacks are made where a comment says 40.
The shaped score of a block that is judged equal and leaves no word on its stack
is 200, not the 900 of the comment at `scoring.rs:19`, since line 45 compares the
number of matching words with `bl.stack.len().max(1)`; the attempt to prove
`JudgesAgree` led there, and it excepts such blocks by name.

In `mine_command` the weak exchange of the kernel may fail spuriously, as WGSL
allows; the only winner of a batch can then be lost, which `GuessIsHonest`
excepts by name (`lost`). The GPU searches whole batches: it may return a nonce
past `max_attempts`, and reports up to one batch more attempts, although
`accelerator.rs:681` says that `max_attempts` limits the nonces tried; the
property bounds this by one batch. The host never exceeds the limit.

In `neptune_commands` a list of hidden addresses is exact unless two commands
met on it or a write was cut short, because `cli/neuron.rs` reads, changes and
rewrites the file without a lock; answers are of the selected network unless the
node was moved during the command.

`GatewayAuth::from_file` looks at the kind and the mode of the auth file
(`transport.rs:18-29`) and then opens it by its path (30-40), without looking at
the open file. When the user saves in between, a file that group or others may
read, or a link, is used; its network, endpoint and token are still checked.
`SubmissionIsExact` therefore says that the file inspected was private and
regular, and that the file used is so too unless it was saved between the two
steps; a case of the run saves such files there. The mode is checked on Unix
only, which is the build modelled.

### Bounds

Sizes of the code are constants of the modules, with scaled values in the runs:

| constant | code | run | why it is enough |
|---|---|---|---|
| `MaxU64` | 2^64 - 1 | 6 (range), 5 (session) | ranges end at, before and past the largest number |
| `Launch`, `Group` | `THREADS_TOTAL`, `THREADS_PER_GROUP` | 4, 2 | whole launches, cut ones, and lanes that only fill a group |
| `Batch` | 4096 | 2 | no batch, a partial one, two whole ones, two and a partial one |
| `Window` | 16 | 4 | depths at the edge of the window and beyond; register and pointer offsets as in the code |
| `Chunk` | 5 | 2 | spills of one, two and three chunks, whole and partial |
| `Order`, `Preferred` | 2^64 - 2^32 + 1, 2^31 | 9, 4 | the preferred block occupied in part and in whole, runs that end at the last cell, runs that only exist around the end |
| `Horizon`, `Widest` | 1024, 4096 | 4, 8 | runs of operations at and past both limits |
| `PoolLimit`, `MaxGroups` | 8, 65535 | 2, 8 | full pools; one dispatch over the limit that still fits the budget |
| `MaxLog` | 63 | 20 | no block of the run has a table near that height |
| `Half` (blocks) | 32 | 4 | words of two halves and a field of the form of Goldilocks; every boundary word is sampled |
| `Sampled`, `Samples` | all stacks | 2 words of 8 | the blocks look at no more than two words that matter |
| `Order`, RAM addresses (linked) | Goldilocks | 127 | verifier data, claims and scratch cells do not overlap |
| `MaxTurns` | any | 4 | a command before and after each other one on the same file |
| `MaxEntries`, `MaxIndex`, `MaxLimit` | any, any, up to 500 | 3, 4, 3 | windows inside, at and past the end of the addresses |
| tree height, `Batch`, `Half` (guess) | 29, 262144, 2^32 | 5 to 7, 4, 4 | buds around the end and not; a last batch past the limit; first words that differ in either half |
| `Budget`, `Group` (GPU) | 75 % of the smaller of two device limits, 64 | 40 words, 2 | calls below, at and over the budget, chunks with and without remainder |

In `stack_lowering` the words in use alternate between 1 and -1, so that adding
them up instead of counting zeros would take occupied cells for free ones; the
operand stack starts with 12 words, some of them zero. `Order` is composite,
which addition, comparison and addressing do not notice; multiplication is only
used with 0, 1 and -1. No run uses a symmetry set or a state constraint.

Histories (`taken`, `tried`, `hits`, `late`, `mined`, `searched`, `devices`,
`served`, `refreshed`, `accepted`) are written and never read by an action.

### Fairness

`MiningRange`: weak fairness of every worker, lane and of the join: OS threads
are scheduled, a launched kernel completes, no step awaits anything from
outside. `MiningSession`: weak fairness of the session only, because each of its
calls ends by an answer or by the client's timeout; nothing of the node.
`ProveBatch`: weak fairness of the main thread and each job; compiling and
proving are assumed to terminate. `StackLowering`: the machine steps.
`GpuStaging`: weak fairness of each thread. A mutex that is free again and again
needs no stronger assumption here, since every thread makes finitely many calls.

The other specifications state safety only and assume no fairness.

Deadlock is checked in every run but two kinds; states after the end stutter
explicitly (`Returned`, `Exited`, `Halted`, `AllStopped`, `Stopped`, `Ended`; in
a session the node goes on). `neural_*` and `neptune_commands` really stop, when
a block is judged or every script is through, and say `CHECK_DEADLOCK FALSE`.

## Findings

1. `cli/mining_session.rs:184` (run `mining_session_refresh`).
   `docs/reference/mining.md:20-21` says "Submission rejection refreshes the
   template and continues within the original budget". After a rejection the
   code goes on with the template fetched before the submission (line 176); up
   to 4096 attempts are spent on it before the next fetch. Nothing stale is
   submitted, because the parent is compared again.
2. `wgpu/accelerator.rs:670` (run `gpu_staging_columns`). The NTT readback
   stores every word of the mapped staging buffer into the column, but the pool
   may have handed out a larger buffer than asked for. The store past the column
   panics, with the twiddle lock held, which poisons it for all later NTTs. In
   the trace a pass of another thread leaves a buffer that is larger than the
   column of an NTT, which then takes it. The other readers take only the words
   of their answer.
3. `rs/cost/stack_verifier/executor.rs:236` (run `neural_order`). The executor
   takes the operands of `pow`, `lt` and `div_mod` the other way round than
   Triton does, which `rs/lower/triton.rs:99` describes, although
   `equivalence.rs:35` lists them among the instructions with exact semantics.
   `push 2` is accepted for `push 2, push 1, pow`, which leaves 1.

`gpu_staging` therefore states what remains true in spite of the second finding:
threads stop, other hooks are not affected, buffers stay exclusive.

## Proofs

All proof modules but one follow one plan: an inductive invariant that is a
conjunction of named parts, lemmas that each action, or group of actions that
touch the same state, preserves it, and short theorems that each property
follows, joined by PTL. In `StackLoweringProofs` the invariant is built from
rules about the code that is executed. TLC has checked each inductive invariant
on the run of its module (with `IsSeq`, which quantifies over all sets, as the
functions on 1 to their length), except `AnswersInv`, which quantifies over all
functions, and `AccessInv`, which quantifies over sets of states. `PROJECT.json` lists
the theorems with the properties they state.

| proofs | about | theorems |
|---|---|---|
| `MiningRangeProofs` | `MiningRange` | 7, with the refinement of `RangeSearch` |
| `MiningSessionProofs` | `MiningSession` | 7, with the refinement of `RangeSearch` |
| `ProveBatchProofs` | `BatchRunner`, `ProveBatch` | 4 |
| `GpuStagingProofs` | `GpuStaging`, `GpuHooks` | 8 |
| `NeptuneCommandsProofs` | `CommandJobs`, `NeptuneSubmission`, `NeuronWallet`, `NeptuneCommands` | 6 |
| `StackLoweringProofs` | `TritonMachine`, `Legalize`, `StackLowering` | 8 |
| `MineCommandProofs` | `ParallelFind`, `GuesserBuffer`, `NonceGuess`, `MineCommand` | 4 |
| `NeuralBlocksProofs` | `BlockVerifier`, `NeuralVocabulary`, `NeuralBlocks` | 3 |

`MiningRangeProofs`, for any set of workers, range, width, group and launch size
(assumptions: the workers are not empty and the GPU is none of them; calls are
pairs of numbers of the width; the launch is a positive multiple of the group).
`IInv` is `TypeOK` with `CounterInv` (the counter stays between start and end),
`TakenInv` (what was reserved is what the counter has passed, by one worker
each), `HeldInv` (what a worker holds at each place is its own), `HitsInv` (only
reserved attempts hit, only hits win), `LanesInv` (once the flag is set a lane
is writing the payload or has written it within this launch) and `LateInv`. The
properties alone are not inductive: that the winner was reserved needs
`HeldInv` for workers that are about to publish; that the payload is fresh needs
the lane between claim and write. `NoneMeansAllTried` needs three more parts,
proved in the same way: `ExitInv` (as long as nobody has won, the last worker
leaves an exhausted counter), `TriedInv` (an attempt that was reserved has been
hashed or is in the hands of a worker or a lane, and a host hit is published or
about to be) and `NoneInv` (what the answer "none" was given on). Proved: `SearchTypes`, `ReservationsArePartition`,
`WinnersAreValid`, `OvershootIsBounded`, `PayloadsAreFresh`, `NoneIsExhaustive`,
and `WorkersImplementSearch`, the refinement of `RangeSearch`.

`MiningSessionProofs`, for any limits, batch size, tips, masts and chains
(assumptions: a positive batch, limits within the width, a height for each tip,
known backends). `IInv` is `TypeOK` with `BudgetInv`, `TemplateInv`,
`ResultInv`, `WireInv` (what travels is the result in hand, one way at a time),
`AcceptedInv` (no path leads from an accepted block to another batch),
`OutcomeInv` and `DeviceInv`. `OneBlockPerSession` rests on `AcceptedInv`: the
end of the session on a missing answer is what makes it inductive. Proved:
`SessionTypes`, `BudgetIsHeld`, `SubmissionsAreCurrent`, `OneBlockAccepted`,
`BuffersMatch`, `SelectionIsHonored`, and `SessionIsOneSearch`, the refinement.

`ProveBatchProofs`, for any number of jobs, windows and names. Beside `TypeOK`
and `ProofsSurvive`, `IInv` has `HandlesInv` (the window holds the last jobs
spawned, in order), `ResultsInv` (everything before them is stored, under its
own index), `NamesInv` (no job starts before the names were compared) and
`ExitInv`. `ResultsBelong` is not inductive alone: that a handle is joined under
its own index needs the order of the window. `ZeroExitMeansProved` is about
files, and needs `ProofsSurvive`, which needs `NamesInv`. Proved: `BatchTypes`,
`ResultsAreOwn`, `ProofsAreKept`, `ZeroExitIsTrue`.

`GpuStagingProofs`, for any threads, plans, pool and dispatch limits
(assumption: a plan is a sequence of hooks, a hook a sequence of passes). `IInv`
is `TypeOK` with `PlaceInv` (who holds a buffer where), `LockInv` (the twiddle
lock is held by the one thread that is in an NTT, and the factors it was given
are those of its key), the two properties of buffers and `FailureIsContained`.
`TwiddlesMatch` needs that the factors stay bound from the second time the lock
is taken. `AnswersAreWhole` is about hooks whose passes add up to the words of
the answer; a sum over a sequence is stated by its prefix sums, so that no
induction is needed to follow it through the passes. `HooksAddUp` proves of the
real hooks of `GpuHooks`, for any budget and sizes, that they do, and
`HookAnswersAreWhole` joins the two. The assumption on `Calls`, that the
smallest chunk of `gemv` fits the budget, is what the hook needs to end.
Proved also: `StagingTypes`, `BuffersAreExclusive`, `CopiesAlwaysFit`,
`TwiddlesAlwaysMatch`, `FailuresAreContained`.

`NeptuneCommandsProofs`, for any processes, scripts, versions of the files,
networks, indices and limits (assumptions: `CasesAssumption`, scripts are finite;
`SubmissionAssumption`, commands write to paths that the case names, and the
outputs of an intent are lists). `SubmissionInv` says where each process may be
in which command (`JobsInv`), what it is about to send and from which files it
was read and checked (`PreparedInv`), what was sent and by which command
(`ReceivedInv`), that an awaited acceptance was given (`AnswerInv`), and that a
file being written has one writer (`FileInv`, because it was created new).
`SubmissionIsExact` is about what has arrived; it is inductive only with what
is in the hands of a process between check and request, which the user's saves
in between must not touch. Proved: `SubmissionIsSound`, `RequestsAreExact`,
`ReportsStayTrue`. Of the neuron commands beside them, `NeuronInv` is `JobsInv`
with `TablesInv`, `KnowsInv` (the network a process has settled on, the window
it has listed, the wallet it may delete and the confirmation that it has) and
`HiddenInv` (as long as no two commands met on a list, one command at a time is
between reading and writing it, and the list is what has been asked for). Proved: `NeuronsAreSound`, `AnswersStayRight`, and
`OnlyMeantWalletsGo`, an action property.

`StackLoweringProofs`, for every depth, stack, contents of RAM, and for every
field, window and chunk size that `DeepPrograms` allows. The code that reaches
below the window is unbounded in two ways, its length grows with the depth and
`scan` walks over RAM, so an invariant that lists positions of the code is no
way to reason about it. Instead `Good(x, y)` says of a state y and a piece x of
code that the machine, from y on, stays where it may be (inside the piece,
`Kept`: no cell in use overwritten, failing only where RAM is `Full`) until it is
at the end of the piece in the state it should end in; it is a set of states
closed under steps, and so it contains its own induction. Each instruction has a
rule that makes the state before it good if the one after it is (`PushRule` to
`RecurseRule`; `ExecuteIsAfter` says that these are the steps of the machine).
From these follow the rules of the lowerer's own pieces: `CountRule`,
`ChecksRule`, `SearchRule` (by an induction from the last address down, with what
`Scanned` says of the cells that were looked at), `BorrowFindsFreeCells`,
`SpillRule` (`Batch`), `RestoreGivesBack`, and of those `DeepDupAccess` and
`DeepSwapAccess`, which hold wherever the code is placed. What `FlattenSeq`,
`Chunks` and `SumOf` compute is proved by induction over a set of numbers, as for
the legacy tree below. For a program of one such operation `AccessInv` says that some piece fits
the program and the machine is in the course of it. Proved besides:
`AccessIsInvariant`, `DeepAccessIsExact`, `DeepAccessSparesOccupiedCells`,
`DeepAccessFailsOnlyWhenFull`.

Their hypothesis `DeepPrograms` asks of the constants what the code has: a chunk
of more than one word (5), a window of more than three (16), a horizon that is a
number; and of each program that it is one dup or swap at a depth from the
window on, that the stack has three words or more below the one that is reached,
which Triton's always has, since 16 native words are below those of the source
program, and that the cells fit from the preferred address up: 2^31 and a `u32`
count are far from the end of a 64-bit field. The run's programs of one access
satisfy it.

`MineCommandProofs`, for any threads, batch size, rate and halves of words
(assumption: the words of a question are given for whole batches up to its
limit, as the GPU looks at them). `GuessInv` has one part for each backend:
`PoolInv` (every nonce waits, is in a thread's hands or was tried), `LoopInv`,
`BatchInv`, and `KernelInv` (before the flag is up no lane has passed by a
winner, but for one that the weak exchange lost; after it the buffer is one
lane's work, as far as that lane is). The property is about the answer only, and
says nothing between the exchange and the store of the digest. Two lemmas state
that the kernel's own arithmetic is the host's: its comparison of two halves is
the comparison of words, and its absorption, chunk by chunk, is the padding of
the sponge. Proved: `GuessIsSound`, `GuessesAreHonest`.

Of the legacy tree in the same module, for every height up to 29, both orders, any number of
rounds, at least two, that the height allows, any range of attempts, words,
winners and threads (assumptions: `GuesserBufferAssumption`;
`LegacyAssumption`, a height that `leafs_at_height` asserts, and two words for
each nonce of the range). `TreeInv` says what the buffer holds at every step:
after n rounds the root over 2^n consecutive buds, round the end (`RoundsInv`);
during the reversal the native leaf wherever the index or its mirror was passed
(`ReversalInv`); above the level that was made last the pair of the two nodes
below, and on the lowest kept one the two pairs of leaves in place of the level
that is left out (`LevelsInv`); and of the search that every attempt waits, is
in hand or was tried, and the winners tried are those found (`SearchInv`). That
this is the tree of a verifier, who goes layer by layer, and that a path, which
makes one node of the missing level itself, leads to its root, are lemmas about
recursive functions: `RoundDoubles`, `HeapRoot`, `PathLeads`. The five swaps of
`bitreverse` are shown on 32 bits to put them in the opposite order, whatever
the number (`SwapsReverse`), and reversing is shown to be its own inverse
(`RevTwice`), without which an exchange in place would undo another. Each is an
induction, made with a set of numbers that contains 0 and the successor of each
member, since the library's induction theorems cannot be instantiated here; and
that such a recursive function exists is proved first. Proved: `TreeIsSound`,
`PathsAlwaysAuthenticate`.

`NeuralBlocksProofs`, for any width of words, tasks, blocks and tokens
(assumptions: `BlockVerifierAssumption`, words have at least four bits and seeds
are numbers; `NeuralBlocksAssumption`, tasks are of one of the three kinds and
blocks are lines). `StackInv` says that the grammar and the state are well
formed and that the grammar believes in no more words than there are; that a
step keeps it rests on two lemmas over all instructions, what `ExecuteLine` does
to the length of the stack and what the grammar takes it to do. `OutcomeInv`
ties a report to the verdict and the candidate, and rests on the price being a
number, which is a minimum of a set. `JudgesAgree` compares three judgements of
one candidate; what they share is the simulation, a recursive function whose
values are shown to be states by the least line at which one is not. Proved:
`RewardsAreTrue`, `MaskIsRight`, `JudgesSayOne`.

For the provers the simulation of a block is a recursive function and not a
fold, and so are powers of two, shifts and trees; bit operations are constants
and not those of a library module, and alternatives that overlap are an IF, in
the order of the code, and not a CASE.

Only model-checked:

* all liveness properties; fairness and ENABLED are out of this prover's reach;
* `LoweringIsExact`, `OccupiedCellsSurvive` and `FailsOnlyWhenFull` for programs
  of more than one operation, for shuffles and for source accesses to RAM. What
  is missing is the induction over the operations of a program and the blocks of
  `LowerOps`, and contracts for the other operations; those of the two deep
  accesses are proved for any place in a program;
* `LinkedIsExact`: `TirLowering` and `LinkedPrograms` declare RECURSIVE operators,
  without which lowering of nested bodies could not be written like the code;
* `AcceptedIsSame`: the verifier looks at test stacks, so that for all stacks
  and blocks it is no theorem; the run shows it where the samples suffice.

`TypeOK` of `ProveBatch`, `GpuStaging` and `MiningSession` is the other way
round: it is proved, and in no run.

## Not modelled

* Hashing, proofs and field arithmetic beyond what a property needs: a hash is
  its outcome, a proof its owner.
* Memory ordering below atomics: the relaxed counter is one location, the mutex
  orders the winner, and the command's completion orders the mapped state.
* In the session: serialization of blocks. Parsing is reduced to the conditions
  on which it fails and the fields it keeps.
* In transactions: the order of fields in a codec, and the limits of
  `json::guard`, which are one flag of a file. A gateway's answer with
  `error: null` is refused, in the model as in the code.
* In wallets: identifiers and keys. Hidden entries are nonblank trimmed text.
  What upstream does on `generate` and `import` is modelled as never replacing a
  wallet.
* Proof destinations are compared as names; two names that are one file on a
  case-insensitive file system are not covered.
* In the lowering: `Or`, for which `or` is emitted that Triton does not have;
  `Seal` with more than nine fields; modules whose names become one by
  flattening (`a.b` and `a_b`), and functions named like generated labels
  (`then__1`).
* In the neural compiler: inference, training, encoders, beams; a model is any
  choice of tokens that the mask admits.
* In mining: Montgomery form, the bytes of a block hash, the benchmarks.
* On the GPU: lost devices, failed readbacks, the contents of buffers. `gemv`
  assumes, as on any real device, that its minimum of 256 rows fits the budget;
  otherwise it would call itself for ever. The nonce search of `accelerator.rs`
  is not part of `GpuStaging` but of `NonceGuess`: it has a result buffer of its
  own and takes only a small readback buffer from the pool.
* The remaining components of the inventory; `PROJECT.json` gives the reason for
  each.

## Plan

All of it is done.

1. `RangeSearch`, `MiningRange`, and their proofs.
2. `MiningSession`, which composes batches of 1, and its proofs.
3. `BatchRunner`, `ProveBatch`.
4. `TritonMachine`, `Legalize`, `StackLowering`.
5. `GpuHooks`, `GpuStaging`.
6. `TritonNative`, `TirLowering`, `Linker`, `RecursiveAssembly`,
   `LinkedPrograms`.
7. `BlockVerifier`.
8. `NeuralVocabulary`, `NeuralBlocks`.
9. `CommandJobs`, `NeptuneTransaction`, `NeptuneSubmission`, `NeuronWallet`,
   `NeptuneCommands`.
10. `ParallelFind`, `GuesserBuffer`, `NonceGuess`, `MineCommand`.
11. Proofs: batches and GPU staging, the commands on transactions and wallets,
    the guess, the judgement of blocks, the legacy tree, deep accesses.

What could follow: contracts for shuffles and the other stack operations, like
those of the two deep accesses, and with them the induction over the blocks of a
program.
