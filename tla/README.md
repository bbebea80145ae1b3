# Formal models of the latest-Mamba hybrid prefix cache

The repository is a patch of vLLM 0.19.1 that lets hybrid models (full attention
plus Mamba) reuse prefixes in the Mamba cache mode `latest`. This directory holds
TLA+ models of it, TLC configurations that check them, and TLAPS proofs.

Source names: `BP` = `scripts/debug/block_pool.py`, `ST` =
`single_type_kv_cache_manager.py`, `CO` = `kv_cache_coordinator.py`, `SC` =
`scheduler.py`, `GM` = `gpu_model_runner.py` (all under `src/scripts/debug`), `GP` =
`src/gold.patch`. The files under `scripts/debug` are the patched modules with debug
output; `kv_cache_manager.py` and `mamba_utils.py` exist only as hunks of `GP`. Where
overlay and patch differ (the publication rule of the prompt checkpoint) the setting
`gold` of the engine chooses.

## 1. The system

| component | state | operations | interacts with |
|---|---|---|---|
| Block pool (BP) | reference counts, free LRU queue, map hash -> blocks, map partial hash -> (block, valid tokens) and its reverse | take, touch, free, evict, publish full and partial blocks, reset | called by the managers only |
| Full-attention manager (ST) | block table, pinned sources and number of cached blocks of each request | allocate, take a hit, pin, cache, free | pool |
| Sliding-window and chunked-local managers (ST) | the same tables, with null blocks where the window has left | the same, and `remove_skipped_blocks` | pool |
| Mamba manager, mode `latest` (ST) | block table (null except for states), index of the running state, draft states, latest and coarse checkpoint, queued checkpoint, source references | allocate and *move* the running state, queue, publish and drop checkpoints, take and release source references, free | pool; scheduler output |
| Coordinators (CO) | the partial hits of the last lookup | find a hit over all groups, pin, allocate, make copy operations, finalise | managers |
| KV-cache manager (GP) | pending partial hit of each request | get_computed_blocks, can_fit_full_sequence, allocate_slots, free | coordinator, scheduler |
| Scheduler (SC) | requests, running list, waiting and skipped queues, finished ids, budgets of tokens and encoder outputs | schedule, update_from_output, add, abort, reset, pause | everything below |
| Encoder caches (SC, GM) | which encoder outputs are cached, who uses them, which may be evicted; the outputs themselves | try to schedule inputs, allocate, release, evict, reset; run encoders, gather embeddings | scheduler output |
| KV connectors (SC) | loads and sends under way, ids reported as received or failed | match, start a load, promote, delay a free, recover from invalid blocks | scheduler, worker |
| Model runner (GM, GP) | its copy of the block tables, the rows of the batch, counts of accepted drafts, `mamba_state_idx`, the memory itself | update states, correct counts, prepare inputs, zero, copy partial blocks, copy Mamba states, forward | scheduler output |
| Metrics probe, shell scripts, tests | | | not modelled, section 7 |

What is hard here:

* A block in the cache is shared, outlives the request that wrote it, and leaves the
  cache silently when it is taken from the free queue. Two indexes, a reverse index,
  a per-block hash and a queue must agree after any sequence of calls.
* A Mamba state is a single block that is *overwritten* by the next step and *moves*
  in the table, unlike attention KV. A published state must never be the running one.
* The two groups publish entries of the same prefix at different times: Mamba when a
  checkpoint is completed, attention when a block is full, and the partial attention
  block only when the request ends or is preempted.
* Scheduler and worker run out of step. Tables are extended, requests preempted and
  aborted, and blocks freed and given away while an output that names them is still
  under way; source references come back later still.
* With drafts under asynchronous scheduling the scheduler's counts are optimistic. The
  CPU side of the runner, its GPU side and the Mamba bookkeeping each correct them by
  themselves, from the row that the request had in the batch of the step before.
* A preempted request is resumed with new tables while an index of its old ones may be
  pending, both in the worker and in a source reference.
* A partial hit copies its source within the step in which the source may be the next
  block of the free queue.
* Estimates (`get_num_blocks_to_allocate`) and allocations are separate computations.
* Several limits cut the chunk of a request one after the other: token budget, MTP
  reserve, prefill threshold, encoder budget, encoder cache, Mamba alignment. What is left
  may be nothing, in every step.
* Hits of different groups shorten one another; blocks leave a sliding window while
  the request runs; lists may begin with null blocks.
* Loads from elsewhere end late, fail block by block, and are reported to requests that
  may have been aborted or preempted since, and blocks are shared in between.
* The encoder cache of the scheduler says what the worker *will* hold when it has executed
  all outputs; evictions and computations travel in the outputs.

What makes each component correct: the pool gives out only unused blocks, and whatever
a lookup returns holds the data of the hash asked for; the queue is LRU; the managers
account for each reference exactly and never fail in mid-step; a request only ever
computes on the data of its own prefix, from its own verified tokens; a hit is one that
all groups can serve; the two encoder caches agree; each request is answered.
`PROJECT.json` lists the hazards line by line.

## 2. Modules

| module | models | state and actions |
|---|---|---|
| `BlockPoolOps` | the methods of BP over a record; the free list is a *set* | operators only |
| `BlockPool` | the pool driven by arbitrary well-behaved clients | `pool`, `held` (references the clients own), `covers` (what data a block now holds); `Allocate`, `Hit`, `Release`, `Write`, `Publish`, `PublishPartial`, `Evict`, `Reset` |
| `BlockPoolProofs` | lemmas about the operators, theorems about `BlockPool` | |
| `Queues` | the members of a list that a set chooses, in their order (a comprehension or a loop with a condition) | operators only |
| `QueuesProofs` | lemmas about lists without duplicates and division, and the induction they need | |
| `BlockQueueOps` | the same methods with the queue and the insertion-ordered dict as sequences; `raised` records any `ValueError` or assertion | operators only |
| `BlockQueue` | the same clients over it; refines `BlockPool` | as `BlockPool` |
| `BlockQueueProofs` | theorems about it | |
| `RequestTokens` | token prefixes and their hashes | constants only |
| `MambaLatestOps` | `MambaManager` in mode `latest` | operators on `kv.mamba[r]` and the pool |
| `HybridCacheOps` | coordinator, attention manager, KV-cache manager | operators on `kv` |
| `Engine` | scheduler, worker, clients over the hybrid cache | section 2.2 |
| `EngineTablesProofs`, `EngineProofs` | lemmas about the operators on pool and tables, theorems about `Engine` | |
| `PrefillBudget` | how `schedule` shares the tokens of a step, with MTP reserve and aligned split | section 2.3 |
| `PrefillBudgetProofs` | theorems about it | |
| `SpecStateOps` | the Mamba tables with draft states | operators, over `MambaLatestOps` |
| `MTP` | drafts under asynchronous scheduling | section 2.4 |
| `RemoteKV` | requests whose prefix a connector loads | section 2.5 |
| `RemoteKVProofs` | theorems about it | |
| `HitOps` | the lookups of the four managers, over sets of cached blocks | operators only |
| `HitLookup` | one lookup of a coordinator, pass by pass | section 2.6 |
| `HitLookupProofs` | theorems about it | |
| `WindowTables` | block tables of sliding windows and local chunks | section 2.6 |
| `EncoderInputs` | encoder budget and the two encoder caches | section 2.7 |
| `MC*` | values of the constants, the sets `Settings` and `Models` | |

`BlockQueueOps` is used by `BlockQueue`, which shows that it implements the proved
`BlockPool`, and by the cache operators of `Engine`, `MTP` and `WindowTables`; `RemoteKV`,
where the order of eviction is left open, uses `BlockPoolOps`.

What a deployment configures (policy, outputs under way, connector, failure policy,
drafts, groups of layers), and what clients of a run may do, is a record. The constant
`Settings` (`Models` in `HitLookup`) is a set of such records; `Init` chooses one of them
in the variable `conf`, which no step changes, and operators such as `Depth` read it.
One run so covers several configurations, and each is a separate part of its state graph.

### 2.1 The pool

`BlockPool` leaves open which free block is taken next, so its invariants hold for any
eviction policy. `BlockQueue` keeps the real queue: `popleft_n` from the front, removal
from the middle by `touch`, bulk append by `free_blocks`. Its property
`ImplementsBlockPool` maps the queue and the dict entries to the sets of their members.
The clients are as free as the managers may be: they write only blocks they hold, never
destroy what they have published, and publish only what they have written. Whether the
managers obey those rules is the subject of `Engine`, which keeps the real contents.

### 2.2 The engine

One call of `Scheduler.schedule` is a sequence of actions:
`Begin`; for each running request `Pick` (number of tokens, aligned split) and then
`ScheduleRunning`, or `Preempt` of a victim followed by another attempt; `EndRunning`;
`Admit` for each waiting request until `HoldBack` or `EndWaiting`; `Emit`
(the output, and `_update_after_schedule`). `Execute` is `GPUModelRunner.execute_model`
for the oldest output; `Update` is `update_from_output`; `Arrive`, `Abort` and `Reset` are
the clients, whose calls the engine core processes between two of its own. Splitting
`schedule` leaves no interleaving that the code does not have, since only `Execute` (of an
earlier output) can happen while it is under way; it makes each branch an action.

`sched` variables belong to the engine core, `device` variables to the worker. `mem`
holds, for each token slot of each block, the *label* of the prefix whose data is there:
`MambaHash(r, n)` or `AttnHash(r, n)`, `Zero` after zeroing, `Taint` for anything
computed from the null block or from a wrong read. A forward pass first zeroes the
output's fresh blocks, then makes the partial copies, then the Mamba state copies
(`preprocess_mamba`, all at once), then stores labels. `misread` records that a pass met
a label that is neither its own nor `Taint`. Hashes are labels as well: two requests have
the same hash at n exactly when their first n tokens agree, which is what the hash chain
provides, up to collisions.

`Resubmits` lets a client use an id again, the setting `resets` adds `reset_prefix_cache`
with and without forced preemption, and `KernelBlock` is the block size of the attention
kernel.
Simplifications, all of data: one attention and one Mamba group; sampling stops at
`MaxOut`; no drafts, encoder inputs or connectors, which have modules of their own.

### 2.3 Token budgets

`PrefillBudget` keeps the running loop, the waiting loop and the result of a step, with
as many KV blocks as anybody wants: what a request waits for is tokens. `Reserve` is
`_mtp_waiting_prefill_token_reserve`, `AlignedSplit` and `CoarseCheckpoints` the split. Drafts
follow each decoded token, and any number of them is accepted. `stops[r]` is a history
variable: where the chunks of `r` began and ended since its admission.

### 2.4 Drafts

`MTP` follows a request through three views of how far it has got: `reqs` (the scheduler,
which counts all drafts and takes rejected ones back in `Update`), `worker` (the runner's
`CachedRequestState`, its batch rows, what the GPU has verified) and `truth` (what has
really been verified). `seen` records for the last step where each request should have
started and where it did, whether its input token was its own, and which Mamba state
it used; `mem` labels the state blocks with a request and a number of tokens, or `Draft`.
One call of `schedule` is one action here, since the order within it is the subject of
`Engine`; its preemptions, rows and budgets are chosen freely.

Outside `src/`, and modelled from their use: `AsyncScheduler` (placeholders and drafts of
the next step), `InputBatch` (a removed request loses its row, and a reordering may
give any rows), the kernel `update_num_computed_tokens_for_batch_change`, the end of
`postprocess_mamba` (when the accepted state lies in the block of the running state the
count of accepted tokens is reset to one), and `EngineCore.step_with_batch_queue`, which
fills its queue before it waits for a result (`Early` = FALSE; `Early` = TRUE lets a result
come first).

### 2.5 Remote KV

`RemoteKV` is the scheduler's side of connectors over one full-attention group. `kv` holds
what the slots of the blocks contain; `load[r]` is what a transfer is still to write, so
that a late write into a block that has a new owner is a state of the model. `Lose` makes a
block of a load invalid; `Update` runs `_handle_invalid_blocks`
before it uses the tokens. `wrong` collects requests that were given a token computed from
something else than their text. The setting `whole` says that the connector has all of a prompt or
nothing; it bounds runs.

The engine takes a step only for what `HasRequests` counts (SC:1996): requests that run or wait, and
ended ones whose ids are not in an output yet (`finished`, `finished_req_ids`). A request that
has ended and is kept for a transfer is not among them, and the report of its transfer comes
with the output of a step. So an idle engine (`Over`) may keep its blocks until another
request arrives. `again` names requests that clients repeat when they are over.

### 2.6 Windows and lookups

`HitOps` gives, for each manager, the list that its `find_longest_cache_hit` returns when
a set of blocks is cached. `HitLookup` runs the loop of the coordinator over up to three
groups: each `Visit` asks one group, `Again` starts another pass. `HitCovers` and
`HitLongest` define the right answer without it: the longest length at which every group
still has the blocks that the next token reads. `ModelsAssumption` requires
that an attention chunk is a whole number of blocks, which the code nowhere asserts; `Supported`
is what the chunk manager does assert, no eagle and blocks as large as the alignment.

`WindowTables` runs whole requests on such groups, with the real queue, block tables and
contents: admission with hits, loaded tokens, steps, preemption, resumption. The
scheduler is reduced to what the tables depend on.

### 2.7 Encoder inputs

`Consider` is one round of the loop of `_try_schedule_encoder_inputs`, `TryInputs` the
loop. `cache` is the `EncoderCacheManager` (outside `src/`, like `MultiModalBudget` and
`PlaceholderRange`; modelled from how the scheduler uses them: a reference per request,
the unused outputs in the order of their release, eviction on demand). `worker` is
`encoder_cache`; `Execute` pops what the output frees, adds what it encodes, and checks
what the model and the draft model gather. An assertion that fails (`missed`) ends the
engine. KV blocks are abstracted: an allocation fails at most `MaxShort` times, whenever it
likes; the prefix cache holds one of `Hits[r]`. A request samples one token and ends.
The worker's cache is reset behind the outputs under way. Placeholders with tokens of
their own are used with `shift` = 0 only.

## 3. Runs

| run | settings | what it asks |
|---|---|---|
| `block_pool` | | Are counts, free list and both indexes consistent, and lookups sound, under any order of client calls? |
| `block_queue` | | Is the queue exact and LRU, does a lookup keep returning the same block, and does all this implement `BlockPool`? |
| `engine` | `Tight` (five blocks), `Aborting`, `Debug` (the publication rule of the overlay, with full-prompt admission), `Priority`, `Overlap` (two outputs under way), `Resetting` (forced and other resets, two outputs under way) | Does the engine, with preemption, resumption, partial hits and coarse checkpoints, keep exact references, never fail an assertion, never read or publish foreign data, and answer each request? Are the copies of a step independent of each other and of zeroing? |
| `engine_agreed` | `Plain`, longer prompts | Expected violation, section 6. |
| `prefill_budget` | | Do chunks end at every checkpoint and on block boundaries, does the reserve let someone in, and is each request served? |
| `mtp` | two requests with one draft; one with three, more than a block | Does a request go on from its own verified tokens, with its own input and, with one draft, its own state, whatever is accepted, reordered, preempted and aborted? |
| `mtp_lifetime` | two requests with three drafts | Expected violation, section 6. |
| `remote_kv` | `Asynchronous` (loads, sends, aborts at any time), `Failing` (the policy that fails requests, one at a time), `Alike` (the policy that recomputes, three requests of one text) | Do blocks under transfer stay with their request, and are cache and answers right, when loads fail and clients abort? |
| `remote_kv_live` | `Asynchronous` on three blocks; one request is repeated | Are blocks kept for a transfer given back while the engine has other requests, and is every request answered or aborted, also when it waits for such blocks? |
| `hit_lookup` | 20 layouts of one to three groups, five of them with eagle | Does the lookup end with the longest hit that all groups can serve; with eagle, with one that every group can serve and that drops the last block? |
| `window_tables` | four kinds of window alone, two beside full attention | Is every block freed when it leaves the window and never before, with exact references? |
| `encoder_inputs` | `Sharing` (resets), `Steady`, `Owning` (one token ahead), `WholeInput`, `WholeShared`, `Ranked` (priorities) | Do the two encoder caches stay in step, within their size, with nothing encoded twice or kept for nobody? Do inputs stay whole when asked to, and is each request answered? |

The properties of a run are few, and some are conjunctions of named parts. `Accounted`, in
four modules, is what the bookkeeping owes after any sequence of calls: lists agree with
statuses, reference counts with tables, and no assertion of the code has failed
(`TypeOK` and `NoException`, with `RefsExact`, `NoZombies` or `Reconciled` where the module has
them). `StepsRight`, `HitExact`, `WindowExact`, `CachesAgree`, `PinsExact` and `TransfersEnd` are made the
same way; a part can be checked alone by naming it in the configuration.

A property that a setting cannot promise says so in its own definition: `CachedContent`,
`NeverMisses` and `InStep` speak of first come, first served, `HitLongest` of lookups
without eagle, `StateRightOfOne` of one draft, `Answered` (in `Engine`) of clients that do
not reset the cache. `TransfersEnd` has two parts with a condition each: `Released`, that the
engine has outputs again and again, and `Answered`, that loads do not fail for ever. Sections 5 and 6 say what happens otherwise.

Every property of a passing run has a mutant: a faulty variant (`..._bug`) of a
definition, such as a missed reset, a missed touch or a skipped pin, under which the same
run fails.

### Bounds

* Pool: three blocks and two hashes, at most `MaxHeld` = 2 references to a block, fill
  levels `Valid`. Two blocks under one hash, one block under two partial hashes, a
  replaced partial entry, and a removal from the middle of the queue all need no more.
  Blocks and hashes are interchangeable there, hence the symmetry.
* Engine: a conversation of two turns (`c1`, `c2`, which repeats the prompt of `c1`) and a
  stranger `s1`; `d1`, `d2` are a shorter conversation for the resets. Mamba blocks
  of H = 2 tokens and attention blocks of A = 4, so that boundaries inside an attention
  block (partial hits) and at its end both occur; 4 tokens of budget, so that
  prompts of 5 and 7 tokens take several steps; two running requests; five or six blocks,
  fewer than the three requests want together, so that requests are preempted and
  cached blocks evicted. One coarse checkpoint with a gap of 2 tokens (`CoarseCount`,
  `CoarseGap`).
* `depth` outputs under way: 1 is `EngineCore.step`; 2 is the batch queue with two slots.
  In `Engine` a request has at most one sampled token outstanding: asynchronous
  placeholders are the subject of `MTP`.
* Budgets: three prompts, one longer than two budgets, blocks in the ratio that the
  tests of the patch use; one draft; two places in the running list, so that the reserve
  matters both with and without a free place.
* Drafts: two requests, one draft, blocks of two tokens, so that accepted and rejected
  drafts fall on both sides of a boundary; one request with three drafts,
  more than a block. Six blocks never run out: preemption is a choice. Prompts stay
  below two blocks, where no checkpoint, hit or split exists; those are in `Engine`.
* Remote KV: two requests of one text with three blocks each share four blocks, so that
  loads compete, share prefixes and reuse blocks; three requests for recovery, where the
  one in the middle may be the one that fails. Liveness is checked without symmetry,
  on three blocks, too few for the two requests unless they share.
* Lookups: every set of cached blocks of prompts up to six (eagle: eight) tokens, blocks
  of one and two tokens, windows and chunks of two to five, one to three groups in any
  order.
* Windows: two requests that share four of seven tokens, windows that are smaller than,
  as large as, and not a multiple of a block, five or six blocks. The run never ends:
  requests come back with what is cached by then.
* Encoder inputs: prompts of seven or nine tokens with two or three inputs each, shared
  between requests and repeated within one, in a cache for about two thirds of them;
  chunks of three tokens, shorter than the distance of two inputs; at most one or two
  failed allocations in a run (`maxShort`).
* Requests are submitted once, but in `WindowTables` and `remote_kv_live`. `Engine`,
  `EncoderInputs`, `RemoteKV` and `HitLookup` have a last disjunct (`AllEnded`, `Over`,
  `Answered`) that lets a run that is over stutter, so that TLC reports any other state
  without a step as a deadlock. In `PrefillBudget` and `MTP` a run just ends, and
  deadlock is not checked; `Served` finds a stop in the first.

### Fairness

The engine core keeps running: weak fairness of the disjunction of all scheduler, worker
and update steps. `EngineCore` runs a busy loop as long as the scheduler has requests
(SC:1996-2009) or outputs are under way, and waits for clients otherwise; clients are not
assumed fair. `PrefillBudget` says it with WF. `Engine`, `EncoderInputs` and `RemoteKV`
write the formula out: either the engine is infinitely often not `Busy` (in `RemoteKV`:
idle without `HasRequests`), or infinitely often it moves. TLC evaluates ENABLED of so
large an action slowly, and while no deadlock is found the engine is enabled exactly
when it is busy. `HitLookup` does the same for its loop, which is sequential code.

`RemoteKV` adds strong fairness of the end of every transfer: a connector that never
reports leaves its request waiting, and the code has no timeout for that; the report
travels with an output, so it is possible only in one phase of a step, and only while
steps are taken. Nothing is promised for an ended request whose engine goes idle, so
`Released` asks for infinitely many outputs. A request that *waits* makes
the engine go on by itself, so `Answered` does not.

## 4. Proofs

What follows holds for every value of the constants that satisfies the named assumptions.
Each safety theorem rests on an invariant that is inductive, which the properties alone are
not; the paragraphs say what had to be added.

**The pool.** `BlockPoolProofs`, for any sets of blocks and hashes, any bound `MaxHeld` and any
`Valid` within the naturals:

* `TypeCorrect`: Spec => []TypeOK
* `Refcounts`: Spec => []FreeIffUnheld
* `HashIndex`: Spec => []HashIndexAgrees
* `PartialIndex`: Spec => []PartialIndexAgrees
* `Lookups`: Spec => []LookupSound

The conjunction of the five is the inductive invariant. They need each other: a
lookup stays sound when a block is reused only because eviction removes all of its
entries, which needs both indexes to agree; eviction consults the hash of the block and
the reverse index, so if an index missed an entry it would leave one behind; and
that a reused block was nobody's needs the counts. One lemma per pool operator
says that it keeps the pool well typed and the indexes consistent and what it leaves
reachable; the step theorem has one case per client action. The assumptions are `NoneAssumption` (None is
neither a hash nor a partial entry) and `ValidAssumption`.

**The queue.** `BlockQueueProofs`, for any finite set of blocks, any hashes and
any None outside both (`QueueAssumption`):

* `QueueIsExact`: Spec => []QueueExact
* `LookupsStable`: Spec => LookupStable
* `OrderKept`: Spec => FreedInOrder
* `Refinement`: Spec => ImplementsBlockPool

so what `BlockPoolProofs` proves holds for the pool with the real queue and dicts. The invariant
is `QueueExact` with the types: the queue and the entries of each hash are lists without
duplicates. For each operator one lemma gives the pool of sets that its result abstracts to,
and one what it does to the order; the step theorem proves the four results together,
case by case, because a step implements a step of `BlockPool` only from a state in which
the queue is exact (`popleft_n` then returns as many different free blocks as were asked for,
and no removal fails).

The lemmas about lists are in `QueuesProofs`: appending, concatenating, reversing, taking
from the front and filtering a list without duplicates gives one again, with the
expected members. What a filter returns (`Among`, a recursive function) needs induction over
sequences. The induction rules of the library take an operator as a parameter, which the
provers cannot instantiate; here they are stated with a *set* of numbers, sequences
or subsets in its place (`NumberInduction`, `SequenceInduction`, `SubsetInduction`), and derived
from the existence of a least element. `Recursion` gives the function that a recursive
definition chooses.

**Token budgets.** `PrefillBudgetProofs`, for any requests, prompts, budgets, block sizes, drafts,
thresholds and coarse checkpoints that satisfy `BudgetAssumption` and `StartupAssumption`:

* `KeepsCheckpoints`: Spec => []CheckpointsKept
* `AlignsChunks`: Spec => []ChunksAligned
* `BudgetsKept`: the budgets of a step stay between zero and their limits (the assertions
  at the end of `schedule`)
* `AdmitsWaiting`: StateBlock <= BlockSize implies Spec => []AdmitsOne

from `Inductive`: Spec => []IInv. `IInv` adds to them the types of the data and that a
request never has more tokens computed than it has, that the part of running requests never
exceeds the whole budget, and, the heart of it, what holds in the middle of a step: a chunk
given but not yet computed passes no checkpoint (`SplitStops`) and, below the last
checkpoint, ends on a boundary again (`SplitAligned`), which needs the start to be on
one. Two properties of the arithmetic carry it: the least checkpoint ahead exists
(`LeastOne`), and multiples of a block are closed under the sums and differences that
occur (`AlignedSum`, `AlignedRound`). `AdmitsWaiting` adds `RoomKept`: until somebody is admitted, the
budget that running requests may not use is at least a state block. Its hypothesis is
what `GP:19` says of the two block sizes; section 6 shows that it cannot be dropped.

**Remote KV.** `RemoteKVProofs`, for any finite sets of requests and blocks, any prompts of two
tokens or more, any texts with enough hashes, and every mixture of the settings (asynchronous
and synchronous connectors, both failure policies, threshold, phases in which clients
abort, requests that come back), from `RemoteAssumption` and `NoneAssumption`:

* `Accounts`: Spec => []Accounted
* `LoadsStayOwn`: Spec => []LoadsIntoOwn

The invariant `IInv` has six parts besides the two:

* `Typed`, `Counts`: no request has more tokens computed, or given to it, than it has, and
  what is given in a step is already counted when its output comes back.
* `Lined`: each request is in the one queue that its status names, also
  while `schedule` has it aside in `skipped`.
* `Held`: the index of the pool is consistent, counts are tables, and (`Own`) the blocks of
  a table behind its cached part are in no other table and in no index. A load that writes
  late is harmless because it writes only there; this has to survive sharing, caching,
  recovery and preemption, so it needs the next part.
* `Waits`: a request that waits with nothing computed has no blocks, and one that waits for
  a load has all blocks that the load was for.
* `Transfers`: which states a load and a send may be in, given the status and whether the
  request is still kept; reports name requests that are still there; and every block of a load
  is behind the cached part of its request's table.

`AnswersRight`, `CachedRight` and `SendsRight` are about contents and are false outside the limits of
section 6, so they stay with TLC.

**Lookups.** `HitLookupProofs`, for any models that satisfy `ModelsAssumption`: any
number of groups, of any kinds, block sizes, windows and chunks, prompts of any length, and
any blocks cached,

* `Covers`: LargeWindows implies Spec => []HitCovers
* `Exact`: LargeWindows implies Spec => []HitExact

where `LargeWindows` asks, for models with eagle only, that sliding windows are in blocks as
large as the alignment. Section 6 (`SmallWindow`) shows that it cannot be dropped.

What a coordinator may expect of a manager is `Serves`: the list it returns is at most as long as
asked for and ends on the alignment; it holds cached blocks for all that the next token reads
behind it; no longer aligned list would; and with eagle the block behind it is cached too.
`FullServes`, `ChunkServes`, `MambaServes` and `WindowServes` prove it of the four
managers. The last rests on an invariant of the scan from the right (`ScanOK`): how long a run it is
in, where, and that no run to the right of it was long enough. The loop invariant `Search` then
says that every list serves its own length (full attention serves all shorter ones as well, which
is why it is asked once), that lists of groups visited in this pass are no shorter than what is left
and no longer than the hit, and that no common length lies above what is left. When a pass ends
without having shortened the hit, all groups agree on one length. A simple hybrid model stops after
one pass; it needs that the group asked last is the one whose answer is taken, and that the lengths of both
are multiples of the alignment. The alignment is a recursive function over the groups; that
every block size divides it is proved by induction (`NumberInduction`).

**The engine.** `EngineTablesProofs` (the operators on pool and tables) and `EngineProofs`
(`allocate_slots`, the actions, the theorems), for any finite set of requests with any prompts and answers, any
blocks, any token budget and number of running requests, any block sizes of the two groups
with the state block dividing the attention block, and every mixture of the settings
(both policies, any depth of the output queue, full-prompt admission, both publication rules,
aborts, forced and unforced resets):

* `EngineAccounted`: Spec => []Accounted
* `EngineCopies`: Spec => []CopiesIndependent

so, by the first, no assertion or `ValueError` of the pool is ever raised, an allocation never fails
once its estimate said yes, a forced reset always succeeds, and the count of each block is the number of
table entries and pins that name it. `EngineInvariant` is the inductive invariant `IInv`:

* `Sound` is about the cache alone. `PoolOK`: the indexes agree with what the blocks
  say, counts are holders, and the free queue holds the blocks without any. `TableOK`, for
  each group's table of each request: the blocks of an attention table up to its cached mark are found
  under their hashes and those behind it by nobody; the running Mamba state is the last of its
  table, behind all checkpoints and pending or in-flight sources, and belongs to nobody else
  unless it is itself a checkpoint. That a block behind the mark is in no index is why caching it later does not
  raise, and that the running state is not shared is why moving it does not free a block
  that a lookup has handed out.
* `TablesOK`: running requests have tables and no pending hit; the others have none.
* `NumbersOK`: a request never has more tokens computed than it has, the tokens of
  the step included, and has room for another one until it ends. It bounds the hashes that are asked for.
* `StepOK`: the running loop asks for one request at a time, a step that has preempted admits
  nobody, and what a step schedules is running.
* `ResumesOK`: nobody is resumed directly behind a step that it was part of, which `schedule` asserts.
  A forced reset makes it delicate: it preempts and resumes between two steps, and it holds only because
  `prev_step_scheduled_req_ids` is cleared then.

TLC checked `IInv` on the whole instance of the run `engine` before it was proved. The proof goes
bottom up: the operators of the pool, each with what it does to a pool whose blocks have
holders; the Mamba manager, one move of one table at a time (`SoundBut`: all tables but
that of the caller are in order); the attention group; the coordinator. The
largest part is `allocate_slots`: the estimate of `get_num_blocks_to_allocate` counts free
blocks of the hit, new blocks of both groups and the source of a partial copy, and `GrowOK` shows
step by step that pinning, touching and popping never use more. Then one lemma for each
action of the engine. Besides what the types need (`TokensAssumption`,
`QueueAssumption`, `NullAssumption`, `KernelAssumption`, `SettingsAssumption`) it assumes `ResetsAssumption` (with resets, the
pool has all blocks: the code compares with `num_gpu_blocks`), `RequestsAssumption`,
`BudgetAssumption` and `KindsAssumption`.

`EngineCopies` rests on `CopiesApart`, inductive relative to `IInv` and also checked with TLC
first. The worker zeroes the new blocks of a step and then makes its partial-prefix copies,
together; that this is safe is spread over the scheduler. Between two steps nothing is
ordered. Running requests have no pending hit, so only admissions order copies. Until
something is preempted in the step, the blocks to be zeroed have no entry in the partial
index (`FreshBare`): the pool evicts all entries of a block that it hands out, and only
`free` adds one (`finalize_request_cache`). The source of a copy is a pinned block behind such an entry, so it is not
among the blocks to be zeroed, then or later in the step, because a pinned block is not
handed out. The destination of a copy is (`CopiesSafe`). A step that has preempted admits nobody
(`StepOK`), so it makes no copy, though the victim's `free` may well cache a boundary in a block
that this step zeroes. For each operator
that `allocate_slots` calls, `Keeps` says that it orders nothing, or `Lays` that what it orders
keeps the copies apart.

**Model-checked only.** The other invariants of `Engine` (`ReadsOwnPrefix`, `CachedContent`), and `MTP`, `WindowTables` and `EncoderInputs`, most of
whose invariants would need an inductive strengthening over the contents of memory on all sides;
all liveness, and whatever needs ENABLED, which the prover does not handle.

## 5. What the runs show

In the checked instances of `Engine` no block leaks or is freed twice; no allocation fails
after its estimate said yes; the running Mamba state is never a published block; the worker's
state index never leads it to another request's state, in spite of preemption and
resumption; release of a source reference that arrives after its request was preempted and
resumed does no harm; with two outputs under way the data of freed blocks is read
before they are overwritten, because the worker executes outputs in order and a new owner's
zeroing comes with a later output; a forced reset always succeeds; and each request is
answered.

With drafts, counts and input ids are right as long as the output queue is filled before a
result is handled; Mamba states are, with one draft and as long as no decoding
request is passed over for a step.

Blocks under transfer never change hands. Recovery from invalid blocks is right for the
policy that recomputes when nobody aborts during the forward pass and prefills are not
chunked, and for the one that fails requests when one request runs at a time.

The lookup loop is exact: it finds the longest hit whatever the order of the groups. Windows
free each block when it leaves and never before.

The encoder caches agree under fcfs for models that read no token ahead.

## 6. Findings and observed limits

Two runs contradict what the repository says of itself.

* `engine_agreed` (`AgreedHit`, CO:814). `find_longest_cache_hit` asks Mamba first and
  leaves its loop after one iteration for a simple hybrid model. If attention then accepts
  fewer tokens, but some, the Mamba list is cut to null blocks and Mamba is not asked
  again. The request starts behind the attention prefix and its first state is copied from
  the null block. `src/optim.flow:111` requires the two to agree. In the trace `c2`
  arrives while `c1` is still decoding: the checkpoint of `c1` is published,
  one attention block (four tokens) is cached, but the partial block is mirrored only when
  `c1` ends. Tainted contents are excluded from `ReadsOwnPrefix` and `CachedContent` so that
  this finding does not hide others.
* `mtp_lifetime` (`StateRight`, ST:1623). The source block of a state copy is freed by the
  optimistic count. With three drafts, which `src/README.md:86` configures, all of them
  rejected, the worker is still in it. ST:1193 says why this must not happen.

The other runs stay inside limits that were met while choosing their bounds. Each row is
reproduced by changing the run's configuration as given and keeping the one property:
TLC then reports it violated. The names are defined in the MC module.

| run | change | violated | what happens |
|---|---|---|---|
| `engine` | `Settings <- AbortingOnly`, `Resubmits = {"c1"}` | `ReadsOwnPrefix` | An output without tokens returns before `preprocess_mamba` (GM:3905), so the state index of an ended request survives; the same id, used again, starts from it. |
| `engine` | `Settings <- PlainOnly`, `KernelBlock = 4` | `ReadsOwnPrefix` | A partial copy that is not a multiple of the kernel block is passed over without an error (GM:1074). |
| `engine` | `Settings <- ResettingOnly`, `MaxOut <- TwoTokens` | `SampledInPlace` | `discard_latest_async_tokens` (SC:2032) is set and never read here: a token under way is appended to a request that a forced reset preempted, and its position is sampled twice. |
| `engine` | `CachedContent` without its condition on the policy | `CachedContent` | A priority victim may already have its tokens in this step (SC:609). They are withdrawn, but its full blocks and its prompt checkpoint stay published: entries for data that nobody computes. |
| `prefill_budget` | `BlockSize = 4` | `Served` | The MTP reserve (SC:469) is held back even when the running list is full; if less than a state block is left, the aligned split gives running prefills nothing, for ever. |
| `prefill_budget` | `BlockSize = 1` | `AdmitsOne` | The reserve counts in `cache_config.block_size` (SC:469). If a state block is larger, what is held back may be too little for the aligned split. `GP:19` makes the state block the smaller one; nothing asserts it. |
| `mtp` | `Settings <- OneDraft`, `Early = TRUE` | `PositionsRight` | If a result is handled before the next output is made, rejected drafts are taken back twice (GM:1302). |
| `mtp` | `Settings <- OneDraft`, `Budgets = {2, 100}`, `Aborts = {}`, `Prompt <- Ones`, seven blocks | `StateRightOfOne` | A decoding request that the budget passes over for a step loses its row, and with it which draft was accepted (GM:2019). |
| `mtp_lifetime` | `Budgets = {1, 100}` | `NoException` | Rejected drafts and a smaller budget would make the table shrink (ST:1430); an assertion fails. |
| `remote_kv` | `Settings <- FailTwo` | `CachedRight` | Blocks that a second request computed behind a shared invalid block stay cached (SC:2371). |
| `remote_kv` | `Settings <- FailAborted` | `AnswersRight` | Invalid blocks of a request that was aborted during the step stay cached (SC:2421). |
| `remote_kv` | `Settings <- AlikeAborted` | `AnswersRight` | The request that was to compute an invalid block again is aborted, and the block stays cached (SC:2436). |
| `remote_kv` | `Settings <- AlikeChunked` | `AnswersRight` | With a prefill threshold only a part of the invalid blocks is computed again before another request reads them (SC:2347). |
| `remote_kv_live` | `Settings <- LiveParts`, four blocks | `TransfersEnd` (`Answered`) | The waiting loop ends at the first request without room (SC:900); loaded requests behind it are never promoted and hold the blocks it waits for. |
| `hit_lookup` | `Models <- SmallWindow` | `HitCovers` | With eagle and small window blocks, what is left of the matched run after realignment is shorter than the window (ST:620). |
| `window_tables` | `Settings <- Loaded` | `WindowHeld` | The first manager takes new blocks for loaded tokens before the second has touched its hits, and may take one of them (CO:180). |
| `encoder_inputs` | `Settings <- DraftsMtp` | `NeverMisses` | The patch turns the shift off for MTP (SC:562), while the runner still gathers one token ahead for the draft model. It concerns draft models that take multimodal inputs. |
| `encoder_inputs` | `Settings <- DraftsEagle` | `NeverMisses` | An input that begins exactly behind the chunk is considered because of the shift, and skipped because its range is empty without it (SC:1400). |
| `encoder_inputs` | `NeverMisses` without its condition on the policy | `NeverMisses` | An output counts as cached when it is allocated (SC:1344). If its request is preempted later in the step, nobody computes it, and who needs it fails "Encoder cache miss". |
| `encoder_inputs` | `Settings <- NextToIt`, `Settings <- InOneBlock` | `Answered` | Two inputs that do not fit together stop a request for ever: adjacent under eagle (SC:1372), or in one Mamba block (SC:568). |
| `encoder_inputs` | `WholeOnly` for shared inputs too | `WholeOnly` | An input that is cached already escapes the test of `disable_chunked_mm_input` (SC:1344). |

Seen in traces and not stated as properties:

* An abort, or any other free, drops the source references that are to hold until the
  worker has executed the output (ST:1484, `src/gold.patch:1186`). The engine's setting
  `Overlap` shows that this has no effect on data in an in-order worker.
* With four blocks a request can starve although it would fit: `allocate_slots` counts
  the pinned source of its partial hit on top of its own blocks, and nothing makes it try
  without the hit. Five blocks are enough for the prompts used here.
* Blocks of an ended request that are kept for a transfer stay taken while the engine is
  idle: the report that frees them comes with the output of a step, and such a request does
  not make the engine take one (SC:1996). Nobody wants the blocks then.
* Under the policy that recomputes, a request whose load fails for ever is loaded again for
  ever, and those behind it wait; nothing counts the attempts (SC:2436).
* With the aligned split, a request that gets no token keeps outputs in use while it waits
  (SC:833).
* A priority victim in front of `req_index` moves the list but not the index (SC:609): the
  next running request gets nothing in this step.
* With three outputs under way and no asynchronous scheduling, a request would be
  scheduled for a token it has not got.

## 7. Not modelled

* Mamba cache modes `none`, `all`, `align`; prompts long enough for checkpoints together with
  drafts (`Engine` and `MTP` each have one side); n-gram and other drafters.
* Cross-attention and sink managers; several groups of one spec; context parallelism.
* Encoder-decoder models, encoder-cache connectors, overlapping inputs, late interaction.
* Connectors that cannot yet tell their matches; the worker's side of a connector.
* Pause, streaming sessions, LoRA, grammars, disabled chunked prefill, pipeline parallelism.
* Tensors, CUDA graphs, model loading, profiling; KV-cache events and metrics, which
  nothing reads back; the metrics probe and the shell scripts.

## 8. Plan

1. Done: pool, queue, their refinement, and the proofs about the pool.
2. Done: Mamba mode `latest`, the coordinator, cache manager, scheduler and worker, both
   scheduling policies, two outputs under way, aborts, resets, resubmission, liveness.
3. Done: token budgets and the aligned split, with proofs.
4. Done: drafts under asynchronous scheduling.
5. Done: lookups of all kinds of groups against the longest hit; sliding windows.
6. Done: remote KV and recovery from invalid blocks; encoder inputs.
7. Done: proofs that the queue stays exact and implements `BlockPool`, that the reserve lets
   someone in, that blocks under transfer stay with their request, that lookups are exact,
   that the engine accounts for its blocks, and that the copies of a step are independent.
8. Next: proofs that the two encoder caches stay in step (`InStep`, `CachesFit`), and that
   tables over windows keep exact references.
9. Then: the older Mamba modes, over the same worker.
