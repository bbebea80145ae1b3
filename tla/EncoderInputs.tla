---------------------------- MODULE EncoderInputs ----------------------------
(***************************************************************************)
(* Encoder inputs (images in a prompt) and the two caches of their         *)
(* outputs: the scheduler decides which encoders run, what is cached and   *)
(* what is evicted, and the worker holds the outputs themselves.  They     *)
(* agree only through the scheduler outputs, executed in order.            *)
(*                                                                         *)
(* A request samples one token and ends.  KV blocks are not modelled: an   *)
(* allocation that fails is a choice, at most MaxShort times in a run, and *)
(* a hit in the prefix cache is one of Hits[r].                            *)
(***************************************************************************)
EXTENDS Integers, SequencesExt

CONSTANTS Req,      \* request ids
          Hash,     \* identifiers of encoder inputs
          Rank,     \* Rank[r]: (priority, arrival_time), smaller first
          Settings  \* what the engine may be started with, and its clients

\* An input of a request: mm_features, and the positions of its placeholder that
\* are embeddings.
ASSUME InputsAssumption ==
  \A c \in Settings : \A r \in Req :
    /\ \A i \in DOMAIN c.items[r] :
         LET it == c.items[r][i] IN
         /\ it.hash \in Hash /\ it.len \in Nat \ {0}
         /\ it.start \in Nat /\ it.start + it.len <= c.prompt[r]
         /\ it.embeds \subseteq 0 .. it.len - 1 /\ Cardinality(it.embeds) = c.size[it.hash]
         /\ i > 1 => c.items[r][i - 1].start + c.items[r][i - 1].len <= it.start
    /\ c.hits[r] \subseteq 0 .. c.prompt[r] - 1 /\ 0 \in c.hits[r]

\* MultiModalBudget: any single input can be computed and kept.
ASSUME SizeAssumption ==
  \A c \in Settings : \A h \in Hash :
    c.size[h] \in Nat \ {0} /\ c.size[h] <= c.encBudget /\ c.size[h] <= c.cacheSize

VARIABLES
  conf,     \* one of the Settings, the same all the time
  req,      \* req[r]: status, num_computed_tokens
  running,  \* the running list
  waiting,  \* the waiting queue
  cache,    \* the scheduler's EncoderCacheManager
  step,     \* the call of schedule() in progress
  flight,   \* outputs not yet passed to update_from_output, oldest first
  worker,   \* the worker's encoder_cache
  missed,   \* an assertion "Encoder cache miss" has failed
  short     \* how often allocate_slots has returned None

vars == <<conf, req, running, waiting, cache, step, flight, worker, missed, short>>

Prompt      == conf.prompt       \* Prompt[r]: num_prompt_tokens
Items       == conf.items        \* Items[r]: mm_features
Size        == conf.size         \* Size[h]: embeddings of an encoder output
Hits        == conf.hits         \* Hits[r]: tokens that the prefix cache may hold
Budget      == conf.budget       \* max_num_scheduled_tokens
Threshold   == conf.threshold    \* long_prefill_token_threshold, 0 if there is none
EncBudget   == conf.encBudget    \* max_num_encoder_input_tokens
CacheSize   == conf.cacheSize    \* encoder_cache_size
MaxRunning  == conf.maxRunning   \* max_num_running_reqs
Policy      == conf.policy       \* "fcfs" or "priority"
Shift       == conf.shift        \* 1 if use_eagle_prefix_cache_drop, else 0
Drafter     == conf.drafter      \* whether a draft model takes multimodal inputs
WholeInputs == conf.whole        \* disable_chunked_mm_input
StateBlock  == conf.stateBlock   \* mamba_block_size, 0 without the aligned split
Depth       == conf.depth        \* outputs under way at once
Aborts      == conf.aborts       \* the requests that a client may abort
Resets      == conf.resets       \* whether clients call reset_encoder_cache
MaxShort    == conf.maxShort     \* how often allocate_slots returns None

Min2(a, b) == IF a < b THEN a ELSE b
Max2(a, b) == IF a > b THEN a ELSE b

-----------------------------------------------------------------------------
(* The EncoderCacheManager: the requests that use an output, and the       *)
(* outputs that no request uses, in the order in which they are evicted.   *)

Total(hs) == FoldSet(LAMBDA h, n : n + Size[h], 0, hs)

NewCache == [in |-> {}, users |-> [h \in Hash |-> {}], freeable |-> <<>>, freed |-> {}]

FreeSlots(c) == CacheSize - Total(c.in)

\* A name with _bug is a faulty variant of the definition that follows it: put
\* in its place, it must break a property of a run.

Use_bug(c, r, h) == [c EXCEPT !.users[h] = @ \cup {r}]  \* it stays freeable

\* check_and_update_cache, for an output that is cached.
Use(c, r, h) == [c EXCEPT !.users[h] = @ \cup {r}, !.freeable = Remove(@, h)]

Evict_bug(c, n) ==  \* the worker is not told
  LET k == CHOOSE k \in 0 .. Len(c.freeable) :
             /\ n <= FreeSlots(c) + Total(ToSet(SubSeq(c.freeable, 1, k)))
             /\ \A j \in 0 .. k - 1 : n > FreeSlots(c) + Total(ToSet(SubSeq(c.freeable, 1, j)))
      out == ToSet(SubSeq(c.freeable, 1, k))
  IN  [c EXCEPT !.in = @ \ out, !.freeable = SubSeq(@, k + 1, Len(@))]

\* The end of can_allocate: evict the oldest outputs until n embeddings fit.
Evict(c, n) ==
  LET k == CHOOSE k \in 0 .. Len(c.freeable) :
             /\ n <= FreeSlots(c) + Total(ToSet(SubSeq(c.freeable, 1, k)))
             /\ \A j \in 0 .. k - 1 : n > FreeSlots(c) + Total(ToSet(SubSeq(c.freeable, 1, j)))
      out == ToSet(SubSeq(c.freeable, 1, k))
  IN  [c EXCEPT !.in = @ \ out, !.freed = @ \cup out,
                !.freeable = SubSeq(@, k + 1, Len(@))]

\* can_allocate.
Allocatable(c, h, budget, sofar) ==
  /\ Size[h] <= budget
  /\ sofar + Size[h] <= FreeSlots(c) + Total(ToSet(c.freeable))

Allocate(c, r, h) == [c EXCEPT !.in = @ \cup {h}, !.users[h] = @ \cup {r}]

\* free_encoder_input.
Release(c, r, h) ==
  IF c.users[h] = {} THEN c
  ELSE [c EXCEPT !.users[h] = @ \ {r},
                 !.freeable = IF c.users[h] = {r} THEN Append(@, h) ELSE @]

\* free: every input of the request.
ReleaseAll(c, r) == FoldLeft(LAMBDA d, it : Release(d, r, it.hash), c, Items[r])

-----------------------------------------------------------------------------
(* Which inputs a chunk needs.                                             *)

End(it) == it.start + it.len

\* get_embeds_indices_in_range: the chunk of n tokens from position first has
\* embeddings of the input.
Embedded(it, first, n) ==
  \E p \in it.embeds : first <= it.start + p /\ it.start + p < first + n

CutsWhole_bug(it, computed, n) ==  \* the last token may be missing
  WholeInputs /\ computed < it.start /\ computed + n + 1 < End(it)

\* disable_chunked_mm_input: the chunk would end inside the input.
CutsWhole(it, computed, n) ==
  WholeInputs /\ computed < it.start /\ computed + n < End(it)

CutBefore(it, computed) == Max2(0, it.start - (computed + Shift))

Taken(r, a) == {Items[r][i].hash : i \in a.items}

Consider_bugEmbeds(r, computed, a, i) ==  \* taken at once, whatever is cached
  LET it == Items[r][i] IN
  IF a.stop \/ End(it) <= computed \/ it.hash \in Taken(r, a) THEN a
  ELSE IF it.start >= computed + a.n + Shift THEN [a EXCEPT !.stop = TRUE]
  ELSE IF ~Allocatable(a.cache, it.hash, a.enc, a.embeds)
    THEN [a EXCEPT !.n = CutBefore(it, computed), !.stop = TRUE]
  ELSE [a EXCEPT !.cache = Evict(@, a.embeds + Size[it.hash]), !.items = @ \cup {i},
                 !.embeds = @ + Size[it.hash], !.enc = @ - Size[it.hash]]

Consider_bugCut(r, computed, a, i) ==  \* an input without room does not cut the chunk
  LET it == Items[r][i] IN
  IF a.stop \/ End(it) <= computed \/ it.hash \in Taken(r, a) THEN a
  ELSE IF it.start >= computed + a.n + Shift THEN [a EXCEPT !.stop = TRUE]
  ELSE IF it.hash \in a.cache.in THEN [a EXCEPT !.cache = Use(@, r, it.hash)]
  ELSE IF ~Allocatable(a.cache, it.hash, a.enc, a.embeds) THEN [a EXCEPT !.stop = TRUE]
  ELSE [a EXCEPT !.cache = Evict(@, a.embeds + Size[it.hash]), !.items = @ \cup {i},
                 !.embeds = @ + Size[it.hash], !.enc = @ - Size[it.hash]]

\* One input in the loop of _try_schedule_encoder_inputs; a is what the loop
\* has found before it.
Consider(r, computed, a, i) ==
  LET it == Items[r][i]
      h  == it.hash
  IN
  IF a.stop \/ End(it) <= computed THEN a
  ELSE IF it.start >= computed + a.n + Shift THEN [a EXCEPT !.stop = TRUE]
  ELSE IF h \in Taken(r, a) THEN a
  ELSE IF h \in a.cache.in THEN [a EXCEPT !.cache = Use(@, r, h)]
  ELSE IF CutsWhole(it, computed, a.n) \/ ~Allocatable(a.cache, h, a.enc, a.embeds)
    THEN [a EXCEPT !.n = CutBefore(it, computed), !.stop = TRUE]
  ELSE LET made == [a EXCEPT !.cache = Evict(@, a.embeds + Size[h])]
       IN  IF ~Embedded(it, computed, a.n) THEN made
           ELSE [made EXCEPT !.items = @ \cup {i}, !.embeds = @ + Size[h],
                             !.enc = @ - Size[h]]

\* _try_schedule_encoder_inputs.
TryInputs(r, computed, n) ==
  FoldLeft(LAMBDA a, i : Consider(r, computed, a, i),
           [cache |-> cache, n |-> n, enc |-> step.enc, items |-> {}, embeds |-> 0,
            stop |-> n = 0],
           [i \in DOMAIN Items[r] |-> i])

\* _mamba_block_aligned_split, without coarse checkpoints.
AlignedSplit(r, computed, n) ==
  LET last == Max2(0, Prompt[r] - (Prompt[r] % StateBlock) - (1 + Shift) * StateBlock)
  IN  IF StateBlock = 0 THEN n
      ELSE IF computed < last /\ last < computed + n THEN last - computed
      ELSE IF computed + n < last THEN n - (n % StateBlock)
      ELSE n

\* What a request may get in this step.
Try(r, computed, n) ==
  LET a == TryInputs(r, computed, n) IN [a EXCEPT !.n = AlignedSplit(r, computed, @)]

-----------------------------------------------------------------------------
(* Initial state, and clients.                                             *)

\* The running request that asks for blocks, and what it is to get.
NoTry == [by |-> {}, n |-> 0, items |-> {}, enc |-> 0]

Idle == [phase |-> "idle", i |-> 0, budget |-> 0, enc |-> 0, preempted |-> FALSE,
         try |-> NoTry, got |-> [r \in Req |-> 0], items |-> [r \in Req |-> {}]]

Init == /\ conf \in Settings
        /\ req = [r \in Req |-> [status |-> "absent", computed |-> 0]]
        /\ running = <<>>
        /\ waiting = <<>>
        /\ cache = NewCache
        /\ step = Idle
        /\ flight = <<>>
        /\ worker = {}
        /\ missed = FALSE
        /\ short = 0

BetweenCalls == step.phase = "idle" /\ (Depth > 1 \/ \A k \in DOMAIN flight : flight[k].ran)

\* add_request.
Arrive(r) ==
  /\ step.phase = "idle" /\ (Depth > 1 \/ flight = <<>>)
  /\ r \in conf.clients /\ req[r].status = "absent"
  /\ req' = [req EXCEPT ![r].status = "waiting"]
  /\ waiting' = Append(waiting, r)
  /\ UNCHANGED <<conf, running, cache, step, flight, worker, missed, short>>

Abort_bug(r) ==  \* _free_request leaves the encoder cache alone
  /\ BetweenCalls
  /\ r \in Aborts /\ req[r].status \in {"waiting", "running", "preempted"}
  /\ req' = [req EXCEPT ![r].status = "finished"]
  /\ running' = Remove(running, r)
  /\ waiting' = Remove(waiting, r)
  /\ UNCHANGED <<conf, cache, step, flight, worker, missed, short>>

\* finish_requests with _free_request.
Abort(r) ==
  /\ BetweenCalls
  /\ r \in Aborts /\ req[r].status \in {"waiting", "running", "preempted"}
  /\ req' = [req EXCEPT ![r].status = "finished"]
  /\ running' = Remove(running, r)
  /\ waiting' = Remove(waiting, r)
  /\ cache' = ReleaseAll(cache, r)
  /\ UNCHANGED <<conf, step, flight, worker, missed, short>>

\* reset_encoder_cache of the scheduler, and of the worker behind the outputs
\* that it still has to execute.
Reset ==
  /\ Resets
  /\ step.phase = "idle" /\ \A k \in DOMAIN flight : flight[k].ran
  /\ cache' = NewCache
  /\ worker' = {}
  /\ UNCHANGED <<conf, req, running, waiting, step, flight, missed, short>>

-----------------------------------------------------------------------------
(* schedule().                                                             *)

Begin ==
  /\ step.phase = "idle"
  /\ Len(flight) < Depth
  /\ running # <<>> \/ waiting # <<>>
  /\ step' = [Idle EXCEPT !.phase = "running", !.i = 1, !.budget = Budget, !.enc = EncBudget]
  /\ UNCHANGED <<conf, req, running, waiting, cache, flight, worker, missed, short>>

InRunningLoop == step.phase = "running" /\ step.i <= Len(running) /\ step.budget > 0

Capped(n) == IF 0 < Threshold /\ Threshold < n THEN Threshold ELSE n

Wanted_bug(r) == Prompt[r] - req[r].computed  \* beyond the budget

Wanted(r) == Min2(Capped(Prompt[r] - req[r].computed), step.budget)

\* A running request gets no token in this step: all of its tokens are under
\* way, or its inputs do not fit.  The outputs it found stay in use.
PassOver(r) ==
  /\ InRunningLoop /\ r = running[step.i]
  /\ \E t \in {Try(r, req[r].computed, Wanted(r))} :
       /\ t.n = 0
       /\ cache' = t.cache
  /\ step' = [step EXCEPT !.i = @ + 1]
  /\ UNCHANGED <<conf, req, running, waiting, flight, worker, missed, short>>

\* A running request asks for blocks.
Ask(r) ==
  /\ InRunningLoop /\ r = running[step.i]
  /\ \E t \in {Try(r, req[r].computed, Wanted(r))} :
       /\ t.n > 0
       /\ cache' = t.cache
       /\ step' = [step EXCEPT !.phase = "blocks",
                               !.try = [by |-> {r}, n |-> t.n, items |-> t.items, enc |-> t.enc]]
  /\ UNCHANGED <<conf, req, running, waiting, flight, worker, missed, short>>

AllocateAll(c, r, items) ==
  FoldLeft(LAMBDA d, i : IF i \in items THEN Allocate(d, r, Items[r][i].hash) ELSE d,
           c, [i \in DOMAIN Items[r] |-> i])

Give(r, n, items, enc) ==
  [step EXCEPT !.budget = @ - n, !.got[r] = n, !.items[r] = items, !.try = NoTry,
               !.enc = IF items = {} THEN @ ELSE enc]

\* It gets them.
ScheduleRunning(r) ==
  /\ step.phase = "blocks" /\ r \in step.try.by
  /\ cache' = AllocateAll(cache, r, step.try.items)
  /\ step' = [Give(r, step.try.n, step.try.items, step.try.enc)
                EXCEPT !.phase = "running", !.i = @ + 1]
  /\ UNCHANGED <<conf, req, running, waiting, flight, worker, missed, short>>

Victim == IF Policy = "fcfs" THEN Last(running)
          ELSE CHOOSE r \in ToSet(running) : \A q \in ToSet(running) : Rank[q] <= Rank[r]

InputsOf(r, items) == {Items[r][i].hash : i \in items}

Preempt_bug(r) ==  \* its inputs stay in the output
  /\ step.phase = "blocks" /\ r \in step.try.by
  /\ short < MaxShort
  /\ short' = short + 1
  /\ LET v == Victim IN
     /\ req' = [req EXCEPT ![v].status = "preempted", ![v].computed = 0]
     /\ running' = Remove(running, v)
     /\ waiting' = <<v>> \o waiting
     /\ cache' = ReleaseAll(cache, v)
     /\ step' = [step EXCEPT
          !.phase = IF v = r THEN "output" ELSE "blocks",
          !.try = IF v = r THEN NoTry ELSE @, !.preempted = TRUE,
          !.i = IF step.got[v] > 0 THEN @ - 1 ELSE @,
          !.budget = @ + step.got[v], !.got[v] = 0,
          !.enc = @ + Total(InputsOf(v, step.items[v]))]
  /\ UNCHANGED <<conf, flight, worker, missed>>

\* allocate_slots fails, and a request is preempted.  One that was scheduled
\* in this step gives back what it got of it.  One that was passed over leaves
\* the list without a change of req_index: the loop then misses a request.
Preempt(r) ==
  /\ step.phase = "blocks" /\ r \in step.try.by
  /\ short < MaxShort
  /\ short' = short + 1
  /\ LET v == Victim IN
     /\ req' = [req EXCEPT ![v].status = "preempted", ![v].computed = 0]
     /\ running' = Remove(running, v)
     /\ waiting' = <<v>> \o waiting
     /\ cache' = ReleaseAll(cache, v)
     /\ step' = [step EXCEPT
          !.phase = IF v = r THEN "output" ELSE "blocks",
          !.try = IF v = r THEN NoTry ELSE @, !.preempted = TRUE,
          !.i = IF step.got[v] > 0 THEN @ - 1 ELSE @,
          !.budget = @ + step.got[v], !.got[v] = 0,
          !.enc = @ + Total(InputsOf(v, step.items[v])), !.items[v] = {}]
  /\ UNCHANGED <<conf, flight, worker, missed>>

EndRunning ==
  /\ step.phase = "running" /\ ~InRunningLoop
  /\ step' = [step EXCEPT !.phase = IF step.preempted THEN "output" ELSE "waiting"]
  /\ UNCHANGED <<conf, req, running, waiting, cache, flight, worker, missed, short>>

InWaitingLoop == /\ step.phase = "waiting"
                 /\ waiting # <<>>
                 /\ step.budget > 0
                 /\ Len(running) < MaxRunning

Foremost == IF Policy = "fcfs" THEN Head(waiting)
         ELSE CHOOSE r \in ToSet(waiting) : \A q \in ToSet(waiting) : Rank[r] <= Rank[q]

TryWaiting(r, hit) == Try(r, hit, Min2(Capped(Prompt[r] - hit), step.budget))

Admit(r, hit) ==
  /\ InWaitingLoop /\ r = Foremost
  /\ \E t \in {TryWaiting(r, hit)} :
       /\ t.n > 0
       /\ cache' = AllocateAll(t.cache, r, t.items)
       /\ step' = Give(r, t.n, t.items, t.enc)
  /\ req' = [req EXCEPT ![r] = [status |-> "running", computed |-> hit]]
  /\ running' = Append(running, r)
  /\ waiting' = Remove(waiting, r)
  /\ UNCHANGED <<conf, flight, worker, missed, short>>

\* No tokens for the first in the queue: the loop ends, and the outputs that
\* the request has found stay in use.
HoldBack(r, hit) ==
  /\ InWaitingLoop /\ r = Foremost
  /\ \E t \in {TryWaiting(r, hit)} : t.n = 0 /\ cache' = t.cache
  /\ step' = [step EXCEPT !.phase = "output"]
  /\ UNCHANGED <<conf, req, running, waiting, flight, worker, missed, short>>

NoRoom_bug(r, hit) ==  \* the request is not untouched
  /\ InWaitingLoop /\ r = Foremost
  /\ short < MaxShort
  /\ short' = short + 1
  /\ \E t \in {TryWaiting(r, hit)} : t.n > 0 /\ cache' = t.cache
  /\ step' = [step EXCEPT !.phase = "output"]
  /\ UNCHANGED <<conf, req, running, waiting, flight, worker, missed>>

\* allocate_slots fails.
NoRoom(r, hit) ==
  /\ InWaitingLoop /\ r = Foremost
  /\ short < MaxShort
  /\ short' = short + 1
  /\ \E t \in {TryWaiting(r, hit)} : t.n > 0 /\ cache' = ReleaseAll(t.cache, r)
  /\ step' = [step EXCEPT !.phase = "output"]
  /\ UNCHANGED <<conf, req, running, waiting, flight, worker, missed>>

EndWaiting ==
  /\ step.phase = "waiting" /\ ~InWaitingLoop
  /\ step' = [step EXCEPT !.phase = "output"]
  /\ UNCHANGED <<conf, req, running, waiting, cache, flight, worker, missed, short>>

Scheduled == SelectSeq(running, LAMBDA r : step.got[r] > 0)

ReleasePassed_bug(c, r, computed) ==  \* inputs that have only begun
  FoldLeft(LAMBDA d, it : IF it.start < computed THEN Release(d, r, it.hash) ELSE d,
           c, Items[r])

\* _free_encoder_inputs: the inputs that end within the computed tokens.
ReleasePassed(c, r, computed) ==
  FoldLeft(LAMBDA d, it : IF End(it) <= computed THEN Release(d, r, it.hash) ELSE d,
           c, Items[r])

\* The output, and _update_after_schedule.
Emit ==
  /\ step.phase = "output"
  /\ flight' = Append(flight,
       [order |-> Scheduled, got |-> step.got, start |-> [r \in Req |-> req[r].computed],
        items |-> step.items, freed |-> cache.freed, ran |-> FALSE])
  /\ req' = [r \in Req |-> [req[r] EXCEPT !.computed = @ + step.got[r]]]
  /\ cache' = FoldLeft(LAMBDA c, r : ReleasePassed(c, r, req[r].computed + step.got[r]),
                       [cache EXCEPT !.freed = {}], Scheduled)
  /\ step' = Idle
  /\ UNCHANGED <<conf, running, waiting, worker, missed, short>>

-----------------------------------------------------------------------------
(* The worker.                                                             *)

Encoded(out) == UNION {InputsOf(r, out.items[r]) : r \in Req}

\* The worker's cache after an output: evictions first, then the encoders.
After(w, out) == (w \ out.freed) \cup Encoded(out)

\* _gather_mm_embeddings.
Gathered(r, first, n) ==
  {it.hash : it \in {x \in ToSet(Items[r]) : Embedded(x, first, n)}}

Needed(out, shift) == UNION {Gathered(r, out.start[r] + shift, out.got[r]) : r \in ToSet(out.order)}

\* _update_states, _execute_mm_encoder, and the embeddings for the model and
\* the draft model.
Execute(k) ==
  /\ ~flight[k].ran
  /\ \A j \in 1 .. k - 1 : flight[j].ran
  /\ flight' = [flight EXCEPT ![k].ran = TRUE]
  /\ worker' = After(worker, flight[k])
  /\ missed' = (missed \/ ~(Needed(flight[k], 0) \subseteq worker')
                       \/ (Drafter /\ ~(Needed(flight[k], 1) \subseteq worker')))
  /\ UNCHANGED <<conf, req, running, waiting, cache, step, short>>

\* update_from_output: a request that has its token ends.
Update ==
  /\ step.phase = "idle"
  /\ flight # <<>> /\ Head(flight).ran
  /\ LET out  == Head(flight)
         done == SelectSeq(out.order, LAMBDA r : /\ req[r].status \in {"running", "preempted"}
                                                 /\ out.start[r] + out.got[r] = Prompt[r])
     IN  /\ req' = [r \in Req |-> IF r \in ToSet(done)
                                  THEN [req[r] EXCEPT !.status = "finished"] ELSE req[r]]
         /\ running' = SelectSeq(running, LAMBDA r : r \notin ToSet(done))
         /\ waiting' = SelectSeq(waiting, LAMBDA r : r \notin ToSet(done))
         /\ cache' = FoldLeft(ReleaseAll, cache, done)
  /\ flight' = Tail(flight)
  /\ UNCHANGED <<conf, step, worker, missed, short>>

-----------------------------------------------------------------------------

\* A failed assertion ends the engine.
Engine ==
  /\ ~missed
  /\ \/ Begin \/ EndRunning \/ EndWaiting \/ Emit \/ Update
     \/ \E k \in DOMAIN flight : Execute(k)
     \/ \E r \in Req : \/ PassOver(r) \/ Ask(r) \/ ScheduleRunning(r) \/ Preempt(r)
                       \/ \E hit \in Hits[r] : Admit(r, hit) \/ HoldBack(r, hit) \/ NoRoom(r, hit)

Clients == ~missed /\ (Reset \/ \E r \in Req : Arrive(r) \/ Abort(r))

\* There are requests, and no assertion has failed.
Busy == ~missed /\ (step.phase # "idle" \/ flight # <<>> \/ running # <<>> \/ waiting # <<>>)

\* The end of a run; any other state without a next one is a deadlock.
AllEnded == /\ ~Busy /\ (missed \/ \A r \in conf.clients : req[r].status = "finished")
            /\ UNCHANGED vars

Next == Clients \/ Engine \/ AllEnded

Spec == Init /\ [][Next]_vars

\* The engine core runs its loop as long as there are requests.  This is
\* WF_vars(Engine) written out: without a deadlock Engine is enabled when it is
\* Busy, and its steps are those that change step or flight.

Moves == <<step, flight>>' # <<step, flight>>

FairSpec == Spec /\ ([]<>~Busy \/ []<><<Moves>>_vars)

-----------------------------------------------------------------------------

\* The shape of the state: no step takes more tokens or encoder outputs than its
\* budgets, and none is given back twice.
TypeOK ==
  /\ req \in [Req -> [status : {"absent", "waiting", "running", "preempted", "finished"},
                      computed : Nat]]
  /\ running \in Seq(Req) /\ waiting \in Seq(Req)
  /\ cache.in \subseteq Hash /\ cache.freed \subseteq Hash
  /\ cache.users \in [Hash -> SUBSET Req] /\ cache.freeable \in Seq(Hash)
  /\ step.phase \in {"idle", "running", "blocks", "waiting", "output"}
  /\ step.budget \in 0 .. Budget /\ step.enc \in 0 .. EncBudget
  /\ worker \subseteq Hash /\ missed \in BOOLEAN /\ short \in 0 .. MaxShort

\* The embeddings that a forward pass needs are in the worker's cache: the
\* assertion "Encoder cache miss" of _gather_mm_embeddings never fails.  (With
\* priorities it may: an output allocated for a request that is preempted in the
\* same step counts as cached, and nobody computes it.)
NeverMisses == Policy = "fcfs" => ~missed

\* Once it has executed the outputs under way, the worker holds exactly what
\* the scheduler believes: the cached outputs, and those whose eviction it has
\* yet to hear of.  (With priorities they part as in NeverMisses.)
InStep ==
  step.phase = "idle" /\ Policy = "fcfs" =>
    FoldLeft(After, worker, SelectSeq(flight, LAMBDA out : ~out.ran)) = cache.in \cup cache.freed

\* Neither cache outgrows encoder_cache_size, and the outputs that may be
\* evicted are the ones that no request uses.
CachesFit ==
  /\ Total(cache.in) <= CacheSize
  /\ Total(worker) <= CacheSize
  /\ ToSet(cache.freeable) = {h \in cache.in : cache.users[h] = {}}

\* The caches of scheduler and worker are well formed, fit, and agree.
CachesAgree == TypeOK /\ CachesFit /\ InStep

\* No step computes more embeddings than its budget, none twice, and none that
\* the worker has already.
EncodedOnce ==
  \A k \in DOMAIN flight :
    LET had == FoldLeft(After, worker, SelectSeq(SubSeq(flight, 1, k - 1), LAMBDA o : ~o.ran))
        all == FoldSet(LAMBDA r, n : n + Total(InputsOf(r, flight[k].items[r])), 0, Req)
    IN  /\ all <= EncBudget
        /\ all = Total(Encoded(flight[k]))
        /\ flight[k].ran \/ Encoded(flight[k]) \cap (had \ flight[k].freed) = {}

\* An output is kept only by running requests that still have to read it: by
\* no request that waits or has ended.
PinsNeeded ==
  step.phase = "idle" =>
    \A h \in Hash : \A r \in cache.users[h] :
      /\ req[r].status = "running"
      /\ \E it \in ToSet(Items[r]) : it.hash = h /\ End(it) > req[r].computed

Once(r, it) == \A x \in ToSet(Items[r]) : x.hash = it.hash => x = it

\* Between the chunks of an input that a request has once, its output stays in use,
\* so that no input is computed again for its rest, unless clients reset the cache.
HeldThrough ==
  step.phase = "idle" /\ ~Resets =>
    \A r \in ToSet(running) : \A it \in ToSet(Items[r]) :
      Once(r, it) /\ Embedded(it, 0, req[r].computed) /\ req[r].computed < End(it)
        => r \in cache.users[it.hash]

\* Outputs are in use as long as they are needed, and no longer.
PinsExact == PinsNeeded /\ HeldThrough

\* No other client has the input.
Own(r, it) == \A q \in conf.clients \ {r} : \A x \in ToSet(Items[q]) : x.hash # it.hash

\* With disable_chunked_mm_input no chunk that starts before an input ends inside
\* it ("we do not want to partially schedule a multimodal item").  One that another
\* request has computed is not looked at, and the chunk may end inside it.
WholeOnly ==
  WholeInputs =>
    \A k \in DOMAIN flight : \A r \in ToSet(flight[k].order) : \A it \in ToSet(Items[r]) :
      Own(r, it) /\ Once(r, it) =>
      LET first == flight[k].start[r]
          next  == first + flight[k].got[r]
      IN  first < it.start /\ next < End(it) => next <= it.start

\* Every request is answered, if no assertion fails: inputs that cannot all be kept
\* at once delay the chunks they are in, and stop none, as long as they are in chunks of
\* their own (README.md, observed limits).
Answered == \A r \in Req : (req[r].status = "waiting") ~> (req[r].status = "finished" \/ missed)
=============================================================================
