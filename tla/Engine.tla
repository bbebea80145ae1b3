------------------------------- MODULE Engine -------------------------------
(***************************************************************************)
(* The engine core around the hybrid prefix cache: Scheduler.schedule with *)
(* its running and waiting loops, the worker that executes the scheduler   *)
(* outputs, and update_from_output, with clients that add and abort        *)
(* requests between the calls of the engine.  Up to Depth outputs are      *)
(* under way at once (the batch queue of EngineCore).                      *)
(*                                                                         *)
(* Sampling stops at MaxOut tokens; there are no draft tokens, encoder     *)
(* inputs, LoRA, KV connectors or structured output.                       *)
(***************************************************************************)
EXTENDS HybridCacheOps

CONSTANTS Budget,      \* max_num_scheduled_tokens
          MaxRunning,  \* max_num_running_reqs
          Rank,        \* Rank[r]: (priority, arrival_time), smaller first
          Resubmits,   \* the ids that a client may use again
          KernelBlock, \* tokens in a block of the attention kernel
          Settings     \* what the engine may be started with, and its clients

ASSUME KernelAssumption == KernelBlock \in Nat \ {0} /\ A % KernelBlock = 0

ASSUME SettingsAssumption ==
  Settings \subseteq
    [policy      : {"fcfs", "priority"},
     reserveFull : BOOLEAN,        \* scheduler_reserve_full_isl
     depth       : Nat \ {0},      \* outputs under way at once
     blocks      : SUBSET Block,   \* num_gpu_blocks, but for the null block
     gold        : BOOLEAN,        \* gold.patch, or the files under scripts/debug
     clients     : SUBSET Req,     \* the requests that may arrive
     aborts      : SUBSET Req,     \* those that a client may abort
     resets      : BOOLEAN]        \* whether clients call reset_prefix_cache

\* A reset counts the free blocks against all blocks of the pool.
ASSUME ResetsAssumption == \A c \in Settings : c.resets => c.blocks = Block

ASSUME RequestsAssumption == IsFiniteSet(Req) /\ Rank \in [Req -> Int] /\ Hashes \subseteq Hash

ASSUME BudgetAssumption == Budget \in Nat \ {0}

ASSUME KindsAssumption == None \notin {"running", "new", "resumed"}

VARIABLES
  conf,     \* one of the Settings, the same all the time
  reqs,     \* reqs[r]: status, num_computed_tokens, num_tokens
  running,  \* the running list
  waiting,  \* the waiting queue, preempted requests in front
  kv,       \* the KV-cache manager
  step,     \* the call of schedule() in progress
  prev,     \* prev_step_scheduled_req_ids
  ended,    \* finished_req_ids: to be reported to the worker
  flight,   \* outputs not yet passed to update_from_output, oldest first
  worker,   \* the worker's copy of the block tables, and mamba_state_idx
  mem,      \* what the physical blocks contain
  misread   \* some forward pass has read another request's data

sched  == <<reqs, running, waiting, kv, step, prev, ended>>
device == <<worker, mem, misread>>
vars   == <<conf, sched, flight, device>>

Policy      == conf.policy
ReserveFull == conf.reserveFull
Depth       == conf.depth

-----------------------------------------------------------------------------
(* Contents of the physical memory: each slot holds the label of the token *)
(* prefix it was computed for.  A Mamba state fills its block.             *)

Zero  == <<"zero">>
Taint == <<"taint">>   \* computed from the null block, or from a misread

Slots == 0 .. A - 1
Filled(x) == [i \in Slots |-> x]

Content(m, b) == IF b = Null THEN Filled(Taint) ELSE m[b]
Store(m, b, x) == IF b = Null THEN m ELSE [m EXCEPT ![b] = x]

-----------------------------------------------------------------------------
(* Initial state.                                                          *)

\* What an output says of a request: its tokens, and the entries its tables
\* gained (kind "running") or the whole tables ("new" and "resumed").
NoMsg == [kind |-> None, start |-> 0, n |-> 0, last |-> FALSE,
          attn |-> <<>>, mamba |-> <<>>]

Idle == [phase |-> "idle", i |-> 0, budget |-> 0, need |-> 0, asks |-> {}, order |-> <<>>,
         msg |-> [r \in Req |-> NoMsg], preempted |-> {}]

Init == /\ conf \in Settings
        /\ reqs = [r \in Req |-> [status |-> "absent", computed |-> 0, ntok |-> Prompt[r]]]
        /\ running = <<>>
        /\ waiting = <<>>
        /\ \E ids \in SetToSeqs(conf.blocks) :  \* in the order of their ids
             /\ \A i, j \in DOMAIN ids : i < j => ids[i] < ids[j]
             /\ kv = NewCache(conf.gold, ids)
        /\ step = Idle
        /\ prev = {}
        /\ ended = {}
        /\ flight = <<>>
        /\ worker = [r \in Req |-> [attn |-> <<>>, mamba |-> <<>>, state |-> None]]
        /\ mem = [b \in Block |-> Filled(Zero)]
        /\ misread = FALSE

-----------------------------------------------------------------------------
(* Clients.  Their calls are processed between two steps of the engine core; *)
(* an abort also before the tokens of an executed output are used.          *)

BetweenSteps == step.phase = "idle" /\ (Depth > 1 \/ flight = <<>>)

BetweenCalls == /\ step.phase = "idle"
                /\ Depth > 1 \/ \A k \in DOMAIN flight : flight[k].ran

\* add_request.
Arrive(r) ==
  /\ BetweenSteps
  /\ r \in conf.clients
  /\ reqs[r].status \in {"absent"} \cup (IF r \in Resubmits THEN {"finished"} ELSE {})
  /\ reqs' = [reqs EXCEPT ![r] = [status |-> "waiting", computed |-> 0, ntok |-> Prompt[r]]]
  /\ waiting' = Append(waiting, r)
  /\ UNCHANGED <<conf, running, kv, prev, step, ended, flight, device>>

(* A name with _bug is a faulty variant of the definition that follows it: *)
(* put in its place, it must break a property of a run.                    *)

Abort_bug(r) ==  \* a waiting request stays in its queue
  /\ BetweenCalls
  /\ r \in conf.aborts
  /\ reqs[r].status \in {"waiting", "running", "preempted"}
  /\ reqs' = [reqs EXCEPT ![r].status = "finished"]
  /\ running' = Among(running, Req \ {r})
  /\ kv' = Free(kv, r)
  /\ ended' = ended \cup {r}
  /\ UNCHANGED <<conf, waiting, prev, step, flight, device>>

\* finish_requests with _free_request.
Abort(r) ==
  /\ BetweenCalls
  /\ r \in conf.aborts
  /\ reqs[r].status \in {"waiting", "running", "preempted"}
  /\ reqs' = [reqs EXCEPT ![r].status = "finished"]
  /\ running' = Among(running, Req \ {r})
  /\ waiting' = Among(waiting, Req \ {r})
  /\ kv' = Free(kv, r)
  /\ ended' = ended \cup {r}
  /\ UNCHANGED <<conf, prev, step, flight, device>>

Preempted(rs) == [r \in Req |->
  IF r \in rs THEN [reqs[r] EXCEPT !.status = "preempted", !.computed = 0] ELSE reqs[r]]

\* One request of the list after the other.
FreeAll(c, rs) ==
  LET freed[k \in 0 .. Len(rs)] == IF k = 0 THEN c ELSE Free(freed[k - 1], rs[k])
  IN  freed[Len(rs)]

Reset_bug(force) ==  \* prev_step_scheduled_req_ids is not cleared
  /\ BetweenSteps /\ conf.resets
  /\ LET out   == IF force THEN running ELSE <<>>
         freed == FreeAll(kv, Reverse(out))
     IN  /\ reqs' = Preempted(ToSet(out))
         /\ running' = IF force THEN <<>> ELSE running
         /\ waiting' = out \o waiting
         /\ kv' = [freed EXCEPT !.pool = ResetPrefixCache(@)]
  /\ UNCHANGED <<conf, prev, step, ended, flight, device>>

\* reset_prefix_cache.  With force, the running requests go back to the front
\* of the waiting queue first, and a cache that is in use all the same raises.
Reset(force) ==
  /\ BetweenSteps /\ conf.resets
  /\ LET out   == IF force THEN running ELSE <<>>
         freed == FreeAll(kv, Reverse(out))
         inUse == NumFree(freed.pool) < Cardinality(conf.blocks)
         pool  == ResetPrefixCache(freed.pool)
     IN  /\ reqs' = Preempted(ToSet(out))
         /\ running' = IF force THEN <<>> ELSE running
         /\ waiting' = out \o waiting
         /\ prev' = IF force THEN {} ELSE prev
         /\ kv' = [freed EXCEPT !.pool = [pool EXCEPT !.raised = @ \/ (force /\ inUse)]]
  /\ UNCHANGED <<conf, step, ended, flight, device>>

-----------------------------------------------------------------------------
(* schedule().                                                             *)

\* _mamba_block_aligned_split: a prefill stops at the next checkpoint, and
\* before the last checkpoint it advances by whole blocks.
LastCheckpoint(r) == Max2(Prompt[r] - (Prompt[r] % H) - H, 0)

\* _latest_mamba_coarse_checkpoints, of the last checkpoint.
CoarseCheckpoints(r) ==
  LET last == LastCheckpoint(r)
      far  == {c \in {k * A : k \in 1 .. last \div A} : last - c >= CoarseGap}
  IN  {c \in far : Cardinality({d \in far : d > c}) < CoarseCount}

AlignedSplit_bug(r, computed, n) ==  \* whole blocks to the very end
  IF computed >= Max2(Prompt[r], reqs[r].ntok - 1) THEN n ELSE n - (n % H)

AlignedSplit(r, computed, n) ==
  LET ahead == {c \in {LastCheckpoint(r)} \cup CoarseCheckpoints(r) :
                  computed < c /\ c < computed + n}
  IN  IF computed >= Max2(Prompt[r], reqs[r].ntok - 1) THEN n
      ELSE IF ahead # {} THEN Min(ahead) - computed
      ELSE IF computed + n < LastCheckpoint(r) THEN n - (n % H)
      ELSE n

Begin ==
  /\ step.phase = "idle"
  /\ Len(flight) < Depth
  /\ running # <<>> \/ waiting # <<>> \/ ended # {}
  /\ kv' = NewStepStarts(kv)
  /\ step' = [Idle EXCEPT !.phase = "running", !.i = 1, !.budget = Budget]
  /\ UNCHANGED <<conf, reqs, running, waiting, prev, ended, flight, device>>

InRunningLoop == /\ step.phase = "running"
                 /\ \/ step.need > 0
                    \/ step.i <= Len(running) /\ step.budget > 0

Tokens(r) == AlignedSplit(r, reqs[r].computed,
                          Min2(reqs[r].ntok - reqs[r].computed, step.budget))

\* The next running request: how many tokens it gets.  With none it is passed
\* over.
Pick ==
  /\ InRunningLoop
  /\ step.need = 0
  /\ LET r == running[step.i]
         n == Tokens(r)
     IN  step' = IF n = 0 THEN [step EXCEPT !.i = @ + 1]
                          ELSE [step EXCEPT !.need = n, !.asks = {r}]
  /\ UNCHANGED <<conf, reqs, running, waiting, kv, prev, ended, flight, device>>

Attempt(r) == AllocateSlots(kv, r, reqs[r].ntok, reqs[r].computed, step.need, MissedHit)

Suffix(new, old) == SubSeq(new, Len(old) + 1, Len(new))

ScheduleRunning ==
  /\ InRunningLoop
  /\ step.need > 0
  /\ \E r \in step.asks :
     LET n == step.need
     IN  \E try \in {Attempt(r)} :
         /\ try.ok
         /\ kv' = try.kv
         /\ step' = [step EXCEPT
              !.i = @ + 1, !.budget = @ - n, !.need = 0, !.asks = {}, !.order = Append(@, r),
              !.msg[r] = [kind  |-> "running", start |-> reqs[r].computed, n |-> n,
                          last  |-> reqs[r].computed + n = reqs[r].ntok,
                          attn  |-> Suffix(try.kv.attn[r].blocks, kv.attn[r].blocks),
                          mamba |-> Suffix(try.kv.mamba[r].blocks, kv.mamba[r].blocks)]]
  /\ UNCHANGED <<conf, reqs, running, waiting, prev, ended, flight, device>>

\* Without room for it, the running request of the lowest priority goes back
\* to the waiting queue, and gives back the tokens it got in this step.  A
\* request that preempts itself ends the running loop.  The position in the
\* list goes back by one only for a victim that was scheduled in this step.
Victim == IF Policy = "priority"
          THEN CHOOSE r \in ToSet(running) : \A q \in ToSet(running) : Rank[q] <= Rank[r]
          ELSE Last(running)

Preempt ==
  /\ InRunningLoop
  /\ step.need > 0
  /\ \E r \in step.asks :
     LET v   == Victim
         due == Contains(step.order, v)
     IN  \E try \in {Attempt(r)} :
         /\ ~try.ok
         /\ kv' = Free(try.kv, v)
         /\ running' = Among(running, Req \ {v})
         /\ waiting' = <<v>> \o waiting
         /\ reqs' = [reqs EXCEPT ![v].status = "preempted", ![v].computed = 0]
         /\ step' = [step EXCEPT
              !.phase     = IF v = r THEN "output" ELSE @,
              !.need      = IF v = r THEN 0 ELSE @,
              !.asks      = @ \ {v},
              !.i         = IF due THEN @ - 1 ELSE @,
              !.budget    = @ + step.msg[v].n,
              !.order     = Among(@, Req \ {v}),
              !.msg[v]    = NoMsg,
              !.preempted = @ \cup {v}]
  /\ UNCHANGED <<conf, prev, ended, flight, device>>

EndRunning ==
  /\ step.phase = "running"
  /\ ~InRunningLoop
  /\ step' = [step EXCEPT !.phase = IF step.preempted = {} THEN "waiting" ELSE "output"]
  /\ UNCHANGED <<conf, reqs, running, waiting, kv, prev, ended, flight, device>>

\* The request of the waiting queue whose turn it is, and its admission.
InWaitingLoop == /\ step.phase = "waiting"
                 /\ waiting # <<>>
                 /\ step.budget > 0
                 /\ Len(running) < MaxRunning

Candidate == IF Policy = "priority"
             THEN CHOOSE r \in ToSet(waiting) : \A q \in ToSet(waiting) : Rank[r] <= Rank[q]
             ELSE Head(waiting)

AdmissionBehind(r, hit) ==
  LET asked == ComputedBlocks(kv, r, hit)
      n     == AlignedSplit(r, hit.len, Min2(reqs[r].ntok - hit.len, step.budget))
      fits  == ~ReserveFull \/ CanFit(asked, r, reqs[r].ntok, hit)
      try   == IF n > 0 /\ fits THEN AllocateSlots(asked, r, reqs[r].ntok, 0, n, hit)
                                ELSE [ok |-> FALSE, kv |-> asked]
  IN  [r |-> r, start |-> hit.len, n |-> n, ok |-> try.ok, kv |-> try.kv]

Admission == AdmissionBehind(Candidate, Lookup(kv, Candidate, reqs[Candidate].ntok))

Admit ==
  /\ InWaitingLoop
  /\ \E a \in {Admission} :
     LET r == a.r
     IN  /\ a.ok
         /\ kv' = a.kv
         /\ waiting' = Among(waiting, Req \ {r})
         /\ running' = Append(running, r)
         /\ reqs' = [reqs EXCEPT ![r].status = "running", ![r].computed = a.start]
         /\ step' = [step EXCEPT
              !.budget = @ - a.n, !.order = Append(@, r),
              !.msg[r] = [kind  |-> IF reqs[r].status = "waiting" THEN "new" ELSE "resumed",
                          start |-> a.start, n |-> a.n,
                          last  |-> a.start + a.n = reqs[r].ntok,
                          attn  |-> a.kv.attn[r].blocks,
                          mamba |-> a.kv.mamba[r].blocks]]
  /\ UNCHANGED <<conf, prev, ended, flight, device>>

\* The first request that cannot be admitted ends the waiting loop.
HoldBack ==
  /\ InWaitingLoop
  /\ \E a \in {Admission} : ~a.ok /\ kv' = a.kv
  /\ step' = [step EXCEPT !.phase = "output"]
  /\ UNCHANGED <<conf, reqs, running, waiting, prev, ended, flight, device>>

EndWaiting ==
  /\ step.phase = "waiting"
  /\ ~InWaitingLoop
  /\ step' = [step EXCEPT !.phase = "output"]
  /\ UNCHANGED <<conf, reqs, running, waiting, kv, prev, ended, flight, device>>

\* take_mamba_source_block_refs, for the requests of the step.
SourceRefs ==
  LET moved == Among(step.order, {r \in Req : SourceRef(kv, r).block # Null})
  IN  [k \in DOMAIN moved |-> SourceRef(kv, moved[k])]

\* The scheduler output, and _update_after_schedule.
Emit ==
  /\ step.phase = "output"
  /\ flight' = Append(flight,
       [order |-> step.order, msg |-> step.msg, preempted |-> step.preempted,
        ended |-> ended, fresh |-> ToSet(kv.fresh), copies |-> kv.copies,
        refs |-> SourceRefs, ran |-> FALSE])
  /\ kv' = [TakeSourceRefs(kv) EXCEPT
             !.fresh = <<>>, !.copies = <<>>,
             !.pool.raised = @ \/ \E r \in prev : step.msg[r].kind = "resumed"]
  /\ prev' = ToSet(step.order)
  /\ reqs' = [r \in Req |-> [reqs[r] EXCEPT !.computed = @ + step.msg[r].n]]
  /\ ended' = {}
  /\ step' = Idle
  /\ UNCHANGED <<conf, running, waiting, device>>

-----------------------------------------------------------------------------
(* The worker executes an output.                                          *)

Scheduled(out) == ToSet(out.order)

Tables_bug(out, r) ==  \* a resumed request's table is extended
  LET m == out.msg[r]
      w == worker[r]
  IN  IF m.kind = None THEN [attn |-> w.attn, mamba |-> w.mamba]
      ELSE [attn |-> w.attn \o m.attn, mamba |-> w.mamba \o m.mamba]

\* _update_states: block tables; _copy_partial_kv_cache_blocks, after zeroing.
Tables(out, r) ==
  LET m == out.msg[r]
      w == worker[r]
  IN  IF m.kind = "running"
      THEN [attn |-> w.attn \o m.attn, mamba |-> w.mamba \o m.mamba]
      ELSE IF m.kind = None THEN [attn |-> w.attn, mamba |-> w.mamba]
      ELSE [attn |-> m.attn, mamba |-> m.mamba]

\* A copy of a part of a kernel block is passed over.
CopyPartial(m, c) ==
  IF c.ntok % KernelBlock # 0 THEN m
  ELSE [m EXCEPT ![c.dst] = [i \in Slots |-> IF i < c.ntok THEN m[c.src][i] ELSE @[i]]]

Prepared_bug(out) ==  \* zeroed after the copies
  LET copied == FoldLeft(CopyPartial, mem, out.copies)
  IN  [b \in Block |-> IF b \in out.fresh THEN Filled(Zero) ELSE copied[b]]

Prepared(out) ==
  FoldLeft(CopyPartial,
           [b \in Block |-> IF b \in out.fresh THEN Filled(Zero) ELSE mem[b]],
           out.copies)

\* preprocess_mamba: where the state of r is, and where this step needs it.
Forgotten_bug(out) == out.ended  \* the state of a preempted request is kept

Forgotten(out) ==
  out.ended \cup out.preempted \cup {r \in Req : out.msg[r].kind = "resumed"}

StateAt(tables, i) == [idx |-> i, block |-> tables.mamba[i + 1]]

PrevState(out, r) ==
  LET i == (out.msg[r].start - 1) \div H
  IN  IF worker[r].state # None /\ r \notin Forgotten(out) THEN worker[r].state
      ELSE IF i < 0 THEN None ELSE StateAt(Tables(out, r), i)

CurrState(out, r) ==
  StateAt(Tables(out, r), (out.msg[r].start + out.msg[r].n - 1) \div H)

CopiesState(out, r) ==
  LET p == PrevState(out, r)
      c == CurrState(out, r)
  IN  p # None /\ p.idx # c.idx /\ p.block # c.block

\* do_mamba_copy_block: all the copies of the step at once.
WithStates(out) ==
  LET from == Prepared(out)
      into(r) == CurrState(out, r).block
      dsts == {into(r) : r \in {q \in Scheduled(out) : CopiesState(out, q)}}
  IN  [b \in Block |->
         IF b \in dsts
         THEN Content(from, PrevState(out, CHOOSE r \in Scheduled(out) :
                              CopiesState(out, r) /\ into(r) = b).block)
         ELSE from[b]]

\* The forward pass of r stores its tokens' KV, labelled by x, and its state.
Forward(out, r, m, good) ==
  LET t     == Tables(out, r)
      from  == out.msg[r].start
      upto  == from + out.msg[r].n
      label(x) == IF good THEN x ELSE Taint
      put(u, p) == LET b == t.attn[(p - 1) \div A + 1]
                   IN  Store(u, b, [Content(u, b) EXCEPT ![(p - 1) % A] = label(AttnHash(r, p))])
  IN  Store(FoldLeft(put, m, [k \in 1 .. upto - from |-> from + k]),
            CurrState(out, r).block, Filled(label(MambaHash(r, upto))))

\* What r reads: the KV of the tokens before, those of this step included, and
\* the state after them.
ReadsOf(out, r, states, stored) ==
  LET t    == Tables(out, r)
      from == out.msg[r].start
  IN  {<<AttnHash(r, p), Content(stored, t.attn[(p - 1) \div A + 1])[(p - 1) % A]>> :
         p \in 1 .. from}
      \cup (IF from = 0 THEN {}
            ELSE {<<MambaHash(r, from), Content(states, CurrState(out, r).block)[0]>>})

NextRun == CHOOSE k \in DOMAIN flight : ~flight[k].ran /\ \A j \in 1 .. k - 1 : flight[j].ran

Execute ==
  /\ \E k \in DOMAIN flight : ~flight[k].ran
  /\ LET k      == NextRun
         out    == flight[k]
         states == WithStates(out)
         stored == FoldLeft(LAMBDA m, r : Forward(out, r, m, TRUE), states, out.order)
         reads(r) == ReadsOf(out, r, states, stored)
         good(r) == \A x \in reads(r) : x[1] = x[2]
     IN  /\ flight' = [flight EXCEPT ![k].ran = TRUE]
         /\ mem' = FoldLeft(LAMBDA m, r : Forward(out, r, m, good(r)), states, out.order)
         /\ misread' = \/ misread
                       \/ \E r \in Scheduled(out) : \E x \in reads(r) :
                            x[2] \notin {x[1], Taint}
         /\ worker' = [r \in Req |->
              [attn  |-> Tables(out, r).attn,
               mamba |-> Tables(out, r).mamba,
               state |-> IF r \in Scheduled(out) THEN CurrState(out, r)
                         ELSE IF out.order # <<>> /\ r \in Forgotten(out) THEN None
                         ELSE worker[r].state]]
  /\ UNCHANGED <<conf, sched>>

-----------------------------------------------------------------------------
(* update_from_output: a request that has computed all its tokens gets one *)
(* more, and stops at its limit.                                           *)

Sampled_bug(out) ==  \* tokens sampled behind a partial prefill count
  Among(out.order, {r \in Req : reqs[r].status # "finished"})

Sampled(out) ==
  Among(out.order, {r \in Req : out.msg[r].last /\ reqs[r].status # "finished"})

\* release_mamba_source_block_refs.
ReleaseRefs(c, refs) ==
  LET released[k \in 0 .. Len(refs)] ==
        IF k = 0 THEN c
        ELSE ReleaseSourceRef(released[k - 1], refs[k].req, refs[k].index)
  IN  released[Len(refs)]

Update ==
  /\ step.phase = "idle"
  /\ flight # <<>> /\ Head(flight).ran
  /\ LET out   == Head(flight)
         got   == Sampled(out)
         stops == Among(got, {r \in Req : reqs[r].ntok + 1 >= Prompt[r] + MaxOut[r]})
     IN  /\ kv' = FreeAll(ReleaseRefs(kv, out.refs), stops)
         /\ reqs' = [r \in Req |->
              [reqs[r] EXCEPT
                 !.ntok   = IF Contains(got, r) THEN @ + 1 ELSE @,
                 !.status = IF Contains(stops, r) THEN "finished" ELSE @]]
         /\ running' = Among(running, Req \ ToSet(stops))
         /\ waiting' = Among(waiting, Req \ ToSet(stops))
         /\ ended' = ended \cup ToSet(stops)
  /\ flight' = Tail(flight)
  /\ UNCHANGED <<conf, prev, step, device>>

-----------------------------------------------------------------------------

Engines == \/ Begin \/ Pick \/ ScheduleRunning \/ Preempt \/ EndRunning
           \/ Admit \/ HoldBack \/ EndWaiting \/ Emit \/ Execute \/ Update

\* The engine core has work.
Busy == \/ step.phase # "idle" \/ flight # <<>>
        \/ running # <<>> \/ waiting # <<>> \/ ended # {}

\* The end of a run; any other state without a next one is a deadlock.
AllEnded == /\ ~Busy /\ \A r \in conf.clients : reqs[r].status = "finished"
            /\ UNCHANGED vars

Next == \/ \E r \in Req : Arrive(r)
        \/ \E r \in Req : Abort(r)
        \/ \E force \in BOOLEAN : Reset(force)
        \/ Engines
        \/ AllEnded

Spec == Init /\ [][Next]_vars

\* The engine core runs its loop as long as there is work.  This is
\* WF_vars(Engines) written out, for TLC evaluates ENABLED Engines far too slowly:
\* without a deadlock Engines is enabled when the engine is Busy, and its steps are
\* those that change step or flight.

Moves == <<step, flight>>' # <<step, flight>>

FairSpec == Spec /\ ([]<>~Busy \/ []<><<Moves>>_vars)

-----------------------------------------------------------------------------

\* The shape of the state: a request is in the list that its status says, and in
\* no other.
TypeOK ==
  /\ reqs \in [Req -> [status : {"absent", "waiting", "running", "preempted", "finished"},
                       computed : Nat, ntok : Nat]]
  /\ \A r \in Req : /\ Contains(running, r) <=> reqs[r].status = "running"
                    /\ Contains(waiting, r) <=> reqs[r].status \in {"waiting", "preempted"}
  /\ Len(flight) <= Depth

\* allocate_slots checks the free blocks against an estimate first; what it then
\* takes never exceeds it, no block in use is handed out, and no block is
\* cached under a second hash: none of the pool's errors and assertions fires.
NoException == ~kv.pool.raised

Groups == {"attn", "mamba"}

\* The blocks that group g keeps for r, pins included.
Kept(g, r) == IF g = "attn" THEN kv.attn[r].blocks \o kv.attn[r].pinned
              ELSE kv.mamba[r].blocks

\* How often tables and pins name b.
References(b) ==
  Cardinality(UNION {{x} \X {i \in DOMAIN Kept(x[1], x[2]) : Kept(x[1], x[2])[i] = b} :
                       x \in Groups \X Req})

\* A block's count is the number of table and pin entries that name it, over
\* all requests and both groups, and the free queue is exactly the unused
\* blocks, each once: nothing leaks, and nothing is freed twice.
RefsExact ==
  /\ \A b \in conf.blocks : /\ kv.pool.ref[b] = References(b)
                             /\ Contains(kv.pool.queue, b) <=> References(b) = 0
  /\ IsInjective(kv.pool.queue)

\* Lists, statuses, tables, counts and the free queue account for one another, and
\* no assertion fails, whatever was preempted, aborted, resumed and reset.
Accounted == TypeOK /\ NoException /\ RefsExact

\* No forward pass ever reads KV or a Mamba state of other tokens than those of
\* its own prefix, stale or zeroed data included, whatever was cached, copied,
\* evicted, preempted or aborted before.  (States computed from the null block
\* are the subject of AgreedHit.)
ReadsOwnPrefix == ~misread /\ mem \in [Block -> [Slots -> Hash \cup {Zero, Taint}]]

Drained == step.phase = "idle" /\ \A k \in DOMAIN flight : flight[k].ran

Holds(b, last, h) == mem[b][last] \in {h, Taint}

\* Once every output has been executed, each block that a lookup can return
\* holds the data of the prefix it is returned for.  (Under the priority policy
\* it need not: a victim's blocks stay cached when the step has not computed them.)
CachedContent ==
  Drained /\ Policy = "fcfs" => \A h \in Hash :
    /\ \A b \in ToSet(kv.pool.cached[h]) : Holds(b, A - 1, h)
    /\ LET e == kv.pool.partial[h] IN e # None => Holds(e.block, e.valid - 1, h)

\* Within a step no block is both the source and the destination of copies, or
\* zeroed and read by a copy: the copies of a step can run in any order.
CopiesIndependent ==
  \A k \in DOMAIN flight :
    LET out  == flight[k]
        srcs == {c.src : c \in ToSet(out.copies)}
        dsts == {c.dst : c \in ToSet(out.copies)}
    IN  /\ srcs \cap (dsts \cup out.fresh) = {}
        /\ dsts \subseteq out.fresh

\* The two groups agree on a hit: a request that starts behind a cached prefix
\* has the Mamba state of that prefix.
AgreedHit ==
  \A r \in Req : step.msg[r].start > 0 /\ step.msg[r].kind \in {"new", "resumed"}
    => step.msg[r].mamba[step.msg[r].start \div H] # Null

\* A token is appended at the position it was sampled for: no token of the
\* answer is computed twice, or from an answer that has changed since, after a
\* forced reset neither as long as an answer is one token.
SampledInPlace ==
  [][\A r \in Req : reqs'[r].ntok = reqs[r].ntok + 1
       => reqs[r].ntok = Head(flight).msg[r].start + Head(flight).msg[r].n]_vars

\* Every request that is not aborted is answered, unless clients go on resetting
\* the cache by force.
Answered ==
  \A r \in Req : ~conf.resets /\ reqs[r].status # "absent" ~> reqs[r].status = "finished"
=============================================================================
