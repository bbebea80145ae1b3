---------------------------- MODULE PrefillBudget ----------------------------
(***************************************************************************)
(* How schedule() shares the tokens of a step between running and waiting  *)
(* requests when draft tokens are used (MTP) and prefills are split at     *)
(* Mamba checkpoints.  There are always enough KV blocks here: what a      *)
(* request waits for is tokens of the budget.                              *)
(***************************************************************************)
EXTENDS Integers, Sequences, FiniteSets

CONSTANTS Req,          \* request ids
          Prompt,       \* Prompt[r]: num_prompt_tokens
          MaxOut,       \* sampling_params.max_tokens
          Drafts,       \* num_spec_tokens
          Budget,       \* max_num_scheduled_tokens
          MaxRunning,   \* max_num_running_reqs
          BlockSize,    \* cache_config.block_size
          AttnBlock,    \* block size of the full-attention group
          StateBlock,   \* mamba_block_size
          CoarseCount,  \* mamba_latest_coarse_checkpoints
          CoarseGap,    \* mamba_latest_coarse_min_gap
          Threshold     \* long_prefill_token_threshold, 0 if there is none

ASSUME BudgetAssumption ==
  /\ Prompt \in [Req -> Nat \ {0}] /\ MaxOut \in Nat \ {0} /\ Drafts \in Nat
  /\ Budget \in Nat \ {0} /\ MaxRunning \in Nat \ {0}
  /\ StateBlock \in Nat \ {0} /\ BlockSize \in Nat \ {0} /\ AttnBlock \in Nat \ {0}
  /\ AttnBlock % StateBlock = 0
  /\ CoarseCount \in Nat /\ CoarseGap \in Nat /\ Threshold \in Nat

\* VllmConfig refuses to start otherwise.
ASSUME StartupAssumption ==
  /\ StateBlock <= Budget
  /\ Threshold > 0 => Threshold >= StateBlock

VARIABLES
  req,      \* req[r]: status, num_computed_tokens, num_tokens, number of spec_token_ids
  running,  \* the running list
  waiting,  \* the waiting queue
  step,     \* the call of schedule() in progress, then its output
  stops     \* stops[r]: where the chunks of r started and ended

vars == <<req, running, waiting, step, stops>>

Min2(a, b) == IF a < b THEN a ELSE b
Max2(a, b) == IF a > b THEN a ELSE b

-----------------------------------------------------------------------------
(* The aligned split of a prefill.                                         *)

LastCheckpoint(r) == Max2(Prompt[r] - (Prompt[r] % StateBlock) - StateBlock, 0)

\* _latest_mamba_coarse_checkpoints: the last ones that are far enough.
CoarseCheckpoints(r) ==
  LET last == LastCheckpoint(r)
      far  == {c \in 1 .. last : c % AttnBlock = 0 /\ last - c >= CoarseGap}
  IN  {c \in far : Cardinality({d \in far : d > c}) < CoarseCount}

Checkpoints(r) == {LastCheckpoint(r)} \cup CoarseCheckpoints(r)

\* A name with _bug is a faulty variant of the definition that follows it: put
\* in its place, it must break a property of a run.

AlignedSplit_bugLast(r, computed, n) ==  \* the coarse checkpoints are passed over
  LET last == LastCheckpoint(r)
  IN  IF computed >= Max2(Prompt[r], req[r].ntok - 1) THEN n
      ELSE IF computed < last /\ last < computed + n THEN last - computed
      ELSE IF computed + n < last THEN n - (n % StateBlock)
      ELSE n

AlignedSplit_bugAlign(r, computed, n) ==  \* a chunk may end anywhere
  LET ahead == {c \in Checkpoints(r) : computed < c /\ c < computed + n}
  IN  IF ahead = {} THEN n
      ELSE (CHOOSE c \in ahead : \A d \in ahead : c <= d) - computed

AlignedSplit_bugAll(r, computed, n) ==  \* whole blocks to the very end
  IF computed >= Max2(Prompt[r], req[r].ntok - 1) THEN n ELSE n - (n % StateBlock)

\* _mamba_block_aligned_split: a prefill stops at the next checkpoint, and
\* before the last checkpoint it advances by whole blocks.
AlignedSplit(r, computed, n) ==
  LET ahead == {c \in Checkpoints(r) : computed < c /\ c < computed + n}
  IN  IF computed >= Max2(Prompt[r], req[r].ntok - 1) THEN n
      ELSE IF ahead # {} THEN (CHOOSE c \in ahead : \A d \in ahead : c <= d) - computed
      ELSE IF computed + n < LastCheckpoint(r) THEN n - (n % StateBlock)
      ELSE n

Capped(n) == IF 0 < Threshold /\ Threshold < n THEN Threshold ELSE n

-----------------------------------------------------------------------------

Idle == [phase |-> "idle", i |-> 0, budget |-> 0, forRunning |-> 0,
         got |-> [r \in Req |-> 0], admitted |-> {}]

Init == /\ req = [r \in Req |-> [status |-> "absent", computed |-> 0,
                                 ntok |-> Prompt[r], spec |-> 0]]
        /\ running = <<>>
        /\ waiting = <<>>
        /\ step = Idle
        /\ stops = [r \in Req |-> {}]

\* add_request.
Arrive(r) ==
  /\ step.phase = "idle"
  /\ req[r].status = "absent"
  /\ req' = [req EXCEPT ![r].status = "waiting"]
  /\ waiting' = Append(waiting, r)
  /\ UNCHANGED <<running, step, stops>>

-----------------------------------------------------------------------------
(* schedule().                                                             *)

Reserve_bug == 0  \* no reservation

\* _mtp_waiting_prefill_token_reserve, which MTP always uses here.
Reserve ==
  IF waiting = <<>> THEN 0
  ELSE Min2(Budget, BlockSize * IF Len(waiting) >= Max2(4, Len(running) \div 16) THEN 2 ELSE 1)

Begin ==
  /\ step.phase = "idle"
  /\ running # <<>> \/ waiting # <<>>
  /\ step' = [Idle EXCEPT !.phase = "running", !.i = 1, !.budget = Budget,
                          !.forRunning = Max2(0, Budget - Reserve)]
  /\ UNCHANGED <<req, running, waiting, stops>>

InRunningLoop == step.phase = "running" /\ step.i <= Len(running) /\ step.forRunning > 0

Wanted(r) == req[r].ntok + req[r].spec - req[r].computed

ScheduleRunning_bug(r) ==  \* bounded by the whole budget only
  /\ InRunningLoop
  /\ r = running[step.i]
  /\ LET n == AlignedSplit(r, req[r].computed, Min2(Capped(Wanted(r)), step.budget))
     IN  step' = [step EXCEPT !.i = @ + 1, !.got[r] = n,
                              !.budget = @ - n, !.forRunning = @ - n]
  /\ UNCHANGED <<req, running, waiting, stops>>

\* The next running request, passed over when the split leaves it nothing.
ScheduleRunning(r) ==
  /\ InRunningLoop
  /\ r = running[step.i] /\ req[r].status = "running"
  /\ LET n == AlignedSplit(r, req[r].computed,
                           Min2(Capped(Wanted(r)), Min2(step.budget, step.forRunning)))
     IN  step' = [step EXCEPT !.i = @ + 1, !.got[r] = n,
                              !.budget = @ - n, !.forRunning = @ - n]
  /\ UNCHANGED <<req, running, waiting, stops>>

EndRunning ==
  /\ step.phase = "running" /\ ~InRunningLoop
  /\ step' = [step EXCEPT !.phase = "waiting"]
  /\ UNCHANGED <<req, running, waiting, stops>>

InWaitingLoop == /\ step.phase = "waiting"
                 /\ waiting # <<>>
                 /\ step.budget > 0
                 /\ Len(running) < MaxRunning

\* Lookups in the prefix cache find a Mamba state at a block boundary, before
\* the last token.
Hits(r) == {n \in 0 .. Prompt[r] - 1 : n % StateBlock = 0}

Share(r, hit) == AlignedSplit(r, hit, Min2(Capped(req[r].ntok - hit), step.budget))

Admit(r, hit) ==
  /\ InWaitingLoop
  /\ r = Head(waiting)
  /\ LET n == Share(r, hit)
     IN  /\ n > 0
         /\ req' = [req EXCEPT ![r].status = "running", ![r].computed = hit]
         /\ running' = Append(running, r)
         /\ waiting' = Tail(waiting)
         /\ step' = [step EXCEPT !.got[r] = n, !.budget = @ - n,
                                 !.admitted = @ \cup {r}]
         /\ stops' = [stops EXCEPT ![r] = {hit}]

\* A request that cannot be admitted ends the waiting loop.
HoldBack(r, hit) ==
  /\ InWaitingLoop
  /\ r = Head(waiting)
  /\ Share(r, hit) = 0
  /\ step' = [step EXCEPT !.phase = "output"]
  /\ UNCHANGED <<req, running, waiting, stops>>

EndWaiting ==
  /\ step.phase = "waiting" /\ ~InWaitingLoop
  /\ step' = [step EXCEPT !.phase = "output"]
  /\ UNCHANGED <<req, running, waiting, stops>>

-----------------------------------------------------------------------------
(* The forward pass, and update_from_output.  The model accepts any number *)
(* of the drafts that were scheduled behind the last token of a request.   *)

Verified(r) == Max2(0, req[r].computed + step.got[r] - req[r].ntok)

Sampled(r) == step.got[r] > 0 /\ req[r].computed + step.got[r] >= req[r].ntok

Next1(r, accepted) ==
  LET q    == req[r]
      end  == Prompt[r] + MaxOut
      ntok == Min2(q.ntok + 1 + accepted, end)
  IN  IF ~Sampled(r) THEN [q EXCEPT !.computed = @ + step.got[r]]
      ELSE [status   |-> IF ntok = end THEN "finished" ELSE "running",
            computed |-> q.computed + step.got[r] - (Verified(r) - accepted),
            ntok     |-> ntok,
            spec     |-> Drafts]

Update(accepted) ==
  /\ step.phase = "output"
  /\ \A r \in Req : accepted[r] <= Verified(r)
  /\ req' = [r \in Req |-> Next1(r, accepted[r])]
  /\ running' = SelectSeq(running, LAMBDA r : req'[r].status = "running")
  /\ stops' = [r \in Req |-> IF step.got[r] = 0 THEN stops[r]
                             ELSE stops[r] \cup {req'[r].computed}]
  /\ step' = Idle
  /\ UNCHANGED waiting

-----------------------------------------------------------------------------

Engine == \/ Begin \/ EndRunning \/ EndWaiting
          \/ \E r \in Req : \/ ScheduleRunning(r)
                            \/ \E hit \in Hits(r) : Admit(r, hit) \/ HoldBack(r, hit)
          \/ \E accepted \in [Req -> 0 .. Drafts] : Update(accepted)

Next == (\E r \in Req : Arrive(r)) \/ Engine

Spec == Init /\ [][Next]_vars

\* The engine core runs its loop as long as there are requests.
FairSpec == Spec /\ WF_vars(Engine)

-----------------------------------------------------------------------------

\* A prefill ends a chunk at every checkpoint on its way: the Mamba state of a
\* checkpoint exists only at the end of a chunk.
CheckpointsKept ==
  \A r \in Req : \A c \in Checkpoints(r) :
    (\E s \in stops[r] : s <= c) /\ c < req[r].computed => c \in stops[r]

\* Up to the last checkpoint all chunks start and end at block boundaries.
ChunksAligned ==
  \A r \in Req : \A s \in stops[r] : s < LastCheckpoint(r) => s % StateBlock = 0

\* Running requests, with their drafts, never take so much that a step with a
\* free place in the running list admits none of the waiting requests.
AdmitsOne ==
  step.phase = "output" /\ waiting # <<>> /\ Len(running) < MaxRunning
    => step.admitted # {}

\* Every request is served, however the reservation and the split divide the
\* budget.
Served == \A r \in Req : req[r].status = "waiting" ~> req[r].status = "finished"
=============================================================================
