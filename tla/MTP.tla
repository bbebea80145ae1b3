--------------------------------- MODULE MTP ---------------------------------
(***************************************************************************)
(* MTP drafts under asynchronous scheduling, with recurrent Mamba states.  *)
(*                                                                         *)
(* The scheduler makes the next output before it has seen how many drafts  *)
(* of the last one were accepted: it counts them all, and takes the        *)
(* rejected ones back in update_from_output.  The model runner             *)
(* (gpu_model_runner.py) knows more: it corrects the counts with what the  *)
(* GPU verified in the previous step, finds that step's tokens through     *)
(* their rows in the batch, which may have been reordered since, and       *)
(* chooses by them the Mamba state to start from.                          *)
(*                                                                         *)
(* Only the Mamba group's blocks are modelled; attention blocks run out    *)
(* whenever they like, which preempts the last running request.  The       *)
(* drafter always runs.  There is no prefix hit.  InputBatch and           *)
(* AsyncScheduler are not in the repository: what they do is taken from    *)
(* how the runner and the scheduler use them.                              *)
(***************************************************************************)
EXTENDS SpecStateOps

CONSTANTS Settings,    \* the settings checked: the clients, and K drafts in a step
          Budgets,     \* what the running loop may have to spend in a step
          MaxRunning,  \* max_num_running_reqs
          Depth,       \* outputs under way at once
          Aborts,      \* the requests that a client may abort
          Early        \* a result may be handled with room left in the queue

ASSUME SettingsAssumption ==
  \A c \in Settings : c.clients \subseteq Req /\ c.drafts \in Nat

VARIABLES
  conf,     \* the setting, which never changes
  reqs,     \* reqs[r]: the scheduler's request
  running,  \* the running list
  waiting,  \* the waiting queue
  kv,       \* pool and Mamba tables
  ended,    \* finished_req_ids: to be reported to the worker
  flight,   \* outputs not yet passed to update_from_output, oldest first
  worker,   \* the model runner
  mem,      \* what the state blocks contain
  truth,    \* truth[r]: tokens of r computed and verified so far
  seen      \* what the forward passes of the last step started from

sched == <<reqs, running, waiting, kv, ended>>
vars  == <<conf, sched, flight, worker, mem, truth, seen>>

-----------------------------------------------------------------------------

State(r, n) == [req |-> r, at |-> n]      \* the state of r after n tokens
Draft == State(None, 0)                   \* a state behind a rejected draft

NoMsg == [kind |-> None, computed |-> 0, n |-> 0, d |-> 0, out |-> 0, blocks |-> <<>>]

NoReq == [computed |-> 0,      \* num_computed_tokens
          out      |-> 0,      \* len(output_token_ids)
          known    |-> 0,      \* of these, the leading ones that are not -1
          drafts   |-> 0,      \* prev_num_draft_len
          blocks   |-> <<>>,   \* block_ids of the Mamba group
          state    |-> None]   \* mamba_state_idx

K == conf.drafts  \* num_speculative_tokens

Unseen == [due |-> 0, start |-> 0, corrected |-> 0, input |-> TRUE, state |-> None]

BlockIds == [i \in 1 .. Cardinality(Block) |->
              CHOOSE b \in Block : Cardinality({c \in Block : c <= b}) = i]

Init ==
  /\ conf \in Settings
  /\ reqs = [r \in Req |-> [status |-> "absent", computed |-> 0, ntok |-> Prompt[r],
                            ph |-> 0,      \* num_output_placeholders
                            spec |-> 0]]   \* len(spec_token_ids)
  /\ running = <<>>
  /\ waiting = <<>>
  /\ kv = [pool   |-> NewPool(BlockIds),
           mamba  |-> [r \in Req |-> NoMamba],
           drafts |-> K]
  /\ ended = {}
  /\ flight = <<>>
  /\ worker = [req  |-> [r \in Req |-> NoReq],
               batch |-> <<>>,               \* the requests of the last step, by row
               prev |-> [r \in Req |-> 0],  \* prev_req_id_to_index, 0 for none
               rows |-> <<>>]               \* what the last step left on the GPU
  /\ mem = [b \in Block |-> Draft]
  /\ truth = [r \in Req |-> 0]
  /\ seen = [r \in Req |-> Unseen]

-----------------------------------------------------------------------------
(* Clients.                                                                *)

Arrive(r) ==
  /\ r \in conf.clients /\ reqs[r].status = "absent"
  /\ reqs' = [reqs EXCEPT ![r].status = "waiting"]
  /\ waiting' = Append(waiting, r)
  /\ UNCHANGED <<conf, running, kv, ended, flight, worker, mem, truth, seen>>

\* finish_requests with _free_request.
Abort(r) ==
  /\ r \in Aborts
  /\ reqs[r].status \in {"waiting", "running", "preempted"}
  /\ reqs' = [reqs EXCEPT ![r].status = "finished"]
  /\ running' = Remove(running, r)
  /\ waiting' = Remove(waiting, r)
  /\ kv' = MambaFree(kv, r)
  /\ ended' = ended \cup {r}
  /\ UNCHANGED <<conf, flight, worker, mem, truth, seen>>

-----------------------------------------------------------------------------
(* schedule().  s is the step being made up: the blocks, the budget left,  *)
(* the requests served, and what the output says of each.                  *)

NewStep(free, budget) == [kv |-> NewStepStarts(free), budget |-> budget, order |-> <<>>,
                          msg |-> [r \in Req |-> NoMsg], ok |-> TRUE, full |-> FALSE]

Suffix(new, old) == SubSeq(new, Len(old) + 1, Len(new))

Due(r) == reqs[r].ntok + reqs[r].spec + reqs[r].ph - reqs[r].computed

\* The tokens under way are sure to reach max_tokens.
SureToStop(r) == /\ reqs[r].ph > 0
                 /\ reqs[r].computed + 2 - reqs[r].ph >= Prompt[r] + MaxOut[r]

Drafts(r, n) ==
  Max2(0, Min2(reqs[r].spec, n + reqs[r].computed - reqs[r].ntok - reqs[r].ph))

\* One turn of the running loop.
Serve(s, r) ==
  LET q   == reqs[r]
      n   == Min2(Due(r), s.budget)
      try == SpecSlots(s.kv, r, q.computed, q.computed + n)
  IN  IF SureToStop(r) \/ n <= 0 THEN s
      ELSE IF ~try.ok THEN [s EXCEPT !.ok = FALSE]
      ELSE [s EXCEPT !.kv = try.kv, !.budget = @ - n, !.order = Append(@, r),
                     !.msg[r] = [kind     |-> "running",
                                 computed |-> q.computed,
                                 n        |-> n,
                                 d        |-> Drafts(r, n),
                                 out      |-> q.ntok - Prompt[r] + q.ph,
                                 blocks   |-> Suffix(try.kv.mamba[r].blocks,
                                                     s.kv.mamba[r].blocks)]]

\* One turn of the waiting loop; the first request without room ends it.
Welcome(s, r) ==
  LET n   == Min2(reqs[r].ntok, s.budget)
      try == SpecSlots(s.kv, r, 0, n)
  IN  IF s.full \/ n = 0 \/ Len(running) + Len(s.new) = MaxRunning \/ ~try.ok
      THEN [s EXCEPT !.full = TRUE]
      ELSE [s EXCEPT !.kv = try.kv, !.budget = @ - n, !.order = Append(@, r),
                     !.new = Append(@, r),
                     !.msg[r] = [kind     |-> IF reqs[r].status = "waiting"
                                              THEN "new" ELSE "resumed",
                                 computed |-> 0, n |-> n, d |-> 0,
                                 out      |-> reqs[r].ntok - Prompt[r],
                                 blocks   |-> try.kv.mamba[r].blocks]]

(* A name with _bug is a faulty variant of the definition that follows it: *)
(* put in its place, it must break a property of a run.                    *)

Advanced_bug(q, m) ==  \* no placeholders for the drafts
  LET computed == q.computed + m.n
      sampling == computed >= q.ntok + q.ph
  IN  [q EXCEPT !.computed = computed,
                !.spec     = IF sampling THEN K ELSE 0,
                !.ph       = IF sampling THEN @ + 1 ELSE @]

\* _update_after_schedule, with that of AsyncScheduler: a step that samples
\* will yield one token and may yield its drafts, and more are drafted.
Advanced(q, m) ==
  LET computed == q.computed + m.n
      sampling == computed >= q.ntok + q.ph
  IN  [q EXCEPT !.computed = computed,
                !.spec     = IF sampling THEN K ELSE 0,
                !.ph       = IF sampling THEN @ + 1 + m.d ELSE @]

Emit(s, victims) ==
  /\ flight' = Append(flight,
       [order |-> s.order, msg |-> s.msg, ended |-> ended, preempted |-> ToSet(victims),
        refs  |-> SelectSeq([k \in DOMAIN s.order |-> SourceRef(s.kv, s.order[k])],
                            LAMBDA x : x.block # Null),
        ran   |-> FALSE,
        got   |-> [r \in Req |-> 0]])
  /\ kv' = TakeSourceRefs(s.kv)
  /\ running' = SelectSeq(running, LAMBDA r : ~Contains(victims, r)) \o s.new
  /\ waiting' = victims \o SelectSeq(waiting, LAMBDA r : ~Contains(s.new, r))
  /\ reqs' = [r \in Req |->
       IF Contains(victims, r)
       THEN [reqs[r] EXCEPT !.status = "preempted", !.computed = 0, !.spec = 0]
       ELSE IF Contains(s.order, r)
       THEN Advanced([reqs[r] EXCEPT !.status = "running"], s.msg[r])
       ELSE reqs[r]]
  /\ ended' = {}

\* The last k running requests are preempted, for want of attention blocks or
\* because the rest cannot be served without their blocks.
Schedule(budget, k) ==
  /\ Len(flight) < Depth
  /\ running # <<>> \/ waiting # <<>> \/ ended # {}
  /\ k <= Len(running)
  /\ LET kept    == SubSeq(running, 1, Len(running) - k)
         victims == SubSeq(running, Len(running) - k + 1, Len(running))
         free    == FoldLeft(MambaFree, kv, Reverse(victims))
     IN  \E s \in {FoldLeft(Serve, NewStep(free, budget), kept)} :
         /\ s.ok
         /\ \E t \in {FoldLeft(Welcome, [new |-> <<>>] @@ s,
                               IF k = 0 THEN waiting ELSE <<>>)} :
              Emit(t, victims)
  /\ UNCHANGED <<conf, worker, mem, truth, seen>>

-----------------------------------------------------------------------------
(* The model runner.  A turn is what execute_model makes of one request of *)
(* an output, up to the forward pass.                                      *)

Window(blocks, i) == IF i < 0 THEN <<>> ELSE SubSeq(blocks, i + 1, Min2(i + 1 + K, Len(blocks)))

\* The request is still in the batch, so it was served in the last step.
Stays(r, m) == m.kind = "running" /\ Contains(worker.batch, r)

\* The drafts of the last step, taken for accepted until they are corrected.
Optimistic(r, m) == IF Stays(r, m) THEN worker.req[r].drafts ELSE 0

Updated_bug(r, m) ==  \* the tokens of a resumed request are not recovered
  LET q   == worker.req[r]
      out == IF Stays(r, m) THEN Min2(q.out + Optimistic(r, m), m.out) ELSE m.out
  IN  [q EXCEPT !.computed = m.computed,
                !.out      = out,
                !.drafts   = m.d,
                !.blocks   = IF m.kind = "running" THEN @ \o m.blocks ELSE m.blocks,
                !.state    = IF m.kind = "running" THEN @ ELSE None]

\* _update_states.  A request that comes anew is sent all its tokens.
Updated(r, m) ==
  LET q   == worker.req[r]
      out == IF Stays(r, m) THEN Min2(q.out + Optimistic(r, m), m.out) ELSE m.out
  IN  [q EXCEPT !.computed = m.computed,
                !.out      = out,
                !.known    = IF Stays(r, m) THEN Min2(@, out) ELSE out,
                !.drafts   = m.d,
                !.blocks   = IF m.kind = "running" THEN @ \o m.blocks ELSE m.blocks,
                !.state    = IF m.kind = "running" THEN @ ELSE None]

Corrects(r, m) == worker.prev[r] > 0 /\ Optimistic(r, m) > 0

Start_bug(r, m) == m.computed  \* rejected drafts stay counted

\* update_num_computed_tokens_for_batch_change, on the GPU.
Start(r, m) ==
  LET row == worker.rows[worker.prev[r]]
  IN  IF Corrects(r, m) THEN row.start + row.count ELSE m.computed

Corrected_bug(r, m) ==  \* the sampled token taken for an accepted draft
  LET row == worker.rows[worker.prev[r]]
  IN  IF Corrects(r, m) THEN m.computed - (Optimistic(r, m) - row.count)
      ELSE m.computed

\* correct_spec_decode_token_counts, for what preprocess_mamba reads.
Corrected(r, m) ==
  LET row == worker.rows[worker.prev[r]]
  IN  IF Corrects(r, m) THEN m.computed - (Optimistic(r, m) - (row.count - 1))
      ELSE m.computed

Accepted_bug(r) == 1  \* not carried over from the last step

\* num_accepted_tokens of the last step, which picks one of the states.
Accepted(r) == IF worker.prev[r] > 0 THEN worker.rows[worker.prev[r]].acc ELSE 1

\* collect_mamba_copy_meta: the source is looked up in the window of the step
\* that wrote it.
Source(old, blocks, acc) ==
  IF acc <= Len(old.window) THEN old.window[acc] ELSE blocks[old.idx + acc]

\* preprocess_mamba: when the running state enters another block, the accepted
\* state of the last step is copied to it.
Turn(r, m) ==
  LET q      == Updated(r, m)
      base   == Corrected(r, m)
      acc    == Accepted(r)
      idx    == CeilDiv(base + m.n, H) - 1
      old    == IF q.state # None THEN q.state
                ELSE [idx |-> (base - 1) \div H, window |-> Window(q.blocks, (base - 1) \div H)]
      new    == [idx |-> idx, window |-> Window(q.blocks, idx)]
      moves  == old.idx \notin {-1, idx} /\ old.window # new.window
  IN  [r      |-> r,
       m      |-> m,
       q      |-> [q EXCEPT !.computed = base, !.state = new],
       due    |-> IF m.kind = "running" THEN truth[r] ELSE 0,
       start  |-> Start(r, m),
       base   |-> base,
       copies |-> IF moves THEN {[from |-> Source(old, q.blocks, acc), to |-> new.window[1]]}
                  ELSE {},
       acc    |-> IF moves THEN 1 ELSE acc,
       drops  |-> m.computed + m.n < Prompt[r] + q.out]  \* discard_request_mask

Content(c, b) == IF b \in Block THEN c[b] ELSE Draft

\* do_mamba_copy_block reads every source before it writes.
Copy(c, copies) ==
  [b \in Block |-> IF \E x \in copies : x.to = b
                   THEN Content(c, (CHOOSE x \in copies : x.to = b).from) ELSE c[b]]

\* The state that the forward pass starts from.
StateRead(c, t) ==
  IF t.acc \in DOMAIN t.q.state.window THEN Content(c, t.q.state.window[t.acc]) ELSE Draft

\* The pass leaves one state for the sampled token and for each draft; those
\* behind a rejected draft are of no use, as is one that two requests write.
Forward(c, turns, a) ==
  LET w    == {<<t, j>> \in turns \X (0 .. K) : j <= t.m.d}
      to(x) == x[1].q.state.window[x[2] + 1]
      leaves(x) == IF x[2] > a[x[1].r] THEN Draft
                   ELSE State(x[1].r, x[1].due + x[1].m.n - x[1].m.d + x[2])
  IN  [b \in Block |-> LET here == {x \in w : to(x) = b}
                       IN  CASE Cardinality(here) = 0 -> c[b]
                             [] Cardinality(here) = 1 -> leaves(CHOOSE x \in here : TRUE)
                             [] OTHER -> Draft]

\* postprocess_mamba: a state that falls on the end of a block goes to it.
Reached(t, a)  == t.base + t.m.n - t.m.d + a[t.r]
BlockEnd(t, a) == H * (Reached(t, a) \div H)
Settles(t, a)  == BlockEnd(t, a) >= t.base + t.m.n - t.m.d
Settled(t, a)  ==
  [from |-> t.q.blocks[t.q.state.idx + 1 + BlockEnd(t, a) - (t.base + t.m.n - t.m.d)],
   to   |-> t.q.blocks[BlockEnd(t, a) \div H]]

-----------------------------------------------------------------------------
(* The inputs.  Of a request in the last step only the GPU knows the token *)
(* it sampled; it is found through the row the request had then.           *)

Row(batch, r) == SelectInSeq(batch, LAMBDA x : x = r)

SampledRow_bug(batch, shortcut, t) == Row(batch, t.r)  \* the row it has now

\* Where prev_sampled_token_ids is read for a request: a slice of it is copied
\* if no request has moved and none has drafts, otherwise it is scattered.
SampledRow(batch, shortcut, t) ==
  IF shortcut THEN Row(batch, t.r) ELSE worker.prev[t.r]

Shortcut(batch, turn) ==
  LET flat(i) == SumFunctionOnSet([j \in DOMAIN batch |-> turn[batch[j]].m.n], 1 .. i)
      common  == {i \in DOMAIN batch : worker.prev[batch[i]] > 0}
  IN  common # {} /\ (\A i \in common : worker.prev[batch[i]] = flat(i))
        /\ Max({flat(i) : i \in common}) = Cardinality(common)

\* The tokens that are not drafts are those of the positions computed.
InputIsRight(batch, shortcut, t) ==
  LET last == t.due + t.m.n - t.m.d - 1
      onGPU == worker.prev[t.r] > 0
  IN  /\ \A p \in t.due .. (IF onGPU THEN last - 1 ELSE last) : p < Prompt[t.r] + t.q.known
      /\ onGPU => worker.rows[SampledRow(batch, shortcut, t)].token = <<t.r, last>>

Seen(batch, shortcut, c, t) ==
  [due |-> t.due, start |-> t.start, corrected |-> t.base,
   input |-> InputIsRight(batch, shortcut, t),
   state |-> StateRead(c, t)]

-----------------------------------------------------------------------------

Unrun == {i \in DOMAIN flight : ~flight[i].ran}

\* An output without tokens only takes requests out of the batch.
ExecuteNone ==
  /\ Unrun # {}
  /\ LET i == Min(Unrun)
     IN  /\ flight[i].order = <<>>
         /\ flight' = [flight EXCEPT ![i].ran = TRUE]
  /\ worker' = [worker EXCEPT !.batch = <<>>, !.prev = [r \in Req |-> 0]]
  /\ seen' = [r \in Req |-> Unseen]
  /\ UNCHANGED <<conf, sched, mem, truth>>

\* execute_model and sample_tokens for an output whose requests were put in the
\* order batch, with a[r] drafts accepted.
Execute(i, batch, a) ==
  \E turn \in {[r \in ToSet(batch) |-> Turn(r, flight[i].msg[r])]} :
    LET turns == Range(turn)
        fast  == Shortcut(batch, turn)
        lost  == flight[i].ended \cup flight[i].preempted
        got(t) == IF t.drops THEN 0 ELSE a[t.r] + 1
        done(t) == [t.q EXCEPT !.out = IF t.drops THEN @ ELSE @ + 1]
        row(t) == [start |-> t.start,
                   count |-> got(t),
                   token |-> <<t.r, t.due + t.m.n - t.m.d + a[t.r]>>,
                   acc   |-> IF Settles(t, a) /\ BlockEnd(t, a) = H * (t.q.state.idx + 1)
                             THEN 1 ELSE a[t.r] + 1]
    IN  \E c \in {Copy(mem, UNION {t.copies : t \in turns})} :
        /\ mem' = Copy(Forward(c, turns, a), {Settled(t, a) : t \in {u \in turns : Settles(u, a)}})
        /\ seen' = [r \in Req |-> IF r \in DOMAIN turn THEN Seen(batch, fast, c, turn[r])
                                  ELSE Unseen]
        /\ flight' = [flight EXCEPT ![i].ran = TRUE,
                         ![i].got = [r \in Req |-> IF r \in DOMAIN turn THEN got(turn[r]) ELSE 0]]
        /\ worker' =
             [req   |-> [r \in Req |->
                IF r \in DOMAIN turn THEN done(turn[r])
                ELSE IF r \in lost THEN [worker.req[r] EXCEPT !.state = None]
                ELSE worker.req[r]],
              batch |-> batch,
              prev  |-> [r \in Req |-> IF r \in DOMAIN turn /\ ~turn[r].drops
                                      THEN Row(batch, r) ELSE 0],
              rows  |-> [k \in DOMAIN batch |-> row(turn[batch[k]])]]
        /\ truth' = [r \in Req |-> IF r \in DOMAIN turn
                                   THEN turn[r].due + turn[r].m.n - turn[r].m.d + a[r]
                                   ELSE truth[r]]
        /\ UNCHANGED <<conf, sched>>

\* The batch is what add_request, condense and _may_reorder_batch make of it,
\* in any order; the verification of the drafts has any result.
Step ==
  /\ Unrun # {}
  /\ LET i  == Min(Unrun)
         rs == ToSet(flight[i].order)
     IN  /\ rs # {}
         /\ \E batch \in SetToSeqs(rs), a \in [rs -> 0 .. K] :
              /\ \A r \in rs : a[r] <= flight[i].msg[r].d
              /\ Execute(i, batch, a)

-----------------------------------------------------------------------------
(* update_from_output.                                                     *)

Reconcile_bug(q, r, m, got) ==  \* num_computed_tokens keeps the rejected drafts
  LET new  == Min2(got, Prompt[r] + MaxOut[r] - q.ntok)
      fail == IF m.d > 0 /\ got > 0 THEN m.d - (got - 1) ELSE 0
  IN  [q EXCEPT !.ph = Max2(@ - fail, 0) - new, !.ntok = @ + new]

\* The rejected drafts are taken back, and the tokens appended up to
\* max_tokens; a placeholder goes for each.
Reconcile(q, r, m, got) ==
  LET new  == Min2(got, Prompt[r] + MaxOut[r] - q.ntok)
      fail == IF m.d > 0 /\ got > 0 THEN m.d - (got - 1) ELSE 0
  IN  [q EXCEPT !.computed = IF @ > 0 THEN @ - fail ELSE @,
                !.ph       = (IF @ > 0 THEN @ - fail ELSE @) - new,
                !.ntok     = @ + new]

\* EngineCore makes outputs up to Depth before it waits for a result.
Awaits == \/ Early \/ Len(flight) = Depth
          \/ Last(flight).order = <<>> \/ running \o waiting = <<>>

Update ==
  /\ flight # <<>> /\ Head(flight).ran /\ Awaits
  /\ LET out  == Head(flight)
         live == {r \in ToSet(out.order) : reqs[r].status \in {"running", "preempted"}}
         next == [r \in Req |-> IF r \in live THEN Reconcile(reqs[r], r, out.msg[r], out.got[r])
                                ELSE reqs[r]]
         stop == {r \in live : out.got[r] > 0 /\ next[r].ntok = Prompt[r] + MaxOut[r]}
         free == FoldLeft(LAMBDA c, ref : ReleaseSourceRef(c, ref.req, ref.index), kv, out.refs)
     IN  /\ reqs' = [r \in Req |-> IF r \in stop THEN [next[r] EXCEPT !.status = "finished"]
                                   ELSE next[r]]
         /\ kv' = FoldLeft(MambaFree, free, SelectSeq(out.order, LAMBDA r : r \in stop))
         /\ running' = SelectSeq(running, LAMBDA r : r \notin stop)
         /\ waiting' = SelectSeq(waiting, LAMBDA r : r \notin stop)
         /\ ended' = ended \cup stop
  /\ flight' = Tail(flight)
  /\ UNCHANGED <<conf, worker, mem, truth, seen>>

Next ==
  \/ \E r \in Req : Arrive(r) \/ Abort(r)
  \/ \E budget \in Budgets, k \in 0 .. MaxRunning : Schedule(budget, k)
  \/ ExecuteNone
  \/ Step
  \/ Update

Spec == Init /\ [][Next]_vars

-----------------------------------------------------------------------------

\* Counts that are optimistic, and taken back when drafts are rejected, never turn
\* negative, and no request passes its limit of tokens.
TypeOK ==
  /\ \A r \in Req : reqs[r].computed >= 0 /\ reqs[r].ph >= 0 /\ reqs[r].spec \in 0 .. K
  /\ \A r \in Req : Prompt[r] <= reqs[r].ntok /\ reqs[r].ntok <= Prompt[r] + MaxOut[r]
  /\ ToSet(running) \cap ToSet(waiting) = {} /\ Len(running) <= MaxRunning
  /\ Len(flight) <= Depth

\* The forward pass takes every request up where its verified tokens end: both
\* the GPU's count of computed tokens and the CPU's, by which the Mamba states
\* are chosen, are freed of the drafts rejected in the step before.
PositionsRight ==
  \A r \in Req : seen[r].start = seen[r].due /\ seen[r].corrected = seen[r].due

\* The token fed at the first position that is not known to the CPU is the one
\* the request itself sampled last, wherever its row was and is now.
InputsRight == \A r \in Req : seen[r].input

\* The recurrent state a request starts from is its own, after exactly the
\* verified tokens: the accepted one of the last step's states, not that of a
\* rejected draft, nor a block given to another request meanwhile.
StateRight ==
  \A r \in Req : seen[r].due > 0 => seen[r].state = State(r, seen[r].due)

\* With one draft in a step, StateRight always holds.
StateRightOfOne == K = 1 => StateRight

\* When no output is under way, the scheduler has taken back all it assumed:
\* it counts the tokens that were verified and no placeholder is left.
Reconciled ==
  flight = <<>> =>
    \A r \in ToSet(running) : reqs[r].computed = truth[r] /\ reqs[r].ph = 0

\* No assertion of the Mamba manager or the block pool fails.
NoException == ~kv.pool.raised

\* A request is taken up at the right position and with the right token.
StepsRight == PositionsRight /\ InputsRight

\* The optimistic counts of the scheduler, and the tables it makes of them, stay
\* within bounds, fail no assertion, and end up with what was verified.
Accounted == TypeOK /\ NoException /\ Reconciled
=============================================================================
