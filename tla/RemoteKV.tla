------------------------------ MODULE RemoteKV ------------------------------
(***************************************************************************)
(* Requests whose prefix is loaded from elsewhere: the scheduler's side of *)
(* KV connectors, over one full-attention group.  A load is synchronous,   *)
(* done by the worker ahead of the forward pass of the same step, or       *)
(* asynchronous: the request waits in WAITING_FOR_REMOTE_KVS, with its     *)
(* blocks allocated, until the worker reports the end of the load.  Either *)
(* may fail block by block.                                                *)
(*                                                                         *)
(* kv is what the blocks hold, slot by slot: <<text, position>> stands for *)
(* the key and value of the token at that position of a text, None for     *)
(* anything else.  Requests with equal texts share blocks.                 *)
(***************************************************************************)
EXTENDS BlockPoolOps, Queues, FiniteSetsExt, SequencesExt

CONSTANTS Req,         \* request ids
          BlockSize,   \* block_size
          Budget,      \* max_num_scheduled_tokens
          Settings     \* what the engine may be started with, and its surroundings

ASSUME RemoteAssumption ==
  /\ BlockSize \in Nat \ {0} /\ Budget \in Nat
  /\ IsFiniteSet(Req) /\ IsFiniteSet(Block)
  /\ \A c \in Settings :
       /\ c.prompt \in [Req -> Nat \ {0, 1}] /\ c.maxOut \in Nat \ {0} /\ c.threshold \in Nat
       /\ c.async \cap c.sync = {} /\ c.abortIn \subseteq {"idle", "output"}
       /\ \A r \in Req :  \* hashes for all blocks but of the last token
            {c.text[r]} \X (0 .. (c.prompt[r] + c.maxOut - 2) \div BlockSize) \subseteq Hash

VARIABLES
  conf,     \* one of the Settings, the same all the time
  req,      \* the requests
  kept,     \* self.requests: also the ended ones that wait for a transfer
  running, waiting, skipped,   \* the scheduler's queues
  finished, \* finished_req_ids: ended, and not yet in an output of schedule()
  recved,   \* finished_recving_kv_req_ids
  failed,   \* failed_recving_kv_req_ids
  pool,     \* the block pool
  kv,       \* what the blocks hold
  load,     \* connector: load[r].st, the blocks still expected to arrive and what
            \* they are to hold, and the blocks given up since the last report
  sends,    \* connector: the requests whose blocks are being sent, or have been since
            \* the last report
  step,     \* the step of the engine in progress
  wrong,    \* the requests given a token computed from something else than their text
  exc       \* an assertion failed

queues    == <<running, waiting, skipped, finished, recved, failed, kept>>
connector == <<load, sends>>
vars      == <<conf, req, queues, pool, kv, connector, step, wrong, exc>>

-----------------------------------------------------------------------------

Text        == conf.text         \* Text[r]: the tokens of r, as far as hashes tell
Prompt      == conf.prompt       \* Prompt[r]: num_prompt_tokens
MaxOut      == conf.maxOut       \* max_tokens
Threshold   == conf.threshold    \* long_prefill_token_threshold, 0 for none
MaxRunning  == conf.maxRunning   \* max_num_running_reqs
Async       == conf.async        \* the requests that the connector loads asynchronously
Sync        == conf.sync         \* the requests that it loads ahead of the forward pass
Senders     == conf.senders      \* the requests whose blocks it sends on when they end
Recompute   == conf.recompute    \* recompute_kv_load_failures
Whole       == conf.whole        \* the connector has either all of a prompt or nothing
ReserveFull == conf.reserveFull  \* scheduler_reserve_full_isl
Loses       == conf.loses        \* loads may fail
AbortIn     == conf.abortIn      \* the phases of a step in which clients abort
Again       == conf.again        \* the requests that clients repeat when they are over

NumBlocks(n)  == (n + BlockSize - 1) \div BlockSize
HashOf(r, k)  == <<Text[r], k>>          \* of the k-th block
Slot(r, pos)  == <<Text[r], pos>>
Holds(k, r, pos) ==
  k[req[r].blocks[(pos \div BlockSize) + 1]][pos % BlockSize] = Slot(r, pos)

(* A name with _bug is a faulty variant of the definition that follows it: *)
(* put in its place, it must break a property of a run.                    *)

Without_bug(queue, rs) == queue  \* ended requests stay in the queues

Without(queue, rs) == Among(queue, Req \ rs)

NoLoad == [st |-> "off", into |-> {}, lost |-> {}]
Absent(r) == [status |-> "absent", computed |-> 0, ntok |-> Prompt[r], blocks |-> <<>>,
              ncached |-> 0, preempted |-> FALSE]
Idle == [phase |-> "idle", i |-> 1, budget |-> 0, got |-> [r \in Req |-> 0], skip |-> <<>>,
         preempted |-> FALSE, sync |-> {}, invalid |-> {}, tainted |-> {}]

Init ==
  /\ conf \in Settings
  /\ req = [r \in Req |-> Absent(r)]
  /\ kept = {} /\ running = <<>> /\ waiting = <<>> /\ skipped = <<>> /\ finished = {}
  /\ recved = {} /\ failed = {}
  /\ pool = NewPool
  /\ kv = [b \in Block |-> [o \in 0 .. BlockSize - 1 |-> None]]
  /\ load = [r \in Req |-> NoLoad] /\ sends = [on |-> {}, done |-> {}]
  /\ step = Idle
  /\ wrong = {} /\ exc = FALSE

-----------------------------------------------------------------------------
(* The cache of one request.                                               *)

\* cache_blocks: the full blocks of the first n tokens that are not cached yet.
NewlyFull(q, n) == q.ncached + 1 .. n \div BlockSize
CacheBlocks(p, r, q, n) ==
  [p EXCEPT !.hash = [b \in Block |->
                        IF \E k \in NewlyFull(q, n) : q.blocks[k] = b
                        THEN HashOf(r, (CHOOSE k \in NewlyFull(q, n) : q.blocks[k] = b) - 1)
                        ELSE p.hash[b]],
            !.cached = [h \in Hash |-> p.cached[h] \cup
                          {q.blocks[k] : k \in {i \in NewlyFull(q, n) : HashOf(r, i - 1) = h}}]]
CachedUpTo(q, n) == Max({q.ncached, n \div BlockSize})

\* KVCacheManager.free, for every request of rs: free_blocks of its table.
Releases(rs, b) == Cardinality({r \in rs : b \in ToSet(req[r].blocks)})
FreeAll(p, rs) ==
  [p EXCEPT !.ref  = [b \in Block |-> p.ref[b] - Releases(rs, b)],
            !.free = @ \cup {b \in Block : Releases(rs, b) > 0 /\ p.ref[b] = Releases(rs, b)}]

Freed_bug(q) == [q EXCEPT !.ncached = 0]  \* the table still names the blocks

Freed(q) == [q EXCEPT !.blocks = <<>>, !.ncached = 0]

\* The longest cached prefix of r, short of its last token, through any of the
\* blocks that carry the hashes.
HitLength(r) ==
  CHOOSE n \in 0 .. (req[r].ntok - 1) \div BlockSize :
    /\ \A k \in 1 .. n : CachedBlocks(pool, HashOf(r, k - 1)) # {}
    /\ n = (req[r].ntok - 1) \div BlockSize \/ CachedBlocks(pool, HashOf(r, n)) = {}
Hits(r) == {bs \in [1 .. HitLength(r) -> Block] :
              \A k \in 1 .. HitLength(r) : bs[k] \in CachedBlocks(pool, HashOf(r, k - 1))}

\* allocate_slots finds enough free blocks for n tokens behind the given hits;
\* hits that nobody uses are free blocks too.
Missing(q, hits, n) == Max({0, NumBlocks(n) - Len(hits) - Len(q.blocks)})
Fits(q, hits, n) ==
  Missing(q, hits, n) + Cardinality({b \in ToSet(hits) : pool.ref[b] = 0})
    <= Cardinality(pool.free)

\* The tables it can build, and the pool that goes with one of them.
Tables(q, hits, n) ==
  {q.blocks \o hits \o SetToSeq(new) :
     new \in kSubset(Missing(q, hits, n), pool.free \ ToSet(hits))}
Taken(q, hits, table) ==
  GetNewBlocks(Touch(pool, ToSet(hits)), ToSet(table) \ (ToSet(q.blocks) \cup ToSet(hits)))

-----------------------------------------------------------------------------
(* Clients.                                                                *)

\* add_request.  A request of Again that is over comes back, as a new one.
Arrive(r) ==
  /\ r \in conf.clients /\ step.phase = "idle" /\ r \notin kept
  /\ req[r].status = "finished" => r \in Again
  /\ req' = [req EXCEPT ![r] = [Absent(r) EXCEPT !.status = "waiting"]]
  /\ waiting' = Append(waiting, r)
  /\ kept' = kept \cup {r}
  /\ UNCHANGED <<conf, running, skipped, finished, recved, failed, pool, kv, connector, step,
                 wrong, exc>>

Delayed_bug(r) == FALSE  \* the blocks are freed at once

\* finish_requests: the blocks of an unfinished load stay with the request.
Delayed(r) == req[r].status = "remote" /\ r \notin recved

\* finish_requests, for an abort.
Abort(r) ==
  /\ step.phase \in AbortIn
  /\ req[r].status \notin {"absent", "finished"}
  /\ LET q == [req[r] EXCEPT !.status = "finished"]
     IN  IF Delayed(r) THEN /\ req' = [req EXCEPT ![r] = q]
                            /\ UNCHANGED <<conf, pool, kept>>
                       ELSE /\ req' = [req EXCEPT ![r] = Freed(q)]
                            /\ pool' = FreeAll(pool, {r})
                            /\ kept' = kept \ {r}
  /\ running' = Without(running, {r})
  /\ waiting' = Without(waiting, {r})
  /\ skipped' = Without(skipped, {r})
  /\ finished' = finished \cup {r}
  /\ recved' = recved \ {r}
  /\ failed' = failed \ {r}
  /\ UNCHANGED <<conf, kv, connector, step, wrong, exc>>

-----------------------------------------------------------------------------
(* schedule().                                                             *)

HasRequests_bug ==  \* those put aside in the last step do not count
  running # <<>> \/ waiting # <<>> \/ finished # {}

\* get_num_unfinished_requests, has_finished_requests: what makes the engine take another
\* step.  A request that is kept for a transfer alone does not.
HasRequests == running # <<>> \/ waiting # <<>> \/ skipped # <<>> \/ finished # {}

Begin ==
  /\ step.phase = "idle" /\ HasRequests
  /\ step' = [Idle EXCEPT !.phase = "running", !.budget = Budget]
  /\ UNCHANGED <<conf, req, queues, pool, kv, connector, wrong, exc>>

InRunningLoop == step.phase = "running" /\ step.i <= Len(running) /\ step.budget > 0

Capped(n) == IF 0 < Threshold /\ Threshold < n THEN Threshold ELSE n
Share(q)  == Min({Capped(q.ntok - q.computed), step.budget})

\* The next running request gets its tokens, and the blocks for them.
ScheduleRunning ==
  /\ InRunningLoop
  /\ LET r == running[step.i]
         q == req[r]
         n == Share(q)
     IN  /\ n > 0 /\ Fits(q, <<>>, q.computed + n)
         /\ \E table \in Tables(q, <<>>, q.computed + n) :
              LET q2 == [q EXCEPT !.blocks = table]
              IN  /\ req' = [req EXCEPT ![r] = [q2 EXCEPT !.ncached = CachedUpTo(q, q.computed + n)]]
                  /\ pool' = CacheBlocks(Taken(q, <<>>, table), r, q2, q.computed + n)
         /\ step' = [step EXCEPT !.i = @ + 1, !.budget = @ - n, !.got[r] = n]
  /\ UNCHANGED <<conf, queues, kv, connector, wrong, exc>>

\* There are not enough: the last of the list is preempted, and put in front of
\* the waiting queue.
Preempt ==
  /\ InRunningLoop
  /\ LET q == req[running[step.i]]
         v == Last(running)
     IN  /\ Share(q) > 0 /\ ~Fits(q, <<>>, q.computed + Share(q))
         /\ req' = [req EXCEPT ![v] = [Freed(@) EXCEPT !.status = "preempted", !.computed = 0,
                                                       !.preempted = TRUE]]
         /\ pool' = FreeAll(pool, {v})
         /\ waiting' = <<v>> \o waiting
  /\ running' = Front(running)
  /\ step' = [step EXCEPT !.preempted = TRUE]
  /\ UNCHANGED <<conf, skipped, finished, recved, failed, kept, kv, connector, wrong, exc>>

EndRunning ==
  /\ step.phase = "running" /\ ~InRunningLoop
  /\ step' = [step EXCEPT !.phase = IF step.preempted THEN "end" ELSE "waiting"]
  /\ UNCHANGED <<conf, req, queues, pool, kv, connector, wrong, exc>>

InWaitingLoop == /\ step.phase = "waiting"
                 /\ skipped # <<>> \/ waiting # <<>>
                 /\ step.budget > 0
                 /\ Len(running) < MaxRunning

\* _select_waiting_queue_for_scheduling.
Candidate == IF skipped # <<>> THEN Head(skipped) ELSE Head(waiting)
Popped == /\ waiting' = IF skipped # <<>> THEN waiting ELSE Tail(waiting)
          /\ skipped' = IF skipped # <<>> THEN Tail(skipped) ELSE skipped

StillLoading_bug ==  \* a failed load may be waited for again
  /\ InWaitingLoop /\ req[Candidate].status = "remote" /\ Candidate \notin recved \ failed
  /\ Popped
  /\ step' = [step EXCEPT !.skip = <<Candidate>> \o @]
  /\ UNCHANGED <<conf, req, running, finished, recved, failed, kept, pool, kv, connector, wrong, exc>>

\* _try_promote_blocked_waiting_request refuses: the load is not done.
StillLoading ==
  /\ InWaitingLoop /\ req[Candidate].status = "remote" /\ Candidate \notin recved
  /\ Popped
  /\ step' = [step EXCEPT !.skip = <<Candidate>> \o @]
  /\ UNCHANGED <<conf, req, running, finished, recved, failed, kept, pool, kv, connector, wrong, exc>>

\* _update_waiting_for_remote_kv: what arrived is cached.  The last token of a
\* prompt is computed again; without any valid token the blocks are given back.
Promote ==
  /\ InWaitingLoop /\ req[Candidate].status = "remote" /\ Candidate \in recved
  /\ LET r == Candidate
         q == [req[r] EXCEPT !.status = IF req[r].preempted THEN "preempted" ELSE "waiting"]
         cached == [q EXCEPT !.ncached = CachedUpTo(q, q.computed)]
     IN  /\ IF r \in failed /\ q.computed = 0
            THEN /\ pool' = FreeAll(pool, {r})
                 /\ req' = [req EXCEPT ![r] = Freed(q)]
            ELSE /\ pool' = CacheBlocks(pool, r, q, q.computed)
                 /\ req' = [req EXCEPT ![r] =
                              IF r \notin failed /\ q.computed = q.ntok
                              THEN [cached EXCEPT !.computed = q.ntok - 1] ELSE cached]
         /\ recved' = recved \ {r} /\ failed' = failed \ {r}
  /\ UNCHANGED <<conf, running, waiting, skipped, finished, kept, kv, connector, step, wrong, exc>>

\* get_num_new_matched_tokens: how many tokens the connector has behind n local
\* ones; all of them, when it loads asynchronously.
Matched(r, n) ==
  {e \in 0 .. req[r].ntok - n :
     /\ e > 0 => r \in Async \cup Sync
     /\ (n + e) % BlockSize = 0 \/ n + e = req[r].ntok
     /\ n + e < req[r].ntok \/ r \in Async
     /\ Whole => e = 0 \/ NumBlocks(n + e) = NumBlocks(req[r].ntok)}

\* The prefix of the candidate: local hits, tokens matched behind them, or what
\* is left of an earlier load.
PrefixesOf(r) ==
  IF req[r].computed > 0
  THEN {[hits |-> <<>>, ext |-> 0, total |-> req[r].computed]}
  ELSE {[hits |-> hits, ext |-> e, total |-> HitLength(r) * BlockSize + e] :
          hits \in Hits(r), e \in Matched(r, HitLength(r) * BlockSize)}

\* can_fit_full_sequence, then allocate_slots.
Room(q, p, n) == Fits(q, p.hits, n) /\ (ReserveFull => Fits(q, p.hits, q.ntok))

LoadsAsync(r, p) == p.ext > 0 /\ r \in Async
NewTokens(r, p) ==
  IF LoadsAsync(r, p) THEN 0 ELSE Min({Capped(req[r].ntok - p.total), step.budget})

Schedulable == InWaitingLoop /\ req[Candidate].status \in {"waiting", "preempted"}

\* The blocks to be loaded, each with the hash of what is to be loaded.
External(r, p, table) ==
  {<<table[k], HashOf(r, k - 1)>> : k \in Len(p.hits) + 1 .. NumBlocks(p.total)}

\* The candidate waits for its load, with its blocks allocated.
StartLoad ==
  /\ Schedulable
  /\ LET r == Candidate
         q == req[r]
     IN  \E p \in PrefixesOf(r) :
           /\ LoadsAsync(r, p) /\ Room(q, p, p.total)
           /\ \E table \in Tables(q, p.hits, p.total) :
                /\ pool' = Taken(q, p.hits, table)
                /\ req' = [req EXCEPT ![r] = [q EXCEPT !.status = "remote", !.computed = p.total,
                                                       !.blocks = table, !.ncached = Len(p.hits)]]
                /\ load' = [load EXCEPT ![r] = [NoLoad EXCEPT !.st = "on",
                                                             !.into = External(r, p, table)]]
  /\ Popped
  /\ step' = [step EXCEPT !.skip = <<Candidate>> \o @]
  /\ UNCHANGED <<conf, running, finished, recved, failed, kept, kv, sends, wrong, exc>>

\* The candidate runs; blocks that are loaded ahead of the forward pass are
\* cached at once.
Admit ==
  /\ Schedulable
  /\ LET r == Candidate
         q == req[r]
     IN  \E p \in PrefixesOf(r) :
           LET n == NewTokens(r, p)
               end == p.total + n
           IN  /\ ~LoadsAsync(r, p) /\ Room(q, p, end)
               /\ \E table \in Tables(q, p.hits, end) :
                    LET q2 == [q EXCEPT !.status = "running", !.computed = p.total,
                                        !.blocks = table,
                                        !.ncached = Max({@, Len(p.hits)})]
                    IN  /\ req' = [req EXCEPT ![r] = [q2 EXCEPT !.ncached = CachedUpTo(q2, end)]]
                        /\ pool' = CacheBlocks(Taken(q, p.hits, table), r, q2, end)
                        /\ step' = [step EXCEPT !.got[r] = n, !.budget = @ - n,
                                      !.sync = IF p.ext > 0 THEN @ \cup External(r, p, table) ELSE @]
  /\ running' = Append(running, Candidate)
  /\ Popped
  /\ UNCHANGED <<conf, finished, recved, failed, kept, kv, connector, wrong, exc>>

\* No room for the candidate: the waiting loop ends.
NoRoom ==
  /\ Schedulable
  /\ \E p \in PrefixesOf(Candidate) :
       ~Room(req[Candidate], p, p.total + NewTokens(Candidate, p))
  /\ step' = [step EXCEPT !.phase = "end"]
  /\ UNCHANGED <<conf, req, queues, pool, kv, connector, wrong, exc>>

EndWaiting ==
  /\ step.phase = "waiting" /\ ~InWaitingLoop
  /\ step' = [step EXCEPT !.phase = "end"]
  /\ UNCHANGED <<conf, req, queues, pool, kv, connector, wrong, exc>>

\* The requests passed over are queued again, and _update_after_schedule.
Emit ==
  /\ step.phase = "end"
  /\ skipped' = Reverse(step.skip) \o skipped
  /\ req' = [r \in Req |-> [req[r] EXCEPT !.computed = @ + step.got[r]]]
  /\ step' = [step EXCEPT !.phase = "forward", !.skip = <<>>]
  /\ finished' = {}
  /\ UNCHANGED <<conf, running, waiting, recved, failed, kept, pool, kv, connector, wrong, exc>>

-----------------------------------------------------------------------------
(* The worker: loads, then one forward pass of all scheduled requests.     *)

Scheduled == {r \in Req : step.got[r] > 0}
Start(r)  == req[r].computed - step.got[r]

\* The slots that the requests of rs write.
Writes(rs) ==
  UNION {{<<req[r].blocks[(pos \div BlockSize) + 1], pos % BlockSize>> :
            pos \in Start(r) .. req[r].computed - 1} : r \in rs}

\* What blocks should hold, by the tables of the requests of rs.
Meant(rs, b, o) ==
  LET at == {x \in rs \X (1 .. Max({0} \cup {Len(req[r].blocks) : r \in rs})) :
               x[2] <= Len(req[x[1]].blocks) /\ req[x[1]].blocks[x[2]] = b}
      rk == CHOOSE x \in at : TRUE
  IN  Slot(rk[1], (rk[2] - 1) * BlockSize + o)

\* k after the blocks of into have arrived.
Arrived(k, into) ==
  [b \in Block |->
     LET h == {x[2] : x \in {y \in into : y[1] = b}}
     IN  IF h = {} THEN k[b]
         ELSE [o \in 0 .. BlockSize - 1 |-> <<(CHOOSE x \in h : TRUE)[1], (CHOOSE x \in h : TRUE)[2] * BlockSize + o>>]]

\* The requests whose whole prefix is there, in kv or in what they write
\* themselves: layer by layer, all write ahead of the reads.
SoundSets(k) ==
  {G \in SUBSET Scheduled :
     \A r \in G : \A pos \in 0 .. Start(r) - 1 :
       LET slot == <<req[r].blocks[(pos \div BlockSize) + 1], pos % BlockSize>>
       IN  slot \in Writes(G) \/ (Holds(k, r, pos) /\ slot \notin Writes(Scheduled \ G))}

Forward(lost) ==
  /\ step.phase = "forward"
  /\ lost \subseteq {x[1] : x \in step.sync} /\ (lost # {} => Loses)
  /\ LET k == Arrived(kv, {x \in step.sync : x[1] \notin lost})
         sound == UNION SoundSets(k)
         spoilt == Writes(Scheduled \ sound) \ Writes(sound)
     IN  /\ kv' = [b \in Block |-> [o \in 0 .. BlockSize - 1 |->
                     IF <<b, o>> \in Writes(sound) THEN Meant(sound, b, o)
                     ELSE IF <<b, o>> \in spoilt THEN None ELSE k[b][o]]]
         /\ step' = [step EXCEPT !.phase = "output", !.invalid = lost,
                                 !.tainted = Scheduled \ sound]
  /\ UNCHANGED <<conf, req, queues, pool, connector, wrong, exc>>

-----------------------------------------------------------------------------
(* update_from_output.                                                     *)

\* _update_requests_with_invalid_blocks, for the requests of a sequence: each
\* marks the invalid blocks that none before it has marked, and is cut at the
\* first one it marked.
InvalidAt(r, bad) == {k \in 1 .. NumBlocks(Start(r)) : req[r].blocks[k] \in bad}
InvalidOf(r, bad) == {req[r].blocks[k] : k \in InvalidAt(r, bad)}
MarkedAt(rs, i, bad) ==
  {k \in InvalidAt(rs[i], bad) :
     \A j \in 1 .. i - 1 : req[rs[i]].blocks[k] \notin InvalidOf(rs[j], bad)}
Affected(rs, bad) == {rs[i] : i \in {j \in 1 .. Len(rs) : InvalidAt(rs[j], bad) # {}}}

CutAt_bug(rs, i, bad) == req[rs[i]].computed  \* nothing is computed again

CutAt_bugFirst(rs, i, bad) == Start(rs[i])  \* nobody is the first to mark a block

CutAt(rs, i, bad) ==
  IF MarkedAt(rs, i, bad) = {} THEN Start(rs[i])
  ELSE (Min(MarkedAt(rs, i, bad)) - 1) * BlockSize

ToEvict_bug(rs, bad) ==  \* not the blocks behind them
  UNION {InvalidOf(rs[i], bad) : i \in 1 .. Len(rs)}

\* The first invalid block that a request marked, and all behind it.
ToEvict(rs, bad) ==
  UNION {{req[rs[i]].blocks[k] : k \in Min(MarkedAt(rs, i, bad)) .. Len(req[rs[i]].blocks)} :
           i \in {j \in 1 .. Len(rs) : MarkedAt(rs, j, bad) # {}}}

Loading == Among(skipped, {r \in Req : req[r].status = "remote"})

\* num_computed_tokens of every request after _handle_invalid_blocks.
Cut(bad) ==
  [r \in Req |->
     IF r \in Affected(Loading, bad)
       THEN CutAt(Loading, CHOOSE i \in 1 .. Len(Loading) : Loading[i] = r, bad)
     ELSE IF r \in Affected(running, bad)
       THEN CutAt(running, CHOOSE i \in 1 .. Len(running) : running[i] = r, bad)
     ELSE req[r].computed]

FailedIds_bug(bad) == Affected(Loading, bad)  \* a running one goes on

\* The requests that _handle_invalid_blocks has the loop below pass over.
FailedIds(bad) ==
  Affected(running, bad) \cup (IF Recompute THEN {} ELSE Affected(Loading, bad))
Errors(bad) == IF Recompute THEN {} ELSE FailedIds(bad)

\* Requests that get a token, and those that it is the last one for.
Sampled(bad) == {r \in Scheduled \ FailedIds(bad) :
                   req[r].status = "running" /\ req[r].computed >= req[r].ntok}
Stopped(bad) == {r \in Sampled(bad) : req[r].ntok + 1 = Prompt[r] + MaxOut}

LoadsDone == {r \in Req : load[r].st = "done"}
Lost      == UNION {load[r].lost : r \in Req}

FreedNow_bug(bad) ==  \* the connector's wish to send the blocks is passed over
  Stopped(bad) \cup {r \in Errors(bad) : ~Delayed(r)}

\* _free_request at once: not for a connector that sends the blocks on, and not
\* while a load may still write to them.
FreedNow(bad) == (Stopped(bad) \ Senders) \cup {r \in Errors(bad) : ~Delayed(r)}

Ended(bad) == Stopped(bad) \cup Errors(bad) \cup {r \in Req : req[r].status = "finished"}

FreedLater_bug(bad) == LoadsDone \cap Ended(bad)  \* finished_sending is passed over

\* _update_from_kv_xfer_finished: loads of ended requests, and what has been sent.
FreedLater(bad) == (LoadsDone \cap Ended(bad)) \cup sends.done

Update ==
  /\ step.phase = "output"
  /\ \E bad \in {step.invalid \cup Lost} :
     \E cut \in {Cut(bad)} :
       /\ req' = [r \in Req |->
            LET q  == [req[r] EXCEPT !.computed = cut[r],
                                     !.ntok = IF r \in Sampled(bad) THEN @ + 1 ELSE @,
                                     !.status = IF r \in Ended(bad) THEN "finished" ELSE @]
            IN  IF r \in FreedNow(bad) \cup FreedLater(bad) THEN Freed(q) ELSE q]
       /\ pool' = FreeAll(IF Recompute THEN pool ELSE EvictBlocks(pool, ToEvict(running, bad)),
                          FreedNow(bad) \cup FreedLater(bad))
       /\ kept' = kept \ (FreedNow(bad) \cup FreedLater(bad))
       /\ running' = Without(running, Stopped(bad) \cup Errors(bad))
       /\ skipped' = Without(skipped, Errors(bad))
       /\ finished' = finished \cup Stopped(bad) \cup Errors(bad)
       /\ recved' = (recved \ Errors(bad)) \cup (LoadsDone \ Ended(bad))
       /\ failed' = IF Recompute THEN failed \cup Affected(Loading, bad) ELSE failed \ Errors(bad)
       /\ load' = [r \in Req |-> IF r \in LoadsDone THEN NoLoad
                                ELSE [load[r] EXCEPT !.lost = {}]]
       /\ sends' = [on |-> sends.on \cup (Stopped(bad) \cap Senders), done |-> {}]
       /\ wrong' = wrong \cup (Sampled(bad) \cap step.tainted)
       /\ exc' = (exc \/ \E r \in LoadsDone \cup sends.done :
                           r \notin kept \/ r \in FreedNow(bad))
  /\ step' = Idle
  /\ UNCHANGED <<conf, waiting, kv>>

-----------------------------------------------------------------------------
(* The worker's transfers.  They go on all the time; what has become of     *)
(* them matters when the worker puts it into the output of a step.          *)

\* A load gives up a block of its own; the next output reports it.
Lose(r, b) ==
  /\ step.phase = "output" /\ Loses
  /\ load[r].st = "on" /\ b \in {x[1] : x \in load[r].into}
  /\ load' = [load EXCEPT ![r].into = {x \in @ : x[1] # b}, ![r].lost = @ \cup {b}]
  /\ UNCHANGED <<conf, req, queues, pool, kv, sends, step, wrong, exc>>

LoadDone(r) ==
  /\ step.phase = "output"
  /\ load[r].st = "on"
  /\ kv' = Arrived(kv, load[r].into)
  /\ load' = [load EXCEPT ![r].st = "done", ![r].into = {}]
  /\ UNCHANGED <<conf, req, queues, pool, sends, step, wrong, exc>>

SendDone(r) ==
  /\ step.phase = "output"
  /\ r \in sends.on
  /\ sends' = [on |-> sends.on \ {r}, done |-> sends.done \cup {r}]
  /\ UNCHANGED <<conf, req, queues, pool, kv, load, step, wrong, exc>>

-----------------------------------------------------------------------------
Engine == \/ Begin \/ ScheduleRunning \/ Preempt \/ EndRunning
          \/ StillLoading \/ Promote \/ StartLoad \/ Admit \/ NoRoom \/ EndWaiting
          \/ Emit
          \/ \E lost \in SUBSET {x[1] : x \in step.sync} : Forward(lost)
          \/ Update

\* Nobody is left for whom the engine takes a step; any other state without a next one is
\* a deadlock.
Over == step.phase = "idle" /\ ~HasRequests /\ UNCHANGED vars

Next == \/ Engine
        \/ \E r \in Req : Arrive(r) \/ Abort(r) \/ LoadDone(r) \/ SendDone(r)
        \/ \E r \in Req, b \in Block : Lose(r, b)
        \/ Over

Spec == Init /\ [][Next]_vars

\* The engine takes steps as long as it has requests, and no longer, as Begin says.  This
\* is WF_vars(Engine) written out: without a deadlock Engine is enabled then, and
\* changes step (but for Promote, which a step does once for a request).
EngineFair == []<>(step.phase = "idle" /\ ~HasRequests) \/ []<><<TRUE>>_step

\* The end of a transfer that step after step could report is reported in the end.
\* Nothing is asked of clients.
FairSpec == Spec /\ EngineFair
                 /\ \A r \in Req : SF_vars(LoadDone(r)) /\ SF_vars(SendDone(r))

-----------------------------------------------------------------------------
(* Properties.                                                             *)

Holders(b) == {r \in Req : b \in ToSet(req[r].blocks)}

\* The shape of the state; queues and statuses agree.
TypeOK ==
  /\ \A r \in Req :
       /\ req[r].computed \in 0 .. req[r].ntok
       /\ req[r].ntok \in Prompt[r] .. Prompt[r] + MaxOut
       /\ Cardinality({i \in 1 .. Len(running) : running[i] = r})
            = (IF req[r].status = "running" THEN 1 ELSE 0)
       /\ Cardinality({i \in 1 .. Len(waiting \o skipped \o step.skip) :
                         (waiting \o skipped \o step.skip)[i] = r})
            = (IF req[r].status \in {"waiting", "preempted", "remote"} THEN 1 ELSE 0)
  /\ recved \subseteq {r \in Req : req[r].status = "remote"} /\ failed \subseteq kept
  /\ load \in [Req -> [st : {"off", "on", "done"}, into : SUBSET (Block \X Hash),
                      lost : SUBSET Block]]
  /\ exc \in BOOLEAN

\* The scheduler never hears of a transfer of a request it has forgotten, whatever
\* aborts and failures come in between.
NoException == ~exc

\* The blocks a load still writes to belong to its request alone, ended or not, and
\* nobody finds them in the cache.
LoadsIntoOwn ==
  \A r \in Req : \A x \in load[r].into :
    pool.ref[x[1]] = 1 /\ Holders(x[1]) = {r} /\ pool.hash[x[1]] = None

\* Blocks that are being sent stay what they were until the last is away.
SendsRight ==
  \A r \in sends.on : \A pos \in 0 .. Prompt[r] - 1 :
    Len(req[r].blocks) * BlockSize > pos /\ Holds(kv, r, pos)

\* Reference counts are the number of tables that name a block.
RefsExact ==
  /\ \A b \in Block : pool.ref[b] = Cardinality(Holders(b))
  /\ pool.free = {b \in Block : pool.ref[b] = 0}

\* An ended request is kept exactly as long as a transfer uses its blocks.
NoZombies ==
  \A r \in Req : req[r].status = "finished" =>
    /\ r \in kept <=> load[r].st # "off" \/ r \in sends.on \cup sends.done
    /\ r \notin kept => req[r].blocks = <<>>

\* Queues, statuses, tables, counts and the requests that are kept for a transfer
\* account for one another, and every report of a transfer finds its request.
Accounted == TypeOK /\ NoException /\ RefsExact /\ NoZombies

\* Between two steps a cached block holds the text of its hash, unless a running
\* request is about to compute it again.
CachedRight ==
  step.phase = "idle" =>
    \A b \in Block :
      \/ pool.hash[b] = None
      \/ \A o \in 0 .. BlockSize - 1 :
           kv[b][o] = <<pool.hash[b][1], pool.hash[b][2] * BlockSize + o>>
      \/ \E r \in ToSet(running) : \E k \in 1 .. Len(req[r].blocks) :
           req[r].blocks[k] = b /\ req[r].computed < k * BlockSize

\* No request is given a token that was not computed from its own text, whatever
\* loads failed before.
AnswersRight == wrong = {}

\* The ends of transfers travel with the outputs of steps, and an ended request does
\* not make the engine take one: blocks held for its transfer are given back as long as
\* other requests keep the engine going.
Released ==
  []<>(step.phase = "output")
    => \A r \in Req : req[r].status = "finished" /\ r \in kept ~> r \notin kept

\* Unless loads fail for ever, every request is answered or aborted, also one that waits for
\* blocks that ended requests hold for a transfer: it makes the engine go on until their
\* transfers are reported.
Answered ==
  <>[](\A r \in Req : load[r].lost = {})
    => \A r \in Req : req[r].status \notin {"absent", "finished"} ~> req[r].status = "finished"

\* No request and no block waits for ever for a transfer that ends.
TransfersEnd == Released /\ Answered
=============================================================================
