--------------------------- MODULE MambaLatestOps ---------------------------
(***************************************************************************)
(* MambaManager in cache mode "latest" without speculative blocks          *)
(* (single_type_kv_cache_manager.py).  A request keeps one running state   *)
(* and moves it from block to block of its table as it advances; a state   *)
(* that is a checkpoint, is published, or is the source of a copy the      *)
(* worker has still to make stays behind in a block of its own.            *)
(*                                                                         *)
(* Operators over a record s with the fields pool (BlockQueueOps),         *)
(* mamba[r], the manager's dictionaries for one request, and gold: whether *)
(* the rules are those of gold.patch or of the files under scripts/debug.  *)
(* A block index of the code is 0-based; NoIdx stands for a key that is    *)
(* absent.                                                                 *)
(***************************************************************************)
EXTENDS BlockQueueOps, RequestTokens, Bags

CONSTANTS Null,         \* the null block, shared and never freed
          CoarseCount,  \* mamba_latest_coarse_checkpoints
          CoarseGap     \* mamba_latest_coarse_min_gap

ASSUME NullAssumption == Null \notin Block

NoIdx == -1

NoMamba == [blocks   |-> <<>>,      \* req_to_blocks
            alloc    |-> FALSE,     \* in _allocated_block_reqs
            cur      |-> NoIdx,     \* current_state_block_idx
            pending  |-> NoIdx,     \* _pending_source_state_block_idx
            inflight |-> EmptyBag,  \* _inflight_source_state_block_counts
            latest   |-> NoIdx,     \* latest_checkpoint_block_idx
            coarse   |-> NoIdx]     \* coarse_checkpoint_block_idx

\* The block at index i of the table; Null if there is none.
BlockAt(s, r, i) == LET bs == s.mamba[r].blocks
                    IN  IF i + 1 \in DOMAIN bs THEN bs[i + 1] ELSE Null

Hashed(s, b) == b # Null /\ s.pool.hash[b] # None

Nulls(n) == [i \in 1 .. n |-> Null]

NonNull(bs) == Among(bs, Block)

\* The last prompt checkpoint, one full block before the end of the prompt.
CheckpointIdx(r) == IF Prompt[r] \div H < 2 THEN NoIdx ELSE Prompt[r] \div H - 2

Checkpoints(m) == {m.latest, m.coarse} \ {NoIdx}

Sources(m) == ({m.pending} \ {NoIdx}) \cup BagToSet(m.inflight)

Protected(m) == Checkpoints(m) \cup Sources(m) \cup ({m.cur} \ {NoIdx})

-----------------------------------------------------------------------------
(* Checkpoints: which states are kept, dropped and published.              *)

(* A name with _bug is a faulty variant of the definition that follows it: *)
(* put in its place, it must break a property of a run.                    *)

FreeUnprotected_bug(s, r, i) ==  \* the table keeps the freed block
  LET b == BlockAt(s, r, i)
  IN  IF b = Null \/ i \in Protected(s.mamba[r]) THEN s
      ELSE [s EXCEPT !.pool = FreeBlocks(@, <<b>>)]

FreeUnprotected(s, r, i) ==
  LET b == BlockAt(s, r, i)
  IN  IF b = Null \/ i \in Protected(s.mamba[r]) THEN s
      ELSE [s EXCEPT !.pool = FreeBlocks(@, <<b>>),
                     !.mamba[r].blocks = ReplaceAt(@, i + 1, Null)]

\* _maybe_free_unqueued_checkpoint: an old checkpoint also leaves the cache.
DropCheckpoint(s, r, i) ==
  LET b == BlockAt(s, r, i)
  IN  FreeUnprotected(IF Hashed(s, b)
                      THEN [s EXCEPT !.pool = EvictBlocks(@, <<b>>)] ELSE s, r, i)

SetLatest(s, r, i) ==
  LET old == s.mamba[r].latest
      t   == [s EXCEPT !.mamba[r].latest = i]
  IN  IF old \in {NoIdx, i} THEN t ELSE DropCheckpoint(t, r, old)

SetCoarse(s, r, i) ==
  LET old == s.mamba[r].coarse
      t   == [s EXCEPT !.mamba[r].coarse = i]
  IN  IF old \in {NoIdx, i} THEN t ELSE DropCheckpoint(t, r, old)

\* The attention boundary worth keeping: the last one at least CoarseGap
\* tokens before the last full block of all the tokens of the request.
TargetCoarse(ntok) ==
  LET end  == ntok - (ntok % H)
      ends == {k * A : k \in 1 .. end \div A}
      far  == {e \in ends : end - e >= CoarseGap}
  IN  IF CoarseCount = 0 \/ far = {} THEN NoIdx ELSE Max(far) \div H - 1

QueueLatest(s, r, i, ntok) ==
  IF BlockAt(s, r, i) = Null THEN s
  ELSE LET t == SetLatest(s, r, i)
       IN  IF TargetCoarse(ntok) = i THEN SetCoarse(t, r, i) ELSE t

Publish(s, r, i) ==
  LET b == BlockAt(s, r, i)
  IN  IF Hashed(s, b) THEN s
      ELSE [s EXCEPT !.pool = CacheFullBlock(@, b, MambaHash(r, (i + 1) * H))]

\* publish_completed_latest_checkpoint, before the running state moves on.
PublishCompleted(s, r, computed) ==
  LET full == Min2(computed, Prompt[r]) \div H
      i    == Min2(full - 1, CheckpointIdx(r))
  IN  IF CheckpointIdx(r) = NoIdx \/ full = 0 \/ s.mamba[r].cur # i
         \/ BlockAt(s, r, i) = Null
      THEN s
      ELSE Publish([s EXCEPT !.mamba[r].latest = Max2(@, i)], r, i)

\* publish_latest_prefill_checkpoint: gold.patch also accepts a state that has
\* been left behind, if it is published already or is the source of a copy.
CanPublishPrefill(s, r) ==
  LET i == CheckpointIdx(r)
      b == BlockAt(s, r, i)
  IN  /\ i # NoIdx
      /\ b # Null
      /\ \/ s.mamba[r].cur = i
         \/ s.gold /\ (Hashed(s, b) \/ i \in Sources(s.mamba[r]))

PublishPrefill(s, r) ==
  LET i == CheckpointIdx(r)
  IN  IF CanPublishPrefill(s, r) THEN Publish(SetLatest(s, r, i), r, i) ELSE s

\* cache_blocks only queues the checkpoint; it is published later.
MambaCacheBlocks(s, r, ntok, tokens) ==
  LET i == CheckpointIdx(r)
  IN  IF i # NoIdx /\ Min2(tokens, Prompt[r]) >= (i + 1) * H
      THEN QueueLatest(s, r, i, ntok) ELSE s

\* _latest_coarse_checkpoint_cacheable.
CoarseCacheable(m) == /\ m.coarse # NoIdx /\ m.latest # NoIdx
                      /\ (m.latest - m.coarse) * H >= CoarseGap

\* finalize_request_cache: what is still unpublished when the request ends.
PublishAt(s, r, i) == IF BlockAt(s, r, i) = Null THEN s ELSE Publish(s, r, i)

PublishCheckpoints(s, r) ==
  LET m == s.mamba[r]
      t == PublishAt(s, r, m.latest)
  IN  IF CoarseCacheable(m) THEN PublishAt(t, r, m.coarse) ELSE t

MambaFinalize(s, r) == PublishCheckpoints(PublishPrefill(s, r), r)

-----------------------------------------------------------------------------
(* The block table of a request.                                           *)

\* remove_skipped_blocks: every unprotected state before the last token.
RemoveSkipped(s, r, computed) ==
  LET n == Max2(0, Min2((computed - 1) \div H, Len(s.mamba[r].blocks)))
      removed[k \in 0 .. n] ==
        IF k = 0 THEN s ELSE FreeUnprotected(removed[k - 1], r, n - k)
  IN  removed[n]

MambaNewBlocks_bug(s, r, tokens, hits) ==  \* a state never stays behind
  LET m == s.mamba[r]
  IN  IF m.alloc \/ CeilDiv(tokens, H) <= hits + Len(m.blocks) THEN 0 ELSE 1

\* get_num_blocks_to_allocate, without the hit to be touched: hits is the
\* length of the table that the lookup supplies.
MambaNewBlocks(s, r, tokens, hits) ==
  LET m == s.mamba[r]
      i == CeilDiv(tokens, H) - 1
  IN  IF m.alloc
      THEN IF m.cur = NoIdx \/ (i > m.cur /\ m.cur \in Checkpoints(m)) THEN 1 ELSE 0
      ELSE IF i >= hits + Len(m.blocks) THEN 1 ELSE 0

\* The table grows to index i with a new block, over null blocks.
AppendNewState(s, r, i) ==
  LET bs == s.mamba[r].blocks
  IN  [s EXCEPT !.pool = GetNewBlocks(@, 1),
                !.mamba[r].blocks =
                   bs \o Nulls(i - Len(bs)) \o NewBlocks(s.pool, 1)]

\* The running state moves to index i in the block it occupies.
MoveState(s, r, i) ==
  LET m  == s.mamba[r]
      b  == BlockAt(s, r, m.cur)
      bs == ReplaceAt(m.blocks, m.cur + 1, Null) \o Nulls(i - Len(m.blocks))
  IN  [s EXCEPT !.pool.raised = @ \/ b = Null \/ Len(bs) # i,
                !.mamba[r].blocks = Append(bs, b)]

MambaAllocate_bug(s, r, tokens) ==  \* moves a published state too
  LET m  == s.mamba[r]
      i  == CeilDiv(tokens, H) - 1
      at == [s EXCEPT !.mamba[r].cur = i, !.mamba[r].alloc = TRUE]
  IN  IF ~m.alloc
      THEN IF i < Len(m.blocks) THEN at ELSE AppendNewState(at, r, i)
      ELSE IF i <= m.cur THEN s
      ELSE [MoveState(s, r, i) EXCEPT !.mamba[r].cur = i, !.mamba[r].pending = m.cur]

\* _allocate_latest_reused_blocks.  cur is set whenever alloc is.
MambaAllocate(s, r, tokens) ==
  LET m    == s.mamba[r]
      i    == CeilDiv(tokens, H) - 1
      at   == [s EXCEPT !.mamba[r].cur = i, !.mamba[r].alloc = TRUE]
      keep == \/ m.cur \in Checkpoints(m) \cup Sources(m)
              \/ Hashed(s, BlockAt(s, r, m.cur))
  IN  IF ~m.alloc
      THEN IF i < Len(m.blocks) THEN at ELSE AppendNewState(at, r, i)
      ELSE IF i <= m.cur THEN s
      ELSE LET t == IF keep THEN AppendNewState(s, r, i) ELSE MoveState(s, r, i)
           IN  [t EXCEPT !.mamba[r].cur = i, !.mamba[r].pending = m.cur]

MambaFree(s, r) ==
  [s EXCEPT !.pool = FreeBlocks(@, Reverse(NonNull(s.mamba[r].blocks))),
            !.mamba[r] = NoMamba]

-----------------------------------------------------------------------------
(* Sources of the copies that the worker makes at the start of a step.     *)

NewStepStarts(s) ==
  [s EXCEPT !.mamba = [r \in Req |-> [s.mamba[r] EXCEPT !.pending = NoIdx]]]

\* take_mamba_source_block_refs: what is pending becomes in flight, with the
\* scheduler output that carries the reference.
SourceRef(s, r) == [req |-> r, index |-> s.mamba[r].pending,
                    block |-> BlockAt(s, r, s.mamba[r].pending)]

TakeSourceRefs(s) ==
  LET count(r) == LET m == s.mamba[r]
                  IN  IF SourceRef(s, r).block # Null
                      THEN m.inflight (+) SetToBag({m.pending}) ELSE m.inflight
  IN  [s EXCEPT !.mamba = [r \in Req |->
         [s.mamba[r] EXCEPT !.inflight = count(r), !.pending = NoIdx]]]

ReleaseSourceRef(s, r, i) ==
  LET m == s.mamba[r]
      t == [s EXCEPT !.mamba[r].inflight = m.inflight (-) SetToBag({i})]
  IN  IF ~BagIn(i, m.inflight) THEN s
      ELSE IF m.inflight[i] > 1 THEN t
      ELSE FreeUnprotected(t, r, i)
=============================================================================
