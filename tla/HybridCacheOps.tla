--------------------------- MODULE HybridCacheOps ---------------------------
(***************************************************************************)
(* KVCacheManager over HybridKVCacheCoordinator, with one full-attention   *)
(* group (group 0, FullAttentionManager) and one Mamba group, partial      *)
(* attention caching enabled and Mamba mode "latest".                      *)
(*                                                                         *)
(* kv is a record: pool, mamba[r], gold (see MambaLatestOps), attn[r], the *)
(* pending partial hit pend[r] of a lookup, and what the next scheduler    *)
(* output will carry to the worker: fresh, the attention blocks to zero,   *)
(* and copies, the partial blocks to copy.                                 *)
(***************************************************************************)
EXTENDS MambaLatestOps

NoAttn == [blocks |-> <<>>,   \* req_to_blocks
           pinned |-> <<>>,   \* pinned_blocks: sources of partial copies
           cached |-> 0]      \* num_cached_block

NewCache(gold, ids) ==
            [gold   |-> gold,
             pool   |-> NewPool(ids),
             mamba  |-> [r \in Req |-> NoMamba],
             attn   |-> [r \in Req |-> NoAttn],
             pend   |-> [r \in Req |-> None],
             fresh  |-> <<>>,
             copies |-> <<>>]

Evictable(kv, bs) == Cardinality({b \in bs \ {Null} : kv.pool.ref[b] = 0})

-----------------------------------------------------------------------------
(* Lookup.  The Mamba group is asked first: its longest checkpoint is the  *)
(* bound within which full attention then looks for blocks.                *)

MissedHit == [len |-> 0, attn |-> <<>>, ssm |-> Null, part |-> None]

\* The longest boundary up to limit with a cached Mamba state.
MambaBoundary(kv, r, limit) ==
  Max({0} \cup {n \in 1 .. limit : /\ n % H = 0
                                   /\ CachedBlock(kv.pool, MambaHash(r, n)) # None})

\* The whole attention blocks from the left, up to limit tokens.
WholeBlocks(kv, r, limit) ==
  Max({k \in 0 .. limit \div A :
         \A j \in 1 .. k : CachedBlock(kv.pool, AttnHash(r, j * A)) # None})

\* _find_partial_full_attention_hit: one candidate, the bound itself, in the
\* block after the whole ones.
PartialCandidate(bound, whole) ==
  LET most == Min2(bound, whole * A + A - 1) IN most - (most % H)

HasPartialHit(kv, r, n, whole) ==
  LET entry == kv.pool.partial[AttnHash(r, n)]
  IN  n > whole * A /\ entry # None /\ entry.valid >= n % A

\* find_longest_cache_hit.  Mamba is not asked again when attention accepts
\* less than its bound: its list is then truncated to null blocks only.
Lookup(kv, r, ntok) ==
  LET bound == MambaBoundary(kv, r, ntok - 1)
      whole == WholeBlocks(kv, r, bound)
      cand  == PartialCandidate(bound, whole)
      part  == HasPartialHit(kv, r, cand, whole)
      len   == IF part THEN cand ELSE whole * A
  IN  [len  |-> len,
       attn |-> [j \in 1 .. whole |-> CachedBlock(kv.pool, AttnHash(r, j * A))],
       ssm  |-> IF len > 0 /\ len = bound
                THEN CachedBlock(kv.pool, MambaHash(r, len)) ELSE Null,
       part |-> IF part THEN [src   |-> kv.pool.partial[AttnHash(r, cand)].block,
                              index |-> cand \div A,
                              ntok  |-> cand % A] ELSE None]

\* get_computed_blocks leaves the partial hit behind for allocate_slots.
ComputedBlocks(kv, r, hit) == [kv EXCEPT !.pend[r] = hit.part]

-----------------------------------------------------------------------------
(* Allocation.                                                             *)

\* Blocks to take from the free list so that the table of r, extended by the
\* hit, holds tokens: new ones, and those of the hit that are free now.
NumToAllocate(kv, r, tokens, hit) ==
  LET held == Len(kv.attn[r].blocks) + Len(hit.attn)
      pend == IF kv.pend[r] = None THEN {} ELSE {kv.pend[r].src}
  IN  Max2(CeilDiv(tokens, A) - held, 0) + Evictable(kv, ToSet(hit.attn))
        + MambaNewBlocks(kv, r, tokens, hit.len \div H) + Evictable(kv, {hit.ssm})
        + Evictable(kv, pend)

CanFit(kv, r, tokens, hit) == NumToAllocate(kv, r, tokens, hit) <= NumFree(kv.pool)

(* A name with _bug is a faulty variant of the definition that follows it: *)
(* put in its place, it must break a property of a run.                    *)

PinPartial_bug(kv, r) == kv  \* not pinned

\* pin_partial_cache_hits.
PinPartial(kv, r) ==
  LET src == kv.pend[r].src
  IN  IF kv.pend[r] = None THEN kv
      ELSE [kv EXCEPT !.pool = Touch(@, <<src>>),
                      !.attn[r].pinned = Append(@, src)]

TakeHit_bugSsm(kv, r, hit) ==  \* the Mamba state is not touched
  IF hit.len = 0 THEN kv
  ELSE [kv EXCEPT !.pool = Touch(@, hit.attn),
                  !.attn[r].blocks = hit.attn,
                  !.attn[r].cached = Len(hit.attn),
                  !.mamba[r].blocks = Append(Nulls(hit.len \div H - 1), hit.ssm)]

TakeHit_bugCached(kv, r, hit) ==  \* the hit blocks are cached again
  IF hit.len = 0 THEN kv
  ELSE [kv EXCEPT !.pool = Touch(Touch(@, hit.attn), NonNull(<<hit.ssm>>)),
                  !.attn[r].blocks = hit.attn,
                  !.mamba[r].blocks = Append(Nulls(hit.len \div H - 1), hit.ssm)]

\* allocate_new_computed_blocks of both groups; Mamba's table is null but for
\* its last entry.
TakeHit(kv, r, hit) ==
  IF hit.len = 0 THEN kv
  ELSE [kv EXCEPT !.pool = Touch(Touch(@, hit.attn), NonNull(<<hit.ssm>>)),
                  !.attn[r].blocks = hit.attn,
                  !.attn[r].cached = Len(hit.attn),
                  !.mamba[r].blocks = Append(Nulls(hit.len \div H - 1), hit.ssm)]

AttnAllocate(kv, r, tokens) ==
  LET n   == Max2(CeilDiv(tokens, A) - Len(kv.attn[r].blocks), 0)
      new == NewBlocks(kv.pool, n)
  IN  [kv EXCEPT !.pool = GetNewBlocks(@, n),
                 !.attn[r].blocks = @ \o new,
                 !.fresh = @ \o new]

\* make_partial_cache_copy_ops: the hit is copied, as its block is shared.
QueueCopy(kv, r) ==
  LET p   == kv.pend[r]
      dst == kv.attn[r].blocks[p.index + 1]
  IN  IF p = None THEN kv
      ELSE IF p.index + 1 > Len(kv.attn[r].blocks) \/ dst = p.src
      THEN [kv EXCEPT !.pend[r] = None]
      ELSE [kv EXCEPT !.pend[r] = None,
                      !.copies = Append(@, [src |-> p.src, dst |-> dst, ntok |-> p.ntok])]

AttnCacheBlocks_bug(kv, r, tokens) ==  \* the last, partial block is cached too
  LET a     == kv.attn[r]
      cache(q, j) == CacheFullBlock(q, a.blocks[j], AttnHash(r, j * A))
  IN  [kv EXCEPT !.pool = FoldLeft(cache, @, [k \in 1 .. Len(a.blocks) - a.cached |-> a.cached + k]),
                 !.attn[r].cached = Max2(@, Len(a.blocks))]

AttnCacheBlocks(kv, r, tokens) ==
  LET a    == kv.attn[r]
      full == Max2(0, tokens \div A - a.cached)
      cached[k \in 0 .. full] ==
        IF k = 0 THEN kv.pool
        ELSE CacheFullBlock(cached[k - 1], a.blocks[a.cached + k],
                            AttnHash(r, (a.cached + k) * A))
  IN  [kv EXCEPT !.pool = cached[full], !.attn[r].cached = a.cached + full]

\* Once there is room for tokens in all: take the hit, grow both tables, and
\* publish what the step will have computed.
Grow(kv, r, tokens, hit) ==
  QueueCopy(MambaAllocate(AttnAllocate(TakeHit(PinPartial(kv, r), r, hit), r, tokens),
                          r, tokens), r)

CacheBlocks(kv, r, ntok, tokens) ==
  MambaCacheBlocks(AttnCacheBlocks(kv, r, tokens), r, ntok, tokens)

TryToGrow(kv, r, ntok, tokens, hit) ==
  IF CanFit(kv, r, tokens, hit)
  THEN [ok |-> TRUE,
        kv |-> CacheBlocks(Grow(kv, r, tokens, hit), r, ntok, Min2(tokens, ntok))]
  ELSE [ok |-> FALSE, kv |-> [kv EXCEPT !.pend[r] = None]]

\* allocate_slots for n new tokens after computed ones of r and those of the
\* hit.  A request that does not fit keeps what was published and freed.
AllocateSlots(kv, r, ntok, computed, n, hit) ==
  LET total == computed + hit.len
  IN  TryToGrow(RemoveSkipped(PublishCompleted(kv, r, total), r, total),
                r, ntok, total + n, hit)

-----------------------------------------------------------------------------
(* Release.                                                                *)

\* cache_partial_block_at_boundary, for the block that holds the boundary n, if
\* n is inside a block.
MirrorBoundary(kv, r, n) ==
  LET bs == kv.attn[r].blocks
  IN  IF n % A = 0 \/ n \div A >= Len(bs) THEN kv
      ELSE [kv EXCEPT !.pool =
              CachePartialBlock(@, bs[n \div A + 1], n % A, AttnHash(r, n))]

\* finalize_request_cache: the prompt checkpoint becomes visible to lookups in
\* both groups at once.
Finalize(kv, r) ==
  MirrorBoundary(MambaFinalize(PublishPrefill(kv, r), r), r,
                 IF CanPublishPrefill(kv, r) THEN (CheckpointIdx(r) + 1) * H ELSE 0)

AttnFree_bug(kv, r) ==  \* pinned blocks are not freed
  [kv EXCEPT !.pool = FreeBlocks(@, Reverse(kv.attn[r].blocks)), !.attn[r] = NoAttn]

AttnFree(kv, r) ==
  LET a == kv.attn[r]
  IN  [kv EXCEPT !.pool = FreeBlocks(@, Reverse(a.blocks) \o Reverse(a.pinned)),
                 !.attn[r] = NoAttn]

\* KVCacheManager.free.
Free(kv, r) ==
  MambaFree(AttnFree(Finalize([kv EXCEPT !.pend[r] = None], r), r), r)
=============================================================================
