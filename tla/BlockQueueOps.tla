---------------------------- MODULE BlockQueueOps ----------------------------
(***************************************************************************)
(* The block pool of block_pool.py as the code keeps it: the free list is  *)
(* a queue with the next block to be handed out in front, and the blocks   *)
(* of one hash are a dict in insertion order, of which a lookup returns    *)
(* the first.  Operators over one record; lists of blocks are sequences,   *)
(* because a list may name a block twice.  The null block is outside       *)
(* Block, and callers drop it from their lists.  The field raised records  *)
(* that the code would have left by an exception or a failed assertion.    *)
(***************************************************************************)
EXTENDS Integers, Sequences, SequencesExt, FiniteSetsExt, Queues

CONSTANTS Block, Hash, None

ASSUME QueueAssumption == IsFiniteSet(Block) /\ None \notin Block /\ None \notin Hash

\* How often a list names a block.
Times(bs, b) == Cardinality({i \in 1 .. Len(bs) : bs[i] = b})

\* The blocks enter the queue in the order of their ids.
NewPool(ids) ==
  [queue   |-> ids,
   ref     |-> [b \in Block |-> 0],
   hash    |-> [b \in Block |-> None],
   cached  |-> [h \in Hash |-> <<>>],
   partial |-> [h \in Hash |-> None],
   pids    |-> [b \in Block |-> {}],
   raised  |-> FALSE]

NumFree(q) == Len(q.queue)

\* get_one_block: next(iter(blocks.values())).
CachedBlock(q, h) == IF q.cached[h] = <<>> THEN None ELSE Head(q.cached[h])

-----------------------------------------------------------------------------

\* _maybe_evict_cached_partial_block.
EvictPartial(q, b) ==
  [q EXCEPT !.pids[b] = {},
            !.partial = [h \in Hash |->
              IF h \in q.pids[b] /\ q.partial[h] # None
                 /\ q.partial[h].block = b
              THEN None ELSE q.partial[h]]]

(* A name with _bug is a faulty variant of the definition that follows it: *)
(* put in its place, it must break a property of a run.                    *)

EvictCached_bug(q, b) ==  \* partial entries are not evicted
  LET h == q.hash[b]
  IN  IF h = None \/ ~Contains(q.cached[h], b) THEN q
      ELSE [q EXCEPT !.cached[h] = Among(@, Block \ {b}), !.hash[b] = None]

\* _maybe_evict_cached_block with BlockHashToBlockMap.pop: the other blocks of
\* the hash keep their order.
EvictCached(q, b) ==
  LET p == EvictPartial(q, b)
      h == q.hash[b]
  IN  IF h = None \/ ~Contains(p.cached[h], b) THEN p
      ELSE [p EXCEPT !.cached[h] = Among(@, Block \ {b}), !.hash[b] = None]

\* One block of the list after the other.
EvictBlocks(q, bs) ==
  LET evicted[n \in 0 .. Len(bs)] ==
        IF n = 0 THEN q ELSE EvictCached(evicted[n - 1], bs[n])
  IN  evicted[Len(bs)]

\* get_new_blocks(n) takes the front of the queue: ValueError if it is shorter,
\* and an assertion fails on a block that is still in use.
NewBlocks(q, n) == SubSeq(q.queue, 1, Min({n, Len(q.queue)}))

GetNewBlocks(q, n) ==
  LET bs == NewBlocks(q, n)
  IN  [EvictBlocks(q, bs) EXCEPT
         !.queue = SubSeq(q.queue, n + 1, Len(q.queue)),
         !.ref   = [b \in Block |-> q.ref[b] + Times(bs, b)],
         !.raised = @ \/ Len(bs) < n \/ \E b \in ToSet(bs) : q.ref[b] # 0]

Touch(q, bs) ==
  [q EXCEPT !.queue = Among(q.queue, Block \ ToSet(bs)),
            !.ref   = [b \in Block |-> q.ref[b] + Times(bs, b)]]

FreeBlocks_bugShared(q, bs) ==  \* blocks still in use are queued
  [q EXCEPT !.ref = [b \in Block |-> q.ref[b] - Times(bs, b)], !.queue = @ \o bs]

FreeBlocks_bugFront(q, bs) ==  \* put in front of the queue
  LET ref == [b \in Block |-> q.ref[b] - Times(bs, b)]
  IN  [q EXCEPT !.ref = ref, !.queue = Among(bs, {b \in Block : ref[b] = 0}) \o @]

\* free_blocks: first all the counts go down, then every entry of the list
\* whose block is now unused is appended, for each time it is listed.
FreeBlocks(q, bs) ==
  LET ref == [b \in Block |-> q.ref[b] - Times(bs, b)]
  IN  [q EXCEPT !.ref   = ref,
                !.queue = @ \o Among(bs, {b \in Block : ref[b] = 0})]

CacheFullBlock_bug(q, b, h) ==  \* the newest block is returned first
  [q EXCEPT !.hash[b] = h, !.cached[h] = IF Contains(@, b) THEN @ ELSE <<b>> \o @]

\* cache_full_blocks for one block, with BlockHashToBlockMap.insert; it asserts
\* that the block has no hash yet.
CacheFullBlock(q, b, h) ==
  [q EXCEPT !.hash[b]   = h,
            !.raised    = @ \/ q.hash[b] # None,
            !.cached[h] = IF Contains(@, b) THEN @ ELSE Append(@, b)]

\* cache_partial_block_at_boundary, once the boundary names block b and h.
CachePartialBlock(q, b, valid, h) ==
  LET entry == [block |-> b, valid |-> valid]
      old   == q.partial[h]
      rest  == [c \in Block |-> IF old # None /\ c = old.block
                                THEN q.pids[c] \ {h} ELSE q.pids[c]]
  IN  IF old = entry THEN q
      ELSE [q EXCEPT !.partial[h] = entry,
                     !.pids = [rest EXCEPT ![b] = @ \cup {h}]]

\* reset_prefix_cache: refused while any block is in use.
ResetPrefixCache(q) ==
  IF NumFree(q) # Cardinality(Block) THEN q
  ELSE [q EXCEPT !.cached  = [h \in Hash |-> <<>>],
                 !.partial = [h \in Hash |-> None],
                 !.pids    = [b \in Block |-> {}],
                 !.hash    = [b \in Block |-> None]]
=============================================================================
