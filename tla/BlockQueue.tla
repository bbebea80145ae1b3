------------------------------ MODULE BlockQueue ------------------------------
(***************************************************************************)
(* The pool with its free queue and insertion-ordered hash map, driven by  *)
(* the same clients as BlockPool, shown to implement BlockPool: the queue  *)
(* is the set of its members, a dict the set of its blocks.                *)
(***************************************************************************)
EXTENDS BlockQueueOps

CONSTANTS MaxHeld,  \* bound on the references to one block (TLC only)
          Valid     \* fill levels of a partial block

VARIABLES pool, held, covers

vars == <<pool, held, covers>>

\* Block ids are names: any order of the blocks may be the order of their ids.
Init == /\ \E ids \in SetToSeqs(Block) : pool = NewPool(ids)
        /\ held = [b \in Block |-> 0]
        /\ covers = [b \in Block |-> {}]

Used == {b \in Block : held[b] > 0}

\* The lists a manager frees: any order, no block twice.
Lists == SetToAllKPermutations(Block)

\* get_one_block through the full index, or the entry of the partial index.
Lookup(h) ==
  {b \in Block : \/ CachedBlock(pool, h) = b
                 \/ pool.partial[h] # None /\ pool.partial[h].block = b}

\* Every hash under which either index knows block b.
PublishedAs(b) ==
  {h \in Hash : \/ Contains(pool.cached[h], b)
                \/ pool.partial[h] # None /\ pool.partial[h].block = b}

Allocate(n) ==
  /\ n <= NumFree(pool)
  /\ pool' = GetNewBlocks(pool, n)
  /\ LET bs == NewBlocks(pool, n)
     IN  /\ held' = [b \in Block |-> IF Contains(bs, b) THEN held[b] + 1
                                                        ELSE held[b]]
         /\ covers' = [b \in Block |-> IF Contains(bs, b) THEN {}
                                                          ELSE covers[b]]

Hit(h, b) ==
  /\ b \in Lookup(h)
  /\ held[b] < MaxHeld
  /\ pool' = Touch(pool, <<b>>)
  /\ held' = [held EXCEPT ![b] = @ + 1]
  /\ UNCHANGED covers

Release(bs) ==
  /\ ToSet(bs) \subseteq Used
  /\ pool' = FreeBlocks(pool, bs)
  /\ held' = [b \in Block |-> IF Contains(bs, b) THEN held[b] - 1
                                                 ELSE held[b]]
  /\ UNCHANGED covers

Write(b, data) ==
  /\ b \in Used
  /\ PublishedAs(b) \subseteq data
  /\ covers' = [covers EXCEPT ![b] = data]
  /\ UNCHANGED <<pool, held>>

Publish(b, h) ==
  /\ b \in Used
  /\ h \in covers[b]
  /\ pool.hash[b] = None
  /\ pool' = CacheFullBlock(pool, b, h)
  /\ UNCHANGED <<held, covers>>

PublishPartial(b, h, valid) ==
  /\ b \in Used
  /\ h \in covers[b]
  /\ pool' = CachePartialBlock(pool, b, valid, h)
  /\ UNCHANGED <<held, covers>>

Evict(bs) ==
  /\ pool' = EvictBlocks(pool, bs)
  /\ UNCHANGED <<held, covers>>

Reset ==
  /\ pool' = ResetPrefixCache(pool)
  /\ UNCHANGED <<held, covers>>

Next == \/ \E n \in 1 .. Cardinality(Block) : Allocate(n)
        \/ \E h \in Hash, b \in Block : Hit(h, b)
        \/ \E bs \in Lists : Release(bs)
        \/ \E b \in Block, data \in SUBSET Hash : Write(b, data)
        \/ \E b \in Block, h \in Hash : Publish(b, h)
        \/ \E b \in Block, h \in Hash, v \in Valid : PublishPartial(b, h, v)
        \/ \E b \in Block : Evict(<<b>>)
        \/ Reset

Spec == Init /\ [][Next]_vars

-----------------------------------------------------------------------------

\* The free queue lists every free block once and no used block, in spite of
\* blocks leaving its middle when hit and lists being appended in bulk; so the
\* pool never runs short of what it promised, nor hands out a block in use.
QueueExact ==
  /\ ~pool.raised
  /\ IsInjective(pool.queue)
  /\ \A b \in Block : /\ Contains(pool.queue, b) <=> held[b] = 0
                      /\ pool.ref[b] = held[b]

\* A lookup of a hash keeps returning the same block until that block itself
\* leaves the index: publishing duplicates of the block, or evicting them,
\* does not move the requests that hit it to another copy.
LookupStable ==
  [][\A h \in Hash :
       LET b == CachedBlock(pool, h)
       IN  b # None /\ Contains(pool'.cached[h], b)
             => CachedBlock(pool', h) = b]_vars

\* Least recently used first: whatever is hit, handed out or freed, the blocks
\* that stay free keep their order and newly freed blocks queue up behind them.
FreedInOrder ==
  [][IsPrefix(Among(pool.queue, ToSet(pool'.queue)), pool'.queue)]_vars

\* The queue and the ordered dicts implement the pool of free sets.
Abstract ==
  INSTANCE BlockPool WITH
    pool <- [free    |-> ToSet(pool.queue),
             ref     |-> pool.ref,
             hash    |-> pool.hash,
             cached  |-> [h \in Hash |-> ToSet(pool.cached[h])],
             partial |-> pool.partial,
             pids    |-> pool.pids]

ImplementsBlockPool == Abstract!Spec
=============================================================================
