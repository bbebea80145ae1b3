---------------------------- MODULE BlockPoolOps ----------------------------
(***************************************************************************)
(* The physical block pool of the prefix cache (block_pool.py): reference  *)
(* counts, the free list, the hash index of full blocks and the index of   *)
(* partial blocks, as operators over one record.  Every operator is one    *)
(* method of BlockPool or BlockHashToBlockMap.                             *)
(*                                                                         *)
(* The free list is the SET of free blocks: which free block is handed out *)
(* next is the caller's choice, so a result about these operators holds    *)
(* for every eviction order.  BlockQueueOps keeps the queue and refines     *)
(* this pool.  The null block, whose ref_cnt the code does not maintain,   *)
(* is outside Block; callers drop it from their lists.                     *)
(***************************************************************************)
EXTENDS Integers, FiniteSets

CONSTANTS Block,  \* physical blocks, the null block excluded
          Hash,   \* block hashes, each with its KV-cache group id
          None    \* Python's None: no hash, no entry

ASSUME NoneAssumption == None \notin Hash /\ None \notin [block: Block, valid: Nat]

PartialEntry == [block: Block, valid: Nat]

PoolType == [free:    SUBSET Block,
             ref:     [Block -> Nat],
             hash:    [Block -> Hash \cup {None}],
             cached:  [Hash -> SUBSET Block],
             partial: [Hash -> PartialEntry \cup {None}],
             pids:    [Block -> SUBSET Hash]]

NewPool == [free    |-> Block,
            ref     |-> [b \in Block |-> 0],
            hash    |-> [b \in Block |-> None],
            cached  |-> [h \in Hash |-> {}],
            partial |-> [h \in Hash |-> None],
            pids    |-> [b \in Block |-> {}]]

-----------------------------------------------------------------------------
(* Lookups.                                                                *)

\* get_one_block returns the oldest member; the cache holds equal blocks, so
\* any member may be returned here.
CachedBlocks(p, h) == p.cached[h]

HasPartial(p, h) == p.partial[h] # None

\* The blocks a lookup of h can return, through either index.
Reachable(p, h) ==
  p.cached[h] \cup (IF HasPartial(p, h) THEN {p.partial[h].block} ELSE {})

\* The hashes under which block b can be found.
PublishedAs(p, b) == {h \in Hash : b \in Reachable(p, h)}

-----------------------------------------------------------------------------
(* Updates.                                                                *)

(* A name with _bug is a faulty variant of the definition that follows it: *)
(* put in its place, it must break a property of a run.                    *)

EvictPartial_bug(p, bs) ==  \* the entries stay
  [p EXCEPT !.pids = [b \in Block |-> IF b \in bs THEN {} ELSE p.pids[b]]]

\* _maybe_evict_cached_partial_block, for every block of bs: drop the entries
\* recorded for the block, unless a newer block has replaced it there.
EvictPartial(p, bs) ==
  [p EXCEPT !.partial = [h \in Hash |->
                           IF /\ HasPartial(p, h)
                              /\ p.partial[h].block \in bs
                              /\ h \in p.pids[p.partial[h].block]
                           THEN None ELSE p.partial[h]],
            !.pids = [b \in Block |-> IF b \in bs THEN {} ELSE p.pids[b]]]

EvictCached_bug(p, bs) ==  \* the hash is not reset
  [EvictPartial(p, bs) EXCEPT
     !.cached = [h \in Hash |-> p.cached[h] \ {b \in bs : p.hash[b] = h}]]

\* _maybe_evict_cached_block, for every block of bs: the hash of a block is
\* reset only if the map really held the block under that hash.
EvictCached(p, bs) ==
  [EvictPartial(p, bs) EXCEPT
     !.cached = [h \in Hash |-> p.cached[h] \ {b \in bs : p.hash[b] = h}],
     !.hash   = [b \in Block |->
                   IF b \in bs /\ p.hash[b] # None
                        /\ b \in p.cached[p.hash[b]]
                   THEN None ELSE p.hash[b]]]

\* get_new_blocks: bs are the blocks popleft_n returned.
GetNewBlocks(p, bs) ==
  LET q == EvictCached(p, bs)
  IN  [q EXCEPT !.free = p.free \ bs,
                !.ref  = [b \in Block |-> IF b \in bs THEN p.ref[b] + 1
                                                      ELSE p.ref[b]]]

Touch_bugCount(p, bs) == [p EXCEPT !.free = p.free \ bs]  \* not counted

Touch_bugFree(p, bs) ==  \* a hit block stays on the free list
  [p EXCEPT !.ref = [b \in Block |-> IF b \in bs THEN p.ref[b] + 1 ELSE p.ref[b]]]

\* touch: a block whose count was zero leaves the free list.
Touch(p, bs) ==
  [p EXCEPT !.free = p.free \ {b \in bs : p.ref[b] = 0},
            !.ref  = [b \in Block |-> IF b \in bs THEN p.ref[b] + 1
                                                  ELSE p.ref[b]]]

\* free_blocks: the blocks keep their hashes and stay candidates for hits.
FreeBlocks(p, bs) ==
  [p EXCEPT !.free = p.free \cup {b \in bs : p.ref[b] = 1},
            !.ref  = [b \in Block |-> IF b \in bs THEN p.ref[b] - 1
                                                  ELSE p.ref[b]]]

\* evict_blocks: out of the indexes only; the block stays with its holders.
EvictBlocks(p, bs) == EvictCached(p, bs)

\* cache_full_blocks, for one block; its assertion is the callers' guard.
CacheFullBlock(p, b, h) ==
  [p EXCEPT !.hash   = [p.hash EXCEPT ![b] = h],
            !.cached = [p.cached EXCEPT ![h] = @ \cup {b}]]

CachePartialBlock_bug(p, b, valid, h) ==  \* the old block keeps the hash
  [p EXCEPT !.partial = [p.partial EXCEPT ![h] = [block |-> b, valid |-> valid]],
            !.pids    = [p.pids EXCEPT ![b] = @ \cup {h}]]

\* cache_partial_block_at_boundary, once the boundary names block b and h:
\* the newest block replaces the entry, and the old block forgets the hash.
CachePartialBlock(p, b, valid, h) ==
  LET entry == [block |-> b, valid |-> valid]
      old   == p.partial[h]
      rest  == [c \in Block |-> IF old # None /\ c = old.block
                                THEN p.pids[c] \ {h} ELSE p.pids[c]]
  IN  IF old = entry THEN p
      ELSE [p EXCEPT !.partial = [p.partial EXCEPT ![h] = entry],
                     !.pids    = [rest EXCEPT ![b] = @ \cup {h}]]

\* reset_prefix_cache: refused while any block is in use.
ResetPrefixCache(p) ==
  IF p.free # Block THEN p
  ELSE [p EXCEPT !.cached  = [h \in Hash |-> {}],
                 !.partial = [h \in Hash |-> None],
                 !.pids    = [b \in Block |-> {}],
                 !.hash    = [b \in Block |-> None]]

-----------------------------------------------------------------------------
(* Consistency of the two indexes of a pool.                               *)

\* The hash a block carries and the map from hashes to blocks say the same.
HashIndexOK(p) ==
  \A b \in Block, h \in Hash : b \in p.cached[h] <=> p.hash[b] = h

\* The partial index and the reverse index from blocks to hashes say the same.
PartialIndexOK(p) ==
  \A b \in Block, h \in Hash :
    h \in p.pids[b] <=> (p.partial[h] # None /\ p.partial[h].block = b)

IndexOK(p) == HashIndexOK(p) /\ PartialIndexOK(p)
=============================================================================
