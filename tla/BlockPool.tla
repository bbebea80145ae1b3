------------------------------ MODULE BlockPool ------------------------------
(***************************************************************************)
(* The block pool driven by its clients, the KV-cache managers: they take  *)
(* blocks, hit blocks through the indexes, write them, publish them under  *)
(* a hash, and give them back, in any order and any number of times.       *)
(*                                                                         *)
(* held and covers are the clients' view: how many references they own,    *)
(* and for which hashes the data now in a block is the right data.  A      *)
(* client is as free as the code lets a manager be: it writes only blocks  *)
(* it holds, never destroys data it published, and publishes a hash only   *)
(* for data it has written.                                                *)
(***************************************************************************)
EXTENDS BlockPoolOps

CONSTANTS MaxHeld,  \* bound on the references to one block (TLC only)
          Valid     \* fill levels of a partial block

ASSUME ValidAssumption == Valid \subseteq Nat

VARIABLES pool, held, covers

vars == <<pool, held, covers>>

\* The pool has its shape, and so has what the clients know of it.
TypeOK == /\ pool \in PoolType
          /\ held \in [Block -> Nat]
          /\ covers \in [Block -> SUBSET Hash]

Init == /\ pool = NewPool
        /\ held = [b \in Block |-> 0]
        /\ covers = [b \in Block |-> {}]

Used == {b \in Block : held[b] > 0}

\* A new block holds nobody's data: the worker zeroes it before use.
Allocate(bs) ==
  /\ bs \subseteq pool.free
  /\ pool' = GetNewBlocks(pool, bs)
  /\ held' = [b \in Block |-> IF b \in bs THEN held[b] + 1 ELSE held[b]]
  /\ covers' = [b \in Block |-> IF b \in bs THEN {} ELSE covers[b]]

\* A request is admitted with a block that a lookup of h returned.
Hit(h, b) ==
  /\ b \in Reachable(pool, h)
  /\ held[b] < MaxHeld
  /\ pool' = Touch(pool, {b})
  /\ held' = [held EXCEPT ![b] = @ + 1]
  /\ UNCHANGED covers

Release(bs) ==
  /\ bs \subseteq Used
  /\ pool' = FreeBlocks(pool, bs)
  /\ held' = [b \in Block |-> IF b \in bs THEN held[b] - 1 ELSE held[b]]
  /\ UNCHANGED covers

\* The worker writes a held block; what is published of it stays intact.
Write(b, data) ==
  /\ b \in Used
  /\ PublishedAs(pool, b) \subseteq data
  /\ covers' = [covers EXCEPT ![b] = data]
  /\ UNCHANGED <<pool, held>>

Publish(b, h) ==
  /\ b \in Used
  /\ h \in covers[b]
  /\ pool.hash[b] = None
  /\ pool' = CacheFullBlock(pool, b, h)
  /\ UNCHANGED <<held, covers>>

PublishPartial(b, h, valid) ==
  /\ b \in Used
  /\ h \in covers[b]
  /\ pool' = CachePartialBlock(pool, b, valid, h)
  /\ UNCHANGED <<held, covers>>

Evict(bs) ==
  /\ pool' = EvictBlocks(pool, bs)
  /\ UNCHANGED <<held, covers>>

Reset ==
  /\ pool' = ResetPrefixCache(pool)
  /\ UNCHANGED <<held, covers>>

Next == \/ \E bs \in SUBSET Block : Allocate(bs)
        \/ \E h \in Hash, b \in Block : Hit(h, b)
        \/ \E bs \in SUBSET Block : Release(bs)
        \/ \E b \in Block, data \in SUBSET Hash : Write(b, data)
        \/ \E b \in Block, h \in Hash : Publish(b, h)
        \/ \E b \in Block, h \in Hash, v \in Valid : PublishPartial(b, h, v)
        \/ \E bs \in SUBSET Block : Evict(bs)
        \/ Reset

Spec == Init /\ [][Next]_vars

-----------------------------------------------------------------------------

\* A block is on the free list exactly when no client holds a reference to it,
\* so get_new_blocks never hands out a block in use and nothing leaks.
FreeIffUnheld == \A b \in Block : /\ b \in pool.free <=> held[b] = 0
                                  /\ pool.ref[b] = held[b]

\* The hash a block carries and the map from hashes to blocks say the same:
\* an eviction always finds the block it evicts.
HashIndexAgrees == HashIndexOK(pool)

\* The partial index and the reverse index from blocks to partial hashes say
\* the same: an evicted block leaves no partial entry behind.
PartialIndexAgrees == PartialIndexOK(pool)

\* Whatever block a lookup of a hash returns, full or partial, holds the data
\* of that hash, however often blocks were evicted, reused and republished.
LookupSound ==
  \A h \in Hash : \A b \in Reachable(pool, h) : h \in covers[b]
=============================================================================
