--------------------------- MODULE BlockPoolProofs ---------------------------
(***************************************************************************)
(* The operators of BlockPoolOps leave a pool well-typed and its indexes   *)
(* consistent, and each lemma says what a lookup can find afterwards; from *)
(* them the invariants of BlockPool, for every set of blocks and hashes,   *)
(* one step per action of the clients.                                     *)
(***************************************************************************)
EXTENDS BlockPool, TLAPS

-----------------------------------------------------------------------------
(* Updating the fields of a pool.                                          *)

\* A pool whose free list and counts are replaced by typed ones is a pool.
LEMMA PoolRefs ==
  ASSUME NEW p \in PoolType,
         NEW f \in SUBSET Block, NEW r \in [Block -> Nat]
  PROVE  [p EXCEPT !.free = f, !.ref = r] \in PoolType
BY DEF PoolType

\* A pool whose partial index is replaced by a typed one is a pool.
LEMMA PoolPartial ==
  ASSUME NEW p \in PoolType,
         NEW pt \in [Hash -> PartialEntry \cup {None}],
         NEW ps \in [Block -> SUBSET Hash]
  PROVE  [p EXCEPT !.partial = pt, !.pids = ps] \in PoolType
BY DEF PoolType

\* Lookups return blocks of the pool.
LEMMA ReachableBlock ==
  ASSUME NEW p \in PoolType, NEW h \in Hash, NEW b \in Reachable(p, h)
  PROVE  b \in Block
BY DEF Reachable, HasPartial, PoolType, PartialEntry

-----------------------------------------------------------------------------
(* Evicting blocks.                                                        *)

\* Evicting any blocks keeps a consistent pool consistent, and afterwards no
\* lookup returns an evicted block, while the other blocks stay where they were.
LEMMA EvictCachedOK ==
  ASSUME NEW p \in PoolType, IndexOK(p), NEW bs \in SUBSET Block
  PROVE  /\ EvictCached(p, bs) \in PoolType
         /\ IndexOK(EvictCached(p, bs))
         /\ EvictCached(p, bs).free = p.free
         /\ EvictCached(p, bs).ref = p.ref
         /\ \A h \in Hash :
              Reachable(EvictCached(p, bs), h) = Reachable(p, h) \ bs
<1> DEFINE q == EvictCached(p, bs)
<1>1. /\ q.free = p.free
      /\ q.ref = p.ref
      /\ q.hash = [b \in Block |-> IF b \in bs /\ p.hash[b] # None
                                        /\ b \in p.cached[p.hash[b]]
                                   THEN None ELSE p.hash[b]]
      /\ q.cached = [h \in Hash |-> p.cached[h] \ {b \in bs : p.hash[b] = h}]
      /\ q.partial = [h \in Hash |-> IF /\ p.partial[h] # None
                                        /\ p.partial[h].block \in bs
                                        /\ h \in p.pids[p.partial[h].block]
                                     THEN None ELSE p.partial[h]]
      /\ q.pids = [b \in Block |-> IF b \in bs THEN {} ELSE p.pids[b]]
  BY DEF EvictCached, EvictPartial, HasPartial, PoolType
<1>2. q \in PoolType
  BY <1>1 DEF EvictCached, EvictPartial, PoolType
<1>3. HashIndexOK(q)
  BY <1>1, NoneAssumption DEF IndexOK, HashIndexOK, PoolType
<1>4. PartialIndexOK(q)
  BY <1>1 DEF IndexOK, PartialIndexOK, PoolType, PartialEntry
<1>5. ASSUME NEW h \in Hash PROVE Reachable(q, h) = Reachable(p, h) \ bs
  BY <1>1 DEF Reachable, HasPartial, IndexOK, HashIndexOK, PartialIndexOK,
              PoolType, PartialEntry
<1> QED BY <1>1, <1>2, <1>3, <1>4, <1>5 DEF IndexOK

\* get_new_blocks: the same, and exactly the blocks it returns leave the free
\* list with one more reference.
LEMMA GetNewBlocksOK ==
  ASSUME NEW p \in PoolType, IndexOK(p), NEW bs \in SUBSET p.free
  PROVE  /\ GetNewBlocks(p, bs) \in PoolType
         /\ IndexOK(GetNewBlocks(p, bs))
         /\ GetNewBlocks(p, bs).free = p.free \ bs
         /\ GetNewBlocks(p, bs).ref =
              [b \in Block |-> IF b \in bs THEN p.ref[b] + 1 ELSE p.ref[b]]
         /\ \A h \in Hash :
              Reachable(GetNewBlocks(p, bs), h) = Reachable(p, h) \ bs
<1> DEFINE q == EvictCached(p, bs)
           r == GetNewBlocks(p, bs)
<1>1. bs \in SUBSET Block
  BY DEF PoolType
<1>2. /\ q \in PoolType /\ IndexOK(q)
      /\ \A h \in Hash : Reachable(q, h) = Reachable(p, h) \ bs
  BY <1>1, EvictCachedOK
<1>3. /\ r.free = p.free \ bs
      /\ r.ref = [b \in Block |-> IF b \in bs THEN p.ref[b] + 1 ELSE p.ref[b]]
      /\ r.hash = q.hash /\ r.cached = q.cached
      /\ r.partial = q.partial /\ r.pids = q.pids
  BY <1>2 DEF GetNewBlocks, PoolType
<1>4. r \in PoolType
  <2>1. p.free \ bs \in SUBSET Block
    BY DEF PoolType
  <2>2. [b \in Block |-> IF b \in bs THEN p.ref[b] + 1 ELSE p.ref[b]]
          \in [Block -> Nat]
    BY DEF PoolType
  <2> QED BY <1>2, <2>1, <2>2, PoolRefs DEF GetNewBlocks
<1>5. IndexOK(r)
  BY <1>2, <1>3 DEF IndexOK, HashIndexOK, PartialIndexOK
<1>6. \A h \in Hash : Reachable(r, h) = Reachable(q, h)
  BY <1>3 DEF Reachable, HasPartial
<1> QED BY <1>2, <1>3, <1>4, <1>5, <1>6

-----------------------------------------------------------------------------
(* References.                                                             *)

\* touch changes counts and the free list, and no index.
LEMMA TouchOK ==
  ASSUME NEW p \in PoolType, IndexOK(p), NEW bs \in SUBSET Block
  PROVE  /\ Touch(p, bs) \in PoolType
         /\ IndexOK(Touch(p, bs))
         /\ Touch(p, bs).free = p.free \ {b \in bs : p.ref[b] = 0}
         /\ Touch(p, bs).ref =
              [b \in Block |-> IF b \in bs THEN p.ref[b] + 1 ELSE p.ref[b]]
         /\ \A h \in Hash : Reachable(Touch(p, bs), h) = Reachable(p, h)
<1> DEFINE q == Touch(p, bs)
<1>1. /\ q.free = p.free \ {b \in bs : p.ref[b] = 0}
      /\ q.ref = [b \in Block |-> IF b \in bs THEN p.ref[b] + 1 ELSE p.ref[b]]
      /\ q.hash = p.hash /\ q.cached = p.cached
      /\ q.partial = p.partial /\ q.pids = p.pids
  BY DEF Touch, PoolType
<1>2. q \in PoolType
  <2>1. p.free \ {b \in bs : p.ref[b] = 0} \in SUBSET Block
    BY DEF PoolType
  <2>2. [b \in Block |-> IF b \in bs THEN p.ref[b] + 1 ELSE p.ref[b]]
          \in [Block -> Nat]
    BY DEF PoolType
  <2> QED BY <2>1, <2>2, PoolRefs DEF Touch
<1> QED BY <1>1, <1>2 DEF IndexOK, HashIndexOK, PartialIndexOK, Reachable,
                          HasPartial

\* free_blocks, of blocks that have references, changes no index either.
LEMMA FreeBlocksOK ==
  ASSUME NEW p \in PoolType, IndexOK(p), NEW bs \in SUBSET Block,
         \A b \in bs : p.ref[b] > 0
  PROVE  /\ FreeBlocks(p, bs) \in PoolType
         /\ IndexOK(FreeBlocks(p, bs))
         /\ FreeBlocks(p, bs).free = p.free \cup {b \in bs : p.ref[b] = 1}
         /\ FreeBlocks(p, bs).ref =
              [b \in Block |-> IF b \in bs THEN p.ref[b] - 1 ELSE p.ref[b]]
         /\ \A h \in Hash : Reachable(FreeBlocks(p, bs), h) = Reachable(p, h)
<1> DEFINE q == FreeBlocks(p, bs)
<1>1. /\ q.free = p.free \cup {b \in bs : p.ref[b] = 1}
      /\ q.ref = [b \in Block |-> IF b \in bs THEN p.ref[b] - 1 ELSE p.ref[b]]
      /\ q.hash = p.hash /\ q.cached = p.cached
      /\ q.partial = p.partial /\ q.pids = p.pids
  BY DEF FreeBlocks, PoolType
<1>2. q \in PoolType
  <2>1. p.free \cup {b \in bs : p.ref[b] = 1} \in SUBSET Block
    BY DEF PoolType
  <2>2. [b \in Block |-> IF b \in bs THEN p.ref[b] - 1 ELSE p.ref[b]]
          \in [Block -> Nat]
    BY DEF PoolType
  <2> QED BY <2>1, <2>2, PoolRefs DEF FreeBlocks
<1> QED BY <1>1, <1>2 DEF IndexOK, HashIndexOK, PartialIndexOK, Reachable,
                          HasPartial

-----------------------------------------------------------------------------
(* Publishing.                                                             *)

\* Publishing a full block that carries no hash makes it, and only it, newly
\* reachable.
LEMMA CacheFullBlockOK ==
  ASSUME NEW p \in PoolType, IndexOK(p),
         NEW b \in Block, NEW h \in Hash, p.hash[b] = None
  PROVE  /\ CacheFullBlock(p, b, h) \in PoolType
         /\ IndexOK(CacheFullBlock(p, b, h))
         /\ CacheFullBlock(p, b, h).free = p.free
         /\ CacheFullBlock(p, b, h).ref = p.ref
         /\ \A g \in Hash : Reachable(CacheFullBlock(p, b, h), g) =
              IF g = h THEN Reachable(p, g) \cup {b} ELSE Reachable(p, g)
<1> DEFINE q == CacheFullBlock(p, b, h)
<1>1. /\ q.free = p.free /\ q.ref = p.ref
      /\ q.partial = p.partial /\ q.pids = p.pids
      /\ q.hash = [p.hash EXCEPT ![b] = h]
      /\ q.cached = [p.cached EXCEPT ![h] = @ \cup {b}]
  BY DEF CacheFullBlock, PoolType
<1>2. q \in PoolType
  BY DEF CacheFullBlock, PoolType
<1>3. HashIndexOK(q)
  BY <1>1, NoneAssumption DEF IndexOK, HashIndexOK, PoolType
<1>4. PartialIndexOK(q)
  BY <1>1 DEF IndexOK, PartialIndexOK
<1>5. ASSUME NEW g \in Hash
      PROVE  Reachable(q, g) =
               IF g = h THEN Reachable(p, g) \cup {b} ELSE Reachable(p, g)
  BY <1>1 DEF Reachable, HasPartial, PoolType
<1> QED BY <1>1, <1>2, <1>3, <1>4, <1>5 DEF IndexOK

\* Publishing a partial block makes at most that block newly reachable, under
\* the published hash only.
LEMMA CachePartialBlockOK ==
  ASSUME NEW p \in PoolType, IndexOK(p),
         NEW b \in Block, NEW h \in Hash, NEW v \in Nat
  PROVE  /\ CachePartialBlock(p, b, v, h) \in PoolType
         /\ IndexOK(CachePartialBlock(p, b, v, h))
         /\ CachePartialBlock(p, b, v, h).free = p.free
         /\ CachePartialBlock(p, b, v, h).ref = p.ref
         /\ \A g \in Hash : Reachable(CachePartialBlock(p, b, v, h), g)
              \subseteq IF g = h THEN Reachable(p, g) \cup {b}
                                 ELSE Reachable(p, g)
<1> DEFINE q == CachePartialBlock(p, b, v, h)
           entry == [block |-> b, valid |-> v]
           old == p.partial[h]
           rest == [c \in Block |-> IF old # None /\ c = old.block
                                    THEN p.pids[c] \ {h} ELSE p.pids[c]]
<1>1. CASE old = entry
  <2>1. q = p
    BY <1>1 DEF CachePartialBlock
  <2> QED BY <2>1
<1>2. CASE old # entry
  <2>1. entry \in PartialEntry /\ entry # None
    BY NoneAssumption DEF PartialEntry
  <2>2. rest \in [Block -> SUBSET Hash]
    BY DEF PoolType
  <2>3. q = [p EXCEPT !.partial = [p.partial EXCEPT ![h] = entry],
                      !.pids = [rest EXCEPT ![b] = @ \cup {h}]]
    BY <1>2 DEF CachePartialBlock
  <2>4. /\ q.free = p.free /\ q.ref = p.ref
        /\ q.hash = p.hash /\ q.cached = p.cached
        /\ q.partial = [p.partial EXCEPT ![h] = entry]
        /\ q.pids = [rest EXCEPT ![b] = @ \cup {h}]
    BY <2>3 DEF PoolType
  <2>5. q \in PoolType
    <3> DEFINE pt == [p.partial EXCEPT ![h] = entry]
               ps == [rest EXCEPT ![b] = @ \cup {h}]
    <3>1. pt \in [Hash -> PartialEntry \cup {None}]
      BY <2>1 DEF PoolType
    <3>2. ps \in [Block -> SUBSET Hash]
      BY <2>2
    <3>3. q = [p EXCEPT !.partial = pt, !.pids = ps]
      BY <2>3
    <3> HIDE DEF pt, ps, q
    <3> QED BY <3>1, <3>2, <3>3, PoolPartial
  <2>6. HashIndexOK(q)
    BY <2>4 DEF IndexOK, HashIndexOK
  <2>7. PartialIndexOK(q)
    BY <2>1, <2>2, <2>4 DEF IndexOK, PartialIndexOK, PoolType, PartialEntry
  <2>8. ASSUME NEW g \in Hash
        PROVE  Reachable(q, g) \subseteq IF g = h THEN Reachable(p, g) \cup {b}
                                                  ELSE Reachable(p, g)
    BY <2>1, <2>4 DEF Reachable, HasPartial, PoolType, PartialEntry
  <2> QED BY <2>4, <2>5, <2>6, <2>7, <2>8 DEF IndexOK
<1> QED BY <1>1, <1>2

\* reset_prefix_cache only ever takes blocks out of reach.
LEMMA ResetPrefixCacheOK ==
  ASSUME NEW p \in PoolType, IndexOK(p)
  PROVE  /\ ResetPrefixCache(p) \in PoolType
         /\ IndexOK(ResetPrefixCache(p))
         /\ ResetPrefixCache(p).free = p.free
         /\ ResetPrefixCache(p).ref = p.ref
         /\ \A h \in Hash :
              Reachable(ResetPrefixCache(p), h) \subseteq Reachable(p, h)
<1> DEFINE q == ResetPrefixCache(p)
<1>1. CASE p.free # Block
  BY <1>1 DEF ResetPrefixCache
<1>2. CASE p.free = Block
  <2>1. /\ q.free = p.free /\ q.ref = p.ref
        /\ q.cached = [h \in Hash |-> {}]
        /\ q.partial = [h \in Hash |-> None]
        /\ q.pids = [b \in Block |-> {}]
        /\ q.hash = [b \in Block |-> None]
    BY <1>2 DEF ResetPrefixCache, PoolType
  <2>2. q \in PoolType
    BY <1>2 DEF ResetPrefixCache, PoolType
  <2> QED BY <2>1, <2>2, NoneAssumption
          DEF IndexOK, HashIndexOK, PartialIndexOK, Reachable, HasPartial
<1> QED BY <1>1, <1>2

-----------------------------------------------------------------------------
(* The specification.                                                      *)

\* What every reachable state satisfies, strong enough to be inductive: the
\* indexes must agree for an eviction to take a block out of every lookup,
\* and the counts must be exact for a block handed out to have no holder.
IInv == TypeOK /\ FreeIffUnheld /\ IndexOK(pool) /\ LookupSound

\* A pool fresh from __init__ satisfies the invariant.
LEMMA InitInv == Init => IInv
<1> SUFFICES ASSUME Init PROVE IInv
  OBVIOUS
<1>1. /\ pool.free = Block /\ pool.ref = [b \in Block |-> 0]
      /\ pool.hash = [b \in Block |-> None]
      /\ pool.cached = [h \in Hash |-> {}]
      /\ pool.partial = [h \in Hash |-> None]
      /\ pool.pids = [b \in Block |-> {}]
  BY DEF Init, NewPool
<1>2. TypeOK
  BY DEF Init, NewPool, PoolType, TypeOK
<1>3. FreeIffUnheld
  BY <1>1 DEF Init, FreeIffUnheld
<1>4. IndexOK(pool)
  BY <1>1, NoneAssumption DEF IndexOK, HashIndexOK, PartialIndexOK
<1>5. LookupSound
  BY <1>1 DEF LookupSound, Reachable, HasPartial
<1> QED BY <1>2, <1>3, <1>4, <1>5 DEF IInv

\* Every operation of a client keeps the invariant.
LEMMA StepInv == IInv /\ [Next]_vars => IInv'
<1> SUFFICES ASSUME IInv, [Next]_vars PROVE IInv'
  OBVIOUS
<1> USE DEF IInv
<1>0. pool \in PoolType /\ held \in [Block -> Nat]
      /\ covers \in [Block -> SUBSET Hash] /\ IndexOK(pool)
  BY DEF TypeOK
<1>1. ASSUME NEW bs \in SUBSET Block, Allocate(bs) PROVE IInv'
  <2>1. bs \in SUBSET pool.free
    BY <1>1 DEF Allocate
  <2>2. /\ pool' \in PoolType /\ IndexOK(pool')
        /\ pool'.free = pool.free \ bs
        /\ pool'.ref = [b \in Block |-> IF b \in bs THEN pool.ref[b] + 1
                                                    ELSE pool.ref[b]]
        /\ \A h \in Hash : Reachable(pool', h) = Reachable(pool, h) \ bs
    BY <1>0, <1>1, <2>1, GetNewBlocksOK DEF Allocate
  <2>3. TypeOK'
    BY <1>0, <1>1, <2>2 DEF Allocate, TypeOK
  <2>4. FreeIffUnheld'
    BY <1>0, <1>1, <2>1, <2>2 DEF Allocate, FreeIffUnheld
  <2>5. LookupSound'
    <3> SUFFICES ASSUME NEW h \in Hash, NEW b \in Reachable(pool', h)
                 PROVE  h \in covers'[b]
      BY DEF LookupSound
    <3>1. b \in Reachable(pool, h) /\ b \notin bs
      BY <2>2
    <3>2. h \in covers[b] /\ b \in Block
      BY <1>0, <3>1, ReachableBlock DEF LookupSound
    <3> QED BY <1>1, <3>1, <3>2 DEF Allocate
  <2> QED BY <2>2, <2>3, <2>4, <2>5
<1>2. ASSUME NEW h \in Hash, NEW b \in Block, Hit(h, b) PROVE IInv'
  <2>1. /\ pool' \in PoolType /\ IndexOK(pool')
        /\ pool'.free = pool.free \ {c \in {b} : pool.ref[c] = 0}
        /\ pool'.ref = [c \in Block |-> IF c \in {b} THEN pool.ref[c] + 1
                                                     ELSE pool.ref[c]]
        /\ \A g \in Hash : Reachable(pool', g) = Reachable(pool, g)
    BY <1>0, <1>2, TouchOK DEF Hit
  <2>2. TypeOK'
    BY <1>0, <1>2, <2>1 DEF Hit, TypeOK
  <2>3. FreeIffUnheld'
    <3> SUFFICES ASSUME NEW c \in Block
                 PROVE  /\ c \in pool'.free <=> held'[c] = 0
                        /\ pool'.ref[c] = held'[c]
      BY DEF FreeIffUnheld
    <3>1. /\ c \in pool.free <=> held[c] = 0
          /\ pool.ref[c] = held[c] /\ held[c] \in Nat
      BY <1>0 DEF FreeIffUnheld
    <3>2. held'[c] = IF c = b THEN held[c] + 1 ELSE held[c]
      BY <1>0, <1>2 DEF Hit
    <3>3. CASE c = b
      BY <2>1, <3>1, <3>2, <3>3
    <3>4. CASE c # b
      BY <2>1, <3>1, <3>2, <3>4
    <3> QED BY <3>3, <3>4
  <2>4. LookupSound'
    BY <1>2, <2>1 DEF Hit, LookupSound
  <2> QED BY <2>1, <2>2, <2>3, <2>4
<1>3. ASSUME NEW bs \in SUBSET Block, Release(bs) PROVE IInv'
  <2>1. \A b \in bs : held[b] > 0 /\ pool.ref[b] > 0
    BY <1>0, <1>3 DEF Release, Used, FreeIffUnheld
  <2>2. /\ pool' \in PoolType /\ IndexOK(pool')
        /\ pool'.free = pool.free \cup {b \in bs : pool.ref[b] = 1}
        /\ pool'.ref = [b \in Block |-> IF b \in bs THEN pool.ref[b] - 1
                                                    ELSE pool.ref[b]]
        /\ \A h \in Hash : Reachable(pool', h) = Reachable(pool, h)
    BY <1>0, <1>3, <2>1, FreeBlocksOK DEF Release
  <2>3. TypeOK'
    BY <1>0, <1>3, <2>1, <2>2 DEF Release, TypeOK
  <2>4. FreeIffUnheld'
    <3> SUFFICES ASSUME NEW b \in Block
                 PROVE  /\ b \in pool'.free <=> held'[b] = 0
                        /\ pool'.ref[b] = held'[b]
      BY DEF FreeIffUnheld
    <3>1. /\ b \in pool.free <=> held[b] = 0
          /\ pool.ref[b] = held[b] /\ held[b] \in Nat
      BY <1>0 DEF FreeIffUnheld
    <3>2. held'[b] = IF b \in bs THEN held[b] - 1 ELSE held[b]
      BY <1>3 DEF Release
    <3>3. CASE b \in bs
      BY <2>1, <2>2, <3>1, <3>2, <3>3
    <3>4. CASE b \notin bs
      BY <2>2, <3>1, <3>2, <3>4
    <3> QED BY <3>3, <3>4
  <2>5. LookupSound'
    BY <1>3, <2>2 DEF Release, LookupSound
  <2> QED BY <2>2, <2>3, <2>4, <2>5
<1>4. ASSUME NEW b \in Block, NEW data \in SUBSET Hash, Write(b, data)
      PROVE  IInv'
  <2>1. TypeOK'
    BY <1>0, <1>4 DEF Write, TypeOK
  <2>2. FreeIffUnheld'
    BY <1>4 DEF Write, FreeIffUnheld
  <2>3. LookupSound'
    <3> SUFFICES ASSUME NEW h \in Hash, NEW c \in Reachable(pool, h)
                 PROVE  h \in covers'[c]
      BY <1>4 DEF Write, LookupSound
    <3>1. c \in Block /\ h \in covers[c]
      BY <1>0, ReachableBlock DEF LookupSound
    <3>2. CASE c = b
      BY <1>0, <1>4, <3>1, <3>2 DEF Write, PublishedAs
    <3>3. CASE c # b
      BY <1>0, <1>4, <3>1, <3>3 DEF Write
    <3> QED BY <3>2, <3>3
  <2> QED BY <1>0, <1>4, <2>1, <2>2, <2>3 DEF Write
<1>5. ASSUME NEW b \in Block, NEW h \in Hash, Publish(b, h) PROVE IInv'
  <2>1. /\ pool' \in PoolType /\ IndexOK(pool')
        /\ pool'.free = pool.free /\ pool'.ref = pool.ref
        /\ \A g \in Hash : Reachable(pool', g) =
             IF g = h THEN Reachable(pool, g) \cup {b} ELSE Reachable(pool, g)
    BY <1>0, <1>5, CacheFullBlockOK DEF Publish
  <2>2. TypeOK' /\ FreeIffUnheld'
    BY <1>0, <1>5, <2>1 DEF Publish, TypeOK, FreeIffUnheld
  <2>3. LookupSound'
    BY <1>5, <2>1 DEF Publish, LookupSound
  <2> QED BY <2>1, <2>2, <2>3
<1>6. ASSUME NEW b \in Block, NEW h \in Hash, NEW v \in Valid,
             PublishPartial(b, h, v)
      PROVE  IInv'
  <2>1. v \in Nat
    BY ValidAssumption
  <2>2. /\ pool' \in PoolType /\ IndexOK(pool')
        /\ pool'.free = pool.free /\ pool'.ref = pool.ref
        /\ \A g \in Hash : Reachable(pool', g) \subseteq
             IF g = h THEN Reachable(pool, g) \cup {b} ELSE Reachable(pool, g)
    BY <1>0, <1>6, <2>1, CachePartialBlockOK DEF PublishPartial
  <2>3. TypeOK' /\ FreeIffUnheld'
    BY <1>0, <1>6, <2>2 DEF PublishPartial, TypeOK, FreeIffUnheld
  <2>4. LookupSound'
    BY <1>6, <2>2 DEF PublishPartial, LookupSound
  <2> QED BY <2>2, <2>3, <2>4
<1>7. ASSUME NEW bs \in SUBSET Block, Evict(bs) PROVE IInv'
  <2>1. /\ pool' \in PoolType /\ IndexOK(pool')
        /\ pool'.free = pool.free /\ pool'.ref = pool.ref
        /\ \A h \in Hash : Reachable(pool', h) = Reachable(pool, h) \ bs
    BY <1>0, <1>7, EvictCachedOK DEF Evict, EvictBlocks
  <2>2. TypeOK' /\ FreeIffUnheld'
    BY <1>0, <1>7, <2>1 DEF Evict, TypeOK, FreeIffUnheld
  <2>3. LookupSound'
    BY <1>7, <2>1 DEF Evict, LookupSound
  <2> QED BY <2>1, <2>2, <2>3
<1>8. CASE Reset
  <2>1. /\ pool' \in PoolType /\ IndexOK(pool')
        /\ pool'.free = pool.free /\ pool'.ref = pool.ref
        /\ \A h \in Hash : Reachable(pool', h) \subseteq Reachable(pool, h)
    BY <1>0, <1>8, ResetPrefixCacheOK DEF Reset
  <2>2. TypeOK' /\ FreeIffUnheld'
    BY <1>0, <1>8, <2>1 DEF Reset, TypeOK, FreeIffUnheld
  <2>3. LookupSound'
    BY <1>8, <2>1 DEF Reset, LookupSound
  <2> QED BY <2>1, <2>2, <2>3
<1>9. CASE UNCHANGED vars
  BY <1>9 DEF vars, TypeOK, FreeIffUnheld, IndexOK, HashIndexOK,
              PartialIndexOK, LookupSound, Reachable, HasPartial
<1> QED BY <1>1, <1>2, <1>3, <1>4, <1>5, <1>6, <1>7, <1>8, <1>9 DEF Next

\* Every behaviour of the pool and its clients satisfies the invariant.
THEOREM Invariant == Spec => []IInv
<1> QED BY InitInv, StepInv, PTL DEF Spec

\* The pool's fields keep their types: no count goes below zero and both
\* indexes hold only blocks of the pool (BlockPool's type invariant).
THEOREM TypeCorrect == Spec => []TypeOK
<1>1. IInv => TypeOK
  BY DEF IInv
<1> QED BY <1>1, Invariant, PTL

\* get_new_blocks never hands out a block that a client holds, and a block
\* that nobody holds is on the free list: nothing is shared by mistake and
\* nothing leaks.
THEOREM Refcounts == Spec => []FreeIffUnheld
<1>1. IInv => FreeIffUnheld
  BY DEF IInv
<1> QED BY <1>1, Invariant, PTL

\* The hash index and the hashes on the blocks never disagree.
THEOREM HashIndex == Spec => []HashIndexAgrees
<1>1. IInv => HashIndexAgrees
  BY DEF IInv, IndexOK, HashIndexAgrees
<1> QED BY <1>1, Invariant, PTL

\* The partial index and its reverse index never disagree.
THEOREM PartialIndex == Spec => []PartialIndexAgrees
<1>1. IInv => PartialIndexAgrees
  BY DEF IInv, IndexOK, PartialIndexAgrees
<1> QED BY <1>1, Invariant, PTL

\* A lookup, full or partial, only ever returns blocks whose data is the data
\* of the hash, through any number of evictions, reuses and replacements.
THEOREM Lookups == Spec => []LookupSound
<1>1. IInv => LookupSound
  BY DEF IInv
<1> QED BY <1>1, Invariant, PTL
=============================================================================
