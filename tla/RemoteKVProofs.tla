---------------------------- MODULE RemoteKVProofs ----------------------------
(***************************************************************************)
(* The accounting of requests with remote loads, for every set of requests *)
(* and blocks, and every setting.                                          *)
(***************************************************************************)
EXTENDS RemoteKV, QueuesProofs

-----------------------------------------------------------------------------
(* Numbers of blocks.                                                      *)

\* The larger and the smaller of two numbers.
LEMMA MaxOfTwo ==
  ASSUME NEW a \in Int, NEW b \in Int
  PROVE  /\ Max({a, b}) \in {a, b} /\ Max({a, b}) >= a /\ Max({a, b}) >= b
         /\ Min({a, b}) \in {a, b} /\ Min({a, b}) <= a /\ Min({a, b}) <= b
<1>1. \E x \in {a, b} : \A y \in {a, b} : x >= y
  <2>1. CASE a >= b
    BY <2>1
  <2>2. CASE b >= a
    BY <2>2
  <2> QED BY <2>1, <2>2
<1>2. \E x \in {a, b} : \A y \in {a, b} : x <= y
  <2>1. CASE a >= b
    BY <2>1
  <2>2. CASE b >= a
    BY <2>2
  <2> QED BY <2>1, <2>2
<1>3. Max({a, b}) \in {a, b} /\ \A y \in {a, b} : Max({a, b}) >= y
  BY <1>1 DEF Max
<1>4. Min({a, b}) \in {a, b} /\ \A y \in {a, b} : Min({a, b}) <= y
  BY <1>2 DEF Min
<1> QED BY <1>3, <1>4

\* The least of some numbers.
LEMMA MinOfSome ==
  ASSUME NEW S \in SUBSET Nat, S # {}
  PROVE  Min(S) \in S
BY LeastNumber DEF Min

\* What division by the block size gives.
LEMMA BlockDivision ==
  ASSUME NEW n \in Nat
  PROVE  /\ n \div BlockSize \in Nat
         /\ (n \div BlockSize) * BlockSize <= n
         /\ n < (n \div BlockSize + 1) * BlockSize
BY RemoteAssumption

\* A multiple of the block size is reached when its quotient is.
LEMMA QuotientBound ==
  ASSUME NEW n \in Nat, NEW k \in Nat
  PROVE  /\ k <= n \div BlockSize => k * BlockSize <= n
         /\ k * BlockSize <= n => k <= n \div BlockSize
<1> DEFINE d == n \div BlockSize
<1>1. d \in Nat /\ d * BlockSize <= n /\ n < (d + 1) * BlockSize
  BY BlockDivision
<1>2. BlockSize \in Nat /\ BlockSize > 0
  BY RemoteAssumption
<1> HIDE DEF d
<1>3. ASSUME k <= d PROVE k * BlockSize <= n
  <2>1. k * BlockSize <= d * BlockSize
    BY <1>1, <1>2, <1>3
  <2> QED BY <1>1, <1>2, <2>1
<1>4. ASSUME k * BlockSize <= n PROVE k <= d
  <2> SUFFICES ASSUME k >= d + 1 PROVE FALSE
    BY <1>1
  <2>1. k * BlockSize >= (d + 1) * BlockSize
    BY <1>1, <1>2
  <2> QED BY <1>1, <1>2, <1>4, <2>1
<1> QED BY <1>3, <1>4 DEF d

\* n tokens fill no more blocks than they need, and more tokens need no fewer; the
\* last block they need begins before their last token.
LEMMA BlocksNeeded ==
  ASSUME NEW n \in Nat
  PROVE  /\ NumBlocks(n) \in Nat /\ n \div BlockSize <= NumBlocks(n)
         /\ \A k \in 1 .. NumBlocks(n) :
              /\ n > 0 /\ (k - 1) * BlockSize \in 0 .. n - 1
              /\ k - 1 \in 0 .. (n - 1) \div BlockSize
<1>1. BlockSize \in Nat /\ BlockSize > 0 /\ n + BlockSize - 1 \in Nat
  BY RemoteAssumption
<1>2. NumBlocks(n) \in Nat /\ NumBlocks(n) * BlockSize <= n + BlockSize - 1
  BY <1>1, BlockDivision DEF NumBlocks
<1>3. n \div BlockSize <= NumBlocks(n)
  <2>1. n \div BlockSize \in Nat /\ (n \div BlockSize) * BlockSize <= n
    BY BlockDivision
  <2>2. (n \div BlockSize) * BlockSize <= n + BlockSize - 1
    BY <1>1, <2>1
  <2> QED BY <1>1, <2>1, <2>2, QuotientBound DEF NumBlocks
<1>4. ASSUME NEW k \in 1 .. NumBlocks(n)
      PROVE  /\ n > 0 /\ (k - 1) * BlockSize \in 0 .. n - 1
             /\ k - 1 \in 0 .. (n - 1) \div BlockSize
  <2>1. k \in Nat /\ k > 0 /\ k - 1 \in Nat
    BY <1>2
  <2>2. k * BlockSize <= n + BlockSize - 1
    BY <1>1, <1>2, <2>1, QuotientBound DEF NumBlocks
  <2>3. k * BlockSize = (k - 1) * BlockSize + BlockSize
    BY <1>1, <2>1
  <2>4. (k - 1) * BlockSize \in Nat
    BY <1>1, <2>1
  <2>5. n > 0 /\ (k - 1) * BlockSize <= n - 1
    BY <1>1, <2>2, <2>3, <2>4
  <2>6. k - 1 <= (n - 1) \div BlockSize
    BY <2>1, <2>5, QuotientBound
  <2> QED BY <2>1, <2>4, <2>5, <2>6, BlockDivision
<1> QED BY <1>2, <1>3, <1>4

\* More tokens have more full blocks.
LEMMA DivisionOrder ==
  ASSUME NEW m \in Nat, NEW n \in Nat, m <= n
  PROVE  m \div BlockSize <= n \div BlockSize
<1>1. m \div BlockSize \in Nat /\ (m \div BlockSize) * BlockSize <= m
  BY BlockDivision
<1>2. (m \div BlockSize) * BlockSize <= n
  BY <1>1, RemoteAssumption
<1> QED BY <1>1, <1>2, QuotientBound

-----------------------------------------------------------------------------
(* What is done to the pool.                                               *)

\* New counts and a new free list make a pool.
LEMMA PoolRefs ==
  ASSUME NEW p \in PoolType,
         NEW f \in SUBSET Block, NEW r \in [Block -> Nat]
  PROVE  [p EXCEPT !.free = f, !.ref = r] \in PoolType
BY DEF PoolType

\* An eviction takes the hashes of the blocks, and their places in the indexes.
LEMMA EvictCachedOK ==
  ASSUME NEW p \in PoolType, IndexOK(p), NEW bs \in SUBSET Block
  PROVE  /\ EvictCached(p, bs) \in PoolType /\ IndexOK(EvictCached(p, bs))
         /\ EvictCached(p, bs).free = p.free /\ EvictCached(p, bs).ref = p.ref
<1> DEFINE q == EvictCached(p, bs)
<1>1. /\ q.free = p.free /\ q.ref = p.ref
      /\ q.hash = [b \in Block |-> IF b \in bs /\ p.hash[b] # None /\ b \in p.cached[p.hash[b]]
                                   THEN None ELSE p.hash[b]]
      /\ q.cached = [h \in Hash |-> p.cached[h] \ {b \in bs : p.hash[b] = h}]
      /\ q.partial = [h \in Hash |-> IF /\ p.partial[h] # None
                                        /\ p.partial[h].block \in bs
                                        /\ h \in p.pids[p.partial[h].block]
                                     THEN None ELSE p.partial[h]]
      /\ q.pids = [b \in Block |-> IF b \in bs THEN {} ELSE p.pids[b]]
  BY DEF EvictCached, EvictPartial, HasPartial, PoolType
<1>2. q \in PoolType
  BY <1>1 DEF EvictCached, EvictPartial, PoolType
<1>3. HashIndexOK(q)
  BY <1>1, NoneAssumption DEF IndexOK, HashIndexOK, PoolType
<1>4. PartialIndexOK(q)
  BY <1>1 DEF IndexOK, PartialIndexOK, PoolType, PartialEntry
<1> QED
  BY <1>1, <1>2, <1>3, <1>4 DEF IndexOK

\* get_new_blocks, of free blocks.
LEMMA GetNewBlocksOK ==
  ASSUME NEW p \in PoolType, IndexOK(p), NEW bs \in SUBSET p.free
  PROVE  /\ GetNewBlocks(p, bs) \in PoolType /\ IndexOK(GetNewBlocks(p, bs))
         /\ GetNewBlocks(p, bs).free = p.free \ bs
         /\ GetNewBlocks(p, bs).ref = [b \in Block |-> IF b \in bs THEN p.ref[b] + 1 ELSE p.ref[b]]
<1> DEFINE q == EvictCached(p, bs)
           f == p.free \ bs
           n == [b \in Block |-> IF b \in bs THEN p.ref[b] + 1 ELSE p.ref[b]]
           r == GetNewBlocks(p, bs)
<1>1. bs \in SUBSET Block /\ f \in SUBSET Block /\ n \in [Block -> Nat]
  BY DEF PoolType
<1>2. q \in PoolType /\ IndexOK(q)
  BY <1>1, EvictCachedOK
<1>3. r = [q EXCEPT !.free = f, !.ref = n]
  BY DEF GetNewBlocks
<1> HIDE DEF q, f, n, r
<1>4. r \in PoolType
  BY <1>1, <1>2, <1>3, PoolRefs
<1>5. /\ r.free = f /\ r.ref = n /\ r.hash = q.hash /\ r.cached = q.cached
      /\ r.partial = q.partial /\ r.pids = q.pids
  BY <1>2, <1>3 DEF PoolType
<1>6. IndexOK(r)
  BY <1>2, <1>5 DEF IndexOK, HashIndexOK, PartialIndexOK
<1> QED
  BY <1>4, <1>5, <1>6 DEF r, f, n

\* touch leaves the indexes alone.
LEMMA TouchOK ==
  ASSUME NEW p \in PoolType, IndexOK(p), NEW bs \in SUBSET Block
  PROVE  /\ Touch(p, bs) \in PoolType /\ IndexOK(Touch(p, bs))
         /\ Touch(p, bs).free = p.free \ {b \in bs : p.ref[b] = 0}
         /\ Touch(p, bs).ref = [b \in Block |-> IF b \in bs THEN p.ref[b] + 1 ELSE p.ref[b]]
<1> DEFINE f == p.free \ {b \in bs : p.ref[b] = 0}
           n == [b \in Block |-> IF b \in bs THEN p.ref[b] + 1 ELSE p.ref[b]]
           q == Touch(p, bs)
<1>1. f \in SUBSET Block /\ n \in [Block -> Nat]
  BY DEF PoolType
<1>2. q = [p EXCEPT !.free = f, !.ref = n]
  BY DEF Touch
<1> HIDE DEF f, n, q
<1>3. q \in PoolType
  BY <1>1, <1>2, PoolRefs
<1>4. /\ q.free = f /\ q.ref = n /\ q.hash = p.hash /\ q.cached = p.cached
      /\ q.partial = p.partial /\ q.pids = p.pids
  BY <1>2 DEF PoolType
<1>5. IndexOK(q)
  BY <1>4 DEF IndexOK, HashIndexOK, PartialIndexOK
<1> QED
  BY <1>3, <1>4, <1>5 DEF q, f, n

\* touch of the hits, and get_new_blocks.
Given(p, hits, new) == GetNewBlocks(Touch(p, hits), new)

\* Blocks that a request is given have one more reference; the new ones lose their
\* hashes, the hits keep them.
LEMMA GivenOK ==
  ASSUME NEW p \in PoolType, IndexOK(p), NEW hits \in SUBSET Block,
         NEW new \in SUBSET (p.free \ hits)
  PROVE  /\ Given(p, hits, new) \in PoolType /\ IndexOK(Given(p, hits, new))
         /\ \A b \in Block :
              /\ Given(p, hits, new).ref[b] = IF b \in hits \cup new THEN p.ref[b] + 1
                                              ELSE p.ref[b]
              /\ b \in Given(p, hits, new).free
                   <=> b \in p.free /\ b \notin new /\ ~(b \in hits /\ p.ref[b] = 0)
              /\ Given(p, hits, new).hash[b] = IF b \in new THEN None ELSE p.hash[b]
<1> DEFINE t == Touch(p, hits)
           e == EvictCached(t, new)
           g == GetNewBlocks(t, new)
<1>1. /\ t \in PoolType /\ IndexOK(t) /\ t.free = p.free \ {b \in hits : p.ref[b] = 0}
      /\ t.ref = [b \in Block |-> IF b \in hits THEN p.ref[b] + 1 ELSE p.ref[b]]
      /\ t.hash = p.hash
  <2>1. t.hash = p.hash
    BY DEF Touch, PoolType
  <2> QED BY <2>1, TouchOK
<1> HIDE DEF t
<1>2. new \in SUBSET t.free /\ new \in SUBSET Block
  BY <1>1 DEF PoolType
<1>3. /\ g \in PoolType /\ IndexOK(g) /\ g.free = t.free \ new
      /\ g.ref = [b \in Block |-> IF b \in new THEN t.ref[b] + 1 ELSE t.ref[b]]
  BY <1>1, <1>2, GetNewBlocksOK
<1>4. ASSUME NEW b \in Block PROVE g.hash[b] = IF b \in new THEN None ELSE t.hash[b]
  <2>1. e.hash = [c \in Block |-> IF c \in new /\ t.hash[c] # None
                                       /\ c \in t.cached[t.hash[c]]
                                  THEN None ELSE t.hash[c]]
    BY <1>1, <1>2 DEF EvictCached, EvictPartial, PoolType
  <2>2. e \in PoolType
    BY <1>1, <1>2, EvictCachedOK
  <2>3. g.hash = e.hash
    <3> HIDE DEF e
    <3>1. g = [e EXCEPT !.free = t.free \ new,
                        !.ref = [c \in Block |-> IF c \in new THEN t.ref[c] + 1 ELSE t.ref[c]]]
      BY DEF GetNewBlocks, e
    <3> QED BY <2>2, <3>1 DEF PoolType
  <2>4. t.hash[b] # None => b \in t.cached[t.hash[b]]
    BY <1>1 DEF IndexOK, HashIndexOK, PoolType
  <2> HIDE DEF g, e
  <2> QED BY <2>1, <2>3, <2>4
<1> HIDE DEF g
<1>5. ASSUME NEW b \in Block
      PROVE  /\ g.ref[b] = IF b \in hits \cup new THEN p.ref[b] + 1 ELSE p.ref[b]
             /\ b \in g.free <=> b \in p.free /\ b \notin new /\ ~(b \in hits /\ p.ref[b] = 0)
             /\ g.hash[b] = IF b \in new THEN None ELSE p.hash[b]
  <2>1. b \in hits => b \notin new
    OBVIOUS
  <2> QED BY <1>1, <1>3, <1>4, <2>1
<1>6. g = Given(p, hits, new)
  BY DEF g, t, Given
<1> QED BY <1>3, <1>5, <1>6

\* evict_blocks takes hashes away.
LEMMA EvictedOK ==
  ASSUME NEW p \in PoolType, IndexOK(p), NEW bs \in SUBSET Block
  PROVE  /\ EvictBlocks(p, bs) \in PoolType /\ IndexOK(EvictBlocks(p, bs))
         /\ EvictBlocks(p, bs).ref = p.ref /\ EvictBlocks(p, bs).free = p.free
         /\ \A b \in Block : EvictBlocks(p, bs).hash[b] \in {p.hash[b], None}
<1> DEFINE e == EvictCached(p, bs)
<1>1. e \in PoolType /\ IndexOK(e) /\ e.ref = p.ref /\ e.free = p.free
  BY EvictCachedOK
<1>2. e.hash = [c \in Block |-> IF c \in bs /\ p.hash[c] # None /\ c \in p.cached[p.hash[c]]
                                THEN None ELSE p.hash[c]]
  BY DEF EvictCached, EvictPartial, PoolType
<1> HIDE DEF e
<1> QED BY <1>1, <1>2 DEF e, EvictBlocks

\* cache_blocks: the full blocks of a table get the hashes of their text, the others
\* keep theirs.
LEMMA CachedOK ==
  ASSUME NEW p \in PoolType, IndexOK(p), NEW r \in Req, NEW q, q.blocks \in Queue(Block),
         q.ncached \in Nat, NEW n \in Nat, n \div BlockSize <= Len(q.blocks),
         \A k \in NewlyFull(q, n) : p.hash[q.blocks[k]] = None /\ HashOf(r, k - 1) \in Hash
  PROVE  /\ CacheBlocks(p, r, q, n) \in PoolType /\ IndexOK(CacheBlocks(p, r, q, n))
         /\ CacheBlocks(p, r, q, n).ref = p.ref /\ CacheBlocks(p, r, q, n).free = p.free
         /\ \A b \in Block : (\A k \in NewlyFull(q, n) : q.blocks[k] # b)
              => CacheBlocks(p, r, q, n).hash[b] = p.hash[b]
<1> DEFINE full == NewlyFull(q, n)
           c    == CacheBlocks(p, r, q, n)
           at(b) == CHOOSE k \in full : q.blocks[k] = b
<1>1. \A k \in full : k \in 1 .. Len(q.blocks) /\ q.blocks[k] \in Block /\ k - 1 \in Nat
  <2>1. n \div BlockSize \in Nat /\ Len(q.blocks) \in Nat
    BY BlockDivision, QueuePlaces
  <2>2. \A k \in 1 .. Len(q.blocks) : q.blocks[k] \in Block
    BY QueuePlaces
  <2>3. \A k \in full : k \in 1 .. Len(q.blocks) /\ k - 1 \in Nat
    BY <2>1 DEF NewlyFull
  <2> QED BY <2>2, <2>3
<1>2. /\ c.free = p.free /\ c.ref = p.ref /\ c.partial = p.partial /\ c.pids = p.pids
      /\ c.hash = [b \in Block |-> IF \E k \in full : q.blocks[k] = b THEN HashOf(r, at(b) - 1)
                                   ELSE p.hash[b]]
      /\ c.cached = [h \in Hash |-> p.cached[h] \cup
                       {q.blocks[k] : k \in {i \in full : HashOf(r, i - 1) = h}}]
  BY DEF CacheBlocks, PoolType
<1>3. ASSUME NEW k \in full PROVE at(q.blocks[k]) = k
  <2>1. at(q.blocks[k]) \in full /\ q.blocks[at(q.blocks[k])] = q.blocks[k]
    OBVIOUS
  <2> HIDE DEF full, at
  <2> QED BY <1>1, <2>1, QueuePlaces
<1>4. ASSUME NEW k \in full PROVE c.hash[q.blocks[k]] = HashOf(r, k - 1)
  <2>1. \E j \in full : q.blocks[j] = q.blocks[k]
    OBVIOUS
  <2> HIDE DEF c, at, full
  <2>2. c.hash[q.blocks[k]] = HashOf(r, at(q.blocks[k]) - 1)
    BY <1>1, <1>2, <2>1
  <2> QED BY <1>3, <2>2
<1>5. ASSUME NEW b \in Block, \A k \in full : q.blocks[k] # b PROVE c.hash[b] = p.hash[b]
  <2> HIDE DEF c
  <2> QED BY <1>2, <1>5
<1> HIDE DEF at
<1>6. c \in PoolType
  <2>1. c.hash \in [Block -> Hash \cup {None}]
    <3>1. \A b \in Block : c.hash[b] \in Hash \cup {None}
      BY <1>4, <1>5 DEF PoolType
    <3> HIDE DEF c
    <3> QED BY <1>2, <3>1
  <2>2. c.cached \in [Hash -> SUBSET Block]
    <3> HIDE DEF c, full
    <3> QED BY <1>1, <1>2 DEF PoolType
  <2>3. c = [p EXCEPT !.hash = c.hash, !.cached = c.cached]
    BY DEF CacheBlocks, PoolType
  <2> HIDE DEF c
  <2> QED BY <2>1, <2>2, <2>3 DEF PoolType
<1>7. HashIndexOK(c)
  <2> SUFFICES ASSUME NEW b \in Block, NEW h \in Hash
               PROVE  b \in c.cached[h] <=> c.hash[b] = h
    BY DEF HashIndexOK
  <2>1. b \in p.cached[h] <=> p.hash[b] = h
    BY DEF IndexOK, HashIndexOK
  <2>2. c.cached[h] = p.cached[h] \cup {q.blocks[k] : k \in {i \in full : HashOf(r, i - 1) = h}}
    <3> HIDE DEF c, full
    <3> QED BY <1>2
  <2> HIDE DEF c, full
  <2>3. CASE \E k \in full : q.blocks[k] = b
    <3>1. PICK k \in full : q.blocks[k] = b
      BY <2>3
    <3>2. p.hash[b] = None /\ c.hash[b] = HashOf(r, k - 1)
      BY <1>4, <3>1 DEF full
    <3>3. b \notin p.cached[h]
      BY <2>1, <3>2, NoneAssumption
    <3>4. \A i \in full : q.blocks[i] = b => i = k
      BY <1>1, <3>1, QueuePlaces
    <3> QED BY <2>2, <3>1, <3>2, <3>3, <3>4
  <2>4. CASE ~ \E k \in full : q.blocks[k] = b
    BY <1>5, <2>1, <2>2, <2>4
  <2> QED BY <2>3, <2>4
<1>8. PartialIndexOK(c)
  <2> HIDE DEF c
  <2> QED BY <1>2 DEF IndexOK, PartialIndexOK
<1> QED BY <1>2, <1>5, <1>6, <1>7, <1>8 DEF IndexOK

\* free_blocks: every table given back takes a reference from each of its blocks.
LEMMA FreedOK ==
  ASSUME NEW p \in PoolType, IndexOK(p), NEW rs \in SUBSET Req,
         \A b \in Block : Releases(rs, b) \in 0 .. p.ref[b]
  PROVE  /\ FreeAll(p, rs) \in PoolType /\ IndexOK(FreeAll(p, rs))
         /\ FreeAll(p, rs).hash = p.hash
         /\ \A b \in Block :
              /\ FreeAll(p, rs).ref[b] = p.ref[b] - Releases(rs, b)
              /\ b \in FreeAll(p, rs).free
                   <=> b \in p.free \/ (Releases(rs, b) > 0 /\ p.ref[b] = Releases(rs, b))
<1> DEFINE f == FreeAll(p, rs)
<1>1. /\ f.ref = [b \in Block |-> p.ref[b] - Releases(rs, b)]
      /\ f.free = p.free \cup {b \in Block : Releases(rs, b) > 0 /\ p.ref[b] = Releases(rs, b)}
      /\ f.hash = p.hash /\ f.cached = p.cached /\ f.partial = p.partial /\ f.pids = p.pids
  BY DEF FreeAll, PoolType
<1>2. f.ref \in [Block -> Nat] /\ f.free \in SUBSET Block
  <2> HIDE DEF f
  <2> QED BY <1>1 DEF PoolType
<1>3. f = [p EXCEPT !.ref = f.ref, !.free = f.free]
  BY DEF FreeAll, PoolType
<1> HIDE DEF f
<1>4. f \in PoolType
  BY <1>2, <1>3 DEF PoolType
<1>5. IndexOK(f)
  BY <1>1 DEF IndexOK, HashIndexOK, PartialIndexOK
<1>6. \A b \in Block :
        /\ f.ref[b] = p.ref[b] - Releases(rs, b)
        /\ b \in f.free
             <=> b \in p.free \/ (Releases(rs, b) > 0 /\ p.ref[b] = Releases(rs, b))
  BY <1>1 DEF PoolType
<1> QED BY <1>1, <1>4, <1>5, <1>6 DEF f

-----------------------------------------------------------------------------
(* The invariant.                                                          *)

Pending    == {"waiting", "preempted", "remote"}
Scheduling == {"idle", "running", "waiting", "end"}

Request  == [status : {"absent", "running", "finished"} \cup Pending, computed : Nat,
             ntok : Nat, blocks : Queue(Block), ncached : Nat, preempted : BOOLEAN]
LoadType == [st : {"off", "on", "done"}, into : SUBSET (Block \X Hash), lost : SUBSET Block]
StepType == [phase : Scheduling \cup {"forward", "output"}, i : Nat \ {0}, budget : Nat,
             got : [Req -> Nat], skip : Queue(Req), preempted : BOOLEAN,
             sync : SUBSET (Block \X Hash), invalid : SUBSET Block, tainted : SUBSET Req]

\* The shape of the data.
Typed ==
  /\ conf \in Settings /\ req \in [Req -> Request] /\ pool \in PoolType
  /\ load \in [Req -> LoadType] /\ sends \in [on : SUBSET Req, done : SUBSET Req]
  /\ step \in StepType
  /\ running \in Queue(Req) /\ waiting \in Queue(Req) /\ skipped \in Queue(Req)
  /\ kept \in SUBSET Req /\ recved \in SUBSET Req /\ failed \in SUBSET Req
  /\ exc \in BOOLEAN

\* No request has more tokens computed, or given to it, than it has.
Counts ==
  /\ \A r \in Req :
       /\ req[r].ntok \in Prompt[r] .. Prompt[r] + MaxOut
       /\ req[r].status # "finished" => req[r].ntok < Prompt[r] + MaxOut
       /\ req[r].computed <= req[r].ntok
       /\ step.phase \in Scheduling => /\ req[r].computed + step.got[r] <= req[r].ntok
                                       /\ step.got[r] > 0 => req[r].status = "running"
       /\ step.phase \notin Scheduling => step.got[r] <= req[r].computed
  /\ step.phase = "running" =>
       \A j \in 1 .. Len(running) : j >= step.i => step.got[running[j]] = 0
  /\ step.phase = "idle" => step = Idle

\* Each request is in the queue of its status, and in one place of it.
Lined ==
  /\ ToSet(running) = {r \in Req : req[r].status = "running"}
  /\ ToSet(waiting) \cap ToSet(skipped) = {}
  /\ (ToSet(waiting) \cup ToSet(skipped)) \cap ToSet(step.skip) = {}
  /\ ToSet(waiting) \cup ToSet(skipped) \cup ToSet(step.skip)
       = {r \in Req : req[r].status \in Pending}
  /\ step.phase \notin {"waiting", "end"} => step.skip = <<>>

\* The blocks behind the cached part of a table are in no other table, and in no index.
Own ==
  \A r \in Req : \A k \in req[r].ncached + 1 .. Len(req[r].blocks) :
    /\ pool.hash[req[r].blocks[k]] = None
    /\ \A s \in Req \ {r} : req[r].blocks[k] \notin ToSet(req[s].blocks)

Held ==
  /\ IndexOK(pool) /\ RefsExact /\ Own
  /\ \A r \in Req : req[r].ncached <= Len(req[r].blocks)

\* What a request that does not run has of its prefix.
Waits ==
  \A r \in Req :
    /\ req[r].status \in {"absent", "waiting", "preempted"} /\ req[r].computed = 0
         => req[r].blocks = <<>>
    /\ req[r].status = "absent" => req[r].computed = 0
    /\ req[r].status = "remote" => /\ NumBlocks(req[r].computed) <= Len(req[r].blocks)
                                   /\ req[r].computed = 0 => r \in failed

\* Transfers and the requests they belong to.
Transfers ==
  /\ recved \cup failed \subseteq {r \in Req : req[r].status = "remote"}
  /\ sends.on \cap sends.done = {}
  /\ \A r \in Req :
       /\ req[r].status \notin {"remote", "finished"} => load[r].st = "off"
       /\ req[r].status = "remote" => (r \in recved <=> load[r].st = "off")
       /\ req[r].status = "absent" => r \notin kept
       /\ req[r].status \notin {"absent", "finished"} => r \in kept
       /\ r \in sends.on \cup sends.done => req[r].status = "finished" /\ load[r].st = "off"
       /\ load[r].st # "on" => load[r].into = {}
       /\ \A x \in load[r].into : \E k \in req[r].ncached + 1 .. Len(req[r].blocks) :
            x[1] = req[r].blocks[k]
  /\ NoZombies /\ NoException

IInv == Typed /\ Counts /\ Lined /\ Held /\ Waits /\ Transfers

-----------------------------------------------------------------------------
(* Tables and reference counts.                                            *)

\* There are finitely many holders of a block, and the count is their number.
LEMMA HoldersCounted ==
  ASSUME NEW S \in SUBSET Req
  PROVE  IsFiniteSet(S) /\ Cardinality(S) \in Nat
BY RemoteAssumption, FS_Subset, FS_CardinalityType

\* A table and blocks that are not in it make a longer table.
Longer(table, old, hits, new) ==
  /\ table \in Queue(Block) /\ ToSet(table) = ToSet(old) \cup ToSet(hits) \cup ToSet(new)
  /\ Len(table) = Len(old) + Len(hits) + Len(new)
  /\ \A k \in 1 .. Len(old) : table[k] = old[k]
  /\ \A k \in Len(old) + Len(hits) + 1 .. Len(table) : table[k] \in ToSet(new)

\* A table, hits and new blocks that have nothing in common are concatenated.
LEMMA LongerTable ==
  ASSUME NEW old \in Queue(Block), NEW hits \in Queue(Block), NEW new \in Queue(Block),
         ToSet(old) \cap ToSet(hits) = {},
         (ToSet(old) \cup ToSet(hits)) \cap ToSet(new) = {}
  PROVE  Longer(old \o hits \o new, old, hits, new)
<1>1. old \o hits \in Queue(Block) /\ ToSet(old \o hits) = ToSet(old) \cup ToSet(hits)
  BY QueueConcat
<1>2. /\ old \o hits \o new \in Queue(Block)
      /\ ToSet(old \o hits \o new) = ToSet(old) \cup ToSet(hits) \cup ToSet(new)
  BY <1>1, QueueConcat
<1>3. old \in Seq(Block) /\ hits \in Seq(Block) /\ new \in Seq(Block)
  BY QueuePlaces
<1>4. Len(old \o hits \o new) = Len(old) + Len(hits) + Len(new)
  BY <1>3
<1>5. ASSUME NEW k \in 1 .. Len(old) PROVE (old \o hits \o new)[k] = old[k]
  BY <1>3
<1>6. ASSUME NEW k \in Len(old) + Len(hits) + 1 .. Len(old) + Len(hits) + Len(new)
      PROVE  (old \o hits \o new)[k] \in ToSet(new)
  <2>1. k - Len(old) - Len(hits) \in 1 .. Len(new)
    BY <1>3
  <2>2. (old \o hits \o new)[k] = new[k - Len(old) - Len(hits)]
    BY <1>3
  <2> QED BY <1>3, <2>1, <2>2, Members
<1> QED BY <1>2, <1>4, <1>5, <1>6 DEF Longer

\* What counts, tables and the free list say of one another.
LEMMA HeldFacts ==
  ASSUME IInv
  PROVE  /\ pool \in PoolType /\ IndexOK(pool) /\ req \in [Req -> Request]
         /\ \A b \in Block : /\ pool.ref[b] \in Nat /\ pool.ref[b] = Cardinality(Holders(b))
                             /\ b \in pool.free <=> Holders(b) = {}
                             /\ b \in pool.free <=> pool.ref[b] = 0
         /\ \A r \in Req : /\ req[r].blocks \in Queue(Block) /\ req[r].ncached \in Nat
                           /\ Len(req[r].blocks) \in Nat
                           /\ req[r].ncached <= Len(req[r].blocks)
<1>1. /\ pool \in PoolType /\ IndexOK(pool) /\ req \in [Req -> Request] /\ RefsExact
      /\ \A r \in Req : req[r].ncached <= Len(req[r].blocks)
  BY DEF IInv, Typed, Held
<1>2. ASSUME NEW b \in Block
      PROVE  /\ pool.ref[b] \in Nat /\ pool.ref[b] = Cardinality(Holders(b))
             /\ b \in pool.free <=> Holders(b) = {}
             /\ b \in pool.free <=> pool.ref[b] = 0
  <2>1. Holders(b) \in SUBSET Req
    BY DEF Holders
  <2>2. IsFiniteSet(Holders(b))
    BY <2>1, HoldersCounted
  <2>3. Cardinality(Holders(b)) = 0 <=> Holders(b) = {}
    BY <2>2, FS_EmptySet
  <2> QED BY <1>1, <2>3 DEF RefsExact, PoolType
<1>3. ASSUME NEW r \in Req
      PROVE  req[r].blocks \in Queue(Block) /\ req[r].ncached \in Nat /\ Len(req[r].blocks) \in Nat
  <2>1. req[r].blocks \in Queue(Block) /\ req[r].ncached \in Nat
    BY <1>1 DEF Request
  <2> QED BY <2>1, QueuePlaces
<1> QED BY <1>1, <1>2, <1>3

\* free, as far as the request is concerned.
LEMMA FreedFields ==
  ASSUME NEW q \in Request
  PROVE  /\ Freed(q) \in Request /\ Freed(q).status = q.status /\ Freed(q).computed = q.computed
         /\ Freed(q).ntok = q.ntok /\ Freed(q).blocks = <<>> /\ Freed(q).ncached = 0
<1>1. PICK e \in Queue(Block) : e = <<>>
  BY QueueEmpty
<1>2. Freed(q) = [q EXCEPT !.blocks = e, !.ncached = 0]
  BY <1>1 DEF Freed
<1> DEFINE f == Freed(q)
<1>3. f = [q EXCEPT !.blocks = e, !.ncached = 0]
  BY <1>2
<1> HIDE DEF f
<1>4. /\ f \in Request /\ f.status = q.status /\ f.computed = q.computed
      /\ f.ntok = q.ntok /\ f.blocks = e /\ f.ncached = 0
  BY <1>1, <1>3 DEF Request
<1> QED BY <1>1, <1>4 DEF f

\* Steps that leave tables and pool alone.
LEMMA HeldSame ==
  ASSUME Held, pool' = pool,
         \A r \in Req : req'[r].blocks = req[r].blocks /\ req'[r].ncached = req[r].ncached
  PROVE  Held'
<1>1. ASSUME NEW b PROVE Holders(b)' = Holders(b)
  BY DEF Holders
<1>2. RefsExact'
  BY <1>1 DEF Held, RefsExact
<1>3. Own'
  BY DEF Held, Own
<1> QED BY <1>2, <1>3 DEF Held

\* The same for what is said of transfers.
LEMMA TransfersSame ==
  ASSUME Transfers, UNCHANGED <<recved, failed, kept, connector, exc>>,
         \A r \in Req : /\ req'[r].status = req[r].status /\ req'[r].blocks = req[r].blocks
                        /\ req'[r].ncached = req[r].ncached
  PROVE  Transfers'
BY DEF Transfers, NoZombies, NoException, connector

\* Tables are given back, after blocks may have been evicted.
LEMMA HeldFreed ==
  ASSUME IInv, NEW p \in PoolType, IndexOK(p), p.ref = pool.ref, p.free = pool.free,
         \A b \in Block : p.hash[b] \in {pool.hash[b], None},
         NEW rs \in SUBSET Req, pool' = FreeAll(p, rs),
         \A r \in Req : IF r \in rs THEN req'[r].blocks = <<>> /\ req'[r].ncached = 0
                        ELSE req'[r].blocks = req[r].blocks /\ req'[r].ncached = req[r].ncached
  PROVE  pool' \in PoolType /\ Held'
<1> USE HeldFacts
<1>1. ASSUME NEW b \in Block
      PROVE  /\ Holders(b)' = Holders(b) \ rs
             /\ Releases(rs, b) \in 0 .. pool.ref[b]
             /\ Cardinality(Holders(b)') = pool.ref[b] - Releases(rs, b)
             /\ Holders(b) \cap rs = {} <=> Releases(rs, b) = 0
  <2>1. Holders(b)' = Holders(b) \ rs
    <3>1. ToSet(<<>>) = {}
      BY QueueEmpty
    <3> QED BY <3>1 DEF Holders
  <2>2. {r \in rs : b \in ToSet(req[r].blocks)} = Holders(b) \cap rs
    BY DEF Holders
  <2>3. Holders(b) \in SUBSET Req /\ Holders(b) \cap rs \in SUBSET Req
    BY DEF Holders
  <2>4. IsFiniteSet(Holders(b)) /\ IsFiniteSet(Holders(b) \cap rs)
    BY <2>3, HoldersCounted
  <2>5. Cardinality(Holders(b) \cap rs) \in 0 .. Cardinality(Holders(b))
    BY <2>4, FS_Subset, FS_CardinalityType
  <2>6. Cardinality(Holders(b) \ rs) = Cardinality(Holders(b)) - Cardinality(Holders(b) \cap rs)
    BY <2>4, FS_Difference
  <2>7. Cardinality(Holders(b) \cap rs) = 0 <=> Holders(b) \cap rs = {}
    BY <2>4, FS_EmptySet
  <2> QED BY <2>1, <2>2, <2>5, <2>6, <2>7 DEF Releases
<1>2. /\ pool' \in PoolType /\ IndexOK(pool') /\ pool'.hash = p.hash
      /\ \A b \in Block :
           /\ pool'.ref[b] = p.ref[b] - Releases(rs, b)
           /\ b \in pool'.free
                <=> b \in p.free \/ (Releases(rs, b) > 0 /\ p.ref[b] = Releases(rs, b))
  <2>1. \A b \in Block : Releases(rs, b) \in 0 .. p.ref[b]
    BY <1>1
  <2> QED BY <2>1, FreedOK
<1>3. RefsExact'
  <2>1. \A b \in Block : pool'.ref[b] = Cardinality(Holders(b)')
    BY <1>1, <1>2
  <2>2. pool'.free = {b \in Block : pool'.ref[b] = 0}
    <3>1. pool'.free \in SUBSET Block
      BY <1>2 DEF PoolType
    <3>2. \A b \in Block : b \in pool'.free <=> pool'.ref[b] = 0
      BY <1>1, <1>2
    <3> QED BY <3>1, <3>2
  <2> QED BY <2>1, <2>2 DEF RefsExact
<1>4. Own'
  <2> SUFFICES ASSUME NEW r \in Req, NEW k \in req'[r].ncached + 1 .. Len(req'[r].blocks)
               PROVE  /\ pool'.hash[req'[r].blocks[k]] = None
                      /\ \A s \in Req \ {r} : req'[r].blocks[k] \notin ToSet(req'[s].blocks)
    BY Zenon DEF Own
  <2>1. r \notin rs /\ req'[r].blocks = req[r].blocks /\ req'[r].ncached = req[r].ncached
    <3>1. Len(<<>>) = 0
      OBVIOUS
    <3> QED BY <3>1
  <2>2. k \in req[r].ncached + 1 .. Len(req[r].blocks)
    BY <2>1
  <2> DEFINE b == req[r].blocks[k]
  <2>3. pool.hash[b] = None /\ \A s \in Req \ {r} : b \notin ToSet(req[s].blocks)
    BY <2>2 DEF IInv, Held, Own
  <2>4. b \in Block
    <3>1. k \in 1 .. Len(req[r].blocks)
      BY <2>2
    <3> QED BY <3>1, QueuePlaces
  <2> HIDE DEF b
  <2>5. \A s \in Req \ {r} : b \notin ToSet(req'[s].blocks)
    <3>1. ToSet(<<>>) = {}
      BY QueueEmpty
    <3> QED BY <2>3, <3>1
  <2>6. pool'.hash[b] = None
    BY <1>2, <2>3, <2>4
  <2>7. b = req'[r].blocks[k]
    BY <2>1 DEF b
  <2> QED BY <2>5, <2>6, <2>7
<1>5. \A r \in Req : req'[r].ncached <= Len(req'[r].blocks)
  <2>1. Len(<<>>) = 0
    OBVIOUS
  <2> QED BY <2>1
<1> QED BY <1>2, <1>3, <1>4, <1>5 DEF Held

\* Hits and new blocks are not in the table they are put behind.
LEMMA BehindTable ==
  ASSUME IInv, NEW r \in Req, NEW hits \in Queue(Block), NEW new \in Queue(Block),
         ToSet(new) \subseteq pool.free \ ToSet(hits), hits # <<>> => req[r].blocks = <<>>
  PROVE  Longer(req[r].blocks \o hits \o new, req[r].blocks, hits, new)
<1> DEFINE old == req[r].blocks
<1>1. old \in Queue(Block)
  BY HeldFacts
<1>2. /\ ToSet(old) \cap ToSet(hits) = {} /\ (ToSet(old) \cup ToSet(hits)) \cap ToSet(new) = {}
  <2>1. hits = <<>> => ToSet(hits) = {}
    BY QueueEmpty
  <2>2. hits # <<>> => ToSet(old) = {}
    BY QueueEmpty
  <2>3. ASSUME NEW b \in ToSet(new) PROVE b \notin ToSet(old)
    <3>1. b \in Block /\ b \in pool.free
      BY HeldFacts DEF PoolType
    <3>2. Holders(b) = {}
      BY <3>1, HeldFacts
    <3> QED BY <3>2 DEF Holders
  <2> QED BY <2>1, <2>2, <2>3
<1> HIDE DEF old
<1>3. Longer(old \o hits \o new, old, hits, new)
  BY <1>1, <1>2, LongerTable
<1> QED BY <1>3 DEF old

\* A request is given hits and new blocks behind its table, and some of it is cached.
LEMMA HeldGiven ==
  ASSUME IInv, NEW r \in Req, NEW hits \in Queue(Block), NEW new \in Queue(Block),
         ToSet(new) \subseteq pool.free \ ToSet(hits),
         \A b \in ToSet(hits) : pool.hash[b] # None,
         hits # <<>> => req[r].blocks = <<>>,
         Longer(req'[r].blocks, req[r].blocks, hits, new),
         req'[r].ncached \in Nat, req'[r].ncached >= req[r].ncached,
         req'[r].ncached >= Len(hits), req'[r].ncached <= Len(req'[r].blocks),
         \A s \in Req \ {r} : req'[s].blocks = req[s].blocks /\ req'[s].ncached = req[s].ncached,
         pool' \in PoolType, IndexOK(pool'),
         \A b \in Block :
           /\ pool'.ref[b] = IF b \in ToSet(hits) \cup ToSet(new) THEN pool.ref[b] + 1
                             ELSE pool.ref[b]
           /\ b \in pool'.free
                <=> b \in pool.free /\ b \notin ToSet(new) /\ ~(b \in ToSet(hits) /\ pool.ref[b] = 0)
           /\ (\A k \in 1 .. req'[r].ncached : req'[r].blocks[k] # b)
                => pool'.hash[b] = IF b \in ToSet(new) THEN None ELSE pool.hash[b]
  PROVE  Held'
<1> DEFINE old == req[r].blocks
           H == ToSet(hits)
           N == ToSet(new)
           table == req'[r].blocks
<1>1. /\ old \in Queue(Block) /\ Len(old) \in Nat /\ Len(hits) \in Nat /\ Len(new) \in Nat
      /\ H \in SUBSET Block /\ N \in SUBSET Block
  <2>1. old \in Queue(Block) /\ Len(old) \in Nat
    BY HeldFacts
  <2>2. hits \in Seq(Block) /\ new \in Seq(Block)
    BY QueuePlaces
  <2> QED BY <2>1, <2>2, Members
<1>2. ASSUME NEW b \in H \cup N PROVE b \in Block /\ r \notin Holders(b)
  <2>1. b \in Block
    BY <1>1
  <2>2. CASE b \in H
    <3>1. hits # <<>>
      BY <2>2, QueueEmpty
    <3>2. ToSet(old) = {}
      BY <3>1, QueueEmpty
    <3> QED BY <2>1, <3>2 DEF Holders
  <2>3. CASE b \in N
    <3>1. Holders(b) = {}
      BY <2>1, <2>3, HeldFacts
    <3> QED BY <2>1, <3>1
  <2> QED BY <2>2, <2>3
<1>5. /\ table \in Queue(Block) /\ ToSet(table) = ToSet(old) \cup H \cup N
      /\ Len(table) = Len(old) + Len(hits) + Len(new)
      /\ \A k \in 1 .. Len(old) : table[k] = old[k]
      /\ \A k \in Len(old) + Len(hits) + 1 .. Len(table) : table[k] \in N
      /\ \A k \in 1 .. Len(table) : table[k] \in ToSet(table) /\ table[k] \in Block
      /\ \A i, j \in 1 .. Len(table) : table[i] = table[j] => i = j
  <2> HIDE DEF table, old
  <2>0. Longer(table, old, hits, new)
    BY DEF table, old
  <2>1. table \in Queue(Block)
    BY <2>0 DEF Longer
  <2>2. table \in Seq(Block) /\ \A i, j \in 1 .. Len(table) : table[i] = table[j] => i = j
    BY <2>1, QueuePlaces
  <2>3. \A k \in 1 .. Len(table) : table[k] \in ToSet(table) /\ table[k] \in Block
    BY <2>2, Members
  <2> QED BY <2>0, <2>2, <2>3 DEF Longer
<1>6. ASSUME NEW b \in Block
      PROVE  Holders(b)' = IF b \in H \cup N THEN Holders(b) \cup {r} ELSE Holders(b)
  <2>1. b \in ToSet(table) <=> b \in ToSet(old) \/ b \in H \cup N
    BY <1>5
  <2>2. \A s \in Req : s \in Holders(b)' <=> b \in ToSet(req'[s].blocks)
    BY DEF Holders
  <2>3. \A s \in Req : s \in Holders(b) <=> b \in ToSet(req[s].blocks)
    BY DEF Holders
  <2>4. Holders(b)' \subseteq Req /\ Holders(b) \subseteq Req
    BY DEF Holders
  <2> HIDE DEF H, N
  <2> QED BY <2>1, <2>2, <2>3, <2>4
<1>7. RefsExact'
  <2>1. ASSUME NEW b \in Block PROVE pool'.ref[b] = Cardinality(Holders(b)')
    <3>1. Holders(b) \in SUBSET Req
      BY DEF Holders
    <3>2. IsFiniteSet(Holders(b))
      BY <3>1, HoldersCounted
    <3>3. CASE b \in H \cup N
      <4>1. Cardinality(Holders(b) \cup {r}) = Cardinality(Holders(b)) + 1
        BY <1>2, <3>2, <3>3, FS_AddElement
      <4> QED BY <1>6, <3>3, <4>1, HeldFacts
    <3>4. CASE b \notin H \cup N
      BY <1>6, <3>4, HeldFacts
    <3> QED BY <3>3, <3>4
  <2>2. pool'.free = {b \in Block : pool'.ref[b] = 0}
    <3>1. pool'.free \in SUBSET Block
      BY DEF PoolType
    <3>2. ASSUME NEW b \in Block PROVE b \in pool'.free <=> pool'.ref[b] = 0
      <4>1. pool.ref[b] \in Nat /\ (b \in pool.free <=> pool.ref[b] = 0)
        BY HeldFacts
      <4> QED BY <4>1
    <3> QED BY <3>1, <3>2
  <2> QED BY <2>1, <2>2 DEF RefsExact
<1>8. Own'
  <2> SUFFICES ASSUME NEW s \in Req, NEW k \in req'[s].ncached + 1 .. Len(req'[s].blocks)
               PROVE  /\ pool'.hash[req'[s].blocks[k]] = None
                      /\ \A t \in Req \ {s} : req'[s].blocks[k] \notin ToSet(req'[t].blocks)
    BY Zenon DEF Own
  <2> DEFINE b == req'[s].blocks[k]
  <2>1. CASE s # r
    <3>1. req'[s].blocks = req[s].blocks /\ k \in req[s].ncached + 1 .. Len(req[s].blocks)
      BY <2>1
    <3>2. pool.hash[b] = None /\ \A t \in Req \ {s} : b \notin ToSet(req[t].blocks)
      BY <3>1 DEF IInv, Held, Own
    <3>3. b \in Block /\ b \in ToSet(req[s].blocks)
      <4>1. /\ k \in 1 .. Len(req[s].blocks) /\ req[s].blocks \in Seq(Block)
        BY <3>1, HeldFacts, QueuePlaces
      <4> QED BY <3>1, <4>1, Members
    <3> HIDE DEF b
    <3>4. b \notin H /\ b \notin N
      <4>1. Holders(b) # {}
        BY <3>3 DEF Holders
      <4> QED BY <3>2, <3>3, <4>1, HeldFacts
    <3>5. b \notin ToSet(table)
      BY <1>5, <2>1, <3>2, <3>4
    <3>6. \A i \in 1 .. req'[r].ncached : table[i] # b
      <4>1. \A i \in 1 .. req'[r].ncached : i \in 1 .. Len(table)
        BY <1>1, <1>5
      <4> QED BY <1>5, <3>5, <4>1
    <3>7. pool'.hash[b] = None
      BY <3>2, <3>3, <3>4, <3>6
    <3>8. \A t \in Req \ {s} : b \notin ToSet(req'[t].blocks)
      BY <3>2, <3>5
    <3> QED BY <3>7, <3>8 DEF b
  <2>2. CASE s = r
    <3>1. k \in 1 .. Len(table) /\ b = table[k] /\ b \in Block /\ k > req'[r].ncached
      <4>1. k \in req'[r].ncached + 1 .. Len(table) /\ b = table[k]
        BY <2>2
      <4>2. Len(table) \in Nat
        BY <1>1, <1>5
      <4> HIDE DEF table, b
      <4>3. k \in 1 .. Len(table) /\ k > req'[r].ncached
        BY <4>1, <4>2
      <4> QED BY <1>5, <4>1, <4>3
    <3>2. \A i \in 1 .. req'[r].ncached : table[i] # b
      <4>1. \A i \in 1 .. req'[r].ncached : i \in 1 .. Len(table) /\ i # k
        BY <1>1, <1>5, <3>1
      <4> QED BY <1>5, <3>1, <4>1
    <3> HIDE DEF b
    <3>3. CASE k <= Len(old)
      <4>1. k \in req[r].ncached + 1 .. Len(old) /\ b = old[k]
        <5>1. k \in Nat /\ req[r].ncached \in Nat
          BY <3>1, HeldFacts, <1>1
        <5>2. k \in 1 .. Len(old)
          BY <3>1, <3>3, <5>1, <1>1
        <5> QED BY <1>5, <3>1, <3>3, <5>1, <5>2
      <4>2. pool.hash[b] = None /\ \A t \in Req \ {r} : b \notin ToSet(req[t].blocks)
        BY <4>1 DEF IInv, Held, Own
      <4>3. r \in Holders(b)
        <5>1. old \in Seq(Block) /\ k \in 1 .. Len(old)
          BY <1>1, <3>1, <3>3, QueuePlaces
        <5> QED BY <4>1, <5>1, Members DEF Holders
      <4>4. b \notin N
        BY <1>2, <4>3
      <4> QED BY <2>2, <3>1, <3>2, <4>2, <4>4 DEF b
    <3>4. CASE k > Len(old)
      <4>1. b \in N
        <5>1. k > Len(old) + Len(hits)
          <6>1. CASE hits = <<>>
            BY <1>1, <3>1, <3>4, <6>1
          <6>2. CASE hits # <<>>
            <7>1. Len(old) = 0
              BY <6>2
            <7> QED BY <1>1, <3>1, <7>1
          <6> QED BY <6>1, <6>2
        <5>2. k \in Len(old) + Len(hits) + 1 .. Len(table)
          BY <1>1, <1>5, <3>1, <5>1
        <5> QED BY <1>5, <3>1, <5>2
      <4>2. pool'.hash[b] = None
        BY <3>1, <3>2, <4>1
      <4>3. Holders(b) = {}
        BY <3>1, <4>1, HeldFacts
      <4>4. \A t \in Req \ {s} : b \notin ToSet(req'[t].blocks)
        BY <2>2, <4>3 DEF Holders
      <4> QED BY <4>2, <4>4 DEF b
    <3> QED BY <1>1, <3>1, <3>3, <3>4
  <2> QED BY <2>1, <2>2
<1>9. \A s \in Req : req'[s].ncached <= Len(req'[s].blocks)
  BY HeldFacts
<1> QED BY <1>7, <1>8, <1>9 DEF Held

-----------------------------------------------------------------------------
(* Initial states, and steps that only move on.                            *)

\* Between two steps nothing is scheduled.
LEMMA IdleTyped == Idle \in StepType /\ Idle.got = [r \in Req |-> 0]
BY QueueEmpty DEF Idle, StepType, Scheduling

\* What the parameters of a run are.
LEMMA ConfFacts ==
  ASSUME IInv, NEW r \in Req
  PROVE  /\ Prompt[r] \in Nat /\ Prompt[r] >= 2 /\ MaxOut \in Nat /\ MaxOut >= 1
         /\ Threshold \in Nat /\ AbortIn \subseteq {"idle", "output"}
         /\ \A k \in 0 .. (Prompt[r] + MaxOut - 2) \div BlockSize : <<Text[r], k>> \in Hash
<1>1. conf \in Settings
  BY DEF IInv, Typed
<1>2. /\ conf.prompt \in [Req -> Nat \ {0, 1}] /\ conf.maxOut \in Nat \ {0}
      /\ conf.threshold \in Nat /\ conf.abortIn \subseteq {"idle", "output"}
      /\ {conf.text[r]} \X (0 .. (conf.prompt[r] + conf.maxOut - 2) \div BlockSize) \subseteq Hash
  BY <1>1, RemoteAssumption
<1>3. \A k \in 0 .. (Prompt[r] + MaxOut - 2) \div BlockSize : <<Text[r], k>> \in Hash
  BY <1>2 DEF Prompt, MaxOut, Text
<1>4. conf.prompt[r] \in Nat \ {0, 1}
  BY <1>2
<1> QED BY <1>2, <1>3, <1>4 DEF Prompt, MaxOut, Threshold, AbortIn

\* No request has arrived, and all blocks are free.
LEMMA InitIInv == Init => IInv
<1> SUFFICES ASSUME Init PROVE IInv
  OBVIOUS
<1>0. conf \in Settings /\ conf.prompt \in [Req -> Nat \ {0, 1}] /\ conf.maxOut \in Nat \ {0}
  BY RemoteAssumption DEF Init
<1>1. /\ req \in [Req -> Request]
      /\ \A r \in Req : /\ req[r].status = "absent" /\ req[r].computed = 0
                        /\ req[r].ntok = Prompt[r] /\ req[r].blocks = <<>>
                        /\ req[r].ncached = 0
  BY <1>0, QueueEmpty DEF Init, Absent, Request, Prompt
<1>2. ASSUME NEW b PROVE Holders(b) = {}
  BY <1>1, QueueEmpty DEF Holders
<1>3. /\ pool \in PoolType /\ IndexOK(pool) /\ pool.free = Block
      /\ \A b \in Block : pool.ref[b] = 0
  BY NoneAssumption DEF Init, NewPool, PoolType, IndexOK, HashIndexOK, PartialIndexOK
<1>4. Typed
  <2>1. load \in [Req -> LoadType] /\ sends \in [on : SUBSET Req, done : SUBSET Req]
    BY DEF Init, NoLoad, LoadType
  <2> QED BY <1>0, <1>1, <1>3, <2>1, IdleTyped, QueueEmpty DEF Init, Typed
<1>5. Counts
  <2>1. step = Idle /\ Idle.got = [r \in Req |-> 0] /\ Idle.phase = "idle"
    BY DEF Init, Idle
  <2>2. \A r \in Req : Prompt[r] \in Nat
    BY <1>0 DEF Prompt
  <2> QED BY <1>0, <1>1, <2>1, <2>2 DEF Counts, MaxOut, Scheduling
<1>6. Lined
  BY <1>1, QueueEmpty DEF Init, Lined, Idle, Pending
<1>7. Held
  <2>1. RefsExact
    BY <1>2, <1>3, FS_EmptySet DEF RefsExact
  <2>2. Own
    BY <1>1 DEF Own
  <2> QED BY <1>1, <1>3, <2>1, <2>2 DEF Held
<1>8. Waits
  BY <1>1 DEF Waits
<1>9. Transfers
  BY <1>1 DEF Init, Transfers, NoLoad, NoZombies, NoException
<1> QED BY <1>4, <1>5, <1>6, <1>7, <1>8, <1>9 DEF IInv

\* A step that changes nothing but the phase.
LEMMA QuietIInv ==
  ASSUME IInv, UNCHANGED <<conf, req, queues, pool, connector, exc>>,
         step' \in StepType, step'.got = step.got, step'.skip = step.skip,
         step'.phase # "idle", step.phase \in Scheduling <=> step'.phase \in Scheduling,
         step'.phase = "running" => \A r \in Req : step.got[r] = 0,
         step'.phase \notin {"waiting", "end"} => step.skip = <<>>
  PROVE  IInv'
<1>1. Typed'
  BY DEF IInv, Typed, queues, connector
<1>2. Counts'
  <2>1. \A j \in 1 .. Len(running) : running[j] \in Req
    BY QueuePlaces DEF IInv, Typed
  <2> QED BY <2>1 DEF IInv, Counts, queues, Prompt, MaxOut
<1>3. Lined'
  BY DEF IInv, Lined, queues
<1>4. Held'
  BY HeldSame DEF IInv
<1>5. Waits' /\ Transfers'
  BY DEF IInv, Waits, Transfers, NoZombies, NoException, queues, connector
<1> QED BY <1>1, <1>2, <1>3, <1>4, <1>5 DEF IInv

\* The phases of a step end, and the worker runs the batch.
LEMMA MovesOn ==
  ASSUME IInv, Begin \/ EndRunning \/ NoRoom \/ EndWaiting \/ \E lost : Forward(lost)
  PROVE  IInv'
<1>1. /\ step \in StepType /\ (step.phase = "idle" => step = Idle)
      /\ (step.phase \notin {"waiting", "end"} => step.skip = <<>>)
  BY DEF IInv, Typed, Counts, Lined
<1>2. CASE Begin
  <2>1. step = Idle /\ step' = [Idle EXCEPT !.phase = "running", !.budget = Budget]
    BY <1>1, <1>2 DEF Begin
  <2>2. Budget \in Nat
    BY RemoteAssumption
  <2>3. /\ step' \in StepType /\ step'.got = step.got /\ step'.skip = step.skip
        /\ step'.phase = "running" /\ step.phase = "idle" /\ \A r \in Req : step.got[r] = 0
    BY <2>1, <2>2, IdleTyped DEF Idle, StepType, Scheduling
  <2>4. UNCHANGED <<conf, req, queues, pool, connector, exc>>
    BY <1>2 DEF Begin
  <2> QED BY <1>1, <2>3, <2>4, QuietIInv DEF Scheduling
<1>3. CASE EndRunning \/ NoRoom \/ EndWaiting
  <2>1. UNCHANGED <<conf, req, queues, pool, connector, exc>>
    BY <1>3 DEF EndRunning, NoRoom, EndWaiting
  <2>2. PICK ph \in {"waiting", "end"} :
          step' = [step EXCEPT !.phase = ph] /\ step.phase \in {"running", "waiting"}
    BY <1>3 DEF EndRunning, NoRoom, EndWaiting, Schedulable, InWaitingLoop
  <2>3. /\ step' \in StepType /\ step'.got = step.got /\ step'.skip = step.skip
        /\ step'.phase = ph
    BY <1>1, <2>2 DEF StepType, Scheduling
  <2> QED BY <2>1, <2>2, <2>3, QuietIInv DEF Scheduling
<1>4. CASE \E lost : Forward(lost)
  <2>1. PICK lost : Forward(lost)
    BY <1>4
  <2>2. /\ UNCHANGED <<conf, req, queues, pool, connector, exc>> /\ step.phase = "forward"
        /\ lost \subseteq {x[1] : x \in step.sync}
    BY <2>1 DEF Forward
  <2>3. PICK T \in SUBSET Req :
          step' = [step EXCEPT !.phase = "output", !.invalid = lost, !.tainted = T]
    <3>1. \A S : Scheduled \ S \in SUBSET Req
      BY DEF Scheduled
    <3> QED BY <2>1, <3>1 DEF Forward
  <2>4. lost \in SUBSET Block
    BY <1>1, <2>2 DEF StepType
  <2>5. /\ step' \in StepType /\ step'.got = step.got /\ step'.skip = step.skip
        /\ step'.phase = "output"
    BY <1>1, <2>3, <2>4 DEF StepType
  <2> QED BY <1>1, <2>2, <2>5, QuietIInv DEF Scheduling
<1> QED BY <1>2, <1>3, <1>4

-----------------------------------------------------------------------------
(* The worker's transfers.                                                 *)

\* A step of the connector: of the accounting, only Transfers can change.
LEMMA ConnectorIInv ==
  ASSUME IInv, UNCHANGED <<conf, req, queues, pool, step, exc>>,
         load' \in [Req -> LoadType], sends' \in [on : SUBSET Req, done : SUBSET Req],
         \A r \in Req : load'[r].st = "off" <=> load[r].st = "off",
         \A r \in Req : load'[r].into \subseteq load[r].into,
         \A r \in Req : load'[r].st # "on" => load'[r].into = {},
         sends'.on \cup sends'.done = sends.on \cup sends.done, sends'.on \cap sends'.done = {}
  PROVE  IInv'
<1>1. Typed' /\ Counts' /\ Lined' /\ Waits'
  BY DEF IInv, Typed, Counts, Lined, Waits, queues, Prompt, MaxOut
<1>2. Held'
  BY HeldSame DEF IInv
<1>3. Transfers'
  BY DEF IInv, Transfers, NoZombies, NoException, queues
<1> QED BY <1>1, <1>2, <1>3 DEF IInv

\* Blocks arrive, or are given up; a transfer ends.
LEMMA TransferIInv ==
  ASSUME IInv, NEW r \in Req, LoadDone(r) \/ SendDone(r) \/ \E b \in Block : Lose(r, b)
  PROVE  IInv'
<1>1. /\ load \in [Req -> LoadType] /\ sends \in [on : SUBSET Req, done : SUBSET Req]
      /\ sends.on \cap sends.done = {}
      /\ \A s \in Req : load[s].st # "on" => load[s].into = {}
  BY DEF IInv, Typed, Transfers
<1>2. CASE LoadDone(r)
  <2>1. /\ UNCHANGED <<conf, req, queues, pool, step, exc>> /\ sends' = sends
        /\ load[r].st = "on" /\ load' = [load EXCEPT ![r].st = "done", ![r].into = {}]
    BY <1>2 DEF LoadDone
  <2>2. load' \in [Req -> LoadType]
    <3>1. PICK q \in LoadType : q = [load[r] EXCEPT !.st = "done", !.into = {}]
      BY <1>1 DEF LoadType
    <3>2. load' = [load EXCEPT ![r] = q]
      BY <1>1, <2>1, <3>1
    <3> QED BY <1>1, <3>2
  <2>3. \A s \in Req : /\ load'[s].st = "off" <=> load[s].st = "off"
                       /\ load'[s].into \subseteq load[s].into
                       /\ load'[s].st # "on" => load'[s].into = {}
    BY <1>1, <2>1 DEF LoadType
  <2> QED BY <1>1, <2>1, <2>2, <2>3, ConnectorIInv
<1>3. CASE SendDone(r)
  <2>1. /\ UNCHANGED <<conf, req, queues, pool, step, exc>> /\ load' = load
        /\ r \in sends.on /\ sends' = [on |-> sends.on \ {r}, done |-> sends.done \cup {r}]
    BY <1>3 DEF SendDone
  <2>2. /\ sends' \in [on : SUBSET Req, done : SUBSET Req]
        /\ sends'.on \cup sends'.done = sends.on \cup sends.done
        /\ sends'.on \cap sends'.done = {}
    BY <1>1, <2>1
  <2> QED BY <1>1, <2>1, <2>2, ConnectorIInv
<1>4. CASE \E b \in Block : Lose(r, b)
  <2>1. PICK b \in Block : Lose(r, b)
    BY <1>4
  <2>2. /\ UNCHANGED <<conf, req, queues, pool, step, exc>> /\ sends' = sends
        /\ load[r].st = "on"
        /\ load' = [load EXCEPT ![r].into = {x \in @ : x[1] # b}, ![r].lost = @ \cup {b}]
    BY <2>1 DEF Lose
  <2>3. load' \in [Req -> LoadType]
    <3>1. load[r].lost \cup {b} \in SUBSET Block /\ load[r] \in LoadType
          /\ {x \in load[r].into : x[1] # b} \in SUBSET (Block \X Hash)
      BY <1>1 DEF LoadType
    <3>2. PICK q \in LoadType : q = [load[r] EXCEPT !.into = {x \in load[r].into : x[1] # b},
                                                   !.lost = load[r].lost \cup {b}]
      BY <3>1 DEF LoadType
    <3>3. load' = [load EXCEPT ![r] = q]
      BY <1>1, <2>2, <3>2
    <3> QED BY <1>1, <3>3
  <2>4. \A s \in Req : /\ load'[s].st = load[s].st
                       /\ load'[s].into \subseteq load[s].into
    BY <1>1, <2>2 DEF LoadType
  <2> QED BY <1>1, <2>2, <2>3, <2>4, ConnectorIInv
<1> QED BY <1>2, <1>3, <1>4

-----------------------------------------------------------------------------
(* Clients.                                                                *)

\* A request that is not kept holds nothing, and no transfer is about it.
LEMMA ForgottenFacts ==
  ASSUME IInv, NEW r \in Req, r \notin kept
  PROVE  /\ req[r].status \in {"absent", "finished"}
         /\ req[r].blocks = <<>> /\ req[r].ncached = 0
         /\ load[r].st = "off" /\ load[r].into = {} /\ r \notin sends.on \cup sends.done
<1>1. Waits /\ Transfers
  BY DEF IInv
<1>2. req[r].status \in {"absent", "finished"}
  BY <1>1 DEF Transfers
<1>3. /\ load[r].st = "off" /\ load[r].into = {} /\ r \notin sends.on \cup sends.done
      /\ req[r].blocks = <<>>
  BY <1>1, <1>2 DEF Transfers, NoZombies, Waits
<1>4. req[r].ncached = 0
  <2>1. req[r].ncached \in Nat /\ req[r].ncached <= Len(req[r].blocks)
    BY HeldFacts
  <2> QED BY <1>3, <2>1
<1> QED BY <1>2, <1>3, <1>4

\* A request that is put into the waiting queue is otherwise what it was.
LEMMA MadeWaiting ==
  ASSUME NEW x \in Request, NEW y, y = [x EXCEPT !.status = "waiting"]
  PROVE  /\ y \in Request /\ y.status = "waiting"
         /\ y.computed = x.computed /\ y.ntok = x.ntok
         /\ y.blocks = x.blocks /\ y.ncached = x.ncached
  BY DEF Request, Pending

\* add_request.
LEMMA ArriveIInv == ASSUME IInv, NEW r \in Req, Arrive(r) PROVE IInv'
<1>1. /\ Typed /\ Counts /\ Lined /\ Held /\ Waits /\ Transfers
  BY DEF IInv
<1>2. /\ step.phase = "idle" /\ r \notin kept
      /\ req' = [req EXCEPT ![r] = [Absent(r) EXCEPT !.status = "waiting"]]
      /\ waiting' = Append(waiting, r) /\ kept' = kept \cup {r}
      /\ UNCHANGED <<conf, running, skipped, recved, failed, pool, kv, connector, step, wrong, exc>>
  BY DEF Arrive
<1>3. /\ req[r].status \in {"absent", "finished"}
      /\ req[r].blocks = <<>> /\ req[r].ncached = 0
      /\ load[r].st = "off" /\ load[r].into = {} /\ r \notin sends.on \cup sends.done
  BY <1>2, ForgottenFacts
<1>4. Prompt[r] \in Nat /\ MaxOut \in Nat /\ MaxOut >= 1
  BY ConfFacts
<1>5. PICK q \in Request :
        /\ q = [Absent(r) EXCEPT !.status = "waiting"] /\ q.status = "waiting"
        /\ q.computed = 0 /\ q.ntok = Prompt[r] /\ q.blocks = <<>> /\ q.ncached = 0
  <2>1. PICK e \in Queue(Block) : e = <<>>
    BY QueueEmpty
  <2>2. /\ Absent(r) \in Request
        /\ Absent(r).computed = 0 /\ Absent(r).ntok = Prompt[r]
        /\ Absent(r).blocks = <<>> /\ Absent(r).ncached = 0
    <3> DEFINE n == Prompt[r]
    <3>1. n \in Nat
      BY <1>4
    <3>2. Absent(r) = [status |-> "absent", computed |-> 0, ntok |-> n, blocks |-> e,
                       ncached |-> 0, preempted |-> FALSE]
      BY <2>1 DEF Absent
    <3> HIDE DEF n
    <3> QED BY <2>1, <3>1, <3>2 DEF Request, n
  <2> HIDE DEF Absent
  <2>3. PICK y : y = [Absent(r) EXCEPT !.status = "waiting"]
    OBVIOUS
  <2>4. /\ y \in Request /\ y.status = "waiting" /\ y.computed = 0
        /\ y.ntok = Prompt[r] /\ y.blocks = <<>> /\ y.ncached = 0
    BY <2>2, <2>3, MadeWaiting
  <2> QED BY <2>3, <2>4
<1>6. /\ req' \in [Req -> Request]
      /\ \A s \in Req : /\ req'[s].status = IF s = r THEN "waiting" ELSE req[s].status
                        /\ req'[s].computed = IF s = r THEN 0 ELSE req[s].computed
                        /\ req'[s].ntok = IF s = r THEN Prompt[r] ELSE req[s].ntok
                        /\ req'[s].blocks = req[s].blocks /\ req'[s].ncached = req[s].ncached
  <2>1. req \in [Req -> Request] /\ req' = [req EXCEPT ![r] = q]
    BY <1>1, <1>2, <1>5 DEF Typed
  <2>2. \A s \in Req : req'[s] = IF s = r THEN q ELSE req[s]
    BY <2>1
  <2> QED BY <1>3, <1>5, <2>1, <2>2
<1>7. /\ waiting' \in Queue(Req) /\ ToSet(waiting') = ToSet(waiting) \cup {r}
      /\ r \notin ToSet(skipped) \cup ToSet(step.skip)
  <2>1. r \notin ToSet(waiting) \cup ToSet(skipped) \cup ToSet(step.skip)
    BY <1>1, <1>3 DEF Lined, Pending
  <2> QED BY <1>1, <1>2, <2>1, QueueAppend DEF Typed
<1>8. Typed'
  BY <1>1, <1>2, <1>6, <1>7 DEF Typed, connector
<1>9. Counts'
  <2>1. step.got[r] = 0
    BY <1>1, <1>2, IdleTyped DEF Counts
  <2> QED BY <1>1, <1>2, <1>6, <1>4, <2>1 DEF Counts, Prompt, MaxOut
<1>10. Lined'
  BY <1>1, <1>2, <1>6, <1>7, <1>3 DEF Lined, Pending
<1>11. Held'
  BY <1>1, <1>2, <1>6, HeldSame
<1>12. Waits'
  BY <1>1, <1>2, <1>6, <1>3 DEF Waits
<1>13. Transfers'
  BY <1>1, <1>2, <1>6, <1>3 DEF Transfers, NoZombies, NoException, connector
<1> QED BY <1>8, <1>9, <1>10, <1>11, <1>12, <1>13 DEF IInv

\* finish_requests: the blocks of a load under way stay with the ended request.
LEMMA AbortIInv == ASSUME IInv, NEW r \in Req, Abort(r) PROVE IInv'
<1>0. /\ Typed /\ Counts /\ Lined /\ Held /\ Waits /\ Transfers
  BY DEF IInv
<1>1. /\ step.phase \in {"idle", "output"} /\ req[r].status \notin {"absent", "finished"}
      /\ running' = Without(running, {r}) /\ waiting' = Without(waiting, {r})
      /\ skipped' = Without(skipped, {r})
      /\ recved' = recved \ {r} /\ failed' = failed \ {r}
      /\ UNCHANGED <<conf, kv, connector, step, wrong, exc>>
      /\ IF Delayed(r)
         THEN req' = [req EXCEPT ![r] = [req[r] EXCEPT !.status = "finished"]]
              /\ UNCHANGED <<pool, kept>>
         ELSE /\ req' = [req EXCEPT ![r] = Freed([req[r] EXCEPT !.status = "finished"])]
              /\ pool' = FreeAll(pool, {r}) /\ kept' = kept \ {r}
  BY ConfFacts DEF Abort
<1>2. /\ req' \in [Req -> Request]
      /\ \A s \in Req : /\ req'[s].status = IF s = r THEN "finished" ELSE req[s].status
                        /\ req'[s].computed = req[s].computed /\ req'[s].ntok = req[s].ntok
                        /\ IF s = r /\ ~Delayed(r)
                           THEN req'[s].blocks = <<>> /\ req'[s].ncached = 0
                           ELSE req'[s].blocks = req[s].blocks /\ req'[s].ncached = req[s].ncached
  <2>1. CASE Delayed(r)
    BY <1>0, <1>1, <2>1 DEF Typed, Request
  <2>2. CASE ~Delayed(r)
    <3>1. req' = [req EXCEPT ![r] = [req[r] EXCEPT !.status = "finished", !.blocks = <<>>,
                                                  !.ncached = 0]]
      BY <1>0, <1>1, <2>2 DEF Freed, Typed, Request
    <3> QED BY <1>0, <2>2, <3>1, QueueEmpty, ZenonT(60) DEF Typed, Request
  <2> QED BY <2>1, <2>2
<1>3. /\ running' \in Queue(Req) /\ ToSet(running') = ToSet(running) \ {r}
      /\ waiting' \in Queue(Req) /\ ToSet(waiting') = ToSet(waiting) \ {r}
      /\ skipped' \in Queue(Req) /\ ToSet(skipped') = ToSet(skipped) \ {r}
  <2>1. \A q \in Queue(Req) : Without(q, {r}) \in Queue(Req) /\ ToSet(Without(q, {r})) = ToSet(q) \ {r}
    <3>1. \A q \in Queue(Req) : q \in Seq(Req) /\ ToSet(q) \in SUBSET Req
      BY QueuePlaces, Members
    <3> QED BY <3>1, QueueAmong DEF Without
  <2> QED BY <1>0, <1>1, <2>1 DEF Typed
<1>4. pool' \in PoolType /\ Held'
  <2>1. CASE Delayed(r)
    BY <1>0, <1>1, <1>2, <2>1, HeldSame DEF Typed
  <2>2. CASE ~Delayed(r)
    <3>1. pool \in PoolType /\ IndexOK(pool) /\ {r} \in SUBSET Req /\ pool' = FreeAll(pool, {r})
      BY <1>0, <1>1, <2>2 DEF Typed, Held
    <3>2. \A s \in Req : IF s \in {r} THEN req'[s].blocks = <<>> /\ req'[s].ncached = 0
                         ELSE req'[s].blocks = req[s].blocks /\ req'[s].ncached = req[s].ncached
      BY <1>2, <2>2
    <3>3. \A b \in Block : pool.hash[b] \in {pool.hash[b], None}
      OBVIOUS
    <3> QED BY <3>1, <3>2, <3>3, HeldFreed
  <2> QED BY <2>1, <2>2
<1>5. Typed'
  BY <1>0, <1>1, <1>2, <1>3, <1>4 DEF Typed, connector
<1>6. Counts'
  <2>1. step.phase = "idle" => step.got[r] = 0
    BY <1>0, <1>1, IdleTyped DEF Counts
  <2> QED BY <1>0, <1>1, <1>2, <2>1 DEF Counts, Prompt, MaxOut, Scheduling
<1>7. Lined'
  <2>1. step.skip = <<>> /\ ToSet(step.skip) = {}
    BY <1>0, <1>1, QueueEmpty DEF Lined
  <2>2. step' = step /\ r \in Req
    BY <1>1
  <2>3. /\ ToSet(running') = {s \in Req : req'[s].status = "running"}
        /\ ToSet(waiting') \cup ToSet(skipped') = {s \in Req : req'[s].status \in Pending}
    BY <1>0, <1>2, <1>3, <2>1 DEF Lined, Pending
  <2>4. ToSet(waiting') \cap ToSet(skipped') = {}
    BY <1>0, <1>3 DEF Lined
  <2> QED BY <1>0, <2>1, <2>2, <2>3, <2>4 DEF Lined
<1>8. Waits'
  BY <1>0, <1>1, <1>2 DEF Waits
<1>9. Transfers'
  <2>1. Delayed(r) => load[r].st # "off"
    BY <1>0 DEF Transfers, Delayed
  <2>2. ~Delayed(r) => load[r].st = "off"
    BY <1>0, <1>1 DEF Transfers, Delayed
  <2>3. r \notin sends.on \cup sends.done /\ r \in kept
    BY <1>0, <1>1 DEF Transfers
  <2> QED BY <1>0, <1>1, <1>2, <2>1, <2>2, <2>3 DEF Transfers, NoZombies, NoException, connector
<1> QED BY <1>4, <1>5, <1>6, <1>7, <1>8, <1>9 DEF IInv

-----------------------------------------------------------------------------
(* The waiting loop passes over a request, or takes it up again.           *)

\* The candidate waits, and has not been passed over; without it the queues are
\* still queues.
LEMMA CandidateOK ==
  ASSUME IInv, InWaitingLoop
  PROVE  /\ Candidate \in Req /\ req[Candidate].status \in Pending
         /\ Candidate \notin ToSet(step.skip) /\ step.phase = "waiting"
         /\ Candidate \in ToSet(waiting) \cup ToSet(skipped)
         /\ Popped => /\ waiting' \in Queue(Req) /\ skipped' \in Queue(Req)
                      /\ ToSet(waiting') \cap ToSet(skipped') = {}
                      /\ ToSet(waiting') \cup ToSet(skipped')
                           = (ToSet(waiting) \cup ToSet(skipped)) \ {Candidate}
<1>1. /\ waiting \in Queue(Req) /\ skipped \in Queue(Req) /\ Lined /\ step.phase = "waiting"
      /\ skipped # <<>> \/ waiting # <<>>
  BY DEF IInv, Typed, InWaitingLoop
<1>2. CASE skipped # <<>>
  <2>1. /\ Head(skipped) \in ToSet(skipped) /\ Tail(skipped) \in Queue(Req)
        /\ ToSet(Tail(skipped)) = ToSet(skipped) \ {Head(skipped)}
    BY <1>1, <1>2, QueueTail
  <2>2. Candidate = Head(skipped)
    BY <1>2 DEF Candidate
  <2>3. Popped => waiting' = waiting /\ skipped' = Tail(skipped)
    BY <1>2 DEF Popped
  <2> QED BY <1>1, <2>1, <2>2, <2>3 DEF Lined
<1>3. CASE skipped = <<>>
  <2>1. /\ Head(waiting) \in ToSet(waiting) /\ Tail(waiting) \in Queue(Req)
        /\ ToSet(Tail(waiting)) = ToSet(waiting) \ {Head(waiting)}
    BY <1>1, <1>3, QueueTail
  <2>2. Candidate = Head(waiting)
    BY <1>3 DEF Candidate
  <2>3. Popped => waiting' = Tail(waiting) /\ skipped' = skipped
    BY <1>3 DEF Popped
  <2>4. ToSet(skipped) = {}
    BY <1>3, QueueEmpty
  <2> QED BY <1>1, <2>1, <2>2, <2>3, <2>4 DEF Lined
<1> QED BY <1>2, <1>3

\* The candidate joins the requests passed over.
LEMMA PassedOver ==
  ASSUME IInv, InWaitingLoop, step' = [step EXCEPT !.skip = <<Candidate>> \o @]
  PROVE  /\ step' \in StepType /\ step'.got = step.got /\ step'.phase = "waiting"
         /\ step'.i = step.i /\ ToSet(step'.skip) = ToSet(step.skip) \cup {Candidate}
<1>1. step \in StepType /\ step.skip \in Queue(Req)
  BY DEF IInv, Typed, StepType
<1>2. /\ Candidate \in Req /\ Candidate \notin ToSet(step.skip) /\ step.phase = "waiting"
  BY CandidateOK
<1>3. /\ <<Candidate>> \o step.skip \in Queue(Req)
      /\ ToSet(<<Candidate>> \o step.skip) = ToSet(step.skip) \cup {Candidate}
  BY <1>1, <1>2, QueuePush
<1> DEFINE s == <<Candidate>> \o step.skip
<1>4. s \in Queue(Req) /\ ToSet(s) = ToSet(step.skip) \cup {Candidate}
  BY <1>3
<1>5. step' = [step EXCEPT !.skip = s]
  OBVIOUS
<1> HIDE DEF s
<1> QED BY <1>1, <1>2, <1>4, <1>5 DEF StepType

\* The candidate's load is not done.
LEMMA StillLoadingIInv == ASSUME IInv, StillLoading PROVE IInv'
<1>0. /\ Typed /\ Counts /\ Lined /\ Held /\ Waits /\ Transfers
  BY DEF IInv
<1>1. /\ InWaitingLoop /\ Popped /\ step' = [step EXCEPT !.skip = <<Candidate>> \o @]
      /\ UNCHANGED <<conf, req, running, recved, failed, kept, pool, kv, connector, wrong, exc>>
  BY DEF StillLoading
<1>2. /\ Candidate \in Req /\ req[Candidate].status \in Pending
      /\ Candidate \notin ToSet(step.skip) /\ step.phase = "waiting"
      /\ Candidate \in ToSet(waiting) \cup ToSet(skipped)
      /\ waiting' \in Queue(Req) /\ skipped' \in Queue(Req)
      /\ ToSet(waiting') \cap ToSet(skipped') = {}
      /\ ToSet(waiting') \cup ToSet(skipped') = (ToSet(waiting) \cup ToSet(skipped)) \ {Candidate}
  BY <1>1, CandidateOK
<1>3. /\ step' \in StepType /\ step'.got = step.got /\ step'.phase = "waiting"
      /\ step'.i = step.i /\ ToSet(step'.skip) = ToSet(step.skip) \cup {Candidate}
  BY <1>1, PassedOver
<1>4. Typed'
  BY <1>0, <1>1, <1>2, <1>3 DEF Typed, connector
<1>5. Counts'
  BY <1>0, <1>1, <1>2, <1>3 DEF Counts, Prompt, MaxOut, Scheduling
<1>6. Lined'
  BY <1>0, <1>1, <1>2, <1>3 DEF Lined
<1>7. Held'
  BY <1>0, <1>1, HeldSame
<1>8. Waits' /\ Transfers'
  BY <1>0, <1>1 DEF Waits, Transfers, NoZombies, NoException, connector
<1> QED BY <1>4, <1>5, <1>6, <1>7, <1>8 DEF IInv

\* The requests passed over are queued in front of the skipped ones again.
LEMMA EmitIInv == ASSUME IInv, Emit PROVE IInv'
<1>0. /\ Typed /\ Counts /\ Lined /\ Held /\ Waits /\ Transfers
  BY DEF IInv
<1>1. /\ step.phase = "end" /\ skipped' = Reverse(step.skip) \o skipped
      /\ req' = [r \in Req |-> [req[r] EXCEPT !.computed = @ + step.got[r]]]
      /\ step' = [step EXCEPT !.phase = "forward", !.skip = <<>>]
      /\ UNCHANGED <<conf, running, waiting, recved, failed, kept, pool, kv, connector, wrong, exc>>
  BY DEF Emit
<1>2. /\ step' \in StepType /\ step'.got = step.got /\ step'.phase = "forward"
      /\ step'.skip = <<>> /\ \A r \in Req : step.got[r] \in Nat
  BY <1>0, <1>1, QueueEmpty DEF Typed, StepType
<1>3. /\ req' \in [Req -> Request]
      /\ \A r \in Req : /\ req'[r].computed = req[r].computed + step.got[r]
                        /\ req'[r].status = req[r].status /\ req'[r].ntok = req[r].ntok
                        /\ req'[r].blocks = req[r].blocks /\ req'[r].ncached = req[r].ncached
  <2>1. ASSUME NEW r \in Req
        PROVE  /\ req'[r] \in Request /\ req'[r].computed = req[r].computed + step.got[r]
               /\ req'[r].status = req[r].status /\ req'[r].ntok = req[r].ntok
               /\ req'[r].blocks = req[r].blocks /\ req'[r].ncached = req[r].ncached
    <3>1. req[r] \in Request /\ req'[r] = [req[r] EXCEPT !.computed = @ + step.got[r]]
      BY <1>0, <1>1 DEF Typed
    <3>2. step.got[r] \in Nat
      BY <1>2
    <3> QED BY <3>1, <3>2 DEF Request
  <2>2. DOMAIN req' = Req /\ req' = [r \in Req |-> req'[r]]
    BY <1>1
  <2> QED BY <2>1, <2>2
<1>4. /\ skipped' \in Queue(Req) /\ ToSet(skipped') = ToSet(step.skip) \cup ToSet(skipped)
  <2>1. /\ Reverse(step.skip) \in Queue(Req) /\ ToSet(Reverse(step.skip)) = ToSet(step.skip)
        /\ skipped \in Queue(Req)
    BY <1>0, QueueReverse DEF Typed, StepType
  <2>2. ToSet(Reverse(step.skip)) \cap ToSet(skipped) = {}
    BY <1>0, <2>1 DEF Lined
  <2> QED BY <1>1, <2>1, <2>2, QueueConcat
<1>5. Typed'
  BY <1>0, <1>1, <1>2, <1>3, <1>4 DEF Typed, connector
<1>6. \A r \in Req : /\ req[r].computed \in Nat /\ req[r].computed + step.got[r] <= req[r].ntok
                     /\ step.got[r] > 0 => req[r].status = "running"
  BY <1>0, <1>1 DEF Counts, Scheduling, Typed, Request
<1>7. Counts'
  BY <1>0, <1>1, <1>2, <1>3, <1>6 DEF Counts, Prompt, MaxOut, Scheduling
<1>8. Lined'
  <2>1. ToSet(step'.skip) = {}
    BY <1>2, QueueEmpty
  <2>2. /\ ToSet(running') = {r \in Req : req'[r].status = "running"}
        /\ ToSet(waiting') \cup ToSet(skipped') = {r \in Req : req'[r].status \in Pending}
    BY <1>0, <1>1, <1>3, <1>4 DEF Lined
  <2>3. ToSet(waiting') \cap ToSet(skipped') = {}
    BY <1>0, <1>1, <1>4 DEF Lined
  <2> QED BY <1>2, <2>1, <2>2, <2>3 DEF Lined
<1>9. Held'
  BY <1>0, <1>1, <1>3, HeldSame
<1>10. Waits'
  <2>1. \A r \in Req : req[r].status # "running" => req'[r].computed = req[r].computed
    <3>1. ASSUME NEW r \in Req, req[r].status # "running" PROVE req'[r].computed = req[r].computed
      <4>1. step.got[r] = 0
        BY <1>2, <1>6, <3>1
      <4> QED BY <1>3, <1>6, <4>1
    <3> QED BY <3>1
  <2> QED BY <1>0, <1>1, <1>3, <2>1 DEF Waits
<1>11. Transfers'
  BY <1>0, <1>1, <1>3, TransfersSame
<1> QED BY <1>5, <1>7, <1>8, <1>9, <1>10, <1>11 DEF IInv

\* The last running request loses its blocks and waits again.
LEMMA PreemptIInv == ASSUME IInv, Preempt PROVE IInv'
<1>0. /\ Typed /\ Counts /\ Lined /\ Held /\ Waits /\ Transfers
  BY DEF IInv
<1> DEFINE v == Last(running)
<1>1. /\ step.phase = "running" /\ step.i <= Len(running)
      /\ req' = [req EXCEPT ![v] = [Freed(@) EXCEPT !.status = "preempted", !.computed = 0,
                                                    !.preempted = TRUE]]
      /\ pool' = FreeAll(pool, {v}) /\ waiting' = <<v>> \o waiting /\ running' = Front(running)
      /\ step' = [step EXCEPT !.preempted = TRUE]
      /\ UNCHANGED <<conf, skipped, recved, failed, kept, kv, connector, wrong, exc>>
  BY DEF Preempt, InRunningLoop
<1>2. /\ step' \in StepType /\ step'.got = step.got /\ step'.phase = "running"
      /\ step'.i = step.i /\ step'.skip = <<>> /\ step.skip = <<>> /\ step.i \in Nat \ {0}
  <2>1. step \in StepType /\ step.skip = <<>>
    BY <1>0, <1>1 DEF Typed, Lined
  <2> QED BY <1>1, <2>1 DEF StepType
<1>3. /\ running \in Queue(Req) /\ Len(running) \in Nat /\ running # <<>>
      /\ v = running[Len(running)]
      /\ running' \in Queue(Req) /\ ToSet(running') = ToSet(running) \ {v} /\ v \in ToSet(running)
      /\ \A j \in 1 .. Len(running') : j \in 1 .. Len(running) /\ running'[j] = running[j]
  <2>1. running \in Queue(Req) /\ running \in Seq(Req)
    BY <1>0, QueuePlaces DEF Typed
  <2>2. Len(running) \in Nat /\ Len(running) > 0
    BY <1>1, <1>2, <2>1
  <2>3. running # <<>>
    BY <2>2
  <2>4. \A j \in 1 .. Len(Front(running)) : j \in 1 .. Len(running) /\ Front(running)[j] = running[j]
    BY <2>1, <2>2 DEF Front
  <2>5. v = running[Len(running)]
    BY DEF Last
  <2>6. /\ v \in ToSet(running) /\ Front(running) \in Queue(Req)
        /\ ToSet(Front(running)) = ToSet(running) \ {v}
    BY <2>1, <2>3, QueueFront
  <2> HIDE DEF v
  <2> QED BY <1>1, <2>1, <2>2, <2>3, <2>4, <2>5, <2>6
<1>4. v \in Req /\ req[v].status = "running" /\ step.got[v] = 0
  <2>1. v \in Req /\ req[v].status = "running"
    BY <1>0, <1>3 DEF Lined
  <2>2. Len(running) \in 1 .. Len(running) /\ Len(running) >= step.i
    BY <1>1, <1>2, <1>3
  <2> QED BY <1>0, <1>1, <1>3, <2>1, <2>2 DEF Counts
<1> HIDE DEF v
<1>5. /\ req' \in [Req -> Request]
      /\ \A s \in Req : /\ req'[s].ntok = req[s].ntok
                        /\ IF s = v
                           THEN /\ req'[s].status = "preempted" /\ req'[s].computed = 0
                                /\ req'[s].blocks = <<>> /\ req'[s].ncached = 0
                           ELSE /\ req'[s].status = req[s].status
                                /\ req'[s].computed = req[s].computed
                                /\ req'[s].blocks = req[s].blocks
                                /\ req'[s].ncached = req[s].ncached
  <2> DEFINE q == [Freed(req[v]) EXCEPT !.status = "preempted", !.computed = 0,
                                        !.preempted = TRUE]
  <2>1. /\ q \in Request /\ q.ntok = req[v].ntok /\ q.status = "preempted" /\ q.computed = 0
        /\ q.blocks = <<>> /\ q.ncached = 0
    <3>1. req[v] \in Request
      BY <1>0, <1>4 DEF Typed
    <3>2. PICK e \in Queue(Block) : e = <<>>
      BY QueueEmpty
    <3>3. q = [req[v] EXCEPT !.blocks = e, !.ncached = 0, !.status = "preempted",
                             !.computed = 0, !.preempted = TRUE]
      BY <3>1, <3>2 DEF Freed, Request
    <3> HIDE DEF q
    <3>4. q.blocks = e
      BY <3>1, <3>3 DEF Request
    <3> QED BY <3>1, <3>2, <3>3, <3>4 DEF Request, Pending
  <2>2. req' = [req EXCEPT ![v] = q]
    BY <1>1
  <2> HIDE DEF q
  <2> QED BY <1>0, <1>4, <2>1, <2>2 DEF Typed
<1>6. pool' \in PoolType /\ Held'
  <2>1. pool \in PoolType /\ IndexOK(pool) /\ {v} \in SUBSET Req
    BY <1>0, <1>4 DEF Typed, Held
  <2>2. \A s \in Req : IF s \in {v} THEN req'[s].blocks = <<>> /\ req'[s].ncached = 0
                       ELSE req'[s].blocks = req[s].blocks /\ req'[s].ncached = req[s].ncached
    BY <1>5
  <2>3. \A b \in Block : pool.hash[b] \in {pool.hash[b], None}
    OBVIOUS
  <2> QED BY <1>1, <2>1, <2>2, <2>3, HeldFreed
<1>7. waiting' \in Queue(Req) /\ ToSet(waiting') = ToSet(waiting) \cup {v} /\ v \notin ToSet(skipped)
  <2>1. v \notin ToSet(waiting) \cup ToSet(skipped)
    BY <1>0, <1>4 DEF Lined, Pending
  <2>2. waiting \in Queue(Req)
    BY <1>0 DEF Typed
  <2> QED BY <1>1, <1>4, <2>1, <2>2, QueuePush
<1>8. Typed'
  BY <1>0, <1>1, <1>2, <1>3, <1>5, <1>6, <1>7 DEF Typed, connector
<1>9. Counts'
  <2>1. \A j \in 1 .. Len(running') : j >= step.i => step.got[running'[j]] = 0
    BY <1>0, <1>1, <1>3 DEF Counts
  <2>2. conf' = conf /\ step.got[v] = 0 /\ v \in Req /\ req[v].ntok \in Nat
    BY <1>0, <1>1, <1>4 DEF Typed, Request
  <2> QED BY <1>0, <1>1, <1>2, <1>4, <1>5, <2>1, <2>2 DEF Counts, Prompt, MaxOut, Scheduling
<1>10. Lined'
  <2>1. ToSet(step.skip) = {}
    BY <1>2, QueueEmpty
  <2>2. /\ ToSet(running') = {s \in Req : req'[s].status = "running"}
        /\ ToSet(waiting') \cup ToSet(skipped') = {s \in Req : req'[s].status \in Pending}
    BY <1>0, <1>1, <1>3, <1>4, <1>5, <1>7, <2>1 DEF Lined, Pending
  <2>3. ToSet(waiting') \cap ToSet(skipped') = {}
    BY <1>0, <1>1, <1>7 DEF Lined
  <2> QED BY <1>2, <2>1, <2>2, <2>3 DEF Lined
<1>11. Waits'
  BY <1>0, <1>1, <1>4, <1>5 DEF Waits
<1>12. Transfers'
  <2>1. load[v].st = "off" /\ load[v].into = {} /\ v \in kept
    BY <1>0, <1>4 DEF Transfers
  <2> QED BY <1>0, <1>1, <1>4, <1>5, <2>1 DEF Transfers, NoZombies, NoException, connector
<1> QED BY <1>6, <1>8, <1>9, <1>10, <1>11, <1>12 DEF IInv

-----------------------------------------------------------------------------
(* Caching what a table holds.                                             *)

\* There is a hash for every block that the tokens before the last one need.
LEMMA HashesGiven ==
  ASSUME IInv, NEW r \in Req, NEW n \in Nat, n <= Prompt[r] + MaxOut - 1,
         NEW k \in 1 .. NumBlocks(n)
  PROVE  HashOf(r, k - 1) \in Hash
<1>1. n > 0 /\ k - 1 \in 0 .. (n - 1) \div BlockSize
  BY BlocksNeeded
<1>2. n - 1 \in Nat /\ Prompt[r] + MaxOut - 2 \in Nat /\ n - 1 <= Prompt[r] + MaxOut - 2
  BY <1>1, ConfFacts
<1>3. (n - 1) \div BlockSize <= (Prompt[r] + MaxOut - 2) \div BlockSize
  BY <1>2, DivisionOrder
<1>4. (n - 1) \div BlockSize \in Nat /\ (Prompt[r] + MaxOut - 2) \div BlockSize \in Nat
  BY <1>2, BlockDivision
<1>5. k - 1 \in 0 .. (Prompt[r] + MaxOut - 2) \div BlockSize
  BY <1>1, <1>3, <1>4
<1> QED BY <1>5, ConfFacts DEF HashOf

\* Caching n tokens caches at least their full blocks, and forgets none.
LEMMA CachedUpToOK ==
  ASSUME NEW q, q.ncached \in Nat, NEW n \in Nat
  PROVE  /\ CachedUpTo(q, n) \in Nat /\ CachedUpTo(q, n) >= q.ncached
         /\ CachedUpTo(q, n) \in {q.ncached, n \div BlockSize}
         /\ NewlyFull(q, n) \subseteq 1 .. CachedUpTo(q, n)
<1> DEFINE a == q.ncached
           d == n \div BlockSize
           m == Max({a, d})
<1>1. a \in Nat /\ d \in Nat
  BY BlockDivision
<1>2. CachedUpTo(q, n) = m /\ NewlyFull(q, n) = a + 1 .. d
  BY DEF CachedUpTo, NewlyFull
<1>3. m \in {a, d} /\ m >= a /\ m >= d
  <2> HIDE DEF a, d
  <2> QED BY <1>1, MaxOfTwo
<1> HIDE DEF m
<1> QED BY <1>1, <1>2, <1>3

\* A request is given hits and new blocks behind its table, and the full blocks of
\* its first n tokens are cached.
LEMMA HeldCached ==
  ASSUME IInv, NEW r \in Req, NEW hits \in Queue(Block), NEW new \in Queue(Block),
         ToSet(new) \subseteq pool.free \ ToSet(hits),
         \A b \in ToSet(hits) : pool.hash[b] # None,
         hits # <<>> => req[r].blocks = <<>>,
         NEW p \in PoolType, IndexOK(p),
         \A b \in Block :
           /\ p.ref[b] = IF b \in ToSet(hits) \cup ToSet(new) THEN pool.ref[b] + 1 ELSE pool.ref[b]
           /\ b \in p.free
                <=> b \in pool.free /\ b \notin ToSet(new) /\ ~(b \in ToSet(hits) /\ pool.ref[b] = 0)
           /\ p.hash[b] = IF b \in ToSet(new) THEN None ELSE pool.hash[b],
         NEW q, Longer(q.blocks, req[r].blocks, hits, new), q.ncached \in Nat,
         q.ncached >= req[r].ncached, q.ncached >= Len(hits), q.ncached <= Len(q.blocks),
         NEW n \in Nat, n <= Prompt[r] + MaxOut - 1, NumBlocks(n) <= Len(q.blocks),
         pool' = CacheBlocks(p, r, q, n),
         req'[r].blocks = q.blocks, req'[r].ncached = CachedUpTo(q, n),
         \A s \in Req \ {r} : req'[s].blocks = req[s].blocks /\ req'[s].ncached = req[s].ncached
  PROVE  pool' \in PoolType /\ Held'
<1> DEFINE old == req[r].blocks
<1>1. /\ old \in Queue(Block) /\ Len(old) \in Nat /\ Len(hits) \in Nat /\ Len(new) \in Nat
      /\ req[r].ncached \in Nat /\ req[r].ncached <= Len(old)
  <2>1. hits \in Seq(Block) /\ new \in Seq(Block)
    BY QueuePlaces
  <2> QED BY <2>1, HeldFacts, Members
<1>3. Longer(q.blocks, old, hits, new)
  OBVIOUS
<1>4. q.blocks \in Queue(Block) /\ Len(q.blocks) \in Nat
  BY <1>3, QueuePlaces, Members DEF Longer
<1>5. n \div BlockSize \in Nat /\ n \div BlockSize <= NumBlocks(n) /\ NumBlocks(n) \in Nat
  BY BlockDivision, BlocksNeeded
<1>6. ASSUME NEW k \in NewlyFull(q, n)
      PROVE  p.hash[q.blocks[k]] = None /\ HashOf(r, k - 1) \in Hash
  <2>1. /\ k \in 1 .. NumBlocks(n) /\ k \in 1 .. Len(q.blocks) /\ k > q.ncached /\ k \in Nat
    BY <1>4, <1>5 DEF NewlyFull
  <2>2. HashOf(r, k - 1) \in Hash
    BY <2>1, HashesGiven
  <2>3. q.blocks[k] \in Block
    BY <1>4, <2>1, QueuePlaces
  <2>4. CASE k <= Len(old)
    <3>1. hits = <<>> /\ k \in req[r].ncached + 1 .. Len(old) /\ k \in 1 .. Len(old)
      <4>1. hits = <<>>
        <5>1. old = <<>> => Len(old) = 0
          OBVIOUS
        <5> QED BY <2>1, <2>4, <5>1
      <4> QED BY <1>1, <2>1, <2>4, <4>1
    <3>2. q.blocks[k] = old[k]
      BY <1>3, <3>1 DEF Longer
    <3>3. pool.hash[old[k]] = None
      BY <3>1 DEF IInv, Held, Own
    <3> QED BY <2>2, <2>3, <3>2, <3>3
  <2>5. CASE k > Len(old)
    <3>1. k > Len(old) + Len(hits)
      <4>1. CASE hits = <<>>
        <5>1. Len(hits) = 0
          BY <4>1
        <5> QED BY <1>1, <2>1, <2>5, <5>1
      <4>2. CASE hits # <<>>
        <5>1. Len(old) = 0
          BY <4>2
        <5> QED BY <1>1, <2>1, <5>1
      <4> QED BY <4>1, <4>2
    <3>2. k \in Len(old) + Len(hits) + 1 .. Len(q.blocks)
      BY <1>1, <1>4, <2>1, <3>1
    <3>3. q.blocks[k] \in ToSet(new)
      BY <1>3, <3>2 DEF Longer
    <3> QED BY <2>2, <2>3, <3>3
  <2> QED BY <1>1, <2>1, <2>4, <2>5
<1>7. /\ pool' \in PoolType /\ IndexOK(pool') /\ pool'.ref = p.ref /\ pool'.free = p.free
      /\ \A b \in Block : (\A k \in NewlyFull(q, n) : q.blocks[k] # b) => pool'.hash[b] = p.hash[b]
  <2>1. n \div BlockSize <= Len(q.blocks)
    BY <1>4, <1>5
  <2> QED BY <1>4, <1>6, <2>1, CachedOK
<1>8. /\ req'[r].ncached \in Nat /\ req'[r].ncached >= q.ncached
      /\ req'[r].ncached <= Len(req'[r].blocks)
      /\ NewlyFull(q, n) \subseteq 1 .. req'[r].ncached
  BY <1>4, <1>5, CachedUpToOK
<1>9. \A b \in Block :
        /\ pool'.ref[b] = IF b \in ToSet(hits) \cup ToSet(new) THEN pool.ref[b] + 1
                          ELSE pool.ref[b]
        /\ b \in pool'.free
             <=> b \in pool.free /\ b \notin ToSet(new) /\ ~(b \in ToSet(hits) /\ pool.ref[b] = 0)
        /\ (\A k \in 1 .. req'[r].ncached : req'[r].blocks[k] # b)
             => pool'.hash[b] = IF b \in ToSet(new) THEN None ELSE pool.hash[b]
  BY <1>7, <1>8
<1>10. req'[r].ncached >= req[r].ncached /\ req'[r].ncached >= Len(hits)
  BY <1>1, <1>8
<1>11. Longer(req'[r].blocks, req[r].blocks, hits, new)
  OBVIOUS
<1>12. Held'
  BY <1>7, <1>8, <1>9, <1>10, <1>11, HeldGiven
<1> QED BY <1>7, <1>12

\* What has arrived is cached, or the blocks of a load without a valid token given back.
LEMMA PromoteIInv == ASSUME IInv, Promote PROVE IInv'
<1>0. /\ Typed /\ Counts /\ Lined /\ Held /\ Waits /\ Transfers
  BY DEF IInv
<1> DEFINE r == Candidate
           again == IF req[r].preempted THEN "preempted" ELSE "waiting"
           q == [req[r] EXCEPT !.status = again]
           cached == [q EXCEPT !.ncached = CachedUpTo(q, q.computed)]
           fail == r \in failed /\ q.computed = 0
           back == IF fail THEN Freed(q)
                   ELSE IF r \notin failed /\ q.computed = q.ntok
                        THEN [cached EXCEPT !.computed = q.ntok - 1] ELSE cached
<1>1. /\ InWaitingLoop /\ req[r].status = "remote" /\ r \in recved
      /\ req' = [req EXCEPT ![r] = back]
      /\ pool' = IF fail THEN FreeAll(pool, {r}) ELSE CacheBlocks(pool, r, q, q.computed)
      /\ recved' = recved \ {r} /\ failed' = failed \ {r}
      /\ UNCHANGED <<conf, running, waiting, skipped, kept, kv, connector, step, wrong, exc>>
  BY DEF Promote
<1>2. r \in Req /\ step.phase = "waiting" /\ req[r] \in Request
  BY <1>0, <1>1, CandidateOK DEF Typed
<1> HIDE DEF r
<1>3. /\ q \in Request /\ q.status \in {"waiting", "preempted"}
      /\ q.computed = req[r].computed /\ q.ntok = req[r].ntok
      /\ q.blocks = req[r].blocks /\ q.ncached = req[r].ncached
      /\ q.computed \in Nat /\ q.ntok \in Nat /\ q.blocks \in Queue(Block) /\ q.ncached \in Nat
  BY <1>2 DEF Request, Pending
<1>4. /\ q.computed <= q.ntok /\ q.ntok >= 2 /\ q.ntok < Prompt[r] + MaxOut
      /\ NumBlocks(q.computed) <= Len(q.blocks) /\ (q.computed = 0 => r \in failed)
      /\ r \in kept /\ load[r].st = "off" /\ load[r].into = {} /\ step.got[r] = 0
  <2>1. req[r].ntok >= Prompt[r] /\ Prompt[r] >= 2 /\ Prompt[r] \in Nat
    BY <1>0, <1>2, ConfFacts DEF Counts
  <2>2. step.got[r] \in Nat /\ ~(step.got[r] > 0)
    BY <1>0, <1>1, <1>2 DEF Counts, Scheduling, Typed, StepType
  <2> QED BY <1>0, <1>1, <1>2, <1>3, <2>1, <2>2 DEF Counts, Waits, Transfers
<1> HIDE DEF q
<1>5. /\ back \in Request /\ back.ntok = req[r].ntok /\ back.status \in {"waiting", "preempted"}
      /\ back.computed \in Nat /\ back.computed <= req[r].computed
      /\ IF fail THEN back.blocks = <<>> /\ back.ncached = 0
         ELSE /\ back.blocks = q.blocks /\ back.ncached = CachedUpTo(q, q.computed)
              /\ back.computed > 0
  <2>1. CASE fail
    <3>1. back = [q EXCEPT !.blocks = <<>>, !.ncached = 0]
      BY <2>1 DEF Freed
    <3>2. PICK e \in Queue(Block) : e = <<>>
      BY QueueEmpty
    <3> HIDE DEF back, fail
    <3>3. back = [q EXCEPT !.blocks = e, !.ncached = 0]
      BY <3>1, <3>2
    <3>4. /\ back \in Request /\ back.ntok = q.ntok /\ back.status = q.status
          /\ back.computed = q.computed /\ back.blocks = e /\ back.ncached = 0
      BY <1>3, <3>2, <3>3 DEF Request
    <3> QED BY <1>3, <2>1, <3>2, <3>4
  <2>2. CASE ~fail
    <3>1. CachedUpTo(q, q.computed) \in Nat
      BY <1>3, CachedUpToOK
    <3>2. cached \in Request /\ cached.blocks = q.blocks /\ cached.computed = q.computed
          /\ cached.ntok = q.ntok /\ cached.status = q.status
          /\ cached.ncached = CachedUpTo(q, q.computed)
      BY <1>3, <3>1 DEF Request
    <3>3. q.computed > 0
      BY <1>3, <1>4, <2>2
    <3>4. back = cached \/ (back = [cached EXCEPT !.computed = q.ntok - 1] /\ q.computed = q.ntok)
      BY <2>2
    <3>5. q.ntok - 1 \in Nat /\ q.ntok - 1 > 0
      BY <1>3, <1>4
    <3> HIDE DEF back, fail, cached
    <3>6. CASE back = cached
      BY <1>3, <2>2, <3>2, <3>3, <3>6
    <3>7. CASE back = [cached EXCEPT !.computed = q.ntok - 1] /\ q.computed = q.ntok
      <4>1. /\ back \in Request /\ back.ntok = q.ntok /\ back.status = q.status
            /\ back.blocks = q.blocks /\ back.ncached = CachedUpTo(q, q.computed)
            /\ back.computed = q.ntok - 1
        BY <3>2, <3>5, <3>7 DEF Request
      <4> QED BY <1>3, <2>2, <3>5, <3>7, <4>1
    <3> QED BY <3>4, <3>6, <3>7
  <2> QED BY <2>1, <2>2
<1>6. fail => req[r].computed = 0
  BY <1>3
<1> HIDE DEF back, fail
<1>7. /\ req' \in [Req -> Request] /\ req'[r] = back
      /\ \A s \in Req \ {r} : req'[s] = req[s]
  BY <1>0, <1>1, <1>2, <1>5 DEF Typed
<1>8. pool' \in PoolType /\ Held'
  <2>1. pool \in PoolType /\ IndexOK(pool) /\ {r} \in SUBSET Req
    BY <1>0, <1>2 DEF Typed, Held
  <2>2. CASE fail
    <3>1. \A s \in Req : IF s \in {r} THEN req'[s].blocks = <<>> /\ req'[s].ncached = 0
                         ELSE req'[s].blocks = req[s].blocks /\ req'[s].ncached = req[s].ncached
      BY <1>5, <1>7, <2>2
    <3>2. \A b \in Block : pool.hash[b] \in {pool.hash[b], None}
      OBVIOUS
    <3>3. pool' = FreeAll(pool, {r})
      BY <1>1, <2>2
    <3> QED BY <2>1, <3>1, <3>2, <3>3, HeldFreed
  <2>3. CASE ~fail
    <3> DEFINE e == <<>>
    <3>1. e \in Queue(Block) /\ ToSet(e) = {} /\ Len(e) = 0 /\ e = <<>>
      BY QueueEmpty
    <3> HIDE DEF e
    <3>2. Longer(req[r].blocks \o e \o e, req[r].blocks, e, e)
      BY <1>2, <3>1, BehindTable
    <3>3. req[r].blocks \o e \o e = q.blocks
      BY <1>3, <3>1, QueuePlaces
    <3>4. Longer(q.blocks, req[r].blocks, e, e)
      BY <3>2, <3>3
    <3>5. \A b \in Block :
            /\ pool.ref[b] = IF b \in ToSet(e) \cup ToSet(e) THEN pool.ref[b] + 1 ELSE pool.ref[b]
            /\ b \in pool.free
                 <=> b \in pool.free /\ b \notin ToSet(e) /\ ~(b \in ToSet(e) /\ pool.ref[b] = 0)
            /\ pool.hash[b] = IF b \in ToSet(e) THEN None ELSE pool.hash[b]
      BY <3>1
    <3>6. q.ncached >= Len(e) /\ q.ncached <= Len(q.blocks) /\ q.ncached >= req[r].ncached
      BY <1>2, <1>3, <3>1, HeldFacts
    <3>7. q.computed <= Prompt[r] + MaxOut - 1 /\ NumBlocks(q.computed) <= Len(q.blocks)
      BY <1>2, <1>3, <1>4, ConfFacts
    <3>8. /\ pool' = CacheBlocks(pool, r, q, q.computed)
          /\ req'[r].blocks = q.blocks /\ req'[r].ncached = CachedUpTo(q, q.computed)
          /\ \A s \in Req \ {r} : req'[s].blocks = req[s].blocks /\ req'[s].ncached = req[s].ncached
      BY <1>1, <1>5, <1>7, <2>3
    <3>9. /\ ToSet(e) \subseteq pool.free \ ToSet(e) /\ \A b \in ToSet(e) : pool.hash[b] # None
      BY <3>1
    <3> QED BY <1>2, <1>3, <2>1, <3>1, <3>4, <3>5, <3>6, <3>7, <3>8, <3>9, HeldCached
  <2> QED BY <2>2, <2>3
<1>9. Typed'
  BY <1>0, <1>1, <1>7, <1>8 DEF Typed, connector
<1>10. Counts'
  <2>1. back.computed + step.got[r] <= back.ntok /\ back.ntok \in Nat
    BY <1>3, <1>4, <1>5
  <2> QED BY <1>0, <1>1, <1>2, <1>3, <1>4, <1>5, <1>7, <2>1 DEF Counts, Prompt, MaxOut, Scheduling
<1>11. Lined'
  BY <1>0, <1>1, <1>2, <1>5, <1>7 DEF Lined, Pending
<1>12. Waits'
  <2>1. ASSUME NEW s \in Req
        PROVE  /\ req'[s].status \in {"absent", "waiting", "preempted"} /\ req'[s].computed = 0
                    => req'[s].blocks = <<>>
               /\ req'[s].status = "absent" => req'[s].computed = 0
               /\ req'[s].status = "remote" => /\ NumBlocks(req'[s].computed) <= Len(req'[s].blocks)
                                               /\ req'[s].computed = 0 => s \in failed'
    <3>1. CASE s = r
      BY <1>5, <1>7, <3>1
    <3>2. CASE s # r
      <4>1. req'[s] = req[s] /\ (s \in failed' <=> s \in failed)
        BY <1>1, <1>7, <3>2
      <4> QED BY <1>0, <4>1 DEF Waits
    <3> QED BY <3>1, <3>2
  <2> QED BY <2>1, Zenon DEF Waits, NumBlocks
<1>13. Transfers'
  <2>1. req'[r].status \in {"waiting", "preempted"}
    BY <1>5, <1>7
  <2>2. r \notin sends.on \cup sends.done
    BY <1>0, <1>1, <1>2 DEF Transfers
  <2> QED BY <1>0, <1>1, <1>2, <1>4, <1>7, <2>1, <2>2 DEF Transfers, NoZombies, NoException, connector
<1> QED BY <1>8, <1>9, <1>10, <1>11, <1>12, <1>13 DEF IInv

-----------------------------------------------------------------------------
(* Scheduling: tokens, prefixes and tables.                                *)

\* A request gets no more tokens than are left of it and of the budget.
LEMMA ShareOK ==
  ASSUME IInv, NEW r \in Req, NEW m \in Nat
  PROVE  /\ Min({Capped(m), step.budget}) \in Nat /\ Min({Capped(m), step.budget}) <= m
         /\ step.budget - Min({Capped(m), step.budget}) \in Nat
<1>1. Threshold \in Nat /\ step.budget \in Nat
  BY ConfFacts DEF IInv, Typed, StepType
<1>2. Capped(m) \in Nat /\ Capped(m) <= m
  BY <1>1 DEF Capped
<1> DEFINE c == Capped(m)
           d == step.budget
           n == Min({c, d})
<1>3. n \in {c, d} /\ n <= c /\ n <= d
  <2>1. c \in Int /\ d \in Int
    BY <1>1, <1>2
  <2> HIDE DEF c, d
  <2> QED BY <2>1, MaxOfTwo
<1> HIDE DEF n
<1>4. n \in Nat /\ n <= m /\ step.budget - n \in Nat
  BY <1>1, <1>2, <1>3
<1> QED BY <1>4 DEF n

\* The number of blocks that the hits of a candidate are is defined.
LEMMA HitLengthOK ==
  ASSUME IInv, NEW r \in Req
  PROVE  /\ HitLength(r) \in 0 .. (req[r].ntok - 1) \div BlockSize
         /\ HitLength(r) * BlockSize <= req[r].ntok - 1
<1> DEFINE m == (req[r].ntok - 1) \div BlockSize
           miss(n) == n = m \/ CachedBlocks(pool, HashOf(r, n)) = {}
           stops == {n \in 0 .. m : miss(n)}
           first(n) == /\ \A k \in 1 .. n : CachedBlocks(pool, HashOf(r, k - 1)) # {}
                       /\ miss(n)
<1>1. req[r].ntok - 1 \in Nat
  <2>1. req[r].ntok \in Nat /\ req[r].ntok >= Prompt[r] /\ Prompt[r] >= 2 /\ Prompt[r] \in Nat
    BY ConfFacts DEF IInv, Counts, Typed, Request
  <2> QED BY <2>1
<1>2. m \in Nat
  BY <1>1, BlockDivision
<1>3. HitLength(r) = CHOOSE n \in 0 .. m : first(n)
  BY DEF HitLength
<1> HIDE DEF m
<1>4. \E n \in 0 .. m : first(n)
  <2>1. stops \in SUBSET Nat /\ m \in stops
    BY <1>2
  <2>2. PICK n \in stops : \A i \in stops : n <= i
    <3> HIDE DEF stops
    <3> QED BY <2>1, LeastNumber
  <2>3. ASSUME NEW k \in 1 .. n PROVE CachedBlocks(pool, HashOf(r, k - 1)) # {}
    <3>1. k - 1 \in 0 .. m /\ ~(n <= k - 1)
      BY <1>2
    <3>2. k - 1 \notin stops
      BY <2>2, <3>1
    <3> QED BY <3>1, <3>2
  <2>4. first(n) /\ n \in 0 .. m
    BY <2>3
  <2> QED BY <2>4
<1>5. HitLength(r) \in 0 .. m
  BY <1>3, <1>4
<1>6. HitLength(r) \in Nat /\ HitLength(r) <= m
  BY <1>2, <1>5
<1>7. HitLength(r) * BlockSize <= req[r].ntok - 1
  BY <1>1, <1>6, QuotientBound DEF m
<1> QED BY <1>5, <1>7 DEF m

\* The hits of a request are different blocks, each with the hash of its place.
LEMMA HitsOK ==
  ASSUME IInv, NEW r \in Req, req[r].status # "finished", NEW hits \in Hits(r)
  PROVE  /\ hits \in Queue(Block) /\ Len(hits) = HitLength(r)
         /\ \A b \in ToSet(hits) : pool.hash[b] # None
<1>1. HitLength(r) \in Nat /\ HitLength(r) <= (req[r].ntok - 1) \div BlockSize
  <2>1. req[r].ntok - 1 \in Nat
    <3>1. req[r].ntok \in Nat /\ req[r].ntok >= Prompt[r] /\ Prompt[r] >= 2 /\ Prompt[r] \in Nat
      BY ConfFacts DEF IInv, Counts, Typed, Request
    <3> QED BY <3>1
  <2>2. (req[r].ntok - 1) \div BlockSize \in Nat
    BY <2>1, BlockDivision
  <2> QED BY <2>2, HitLengthOK
<1>2. hits \in [1 .. HitLength(r) -> Block] /\ hits \in Seq(Block) /\ Len(hits) = HitLength(r)
  BY <1>1 DEF Hits
<1>3. ASSUME NEW k \in 1 .. HitLength(r)
      PROVE  HashOf(r, k - 1) \in Hash /\ pool.hash[hits[k]] = HashOf(r, k - 1)
  <2>1. /\ k - 1 \in Nat /\ k - 1 <= (req[r].ntok - 1) \div BlockSize
        /\ req[r].ntok - 1 \in Nat /\ req[r].ntok - 1 <= Prompt[r] + MaxOut - 2
        /\ Prompt[r] + MaxOut - 2 \in Nat
    <3>1. /\ req[r].ntok \in Nat /\ req[r].ntok >= Prompt[r] /\ Prompt[r] >= 2
          /\ Prompt[r] \in Nat /\ MaxOut \in Nat /\ req[r].ntok < Prompt[r] + MaxOut
      BY ConfFacts DEF IInv, Counts, Typed, Request
    <3>2. (req[r].ntok - 1) \div BlockSize \in Nat
      BY <3>1, BlockDivision
    <3> QED BY <1>1, <3>1, <3>2
  <2>2. (req[r].ntok - 1) \div BlockSize <= (Prompt[r] + MaxOut - 2) \div BlockSize
    BY <2>1, DivisionOrder
  <2>3. k - 1 \in 0 .. (Prompt[r] + MaxOut - 2) \div BlockSize
    <3>1. /\ (req[r].ntok - 1) \div BlockSize \in Nat
          /\ (Prompt[r] + MaxOut - 2) \div BlockSize \in Nat
      BY <2>1, BlockDivision
    <3> QED BY <2>1, <2>2, <3>1
  <2>4. HashOf(r, k - 1) \in Hash
    BY <2>3, ConfFacts DEF HashOf
  <2>5. hits[k] \in pool.cached[HashOf(r, k - 1)] /\ hits[k] \in Block
    BY <1>2 DEF Hits, CachedBlocks
  <2>6. pool.hash[hits[k]] = HashOf(r, k - 1)
    BY <2>4, <2>5 DEF IInv, Held, IndexOK, HashIndexOK
  <2> QED BY <2>4, <2>6
<1>4. ASSUME NEW i \in 1 .. Len(hits), NEW j \in 1 .. Len(hits), hits[i] = hits[j] PROVE i = j
  <2>1. HashOf(r, i - 1) = HashOf(r, j - 1)
    BY <1>2, <1>3, <1>4
  <2>2. i - 1 = j - 1
    BY <2>1 DEF HashOf
  <2> QED BY <1>1, <1>2, <2>2
<1>5. ASSUME NEW b \in ToSet(hits) PROVE pool.hash[b] # None
  <2>1. PICK k \in 1 .. Len(hits) : hits[k] = b
    BY <1>2, Members
  <2> QED BY <1>2, <1>3, <2>1, NoneAssumption
<1> QED BY <1>2, <1>4, <1>5, QueuePlaces

\* A candidate has hits only while it has no blocks, and no prefix is longer than it.
LEMMA PrefixOK ==
  ASSUME IInv, NEW r \in Req, req[r].status \in {"waiting", "preempted"}, NEW p \in PrefixesOf(r)
  PROVE  /\ p.hits \in Queue(Block) /\ Len(p.hits) \in Nat
         /\ \A b \in ToSet(p.hits) : pool.hash[b] # None
         /\ p.hits # <<>> => req[r].blocks = <<>>
         /\ p.ext \in Nat /\ p.total \in Nat /\ p.total <= req[r].ntok
         /\ p.ext > 0 => p.total > 0 /\ req[r].blocks = <<>>
<1>1. /\ req[r].computed \in Nat /\ req[r].computed <= req[r].ntok /\ req[r].ntok \in Nat
      /\ req[r].computed = 0 => req[r].blocks = <<>>
  BY DEF IInv, Counts, Typed, Request, Waits
<1>2. CASE req[r].computed > 0
  <2>1. p.hits = <<>> /\ p.ext = 0 /\ p.total = req[r].computed
    BY <1>2 DEF PrefixesOf
  <2> DEFINE e == <<>>
  <2>2. e \in Queue(Block) /\ ToSet(e) = {} /\ Len(e) = 0
    BY QueueEmpty
  <2> HIDE DEF e
  <2>3. p.hits = e
    BY <2>1 DEF e
  <2> QED BY <1>1, <2>1, <2>2, <2>3
<1>3. CASE ~(req[r].computed > 0)
  <2>1. PICK hits \in Hits(r), e \in Matched(r, HitLength(r) * BlockSize) :
          p = [hits |-> hits, ext |-> e, total |-> HitLength(r) * BlockSize + e]
    BY <1>3 DEF PrefixesOf
  <2>2. p.hits = hits /\ p.ext = e /\ p.total = HitLength(r) * BlockSize + e
    BY <2>1
  <2> DEFINE n == HitLength(r) * BlockSize
  <2>3. n \in Nat /\ n <= req[r].ntok - 1
    <3>1. HitLength(r) \in Nat
      BY HitLengthOK
    <3> QED BY <3>1, HitLengthOK, RemoteAssumption
  <2>4. e \in 0 .. req[r].ntok - n
    BY DEF Matched
  <2>5. p.total = n + e
    BY <2>2
  <2> HIDE DEF n
  <2>6. p.ext \in Nat /\ p.total \in Nat /\ p.total <= req[r].ntok /\ (p.ext > 0 => p.total > 0)
    BY <1>1, <2>2, <2>3, <2>4, <2>5
  <2>7. /\ p.hits \in Queue(Block) /\ Len(p.hits) \in Nat
        /\ \A b \in ToSet(p.hits) : pool.hash[b] # None
    <3>1. hits \in Queue(Block) /\ \A b \in ToSet(hits) : pool.hash[b] # None
      BY HitsOK
    <3> QED BY <2>2, <3>1, QueuePlaces, Members
  <2> QED BY <1>1, <1>3, <2>6, <2>7
<1> QED BY <1>2, <1>3

\* allocate_slots: new blocks behind the hits, enough of them.
Built(r, table, hits, n) ==
  \E new \in Queue(Block) :
    /\ ToSet(new) \subseteq pool.free \ ToSet(hits)
    /\ Longer(table, req[r].blocks, hits, new) /\ NumBlocks(n) <= Len(table)
    /\ Taken(req[r], hits, table) = Given(pool, ToSet(hits), ToSet(new))

\* That is what its tables are.
LEMMA TablesOK ==
  ASSUME IInv, NEW r \in Req, NEW hits \in Queue(Block), hits # <<>> => req[r].blocks = <<>>,
         NEW n \in Nat, NEW table \in Tables(req[r], hits, n)
  PROVE  Built(r, table, hits, n)
<1> DEFINE gap == Missing(req[r], hits, n)
<1>1. PICK S \in SUBSET (pool.free \ ToSet(hits)) :
        Cardinality(S) = gap /\ table = req[r].blocks \o hits \o SetToSeq(S)
  BY DEF Tables, kSubset
<1> DEFINE new == SetToSeq(S)
<1>2. S \in SUBSET Block /\ IsFiniteSet(S)
  <2>1. S \in SUBSET Block
    BY HeldFacts DEF PoolType
  <2> QED BY <2>1, RemoteAssumption, FS_Subset
<1>3. new \in Queue(Block) /\ ToSet(new) = S /\ Len(new) = gap
  <2>1. new \in Queue(S) /\ ToSet(new) = S /\ Len(new) = Cardinality(S)
    BY <1>2, QueueOfSet
  <2> HIDE DEF new
  <2>2. new \in Queue(Block)
    <3>1. new \in Seq(S) /\ \A i, j \in 1 .. Len(new) : new[i] = new[j] => i = j
      BY <2>1, QueuePlaces
    <3>2. new \in Seq(Block)
      BY <1>2, <3>1
    <3> QED BY <3>1, <3>2, QueuePlaces
  <2> QED BY <1>1, <2>1, <2>2
<1>4. table = req[r].blocks \o hits \o new
  BY <1>1
<1> HIDE DEF new
<1>5. ToSet(new) \subseteq pool.free \ ToSet(hits)
  BY <1>3
<1>6. Longer(table, req[r].blocks, hits, new)
  BY <1>3, <1>4, <1>5, BehindTable
<1>7. NumBlocks(n) <= Len(table)
  <2>1. /\ Len(req[r].blocks) \in Nat /\ Len(hits) \in Nat /\ NumBlocks(n) \in Nat
        /\ Len(table) = Len(req[r].blocks) + Len(hits) + gap
    BY <1>3, <1>6, HeldFacts, QueuePlaces, Members, BlocksNeeded DEF Longer
  <2> DEFINE d == NumBlocks(n) - Len(hits) - Len(req[r].blocks)
  <2>2. gap >= d /\ d \in Int /\ gap \in {0, d}
    <3> DEFINE z == 0
    <3>1. d \in Int /\ z \in Int /\ gap = Max({z, d})
      BY <2>1 DEF Missing
    <3> HIDE DEF d, gap, z
    <3>2. Max({z, d}) \in {z, d} /\ Max({z, d}) >= d
      BY <3>1, MaxOfTwo
    <3> QED BY <3>1, <3>2 DEF z
  <2> HIDE DEF gap
  <2> QED BY <2>1, <2>2
<1>8. ToSet(table) \ (ToSet(req[r].blocks) \cup ToSet(hits)) = ToSet(new)
  <2>1. ToSet(table) = ToSet(req[r].blocks) \cup ToSet(hits) \cup ToSet(new)
    BY <1>6 DEF Longer
  <2>2. ASSUME NEW b \in ToSet(new) PROVE b \notin ToSet(req[r].blocks) /\ b \notin ToSet(hits)
    <3>1. b \in Block /\ b \in pool.free /\ b \notin ToSet(hits)
      BY <1>2, <1>3, <1>5
    <3>2. Holders(b) = {}
      BY <3>1, HeldFacts
    <3> QED BY <3>1, <3>2 DEF Holders
  <2> QED BY <2>1, <2>2
<1>9. Taken(req[r], hits, table) = Given(pool, ToSet(hits), ToSet(new))
  BY <1>8 DEF Taken, Given
<1> QED BY <1>3, <1>5, <1>6, <1>7, <1>9 DEF Built

\* allocate_slots, and what it caches of the first n tokens.
LEMMA HeldAllocated ==
  ASSUME IInv, NEW r \in Req, NEW hits \in Queue(Block), \A b \in ToSet(hits) : pool.hash[b] # None,
         hits # <<>> => req[r].blocks = <<>>,
         NEW n \in Nat, n <= Prompt[r] + MaxOut - 1, NEW table \in Tables(req[r], hits, n),
         NEW q, q.blocks = table, q.ncached \in Nat, q.ncached >= req[r].ncached,
         q.ncached >= Len(hits), q.ncached <= Len(req[r].blocks) + Len(hits),
         pool' = CacheBlocks(Taken(req[r], hits, table), r, q, n),
         req'[r].blocks = table, req'[r].ncached = CachedUpTo(q, n),
         \A s \in Req \ {r} : req'[s].blocks = req[s].blocks /\ req'[s].ncached = req[s].ncached
  PROVE  pool' \in PoolType /\ Held' /\ table \in Queue(Block)
<1>1. PICK new \in Queue(Block) :
        /\ ToSet(new) \subseteq pool.free \ ToSet(hits)
        /\ Longer(table, req[r].blocks, hits, new) /\ NumBlocks(n) <= Len(table)
        /\ Taken(req[r], hits, table) = Given(pool, ToSet(hits), ToSet(new))
  BY TablesOK DEF Built
<1> DEFINE p == Given(pool, ToSet(hits), ToSet(new))
<1>2. /\ p \in PoolType /\ IndexOK(p)
      /\ \A b \in Block :
           /\ p.ref[b] = IF b \in ToSet(hits) \cup ToSet(new) THEN pool.ref[b] + 1 ELSE pool.ref[b]
           /\ b \in p.free
                <=> b \in pool.free /\ b \notin ToSet(new) /\ ~(b \in ToSet(hits) /\ pool.ref[b] = 0)
           /\ p.hash[b] = IF b \in ToSet(new) THEN None ELSE pool.hash[b]
  <2>1. pool \in PoolType /\ IndexOK(pool)
    BY HeldFacts
  <2>2. ToSet(hits) \in SUBSET Block /\ ToSet(new) \in SUBSET (pool.free \ ToSet(hits))
    BY <1>1, QueuePlaces, Members
  <2> QED BY <2>1, <2>2, GivenOK
<1>3. pool' = CacheBlocks(p, r, q, n)
  BY <1>1
<1> HIDE DEF p
<1>4. Longer(q.blocks, req[r].blocks, hits, new) /\ NumBlocks(n) <= Len(q.blocks)
  BY <1>1
<1>5. q.ncached <= Len(q.blocks)
  <2>1. /\ Len(req[r].blocks) \in Nat /\ Len(hits) \in Nat /\ Len(new) \in Nat
        /\ Len(q.blocks) = Len(req[r].blocks) + Len(hits) + Len(new)
    BY <1>4, HeldFacts, QueuePlaces, Members DEF Longer
  <2> QED BY <2>1
<1>6. req'[r].blocks = q.blocks
  OBVIOUS
<1>7. table \in Queue(Block)
  BY <1>1 DEF Longer
<1> QED BY <1>1, <1>2, <1>3, <1>4, <1>5, <1>6, <1>7, HeldCached

-----------------------------------------------------------------------------
(* schedule(): requests that run get tokens.                               *)

\* A running request gets new blocks, and those it fills are cached.
LEMMA ScheduleRunningIInv == ASSUME IInv, ScheduleRunning PROVE IInv'
<1>0. /\ Typed /\ Counts /\ Lined /\ Held /\ Waits /\ Transfers
  BY DEF IInv
<1> DEFINE r == running[step.i]
           q == req[r]
           n == Share(q)
           end == q.computed + n
           none == <<>>
<1>1. /\ InRunningLoop /\ n > 0
      /\ \E table \in Tables(q, none, end) :
           LET q2 == [q EXCEPT !.blocks = table]
           IN  /\ req' = [req EXCEPT ![r] = [q2 EXCEPT !.ncached = CachedUpTo(q, end)]]
               /\ pool' = CacheBlocks(Taken(q, none, table), r, q2, end)
      /\ step' = [step EXCEPT !.i = @ + 1, !.budget = @ - n, !.got[r] = n]
      /\ UNCHANGED <<conf, queues, kv, connector, wrong, exc>>
  BY DEF ScheduleRunning
<1>2. /\ step.phase = "running" /\ step.i \in 1 .. Len(running) /\ running \in Queue(Req)
      /\ step \in StepType /\ step.i \in Nat \ {0}
  <2>1. step.i \in Nat \ {0} /\ step \in StepType /\ running \in Queue(Req)
    BY <1>0 DEF Typed, StepType
  <2>2. Len(running) \in Nat
    BY <2>1, QueuePlaces, Members
  <2> QED BY <1>1, <2>1, <2>2 DEF InRunningLoop
<1>3. /\ r \in Req /\ q.status = "running" /\ step.got[r] = 0
      /\ \A j \in 1 .. Len(running) : running[j] = r => j = step.i
      /\ \A j \in 1 .. Len(running) : running[j] \in Req
  <2>1. running \in Seq(Req) /\ \A i, j \in 1 .. Len(running) : running[i] = running[j] => i = j
    BY <1>2, QueuePlaces
  <2>2. r \in ToSet(running) /\ r \in Req /\ \A j \in 1 .. Len(running) : running[j] \in Req
    BY <1>2, <2>1, Members
  <2>3. step.got[r] = 0
    BY <1>0, <1>2 DEF Counts
  <2> QED BY <1>0, <1>2, <2>1, <2>2, <2>3 DEF Lined
<1> HIDE DEF r
<1>4. /\ q \in Request /\ q.computed \in Nat /\ q.ntok \in Nat /\ q.computed <= q.ntok
      /\ q.ntok <= Prompt[r] + MaxOut - 1 /\ q.ncached \in Nat /\ q.blocks \in Queue(Block)
      /\ q.ncached <= Len(q.blocks)
  <2>1. /\ q.ntok < Prompt[r] + MaxOut /\ q.computed <= q.ntok
    BY <1>0, <1>3 DEF Counts
  <2> QED BY <1>0, <1>3, <2>1, ConfFacts, HeldFacts DEF Typed, Request
<1>5. n \in Nat /\ n <= q.ntok - q.computed /\ step.budget - n \in Nat
  <2> DEFINE m == q.ntok - q.computed
  <2>1. m \in Nat
    BY <1>4
  <2>2. n = Min({Capped(m), step.budget})
    BY DEF Share
  <2> HIDE DEF m, n
  <2>3. n \in Nat /\ n <= m /\ step.budget - n \in Nat
    BY <1>3, <2>1, <2>2, ShareOK
  <2> QED BY <2>3 DEF m
<1> HIDE DEF n
<1>6. /\ end \in Nat /\ end <= q.ntok /\ end <= Prompt[r] + MaxOut - 1
  <2>1. Prompt[r] \in Nat /\ MaxOut \in Nat
    BY <1>3, ConfFacts
  <2> QED BY <1>4, <1>5, <2>1, SMTT(40)
<1> HIDE DEF end
<1>7. PICK table \in Tables(q, none, end) :
        /\ req' = [req EXCEPT ![r] = [[q EXCEPT !.blocks = table] EXCEPT !.ncached = CachedUpTo(q, end)]]
        /\ pool' = CacheBlocks(Taken(q, none, table), r, [q EXCEPT !.blocks = table], end)
  BY <1>1
<1> DEFINE q2 == [q EXCEPT !.blocks = table]
           q3 == [q2 EXCEPT !.ncached = CachedUpTo(q, end)]
<1>8. q2.blocks = table /\ q2.ncached = q.ncached
  BY <1>4 DEF Request
<1>9. none \in Queue(Block) /\ ToSet(none) = {} /\ Len(none) = 0 /\ none = <<>>
  BY QueueEmpty
<1>10. CachedUpTo(q2, end) = CachedUpTo(q, end) /\ CachedUpTo(q, end) \in Nat
  BY <1>4, <1>6, <1>8, CachedUpToOK DEF CachedUpTo
<1>11. q3.blocks = table /\ q3.ncached = CachedUpTo(q2, end)
       /\ q3.status = q.status /\ q3.computed = q.computed /\ q3.ntok = q.ntok
       /\ (table \in Queue(Block) => q3 \in Request)
  BY <1>4, <1>10 DEF Request
<1>12. pool' = CacheBlocks(Taken(q, none, table), r, q2, end) /\ req' = [req EXCEPT ![r] = q3]
  BY <1>7
<1> HIDE DEF q2, q3, none
<1>13. /\ DOMAIN req' = Req /\ req'[r] = q3 /\ \A s \in Req \ {r} : req'[s] = req[s]
  BY <1>0, <1>3, <1>12 DEF Typed
<1>14. pool' \in PoolType /\ Held' /\ table \in Queue(Block)
  <2>1. /\ \A b \in ToSet(none) : pool.hash[b] # None
        /\ none # <<>> => req[r].blocks = <<>>
        /\ table \in Tables(req[r], none, end)
        /\ q2.ncached \in Nat /\ q2.ncached >= req[r].ncached /\ q2.ncached >= Len(none)
        /\ q2.ncached <= Len(req[r].blocks) + Len(none)
    <3>1. Len(q.blocks) \in Nat
      BY <1>4, QueuePlaces, Members
    <3> QED BY <1>4, <1>8, <1>9, <3>1
  <2>2. /\ pool' = CacheBlocks(Taken(req[r], none, table), r, q2, end)
        /\ req'[r].blocks = table /\ req'[r].ncached = CachedUpTo(q2, end)
        /\ \A s \in Req \ {r} : req'[s].blocks = req[s].blocks /\ req'[s].ncached = req[s].ncached
    BY <1>11, <1>12, <1>13
  <2> QED BY <1>3, <1>6, <1>8, <1>9, <2>1, <2>2, HeldAllocated
<1>15. /\ step' \in StepType /\ step'.phase = "running" /\ step'.i = step.i + 1
       /\ step'.skip = step.skip /\ step'.got = [step.got EXCEPT ![r] = n]
       /\ step.got \in [Req -> Nat]
  <2> DEFINE i2 == step.i + 1
             left == step.budget - n
             given == [step.got EXCEPT ![r] = n]
  <2>1. step' = [step EXCEPT !.i = i2, !.budget = left, !.got = given]
    BY <1>1
  <2>2. given \in [Req -> Nat] /\ step.got \in [Req -> Nat] /\ i2 \in Nat \ {0} /\ left \in Nat
    BY <1>2, <1>3, <1>5 DEF StepType
  <2> HIDE DEF i2, left, given
  <2>3. /\ step' \in StepType /\ step'.phase = step.phase /\ step'.i = i2
        /\ step'.skip = step.skip /\ step'.got = given
    BY <1>2, <2>1, <2>2 DEF StepType
  <2> QED BY <1>2, <2>2, <2>3 DEF i2, given
<1>16. Typed'
  <2>1. req' \in [Req -> Request]
    <3>1. q3 \in Request
      BY <1>11, <1>14
    <3> QED BY <1>0, <1>3, <1>12, <3>1 DEF Typed
  <2> QED BY <1>0, <1>1, <1>14, <1>15, <2>1 DEF Typed, queues, connector
<1>17. Counts'
  <2>1. ASSUME NEW j \in 1 .. Len(running), j >= step.i + 1 PROVE step'.got[running[j]] = 0
    <3>1. running[j] # r /\ running[j] \in Req /\ j >= step.i
      BY <1>2, <1>3, <2>1
    <3> QED BY <1>0, <1>2, <1>15, <3>1 DEF Counts
  <2>2. ASSUME NEW s \in Req
        PROVE  /\ req'[s].ntok = req[s].ntok /\ req'[s].computed = req[s].computed
               /\ req'[s].status = req[s].status
               /\ req'[s].computed + step'.got[s] <= req'[s].ntok
               /\ step'.got[s] > 0 => req'[s].status = "running"
    <3>1. CASE s = r
      <4>1. step'.got[s] = n
        BY <1>15, <3>1
      <4> QED BY <1>3, <1>6, <1>11, <1>13, <3>1, <4>1 DEF end
    <3>2. CASE s # r
      <4>1. step'.got[s] = step.got[s] /\ req'[s] = req[s]
        BY <1>13, <1>15, <3>2
      <4> QED BY <1>0, <1>2, <4>1 DEF Counts, Scheduling
    <3> QED BY <3>1, <3>2
  <2>3. running' = running /\ conf' = conf
    BY <1>1 DEF queues
  <2> QED BY <1>0, <1>2, <1>15, <2>1, <2>2, <2>3 DEF Counts, Prompt, MaxOut, Scheduling
<1>18. \A s \in Req : req'[s].status = req[s].status /\ req'[s].computed = req[s].computed
  BY <1>11, <1>13
<1>19. Lined'
  BY <1>0, <1>1, <1>2, <1>15, <1>18 DEF Lined, queues
<1>20. Waits'
  <2>1. failed' = failed /\ req'[r].status = "running"
    BY <1>1, <1>3, <1>11, <1>13 DEF queues
  <2> QED BY <1>0, <1>13, <2>1 DEF Waits
<1>21. Transfers'
  <2>1. load[r].into = {} /\ load[r].st = "off" /\ req'[r].status = "running"
    BY <1>0, <1>3, <1>11, <1>13 DEF Transfers
  <2> QED BY <1>0, <1>1, <1>3, <1>13, <2>1 DEF Transfers, NoZombies, NoException, queues, connector
<1> QED BY <1>14, <1>16, <1>17, <1>19, <1>20, <1>21 DEF IInv

-----------------------------------------------------------------------------
(* schedule(): a candidate starts its load, or runs.                       *)

\* More tokens need no fewer blocks.
LEMMA NeededOrder ==
  ASSUME NEW m \in Nat, NEW n \in Nat, m <= n
  PROVE  NumBlocks(m) <= NumBlocks(n)
<1> DEFINE a == m + BlockSize - 1
           b == n + BlockSize - 1
<1>1. a \in Nat /\ b \in Nat /\ a <= b
  BY RemoteAssumption
<1> HIDE DEF a, b
<1>2. a \div BlockSize <= b \div BlockSize
  BY <1>1, DivisionOrder
<1> QED BY <1>2 DEF a, b, NumBlocks

\* What is to be loaded goes into blocks of the table behind the hits.
LEMMA ExternalOK ==
  ASSUME IInv, NEW r \in Req, req[r].status # "finished", NEW p, Len(p.hits) \in Nat,
         p.total \in Nat, p.total <= req[r].ntok,
         NEW table \in Queue(Block), NumBlocks(p.total) <= Len(table)
  PROVE  /\ External(r, p, table) \in SUBSET (Block \X Hash)
         /\ \A x \in External(r, p, table) :
              \E k \in Len(p.hits) + 1 .. Len(table) : x[1] = table[k]
<1>1. p.total <= Prompt[r] + MaxOut - 1
  <2>1. req[r].ntok < Prompt[r] + MaxOut /\ req[r].ntok \in Nat
    BY DEF IInv, Counts, Typed, Request
  <2>2. Prompt[r] \in Nat /\ MaxOut \in Nat
    BY ConfFacts
  <2> QED BY <2>1, <2>2
<1>2. /\ table \in Seq(Block) /\ Len(table) \in Nat /\ NumBlocks(p.total) \in Nat
      /\ \A k \in 1 .. Len(table) : table[k] \in Block
  BY QueuePlaces, Members, BlocksNeeded
<1>3. ASSUME NEW k \in Len(p.hits) + 1 .. NumBlocks(p.total)
      PROVE  /\ k \in Len(p.hits) + 1 .. Len(table)
             /\ table[k] \in Block /\ HashOf(r, k - 1) \in Hash
  <2>1. k \in 1 .. NumBlocks(p.total) /\ k \in 1 .. Len(table) /\ k \in Len(p.hits) + 1 .. Len(table)
    BY <1>2
  <2>2. HashOf(r, k - 1) \in Hash
    BY <1>1, <2>1, HashesGiven
  <2> QED BY <1>2, <2>1, <2>2
<1>4. ASSUME NEW x \in External(r, p, table)
      PROVE  /\ x \in Block \X Hash
             /\ \E k \in Len(p.hits) + 1 .. Len(table) : x[1] = table[k]
  <2>1. PICK k \in Len(p.hits) + 1 .. NumBlocks(p.total) : x = <<table[k], HashOf(r, k - 1)>>
    BY DEF External
  <2> QED BY <1>3, <2>1
<1> QED BY <1>4

\* The candidate gets hits and new blocks, and a load begins to write to the new ones.
LEMMA StartLoadIInv == ASSUME IInv, StartLoad PROVE IInv'
<1>0. /\ Typed /\ Counts /\ Lined /\ Held /\ Waits /\ Transfers
  BY DEF IInv
<1> DEFINE r == Candidate
           q == req[r]
<1>1. /\ InWaitingLoop /\ q.status \in {"waiting", "preempted"} /\ Popped
      /\ step' = [step EXCEPT !.skip = <<Candidate>> \o @]
      /\ UNCHANGED <<conf, running, recved, failed, kept, kv, sends, wrong, exc>>
  BY DEF StartLoad, Schedulable
<1>2. PICK p \in PrefixesOf(r) :
        /\ LoadsAsync(r, p)
        /\ \E table \in Tables(q, p.hits, p.total) :
             /\ pool' = Taken(q, p.hits, table)
             /\ req' = [req EXCEPT ![r] = [q EXCEPT !.status = "remote", !.computed = p.total,
                                                    !.blocks = table, !.ncached = Len(p.hits)]]
             /\ load' = [load EXCEPT ![r] = [NoLoad EXCEPT !.st = "on",
                                                          !.into = External(r, p, table)]]
  BY DEF StartLoad
<1>3. PICK table \in Tables(q, p.hits, p.total) :
        /\ pool' = Taken(q, p.hits, table)
        /\ req' = [req EXCEPT ![r] = [q EXCEPT !.status = "remote", !.computed = p.total,
                                               !.blocks = table, !.ncached = Len(p.hits)]]
        /\ load' = [load EXCEPT ![r] = [NoLoad EXCEPT !.st = "on",
                                                     !.into = External(r, p, table)]]
  BY <1>2
<1>4. /\ r \in Req /\ r \notin ToSet(step.skip) /\ step.phase = "waiting"
      /\ r \in ToSet(waiting) \cup ToSet(skipped)
      /\ waiting' \in Queue(Req) /\ skipped' \in Queue(Req)
      /\ ToSet(waiting') \cap ToSet(skipped') = {}
      /\ ToSet(waiting') \cup ToSet(skipped') = (ToSet(waiting) \cup ToSet(skipped)) \ {r}
  BY <1>1, CandidateOK
<1>5. /\ step' \in StepType /\ step'.got = step.got /\ step'.phase = "waiting"
      /\ step'.i = step.i /\ ToSet(step'.skip) = ToSet(step.skip) \cup {r}
  BY <1>1, PassedOver
<1> HIDE DEF r
<1>6. /\ p.hits \in Queue(Block) /\ Len(p.hits) \in Nat
      /\ \A b \in ToSet(p.hits) : pool.hash[b] # None
      /\ p.hits # <<>> => q.blocks = <<>>
      /\ p.total \in Nat /\ p.total <= q.ntok /\ p.total > 0 /\ q.blocks = <<>>
  <2>1. p.ext > 0
    BY <1>2 DEF LoadsAsync
  <2> QED BY <1>1, <1>4, <2>1, PrefixOK
<1>7. /\ q \in Request /\ q.ntok \in Nat /\ q.ncached = 0 /\ step.got[r] = 0 /\ q.computed \in Nat
      /\ load[r].st = "off" /\ r \in kept /\ r \notin sends.on \cup sends.done
      /\ r \notin recved \cup failed
  <2>1. q.ncached \in Nat /\ q.ncached <= Len(q.blocks) /\ Len(q.blocks) = 0
    BY <1>4, <1>6, HeldFacts
  <2>2. step.got[r] \in Nat /\ ~(step.got[r] > 0)
    BY <1>0, <1>1, <1>4 DEF Counts, Scheduling, Typed, StepType
  <2> QED BY <1>0, <1>1, <1>4, <2>1, <2>2 DEF Typed, Request, Transfers
<1> DEFINE h == p.hits
           n == p.total
<1>8. PICK new \in Queue(Block) :
        /\ ToSet(new) \subseteq pool.free \ ToSet(h)
        /\ Longer(table, q.blocks, h, new) /\ NumBlocks(n) <= Len(table)
        /\ Taken(q, h, table) = Given(pool, ToSet(h), ToSet(new))
  <2>1. /\ h \in Queue(Block) /\ (h # <<>> => req[r].blocks = <<>>) /\ n \in Nat
        /\ table \in Tables(req[r], h, n)
    BY <1>6
  <2> HIDE DEF h, n
  <2>2. Built(r, table, h, n)
    <3> HIDE DEF q
    <3>1. r \in Req
      BY <1>4
    <3> QED BY <2>1, <3>1, TablesOK
  <2> QED BY <2>2 DEF Built
<1> HIDE DEF h, n
<1>9. /\ table \in Queue(Block) /\ Len(table) \in Nat /\ Len(h) \in Nat /\ Len(h) <= Len(table)
      /\ h \in Queue(Block) /\ h = p.hits /\ n = p.total
  <2>1. Len(table) = Len(q.blocks) + Len(h) + Len(new) /\ table \in Queue(Block)
    BY <1>8 DEF Longer
  <2>2. Len(q.blocks) = 0 /\ Len(new) \in Nat /\ Len(h) \in Nat
    BY <1>6, QueuePlaces, Members DEF h
  <2> QED BY <1>6, <2>1, <2>2 DEF h, n
<1> DEFINE q2 == [q EXCEPT !.status = "remote", !.computed = n, !.blocks = table, !.ncached = Len(h)]
           into == External(r, p, table)
           l2 == [NoLoad EXCEPT !.st = "on", !.into = into]
<1>10. /\ q2 \in Request /\ q2.status = "remote" /\ q2.computed = n /\ q2.ntok = q.ntok
       /\ q2.blocks = table /\ q2.ncached = Len(h)
  BY <1>6, <1>7, <1>9 DEF Request, Pending
<1>11. /\ into \in SUBSET (Block \X Hash)
       /\ \A x \in into : \E k \in Len(h) + 1 .. Len(table) : x[1] = table[k]
  <2>1. NumBlocks(p.total) <= Len(table) /\ Len(p.hits) \in Nat /\ q.status # "finished"
    BY <1>1, <1>8, <1>9
  <2> QED BY <1>4, <1>6, <1>9, <2>1, ExternalOK
<1>12. l2 \in LoadType /\ l2.st = "on" /\ l2.into = into
  <2> HIDE DEF into
  <2> QED BY <1>11 DEF NoLoad, LoadType
<1>13. /\ pool' = Given(pool, ToSet(h), ToSet(new))
       /\ req' = [req EXCEPT ![r] = q2] /\ load' = [load EXCEPT ![r] = l2]
  BY <1>3, <1>8, <1>9
<1> HIDE DEF q2, l2, into
<1>14. /\ req' \in [Req -> Request] /\ req'[r] = q2 /\ \A s \in Req \ {r} : req'[s] = req[s]
       /\ load' \in [Req -> LoadType] /\ load'[r] = l2 /\ \A s \in Req \ {r} : load'[s] = load[s]
  BY <1>0, <1>4, <1>10, <1>12, <1>13 DEF Typed
<1>15. pool' \in PoolType /\ Held'
  <2>1. /\ pool' \in PoolType /\ IndexOK(pool')
        /\ \A b \in Block :
             /\ pool'.ref[b] = IF b \in ToSet(h) \cup ToSet(new) THEN pool.ref[b] + 1
                               ELSE pool.ref[b]
             /\ b \in pool'.free
                  <=> b \in pool.free /\ b \notin ToSet(new) /\ ~(b \in ToSet(h) /\ pool.ref[b] = 0)
             /\ pool'.hash[b] = IF b \in ToSet(new) THEN None ELSE pool.hash[b]
    <3>1. pool \in PoolType /\ IndexOK(pool)
      BY HeldFacts
    <3>2. ToSet(h) \in SUBSET Block /\ ToSet(new) \in SUBSET (pool.free \ ToSet(h))
      BY <1>8, <1>9, QueuePlaces, Members
    <3> QED BY <1>13, <3>1, <3>2, GivenOK
  <2>2. \A b \in ToSet(h) : pool.hash[b] # None
    BY <1>6, <1>9
  <2>3. h # <<>> => req[r].blocks = <<>>
    BY <1>6
  <2>4. Longer(req'[r].blocks, req[r].blocks, h, new)
    BY <1>8, <1>10, <1>14
  <2>5. /\ req'[r].ncached \in Nat /\ req'[r].ncached >= req[r].ncached
        /\ req'[r].ncached >= Len(h) /\ req'[r].ncached <= Len(req'[r].blocks)
    BY <1>7, <1>9, <1>10, <1>14
  <2>6. \A s \in Req \ {r} : req'[s].blocks = req[s].blocks /\ req'[s].ncached = req[s].ncached
    BY <1>14
  <2> QED BY <1>4, <1>8, <1>9, <2>1, <2>2, <2>3, <2>4, <2>5, <2>6, HeldGiven
<1>16. Typed'
  BY <1>0, <1>1, <1>4, <1>5, <1>14, <1>15 DEF Typed
<1>17. Counts'
  <2>1. q2.computed + step.got[r] <= q2.ntok
    BY <1>6, <1>7, <1>9, <1>10
  <2>2. conf' = conf /\ q2.computed <= q2.ntok
    BY <1>1, <1>6, <1>9, <1>10
  <2> QED BY <1>0, <1>1, <1>4, <1>5, <1>7, <1>10, <1>14, <2>1, <2>2
          DEF Counts, Prompt, MaxOut, Scheduling
<1>18. Lined'
  <2>1. /\ ToSet(running') = {s \in Req : req'[s].status = "running"}
        /\ ToSet(waiting') \cup ToSet(skipped') \cup ToSet(step'.skip)
             = {s \in Req : req'[s].status \in Pending}
    BY <1>0, <1>1, <1>4, <1>5, <1>10, <1>14 DEF Lined, Pending
  <2>2. (ToSet(waiting') \cup ToSet(skipped')) \cap ToSet(step'.skip) = {}
    BY <1>0, <1>4, <1>5 DEF Lined
  <2> QED BY <1>4, <1>5, <2>1, <2>2 DEF Lined
<1>19. Waits'
  <2>1. /\ req'[r].status = "remote" /\ NumBlocks(req'[r].computed) <= Len(req'[r].blocks)
        /\ req'[r].computed # 0
    BY <1>6, <1>8, <1>9, <1>10, <1>14
  <2> QED BY <1>0, <1>1, <1>14, <2>1 DEF Waits, NumBlocks
<1>20. Transfers'
  <2>1. /\ req'[r].status = "remote" /\ load'[r].st = "on"
        /\ \A x \in load'[r].into : \E k \in req'[r].ncached + 1 .. Len(req'[r].blocks) :
             x[1] = req'[r].blocks[k]
    BY <1>9, <1>10, <1>11, <1>12, <1>14
  <2>2. ASSUME NEW s \in Req
        PROVE  /\ req'[s].status \notin {"remote", "finished"} => load'[s].st = "off"
               /\ req'[s].status = "remote" => (s \in recved <=> load'[s].st = "off")
               /\ req'[s].status = "absent" => s \notin kept
               /\ req'[s].status \notin {"absent", "finished"} => s \in kept
               /\ s \in sends.on \cup sends.done => req'[s].status = "finished" /\ load'[s].st = "off"
               /\ load'[s].st # "on" => load'[s].into = {}
               /\ \A x \in load'[s].into : \E k \in req'[s].ncached + 1 .. Len(req'[s].blocks) :
                    x[1] = req'[s].blocks[k]
               /\ s \in recved \cup failed => req'[s].status = "remote"
               /\ req'[s].status = "finished" =>
                    /\ s \in kept <=> load'[s].st # "off" \/ s \in sends.on \cup sends.done
                    /\ s \notin kept => req'[s].blocks = <<>>
    <3>1. CASE s = r
      BY <1>7, <2>1, <3>1
    <3>2. CASE s # r
      <4>1. req'[s] = req[s] /\ load'[s] = load[s]
        BY <1>14, <3>2
      <4> QED BY <1>0, <4>1 DEF Transfers, NoZombies
    <3> QED BY <3>1, <3>2
  <2>3. UNCHANGED <<recved, failed, kept, sends, exc>>
    BY <1>1
  <2>4. /\ (recved \cup failed) \subseteq Req /\ sends.on \cap sends.done = {} /\ ~exc
    BY <1>0 DEF Transfers, NoException
  <2> QED BY <2>2, <2>3, <2>4, Zenon DEF Transfers, NoZombies, NoException
<1> QED BY <1>15, <1>16, <1>17, <1>18, <1>19, <1>20 DEF IInv

\* The candidate gets hits and new blocks, and runs.
LEMMA AdmitIInv == ASSUME IInv, Admit PROVE IInv'
<1>0. /\ Typed /\ Counts /\ Lined /\ Held /\ Waits /\ Transfers
  BY DEF IInv
<1> DEFINE r == Candidate
           q == req[r]
<1>1. /\ InWaitingLoop /\ q.status \in {"waiting", "preempted"} /\ Popped
      /\ running' = Append(running, r)
      /\ UNCHANGED <<conf, recved, failed, kept, kv, connector, wrong, exc>>
  BY DEF Admit, Schedulable
<1>2. PICK p \in PrefixesOf(r) :
        /\ ~LoadsAsync(r, p)
        /\ \E table \in Tables(q, p.hits, p.total + NewTokens(r, p)) :
             LET n == NewTokens(r, p)
                 end == p.total + n
                 q2 == [q EXCEPT !.status = "running", !.computed = p.total, !.blocks = table,
                                 !.ncached = Max({@, Len(p.hits)})]
             IN  /\ req' = [req EXCEPT ![r] = [q2 EXCEPT !.ncached = CachedUpTo(q2, end)]]
                 /\ pool' = CacheBlocks(Taken(q, p.hits, table), r, q2, end)
                 /\ step' = [step EXCEPT !.got[r] = n, !.budget = @ - n,
                               !.sync = IF p.ext > 0 THEN @ \cup External(r, p, table) ELSE @]
  BY DEF Admit
<1> DEFINE n == NewTokens(r, p)
           end == p.total + n
           h == p.hits
           c == Max({q.ncached, Len(h)})
<1>3. PICK table \in Tables(q, h, end) :
        LET q2 == [q EXCEPT !.status = "running", !.computed = p.total, !.blocks = table,
                            !.ncached = c]
        IN  /\ req' = [req EXCEPT ![r] = [q2 EXCEPT !.ncached = CachedUpTo(q2, end)]]
            /\ pool' = CacheBlocks(Taken(q, h, table), r, q2, end)
            /\ step' = [step EXCEPT !.got[r] = n, !.budget = @ - n,
                          !.sync = IF p.ext > 0 THEN @ \cup External(r, p, table) ELSE @]
  BY <1>2
<1>4. /\ r \in Req /\ r \notin ToSet(step.skip) /\ step.phase = "waiting"
      /\ r \in ToSet(waiting) \cup ToSet(skipped)
      /\ waiting' \in Queue(Req) /\ skipped' \in Queue(Req)
      /\ ToSet(waiting') \cap ToSet(skipped') = {}
      /\ ToSet(waiting') \cup ToSet(skipped') = (ToSet(waiting) \cup ToSet(skipped)) \ {r}
  BY <1>1, CandidateOK
<1> HIDE DEF r
<1>5. /\ h \in Queue(Block) /\ Len(h) \in Nat /\ \A b \in ToSet(h) : pool.hash[b] # None
      /\ h # <<>> => req[r].blocks = <<>>
      /\ p.total \in Nat /\ p.total <= q.ntok
  BY <1>1, <1>4, PrefixOK
<1>6. /\ q \in Request /\ q.ntok \in Nat /\ q.ncached \in Nat /\ q.ncached <= Len(q.blocks)
      /\ Len(q.blocks) \in Nat /\ q.ntok <= Prompt[r] + MaxOut - 1
      /\ load[r].st = "off" /\ load[r].into = {} /\ r \in kept /\ r \notin sends.on \cup sends.done
      /\ r \notin recved \cup failed
  <2>1. /\ q.ncached \in Nat /\ q.ncached <= Len(q.blocks) /\ Len(q.blocks) \in Nat
    BY <1>4, HeldFacts
  <2>2. q.ntok < Prompt[r] + MaxOut /\ q \in Request /\ q.ntok \in Nat
    BY <1>0, <1>1, <1>4 DEF Counts, Typed, Request
  <2>3. Prompt[r] \in Nat /\ MaxOut \in Nat
    BY <1>4, ConfFacts
  <2>4. q.ntok <= Prompt[r] + MaxOut - 1
    BY <2>2, <2>3
  <2>5. /\ load[r].st = "off" /\ load[r].into = {} /\ r \in kept
        /\ r \notin sends.on \cup sends.done /\ r \notin recved \cup failed
    BY <1>0, <1>1, <1>4 DEF Transfers
  <2> QED BY <2>1, <2>2, <2>4, <2>5
<1>7. n \in Nat /\ n <= q.ntok - p.total /\ step.budget - n \in Nat
  <2> DEFINE m == q.ntok - p.total
  <2>1. m \in Nat
    BY <1>5, <1>6
  <2>2. n = Min({Capped(m), step.budget})
    BY <1>2 DEF NewTokens
  <2> HIDE DEF m, n
  <2>3. n \in Nat /\ n <= m /\ step.budget - n \in Nat
    BY <1>4, <2>1, <2>2, ShareOK
  <2> QED BY <2>3 DEF m
<1> HIDE DEF n
<1>8. end \in Nat /\ end <= q.ntok /\ p.total <= end /\ end <= Prompt[r] + MaxOut - 1
  <2>1. Prompt[r] \in Nat /\ MaxOut \in Nat
    BY <1>4, ConfFacts
  <2> QED BY <1>5, <1>6, <1>7, <2>1, SMTT(40)
<1>9. c \in Nat /\ c >= q.ncached /\ c >= Len(h) /\ c <= Len(q.blocks) + Len(h)
  <2> DEFINE a == q.ncached
             d == Len(h)
  <2>1. a \in Nat /\ d \in Nat /\ c = Max({a, d}) /\ a <= Len(q.blocks)
    BY <1>5, <1>6
  <2> HIDE DEF a, d, c
  <2>2. Max({a, d}) \in {a, d} /\ Max({a, d}) >= a /\ Max({a, d}) >= d
    <3>1. a \in Int /\ d \in Int
      BY <2>1
    <3> QED BY <3>1, MaxOfTwo
  <2>3. c \in Nat /\ c >= a /\ c >= d /\ c <= Len(q.blocks) + d
    BY <1>6, <2>1, <2>2
  <2> QED BY <2>3 DEF a, d
<1>10. /\ h = p.hits /\ end = p.total + n
  OBVIOUS
<1> HIDE DEF end, h, c
<1> DEFINE q2 == [q EXCEPT !.status = "running", !.computed = p.total, !.blocks = table,
                           !.ncached = c]
           q3 == [q2 EXCEPT !.ncached = CachedUpTo(q2, end)]
           sync == IF p.ext > 0 THEN step.sync \cup External(r, p, table) ELSE step.sync
<1>11. /\ req' = [req EXCEPT ![r] = q3] /\ pool' = CacheBlocks(Taken(q, h, table), r, q2, end)
       /\ step' = [step EXCEPT !.got[r] = n, !.budget = @ - n, !.sync = sync]
  BY <1>3
<1>12. q2.blocks = table /\ q2.ncached = c /\ CachedUpTo(q2, end) \in Nat
  <2>1. q2.blocks = table /\ q2.ncached = c
    BY <1>6 DEF Request
  <2> HIDE DEF q2
  <2> QED BY <1>8, <1>9, <2>1, CachedUpToOK
<1>13. /\ q3.blocks = table /\ q3.ncached = CachedUpTo(q2, end) /\ q3.status = "running"
       /\ q3.computed = p.total /\ q3.ntok = q.ntok
       /\ table \in Queue(Block) => q3 \in Request
  <2> DEFINE f == CachedUpTo(q2, end)
  <2>1. f \in Nat
    BY <1>12
  <2>2. q3 = [q EXCEPT !.status = "running", !.computed = p.total, !.blocks = table,
                       !.ncached = f]
    BY <1>6 DEF Request
  <2> HIDE DEF f, q3
  <2>3. /\ q3.blocks = table /\ q3.ncached = f /\ q3.status = "running"
        /\ q3.computed = p.total /\ q3.ntok = q.ntok
        /\ table \in Queue(Block) => q3 \in Request
    BY <1>5, <1>6, <2>1, <2>2 DEF Request
  <2> QED BY <2>3 DEF f
<1> HIDE DEF q2, q3, sync
<1>14. /\ DOMAIN req' = Req /\ req'[r] = q3 /\ \A s \in Req \ {r} : req'[s] = req[s]
  BY <1>0, <1>4, <1>11 DEF Typed
<1>15. pool' \in PoolType /\ Held' /\ table \in Queue(Block)
  <2>1. /\ table \in Tables(req[r], h, end)
        /\ q2.ncached \in Nat /\ q2.ncached >= req[r].ncached /\ q2.ncached >= Len(h)
        /\ q2.ncached <= Len(req[r].blocks) + Len(h)
    BY <1>3, <1>9, <1>12
  <2>2. /\ pool' = CacheBlocks(Taken(req[r], h, table), r, q2, end)
        /\ req'[r].blocks = table /\ req'[r].ncached = CachedUpTo(q2, end)
        /\ \A s \in Req \ {r} : req'[s].blocks = req[s].blocks /\ req'[s].ncached = req[s].ncached
    BY <1>11, <1>13, <1>14
  <2>3. /\ h \in Queue(Block) /\ (\A b \in ToSet(h) : pool.hash[b] # None)
        /\ h # <<>> => req[r].blocks = <<>>
    BY <1>5, <1>10
  <2> HIDE DEF q
  <2> QED BY <1>4, <1>8, <1>12, <2>1, <2>2, <2>3, HeldAllocated
<1>16. sync \in SUBSET (Block \X Hash)
  <2>1. step.sync \in SUBSET (Block \X Hash)
    BY <1>0 DEF Typed, StepType
  <2>2. External(r, p, table) \in SUBSET (Block \X Hash)
    <3>1. NumBlocks(p.total) <= Len(table)
      <4>1. NumBlocks(end) <= Len(table)
        <5>1. table \in Tables(req[r], h, end) /\ h \in Queue(Block) /\ (h # <<>> => req[r].blocks = <<>>)
          BY <1>3, <1>5, <1>10
        <5>2. Built(r, table, h, end)
          BY <1>4, <1>8, <5>1, TablesOK
        <5> QED BY <5>2 DEF Built
      <4>2. NumBlocks(p.total) <= NumBlocks(end)
        BY <1>5, <1>8, NeededOrder
      <4>3. NumBlocks(p.total) \in Nat /\ NumBlocks(end) \in Nat /\ Len(table) \in Nat
        BY <1>5, <1>8, <1>15, BlocksNeeded, QueuePlaces, Members
      <4> QED BY <4>1, <4>2, <4>3
    <3>2. Len(p.hits) \in Nat /\ req[r].status # "finished"
      BY <1>1, <1>5, <1>10
    <3> QED BY <1>4, <1>5, <1>15, <3>1, <3>2, ExternalOK
  <2> QED BY <2>1, <2>2 DEF sync
<1>17. /\ step' \in StepType /\ step'.phase = "waiting" /\ step'.i = step.i
       /\ step'.skip = step.skip /\ step'.got = [step.got EXCEPT ![r] = n]
       /\ step.got \in [Req -> Nat]
  <2> DEFINE left == step.budget - n
             given == [step.got EXCEPT ![r] = n]
  <2>0. step \in StepType
    BY <1>0 DEF Typed
  <2>1. step' = [step EXCEPT !.got = given, !.budget = left, !.sync = sync]
    BY <1>11, <2>0 DEF StepType
  <2>2. given \in [Req -> Nat] /\ step.got \in [Req -> Nat] /\ left \in Nat
    BY <1>4, <1>7, <2>0 DEF StepType
  <2> HIDE DEF left, given
  <2>3. /\ step' \in StepType /\ step'.phase = step.phase /\ step'.i = step.i
        /\ step'.skip = step.skip /\ step'.got = given
    BY <1>16, <2>0, <2>1, <2>2 DEF StepType
  <2> QED BY <1>4, <2>2, <2>3 DEF given
<1>18. running' \in Queue(Req) /\ ToSet(running') = ToSet(running) \cup {r}
  <2>1. r \notin ToSet(running) /\ running \in Queue(Req)
    BY <1>0, <1>1, <1>4 DEF Lined, Typed
  <2> QED BY <1>1, <1>4, <2>1, QueueAppend
<1>19. Typed'
  <2>1. req' \in [Req -> Request]
    <3>1. q3 \in Request
      BY <1>13, <1>15
    <3> QED BY <1>0, <1>4, <1>11, <3>1 DEF Typed
  <2> QED BY <1>0, <1>1, <1>4, <1>15, <1>17, <1>18, <2>1 DEF Typed, connector
<1>20. Counts'
  <2>1. ASSUME NEW s \in Req
        PROVE  /\ req'[s].ntok \in Prompt[s] .. Prompt[s] + MaxOut
               /\ req'[s].status # "finished" => req'[s].ntok < Prompt[s] + MaxOut
               /\ req'[s].computed <= req'[s].ntok
               /\ req'[s].computed + step'.got[s] <= req'[s].ntok
               /\ step'.got[s] > 0 => req'[s].status = "running"
    <3>1. CASE s = r
      <4>1. step'.got[s] = n /\ req'[s] = q3
        BY <1>14, <1>17, <3>1
      <4>2. q.ntok \in Prompt[r] .. Prompt[r] + MaxOut /\ q.ntok < Prompt[r] + MaxOut
        BY <1>0, <1>1, <1>4 DEF Counts
      <4> QED BY <1>5, <1>8, <1>10, <1>13, <3>1, <4>1, <4>2
    <3>2. CASE s # r
      <4>1. step'.got[s] = step.got[s] /\ req'[s] = req[s]
        BY <1>14, <1>17, <3>2
      <4> QED BY <1>0, <1>4, <4>1 DEF Counts, Scheduling
    <3> QED BY <3>1, <3>2
  <2>2. conf' = conf
    BY <1>1
  <2> QED BY <1>17, <2>1, <2>2 DEF Counts, Prompt, MaxOut, Scheduling
<1>21. Lined'
  <2>0. /\ req'[r].status = "running" /\ \A s \in Req \ {r} : req'[s].status = req[s].status
    BY <1>13, <1>14
  <2>1. /\ ToSet(running') = {s \in Req : req'[s].status = "running"}
        /\ ToSet(waiting') \cup ToSet(skipped') \cup ToSet(step'.skip)
             = {s \in Req : req'[s].status \in Pending}
    <3>1. ToSet(running) = {s \in Req : req[s].status = "running"}
      BY <1>0 DEF Lined
    <3>2. ToSet(waiting) \cup ToSet(skipped) \cup ToSet(step.skip)
            = {s \in Req : req[s].status \in Pending}
      BY <1>0 DEF Lined
    <3>3. ToSet(running') = {s \in Req : req'[s].status = "running"}
      BY <1>4, <1>18, <2>0, <3>1
    <3>4. ToSet(waiting') \cup ToSet(skipped') \cup ToSet(step'.skip)
            = {s \in Req : req'[s].status \in Pending}
      BY <1>4, <1>17, <2>0, <3>2 DEF Pending
    <3> QED BY <3>3, <3>4
  <2>2. (ToSet(waiting') \cup ToSet(skipped')) \cap ToSet(step'.skip) = {}
    BY <1>0, <1>4, <1>17 DEF Lined
  <2> QED BY <1>4, <1>17, <2>1, <2>2 DEF Lined
<1>22. Waits'
  <2>1. failed' = failed /\ req'[r].status = "running"
    BY <1>1, <1>13, <1>14
  <2> QED BY <1>0, <1>14, <2>1 DEF Waits
<1>23. Transfers'
  <2>1. req'[r].status = "running"
    BY <1>13, <1>14
  <2> QED BY <1>0, <1>1, <1>4, <1>6, <1>14, <2>1, SMTT(40) DEF Transfers, NoZombies, NoException, connector
<1> QED BY <1>15, <1>19, <1>20, <1>21, <1>22, <1>23 DEF IInv

-----------------------------------------------------------------------------
(* update_from_output: blocks that did not arrive.                         *)

\* A request has at least the tokens computed that the step gave it.
LEMMA StartOK ==
  ASSUME IInv, step.phase = "output", NEW r \in Req
  PROVE  Start(r) \in Nat /\ Start(r) <= req[r].computed /\ req[r].computed \in Nat
<1>1. /\ step.got[r] <= req[r].computed /\ step.got[r] \in Nat /\ req[r].computed \in Nat
  BY DEF IInv, Counts, Scheduling, Typed, StepType, Request
<1> QED BY <1>1 DEF Start

\* The first block that a request marked begins before what was computed ahead.
LEMMA MarkedOK ==
  ASSUME IInv, step.phase = "output", NEW rs \in Queue(Req), NEW i \in 1 .. Len(rs), NEW bad,
         MarkedAt(rs, i, bad) # {}
  PROVE  /\ Min(MarkedAt(rs, i, bad)) \in Nat \ {0}
         /\ (Min(MarkedAt(rs, i, bad)) - 1) * BlockSize \in 0 .. Start(rs[i])
<1> DEFINE marked == MarkedAt(rs, i, bad)
<1>1. rs[i] \in Req
  BY QueuePlaces
<1>2. Start(rs[i]) \in Nat
  BY <1>1, StartOK
<1>3. marked \subseteq 1 .. NumBlocks(Start(rs[i])) /\ NumBlocks(Start(rs[i])) \in Nat
  BY <1>2, BlocksNeeded DEF MarkedAt, InvalidAt
<1>4. marked \in SUBSET Nat
  BY <1>3
<1> HIDE DEF marked
<1>5. Min(marked) \in marked
  BY <1>4, MinOfSome DEF marked
<1>6. Min(marked) \in 1 .. NumBlocks(Start(rs[i])) /\ Min(marked) \in Nat \ {0}
  <2> DEFINE m == Min(marked)
             n == NumBlocks(Start(rs[i]))
  <2>1. m \in 1 .. n /\ n \in Nat
    BY <1>3, <1>5
  <2> HIDE DEF m, n
  <2>2. m \in 1 .. n /\ m \in Nat \ {0}
    BY <2>1
  <2> QED BY <2>2 DEF m, n
<1>7. (Min(marked) - 1) * BlockSize \in 0 .. Start(rs[i]) - 1
  BY <1>2, <1>6, BlocksNeeded
<1>8. (Min(marked) - 1) * BlockSize \in 0 .. Start(rs[i])
  BY <1>2, <1>7
<1> QED BY <1>6, <1>8 DEF marked

\* Requests are affected by invalid blocks in their own queue, and are cut to what
\* they had before the step, or to less.
LEMMA AffectedOK ==
  ASSUME IInv, step.phase = "output", NEW rs \in Queue(Req), NEW bad
  PROVE  /\ Affected(rs, bad) \subseteq ToSet(rs)
         /\ \A i \in 1 .. Len(rs) : CutAt(rs, i, bad) \in 0 .. Start(rs[i])
         /\ ToEvict(rs, bad) \subseteq Block
<1>1. rs \in Seq(Req) /\ \A i \in 1 .. Len(rs) : rs[i] \in Req /\ rs[i] \in ToSet(rs)
  BY QueuePlaces, Members
<1>2. Affected(rs, bad) \subseteq ToSet(rs)
  BY <1>1 DEF Affected
<1>3. ASSUME NEW i \in 1 .. Len(rs) PROVE CutAt(rs, i, bad) \in 0 .. Start(rs[i])
  <2>1. Start(rs[i]) \in Nat
    BY <1>1, StartOK
  <2>2. CASE MarkedAt(rs, i, bad) = {}
    BY <2>1, <2>2 DEF CutAt
  <2>3. CASE MarkedAt(rs, i, bad) # {}
    BY <2>3, MarkedOK DEF CutAt
  <2> QED BY <2>2, <2>3
<1>4. ASSUME NEW b \in ToEvict(rs, bad) PROVE b \in Block
  <2>1. PICK i \in {j \in 1 .. Len(rs) : MarkedAt(rs, j, bad) # {}} :
          b \in {req[rs[i]].blocks[k] : k \in Min(MarkedAt(rs, i, bad)) .. Len(req[rs[i]].blocks)}
    BY DEF ToEvict
  <2>2. i \in 1 .. Len(rs) /\ MarkedAt(rs, i, bad) # {} /\ rs[i] \in Req
    BY <1>1, <2>1
  <2>3. PICK k \in Min(MarkedAt(rs, i, bad)) .. Len(req[rs[i]].blocks) : b = req[rs[i]].blocks[k]
    BY <2>1
  <2>4. Min(MarkedAt(rs, i, bad)) \in Nat \ {0} /\ Len(req[rs[i]].blocks) \in Nat
    BY <2>2, MarkedOK, HeldFacts
  <2>5. k \in 1 .. Len(req[rs[i]].blocks) /\ req[rs[i]].blocks \in Queue(Block)
    BY <2>2, <2>4, HeldFacts
  <2> QED BY <2>3, <2>5, QueuePlaces
<1> QED BY <1>2, <1>3, <1>4

\* The requests that wait for their loads.
LEMMA LoadingOK ==
  ASSUME IInv
  PROVE  /\ Loading \in Queue(Req) /\ ToSet(Loading) \subseteq ToSet(skipped)
         /\ \A r \in ToSet(Loading) : r \in Req /\ req[r].status = "remote"
<1>1. skipped \in Queue(Req)
  BY DEF IInv, Typed
<1>2. /\ Loading \in Queue(Req)
      /\ ToSet(Loading) = ToSet(skipped) \cap {r \in Req : req[r].status = "remote"}
  BY <1>1, QueueAmong DEF Loading
<1> QED BY <1>2

\* What is left of the computed tokens of every request.
LEMMA CutOK ==
  ASSUME IInv, step.phase = "output", NEW bad, NEW r \in Req
  PROVE  /\ Cut(bad)[r] \in Nat /\ Cut(bad)[r] <= req[r].computed
         /\ r \notin Affected(Loading, bad) \cup Affected(running, bad)
              => Cut(bad)[r] = req[r].computed
<1>1. Start(r) \in Nat /\ Start(r) <= req[r].computed /\ req[r].computed \in Nat
  BY StartOK
<1>2. ASSUME NEW rs \in Queue(Req), r \in Affected(rs, bad)
      PROVE  CutAt(rs, CHOOSE i \in 1 .. Len(rs) : rs[i] = r, bad) \in 0 .. Start(r)
  <2> DEFINE j == CHOOSE i \in 1 .. Len(rs) : rs[i] = r
  <2>1. \E i \in 1 .. Len(rs) : rs[i] = r
    BY <1>2 DEF Affected
  <2>2. j \in 1 .. Len(rs) /\ rs[j] = r
    BY <2>1
  <2> HIDE DEF j
  <2>3. CutAt(rs, j, bad) \in 0 .. Start(r)
    BY <2>2, AffectedOK
  <2> QED BY <2>3 DEF j
<1>3. CASE r \in Affected(Loading, bad)
  <2> DEFINE c == CutAt(Loading, CHOOSE i \in 1 .. Len(Loading) : Loading[i] = r, bad)
  <2>1. Cut(bad)[r] = c
    BY <1>3 DEF Cut
  <2>2. c \in 0 .. Start(r)
    BY <1>2, <1>3, LoadingOK
  <2> HIDE DEF c
  <2> QED BY <1>1, <1>3, <2>1, <2>2
<1>4. CASE r \notin Affected(Loading, bad) /\ r \in Affected(running, bad)
  <2> DEFINE c == CutAt(running, CHOOSE i \in 1 .. Len(running) : running[i] = r, bad)
  <2>1. Cut(bad)[r] = c
    BY <1>4 DEF Cut
  <2>2. c \in 0 .. Start(r)
    <3>1. running \in Queue(Req)
      BY DEF IInv, Typed
    <3> QED BY <1>2, <1>4, <3>1
  <2> HIDE DEF c
  <2> QED BY <1>1, <1>4, <2>1, <2>2
<1>5. CASE r \notin Affected(Loading, bad) /\ r \notin Affected(running, bad)
  <2>1. Cut(bad)[r] = req[r].computed
    BY <1>5 DEF Cut
  <2> QED BY <1>1, <2>1
<1> QED BY <1>3, <1>4, <1>5

\* Which requests end, and which give their blocks back: never one whose load may
\* still write to them, and never one that the worker is about to report.
LEMMA EndsOK ==
  ASSUME IInv, step.phase = "output", NEW bad, NEW r \in Req
  PROVE  /\ r \in Sampled(bad) => req[r].status = "running"
         /\ r \in Stopped(bad) <=> r \in Sampled(bad) /\ req[r].ntok + 1 = Prompt[r] + MaxOut
         /\ r \in Errors(bad) => req[r].status \in {"running", "remote"} /\ r \notin Stopped(bad)
         /\ r \in Ended(bad) <=> \/ r \in Stopped(bad) \/ r \in Errors(bad)
                                 \/ req[r].status = "finished"
         /\ r \in FreedNow(bad) <=> \/ r \in Stopped(bad) /\ r \notin Senders
                                    \/ r \in Errors(bad) /\ ~Delayed(r)
         /\ r \in FreedLater(bad) <=> \/ load[r].st = "done" /\ r \in Ended(bad)
                                      \/ r \in sends.done
         /\ r \in FreedNow(bad) \cup FreedLater(bad) => r \in Ended(bad) /\ load[r].st # "on"
         /\ load[r].st = "done" \/ r \in sends.done => r \in kept /\ r \notin FreedNow(bad)
<1>0. Typed /\ Lined /\ Transfers /\ NoZombies
  BY DEF IInv, Transfers
<1>1. r \in Affected(Loading, bad) => req[r].status = "remote"
  BY LoadingOK, AffectedOK
<1>2. r \in Affected(running, bad) => req[r].status = "running"
  <2>1. running \in Queue(Req)
    BY <1>0 DEF Typed
  <2> QED BY <1>0, <2>1, AffectedOK DEF Lined
<1>3. r \in Sampled(bad) => req[r].status = "running" /\ r \notin Errors(bad)
  BY DEF Sampled, Errors
<1>4. r \in Stopped(bad) <=> r \in Sampled(bad) /\ req[r].ntok + 1 = Prompt[r] + MaxOut
  BY DEF Stopped
<1>5. r \in Errors(bad) => req[r].status \in {"running", "remote"} /\ r \notin Stopped(bad)
  BY <1>1, <1>2, <1>3, <1>4 DEF Errors, FailedIds
<1>6. r \in Ended(bad) <=> \/ r \in Stopped(bad) \/ r \in Errors(bad)
                           \/ req[r].status = "finished"
  BY DEF Ended
<1>7. r \in FreedNow(bad) <=> \/ r \in Stopped(bad) /\ r \notin Senders
                              \/ r \in Errors(bad) /\ ~Delayed(r)
  BY DEF FreedNow
<1>8. r \in FreedLater(bad) <=> \/ load[r].st = "done" /\ r \in Ended(bad)
                                \/ r \in sends.done
  BY DEF FreedLater, LoadsDone
<1>9. /\ req[r].status = "running" => load[r].st = "off"
      /\ req[r].status = "remote" => (r \in recved <=> load[r].st = "off")
      /\ r \in sends.done => req[r].status = "finished" /\ load[r].st = "off"
      /\ load[r].st = "done" => req[r].status \in {"remote", "finished"}
      /\ req[r].status = "remote" => r \in kept
      /\ req[r].status = "finished" /\ load[r].st # "off" => r \in kept
      /\ r \in sends.done => r \in kept
  BY <1>0 DEF Transfers, NoZombies
<1>10. r \in FreedNow(bad) => load[r].st = "off" /\ r \notin sends.done
  BY <1>3, <1>4, <1>5, <1>7, <1>9 DEF Delayed
<1> QED BY <1>3, <1>4, <1>5, <1>6, <1>7, <1>8, <1>9, <1>10

\* update_from_output, with everything that ends in it: stopped and failed requests,
\* loads and sends.
LEMMA UpdateIInv == ASSUME IInv, Update PROVE IInv'
<1>0. /\ Typed /\ Counts /\ Lined /\ Held /\ Waits /\ Transfers /\ NoZombies /\ ~exc
  BY DEF IInv, Transfers, NoException
<1> DEFINE bad == step.invalid \cup Lost
           cut == Cut(bad)
           freed == FreedNow(bad) \cup FreedLater(bad)
           gone == Stopped(bad) \cup Errors(bad)
           p == IF Recompute THEN pool ELSE EvictBlocks(pool, ToEvict(running, bad))
           left(r) == [req[r] EXCEPT !.computed = cut[r],
                                     !.ntok = IF r \in Sampled(bad) THEN @ + 1 ELSE @,
                                     !.status = IF r \in Ended(bad) THEN "finished" ELSE @]
<1>1. /\ step.phase = "output" /\ step' = Idle /\ UNCHANGED <<conf, waiting, kv>>
      /\ req' = [r \in Req |-> IF r \in freed THEN Freed(left(r)) ELSE left(r)]
      /\ pool' = FreeAll(p, freed) /\ kept' = kept \ freed
      /\ running' = Without(running, gone) /\ skipped' = Without(skipped, Errors(bad))
      /\ recved' = (recved \ Errors(bad)) \cup (LoadsDone \ Ended(bad))
      /\ failed' = IF Recompute THEN failed \cup Affected(Loading, bad) ELSE failed \ Errors(bad)
      /\ load' = [r \in Req |-> IF r \in LoadsDone THEN NoLoad ELSE [load[r] EXCEPT !.lost = {}]]
      /\ sends' = [on |-> sends.on \cup (Stopped(bad) \cap Senders), done |-> {}]
      /\ exc' = (exc \/ \E r \in LoadsDone \cup sends.done : r \notin kept \/ r \in FreedNow(bad))
  BY ZenonT(300) DEF Update
<1> HIDE DEF bad, cut
<1>2. ASSUME NEW r \in Req
      PROVE  /\ r \in Sampled(bad) => req[r].status = "running"
             /\ r \in Stopped(bad) <=> r \in Sampled(bad) /\ req[r].ntok + 1 = Prompt[r] + MaxOut
             /\ r \in Errors(bad) => req[r].status \in {"running", "remote"} /\ r \notin Stopped(bad)
             /\ r \in Ended(bad) <=> \/ r \in Stopped(bad) \/ r \in Errors(bad)
                                     \/ req[r].status = "finished"
             /\ r \in FreedNow(bad) <=> \/ r \in Stopped(bad) /\ r \notin Senders
                                        \/ r \in Errors(bad) /\ ~Delayed(r)
             /\ r \in FreedLater(bad) <=> \/ load[r].st = "done" /\ r \in Ended(bad)
                                          \/ r \in sends.done
             /\ r \in freed => r \in Ended(bad) /\ load[r].st # "on"
             /\ load[r].st = "done" \/ r \in sends.done => r \in kept /\ r \notin FreedNow(bad)
  BY <1>1, EndsOK
<1>3. ASSUME NEW r \in Req
      PROVE  /\ cut[r] \in Nat /\ cut[r] <= req[r].computed
             /\ r \notin Affected(Loading, bad) \cup Affected(running, bad)
                  => cut[r] = req[r].computed
             /\ req[r].computed \in Nat /\ req[r].ntok \in Nat /\ req[r] \in Request
  <2>1. req[r].computed \in Nat /\ req[r].ntok \in Nat /\ req[r] \in Request
    BY <1>0 DEF Typed, Request
  <2> QED BY <1>1, <2>1, CutOK DEF cut
<1>4. ASSUME NEW r \in Req
      PROVE  /\ req'[r] \in Request /\ req'[r].computed = cut[r]
             /\ req'[r].ntok = (IF r \in Sampled(bad) THEN req[r].ntok + 1 ELSE req[r].ntok)
             /\ req'[r].status = (IF r \in Ended(bad) THEN "finished" ELSE req[r].status)
             /\ IF r \in freed THEN req'[r].blocks = <<>> /\ req'[r].ncached = 0
                ELSE req'[r].blocks = req[r].blocks /\ req'[r].ncached = req[r].ncached
  <2> DEFINE q == left(r)
             n == IF r \in Sampled(bad) THEN req[r].ntok + 1 ELSE req[r].ntok
             s == IF r \in Ended(bad) THEN "finished" ELSE req[r].status
  <2>1. /\ q \in Request /\ q.computed = cut[r] /\ q.ntok = n /\ q.status = s
        /\ q.blocks = req[r].blocks /\ q.ncached = req[r].ncached
    <3>1. n \in Nat /\ s \in {"absent", "running", "finished"} \cup Pending
      BY <1>3 DEF Request
    <3>2. q = [req[r] EXCEPT !.computed = cut[r], !.ntok = n, !.status = s]
      BY <1>3 DEF Request
    <3> HIDE DEF q, n, s
    <3> QED BY <1>3, <3>1, <3>2 DEF Request
  <2>2. req'[r] = IF r \in freed THEN Freed(q) ELSE q
    BY <1>1
  <2> HIDE DEF q
  <2>3. CASE r \in freed
    <3>1. req'[r] = Freed(q)
      BY <2>2, <2>3
    <3> QED BY <2>1, <2>3, <3>1, FreedFields
  <2>4. CASE r \notin freed
    BY <2>1, <2>2, <2>4
  <2> QED BY <2>3, <2>4
<1>5. ASSUME NEW r \in Req
      PROVE  /\ load'[r] \in LoadType
             /\ load'[r].st = (IF load[r].st = "done" THEN "off" ELSE load[r].st)
             /\ load'[r].into = (IF load[r].st = "done" THEN {} ELSE load[r].into)
  <2>1. load[r] \in LoadType /\ NoLoad \in LoadType /\ NoLoad.st = "off" /\ NoLoad.into = {}
    BY <1>0 DEF Typed, LoadType, NoLoad
  <2>2. r \in LoadsDone <=> load[r].st = "done"
    BY DEF LoadsDone
  <2>3. load'[r] = IF r \in LoadsDone THEN NoLoad ELSE [load[r] EXCEPT !.lost = {}]
    BY <1>1
  <2> QED BY <2>1, <2>2, <2>3 DEF LoadType
<1>6. freed \in SUBSET Req /\ Ended(bad) \in SUBSET Req /\ gone \in SUBSET Req
      /\ LoadsDone \in SUBSET Req /\ Errors(bad) \in SUBSET Req
  <2>1. Stopped(bad) \subseteq Req
    BY DEF Stopped, Sampled, Scheduled
  <2>2. Affected(Loading, bad) \subseteq Req /\ Affected(running, bad) \subseteq Req
    <3>1. running \in Queue(Req) /\ Loading \in Queue(Req)
      BY <1>0, LoadingOK DEF Typed
    <3> QED BY <1>1, <3>1, AffectedOK, QueuePlaces, Members
  <2>3. Errors(bad) \subseteq Req
    BY <2>2 DEF Errors, FailedIds
  <2>4. LoadsDone \subseteq Req /\ sends.done \subseteq Req
    BY <1>0 DEF LoadsDone, Typed
  <2>5. FreedNow(bad) \subseteq Req /\ FreedLater(bad) \subseteq Req /\ Ended(bad) \subseteq Req
    BY <2>1, <2>3, <2>4 DEF FreedNow, FreedLater, Ended
  <2> QED BY <2>1, <2>3, <2>4, <2>5
<1>7. pool' \in PoolType /\ Held'
  <2>1. /\ p \in PoolType /\ IndexOK(p) /\ p.ref = pool.ref /\ p.free = pool.free
        /\ \A b \in Block : p.hash[b] \in {pool.hash[b], None}
    <3>1. pool \in PoolType /\ IndexOK(pool) /\ running \in Queue(Req)
      BY <1>0 DEF Typed, Held
    <3>2. ToEvict(running, bad) \in SUBSET Block
      BY <1>1, <3>1, AffectedOK
    <3>3. CASE Recompute
      BY <3>1, <3>3
    <3>4. CASE ~Recompute
      <4>1. p = EvictBlocks(pool, ToEvict(running, bad))
        BY <3>4
      <4> HIDE DEF p
      <4> QED BY <3>1, <3>2, <4>1, EvictedOK
    <3> QED BY <3>3, <3>4
  <2>2. \A r \in Req : IF r \in freed THEN req'[r].blocks = <<>> /\ req'[r].ncached = 0
                       ELSE req'[r].blocks = req[r].blocks /\ req'[r].ncached = req[r].ncached
    BY <1>4
  <2>3. pool' = FreeAll(p, freed)
    BY <1>1
  <2> HIDE DEF p, freed
  <2> QED BY <1>6, <2>1, <2>2, <2>3, HeldFreed
<1>8. /\ running' \in Queue(Req) /\ ToSet(running') = ToSet(running) \ gone
      /\ skipped' \in Queue(Req) /\ ToSet(skipped') = ToSet(skipped) \ Errors(bad)
  <2>1. ASSUME NEW q \in Queue(Req), NEW rs \in SUBSET Req
        PROVE  Without(q, rs) \in Queue(Req) /\ ToSet(Without(q, rs)) = ToSet(q) \ rs
    <3>1. q \in Seq(Req) /\ ToSet(q) \in SUBSET Req
      BY QueuePlaces, Members
    <3> QED BY <3>1, QueueAmong DEF Without
  <2>2. /\ running \in Queue(Req) /\ skipped \in Queue(Req)
        /\ running' = Without(running, gone) /\ skipped' = Without(skipped, Errors(bad))
    BY <1>0, <1>1 DEF Typed
  <2> HIDE DEF gone
  <2> QED BY <1>6, <2>1, <2>2
<1>9. Affected(Loading, bad) \subseteq {r \in ToSet(skipped) : r \in Req /\ req[r].status = "remote"}
  <2>1. Affected(Loading, bad) \subseteq ToSet(Loading)
    BY <1>1, LoadingOK, AffectedOK
  <2> QED BY <2>1, LoadingOK
<1>10. Affected(running, bad) \subseteq {r \in Req : req[r].status = "running"}
  <2>1. running \in Queue(Req)
    BY <1>0 DEF Typed
  <2>2. Affected(running, bad) \subseteq ToSet(running)
    BY <1>1, <2>1, AffectedOK
  <2> QED BY <1>0, <2>2 DEF Lined
<1>11. /\ step' \in StepType /\ step'.phase = "idle" /\ step'.skip = <<>> /\ step' = Idle
       /\ \A r \in Req : step'.got[r] = 0
  BY <1>1, IdleTyped DEF Idle
<1>12. ASSUME NEW r \in Req
       PROVE  /\ req[r].status = "running" => load[r].st = "off"
              /\ req[r].status \notin {"remote", "finished"} => load[r].st = "off"
              /\ req[r].status = "remote" => (r \in recved <=> load[r].st = "off")
              /\ req[r].status \notin {"absent", "finished"} => r \in kept
              /\ req[r].status = "absent" => r \notin kept
              /\ r \in sends.on \cup sends.done => req[r].status = "finished" /\ load[r].st = "off"
              /\ load[r].st # "on" => load[r].into = {}
              /\ r \in recved \cup failed => req[r].status = "remote"
              /\ load[r].st \in {"off", "on", "done"}
              /\ Delayed(r) <=> req[r].status = "remote" /\ r \notin recved
              /\ ~(r \in sends.on /\ r \in sends.done)
              /\ req[r].status = "finished" =>
                   /\ r \in kept <=> load[r].st # "off" \/ r \in sends.on \cup sends.done
                   /\ r \notin kept => req[r].blocks = <<>>
  BY <1>0 DEF Transfers, NoZombies, Delayed, Typed, LoadType
<1>13. Typed'
  <2>1. req' \in [Req -> Request] /\ load' \in [Req -> LoadType]
    <3>1. /\ req' = [r \in Req |-> req'[r]] /\ load' = [r \in Req |-> load'[r]]
      BY <1>1
    <3> QED BY <1>4, <1>5, <3>1
  <2>2. sends' \in [on : SUBSET Req, done : SUBSET Req]
    <3>1. Stopped(bad) \subseteq Req
      BY DEF Stopped, Sampled, Scheduled
    <3> QED BY <1>0, <1>1, <3>1 DEF Typed
  <2>3. kept' \in SUBSET Req /\ recved' \in SUBSET Req /\ failed' \in SUBSET Req
    BY <1>0, <1>1, <1>6, <1>9 DEF Typed
  <2> QED BY <1>0, <1>1, <1>7, <1>8, <1>11, <2>1, <2>2, <2>3 DEF Typed
<1>14. Counts'
  <2>1. ASSUME NEW r \in Req
        PROVE  /\ req'[r].ntok \in Prompt[r] .. Prompt[r] + MaxOut
               /\ req'[r].status # "finished" => req'[r].ntok < Prompt[r] + MaxOut
               /\ req'[r].computed <= req'[r].ntok
               /\ step'.got[r] = 0
    <3>1. /\ req[r].ntok \in Prompt[r] .. Prompt[r] + MaxOut
          /\ req[r].status # "finished" => req[r].ntok < Prompt[r] + MaxOut
          /\ req[r].computed <= req[r].ntok
      BY <1>0 DEF Counts
    <3>2. Prompt[r] \in Nat /\ MaxOut \in Nat
      BY ConfFacts
    <3>3. cut[r] <= req[r].ntok /\ cut[r] \in Nat /\ req[r].ntok \in Nat
      BY <1>3, <3>1
    <3>4. CASE r \in Sampled(bad)
      <4>1. req[r].status = "running" /\ req[r].ntok < Prompt[r] + MaxOut
        BY <1>2, <3>1, <3>4
      <4>2. req'[r].ntok = req[r].ntok + 1 /\ req'[r].computed = cut[r]
        BY <1>4, <3>4
      <4>3. req'[r].status # "finished" => req[r].ntok + 1 # Prompt[r] + MaxOut
        BY <1>2, <1>4, <3>4
      <4> QED BY <1>11, <3>1, <3>2, <3>3, <4>1, <4>2, <4>3
    <3>5. CASE r \notin Sampled(bad)
      <4>1. req'[r].ntok = req[r].ntok /\ req'[r].computed = cut[r]
        BY <1>4, <3>5
      <4>2. req'[r].status # "finished" => req[r].status # "finished"
        BY <1>4
      <4> QED BY <1>11, <3>1, <3>3, <4>1, <4>2
    <3> QED BY <3>4, <3>5
  <2>2. conf' = conf
    BY <1>1
  <2>3. ASSUME NEW r \in Req PROVE req'[r].computed + step'.got[r] <= req'[r].ntok
    BY <1>4, <2>1 DEF Request
  <2> QED BY <1>11, <2>1, <2>2, <2>3 DEF Counts, Prompt, MaxOut, Scheduling
<1>15. Lined'
  <2>1. /\ ToSet(running) = {r \in Req : req[r].status = "running"}
        /\ ToSet(waiting) \cap ToSet(skipped) = {}
        /\ ToSet(waiting) \cup ToSet(skipped) = {r \in Req : req[r].status \in Pending}
    <3>1. step.skip = <<>> /\ ToSet(step.skip) = {}
      BY <1>0, <1>1, QueueEmpty DEF Lined
    <3> QED BY <1>0, <3>1 DEF Lined
  <2>2. ToSet(step'.skip) = {}
    BY <1>11, QueueEmpty
  <2>3. ASSUME NEW r \in Req
        PROVE  /\ r \in ToSet(running') <=> req'[r].status = "running"
               /\ r \in ToSet(waiting') \cup ToSet(skipped') <=> req'[r].status \in Pending
    <3>1. req'[r].status = (IF r \in Ended(bad) THEN "finished" ELSE req[r].status)
      BY <1>4
    <3>2. r \in gone <=> r \in Stopped(bad) \/ r \in Errors(bad)
      OBVIOUS
    <3>3. r \in Errors(bad) => req[r].status = "running" \/ r \in ToSet(skipped)
      BY <1>9, <1>10 DEF Errors, FailedIds
    <3>4. waiting' = waiting
      BY <1>1
    <3> HIDE DEF gone
    <3>5. r \in ToSet(running') <=> req'[r].status = "running"
      BY <1>2, <1>8, <2>1, <3>1, <3>2
    <3>6. r \in ToSet(waiting') \cup ToSet(skipped') <=> req'[r].status \in Pending
      <4>1. CASE r \in Ended(bad)
        <5>1. r \in ToSet(waiting) => FALSE
          <6>1. r \in ToSet(waiting) => req[r].status \in Pending /\ r \notin ToSet(skipped)
            BY <2>1
          <6> QED BY <1>2, <3>3, <4>1, <6>1 DEF Pending
        <5>2. r \in ToSet(skipped') => FALSE
          <6>1. r \in ToSet(skipped) => req[r].status \in Pending
            BY <2>1
          <6> QED BY <1>2, <1>8, <4>1, <6>1 DEF Pending
        <5> QED BY <3>1, <3>4, <4>1, <5>1, <5>2 DEF Pending
      <4>2. CASE r \notin Ended(bad)
        BY <1>2, <1>8, <2>1, <3>1, <3>4, <4>2
      <4> QED BY <4>1, <4>2
    <3> QED BY <3>5, <3>6
  <2>4. /\ ToSet(running') \subseteq Req /\ ToSet(waiting') \subseteq Req
        /\ ToSet(skipped') \subseteq Req
    BY <1>1, <1>8, <2>1
  <2>5. ToSet(running') = {r \in Req : req'[r].status = "running"}
    BY <2>3, <2>4
  <2>6. ToSet(waiting') \cup ToSet(skipped') \cup ToSet(step'.skip)
          = {r \in Req : req'[r].status \in Pending}
    BY <2>2, <2>3, <2>4
  <2>7. ToSet(waiting') \cap ToSet(skipped') = {}
    BY <1>1, <1>8, <2>1
  <2> QED BY <1>11, <2>2, <2>5, <2>6, <2>7 DEF Lined
<1>16. Waits'
  <2>1. ASSUME NEW r \in Req
        PROVE  /\ req'[r].status \in {"absent", "waiting", "preempted"} /\ req'[r].computed = 0
                    => req'[r].blocks = <<>>
               /\ req'[r].status = "absent" => req'[r].computed = 0
               /\ req'[r].status = "remote" =>
                    /\ NumBlocks(req'[r].computed) <= Len(req'[r].blocks)
                    /\ req'[r].computed = 0 => r \in failed'
    <3>1. /\ req[r].status \in {"absent", "waiting", "preempted"} /\ req[r].computed = 0
               => req[r].blocks = <<>>
          /\ req[r].status = "absent" => req[r].computed = 0
          /\ req[r].status = "remote" => /\ NumBlocks(req[r].computed) <= Len(req[r].blocks)
                                         /\ req[r].computed = 0 => r \in failed
      BY <1>0 DEF Waits
    <3>2. CASE r \in Ended(bad)
      BY <1>4, <3>2
    <3>3. CASE r \notin Ended(bad)
      <4>1. /\ req'[r].status = req[r].status /\ req'[r].computed = cut[r]
            /\ req'[r].blocks = req[r].blocks
        BY <1>2, <1>4, <3>3
      <4>2. CASE r \notin Affected(Loading, bad) \cup Affected(running, bad)
        <5>1. cut[r] = req[r].computed
          BY <1>3, <4>2
        <5>2. r \in failed => r \in failed'
          BY <1>1, <1>2, <3>3
        <5> QED BY <3>1, <4>1, <5>1, <5>2
      <4>3. CASE r \in Affected(running, bad)
        BY <1>10, <4>1, <4>3
      <4>4. CASE r \in Affected(Loading, bad)
        <5>1. req[r].status = "remote"
          BY <1>9, <4>4
        <5>2. Recompute
          BY <1>2, <3>3, <4>4 DEF Errors, FailedIds
        <5>3. r \in failed'
          BY <1>1, <4>4, <5>2
        <5>4. NumBlocks(cut[r]) <= Len(req[r].blocks)
          <6>1. NumBlocks(cut[r]) <= NumBlocks(req[r].computed)
            BY <1>3, NeededOrder
          <6>2. /\ NumBlocks(cut[r]) \in Nat /\ NumBlocks(req[r].computed) \in Nat
                /\ Len(req[r].blocks) \in Nat
            BY <1>3, BlocksNeeded, HeldFacts
          <6> QED BY <3>1, <5>1, <6>1, <6>2
        <5> QED BY <4>1, <5>1, <5>3, <5>4
      <4> QED BY <4>2, <4>3, <4>4
    <3> QED BY <3>2, <3>3
  <2> QED BY <2>1 DEF Waits, NumBlocks
<1>17. ASSUME NEW r \in Req
       PROVE  /\ r \in kept' <=> r \in kept /\ r \notin freed
              /\ r \in recved' <=> \/ r \in recved /\ r \notin Errors(bad)
                                   \/ load[r].st = "done" /\ r \notin Ended(bad)
              /\ r \in failed' => \/ r \in failed /\ r \notin Errors(bad)
                                  \/ r \in Affected(Loading, bad) /\ Recompute
              /\ r \in sends'.on <=> r \in sends.on \/ r \in Stopped(bad) \cap Senders
              /\ r \notin sends'.done
  <2>1. r \in LoadsDone <=> load[r].st = "done"
    BY DEF LoadsDone
  <2>2. Recompute => Errors(bad) = {}
    BY DEF Errors
  <2> HIDE DEF freed
  <2>3. kept' = kept \ freed /\ recved' = (recved \ Errors(bad)) \cup (LoadsDone \ Ended(bad))
    BY <1>1
  <2>4. \/ failed' = failed \cup Affected(Loading, bad) /\ Recompute
        \/ failed' = failed \ Errors(bad)
    BY <1>1
  <2>5. sends'.on = sends.on \cup (Stopped(bad) \cap Senders) /\ sends'.done = {}
    BY <1>1
  <2> QED BY <2>1, <2>2, <2>3, <2>4, <2>5
<1>18. ASSUME NEW r \in Req
       PROVE  /\ req'[r].status \notin {"remote", "finished"} => load'[r].st = "off"
              /\ req'[r].status = "remote" => (r \in recved' <=> load'[r].st = "off")
              /\ req'[r].status = "absent" => r \notin kept'
              /\ req'[r].status \notin {"absent", "finished"} => r \in kept'
              /\ r \in sends'.on \cup sends'.done => req'[r].status = "finished" /\ load'[r].st = "off"
              /\ load'[r].st # "on" => load'[r].into = {}
              /\ \A x \in load'[r].into : \E k \in req'[r].ncached + 1 .. Len(req'[r].blocks) :
                   x[1] = req'[r].blocks[k]
              /\ r \in recved' \cup failed' => req'[r].status = "remote"
              /\ req'[r].status = "finished" =>
                   /\ r \in kept' <=> load'[r].st # "off" \/ r \in sends'.on \cup sends'.done
                   /\ r \notin kept' => req'[r].blocks = <<>>
  <2>1. \A x \in load[r].into : \E k \in req[r].ncached + 1 .. Len(req[r].blocks) :
          x[1] = req[r].blocks[k]
    BY <1>0 DEF Transfers
  <2>2. \A x \in load'[r].into : \E k \in req'[r].ncached + 1 .. Len(req'[r].blocks) :
          x[1] = req'[r].blocks[k]
    <3>1. CASE r \in freed
      <4>1. load'[r].into = {}
        BY <1>2, <1>5, <1>12, <3>1
      <4> QED BY <4>1
    <3>2. CASE r \notin freed
      <4>1. req'[r].blocks = req[r].blocks /\ req'[r].ncached = req[r].ncached
        BY <1>4, <3>2
      <4>2. load'[r].into \subseteq load[r].into
        BY <1>5
      <4> QED BY <2>1, <4>1, <4>2
    <3> QED BY <3>1, <3>2
  <2>3. r \in freed <=> r \in FreedNow(bad) \/ r \in FreedLater(bad)
    OBVIOUS
  <2> HIDE DEF freed
  <2>4. /\ r \in Affected(Loading, bad) /\ Recompute => req[r].status = "remote" /\ r \notin Errors(bad)
    BY <1>9 DEF Errors
  <2>5. /\ req'[r].status \notin {"remote", "finished"} => load'[r].st = "off"
        /\ req'[r].status = "remote" => (r \in recved' <=> load'[r].st = "off")
        /\ req'[r].status = "absent" => r \notin kept'
        /\ req'[r].status \notin {"absent", "finished"} => r \in kept'
        /\ load'[r].st # "on" => load'[r].into = {}
    BY <1>2, <1>4, <1>5, <1>12, <1>17
  <2>6. r \in sends'.on \cup sends'.done => req'[r].status = "finished" /\ load'[r].st = "off"
    BY <1>2, <1>4, <1>5, <1>12, <1>17
  <2>7. r \in recved' \cup failed' => req'[r].status = "remote"
    BY <1>2, <1>4, <1>5, <1>12, <1>17, <2>4
  <2>8. req'[r].status = "finished" =>
          /\ r \in kept' <=> load'[r].st # "off" \/ r \in sends'.on \cup sends'.done
          /\ r \notin kept' => req'[r].blocks = <<>>
    <3>1. CASE req[r].status = "finished"
      <4>1. r \notin Stopped(bad) /\ r \notin Errors(bad) /\ r \in Ended(bad)
        BY <1>2, <3>1
      <4>2. r \in freed <=> load[r].st = "done" \/ r \in sends.done
        BY <1>2, <2>3, <4>1
      <4>3. r \in sends'.on <=> r \in sends.on
        BY <1>17, <4>1, Zenon
      <4> QED BY <1>4, <1>5, <1>12, <1>17, <3>1, <4>2, <4>3
    <3>2. CASE r \in Stopped(bad)
      <4>1. /\ req[r].status = "running" /\ load[r].st = "off" /\ r \in kept
            /\ r \notin sends.on \cup sends.done /\ r \notin Errors(bad)
        BY <1>2, <1>12, <3>2
      <4>2. r \in freed <=> r \notin Senders
        BY <1>2, <2>3, <3>2, <4>1
      <4> QED BY <1>4, <1>5, <1>17, <3>2, <4>1, <4>2
    <3>3. CASE r \in Errors(bad)
      <4>1. /\ req[r].status \in {"running", "remote"} /\ r \in kept /\ r \notin Stopped(bad)
            /\ r \notin sends.on \cup sends.done /\ r \in Ended(bad)
        BY <1>2, <1>12, <3>3
      <4>2. r \in freed <=> load[r].st # "on"
        BY <1>2, <1>12, <2>3, <3>3, <4>1
      <4> QED BY <1>4, <1>5, <1>12, <1>17, <4>1, <4>2
    <3>4. CASE r \notin Ended(bad) /\ req[r].status # "finished"
      BY <1>4, <3>4
    <3> QED BY <1>2, <3>1, <3>2, <3>3, <3>4
  <2> QED BY <2>2, <2>5, <2>6, <2>7, <2>8
<1>19. Transfers'
  <2>1. ~exc'
    <3>1. \A r \in LoadsDone \cup sends.done : r \in Req /\ (load[r].st = "done" \/ r \in sends.done)
      BY <1>0 DEF LoadsDone, Typed
    <3>2. \A r \in LoadsDone \cup sends.done : ~(r \notin kept \/ r \in FreedNow(bad))
      BY <1>2, <3>1
    <3> QED BY <1>0, <1>1, <3>2
  <2>2. /\ (recved' \cup failed') \subseteq Req /\ sends'.on \cap sends'.done = {}
    BY <1>1, <1>13 DEF Typed
  <2> QED BY <1>18, <2>1, <2>2, Zenon DEF Transfers, NoZombies, NoException
<1> QED BY <1>7, <1>13, <1>14, <1>15, <1>16, <1>19 DEF IInv

-----------------------------------------------------------------------------
(* The theorems.                                                           *)

\* Every step keeps the invariant.
LEMMA NextIInv == IInv /\ [Next]_vars => IInv'
<1> SUFFICES ASSUME IInv, [Next]_vars PROVE IInv'
  OBVIOUS
<1>1. CASE Begin \/ EndRunning \/ NoRoom \/ EndWaiting \/ \E lost : Forward(lost)
  BY <1>1, MovesOn
<1>2. CASE ScheduleRunning
  BY <1>2, ScheduleRunningIInv
<1>3. CASE Preempt
  BY <1>3, PreemptIInv
<1>4. CASE StillLoading
  BY <1>4, StillLoadingIInv
<1>5. CASE Promote
  BY <1>5, PromoteIInv
<1>6. CASE StartLoad
  BY <1>6, StartLoadIInv
<1>7. CASE Admit
  BY <1>7, AdmitIInv
<1>8. CASE Emit
  BY <1>8, EmitIInv
<1>9. CASE Update
  BY <1>9, UpdateIInv
<1>10. CASE \E r \in Req : Arrive(r)
  BY <1>10, ArriveIInv
<1>11. CASE \E r \in Req : Abort(r)
  BY <1>11, AbortIInv
<1>12. CASE \E r \in Req : LoadDone(r) \/ SendDone(r) \/ \E b \in Block : Lose(r, b)
  BY <1>12, TransferIInv
<1>13. CASE UNCHANGED vars \/ Over
  <2> USE <1>13 DEF vars, queues, connector, Over
  <2>1. Typed'
    BY DEF IInv, Typed
  <2>2. Counts'
    BY DEF IInv, Counts, Prompt, MaxOut
  <2>3. Lined' /\ Waits'
    BY DEF IInv, Lined, Waits
  <2>4. Held'
    BY HeldSame DEF IInv
  <2>5. Transfers'
    BY DEF IInv, Transfers, NoZombies, NoException
  <2> QED BY <2>1, <2>2, <2>3, <2>4, <2>5 DEF IInv
<1> QED BY <1>1, <1>2, <1>3, <1>4, <1>5, <1>6, <1>7, <1>8, <1>9, <1>10, <1>11, <1>12, <1>13
        DEF Next, Engine

\* The queues of the waiting requests in a row hold each of them once.
LEMMA WaitingOnce ==
  ASSUME IInv
  PROVE  /\ waiting \o skipped \o step.skip \in Queue(Req)
         /\ ToSet(waiting \o skipped \o step.skip) = {r \in Req : req[r].status \in Pending}
<1>1. /\ waiting \in Queue(Req) /\ skipped \in Queue(Req) /\ step.skip \in Queue(Req)
      /\ ToSet(waiting) \cap ToSet(skipped) = {}
      /\ (ToSet(waiting) \cup ToSet(skipped)) \cap ToSet(step.skip) = {}
      /\ ToSet(waiting) \cup ToSet(skipped) \cup ToSet(step.skip)
           = {r \in Req : req[r].status \in Pending}
  BY DEF IInv, Typed, Lined, StepType
<1>2. /\ waiting \o skipped \in Queue(Req)
      /\ ToSet(waiting \o skipped) = ToSet(waiting) \cup ToSet(skipped)
  BY <1>1, QueueConcat
<1> DEFINE a == waiting \o skipped
           b == step.skip
<1>3. a \in Queue(Req) /\ b \in Queue(Req) /\ ToSet(a) \cap ToSet(b) = {}
  BY <1>1, <1>2
<1> HIDE DEF a, b
<1>4. a \o b \in Queue(Req) /\ ToSet(a \o b) = ToSet(a) \cup ToSet(b)
  BY <1>3, QueueConcat
<1> QED BY <1>1, <1>2, <1>4 DEF a, b

\* Queues and statuses account for one another.
LEMMA TypesFollow == ASSUME IInv PROVE TypeOK
<1>0. Typed /\ Counts /\ Lined /\ Transfers /\ NoException
  BY DEF IInv, Transfers
<1>1. ASSUME NEW r \in Req
      PROVE  /\ req[r].computed \in 0 .. req[r].ntok
             /\ req[r].ntok \in Prompt[r] .. Prompt[r] + MaxOut
  <2>1. req[r].computed \in Nat /\ req[r].ntok \in Nat /\ req[r].computed <= req[r].ntok
    BY <1>0 DEF Typed, Request, Counts
  <2> QED BY <1>0, <2>1 DEF Counts
<1>2. ASSUME NEW r \in Req
      PROVE  Cardinality({i \in 1 .. Len(running) : running[i] = r})
               = (IF req[r].status = "running" THEN 1 ELSE 0)
  <2>1. running \in Queue(Req) /\ (r \in ToSet(running) <=> req[r].status = "running")
    BY <1>0 DEF Typed, Lined
  <2> QED BY <2>1, QueueCount
<1>3. ASSUME NEW r \in Req
      PROVE  Cardinality({i \in 1 .. Len(waiting \o skipped \o step.skip) :
                            (waiting \o skipped \o step.skip)[i] = r})
               = (IF req[r].status \in {"waiting", "preempted", "remote"} THEN 1 ELSE 0)
  <2> DEFINE q == waiting \o skipped \o step.skip
  <2>1. q \in Queue(Req) /\ ToSet(q) = {s \in Req : req[s].status \in Pending}
    BY WaitingOnce
  <2> HIDE DEF q
  <2>2. r \in ToSet(q) <=> req[r].status \in {"waiting", "preempted", "remote"}
    BY <2>1 DEF Pending
  <2>3. Cardinality({i \in 1 .. Len(q) : q[i] = r})
          = (IF req[r].status \in {"waiting", "preempted", "remote"} THEN 1 ELSE 0)
    BY <2>1, <2>2, QueueCount
  <2> QED BY <2>3 DEF q
<1>4. recved \subseteq {r \in Req : req[r].status = "remote"} /\ failed \subseteq kept
  BY <1>0 DEF Transfers
<1>5. load \in [Req -> [st : {"off", "on", "done"}, into : SUBSET (Block \X Hash),
                        lost : SUBSET Block]]
  BY <1>0 DEF Typed, LoadType
<1>6. exc \in BOOLEAN
  BY <1>0 DEF Typed
<1> QED BY <1>1, <1>2, <1>3, <1>4, <1>5, <1>6 DEF TypeOK

\* The blocks of a load are counted once, held once, and in no index.
LEMMA OwnFollows == ASSUME IInv PROVE LoadsIntoOwn
<1> SUFFICES ASSUME NEW r \in Req, NEW x \in load[r].into
             PROVE  pool.ref[x[1]] = 1 /\ Holders(x[1]) = {r} /\ pool.hash[x[1]] = None
  BY DEF LoadsIntoOwn
<1>1. PICK k \in req[r].ncached + 1 .. Len(req[r].blocks) : x[1] = req[r].blocks[k]
  BY DEF IInv, Transfers
<1>2. pool.hash[x[1]] = None /\ \A s \in Req \ {r} : x[1] \notin ToSet(req[s].blocks)
  BY <1>1 DEF IInv, Held, Own
<1>3. x[1] \in ToSet(req[r].blocks) /\ x[1] \in Block
  <2>1. /\ req[r].blocks \in Queue(Block) /\ req[r].ncached \in Nat /\ Len(req[r].blocks) \in Nat
    BY HeldFacts
  <2>2. k \in 1 .. Len(req[r].blocks) /\ req[r].blocks \in Seq(Block)
    BY <2>1, QueuePlaces
  <2> QED BY <1>1, <2>2, Members
<1>4. Holders(x[1]) = {r}
  BY <1>2, <1>3 DEF Holders
<1>5. pool.ref[x[1]] = 1
  <2>1. pool.ref[x[1]] = Cardinality(Holders(x[1]))
    BY <1>3, HeldFacts
  <2>2. Cardinality({r}) = 1
    BY FS_Singleton
  <2> QED BY <1>4, <2>1, <2>2
<1> QED BY <1>2, <1>4, <1>5

\* The invariant holds all the time.
THEOREM Inductive == Spec => []IInv
BY InitIInv, NextIInv, PTL DEF Spec

\* Whatever aborts, preemptions, late and failed loads come in between: queues and
\* statuses agree, reference counts are the tables', every report of a transfer finds
\* its request, and an ended request is kept exactly as long as a transfer uses its
\* blocks (Scheduler.finish_requests, _free_request, _update_from_kv_xfer_finished).
THEOREM Accounts == Spec => []Accounted
<1>1. IInv => Accounted
  BY TypesFollow DEF IInv, Held, Transfers, Accounted
<1> QED BY <1>1, Inductive, PTL

\* A load that is still under way writes to blocks that its request alone holds and
\* that no lookup finds, also when the request has ended or been preempted in between.
THEOREM LoadsStayOwn == Spec => []LoadsIntoOwn
BY OwnFollows, Inductive, PTL
=============================================================================
