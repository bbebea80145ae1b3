--------------------------- MODULE BlockQueueProofs ---------------------------
(***************************************************************************)
(* The free queue and the ordered dicts of the block pool, for every set   *)
(* of blocks and hashes: the queue stays exact, lookups stay stable, free  *)
(* blocks keep their order, and the whole implements the pool of sets.     *)
(*                                                                         *)
(* The lemmas give each operator of the pool in closed form, then what it  *)
(* is in the abstract pool; the steps of the specification follow from     *)
(* them, and all four theorems from the steps.                             *)
(***************************************************************************)
EXTENDS BlockQueue, QueuesProofs

-----------------------------------------------------------------------------
(* The shape of a pool.                                                    *)

Entry == [block : Block, valid : Valid]

QueuePool == [queue   : Queue(Block),
              ref     : [Block -> Int],
              hash    : [Block -> Hash \cup {None}],
              cached  : [Hash -> Queue(Block)],
              partial : [Hash -> Entry \cup {None}],
              pids    : [Block -> SUBSET Hash],
              raised  : BOOLEAN]

\* The abstract pool that a pool stands for, as in the refinement mapping.
Sets(q) == [free    |-> ToSet(q.queue),
            ref     |-> q.ref,
            hash    |-> q.hash,
            cached  |-> [h \in Hash |-> ToSet(q.cached[h])],
            partial |-> q.partial,
            pids    |-> q.pids]

-----------------------------------------------------------------------------
(* Evicting blocks.                                                        *)

\* The indexes of a pool without the blocks of S, in closed form.
CachedWithout(q, S) ==
  [h \in Hash |-> Among(q.cached[h], Block \ {b \in S : q.hash[b] = h})]
HashWithout(q, S) ==
  [b \in Block |-> IF b \in S /\ q.hash[b] # None /\ b \in ToSet(q.cached[q.hash[b]])
                   THEN None ELSE q.hash[b]]
PartialWithout(q, S) ==
  [h \in Hash |-> IF /\ q.partial[h] # None /\ q.partial[h].block \in S
                     /\ h \in q.pids[q.partial[h].block]
                  THEN None ELSE q.partial[h]]
PidsWithout(q, S) == [b \in Block |-> IF b \in S THEN {} ELSE q.pids[b]]

Evicted(q, S) ==
  [queue   |-> q.queue, ref |-> q.ref,
   hash    |-> HashWithout(q, S),
   cached  |-> CachedWithout(q, S),
   partial |-> PartialWithout(q, S),
   pids    |-> PidsWithout(q, S),
   raised  |-> q.raised]

\* The fields of a pool.
LEMMA Fields ==
  ASSUME NEW q \in QueuePool
  PROVE  /\ q.queue \in Queue(Block) /\ q.ref \in [Block -> Int]
         /\ q.hash \in [Block -> Hash \cup {None}]
         /\ q.cached \in [Hash -> Queue(Block)]
         /\ q.partial \in [Hash -> Entry \cup {None}]
         /\ q.pids \in [Block -> SUBSET Hash] /\ q.raised \in BOOLEAN
         /\ \A h \in Hash : q.cached[h] \in Queue(Block) /\ q.cached[h] \in Seq(Block)
BY DEF QueuePool, Queue

\* Two pools with the same fields are the same.
LEMMA SamePool ==
  ASSUME NEW p \in QueuePool, NEW q \in QueuePool,
         p.queue = q.queue, p.ref = q.ref, p.hash = q.hash, p.cached = q.cached,
         p.partial = q.partial, p.pids = q.pids, p.raised = q.raised
  PROVE  p = q
BY DEF QueuePool

\* A pool without some of its blocks is a pool.
LEMMA EvictedPool ==
  ASSUME NEW q \in QueuePool, NEW S \in SUBSET Block
  PROVE  Evicted(q, S) \in QueuePool
<1>1. HashWithout(q, S) \in [Block -> Hash \cup {None}]
  BY Fields DEF HashWithout
<1>2. CachedWithout(q, S) \in [Hash -> Queue(Block)]
  BY Fields, QueueAmong DEF CachedWithout
<1>3. PartialWithout(q, S) \in [Hash -> Entry \cup {None}]
  BY Fields DEF PartialWithout
<1>4. PidsWithout(q, S) \in [Block -> SUBSET Hash]
  BY Fields DEF PidsWithout
<1> QED
  BY <1>1, <1>2, <1>3, <1>4, Fields DEF Evicted, QueuePool

\* Evicting no block changes nothing.
LEMMA EvictedNone ==
  ASSUME NEW q \in QueuePool
  PROVE  Evicted(q, {}) = q
<1>1. CachedWithout(q, {}) = q.cached
  <2>1. ASSUME NEW h \in Hash PROVE Among(q.cached[h], Block \ {b \in {} : q.hash[b] = h}) = q.cached[h]
    <3>1. q.cached[h] \in Seq(Block) /\ ToSet(q.cached[h]) \subseteq Block
      BY Fields, Members
    <3>2. ToSet(q.cached[h]) \subseteq Block \ {b \in {} : q.hash[b] = h}
      BY <3>1
    <3> QED BY <3>1, <3>2, AmongAll
  <2> QED BY <2>1, Fields DEF CachedWithout
<1>2. HashWithout(q, {}) = q.hash
  BY Fields DEF HashWithout
<1>3. PartialWithout(q, {}) = q.partial
  BY Fields DEF PartialWithout
<1>4. PidsWithout(q, {}) = q.pids
  BY Fields DEF PidsWithout
<1>5. Evicted(q, {}) \in QueuePool
  BY EvictedPool
<1> QED
  BY <1>1, <1>2, <1>3, <1>4, <1>5, SamePool DEF Evicted

\* Evicting one block more.
LEMMA EvictedOneMore ==
  ASSUME NEW q \in QueuePool, NEW S \in SUBSET Block, NEW b \in Block
  PROVE  EvictCached(Evicted(q, S), b) = Evicted(q, S \cup {b})
<1> DEFINE e == Evicted(q, S)
           f == Evicted(q, S \cup {b})
           p == EvictPartial(e, b)
           r == EvictCached(e, b)
           h == e.hash[b]
<1>0. e \in QueuePool /\ f \in QueuePool
  BY EvictedPool
<1>1. /\ e.queue = q.queue /\ e.ref = q.ref /\ e.raised = q.raised
      /\ e.hash = HashWithout(q, S) /\ e.cached = CachedWithout(q, S)
      /\ e.partial = PartialWithout(q, S) /\ e.pids = PidsWithout(q, S)
  BY DEF Evicted
<1>2. /\ f.queue = q.queue /\ f.ref = q.ref /\ f.raised = q.raised
      /\ f.hash = HashWithout(q, S \cup {b}) /\ f.cached = CachedWithout(q, S \cup {b})
      /\ f.partial = PartialWithout(q, S \cup {b}) /\ f.pids = PidsWithout(q, S \cup {b})
  BY DEF Evicted
<1> HIDE DEF e, f
<1>3. /\ p.queue = e.queue /\ p.ref = e.ref /\ p.raised = e.raised
      /\ p.hash = e.hash /\ p.cached = e.cached
      /\ p.pids = [e.pids EXCEPT ![b] = {}]
      /\ p.partial = [g \in Hash |-> IF /\ g \in e.pids[b] /\ e.partial[g] # None
                                        /\ e.partial[g].block = b
                                     THEN None ELSE e.partial[g]]
  BY <1>0 DEF EvictPartial, QueuePool
<1>4. p \in QueuePool
  <2>1. p.pids \in [Block -> SUBSET Hash] /\ p.partial \in [Hash -> Entry \cup {None}]
    BY <1>0, <1>3, Fields
  <2> QED BY <1>0, <2>1 DEF EvictPartial, QueuePool
<1>5. p.pids = f.pids
  <2>1. p.pids \in [Block -> SUBSET Hash] /\ f.pids \in [Block -> SUBSET Hash]
    BY <1>0, <1>4, Fields
  <2>2. e.pids \in [Block -> SUBSET Hash]
    BY <1>0, Fields
  <2>3. \A c \in Block : p.pids[c] = f.pids[c]
    BY <1>1, <1>2, <1>3, <2>2, SMTT(40) DEF PidsWithout
  <2> QED BY <2>1, <2>3
<1>6. p.partial = f.partial
  <2>1. ASSUME NEW g \in Hash PROVE p.partial[g] = f.partial[g]
    <3>0. q.partial[g] \in Entry \cup {None} /\ \A c \in Block : q.pids[c] \in SUBSET Hash
      BY Fields
    <3>1. f.partial[g] = IF /\ q.partial[g] # None /\ q.partial[g].block \in S \cup {b}
                            /\ g \in q.pids[q.partial[g].block]
                         THEN None ELSE q.partial[g]
      BY <1>2 DEF PartialWithout
    <3>2. e.partial[g] = IF /\ q.partial[g] # None /\ q.partial[g].block \in S
                            /\ g \in q.pids[q.partial[g].block]
                         THEN None ELSE q.partial[g]
      BY <1>1 DEF PartialWithout
    <3>3. e.pids[b] = IF b \in S THEN {} ELSE q.pids[b]
      BY <1>1 DEF PidsWithout
    <3>4. p.partial[g] = IF /\ g \in e.pids[b] /\ e.partial[g] # None
                            /\ e.partial[g].block = b
                         THEN None ELSE e.partial[g]
      BY <1>3
    <3>5. CASE b \in S
      <4>1. S \cup {b} = S
        BY <3>5
      <4> QED BY <3>1, <3>2, <3>3, <3>4, <3>5, <4>1
    <3>6. CASE b \notin S /\ q.partial[g] = None
      BY <3>1, <3>2, <3>3, <3>4, <3>6
    <3>7. CASE b \notin S /\ q.partial[g] # None /\ q.partial[g].block = b
      BY <3>1, <3>2, <3>3, <3>4, <3>7
    <3>8. CASE b \notin S /\ q.partial[g] # None /\ q.partial[g].block # b
      BY <3>1, <3>2, <3>3, <3>4, <3>8
    <3> QED BY <3>5, <3>6, <3>7, <3>8
  <2> QED BY <1>0, <1>4, <2>1, Fields
<1>7. /\ q.hash[b] \in Hash \cup {None} /\ h \in Hash \cup {None} /\ None \notin Hash
      /\ e.hash \in [Block -> Hash \cup {None}] /\ f.hash \in [Block -> Hash \cup {None}]
  BY <1>0, Fields, QueueAssumption
<1>8. \A c \in Block : c # b => f.hash[c] = e.hash[c]
  BY <1>1, <1>2 DEF HashWithout
\* What is left of a dict, member by member.
<1>9. ASSUME NEW g \in Hash
      PROVE  /\ e.cached[g] \in Seq(Block)
             /\ ToSet(e.cached[g]) = ToSet(q.cached[g]) \ {c \in S : q.hash[c] = g}
             /\ f.cached[g] = Among(e.cached[g], Block \ (IF q.hash[b] = g THEN {b} ELSE {}))
  <2> DEFINE out == {c \in S : q.hash[c] = g}
             all == {c \in S \cup {b} : q.hash[c] = g}
             one == IF q.hash[b] = g THEN {b} ELSE {}
  <2>0. q.cached[g] \in Seq(Block) /\ ToSet(q.cached[g]) \subseteq Block
    BY Fields, Members
  <2>1. e.cached[g] = Among(q.cached[g], Block \ out)
    BY <1>1 DEF CachedWithout
  <2>2. f.cached[g] = Among(q.cached[g], Block \ all)
    BY <1>2 DEF CachedWithout
  <2>3. e.cached[g] \in Seq(Block) /\ ToSet(e.cached[g]) = ToSet(q.cached[g]) \cap (Block \ out)
    BY <2>0, <2>1, AmongMembers
  <2>4. Among(e.cached[g], Block \ one) = Among(q.cached[g], (Block \ out) \cap (Block \ one))
    BY <2>0, <2>1, AmongTwice
  <2>5. (Block \ out) \cap (Block \ one) = Block \ all
    OBVIOUS
  <2>6. ToSet(e.cached[g]) = ToSet(q.cached[g]) \ out
    <3> HIDE DEF out
    <3> QED BY <2>0, <2>3
  <2>7. f.cached[g] = Among(e.cached[g], Block \ one)
    <3> HIDE DEF out, all, one
    <3> QED BY <2>2, <2>4, <2>5
  <2> QED BY <2>3, <2>6, <2>7
<1>10. ASSUME NEW g \in Hash, b \notin ToSet(e.cached[g]) \/ q.hash[b] # g
       PROVE  f.cached[g] = e.cached[g]
  <2>1. e.cached[g] \in Seq(Block) /\ ToSet(e.cached[g]) \subseteq Block
    BY <1>9, Members
  <2>2. ToSet(e.cached[g]) \subseteq Block \ (IF q.hash[b] = g THEN {b} ELSE {})
    BY <1>10, <2>1
  <2>3. Among(e.cached[g], Block \ (IF q.hash[b] = g THEN {b} ELSE {})) = e.cached[g]
    BY <2>1, <2>2, AmongAll
  <2> QED BY <1>9, <2>3
<1>11. e.cached \in [Hash -> Queue(Block)] /\ f.cached \in [Hash -> Queue(Block)]
  BY <1>0, Fields
<1>12. CASE h = None \/ ~Contains(p.cached[h], b)
  <2>1. r = p
    BY <1>12 DEF EvictCached
  <2>2. ASSUME h # None PROVE h = q.hash[b] /\ b \notin ToSet(e.cached[h])
    <3>1. h \in Hash
      BY <1>7, <2>2
    <3>2. h = q.hash[b]
      BY <1>1, <2>2 DEF HashWithout
    <3>3. e.cached[h] \in Seq(Block)
      BY <1>9, <3>1
    <3> QED BY <1>3, <1>12, <2>2, <3>2, <3>3, ContainsMember
  <2>3. f.hash[b] = e.hash[b]
    <3>1. CASE h # None
      <4>1. h = q.hash[b] /\ h \in Hash /\ b \notin ToSet(e.cached[h])
        BY <1>7, <2>2, <3>1
      <4>3. f.hash[b] = IF q.hash[b] # None /\ b \in ToSet(q.cached[q.hash[b]])
                        THEN None ELSE q.hash[b]
        BY <1>2 DEF HashWithout
      <4>4. e.hash[b] = IF b \in S /\ q.hash[b] # None /\ b \in ToSet(q.cached[q.hash[b]])
                        THEN None ELSE q.hash[b]
        BY <1>1 DEF HashWithout
      <4>5. b \notin ToSet(q.cached[h])
        <5>1. CASE b \notin S
          <6>1. b \notin {c \in S : q.hash[c] = h}
            BY <5>1
          <6> QED BY <1>9, <4>1, <6>1
        <5>2. CASE b \in S
          BY <3>1, <4>1, <4>4, <5>2
        <5> QED BY <5>1, <5>2
      <4> QED BY <4>1, <4>3, <4>4, <4>5
    <3>2. CASE h = None
      BY <1>1, <1>2, <3>2 DEF HashWithout
    <3> QED BY <3>1, <3>2
  <2>4. p.hash = f.hash
    <3>1. \A c \in Block : f.hash[c] = e.hash[c]
      BY <1>8, <2>3
    <3> QED BY <1>3, <1>7, <3>1
  <2>5. ASSUME NEW g \in Hash PROVE f.cached[g] = e.cached[g]
    <3>1. CASE q.hash[b] # g
      BY <1>10, <3>1
    <3>2. CASE q.hash[b] = g /\ h = None
      <4>1. b \in S /\ b \in ToSet(q.cached[g])
        BY <1>1, <1>7, <3>2 DEF HashWithout
      <4>2. b \notin ToSet(e.cached[g])
        BY <1>9, <3>2, <4>1
      <4> QED BY <1>10, <4>2
    <3>3. CASE q.hash[b] = g /\ h # None
      <4>1. b \notin ToSet(e.cached[g])
        BY <2>2, <3>3
      <4> QED BY <1>10, <4>1
    <3> QED BY <3>1, <3>2, <3>3
  <2>6. p.cached = f.cached
    BY <1>3, <1>11, <2>5
  <2> QED BY <1>0, <1>1, <1>2, <1>3, <1>4, <1>5, <1>6, <2>1, <2>4, <2>6, SamePool DEF e, f
<1>13. CASE h # None /\ Contains(p.cached[h], b)
  <2>0. h \in Hash /\ h = q.hash[b]
    BY <1>1, <1>7, <1>13 DEF HashWithout
  <2>1. r = [p EXCEPT !.cached[h] = Among(@, Block \ {b}), !.hash[b] = None]
    BY <1>13 DEF EvictCached
  <2>2. /\ r.queue = p.queue /\ r.ref = p.ref /\ r.raised = p.raised
        /\ r.partial = p.partial /\ r.pids = p.pids
        /\ r.cached = [p.cached EXCEPT ![h] = Among(p.cached[h], Block \ {b})]
        /\ r.hash = [p.hash EXCEPT ![b] = None]
    BY <1>4, <2>1 DEF QueuePool
  <2>3. b \in ToSet(e.cached[h])
    BY <1>3, <1>9, <1>13, <2>0, ContainsMember
  <2>4. r.hash = f.hash
    <3>1. b \in ToSet(q.cached[h])
      BY <1>9, <2>0, <2>3
    <3>2. f.hash[b] = None
      BY <1>2, <2>0, <3>1 DEF HashWithout
    <3> QED BY <1>3, <1>7, <1>8, <2>2, <3>2
  <2>5. r.cached = f.cached
    <3>1. ASSUME NEW g \in Hash, g # h PROVE f.cached[g] = e.cached[g]
      BY <1>10, <2>0, <3>1
    <3>2. f.cached[h] = Among(e.cached[h], Block \ {b})
      BY <1>9, <2>0
    <3>3. \A g \in Hash : r.cached[g] = f.cached[g]
      BY <1>3, <1>11, <2>0, <2>2, <3>1, <3>2
    <3>4. r.cached = [g \in Hash |-> r.cached[g]]
      BY <1>3, <1>11, <2>2
    <3> QED BY <1>11, <3>3, <3>4
  <2>6. r \in QueuePool
    <3>1. r.cached \in [Hash -> Queue(Block)] /\ r.hash \in [Block -> Hash \cup {None}]
      BY <1>7, <1>11, <2>4, <2>5
    <3> QED BY <1>4, <2>1, <3>1 DEF QueuePool
  <2> QED BY <1>0, <1>1, <1>2, <1>3, <1>5, <1>6, <2>2, <2>4, <2>5, <2>6, SamePool DEF e, f
<1> QED
  BY <1>12, <1>13

\* Evicting a list of blocks, one after the other, is evicting all of them.
LEMMA EvictBlocksOK ==
  ASSUME NEW q \in QueuePool, NEW bs \in Seq(Block)
  PROVE  EvictBlocks(q, bs) = Evicted(q, ToSet(bs))
<1> DEFINE N == Len(bs)
           body(f) == [n \in 0 .. N |-> IF n = 0 THEN q ELSE EvictCached(f[n - 1], bs[n])]
           first(n) == {bs[i] : i \in 1 .. n}
           g == [n \in 0 .. N |-> Evicted(q, first(n))]
           evicted == CHOOSE f : f = body(f)
<1>0. N \in Nat /\ \A n \in 1 .. N : bs[n] \in Block
  BY Members
<1>1. EvictBlocks(q, bs) = evicted[N]
  BY DEF EvictBlocks
<1>2. ASSUME NEW n \in 0 .. N PROVE g[n] = body(g)[n]
  <2>1. CASE n = 0
    <3>1. first(0) = {}
      OBVIOUS
    <3>2. g[0] = Evicted(q, first(0))
      BY <1>0
    <3> HIDE DEF first, g
    <3>3. g[0] = q
      BY <3>1, <3>2, EvictedNone
    <3> QED BY <2>1, <3>3
  <2>2. CASE n # 0
    <3>1. n \in 1 .. N /\ n - 1 \in 0 .. N /\ bs[n] \in Block
      BY <1>0, <2>2
    <3>2. first(n) = first(n - 1) \cup {bs[n]} /\ first(n - 1) \in SUBSET Block
      BY <1>0, <3>1
    <3>3. EvictCached(Evicted(q, first(n - 1)), bs[n]) = Evicted(q, first(n - 1) \cup {bs[n]})
      <4> HIDE DEF first
      <4> QED BY <3>1, <3>2, EvictedOneMore
    <3>4. g[n] = Evicted(q, first(n)) /\ g[n - 1] = Evicted(q, first(n - 1))
      BY <3>1
    <3>5. g[n] = EvictCached(g[n - 1], bs[n])
      <4> HIDE DEF first, g
      <4> QED BY <3>2, <3>3, <3>4
    <3> QED BY <2>2, <3>5
  <2> QED BY <2>1, <2>2
<1>3. g = body(g)
  <2> DEFINE h == body(g)
  <2>1. g = [n \in 0 .. N |-> g[n]] /\ h = [n \in 0 .. N |-> h[n]]
    OBVIOUS
  <2>2. \A n \in 0 .. N : g[n] = h[n]
    BY <1>2
  <2> HIDE DEF g, h
  <2>3. g = h
    BY <2>1, <2>2
  <2> QED BY <2>3 DEF h
<1>4. evicted = body(evicted)
  <2> HIDE DEF g
  <2> QED BY <1>3
<1> HIDE DEF evicted
<1>5. \A n \in 0 .. N : evicted[n] = IF n = 0 THEN q ELSE EvictCached(evicted[n - 1], bs[n])
  BY <1>4
<1>6. \A n \in 0 .. N : g[n] = IF n = 0 THEN q ELSE EvictCached(g[n - 1], bs[n])
  <2> HIDE DEF g
  <2> QED BY <1>3
<1> DEFINE Z == {n \in Nat : n <= N => evicted[n] = g[n]}
<1>7. 0 \in Z
  <2> HIDE DEF g
  <2> QED BY <1>0, <1>5, <1>6
<1>8. ASSUME NEW n \in Nat, n \in Z PROVE n + 1 \in Z
  <2> HIDE DEF g
  <2> SUFFICES ASSUME n + 1 <= N PROVE evicted[n + 1] = g[n + 1]
    OBVIOUS
  <2>1. n + 1 \in 0 .. N /\ n + 1 # 0 /\ (n + 1) - 1 = n /\ evicted[n] = g[n]
    BY <1>0, <1>8
  <2>2. /\ evicted[n + 1] = EvictCached(evicted[n], bs[n + 1])
        /\ g[n + 1] = EvictCached(g[n], bs[n + 1])
    BY <1>5, <1>6, <2>1
  <2> QED BY <2>1, <2>2
<1>9. N \in Z
  <2> HIDE DEF Z
  <2>1. \A n \in Nat : n \in Z
    BY <1>7, <1>8, NumberInduction
  <2> QED BY <1>0, <2>1
<1>10. evicted[N] = g[N] /\ g[N] = Evicted(q, first(N))
  BY <1>0, <1>9
<1>11. first(N) = ToSet(bs)
  <2>1. \A x \in ToSet(bs) : \E i \in 1 .. N : bs[i] = x
    BY Members
  <2>2. \A i \in 1 .. N : bs[i] \in ToSet(bs)
    BY Members
  <2> QED BY <2>1, <2>2
<1> QED
  BY <1>1, <1>10, <1>11, Zenon

\* It is what the abstract pool does at once.
LEMMA EvictedSets ==
  ASSUME NEW q \in QueuePool, NEW S \in SUBSET Block
  PROVE  Sets(Evicted(q, S)) = Abstract!EvictCached(Sets(q), S)
<1>1. ASSUME NEW h \in Hash
      PROVE  ToSet(CachedWithout(q, S)[h]) = ToSet(q.cached[h]) \ {b \in S : q.hash[b] = h}
  <2>1. q.cached[h] \in Seq(Block) /\ ToSet(q.cached[h]) \subseteq Block
    BY Fields, Members
  <2>2. CachedWithout(q, S)[h] = Among(q.cached[h], Block \ {b \in S : q.hash[b] = h})
    BY DEF CachedWithout
  <2>3. ToSet(CachedWithout(q, S)[h]) = ToSet(q.cached[h]) \cap (Block \ {b \in S : q.hash[b] = h})
    BY <2>1, <2>2, AmongMembers
  <2> QED BY <2>1, <2>3
<1>2. [h \in Hash |-> ToSet(CachedWithout(q, S)[h])]
        = [h \in Hash |-> ToSet(q.cached[h]) \ {b \in S : q.hash[b] = h}]
  BY <1>1
<1>3. HashWithout(q, S)
        = [b \in Block |-> IF b \in S /\ q.hash[b] # None
                                /\ b \in [h \in Hash |-> ToSet(q.cached[h])][q.hash[b]]
                           THEN None ELSE q.hash[b]]
  <2>1. \A b \in Block : q.hash[b] \in Hash \cup {None}
    BY Fields
  <2> QED BY <2>1 DEF HashWithout
<1> DEFINE s == Sets(q)
           cached == [h \in Hash |-> s.cached[h] \ {b \in S : s.hash[b] = h}]
           hash == [b \in Block |-> IF b \in S /\ s.hash[b] # None /\ b \in s.cached[s.hash[b]]
                                   THEN None ELSE s.hash[b]]
           partial == [h \in Hash |-> IF /\ s.partial[h] # None /\ s.partial[h].block \in S
                                         /\ h \in s.pids[s.partial[h].block]
                                      THEN None ELSE s.partial[h]]
           pids == [b \in Block |-> IF b \in S THEN {} ELSE s.pids[b]]
<1>4. Abstract!EvictCached(s, S) = [[s EXCEPT !.partial = partial, !.pids = pids]
                                      EXCEPT !.cached = cached, !.hash = hash]
  <2> HIDE DEF s
  <2> QED BY DEF Abstract!EvictCached, Abstract!EvictPartial, Abstract!HasPartial
<1>5. /\ s = [free |-> s.free, ref |-> s.ref, hash |-> s.hash, cached |-> s.cached,
             partial |-> s.partial, pids |-> s.pids]
      /\ s.free = ToSet(q.queue) /\ s.ref = q.ref /\ s.hash = q.hash
      /\ s.cached = [h \in Hash |-> ToSet(q.cached[h])]
      /\ s.partial = q.partial /\ s.pids = q.pids
  BY DEF Sets
<1>6. Abstract!EvictCached(s, S) = [free |-> s.free, ref |-> s.ref, hash |-> hash,
                                    cached |-> cached, partial |-> partial, pids |-> pids]
  <2> HIDE DEF s, cached, hash, partial, pids
  <2> QED BY <1>4, <1>5
<1>7. hash = HashWithout(q, S)
  <2> HIDE DEF s
  <2> QED BY <1>3, <1>5
<1>8. cached = [h \in Hash |-> ToSet(CachedWithout(q, S)[h])]
  <2> HIDE DEF s
  <2> QED BY <1>2, <1>5
<1>9. partial = PartialWithout(q, S) /\ pids = PidsWithout(q, S)
  <2> HIDE DEF s
  <2> QED BY <1>5 DEF PartialWithout, PidsWithout
<1> HIDE DEF s, cached, hash, partial, pids
<1>10. Sets(Evicted(q, S)) = [free |-> s.free, ref |-> s.ref, hash |-> hash,
                             cached |-> cached, partial |-> partial, pids |-> pids]
  BY <1>5, <1>7, <1>8, <1>9 DEF Sets, Evicted
<1> QED
  BY <1>6, <1>10 DEF s

-----------------------------------------------------------------------------
(* Pools that differ in a few fields.                                      *)

WithRefs(q, queue, ref) == [q EXCEPT !.queue = queue, !.ref = ref]

SetsWithRefs(s, free, ref) == [s EXCEPT !.free = free, !.ref = ref]

WithIndexes(q, hash, cached, partial, pids) ==
  [q EXCEPT !.hash = hash, !.cached = cached, !.partial = partial, !.pids = pids]

\* The members of the dicts.
SetsOf(cached) == [h \in Hash |-> ToSet(cached[h])]

SetsWithIndexes(s, hash, cached, partial, pids) ==
  [s EXCEPT !.hash = hash, !.cached = cached, !.partial = partial, !.pids = pids]

\* With another queue and other counts.
LEMMA OtherRefs ==
  ASSUME NEW q \in QueuePool, NEW queue \in Queue(Block), NEW ref \in [Block -> Int]
  PROVE  /\ WithRefs(q, queue, ref) \in QueuePool
         /\ WithRefs(q, queue, ref).queue = queue
         /\ WithRefs(q, queue, ref).ref = ref
         /\ WithRefs(q, queue, ref).raised = q.raised
         /\ WithRefs(q, queue, ref).cached = q.cached
         /\ Sets(WithRefs(q, queue, ref)) = SetsWithRefs(Sets(q), ToSet(queue), ref)
<1> DEFINE r == WithRefs(q, queue, ref)
<1> DEFINE s == Sets(q)
<1>1. /\ r \in QueuePool /\ r.queue = queue /\ r.ref = ref /\ r.raised = q.raised
      /\ r.cached = q.cached /\ r.hash = q.hash /\ r.partial = q.partial /\ r.pids = q.pids
  BY DEF QueuePool, WithRefs, WithIndexes
<1>2. /\ s = [free |-> s.free, ref |-> s.ref, hash |-> s.hash, cached |-> s.cached,
             partial |-> s.partial, pids |-> s.pids]
      /\ s.hash = q.hash /\ s.cached = [h \in Hash |-> ToSet(q.cached[h])]
      /\ s.partial = q.partial /\ s.pids = q.pids
  BY DEF Sets
<1> HIDE DEF s, r
<1>3. SetsWithRefs(s, ToSet(queue), ref)
        = [free |-> ToSet(queue), ref |-> ref, hash |-> s.hash, cached |-> s.cached,
           partial |-> s.partial, pids |-> s.pids]
  <2>1. PICK z : z = [s EXCEPT !.free = ToSet(queue), !.ref = ref]
    OBVIOUS
  <2>2. z = [free |-> ToSet(queue), ref |-> ref, hash |-> s.hash, cached |-> s.cached,
             partial |-> s.partial, pids |-> s.pids]
    BY <1>2, <2>1
  <2> QED BY <2>1, <2>2, Zenon DEF SetsWithRefs
<1>4. Sets(r) = [free |-> ToSet(queue), ref |-> ref, hash |-> s.hash, cached |-> s.cached,
                 partial |-> s.partial, pids |-> s.pids]
  BY <1>1, <1>2 DEF Sets
<1> QED
  BY <1>1, <1>3, <1>4 DEF s, r

\* With other indexes.
LEMMA OtherIndexes ==
  ASSUME NEW q \in QueuePool, NEW hash \in [Block -> Hash \cup {None}],
         NEW cached \in [Hash -> Queue(Block)],
         NEW partial \in [Hash -> Entry \cup {None}], NEW pids \in [Block -> SUBSET Hash]
  PROVE  /\ WithIndexes(q, hash, cached, partial, pids) \in QueuePool
         /\ WithIndexes(q, hash, cached, partial, pids).queue = q.queue
         /\ WithIndexes(q, hash, cached, partial, pids).ref = q.ref
         /\ WithIndexes(q, hash, cached, partial, pids).raised = q.raised
         /\ WithIndexes(q, hash, cached, partial, pids).cached = cached
         /\ Sets(WithIndexes(q, hash, cached, partial, pids))
              = SetsWithIndexes(Sets(q), hash, SetsOf(cached), partial, pids)
<1> DEFINE r == WithIndexes(q, hash, cached, partial, pids)
<1> DEFINE s == Sets(q)
           cachedS == SetsOf(cached)
<1>1. /\ r \in QueuePool /\ r.queue = q.queue /\ r.ref = q.ref /\ r.raised = q.raised
      /\ r.cached = cached /\ r.hash = hash /\ r.partial = partial /\ r.pids = pids
  BY DEF QueuePool, WithRefs, WithIndexes
<1>2. /\ s = [free |-> s.free, ref |-> s.ref, hash |-> s.hash, cached |-> s.cached,
             partial |-> s.partial, pids |-> s.pids]
      /\ s.free = ToSet(q.queue) /\ s.ref = q.ref
  BY DEF Sets
<1>3. Sets(r) = [free |-> s.free, ref |-> s.ref, hash |-> hash, cached |-> cachedS,
                 partial |-> partial, pids |-> pids]
  <2> HIDE DEF s
  <2> QED BY <1>1, <1>2 DEF Sets, SetsOf
<1> HIDE DEF s, cachedS, r
<1>4. SetsWithIndexes(s, hash, cachedS, partial, pids)
        = [free |-> s.free, ref |-> s.ref, hash |-> hash, cached |-> cachedS,
           partial |-> partial, pids |-> pids]
  <2>1. PICK z : z = [s EXCEPT !.hash = hash, !.cached = cachedS, !.partial = partial,
                               !.pids = pids]
    OBVIOUS
  <2>2. z = [free |-> s.free, ref |-> s.ref, hash |-> hash, cached |-> cachedS,
             partial |-> partial, pids |-> pids]
    BY <1>2, <2>1
  <2> QED BY <2>1, <2>2, Zenon DEF SetsWithIndexes
<1> QED
  BY <1>1, <1>3, <1>4 DEF s, cachedS, r

\* The first of s, if t still holds it, is the first of t.
StillFirst(s, t) == s # <<>> /\ Head(s) \in ToSet(t) => t # <<>> /\ Head(t) = Head(s)

\* The pool after a step is what the properties ask for.
Implemented == [Abstract!Next]_(Abstract!vars)
Stable == \A h \in Hash :
            LET b == CachedBlock(pool, h)
            IN  b # None /\ Contains(pool'.cached[h], b) => CachedBlock(pool', h) = b
InOrder == IsPrefix(Among(pool.queue, ToSet(pool'.queue)), pool'.queue)

\* What every reachable state satisfies: the queue is exact, and the parts of the
\* state have their shape.
IInv == /\ pool \in QueuePool
        /\ held \in [Block -> Nat] /\ covers \in [Block -> SUBSET Hash]
        /\ QueueExact

Good == IInv' /\ Implemented /\ Stable /\ InOrder

\* QueueExact, by sets.
LEMMA ExactSets ==
  ASSUME NEW q \in QueuePool, NEW h \in [Block -> Nat]
  PROVE  /\ IsInjective(q.queue)
         /\ (\A b \in Block : Contains(q.queue, b) <=> h[b] = 0)
              <=> ToSet(q.queue) = {b \in Block : h[b] = 0}
<1>1. q.queue \in Queue(Block) /\ q.queue \in Seq(Block) /\ ToSet(q.queue) \in SUBSET Block
  BY Fields, Members DEF Queue
<1>2. \A b \in Block : Contains(q.queue, b) <=> b \in ToSet(q.queue)
  BY <1>1, ContainsMember
<1> QED
  BY <1>1, <1>2 DEF Queue

\* Lookups by first members.
LEMMA StableByFirst ==
  ASSUME pool \in QueuePool, pool' \in QueuePool,
         \A h \in Hash : StillFirst(pool.cached[h], pool'.cached[h])
  PROVE  Stable
<1> SUFFICES ASSUME NEW h \in Hash, CachedBlock(pool, h) # None,
                    Contains(pool'.cached[h], CachedBlock(pool, h))
             PROVE  CachedBlock(pool', h) = CachedBlock(pool, h)
  BY DEF Stable
<1>1. pool.cached[h] # <<>> /\ CachedBlock(pool, h) = Head(pool.cached[h])
  BY DEF CachedBlock
<1>2. pool'.cached[h] \in Seq(Block)
  BY Fields
<1>3. Head(pool.cached[h]) \in ToSet(pool'.cached[h])
  BY <1>1, <1>2, ContainsMember
<1> QED
  BY <1>1, <1>3 DEF StillFirst, CachedBlock

\* A dict that only loses members.
LEMMA AmongFirst ==
  ASSUME NEW q \in Seq(Block), NEW S
  PROVE  StillFirst(q, Among(q, S))
<1> SUFFICES ASSUME q # <<>>, Head(q) \in ToSet(Among(q, S))
             PROVE  Among(q, S) # <<>> /\ Head(Among(q, S)) = Head(q)
  BY DEF StillFirst
<1>1. Head(q) \in S
  BY AmongMembers
<1> QED
  BY <1>1, AmongHead

\* A queue that only loses members.
LEMMA AmongInOrder ==
  ASSUME NEW q \in Seq(Block), NEW S
  PROVE  IsPrefix(Among(q, ToSet(Among(q, S))), Among(q, S))
<1>1. Among(q, S) \in Seq(Block) /\ ToSet(Among(q, S)) = ToSet(q) \cap S
  BY AmongMembers
<1>2. Among(q, ToSet(Among(q, S))) = Among(q, S)
  <2>1. ToSet(q) \cap ToSet(Among(q, S)) = ToSet(q) \cap S
    BY <1>1
  <2> QED BY <2>1, AmongSame
<1>3. IsPrefix(Among(q, S), Among(q, S))
  BY <1>1, PrefixConcat
<1> QED
  BY <1>2, <1>3

\* A queue that does not change.
LEMMA SameInOrder ==
  ASSUME NEW q \in Seq(Block)
  PROVE  IsPrefix(Among(q, ToSet(q)), q)
BY AmongAll, PrefixConcat

-----------------------------------------------------------------------------
(* The steps.                                                              *)

\* get_new_blocks takes the front of the queue.
LEMMA AllocateStep ==
  ASSUME IInv, NEW n \in 1 .. Cardinality(Block), Allocate(n)
  PROVE  Good
<1> DEFINE q == pool.queue
           bs == NewBlocks(pool, n)
           rest == SubSeq(q, n + 1, Len(q))
           e == Evicted(pool, ToSet(bs))
           ref == [b \in Block |-> pool.ref[b] + Times(bs, b)]
           raised == e.raised \/ Len(bs) < n \/ \E b \in ToSet(bs) : pool.ref[b] # 0
<1>0. /\ pool \in QueuePool /\ held \in [Block -> Nat] /\ covers \in [Block -> SUBSET Hash]
      /\ q \in Queue(Block) /\ pool.ref \in [Block -> Int]
      /\ ~pool.raised /\ ToSet(q) = {b \in Block : held[b] = 0}
      /\ \A b \in Block : pool.ref[b] = held[b]
  BY Fields, ExactSets DEF IInv, QueueExact
<1>1. n \in 0 .. Len(q) /\ Len(q) \in Nat
  <2>1. n <= Len(q) /\ Len(q) \in Nat
    BY <1>0, LenProperties DEF Allocate, NumFree, Queue
  <2> QED BY <2>1, FS_CardinalityType, QueueAssumption
<1>2. bs = SubSeq(q, 1, n)
  BY <1>1 DEF NewBlocks, Min
<1> HIDE DEF bs, rest
<1>3. /\ bs \in Queue(Block) /\ rest \in Queue(Block) /\ Len(bs) = n /\ q = bs \o rest
      /\ ToSet(bs) \cap ToSet(rest) = {} /\ ToSet(bs) \cup ToSet(rest) = ToSet(q)
  <2> HIDE DEF q
  <2> QED BY <1>0, <1>1, <1>2, QueueSplit, ZenonT(60) DEF rest
<1>4. bs \in Seq(Block) /\ rest \in Seq(Block) /\ ToSet(bs) \in SUBSET Block
  BY <1>3, Members DEF Queue
<1>5. e \in QueuePool /\ e = EvictBlocks(pool, bs) /\ e.raised = pool.raised
  BY <1>0, <1>4, EvictedPool, EvictBlocksOK DEF Evicted
<1>6. \A b \in Block : Times(bs, b) = IF b \in ToSet(bs) THEN 1 ELSE 0
  BY <1>3, QueueCount DEF Times
<1>7. /\ ref = [b \in Block |-> IF b \in ToSet(bs) THEN pool.ref[b] + 1 ELSE pool.ref[b]]
      /\ ref \in [Block -> Int]
  BY <1>0, <1>6
<1>8. ~ raised
  BY <1>0, <1>1, <1>3, <1>5
<1>9. pool' = WithRefs(e, rest, ref)
  <2>1. pool' = [e EXCEPT !.queue = rest, !.ref = ref,
                          !.raised = @ \/ Len(bs) < n \/ \E b \in ToSet(bs) : pool.ref[b] # 0]
    BY <1>5 DEF Allocate, GetNewBlocks, bs, rest
  <2> DEFINE w == WithRefs(e, rest, ref)
  <2> HIDE DEF e, ref
  <2>2. w \in QueuePool /\ w = [e EXCEPT !.queue = rest, !.ref = ref]
    BY <1>3, <1>5, <1>7, OtherRefs DEF WithRefs
  <2>3. pool' = [e EXCEPT !.queue = rest, !.ref = ref, !.raised = FALSE]
    BY <1>8, <2>1
  <2>4. pool'.raised = FALSE /\ w.raised = FALSE
    BY <1>0, <1>5, <2>2, <2>3 DEF QueuePool
  <2>5. pool' \in QueuePool
    BY <1>3, <1>5, <1>7, <2>3 DEF QueuePool
  <2>6. /\ pool'.queue = w.queue /\ pool'.ref = w.ref /\ pool'.hash = w.hash
        /\ pool'.cached = w.cached /\ pool'.partial = w.partial /\ pool'.pids = w.pids
    BY <1>5, <2>2, <2>3 DEF QueuePool
  <2> HIDE DEF w
  <2>7. pool' = w
    BY <2>2, <2>4, <2>5, <2>6, SamePool
  <2> QED BY <2>7 DEF w
<1> HIDE DEF e, ref, raised
<1>10. /\ pool' \in QueuePool /\ pool'.queue = rest /\ pool'.ref = ref /\ ~pool'.raised
       /\ pool'.cached = e.cached
       /\ Sets(pool') = SetsWithRefs(Sets(e), ToSet(rest), ref)
  <2>1. e \in QueuePool /\ rest \in Queue(Block) /\ ref \in [Block -> Int]
    BY <1>3, <1>5, <1>7
  <2> QED BY <1>0, <1>5, <1>9, <2>1, OtherRefs
<1>11. \A b \in Block : Contains(bs, b) <=> b \in ToSet(bs)
  BY <1>4, ContainsMember
<1>12. /\ held' = [b \in Block |-> IF b \in ToSet(bs) THEN held[b] + 1 ELSE held[b]]
       /\ covers' = [b \in Block |-> IF b \in ToSet(bs) THEN {} ELSE covers[b]]
  BY <1>11 DEF Allocate, bs
<1>13. held' \in [Block -> Nat] /\ covers' \in [Block -> SUBSET Hash]
  BY <1>0, <1>12
<1>14. IInv'
  <2>1. \A b \in Block : pool'.ref[b] = held'[b]
    BY <1>0, <1>7, <1>10, <1>12
  <2>2. ToSet(pool'.queue) = {b \in Block : held'[b] = 0}
    BY <1>0, <1>3, <1>10, <1>12
  <2>3. QueueExact'
    BY <1>10, <1>13, <2>1, <2>2, ExactSets DEF QueueExact
  <2> QED BY <1>10, <1>13, <2>3 DEF IInv
<1>15. Implemented
  <2>1. ToSet(rest) = ToSet(q) \ ToSet(bs)
    BY <1>3
  <2>2. Sets(e) = Abstract!EvictCached(Sets(pool), ToSet(bs))
    BY <1>0, <1>4, EvictedSets DEF e
  <2>3. Sets(pool').free = ToSet(pool'.queue) /\ Sets(pool).free = ToSet(q)
        /\ Sets(pool).ref = pool.ref
    BY DEF Sets
  <2>4. Sets(pool') = Abstract!GetNewBlocks(Sets(pool), ToSet(bs))
    BY <1>7, <1>10, <2>1, <2>2, <2>3 DEF Abstract!GetNewBlocks, SetsWithRefs
  <2>5. ToSet(bs) \in SUBSET ToSet(q)
    BY <1>3
  <2>6. Abstract!Allocate(ToSet(bs))
    BY <1>12, <2>4, <2>5 DEF Abstract!Allocate, Sets
  <2>7. Abstract!Next
    BY <1>4, <2>6 DEF Abstract!Next
  <2> QED BY <2>7 DEF Implemented
<1>16. Stable
  <2>1. ASSUME NEW h \in Hash PROVE StillFirst(pool.cached[h], pool'.cached[h])
    <3>1. pool.cached[h] \in Seq(Block)
      BY <1>0, Fields
    <3>2. pool'.cached[h] = Among(pool.cached[h], Block \ {b \in ToSet(bs) : pool.hash[b] = h})
      BY <1>10 DEF e, Evicted, CachedWithout
    <3> QED BY <3>1, <3>2, AmongFirst
  <2> QED BY <1>0, <1>10, <2>1, StableByFirst
<1>17. InOrder
  <2>1. q \in Seq(Block) /\ Among(bs, ToSet(rest)) = <<>> /\ Among(rest, ToSet(rest)) = rest
    BY <1>0, <1>3, <1>4, AmongNone, AmongAll DEF Queue
  <2>2. Among(q, ToSet(rest)) = Among(bs, ToSet(rest)) \o Among(rest, ToSet(rest))
    <3>1. Among(bs \o rest, ToSet(rest)) = Among(bs, ToSet(rest)) \o Among(rest, ToSet(rest))
      BY <1>4, AmongConcat
    <3> QED BY <1>3, <3>1, Zenon
  <2>3. Among(q, ToSet(rest)) = rest
    BY <1>4, <2>1, <2>2, ConcatEmptySeq
  <2>4. IsPrefix(rest, rest)
    BY <1>4, PrefixConcat
  <2> QED BY <1>10, <2>3, <2>4 DEF InOrder
<1> QED
  BY <1>14, <1>15, <1>16, <1>17 DEF Good

\* A step that leaves the queue and the counts alone.
LEMMA SameQueue ==
  ASSUME IInv, pool' \in QueuePool, pool'.queue = pool.queue, pool'.ref = pool.ref,
         pool'.raised = pool.raised, held' = held, covers' \in [Block -> SUBSET Hash]
  PROVE  IInv' /\ InOrder
<1>1. IInv'
  BY DEF IInv, QueueExact
<1>2. InOrder
  <2>1. pool.queue \in Seq(Block)
    BY Fields DEF IInv, Queue
  <2> QED BY <2>1, SameInOrder DEF InOrder
<1> QED
  BY <1>1, <1>2

\* A step that leaves the dicts alone.
LEMMA SameDicts ==
  ASSUME pool \in QueuePool, pool' \in QueuePool, pool'.cached = pool.cached
  PROVE  Stable
<1>1. ASSUME NEW h \in Hash PROVE StillFirst(pool.cached[h], pool'.cached[h])
  BY DEF StillFirst
<1> QED
  BY <1>1, StableByFirst

\* A hit block leaves the queue from wherever it is.
LEMMA HitStep ==
  ASSUME IInv, NEW h \in Hash, NEW b \in Block, Hit(h, b)
  PROVE  Good
<1> DEFINE q == pool.queue
           bs == <<b>>
           queue == Among(q, Block \ ToSet(bs))
           ref == [c \in Block |-> pool.ref[c] + Times(bs, c)]
<1>0. /\ pool \in QueuePool /\ held \in [Block -> Nat] /\ covers \in [Block -> SUBSET Hash]
      /\ q \in Queue(Block) /\ q \in Seq(Block) /\ pool.ref \in [Block -> Int]
      /\ ~pool.raised /\ ToSet(q) = {c \in Block : held[c] = 0}
      /\ \A c \in Block : pool.ref[c] = held[c]
  BY Fields, ExactSets DEF IInv, QueueExact, Queue
<1>1. bs \in Queue(Block) /\ ToSet(bs) = {b}
  BY QueueOne
<1>2. pool' = WithRefs(pool, queue, ref)
  BY DEF Hit, Touch, WithRefs
<1> HIDE DEF bs
<1>3. queue \in Queue(Block) /\ ToSet(queue) = ToSet(q) \ {b}
  <2>1. queue \in Queue(Block) /\ ToSet(queue) = ToSet(q) \cap (Block \ ToSet(bs))
    <3> HIDE DEF q
    <3> QED BY <1>0, QueueAmong
  <2> QED BY <1>0, <1>1, <2>1
<1>4. \A c \in Block : Times(bs, c) = IF c = b THEN 1 ELSE 0
  BY <1>1, QueueCount DEF Times
<1>5. /\ ref = [c \in Block |-> IF c = b THEN pool.ref[c] + 1 ELSE pool.ref[c]]
      /\ ref \in [Block -> Int]
  BY <1>0, <1>4
<1>6. held' = [held EXCEPT ![b] = @ + 1] /\ covers' = covers /\ held' \in [Block -> Nat]
  BY <1>0 DEF Hit
<1> HIDE DEF queue, ref
<1>7. /\ pool' \in QueuePool /\ pool'.queue = queue /\ pool'.ref = ref /\ ~pool'.raised
      /\ pool'.cached = pool.cached
      /\ Sets(pool') = SetsWithRefs(Sets(pool), ToSet(queue), ref)
  <2>1. pool \in QueuePool /\ queue \in Queue(Block) /\ ref \in [Block -> Int]
    BY <1>0, <1>3, <1>5
  <2> QED BY <1>0, <1>2, <2>1, OtherRefs
<1>8. IInv'
  <2>1. \A c \in Block : pool'.ref[c] = held'[c]
    BY <1>0, <1>5, <1>6, <1>7
  <2>2. ToSet(pool'.queue) = {c \in Block : held'[c] = 0}
    BY <1>0, <1>3, <1>6, <1>7
  <2>3. QueueExact'
    BY <1>6, <1>7, <2>1, <2>2, ExactSets DEF QueueExact
  <2> QED BY <1>0, <1>6, <1>7, <2>3 DEF IInv
<1>9. Implemented
  <2>1. ToSet(queue) = ToSet(q) \ {c \in {b} : pool.ref[c] = 0}
    BY <1>0, <1>3
  <2>2. /\ Sets(pool).free = ToSet(q) /\ Sets(pool).ref = pool.ref
        /\ Sets(pool).cached = [g \in Hash |-> ToSet(pool.cached[g])]
        /\ Sets(pool).partial = pool.partial
    BY DEF Sets
  <2>3. ref = [c \in Block |-> IF c \in {b} THEN pool.ref[c] + 1 ELSE pool.ref[c]]
    BY <1>5
  <2>4. Sets(pool') = Abstract!Touch(Sets(pool), {b})
    BY <1>7, <2>1, <2>2, <2>3 DEF Abstract!Touch, SetsWithRefs
  <2>5. b \in Abstract!Reachable(Sets(pool), h)
    <3>1. CASE CachedBlock(pool, h) = b
      <4>1. pool.cached[h] \in Queue(Block)
        BY <1>0, Fields
      <4>2. CASE pool.cached[h] # <<>>
        <5>1. b = Head(pool.cached[h]) /\ Head(pool.cached[h]) \in ToSet(pool.cached[h])
          BY <3>1, <4>1, <4>2, QueueTail DEF CachedBlock
        <5> QED BY <2>2, <5>1 DEF Abstract!Reachable
      <4>3. CASE pool.cached[h] = <<>>
        BY <3>1, <4>3, QueueAssumption DEF CachedBlock
      <4> QED BY <4>2, <4>3
    <3>2. CASE pool.partial[h] # None /\ pool.partial[h].block = b
      BY <2>2, <3>2 DEF Abstract!Reachable, Abstract!HasPartial
    <3> QED BY <3>1, <3>2 DEF Hit, Lookup
  <2>6. held[b] < MaxHeld
    BY DEF Hit
  <2>7. Abstract!Hit(h, b)
    BY <1>6, <2>4, <2>5, <2>6 DEF Abstract!Hit, Sets
  <2>8. Abstract!Next
    BY <2>7 DEF Abstract!Next
  <2> QED BY <2>8 DEF Implemented
<1>10. Stable
  BY <1>0, <1>7, SameDicts
<1>11. InOrder
  <2>1. IsPrefix(Among(q, ToSet(queue)), queue)
    <3> HIDE DEF q
    <3> QED BY <1>0, AmongInOrder DEF queue
  <2> QED BY <1>7, <2>1 DEF InOrder
<1> QED
  BY <1>8, <1>9, <1>10, <1>11 DEF Good

\* The lists that are freed name no block twice.
LEMMA ListsQueues ==
  ASSUME NEW bs \in Lists
  PROVE  bs \in Queue(Block)
<1>1. PICK S \in SUBSET Block : bs \in SetToSeqs(S)
  BY DEF Lists, SetToAllKPermutations
<1> DEFINE n == Cardinality(S)
<1>2. n \in Nat
  BY QueueAssumption, FS_Subset, FS_CardinalityType
<1>3. bs \in [1 .. n -> S] /\ \A i, j \in 1 .. n : i # j => bs[i] # bs[j]
  BY <1>1 DEF SetToSeqs
<1> HIDE DEF n
<1>4. bs \in Seq(Block) /\ Len(bs) = n
  BY <1>2, <1>3
<1> QED
  BY <1>3, <1>4, QueuePlaces

\* Freed blocks that nobody uses any more queue up behind the others.
LEMMA ReleaseStep ==
  ASSUME IInv, NEW bs \in Lists, Release(bs)
  PROVE  Good
<1> DEFINE q == pool.queue
           ref == [b \in Block |-> pool.ref[b] - Times(bs, b)]
           back == Among(bs, {b \in Block : ref[b] = 0})
           queue == q \o back
<1>0. /\ pool \in QueuePool /\ held \in [Block -> Nat] /\ covers \in [Block -> SUBSET Hash]
      /\ q \in Queue(Block) /\ q \in Seq(Block) /\ pool.ref \in [Block -> Int]
      /\ ~pool.raised /\ ToSet(q) = {c \in Block : held[c] = 0}
      /\ \A c \in Block : pool.ref[c] = held[c]
  BY Fields, ExactSets DEF IInv, QueueExact, Queue
<1>1. bs \in Queue(Block) /\ bs \in Seq(Block) /\ ToSet(bs) \in SUBSET Block
  BY ListsQueues, Members DEF Queue
<1>2. pool' = WithRefs(pool, queue, ref)
  <2>1. pool' = FreeBlocks(pool, bs)
    BY DEF Release
  <2> QED BY <2>1 DEF FreeBlocks, WithRefs
<1>3. ToSet(bs) \subseteq Block /\ \A b \in ToSet(bs) : held[b] > 0
  BY DEF Release, Used
<1>4. \A c \in Block : Times(bs, c) = IF c \in ToSet(bs) THEN 1 ELSE 0
  BY <1>1, QueueCount DEF Times
<1>5. /\ ref = [c \in Block |-> IF c \in ToSet(bs) THEN pool.ref[c] - 1 ELSE pool.ref[c]]
      /\ ref \in [Block -> Int]
  BY <1>0, <1>4
<1>6. /\ back \in Queue(Block) /\ back \in Seq(Block)
      /\ ToSet(back) = {b \in ToSet(bs) : ref[b] = 0}
  <2>1. back \in Queue(Block) /\ ToSet(back) = ToSet(bs) \cap {b \in Block : ref[b] = 0}
    <3> HIDE DEF ref
    <3> QED BY <1>1, QueueAmong
  <2> HIDE DEF ref, back
  <2> QED BY <1>3, <2>1 DEF Queue
<1>7. ToSet(back) = {b \in ToSet(bs) : pool.ref[b] = 1}
  <2>1. \A b \in ToSet(bs) : ref[b] = pool.ref[b] - 1 /\ pool.ref[b] \in Int
    BY <1>0, <1>3, <1>5
  <2> HIDE DEF ref, back
  <2> QED BY <1>6, <2>1
<1> HIDE DEF ref, back
<1>8. queue \in Queue(Block) /\ ToSet(queue) = ToSet(q) \cup ToSet(back)
  <2>1. ToSet(q) \cap ToSet(back) = {}
    BY <1>0, <1>3, <1>7
  <2> HIDE DEF q
  <2> QED BY <1>0, <1>6, <2>1, QueueConcat
<1>9. \A b \in Block : Contains(bs, b) <=> b \in ToSet(bs)
  BY <1>1, ContainsMember
<1>10. /\ held' = [b \in Block |-> IF b \in ToSet(bs) THEN held[b] - 1 ELSE held[b]]
       /\ covers' = covers
  BY <1>9 DEF Release
<1>11. held' \in [Block -> Nat]
  BY <1>0, <1>3, <1>10
<1>12. /\ pool' \in QueuePool /\ pool'.queue = queue /\ pool'.ref = ref /\ ~pool'.raised
       /\ pool'.cached = pool.cached
       /\ Sets(pool') = SetsWithRefs(Sets(pool), ToSet(queue), ref)
  <2>1. pool \in QueuePool /\ queue \in Queue(Block) /\ ref \in [Block -> Int]
    BY <1>0, <1>5, <1>8
  <2> HIDE DEF queue
  <2> QED BY <1>0, <1>2, <2>1, OtherRefs
<1>13. IInv'
  <2>1. \A c \in Block : pool'.ref[c] = held'[c]
    BY <1>0, <1>5, <1>10, <1>12
  <2>2. ToSet(pool'.queue) = {c \in Block : held'[c] = 0}
    <3>1. \A c \in Block : c \in ToSet(queue) <=> held'[c] = 0
      BY <1>0, <1>3, <1>7, <1>8, <1>10
    <3>2. ToSet(queue) \subseteq Block
      BY <1>0, <1>3, <1>7, <1>8
    <3> QED BY <1>12, <3>1, <3>2
  <2>3. QueueExact'
    BY <1>11, <1>12, <2>1, <2>2, ExactSets DEF QueueExact
  <2> QED BY <1>0, <1>10, <1>11, <1>12, <2>3 DEF IInv
<1>14. Implemented
  <2>1. Sets(pool).free = ToSet(q) /\ Sets(pool).ref = pool.ref
    BY DEF Sets
  <2>2. Sets(pool') = Abstract!FreeBlocks(Sets(pool), ToSet(bs))
    BY <1>5, <1>7, <1>8, <1>12, <2>1 DEF Abstract!FreeBlocks, SetsWithRefs
  <2>3. ToSet(bs) \subseteq Abstract!Used
    BY <1>3 DEF Abstract!Used
  <2>4. Abstract!Release(ToSet(bs))
    BY <1>10, <2>2, <2>3 DEF Abstract!Release, Sets
  <2>5. Abstract!Next
    BY <1>1, <2>4 DEF Abstract!Next
  <2> QED BY <2>5 DEF Implemented
<1>15. Stable
  BY <1>0, <1>12, SameDicts
<1>16. InOrder
  <2> HIDE DEF q
  <2>1. ToSet(q) \subseteq ToSet(queue)
    BY <1>8
  <2>2. Among(q, ToSet(queue)) = q
    <3> HIDE DEF queue
    <3> QED BY <1>0, <2>1, AmongAll
  <2>3. IsPrefix(q, queue)
    BY <1>0, <1>6, PrefixConcat
  <2> QED BY <1>12, <2>2, <2>3 DEF InOrder, q
<1> QED
  BY <1>13, <1>14, <1>15, <1>16 DEF Good

\* The worker writes a block; the pool stays what it is.
LEMMA WriteStep ==
  ASSUME IInv, NEW b \in Block, NEW data \in SUBSET Hash, Write(b, data)
  PROVE  Good
<1>1. /\ pool' = pool /\ held' = held /\ covers' = [covers EXCEPT ![b] = data]
      /\ pool \in QueuePool /\ covers' \in [Block -> SUBSET Hash]
  BY DEF Write, IInv
<1>2. IInv' /\ InOrder /\ Stable
  BY <1>1, SameQueue, SameDicts
<1>3. Implemented
  <2>1. Abstract!PublishedAs(Sets(pool), b) \subseteq data
    <3> SUFFICES ASSUME NEW h \in Hash, b \in Abstract!Reachable(Sets(pool), h)
                 PROVE  h \in data
      BY DEF Abstract!PublishedAs
    <3>1. /\ Sets(pool).cached = [g \in Hash |-> ToSet(pool.cached[g])]
          /\ Sets(pool).partial = pool.partial
      BY DEF Sets
    <3>2. b \in ToSet(pool.cached[h]) \/ (pool.partial[h] # None /\ pool.partial[h].block = b)
      BY <3>1 DEF Abstract!Reachable, Abstract!HasPartial
    <3>3. Contains(pool.cached[h], b) <=> b \in ToSet(pool.cached[h])
      BY <1>1, Fields, ContainsMember
    <3> QED BY <3>2, <3>3 DEF Write, PublishedAs
  <2>2. b \in Abstract!Used
    BY DEF Write, Used, Abstract!Used
  <2>3. Abstract!Write(b, data)
    BY <1>1, <2>1, <2>2 DEF Abstract!Write, Sets
  <2>4. Abstract!Next
    BY <2>3 DEF Abstract!Next
  <2> QED BY <2>4 DEF Implemented
<1> QED
  BY <1>2, <1>3 DEF Good

\* A full block is published behind those that carry the hash already.
LEMMA PublishStep ==
  ASSUME IInv, NEW b \in Block, NEW h \in Hash, Publish(b, h)
  PROVE  Good
<1> DEFINE dict == pool.cached[h]
           new == IF Contains(dict, b) THEN dict ELSE Append(dict, b)
           hash == [pool.hash EXCEPT ![b] = h]
           cached == [pool.cached EXCEPT ![h] = new]
<1>0. /\ pool \in QueuePool /\ ~pool.raised
      /\ held' = held /\ covers' = covers /\ covers' \in [Block -> SUBSET Hash]
      /\ pool.hash \in [Block -> Hash \cup {None}]
      /\ pool.cached \in [Hash -> Queue(Block)]
      /\ pool.partial \in [Hash -> Entry \cup {None}]
      /\ pool.pids \in [Block -> SUBSET Hash]
      /\ dict \in Queue(Block) /\ dict \in Seq(Block)
  BY Fields DEF IInv, Publish, QueueExact
<1>1. pool' = [pool EXCEPT !.hash[b] = h, !.raised = @ \/ pool.hash[b] # None,
                           !.cached[h] = IF Contains(@, b) THEN @ ELSE Append(@, b)]
  BY DEF Publish, CacheFullBlock
<1>2. pool.hash[b] = None
  BY DEF Publish
<1>3. new \in Queue(Block) /\ ToSet(new) = ToSet(dict) \cup {b}
  <2> HIDE DEF dict
  <2>1. Contains(dict, b) <=> b \in ToSet(dict)
    BY <1>0, ContainsMember
  <2>2. CASE Contains(dict, b)
    BY <1>0, <2>1, <2>2
  <2>3. CASE ~Contains(dict, b)
    BY <1>0, <2>1, <2>3, QueueAppend
  <2> QED BY <2>2, <2>3
<1>4. hash \in [Block -> Hash \cup {None}] /\ cached \in [Hash -> Queue(Block)]
  <2> HIDE DEF new
  <2> QED BY <1>0, <1>3
<1>5. pool' = WithIndexes(pool, hash, cached, pool.partial, pool.pids)
  <2> DEFINE w == WithIndexes(pool, hash, cached, pool.partial, pool.pids)
  <2>1. /\ pool'.queue = pool.queue /\ pool'.ref = pool.ref /\ pool'.hash = hash
        /\ pool'.cached = cached /\ pool'.partial = pool.partial /\ pool'.pids = pool.pids
    BY <1>0, <1>1 DEF QueuePool
  <2>2. pool'.raised = FALSE
    <3>1. pool' = [pool EXCEPT !.hash[b] = h, !.raised = FALSE,
                               !.cached[h] = IF Contains(@, b) THEN @ ELSE Append(@, b)]
      BY <1>0, <1>1, <1>2
    <3> QED BY <1>0, <3>1 DEF QueuePool
  <2>3. pool' = [pool EXCEPT !.hash = hash, !.cached = cached, !.raised = FALSE]
    BY <1>0, <1>1, <1>2
  <2> HIDE DEF hash, cached
  <2>4. pool' \in QueuePool
    BY <1>0, <1>4, <2>3 DEF QueuePool
  <2>5. w \in QueuePool /\ w = [pool EXCEPT !.hash = hash, !.cached = cached,
                                           !.partial = pool.partial, !.pids = pool.pids]
    BY <1>0, <1>4, OtherIndexes DEF WithIndexes
  <2>6. /\ w.queue = pool.queue /\ w.ref = pool.ref /\ w.hash = hash /\ w.cached = cached
        /\ w.partial = pool.partial /\ w.pids = pool.pids /\ w.raised = pool.raised
    BY <1>0, <2>5 DEF QueuePool
  <2>7. pool.raised = FALSE
    BY <1>0 DEF QueuePool
  <2> HIDE DEF w
  <2>8. pool' = w
    <3>1. pool'.raised = w.raised
      BY <2>2, <2>6, <2>7
    <3>2. /\ pool'.queue = w.queue /\ pool'.ref = w.ref /\ pool'.hash = w.hash
          /\ pool'.cached = w.cached /\ pool'.partial = w.partial /\ pool'.pids = w.pids
      BY <2>1, <2>6
    <3> QED BY <2>4, <2>5, <3>1, <3>2, SamePool
  <2> QED BY <2>8 DEF w
<1> HIDE DEF hash, cached, new
<1>6. /\ pool' \in QueuePool /\ pool'.queue = pool.queue /\ pool'.ref = pool.ref
      /\ pool'.raised = pool.raised /\ pool'.cached = cached
      /\ Sets(pool') = SetsWithIndexes(Sets(pool), hash, SetsOf(cached),
                                       pool.partial, pool.pids)
  BY <1>0, <1>4, <1>5, OtherIndexes
<1>7. IInv' /\ InOrder
  BY <1>0, <1>6, SameQueue
<1>8. Stable
  <2>1. ASSUME NEW g \in Hash PROVE StillFirst(pool.cached[g], cached[g])
    <3>1. CASE g # h
      BY <1>0, <3>1 DEF cached, StillFirst
    <3>2. CASE g = h /\ Contains(dict, b)
      BY <1>0, <3>2 DEF cached, new, StillFirst
    <3>3. CASE g = h /\ ~Contains(dict, b)
      <4>1. cached[g] = Append(dict, b) /\ pool.cached[g] = dict
        BY <1>0, <3>3 DEF cached, new
      <4> HIDE DEF dict
      <4> QED BY <1>0, <4>1, HeadTailAppend DEF StillFirst
    <3> QED BY <3>1, <3>2, <3>3
  <2> QED BY <1>0, <1>6, <2>1, StableByFirst
<1>9. Implemented
  <2> DEFINE s == Sets(pool)
  <2>1. /\ s.hash = pool.hash /\ s.partial = pool.partial /\ s.pids = pool.pids
        /\ s.cached = [g \in Hash |-> ToSet(pool.cached[g])]
    BY DEF Sets
  <2>2. SetsOf(cached) = [s.cached EXCEPT ![h] = @ \cup {b}]
    <3>1. ASSUME NEW g \in Hash
          PROVE  ToSet(cached[g]) = [s.cached EXCEPT ![h] = @ \cup {b}][g]
      BY <1>0, <1>3, <2>1 DEF cached
    <3> HIDE DEF s
    <3> QED BY <2>1, <3>1 DEF SetsOf
  <2>3. s = [free |-> s.free, ref |-> s.ref, hash |-> s.hash, cached |-> s.cached,
             partial |-> s.partial, pids |-> s.pids]
    BY DEF Sets
  <2> HIDE DEF s
  <2>4. Sets(pool') = [s EXCEPT !.hash = hash, !.cached = [s.cached EXCEPT ![h] = @ \cup {b}],
                                !.partial = s.partial, !.pids = s.pids]
    BY <1>6, <2>1, <2>2 DEF s, SetsWithIndexes
  <2>5. Sets(pool') = [free |-> s.free, ref |-> s.ref, hash |-> hash,
                       cached |-> [s.cached EXCEPT ![h] = @ \cup {b}],
                       partial |-> s.partial, pids |-> s.pids]
    BY <2>3, <2>4
  <2>6. Sets(pool') = Abstract!CacheFullBlock(s, b, h)
    <3>1. PICK z : z = [s EXCEPT !.hash = [s.hash EXCEPT ![b] = h],
                                 !.cached = [s.cached EXCEPT ![h] = @ \cup {b}]]
      OBVIOUS
    <3>2. z = [free |-> s.free, ref |-> s.ref, hash |-> hash,
               cached |-> [s.cached EXCEPT ![h] = @ \cup {b}],
               partial |-> s.partial, pids |-> s.pids]
      BY <2>1, <2>3, <3>1 DEF hash
    <3>3. z = Abstract!CacheFullBlock(s, b, h)
      BY <3>1 DEF Abstract!CacheFullBlock
    <3> QED BY <2>5, <3>2, <3>3
  <2>7. b \in Abstract!Used /\ h \in covers[b] /\ s.hash[b] = None
    BY <1>2, <2>1 DEF Publish, Used, Abstract!Used
  <2>8. Abstract!Publish(b, h)
    BY <1>0, <2>6, <2>7 DEF Abstract!Publish, Sets, s
  <2>9. Abstract!Next
    BY <2>8 DEF Abstract!Next
  <2> QED BY <2>9 DEF Implemented
<1> QED
  BY <1>7, <1>8, <1>9 DEF Good

\* A partial block replaces the one that was known by the hash.
LEMMA PublishPartialStep ==
  ASSUME IInv, NEW b \in Block, NEW h \in Hash, NEW v \in Valid, PublishPartial(b, h, v)
  PROVE  Good
<1> DEFINE entry == [block |-> b, valid |-> v]
           old == pool.partial[h]
           rest == [c \in Block |-> IF old # None /\ c = old.block
                                    THEN pool.pids[c] \ {h} ELSE pool.pids[c]]
           partial == [pool.partial EXCEPT ![h] = entry]
           pids == [rest EXCEPT ![b] = @ \cup {h}]
<1>0. /\ pool \in QueuePool /\ ~pool.raised
      /\ held' = held /\ covers' = covers /\ covers' \in [Block -> SUBSET Hash]
      /\ pool.hash \in [Block -> Hash \cup {None}]
      /\ pool.cached \in [Hash -> Queue(Block)]
      /\ pool.partial \in [Hash -> Entry \cup {None}]
      /\ pool.pids \in [Block -> SUBSET Hash]
  BY Fields DEF IInv, PublishPartial, QueueExact
<1>1. pool' = IF old = entry THEN pool
              ELSE [pool EXCEPT !.partial[h] = entry, !.pids = pids]
  BY DEF PublishPartial, CachePartialBlock
<1>2. partial \in [Hash -> Entry \cup {None}] /\ pids \in [Block -> SUBSET Hash]
  <2>1. entry \in Entry
    BY DEF Entry
  <2>2. rest \in [Block -> SUBSET Hash]
    BY <1>0
  <2> HIDE DEF rest, entry
  <2> QED BY <1>0, <2>1, <2>2
<1>3. /\ pool' \in QueuePool /\ pool'.queue = pool.queue /\ pool'.ref = pool.ref
      /\ pool'.raised = pool.raised /\ pool'.cached = pool.cached
      /\ Sets(pool') = Abstract!CachePartialBlock(Sets(pool), b, v, h)
  <2> DEFINE s == Sets(pool)
  <2>1. /\ s.partial = pool.partial /\ s.pids = pool.pids
        /\ s = [free |-> s.free, ref |-> s.ref, hash |-> s.hash, cached |-> s.cached,
                partial |-> s.partial, pids |-> s.pids]
    BY DEF Sets
  <2>2. Abstract!CachePartialBlock(s, b, v, h)
          = IF old = entry THEN s ELSE [s EXCEPT !.partial = partial, !.pids = pids]
    <3> HIDE DEF s
    <3> QED BY <2>1 DEF Abstract!CachePartialBlock
  <2>3. CASE old = entry
    BY <1>0, <1>1, <2>2, <2>3
  <2>4. CASE old # entry
    <3>1. pool' = [pool EXCEPT !.partial = partial, !.pids = pids]
      BY <1>0, <1>1, <2>4
    <3> HIDE DEF partial, pids, s, old, entry
    <3>2. /\ pool' \in QueuePool /\ pool'.queue = pool.queue /\ pool'.ref = pool.ref
          /\ pool'.raised = pool.raised /\ pool'.cached = pool.cached
          /\ pool'.hash = pool.hash /\ pool'.partial = partial /\ pool'.pids = pids
      BY <1>0, <1>2, <3>1 DEF QueuePool
    <3>3. PICK z : z = [s EXCEPT !.partial = partial, !.pids = pids]
      OBVIOUS
    <3>4. z = [free |-> s.free, ref |-> s.ref, hash |-> s.hash, cached |-> s.cached,
               partial |-> partial, pids |-> pids]
      BY <2>1, <3>3
    <3>5. /\ s.free = ToSet(pool.queue) /\ s.ref = pool.ref /\ s.hash = pool.hash
          /\ s.cached = [g \in Hash |-> ToSet(pool.cached[g])]
      BY DEF s, Sets
    <3>6. Sets(pool') = z
      BY <3>2, <3>4, <3>5 DEF Sets
    <3>7. Abstract!CachePartialBlock(s, b, v, h) = z
      BY <2>2, <2>4, <3>3
    <3> QED BY <3>2, <3>6, <3>7 DEF s
  <2> QED BY <2>3, <2>4
<1>4. IInv' /\ InOrder /\ Stable
  BY <1>0, <1>3, SameQueue, SameDicts
<1>5. Implemented
  <2>1. b \in Abstract!Used /\ h \in covers[b]
    BY DEF PublishPartial, Used, Abstract!Used
  <2>2. Abstract!PublishPartial(b, h, v)
    BY <1>0, <1>3, <2>1 DEF Abstract!PublishPartial, Sets
  <2>3. Abstract!Next
    BY <2>2 DEF Abstract!Next
  <2> QED BY <2>3 DEF Implemented
<1> QED
  BY <1>4, <1>5 DEF Good

\* evict_blocks takes a block out of both indexes.
LEMMA EvictStep ==
  ASSUME IInv, NEW b \in Block, Evict(<<b>>)
  PROVE  Good
<1> DEFINE bs == <<b>>
<1>0. /\ pool \in QueuePool
      /\ held' = held /\ covers' = covers /\ covers' \in [Block -> SUBSET Hash]
  BY DEF IInv, Evict
<1>1. bs \in Seq(Block) /\ ToSet(bs) = {b}
  BY QueueOne
<1>2. pool' = EvictBlocks(pool, bs)
  BY DEF Evict
<1> HIDE DEF bs
<1>3. pool' = Evicted(pool, {b})
  BY <1>0, <1>1, <1>2, EvictBlocksOK
<1>4. /\ pool' \in QueuePool /\ pool'.queue = pool.queue /\ pool'.ref = pool.ref
      /\ pool'.raised = pool.raised /\ pool'.cached = CachedWithout(pool, {b})
  BY <1>0, <1>3, EvictedPool DEF Evicted
<1>5. IInv' /\ InOrder
  BY <1>0, <1>4, SameQueue
<1>6. Stable
  <2>1. ASSUME NEW h \in Hash PROVE StillFirst(pool.cached[h], pool'.cached[h])
    <3>1. pool.cached[h] \in Seq(Block)
      BY <1>0, Fields
    <3>2. pool'.cached[h] = Among(pool.cached[h], Block \ {c \in {b} : pool.hash[c] = h})
      BY <1>4 DEF CachedWithout
    <3> QED BY <3>1, <3>2, AmongFirst
  <2> QED BY <1>0, <1>4, <2>1, StableByFirst
<1>7. Implemented
  <2>1. Sets(pool') = Abstract!EvictCached(Sets(pool), {b})
    BY <1>0, <1>3, EvictedSets
  <2>2. Abstract!Evict({b})
    BY <1>0, <2>1 DEF Abstract!Evict, Abstract!EvictBlocks, Sets
  <2>3. Abstract!Next
    BY <2>2 DEF Abstract!Next
  <2> QED BY <2>3 DEF Implemented
<1> QED
  BY <1>5, <1>6, <1>7 DEF Good

\* reset_prefix_cache: all blocks are free exactly when the queue has them all.
LEMMA ResetStep ==
  ASSUME IInv, Reset
  PROVE  Good
<1> DEFINE q == pool.queue
           hash == [b \in Block |-> None]
           cached == [h \in Hash |-> <<>>]
           partial == [h \in Hash |-> None]
           pids == [b \in Block |-> {}]
           s == Sets(pool)
<1>0. /\ pool \in QueuePool /\ q \in Queue(Block) /\ q \in Seq(Block)
      /\ ToSet(q) \in SUBSET Block
      /\ held' = held /\ covers' = covers /\ covers' \in [Block -> SUBSET Hash]
  BY Fields, Members DEF IInv, Reset, Queue
<1>1. Len(q) = Cardinality(Block) <=> ToSet(q) = Block
  <2>1. Cardinality(ToSet(q)) = Len(q)
    <3> HIDE DEF q
    <3> QED BY <1>0, QueueSize
  <2>2. IsFiniteSet(Block) /\ ToSet(q) \in SUBSET Block
    BY <1>0, QueueAssumption
  <2>3. Cardinality(ToSet(q)) = Cardinality(Block) => ToSet(q) = Block
    <3> HIDE DEF q
    <3> QED BY <2>2, FS_Subset
  <2> QED BY <2>1, <2>3
<1>2. pool' = IF Len(q) # Cardinality(Block) THEN pool
              ELSE [pool EXCEPT !.cached = cached, !.partial = partial, !.pids = pids,
                                !.hash = hash]
  BY DEF Reset, ResetPrefixCache, NumFree
<1>3. /\ hash \in [Block -> Hash \cup {None}] /\ cached \in [Hash -> Queue(Block)]
      /\ partial \in [Hash -> Entry \cup {None}] /\ pids \in [Block -> SUBSET Hash]
  BY QueueEmpty
<1>4. SetsOf(cached) = [h \in Hash |-> {}]
  BY QueueEmpty DEF SetsOf
<1>5. /\ s.free = ToSet(q)
      /\ s = [free |-> s.free, ref |-> s.ref, hash |-> s.hash, cached |-> s.cached,
              partial |-> s.partial, pids |-> s.pids]
  BY DEF Sets
<1> HIDE DEF s
<1>6. Abstract!ResetPrefixCache(s)
        = IF ToSet(q) # Block THEN s
          ELSE [s EXCEPT !.cached = [h \in Hash |-> {}], !.partial = partial, !.pids = pids,
                         !.hash = hash]
  BY <1>5 DEF Abstract!ResetPrefixCache
<1> HIDE DEF hash, cached, partial, pids
<1>7. /\ pool' \in QueuePool /\ pool'.queue = pool.queue /\ pool'.ref = pool.ref
      /\ pool'.raised = pool.raised /\ (pool'.cached = pool.cached \/ pool'.cached = cached)
      /\ Sets(pool') = Abstract!ResetPrefixCache(s)
  <2>1. CASE ToSet(q) # Block
    BY <1>0, <1>1, <1>2, <1>6, <2>1 DEF s
  <2>2. CASE ToSet(q) = Block
    <3>1. pool' = WithIndexes(pool, hash, cached, partial, pids)
      <4>1. pool' = [pool EXCEPT !.cached = cached, !.partial = partial, !.pids = pids,
                                 !.hash = hash]
        BY <1>1, <1>2, <2>2
      <4> QED BY <4>1 DEF WithIndexes
    <3>2. /\ pool' \in QueuePool /\ pool'.queue = pool.queue /\ pool'.ref = pool.ref
          /\ pool'.raised = pool.raised /\ pool'.cached = cached
          /\ Sets(pool') = SetsWithIndexes(s, hash, SetsOf(cached), partial, pids)
      <4>1. /\ pool \in QueuePool /\ hash \in [Block -> Hash \cup {None}]
            /\ cached \in [Hash -> Queue(Block)] /\ partial \in [Hash -> Entry \cup {None}]
            /\ pids \in [Block -> SUBSET Hash]
        BY <1>0, <1>3
      <4>2. /\ pool' \in QueuePool /\ pool'.queue = pool.queue /\ pool'.ref = pool.ref
            /\ pool'.raised = pool.raised /\ pool'.cached = cached
            /\ Sets(pool') = SetsWithIndexes(Sets(pool), hash, SetsOf(cached), partial, pids)
        BY <3>1, <4>1, OtherIndexes
      <4> QED BY <4>2 DEF s
    <3>3. Abstract!ResetPrefixCache(s) = SetsWithIndexes(s, hash, SetsOf(cached), partial, pids)
      <4>1. Abstract!ResetPrefixCache(s)
              = [s EXCEPT !.cached = SetsOf(cached), !.partial = partial, !.pids = pids,
                          !.hash = hash]
        BY <1>4, <1>6, <2>2
      <4> QED BY <4>1 DEF SetsWithIndexes
    <3> QED BY <3>2, <3>3
  <2> QED BY <2>1, <2>2
<1>8. IInv' /\ InOrder
  BY <1>0, <1>7, SameQueue
<1>9. Stable
  <2>1. ASSUME NEW h \in Hash PROVE StillFirst(pool.cached[h], pool'.cached[h])
    <3>1. ~ (Head(pool.cached[h]) \in ToSet(<<>>))
      BY QueueEmpty
    <3> QED BY <1>7, <3>1 DEF StillFirst, cached
  <2> QED BY <1>0, <1>7, <2>1, StableByFirst
<1>10. Implemented
  <2>1. Abstract!Reset
    BY <1>0, <1>7 DEF Abstract!Reset, Sets, s
  <2>2. Abstract!Next
    BY <2>1 DEF Abstract!Next
  <2> QED BY <2>2 DEF Implemented
<1> QED
  BY <1>8, <1>9, <1>10 DEF Good

-----------------------------------------------------------------------------
(* The specification.                                                      *)

\* Whatever a step does, it keeps the invariant, implements the abstract pool,
\* and neither moves a lookup nor the order of the free blocks.
LEMMA StepGood == IInv /\ [Next]_vars => Good
<1> SUFFICES ASSUME IInv, [Next]_vars PROVE Good
  OBVIOUS
<1>1. ASSUME NEW n \in 1 .. Cardinality(Block), Allocate(n) PROVE Good
  BY <1>1, AllocateStep
<1>2. ASSUME NEW h \in Hash, NEW b \in Block, Hit(h, b) PROVE Good
  BY <1>2, HitStep
<1>3. ASSUME NEW bs \in Lists, Release(bs) PROVE Good
  BY <1>3, ReleaseStep
<1>4. ASSUME NEW b \in Block, NEW data \in SUBSET Hash, Write(b, data) PROVE Good
  BY <1>4, WriteStep
<1>5. ASSUME NEW b \in Block, NEW h \in Hash, Publish(b, h) PROVE Good
  BY <1>5, PublishStep
<1>6. ASSUME NEW b \in Block, NEW h \in Hash, NEW v \in Valid, PublishPartial(b, h, v)
      PROVE  Good
  BY <1>6, PublishPartialStep
<1>7. ASSUME NEW b \in Block, Evict(<<b>>) PROVE Good
  BY <1>7, EvictStep
<1>8. CASE Reset
  BY <1>8, ResetStep
<1>9. CASE UNCHANGED vars
  <2>1. pool' = pool /\ held' = held /\ covers' = covers
    BY <1>9 DEF vars
  <2>2. pool \in QueuePool /\ covers \in [Block -> SUBSET Hash]
    BY DEF IInv
  <2>3. IInv' /\ InOrder /\ Stable
    BY <2>1, <2>2, SameQueue, SameDicts
  <2>4. Implemented
    BY <2>1 DEF Implemented, Abstract!vars
  <2> QED BY <2>3, <2>4 DEF Good
<1> QED
  BY <1>1, <1>2, <1>3, <1>4, <1>5, <1>6, <1>7, <1>8, <1>9 DEF Next

\* A new pool satisfies the invariant, and is a new abstract pool.
LEMMA InitGood == Init => IInv /\ Abstract!Init
<1> SUFFICES ASSUME Init PROVE IInv /\ Abstract!Init
  OBVIOUS
<1>1. PICK ids \in SetToSeqs(Block) : pool = NewPool(ids)
  BY DEF Init
<1> DEFINE n == Cardinality(Block)
<1>2. ids \in Queue(Block) /\ ToSet(ids) = Block
  <2>1. ids \in [1 .. n -> Block] /\ \A i, j \in 1 .. n : i # j => ids[i] # ids[j]
    BY DEF SetToSeqs
  <2>2. n \in Nat
    BY QueueAssumption, FS_CardinalityType
  <2> HIDE DEF n
  <2>3. ids \in Seq(Block) /\ Len(ids) = n
    BY <2>1, <2>2
  <2>4. ids \in Queue(Block)
    BY <2>1, <2>3, QueuePlaces
  <2>5. Cardinality(ToSet(ids)) = n /\ ToSet(ids) \in SUBSET Block
    BY <2>3, <2>4, QueueSize, Members
  <2>6. ToSet(ids) = Block
    BY <2>5, QueueAssumption, FS_Subset DEF n
  <2> QED BY <2>4, <2>6
<1>3. /\ pool.queue = ids /\ pool.ref = [b \in Block |-> 0]
      /\ pool.hash = [b \in Block |-> None] /\ pool.cached = [h \in Hash |-> <<>>]
      /\ pool.partial = [h \in Hash |-> None] /\ pool.pids = [b \in Block |-> {}]
      /\ ~pool.raised
  BY <1>1 DEF NewPool
<1>4. pool \in QueuePool
  <2>1. [h \in Hash |-> <<>>] \in [Hash -> Queue(Block)]
    BY QueueEmpty
  <2>2. /\ [b \in Block |-> 0] \in [Block -> Int] /\ FALSE \in BOOLEAN
        /\ [b \in Block |-> None] \in [Block -> Hash \cup {None}]
        /\ [h \in Hash |-> None] \in [Hash -> Entry \cup {None}]
        /\ [b \in Block |-> {}] \in [Block -> SUBSET Hash]
    OBVIOUS
  <2> QED BY <1>1, <1>2, <2>1, <2>2 DEF NewPool, QueuePool
<1>5. /\ held = [b \in Block |-> 0] /\ covers = [b \in Block |-> {}]
      /\ held \in [Block -> Nat] /\ covers \in [Block -> SUBSET Hash]
  BY DEF Init
<1>6. IInv
  <2>1. ToSet(pool.queue) = {b \in Block : held[b] = 0}
    BY <1>2, <1>3, <1>5
  <2>2. \A b \in Block : pool.ref[b] = held[b]
    BY <1>3, <1>5
  <2>3. QueueExact
    BY <1>3, <1>4, <1>5, <2>1, <2>2, ExactSets DEF QueueExact
  <2> QED BY <1>4, <1>5, <2>3 DEF IInv
<1>7. Abstract!Init
  <2>1. [h \in Hash |-> ToSet(pool.cached[h])] = [h \in Hash |-> {}]
    BY <1>3, QueueEmpty
  <2> QED BY <1>2, <1>3, <1>5, <2>1 DEF Abstract!Init, Abstract!NewPool
<1> QED
  BY <1>6, <1>7

\* Every behaviour satisfies the invariant.
THEOREM Invariant == Spec => []IInv
<1>1. IInv /\ [Next]_vars => IInv'
  BY StepGood DEF Good
<1> QED BY InitGood, <1>1, PTL DEF Spec

\* The free queue lists the blocks that nobody holds, each of them once, and the
\* pool never raises: get_new_blocks is never short of blocks it counted, and
\* hands out no block in use.
THEOREM QueueIsExact == Spec => []QueueExact
<1>1. IInv => QueueExact
  BY DEF IInv
<1> QED BY <1>1, Invariant, PTL

\* A lookup of a hash returns the same block until that block leaves the index.
THEOREM LookupsStable == Spec => LookupStable
<1>1. IInv /\ [Next]_vars => Stable
  BY StepGood DEF Good
<1>2. Stable => [\A h \in Hash :
                   LET b == CachedBlock(pool, h)
                   IN  b # None /\ Contains(pool'.cached[h], b)
                         => CachedBlock(pool', h) = b]_vars
  BY DEF Stable
<1> QED BY <1>1, <1>2, Invariant, PTL DEF Spec, LookupStable

\* Blocks that stay free keep their order, and freed blocks queue up behind them:
\* the next block evicted is the least recently used.
THEOREM OrderKept == Spec => FreedInOrder
<1>1. IInv /\ [Next]_vars => InOrder
  BY StepGood DEF Good
<1>2. InOrder => [IsPrefix(Among(pool.queue, ToSet(pool'.queue)), pool'.queue)]_vars
  BY DEF InOrder
<1> QED BY <1>1, <1>2, Invariant, PTL DEF Spec, FreedInOrder

\* The queue and the ordered dicts implement the pool of sets that BlockPool
\* specifies, so what is proved of it holds for them.
THEOREM Refinement == Spec => ImplementsBlockPool
<1>1. IInv /\ [Next]_vars => [Abstract!Next]_(Abstract!vars)
  BY StepGood DEF Good, Implemented
<1> QED BY <1>1, InitGood, Invariant, PTL DEF Spec, ImplementsBlockPool, Abstract!Spec
==============================================================================
