------------------------- MODULE EngineTablesProofs -------------------------
(***************************************************************************)
(* The tables of the engine, for all requests, pools and lengths: every    *)
(* operator that moves blocks keeps the counts of the pool exact, the      *)
(* indexes and the tables in agreement, and fires no assertion.            *)
(*                                                                         *)
(* In order: what it means that a cache is in order; the operators of the  *)
(* pool, seen by the holders of its blocks; those of the Mamba manager, of *)
(* the attention group and of a hit.                                       *)
(***************************************************************************)
EXTENDS Engine, QueuesProofs

Entry == [block : Block, valid : Nat]

QueuePool == [queue   : Queue(Block),
              ref     : [Block -> Int],
              hash    : [Block -> Hash \cup {None}],
              cached  : [Hash -> Queue(Block)],
              partial : [Hash -> Entry \cup {None}],
              pids    : [Block -> SUBSET Hash],
              raised  : BOOLEAN]

-----------------------------------------------------------------------------
(* A cache in order.                                                       *)

\* A holder of blocks: one group's table of one request.
Holder == Groups \X Req

HeldBy(c, x) ==
  IF x[1] = "attn" THEN ToSet(c.attn[x[2]].blocks) \cup ToSet(c.attn[x[2]].pinned)
  ELSE ToSet(c.mamba[x[2]].blocks) \ {Null}

Holding(c) == [x \in Holder |-> HeldBy(c, x)]

HoldersOf(hold, b) == {x \in Holder : b \in hold[x]}

\* The group and the place of a hash: how many tokens it is the hash of.
Group(h) == h[1]
Place(h) == h[2][2]

HashedIn(q, b, g) == q.hash[b] # None /\ Group(q.hash[b]) = g

\* The two indexes agree with what the blocks say, and a block that is cached as a
\* whole block of attention and under a boundary inside it is cached at that place.
Indexed(q) ==
  /\ \A b \in Block, h \in Hash : b \in ToSet(q.cached[h]) <=> q.hash[b] = h
  /\ \A h \in Hash : q.partial[h] # None => h \in q.pids[q.partial[h].block]
  /\ \A b \in Block : \A h \in q.pids[b] :
       HashedIn(q, b, "attn") => Place(q.hash[b]) = (Place(h) \div A + 1) * A

\* The pool counts the holders of each block, and queues the blocks without any.
Counted(q, hold, B) ==
  /\ \A b \in Block : q.ref[b] = Cardinality(HoldersOf(hold, b))
  /\ ToSet(q.queue) = {b \in B : q.ref[b] = 0}
  /\ \A x \in Holder : hold[x] \subseteq B
  /\ \A b \in Block \ B : q.hash[b] = None /\ q.pids[b] = {}

PoolOK(q, hold, B) ==
  /\ q \in QueuePool /\ ~q.raised
  /\ Indexed(q)
  /\ hold \in [Holder -> SUBSET Block] /\ Counted(q, hold, B)

\* No lookup finds the block, and nobody but x holds it.
Own(q, hold, x, b) ==
  /\ q.hash[b] = None /\ q.pids[b] = {}
  /\ \A y \in Holder : b \in hold[y] => y = x

AttnShape(a) ==
  /\ a.blocks \in Queue(Block) /\ a.pinned \in Queue(Block)
  /\ ToSet(a.blocks) \cap ToSet(a.pinned) = {}
  /\ a.cached <= Len(a.blocks)

\* The cached blocks of a table are found under their hashes, the rest by nobody.
AttnOK(q, hold, r, a) ==
  /\ AttnShape(a)
  /\ \A j \in 1 .. a.cached : q.hash[a.blocks[j]] \in {AttnHash(r, j * A)} \ {None}
  /\ \A j \in a.cached + 1 .. Len(a.blocks) : Own(q, hold, <<"attn", r>>, a.blocks[j])

MambaShape(bs) ==
  \A i, j \in 1 .. Len(bs) : bs[i] = bs[j] /\ bs[i] # Null => i = j

MambaHashes(q, bs) ==
  \A b \in ToSet(bs) \ {Null} : q.hash[b] = None \/ HashedIn(q, b, "mamba")

\* The running state is the last of the table.  It is nobody else's unless it is a
\* checkpoint.
Placed(q, hold, r, m) ==
  /\ m.alloc /\ m.cur \in Nat
  /\ Len(m.blocks) = m.cur + 1 /\ m.blocks[m.cur + 1] # Null
  /\ m.latest <= m.cur /\ m.latest <= CheckpointIdx(r) /\ m.latest \in Nat \cup {NoIdx}
  /\ m.coarse \in {NoIdx, CheckpointIdx(r)}
  /\ m.pending < m.cur /\ m.pending \in Nat \cup {NoIdx}
  /\ DOMAIN m.inflight \subseteq 0 .. m.cur - 1
  /\ m.cur \in {m.latest, m.coarse} \/ Own(q, hold, <<"mamba", r>>, m.blocks[m.cur + 1])

MambaOK(q, hold, r, m) ==
  /\ MambaShape(m.blocks) /\ MambaHashes(q, m.blocks)
  /\ m = NoMamba \/ Placed(q, hold, r, m)

TableOK(c, x) ==
  IF x[1] = "attn" THEN AttnOK(c.pool, Holding(c), x[2], c.attn[x[2]])
  ELSE MambaOK(c.pool, Holding(c), x[2], c.mamba[x[2]])

Bag == UNION {[S -> Nat \ {0}] : S \in SUBSET Nat}

AttnTable == [blocks : Seq(Block), pinned : Seq(Block), cached : Nat]

MambaTable == [blocks : Seq(Block \cup {Null}), alloc : BOOLEAN, cur : Int, pending : Int,
               inflight : Bag, latest : Int, coarse : Int]

PartialHit == [src : Block, index : Nat, ntok : Nat]

Copy == [src : Block, dst : Block, ntok : Nat]

Cache == [gold   : BOOLEAN,
          pool   : QueuePool,
          mamba  : [Req -> MambaTable],
          attn   : [Req -> AttnTable],
          pend   : [Req -> PartialHit \cup {None}],
          fresh  : Seq(Block),
          copies : Seq(Copy)]

\* A cache whose tables are in order, but for the one of holder x.
SoundBut(c, B, x) ==
  /\ c \in Cache
  /\ PoolOK(c.pool, Holding(c), B)
  /\ \A y \in Holder \ {x} : TableOK(c, y)

Sound(c, B) ==
  /\ c \in Cache
  /\ PoolOK(c.pool, Holding(c), B)
  /\ \A y \in Holder : TableOK(c, y)

-----------------------------------------------------------------------------
(* The operators of the pool, field by field.                              *)

\* The fields of a pool.
LEMMA PoolFields ==
  ASSUME NEW q \in QueuePool
  PROVE  /\ q.queue \in Queue(Block) /\ q.ref \in [Block -> Int]
         /\ q.hash \in [Block -> Hash \cup {None}]
         /\ q.cached \in [Hash -> Queue(Block)]
         /\ q.partial \in [Hash -> Entry \cup {None}]
         /\ q.pids \in [Block -> SUBSET Hash] /\ q.raised \in BOOLEAN
         /\ \A h \in Hash : q.cached[h] \in Queue(Block) /\ q.cached[h] \in Seq(Block)
         /\ \A h \in Hash : q.partial[h] # None => q.partial[h].block \in Block
BY DEF QueuePool, Queue, Entry

\* A block out of the indexes, and nothing else changes.
LEMMA EvictCachedOK ==
  ASSUME NEW q \in QueuePool, Indexed(q), NEW b \in Block
  PROVE  LET e == EvictCached(q, b)
         IN  /\ e \in QueuePool /\ Indexed(e)
             /\ e.queue = q.queue /\ e.ref = q.ref /\ e.raised = q.raised
             /\ e.hash = [q.hash EXCEPT ![b] = None] /\ e.pids = [q.pids EXCEPT ![b] = {}]
<1> DEFINE p == EvictPartial(q, b)
           e == EvictCached(q, b)
           h == q.hash[b]
<1>0. /\ q.queue \in Queue(Block) /\ q.ref \in [Block -> Int]
      /\ q.hash \in [Block -> Hash \cup {None}] /\ q.cached \in [Hash -> Queue(Block)]
      /\ q.partial \in [Hash -> Entry \cup {None}] /\ q.pids \in [Block -> SUBSET Hash]
      /\ q.raised \in BOOLEAN /\ None \notin Hash /\ None \notin Block
      /\ \A g \in Hash : q.cached[g] \in Queue(Block) /\ q.cached[g] \in Seq(Block)
      /\ \A g \in Hash : q.partial[g] # None => q.partial[g].block \in Block
  BY PoolFields, QueueAssumption
<1>1. /\ p.queue = q.queue /\ p.ref = q.ref /\ p.raised = q.raised
      /\ p.hash = q.hash /\ p.cached = q.cached /\ p.pids = [q.pids EXCEPT ![b] = {}]
      /\ p.partial = [g \in Hash |-> IF /\ g \in q.pids[b] /\ q.partial[g] # None
                                        /\ q.partial[g].block = b
                                     THEN None ELSE q.partial[g]]
  BY DEF EvictPartial, QueuePool
<1>2. p \in QueuePool
  <2>1. p.pids \in [Block -> SUBSET Hash] /\ p.partial \in [Hash -> Entry \cup {None}]
    BY <1>0, <1>1
  <2> QED BY <1>0, <1>1, <2>1 DEF EvictPartial, QueuePool
<1>3. \A c \in Block, g \in Hash : c \in ToSet(q.cached[g]) <=> q.hash[c] = g
  BY DEF Indexed
<1> HIDE DEF p
<1>4. /\ e \in QueuePool
      /\ e.queue = p.queue /\ e.ref = p.ref /\ e.raised = p.raised
      /\ e.partial = p.partial /\ e.pids = p.pids
      /\ e.hash = [q.hash EXCEPT ![b] = None]
      /\ \A c \in Block, g \in Hash : c \in ToSet(e.cached[g]) <=> e.hash[c] = g
  <2>1. CASE h = None
    <3>1. e = p
      BY <2>1 DEF EvictCached, p
    <3>2. q.hash = [q.hash EXCEPT ![b] = None]
      BY <1>0, <2>1
    <3> QED BY <1>1, <1>2, <1>3, <3>1, <3>2
  <2>2. CASE h # None
    <3>0. h \in Hash /\ b \in ToSet(q.cached[h])
      BY <1>0, <1>3, <2>2
    <3>1. Contains(p.cached[h], b)
      BY <1>0, <1>1, <3>0, ContainsMember
    <3>2. e = [p EXCEPT !.cached[h] = Among(@, Block \ {b}), !.hash[b] = None]
      BY <2>2, <3>1 DEF EvictCached, p
    <3> DEFINE rest == Among(q.cached[h], Block \ {b})
    <3>3. rest \in Queue(Block) /\ ToSet(rest) = ToSet(q.cached[h]) \cap (Block \ {b})
      BY <1>0, <3>0, QueueAmong
    <3> HIDE DEF rest
    <3>4. /\ e.queue = p.queue /\ e.ref = p.ref /\ e.raised = p.raised
          /\ e.partial = p.partial /\ e.pids = p.pids
          /\ e.hash = [q.hash EXCEPT ![b] = None]
          /\ e.cached = [q.cached EXCEPT ![h] = rest]
      <4>1. p.cached[h] = q.cached[h]
        BY <1>1
      <4> QED BY <1>1, <1>2, <3>2, <4>1 DEF QueuePool, rest
    <3> HIDE DEF e
    <3>5. e \in QueuePool
      <4>1. e.cached \in [Hash -> Queue(Block)]
        BY <1>0, <3>0, <3>3, <3>4
      <4>2. e.hash \in [Block -> Hash \cup {None}]
        BY <1>0, <3>4
      <4> QED BY <1>2, <3>2, <4>1, <4>2 DEF QueuePool
    <3>6. ASSUME NEW c \in Block, NEW g \in Hash PROVE c \in ToSet(e.cached[g]) <=> e.hash[c] = g
      <4>1. CASE g = h
        <5>1. e.cached[g] = rest
          BY <1>0, <3>0, <3>4, <4>1
        <5>2. e.hash[c] = IF c = b THEN None ELSE q.hash[c]
          BY <1>0, <3>4
        <5> QED BY <1>0, <1>3, <3>0, <3>3, <4>1, <5>1, <5>2
      <4>2. CASE g # h
        <5>1. e.cached[g] = q.cached[g]
          BY <1>0, <3>0, <3>4, <4>2
        <5>2. e.hash[c] = IF c = b THEN None ELSE q.hash[c]
          BY <1>0, <3>4
        <5> QED BY <1>0, <1>3, <3>0, <4>2, <5>1, <5>2
      <4> QED BY <4>1, <4>2
    <3> QED BY <3>4, <3>5, <3>6
  <2> QED BY <2>1, <2>2
<1> HIDE DEF e
<1>5. Indexed(e)
  <2>1. ASSUME NEW g \in Hash, e.partial[g] # None PROVE g \in e.pids[e.partial[g].block]
    <3>1. /\ q.partial[g] # None /\ e.partial[g] = q.partial[g]
          /\ ~(g \in q.pids[b] /\ q.partial[g].block = b)
      BY <1>1, <1>4, <2>1
    <3>2. g \in q.pids[q.partial[g].block] /\ q.partial[g].block \in Block
      BY <1>0, <3>1 DEF Indexed
    <3> QED BY <1>0, <1>1, <1>4, <3>1, <3>2
  <2>2. ASSUME NEW c \in Block, NEW g \in e.pids[c], HashedIn(e, c, "attn")
        PROVE  Place(e.hash[c]) = (Place(g) \div A + 1) * A
    <3>1. c # b /\ g \in q.pids[c] /\ e.hash[c] = q.hash[c]
      BY <1>0, <1>1, <1>4, <2>2
    <3>2. HashedIn(q, c, "attn")
      BY <2>2, <3>1 DEF HashedIn
    <3> QED BY <3>1, <3>2 DEF Indexed
  <2> QED BY <1>4, <2>1, <2>2 DEF Indexed
<1> QED
  BY <1>1, <1>4, <1>5 DEF e

\* There are finitely many holders.
LEMMA HoldersFinite == IsFiniteSet(Holder)
<1>1. IsFiniteSet({"attn"}) /\ {"attn"} \cup {"mamba"} = Groups
  BY FS_Singleton DEF Groups
<1>2. IsFiniteSet(Groups)
  BY <1>1, FS_AddElement
<1>3. IsFiniteSet(Req)
  BY RequestsAssumption
<1> QED
  BY <1>2, <1>3, FS_Product DEF Holder

-----------------------------------------------------------------------------
(* Counting the holders.                                                   *)

\* One holder now holds the blocks of S.
Regrip(hold, x, S) == [hold EXCEPT ![x] = S]

\* How many hold a block, when one of them takes it or gives it back.
LEMMA HolderCount ==
  ASSUME NEW hold \in [Holder -> SUBSET Block], NEW x \in Holder, NEW S \in SUBSET Block,
         NEW b \in Block
  PROVE  LET n  == Cardinality(HoldersOf(hold, b))
             n2 == Cardinality(HoldersOf(Regrip(hold, x, S), b))
         IN  /\ n \in Nat /\ n2 \in Nat
             /\ n = 0 => \A y \in Holder : b \notin hold[y]
             /\ (\A y \in Holder : b \notin hold[y]) => n = 0
             /\ b \in hold[x] /\ b \in S => n2 = n
             /\ b \notin hold[x] /\ b \notin S => n2 = n
             /\ b \notin hold[x] /\ b \in S => n2 = n + 1
             /\ b \in hold[x] /\ b \notin S => n2 = n - 1
<1> DEFINE old == HoldersOf(hold, b)
           new == HoldersOf(Regrip(hold, x, S), b)
<1>1. IsFiniteSet(old) /\ IsFiniteSet(new)
  BY HoldersFinite, FS_Subset DEF HoldersOf
<1>2. /\ Cardinality(old) \in Nat /\ Cardinality(new) \in Nat
      /\ Cardinality(old) = 0 <=> old = {}
  BY <1>1, FS_CardinalityType, FS_EmptySet
<1>3. old = {} <=> \A y \in Holder : b \notin hold[y]
  BY DEF HoldersOf
<1>4. /\ x \in old <=> b \in hold[x]
      /\ x \in new <=> b \in S
      /\ \A y \in Holder : y # x => (y \in old <=> y \in new)
      /\ old \subseteq Holder /\ new \subseteq Holder
  BY DEF HoldersOf, Regrip
<1> HIDE DEF old, new
<1>5. ASSUME (b \in hold[x]) = (b \in S) PROVE new = old
  BY <1>4, <1>5
<1>6. ASSUME b \notin hold[x], b \in S PROVE Cardinality(new) = Cardinality(old) + 1
  <2>1. new = old \cup {x} /\ x \notin old
    BY <1>4, <1>6
  <2> QED BY <1>1, <2>1, FS_AddElement
<1>7. ASSUME b \in hold[x], b \notin S PROVE Cardinality(new) = Cardinality(old) - 1
  <2>1. new = old \ {x} /\ x \in old
    BY <1>4, <1>7
  <2> QED BY <1>1, <2>1, FS_RemoveElement
<1> QED
  BY <1>2, <1>3, <1>5, <1>6, <1>7 DEF old, new

\* What a change that holder x makes to the pool leaves to the others: the blocks
\* that are theirs alone, the hashes of attention blocks, and blocks without such hashes.
Spares(q, hold, q2, hold2, x) ==
  \A y \in Holder \ {x} :
    /\ hold2[y] = hold[y]
    /\ \A b \in hold[y] :
         /\ Own(q, hold, y, b) => Own(q2, hold2, y, b)
         /\ HashedIn(q, b, "attn") => q2.hash[b] = q.hash[b]
         /\ (q.hash[b] = None \/ HashedIn(q, b, "mamba"))
              => (q2.hash[b] = None \/ HashedIn(q2, b, "mamba"))

\* The counts and the queue of a pool in which x takes unqueued blocks or gives blocks
\* back, and everything else stays.
LEMMA CountedAgain ==
  ASSUME NEW q, NEW q2, NEW hold, NEW B \in SUBSET Block, NEW x \in Holder, NEW S \in SUBSET B,
         PoolOK(q, hold, B), q2 \in QueuePool,
         \A b \in Block : q2.ref[b] = q.ref[b] + (IF b \in S THEN 1 ELSE 0)
                                               - (IF b \in hold[x] THEN 1 ELSE 0),
         ToSet(q2.queue) = {b \in B : q2.ref[b] = 0},
         \A b \in Block \ B : q2.hash[b] = None /\ q2.pids[b] = {}
  PROVE  Counted(q2, Regrip(hold, x, S), B) /\ Regrip(hold, x, S) \in [Holder -> SUBSET Block]
<1>1. /\ hold \in [Holder -> SUBSET Block] /\ S \in SUBSET Block
      /\ \A b \in Block : q.ref[b] = Cardinality(HoldersOf(hold, b))
      /\ \A y \in Holder : hold[y] \subseteq B
  BY DEF PoolOK, Counted
<1>2. Regrip(hold, x, S) \in [Holder -> SUBSET Block]
  BY <1>1 DEF Regrip
<1>3. \A y \in Holder : Regrip(hold, x, S)[y] \subseteq B
  BY <1>1 DEF Regrip
<1>4. ASSUME NEW b \in Block PROVE q2.ref[b] = Cardinality(HoldersOf(Regrip(hold, x, S), b))
  <2> DEFINE n  == Cardinality(HoldersOf(hold, b))
             n2 == Cardinality(HoldersOf(Regrip(hold, x, S), b))
  <2>1. /\ n \in Nat /\ n2 \in Nat
        /\ b \in hold[x] /\ b \in S => n2 = n
        /\ b \notin hold[x] /\ b \notin S => n2 = n
        /\ b \notin hold[x] /\ b \in S => n2 = n + 1
        /\ b \in hold[x] /\ b \notin S => n2 = n - 1
    BY <1>1, HolderCount
  <2>2. q2.ref[b] = n + (IF b \in S THEN 1 ELSE 0) - (IF b \in hold[x] THEN 1 ELSE 0)
    BY <1>1
  <2> HIDE DEF n, n2
  <2>3. q2.ref[b] = n2
    BY <2>1, <2>2
  <2> QED BY <2>3 DEF n2
<1> QED
  BY <1>2, <1>3, <1>4 DEF Counted

\* A change that leaves the indexes of other holders' blocks alone spares them, unless
\* x takes a block that was theirs alone.
LEMMA SparesOf ==
  ASSUME NEW q, NEW q2, NEW hold \in [Holder -> SUBSET Block], NEW x \in Holder,
         NEW S \in SUBSET Block,
         \A b \in S \ hold[x] : \/ q.hash[b] # None \/ q.pids[b] # {}
                                \/ \A y \in Holder : b \notin hold[y],
         \A y \in Holder \ {x} : \A b \in hold[y] :
           q2.hash[b] = q.hash[b] /\ q2.pids[b] = q.pids[b]
  PROVE  Spares(q, hold, q2, Regrip(hold, x, S), x)
<1> DEFINE h2 == Regrip(hold, x, S)
<1>1. h2[x] = S /\ \A y \in Holder \ {x} : h2[y] = hold[y]
  BY DEF Regrip
<1> HIDE DEF h2
<1>2. ASSUME NEW y \in Holder \ {x}, NEW b \in hold[y]
      PROVE  /\ Own(q, hold, y, b) => Own(q2, h2, y, b)
             /\ HashedIn(q, b, "attn") => q2.hash[b] = q.hash[b]
             /\ (q.hash[b] = None \/ HashedIn(q, b, "mamba"))
                  => (q2.hash[b] = None \/ HashedIn(q2, b, "mamba"))
  <2>1. q2.hash[b] = q.hash[b] /\ q2.pids[b] = q.pids[b]
    OBVIOUS
  <2>2. ASSUME Own(q, hold, y, b) PROVE Own(q2, h2, y, b)
    <3>1. q.hash[b] = None /\ q.pids[b] = {} /\ \A z \in Holder : b \in hold[z] => z = y
      BY <2>2 DEF Own
    <3>2. b \notin S
      BY <3>1
    <3>3. \A z \in Holder : b \in h2[z] => z = y
      BY <1>1, <3>1, <3>2
    <3> QED BY <2>1, <3>1, <3>3 DEF Own
  <2> QED BY <2>1, <2>2 DEF HashedIn
<1> QED
  BY <1>1, <1>2 DEF Spares, h2

\* The indexes of two pools are the same.
SameIndexes(q, q2) == /\ q2.hash = q.hash /\ q2.cached = q.cached
                      /\ q2.partial = q.partial /\ q2.pids = q.pids

\* What PoolOK says.
LEMMA PoolFacts ==
  ASSUME NEW q, NEW hold, NEW B \in SUBSET Block, PoolOK(q, hold, B)
  PROVE  /\ q \in QueuePool /\ q.raised = FALSE /\ Indexed(q)
         /\ hold \in [Holder -> SUBSET Block]
         /\ q.queue \in Queue(Block) /\ q.queue \in Seq(Block) /\ q.ref \in [Block -> Int]
         /\ q.hash \in [Block -> Hash \cup {None}] /\ q.pids \in [Block -> SUBSET Hash]
         /\ ToSet(q.queue) = {b \in B : q.ref[b] = 0}
         /\ \A y \in Holder : hold[y] \subseteq B
         /\ \A b \in Block \ B : q.hash[b] = None /\ q.pids[b] = {}
         /\ \A b \in Block : q.ref[b] \in Nat
         /\ \A y \in Holder : \A b \in hold[y] : q.ref[b] > 0
         /\ \A y \in Holder : hold[y] \cap ToSet(q.queue) = {}
<1>1. /\ q \in QueuePool /\ q.raised = FALSE /\ Indexed(q)
      /\ hold \in [Holder -> SUBSET Block] /\ Counted(q, hold, B)
  <2>1. q \in QueuePool /\ ~q.raised
    BY DEF PoolOK
  <2>2. q.raised \in BOOLEAN
    BY <2>1, PoolFields
  <2> QED BY <2>1, <2>2 DEF PoolOK
<1>2. /\ q.queue \in Queue(Block) /\ q.queue \in Seq(Block) /\ q.ref \in [Block -> Int]
      /\ q.hash \in [Block -> Hash \cup {None}] /\ q.pids \in [Block -> SUBSET Hash]
  BY <1>1, PoolFields DEF Queue
<1>3. /\ ToSet(q.queue) = {b \in B : q.ref[b] = 0}
      /\ \A y \in Holder : hold[y] \subseteq B
      /\ \A b \in Block \ B : q.hash[b] = None /\ q.pids[b] = {}
      /\ \A b \in Block : q.ref[b] = Cardinality(HoldersOf(hold, b))
  BY <1>1 DEF Counted
<1>4. ASSUME NEW b \in Block
      PROVE  /\ q.ref[b] \in Nat
             /\ \A y \in Holder : b \in hold[y] => q.ref[b] > 0
  <2> DEFINE n == Cardinality(HoldersOf(hold, b))
  <2>1. ASSUME NEW y \in Holder
        PROVE  n \in Nat /\ (n = 0 => b \notin hold[y])
    BY <1>1, HolderCount
  <2>2. n \in Nat
    <3>1. IsFiniteSet(HoldersOf(hold, b))
      BY HoldersFinite, FS_Subset DEF HoldersOf
    <3> QED BY <3>1, FS_CardinalityType
  <2> QED BY <1>3, <2>1, <2>2
<1> QED
  BY <1>1, <1>2, <1>3, <1>4

\* The lists of a pool count each block at most once.
LEMMA TimesOnce ==
  ASSUME NEW bs \in Queue(Block)
  PROVE  \A b \in Block : Times(bs, b) = IF b \in ToSet(bs) THEN 1 ELSE 0
BY QueueCount DEF Times

\* x takes blocks that a lookup has found.
Touchable(q, hold, B, x, bs) ==
  /\ bs \in Queue(Block) /\ ToSet(bs) \subseteq B /\ ToSet(bs) \cap hold[x] = {}
  /\ \A b \in ToSet(bs) : q.hash[b] # None \/ q.pids[b] # {}

Touched(q, hold, B, x, bs, t) ==
  LET h2 == Regrip(hold, x, hold[x] \cup ToSet(bs))
  IN  /\ PoolOK(t, h2, B) /\ Spares(q, hold, t, h2, x) /\ SameIndexes(q, t)
      /\ ToSet(t.queue) = ToSet(q.queue) \ ToSet(bs)
      /\ \A b \in Block : t.ref[b] = 0 => q.ref[b] = 0

\* Blocks that a lookup has found are taken by x.
LEMMA TouchPool ==
  ASSUME NEW q, NEW hold, NEW B \in SUBSET Block, NEW x \in Holder, PoolOK(q, hold, B),
         NEW bs, Touchable(q, hold, B, x, bs)
  PROVE  Touched(q, hold, B, x, bs, Touch(q, bs))
<1> DEFINE t  == Touch(q, bs)
           S  == hold[x] \cup ToSet(bs)
           h2 == Regrip(hold, x, S)
           queue == Among(q.queue, Block \ ToSet(bs))
           ref == [b \in Block |-> q.ref[b] + Times(bs, b)]
<1>0. /\ q \in QueuePool /\ q.raised = FALSE /\ Indexed(q) /\ hold \in [Holder -> SUBSET Block]
      /\ q.queue \in Queue(Block) /\ q.ref \in [Block -> Int]
      /\ ToSet(q.queue) = {b \in B : q.ref[b] = 0}
      /\ \A y \in Holder : hold[y] \subseteq B
      /\ \A b \in Block \ B : q.hash[b] = None /\ q.pids[b] = {}
      /\ \A b \in Block : q.ref[b] \in Nat
  BY PoolFacts
<1>a. /\ bs \in Queue(Block) /\ ToSet(bs) \subseteq B /\ ToSet(bs) \cap hold[x] = {}
      /\ \A b \in ToSet(bs) : q.hash[b] # None \/ q.pids[b] # {}
  BY DEF Touchable
<1>1. \A b \in Block : Times(bs, b) = IF b \in ToSet(bs) THEN 1 ELSE 0
  BY <1>a, TimesOnce
<1>2. /\ queue \in Queue(Block) /\ ref \in [Block -> Int]
      /\ \A b \in Block : ref[b] = q.ref[b] + (IF b \in ToSet(bs) THEN 1 ELSE 0)
      /\ ToSet(queue) = ToSet(q.queue) \cap (Block \ ToSet(bs))
  BY <1>0, <1>1, QueueAmong
<1>3. t = [q EXCEPT !.queue = queue, !.ref = ref, !.raised = FALSE]
  BY <1>0 DEF Touch, QueuePool
<1> HIDE DEF t, queue, ref
<1>4. /\ t \in QueuePool /\ t.queue = queue /\ t.ref = ref /\ t.raised = FALSE
      /\ SameIndexes(q, t)
  BY <1>0, <1>2, <1>3 DEF SameIndexes, QueuePool
<1>5. ToSet(queue) = ToSet(q.queue) \ ToSet(bs) /\ ToSet(queue) = {b \in B : ref[b] = 0}
  BY <1>0, <1>2
<1>6. S \in SUBSET B
  BY <1>0, <1>a
<1>7. \A b \in Block : t.ref[b] = q.ref[b] + (IF b \in S THEN 1 ELSE 0)
                                           - (IF b \in hold[x] THEN 1 ELSE 0)
  BY <1>0, <1>a, <1>2, <1>4
<1>8. \A b \in Block \ B : t.hash[b] = None /\ t.pids[b] = {}
  BY <1>0, <1>4 DEF SameIndexes
<1> HIDE DEF S
<1>9. Counted(t, h2, B) /\ h2 \in [Holder -> SUBSET Block]
  BY <1>4, <1>5, <1>6, <1>7, <1>8, CountedAgain
<1>10. PoolOK(t, h2, B)
  BY <1>0, <1>4, <1>9 DEF PoolOK, Indexed, SameIndexes, HashedIn
<1>11. Spares(q, hold, t, h2, x)
  <2>1. \A b \in S \ hold[x] : q.hash[b] # None \/ q.pids[b] # {}
    BY <1>a DEF S
  <2>2. \A b : t.hash[b] = q.hash[b] /\ t.pids[b] = q.pids[b]
    BY <1>4 DEF SameIndexes
  <2>3. S \in SUBSET Block
    BY <1>6
  <2> QED BY <1>0, <2>1, <2>2, <2>3, SparesOf
<1>12. \A b \in Block : t.ref[b] = 0 => q.ref[b] = 0
  BY <1>0, <1>2, <1>4
<1> QED
  BY <1>4, <1>5, <1>10, <1>11, <1>12 DEF t, S, Touched

\* x gives blocks back.
LEMMA FreePool ==
  ASSUME NEW q, NEW hold, NEW B \in SUBSET Block, NEW x \in Holder, PoolOK(q, hold, B),
         NEW bs \in Queue(Block), ToSet(bs) \subseteq hold[x]
  PROVE  LET t  == FreeBlocks(q, bs)
             h2 == Regrip(hold, x, hold[x] \ ToSet(bs))
         IN  PoolOK(t, h2, B) /\ Spares(q, hold, t, h2, x) /\ SameIndexes(q, t)
<1> DEFINE t  == FreeBlocks(q, bs)
           S  == hold[x] \ ToSet(bs)
           h2 == Regrip(hold, x, S)
           ref == [b \in Block |-> q.ref[b] - Times(bs, b)]
           back == Among(bs, {b \in Block : ref[b] = 0})
           queue == q.queue \o back
<1>0. /\ q \in QueuePool /\ q.raised = FALSE /\ Indexed(q) /\ hold \in [Holder -> SUBSET Block]
      /\ q.queue \in Queue(Block) /\ q.ref \in [Block -> Int]
      /\ ToSet(q.queue) = {b \in B : q.ref[b] = 0}
      /\ \A y \in Holder : hold[y] \subseteq B
      /\ \A b \in Block \ B : q.hash[b] = None /\ q.pids[b] = {}
      /\ \A b \in Block : q.ref[b] \in Nat
      /\ \A b \in hold[x] : q.ref[b] > 0
  BY PoolFacts
<1>1. \A b \in Block : Times(bs, b) = IF b \in ToSet(bs) THEN 1 ELSE 0
  BY TimesOnce
<1>2. /\ ref \in [Block -> Int]
      /\ \A b \in Block : ref[b] = q.ref[b] - (IF b \in ToSet(bs) THEN 1 ELSE 0)
  BY <1>0, <1>1
<1>3. t = [q EXCEPT !.queue = queue, !.ref = ref, !.raised = FALSE]
  BY <1>0 DEF FreeBlocks, QueuePool
<1> HIDE DEF t, ref
<1>4. back \in Queue(Block) /\ ToSet(back) = ToSet(bs) \cap {b \in Block : ref[b] = 0}
  BY QueueAmong
<1> HIDE DEF back
<1>5. ToSet(bs) \subseteq B
  BY <1>0
<1>6. ToSet(q.queue) \cap ToSet(back) = {}
  BY <1>0, <1>4
<1>7. queue \in Queue(Block) /\ ToSet(queue) = ToSet(q.queue) \cup ToSet(back)
  BY <1>0, <1>4, <1>6, QueueConcat
<1> HIDE DEF queue
<1>8. /\ t \in QueuePool /\ t.queue = queue /\ t.ref = ref /\ t.raised = FALSE
      /\ SameIndexes(q, t)
  BY <1>0, <1>2, <1>3, <1>7 DEF SameIndexes, QueuePool
<1>9. ToSet(queue) = {b \in B : ref[b] = 0}
  <2>1. \A b \in B : b \in ToSet(queue) <=> ref[b] = 0
    <3> SUFFICES ASSUME NEW b \in B PROVE b \in ToSet(queue) <=> ref[b] = 0
      OBVIOUS
    <3>1. CASE b \in ToSet(bs)
      BY <1>0, <1>2, <1>4, <1>7, <3>1
    <3>2. CASE b \notin ToSet(bs)
      BY <1>0, <1>2, <1>4, <1>7, <3>2
    <3> QED BY <3>1, <3>2
  <2>2. ToSet(queue) \subseteq B
    BY <1>0, <1>4, <1>5, <1>7
  <2> QED BY <2>1, <2>2
<1>10. S \in SUBSET B
  BY <1>0
<1>11. \A b \in Block : t.ref[b] = q.ref[b] + (IF b \in S THEN 1 ELSE 0)
                                            - (IF b \in hold[x] THEN 1 ELSE 0)
  BY <1>0, <1>2, <1>8
<1>12. \A b \in Block \ B : t.hash[b] = None /\ t.pids[b] = {}
  BY <1>0, <1>8 DEF SameIndexes
<1> HIDE DEF S
<1>13. Counted(t, h2, B) /\ h2 \in [Holder -> SUBSET Block]
  BY <1>8, <1>9, <1>10, <1>11, <1>12, CountedAgain
<1>14. PoolOK(t, h2, B)
  BY <1>0, <1>8, <1>13 DEF PoolOK, Indexed, SameIndexes, HashedIn
<1>15. Spares(q, hold, t, h2, x)
  <2>1. \A b \in S \ hold[x] : q.hash[b] # None \/ q.pids[b] # {}
    BY DEF S
  <2>2. \A b : t.hash[b] = q.hash[b] /\ t.pids[b] = q.pids[b]
    BY <1>8 DEF SameIndexes
  <2>3. S \in SUBSET Block
    BY <1>10
  <2> QED BY <1>0, <2>1, <2>2, <2>3, SparesOf
<1> QED
  BY <1>8, <1>14, <1>15 DEF t, S

\* The blocks of S out of the indexes of q, and nothing else changed.
EvictedFrom(q, S, e) ==
  /\ e \in QueuePool /\ Indexed(e)
  /\ e.queue = q.queue /\ e.ref = q.ref /\ e.raised = q.raised
  /\ e.hash = [b \in Block |-> IF b \in S THEN None ELSE q.hash[b]]
  /\ e.pids = [b \in Block |-> IF b \in S THEN {} ELSE q.pids[b]]

\* Evicting a list of blocks, one after the other.
LEMMA EvictBlocksOK ==
  ASSUME NEW q \in QueuePool, Indexed(q), NEW bs \in Seq(Block)
  PROVE  EvictedFrom(q, ToSet(bs), EvictBlocks(q, bs))
<1> DEFINE N == Len(bs)
           body(f) == [n \in 0 .. N |-> IF n = 0 THEN q ELSE EvictCached(f[n - 1], bs[n])]
           evicted == CHOOSE f : f = body(f)
           X == {e \in QueuePool : Indexed(e)}
           next == [p \in Nat \X X |->
                      IF p[1] \in 1 .. N THEN EvictCached(p[2], bs[p[1]]) ELSE p[2]]
           first(n) == {bs[i] : i \in 1 .. n}
<1>0. N \in Nat /\ \A n \in 1 .. N : bs[n] \in Block
  BY Members
<1>1. EvictBlocks(q, bs) = evicted[N]
  BY DEF EvictBlocks
<1>2. next \in [Nat \X X -> X] /\ q \in X
  <2>1. ASSUME NEW p \in Nat \X X PROVE next[p] \in X
    BY <1>0, EvictCachedOK
  <2> QED BY <2>1
<1>3. PICK f \in [0 .. N -> X] : Iterates(f, N, q, next)
  <2> HIDE DEF next, X
  <2> QED BY <1>0, <1>2, Recursion
<1>4. f = body(f)
  <2>1. ASSUME NEW n \in 1 .. N PROVE f[n] = EvictCached(f[n - 1], bs[n])
    <3>1. n \in Nat /\ n - 1 \in 0 .. N /\ f[n - 1] \in X
      BY <1>0, <1>3, SMTT(40)
    <3>2. f[n] = next[<<n, f[n - 1]>>]
      BY <1>3 DEF Iterates
    <3> HIDE DEF X
    <3>3. <<n, f[n - 1]>> \in Nat \X X
      BY <3>1
    <3> QED BY <3>2, <3>3
  <2>2. f[0] = q
    BY <1>3 DEF Iterates
  <2> HIDE DEF X
  <2>3. \A n \in 0 .. N : f[n] = body(f)[n]
    BY <1>0, <2>1, <2>2
  <2>4. f = [n \in 0 .. N |-> f[n]]
    OBVIOUS
  <2> QED BY <2>3, <2>4
<1>5. evicted = body(evicted)
  BY <1>4
<1> HIDE DEF evicted
<1>6. evicted[0] = q /\ \A n \in 1 .. N : evicted[n] = EvictCached(evicted[n - 1], bs[n])
  <2>1. \A n \in 0 .. N : evicted[n] = body(evicted)[n]
    BY <1>5
  <2> QED BY <1>0, <2>1
<1> DEFINE Z == {n \in Nat : n <= N => EvictedFrom(q, first(n), evicted[n])}
<1>7. 0 \in Z
  <2>1. first(0) = {}
    OBVIOUS
  <2>2. q.hash \in [Block -> Hash \cup {None}] /\ q.pids \in [Block -> SUBSET Hash]
    BY PoolFields
  <2> HIDE DEF first
  <2> QED BY <1>6, <2>1, <2>2 DEF EvictedFrom
<1>8. ASSUME NEW n \in Nat, n \in Z PROVE n + 1 \in Z
  <2> SUFFICES ASSUME n + 1 <= N PROVE EvictedFrom(q, first(n + 1), evicted[n + 1])
    OBVIOUS
  <2> DEFINE e == evicted[n]
             b == bs[n + 1]
             g == EvictCached(e, b)
  <2>1. EvictedFrom(q, first(n), e) /\ n + 1 \in 1 .. N /\ b \in Block /\ evicted[n + 1] = g
    BY <1>0, <1>6, <1>8
  <2>2. first(n + 1) = first(n) \cup {b}
    BY <2>1
  <2> HIDE DEF e, first, g, b
  <2>3. /\ g \in QueuePool /\ Indexed(g)
        /\ g.queue = e.queue /\ g.ref = e.ref /\ g.raised = e.raised
        /\ g.hash = [e.hash EXCEPT ![b] = None] /\ g.pids = [e.pids EXCEPT ![b] = {}]
    BY <2>1, EvictCachedOK DEF EvictedFrom, g
  <2>4. g.hash = [c \in Block |-> IF c \in first(n + 1) THEN None ELSE q.hash[c]]
    BY <2>1, <2>2, <2>3, ZenonT(60) DEF EvictedFrom
  <2>5. g.pids = [c \in Block |-> IF c \in first(n + 1) THEN {} ELSE q.pids[c]]
    BY <2>1, <2>2, <2>3 DEF EvictedFrom
  <2> QED BY <2>1, <2>3, <2>4, <2>5 DEF EvictedFrom
<1>9. N \in Z
  <2> HIDE DEF Z
  <2> QED BY <1>0, <1>7, <1>8, NumberInduction
<1>10. first(N) = ToSet(bs)
  BY <1>0
<1> QED
  BY <1>0, <1>1, <1>9, <1>10

\* In t, x has got the new blocks bs.
Allocated(q, hold, B, x, n, t, bs) ==
  LET h2 == Regrip(hold, x, hold[x] \cup ToSet(bs))
  IN  /\ bs \in Queue(Block) /\ Len(bs) = n /\ ToSet(bs) \subseteq B
      /\ \A b \in ToSet(bs) : \A y \in Holder : b \notin hold[y]
      /\ PoolOK(t, h2, B) /\ Spares(q, hold, t, h2, x)
      /\ \A b \in ToSet(bs) : t.hash[b] = None /\ t.pids[b] = {}
      /\ \A b \in Block \ ToSet(bs) : t.hash[b] = q.hash[b] /\ t.pids[b] = q.pids[b]
      /\ ToSet(t.queue) = ToSet(q.queue) \ ToSet(bs)
      /\ Len(t.queue) = Len(q.queue) - n

\* x gets the first blocks of the queue, out of all indexes.
LEMMA AllocatePool ==
  ASSUME NEW q, NEW hold, NEW B \in SUBSET Block, NEW x \in Holder, PoolOK(q, hold, B),
         NEW n \in Nat, n <= NumFree(q)
  PROVE  Allocated(q, hold, B, x, n, GetNewBlocks(q, n), NewBlocks(q, n))
<1> DEFINE t  == GetNewBlocks(q, n)
           bs == NewBlocks(q, n)
           S  == hold[x] \cup ToSet(bs)
           h2 == Regrip(hold, x, S)
           rest == SubSeq(q.queue, n + 1, Len(q.queue))
           e == EvictBlocks(q, bs)
           ref == [b \in Block |-> q.ref[b] + Times(bs, b)]
<1>0. /\ q \in QueuePool /\ q.raised = FALSE /\ Indexed(q) /\ hold \in [Holder -> SUBSET Block]
      /\ q.queue \in Queue(Block) /\ q.ref \in [Block -> Int]
      /\ q.hash \in [Block -> Hash \cup {None}] /\ q.pids \in [Block -> SUBSET Hash]
      /\ ToSet(q.queue) = {b \in B : q.ref[b] = 0}
      /\ \A y \in Holder : hold[y] \subseteq B
      /\ \A b \in Block \ B : q.hash[b] = None /\ q.pids[b] = {}
      /\ \A b \in Block : q.ref[b] \in Nat
      /\ \A y \in Holder : hold[y] \cap ToSet(q.queue) = {}
  BY PoolFacts
<1>1. n \in 0 .. Len(q.queue) /\ Len(q.queue) \in Nat
  <2>1. Len(q.queue) \in Nat
    BY <1>0, LenProperties DEF Queue
  <2> QED BY <2>1 DEF NumFree
<1>2. bs = SubSeq(q.queue, 1, n)
  BY <1>1 DEF NewBlocks, Min
<1> HIDE DEF bs, rest
<1>3. /\ bs \in Queue(Block) /\ rest \in Queue(Block) /\ Len(bs) = n
      /\ q.queue = bs \o rest
      /\ ToSet(bs) \cap ToSet(rest) = {} /\ ToSet(bs) \cup ToSet(rest) = ToSet(q.queue)
  <2> DEFINE queue == q.queue
  <2>1. queue \in Queue(Block) /\ n \in 0 .. Len(queue)
    BY <1>0, <1>1
  <2>2. bs = SubSeq(queue, 1, n) /\ rest = SubSeq(queue, n + 1, Len(queue))
    BY <1>2 DEF rest
  <2> HIDE DEF queue
  <2>3. /\ bs \in Queue(Block) /\ rest \in Queue(Block) /\ Len(bs) = n /\ queue = bs \o rest
        /\ ToSet(bs) \cap ToSet(rest) = {} /\ ToSet(bs) \cup ToSet(rest) = ToSet(queue)
    BY <2>1, <2>2, QueueSplit, ZenonT(60)
  <2> QED BY <2>3 DEF queue
<1>4. bs \in Seq(Block) /\ rest \in Seq(Block) /\ Len(rest) = Len(q.queue) - n
  <2>1. bs \in Seq(Block) /\ rest \in Seq(Block)
    BY <1>3 DEF Queue
  <2>2. Len(bs \o rest) = Len(bs) + Len(rest) /\ Len(rest) \in Nat
    BY <2>1, ConcatProperties, LenProperties
  <2> QED BY <1>1, <1>3, <2>1, <2>2
<1>5. EvictedFrom(q, ToSet(bs), e)
  BY <1>0, <1>4, EvictBlocksOK
<1> HIDE DEF e
<1>6. /\ e \in QueuePool /\ Indexed(e) /\ e.raised = FALSE
      /\ \A b \in ToSet(bs) \cap Block : e.hash[b] = None /\ e.pids[b] = {}
      /\ \A b \in Block \ ToSet(bs) : e.hash[b] = q.hash[b] /\ e.pids[b] = q.pids[b]
  BY <1>0, <1>5 DEF EvictedFrom
<1>7. ToSet(bs) \subseteq B /\ \A b \in ToSet(bs) : q.ref[b] = 0
  BY <1>0, <1>3
<1>8. \A b \in Block : Times(bs, b) = IF b \in ToSet(bs) THEN 1 ELSE 0
  BY <1>3, TimesOnce
<1>9. /\ ref \in [Block -> Int]
      /\ \A b \in Block : ref[b] = q.ref[b] + (IF b \in ToSet(bs) THEN 1 ELSE 0)
  BY <1>0, <1>8
<1>10. t = [e EXCEPT !.queue = rest, !.ref = ref, !.raised = FALSE]
  <2>1. t = [e EXCEPT !.queue = rest, !.ref = ref,
                      !.raised = @ \/ Len(bs) < n \/ \E b \in ToSet(bs) : q.ref[b] # 0]
    BY DEF GetNewBlocks, e, bs, rest
  <2>2. (e.raised \/ Len(bs) < n \/ \E b \in ToSet(bs) : q.ref[b] # 0) = FALSE
    BY <1>3, <1>6, <1>7
  <2> HIDE DEF t, ref
  <2> QED BY <1>6, <2>1, <2>2 DEF QueuePool
<1> HIDE DEF t, ref
<1>11. /\ t \in QueuePool /\ t.queue = rest /\ t.ref = ref /\ t.raised = FALSE
       /\ SameIndexes(e, t)
  BY <1>3, <1>6, <1>9, <1>10 DEF SameIndexes, QueuePool
<1>12. ToSet(rest) = ToSet(q.queue) \ ToSet(bs) /\ ToSet(rest) = {b \in B : ref[b] = 0}
  <2>1. ToSet(rest) = ToSet(q.queue) \ ToSet(bs)
    BY <1>3
  <2>2. \A b \in B : b \in ToSet(rest) <=> ref[b] = 0
    BY <1>0, <1>7, <1>9, <2>1
  <2>3. ToSet(rest) \subseteq B
    BY <1>0, <2>1
  <2> QED BY <2>1, <2>2, <2>3
<1>13. S \in SUBSET B
  BY <1>0, <1>7
<1>14. \A b \in ToSet(bs) : \A y \in Holder : b \notin hold[y]
  BY <1>0, <1>3
<1>15. \A b \in Block : t.ref[b] = q.ref[b] + (IF b \in S THEN 1 ELSE 0)
                                            - (IF b \in hold[x] THEN 1 ELSE 0)
  BY <1>0, <1>9, <1>11, <1>14
<1>16. /\ \A b \in ToSet(bs) : t.hash[b] = None /\ t.pids[b] = {}
       /\ \A b \in Block \ ToSet(bs) : t.hash[b] = q.hash[b] /\ t.pids[b] = q.pids[b]
  BY <1>6, <1>7, <1>11 DEF SameIndexes
<1>17. \A b \in Block \ B : t.hash[b] = None /\ t.pids[b] = {}
  BY <1>0, <1>7, <1>16
<1> HIDE DEF S
<1>18. Counted(t, h2, B) /\ h2 \in [Holder -> SUBSET Block]
  BY <1>11, <1>12, <1>13, <1>15, <1>17, CountedAgain
<1>19. PoolOK(t, h2, B)
  BY <1>6, <1>11, <1>18 DEF PoolOK, Indexed, SameIndexes, HashedIn
<1>20. Spares(q, hold, t, h2, x)
  <2>1. \A b \in S \ hold[x] : \A y \in Holder : b \notin hold[y]
    BY <1>14 DEF S
  <2>2. \A y \in Holder \ {x} : \A b \in hold[y] : t.hash[b] = q.hash[b] /\ t.pids[b] = q.pids[b]
    BY <1>0, <1>14, <1>16
  <2>3. S \in SUBSET Block
    BY <1>13
  <2> QED BY <1>0, <2>1, <2>2, <2>3, SparesOf
<1> QED
  BY <1>3, <1>4, <1>7, <1>11, <1>12, <1>14, <1>16, <1>19, <1>20 DEF Allocated, t, S, bs

\* Holder x keeps its blocks.
LEMMA SameGrip ==
  ASSUME NEW hold \in [Holder -> SUBSET Block], NEW x \in Holder
  PROVE  Regrip(hold, x, hold[x]) = hold
BY DEF Regrip

\* The counts of a pool that only changes its indexes.
LEMMA CountedSame ==
  ASSUME NEW q, NEW q2, NEW hold, NEW B \in SUBSET Block, PoolOK(q, hold, B),
         q2 \in QueuePool, q2.ref = q.ref, q2.queue = q.queue,
         \A b \in Block \ B : q2.hash[b] = None /\ q2.pids[b] = {}
  PROVE  Counted(q2, hold, B)
BY DEF PoolOK, Counted

\* A block with the hash of a Mamba state is evicted, or one without.
LEMMA EvictPool ==
  ASSUME NEW q, NEW hold, NEW B \in SUBSET Block, NEW x \in Holder, PoolOK(q, hold, B),
         NEW b \in Block, ~HashedIn(q, b, "attn")
  PROVE  LET t == EvictBlocks(q, <<b>>)
         IN  /\ PoolOK(t, hold, B) /\ Spares(q, hold, t, hold, x)
             /\ t.hash = [q.hash EXCEPT ![b] = None] /\ t.pids = [q.pids EXCEPT ![b] = {}]
<1> DEFINE t == EvictBlocks(q, <<b>>)
<1>0. /\ q \in QueuePool /\ q.raised = FALSE /\ Indexed(q) /\ hold \in [Holder -> SUBSET Block]
      /\ q.hash \in [Block -> Hash \cup {None}] /\ q.pids \in [Block -> SUBSET Hash]
      /\ \A c \in Block \ B : q.hash[c] = None /\ q.pids[c] = {}
  BY PoolFacts
<1>1. <<b>> \in Seq(Block) /\ ToSet(<<b>>) = {b}
  BY QueueOne DEF Queue
<1>2. EvictedFrom(q, {b}, t)
  BY <1>0, <1>1, EvictBlocksOK
<1> HIDE DEF t
<1>3. /\ t \in QueuePool /\ Indexed(t) /\ t.queue = q.queue /\ t.ref = q.ref /\ ~t.raised
      /\ t.hash = [q.hash EXCEPT ![b] = None] /\ t.pids = [q.pids EXCEPT ![b] = {}]
  BY <1>0, <1>2 DEF EvictedFrom
<1>4. \A c \in Block \ B : t.hash[c] = None /\ t.pids[c] = {}
  BY <1>0, <1>3
<1>5. PoolOK(t, hold, B)
  <2>1. Counted(t, hold, B)
    BY <1>3, <1>4, CountedSame
  <2> QED BY <1>0, <1>3, <2>1 DEF PoolOK
<1>6. Spares(q, hold, t, hold, x)
  <2>1. ASSUME NEW y \in Holder \ {x}, NEW c \in hold[y]
        PROVE  /\ Own(q, hold, y, c) => Own(t, hold, y, c)
               /\ HashedIn(q, c, "attn") => t.hash[c] = q.hash[c]
               /\ (q.hash[c] = None \/ HashedIn(q, c, "mamba"))
                    => (t.hash[c] = None \/ HashedIn(t, c, "mamba"))
    <3>1. c \in Block
      BY <1>0
    <3>2. /\ t.hash[c] = IF c = b THEN None ELSE q.hash[c]
          /\ t.pids[c] = IF c = b THEN {} ELSE q.pids[c]
      BY <1>0, <1>3, <3>1
    <3> QED BY <3>2 DEF Own, HashedIn
  <2> QED BY <2>1 DEF Spares
<1> QED
  BY <1>3, <1>5, <1>6 DEF t

\* A block of x is cached under a hash: of a Mamba state, or of attention if the block is
\* x's alone and under no boundary.
LEMMA FullPool ==
  ASSUME NEW q, NEW hold, NEW B \in SUBSET Block, NEW x \in Holder, PoolOK(q, hold, B),
         NEW b \in hold[x], NEW h \in Hash, q.hash[b] = None,
         Group(h) = "mamba" \/ Own(q, hold, x, b)
  PROVE  LET t == CacheFullBlock(q, b, h)
         IN  /\ PoolOK(t, hold, B) /\ Spares(q, hold, t, hold, x)
             /\ t.hash = [q.hash EXCEPT ![b] = h] /\ t.pids = q.pids /\ t.queue = q.queue
<1> DEFINE t == CacheFullBlock(q, b, h)
           list == Append(q.cached[h], b)
<1>0. /\ q \in QueuePool /\ q.raised = FALSE /\ Indexed(q) /\ hold \in [Holder -> SUBSET Block]
      /\ q.hash \in [Block -> Hash \cup {None}] /\ q.pids \in [Block -> SUBSET Hash]
      /\ \A c \in Block \ B : q.hash[c] = None /\ q.pids[c] = {}
      /\ \A y \in Holder : hold[y] \subseteq B
  BY PoolFacts
<1>1. /\ b \in B /\ b \in Block /\ None \notin Hash
      /\ q.cached \in [Hash -> Queue(Block)] /\ q.cached[h] \in Queue(Block)
      /\ q.cached[h] \in Seq(Block)
  BY <1>0, PoolFields, QueueAssumption
<1>2. \A c \in Block, g \in Hash : c \in ToSet(q.cached[g]) <=> q.hash[c] = g
  BY <1>0 DEF Indexed
<1>3. b \notin ToSet(q.cached[h]) /\ ~Contains(q.cached[h], b)
  BY <1>1, <1>2, ContainsMember
<1>4. list \in Queue(Block) /\ ToSet(list) = ToSet(q.cached[h]) \cup {b}
  BY <1>1, <1>3, QueueAppend
<1>5. t = [q EXCEPT !.hash[b] = h, !.raised = FALSE, !.cached[h] = list]
  BY <1>0, <1>3 DEF CacheFullBlock, QueuePool
<1> HIDE DEF t, list
<1>6. /\ t.queue = q.queue /\ t.ref = q.ref /\ t.raised = FALSE
      /\ t.hash = [q.hash EXCEPT ![b] = h] /\ t.pids = q.pids /\ t.partial = q.partial
      /\ t.cached = [q.cached EXCEPT ![h] = list]
  BY <1>0, <1>5 DEF QueuePool
<1>7. t \in QueuePool
  <2>1. t.cached \in [Hash -> Queue(Block)]
    BY <1>1, <1>4, <1>6
  <2>2. t.hash \in [Block -> Hash \cup {None}]
    BY <1>0, <1>6
  <2> QED BY <1>0, <1>5, <1>6, <2>1, <2>2 DEF QueuePool
<1>8. \A c \in Block : t.hash[c] = IF c = b THEN h ELSE q.hash[c]
  BY <1>0, <1>6
<1>9. Indexed(t)
  <2>1. ASSUME NEW c \in Block, NEW g \in Hash PROVE c \in ToSet(t.cached[g]) <=> t.hash[c] = g
    <3>1. CASE g = h
      <4>1. t.cached[g] = list
        BY <1>1, <1>6, <3>1
      <4> QED BY <1>1, <1>2, <1>4, <1>8, <3>1, <4>1
    <3>2. CASE g # h
      <4>1. t.cached[g] = q.cached[g]
        BY <1>1, <1>6, <3>2
      <4> QED BY <1>1, <1>2, <1>8, <3>2, <4>1
    <3> QED BY <3>1, <3>2
  <2>2. ASSUME NEW c \in Block, NEW g \in t.pids[c], HashedIn(t, c, "attn")
        PROVE  Place(t.hash[c]) = (Place(g) \div A + 1) * A
    <3>1. CASE c = b
      <4>1. Group(h) = "attn" /\ t.pids[b] # {}
        BY <1>1, <1>8, <2>2, <3>1 DEF HashedIn
      <4> QED BY <1>6, <4>1 DEF Own
    <3>2. CASE c # b
      <4>1. HashedIn(q, c, "attn") /\ g \in q.pids[c] /\ t.hash[c] = q.hash[c]
        BY <1>6, <1>8, <2>2, <3>2 DEF HashedIn
      <4> QED BY <1>0, <4>1 DEF Indexed
    <3> QED BY <3>1, <3>2
  <2>3. \A g \in Hash : t.partial[g] # None => g \in t.pids[t.partial[g].block]
    BY <1>0, <1>6 DEF Indexed
  <2> QED BY <2>1, <2>2, <2>3 DEF Indexed
<1>10. PoolOK(t, hold, B)
  <2>1. \A c \in Block \ B : t.hash[c] = None /\ t.pids[c] = {}
    BY <1>0, <1>1, <1>6, <1>8
  <2>2. Counted(t, hold, B)
    BY <1>6, <1>7, <2>1, CountedSame
  <2> QED BY <1>0, <1>6, <1>7, <1>9, <2>2 DEF PoolOK
<1>11. Spares(q, hold, t, hold, x)
  <2>1. ASSUME NEW y \in Holder \ {x}, NEW c \in hold[y]
        PROVE  /\ Own(q, hold, y, c) => Own(t, hold, y, c)
               /\ HashedIn(q, c, "attn") => t.hash[c] = q.hash[c]
               /\ (q.hash[c] = None \/ HashedIn(q, c, "mamba"))
                    => (t.hash[c] = None \/ HashedIn(t, c, "mamba"))
    <3>1. c \in Block
      BY <1>0
    <3>2. CASE c = b
      <4>1. ~Own(q, hold, y, c) /\ ~Own(q, hold, x, c)
        BY <3>2 DEF Own
      <4>2. ~HashedIn(q, c, "attn")
        BY <3>2 DEF HashedIn
      <4>3. HashedIn(t, c, "mamba")
        BY <1>1, <1>8, <3>2, <4>1 DEF HashedIn
      <4> QED BY <4>1, <4>2, <4>3
    <3>3. CASE c # b
      BY <1>6, <1>8, <3>1, <3>3 DEF Own, HashedIn
    <3> QED BY <3>2, <3>3
  <2> QED BY <2>1 DEF Spares
<1> QED
  BY <1>6, <1>10, <1>11 DEF t

\* A block of x is cached under a boundary inside it.
LEMMA PartialPool ==
  ASSUME NEW q, NEW hold, NEW B \in SUBSET Block, NEW x \in Holder, PoolOK(q, hold, B),
         NEW b \in hold[x], NEW h \in Hash, NEW valid \in Nat,
         HashedIn(q, b, "attn") => Place(q.hash[b]) = (Place(h) \div A + 1) * A
  PROVE  LET t == CachePartialBlock(q, b, valid, h)
         IN  PoolOK(t, hold, B) /\ Spares(q, hold, t, hold, x)
<1> DEFINE t == CachePartialBlock(q, b, valid, h)
           entry == [block |-> b, valid |-> valid]
           old   == q.partial[h]
           rest  == [c \in Block |-> IF old # None /\ c = old.block
                                     THEN q.pids[c] \ {h} ELSE q.pids[c]]
           pids  == [rest EXCEPT ![b] = @ \cup {h}]
<1>0. /\ q \in QueuePool /\ q.raised = FALSE /\ Indexed(q) /\ hold \in [Holder -> SUBSET Block]
      /\ q.hash \in [Block -> Hash \cup {None}] /\ q.pids \in [Block -> SUBSET Hash]
      /\ \A c \in Block \ B : q.hash[c] = None /\ q.pids[c] = {}
      /\ \A y \in Holder : hold[y] \subseteq B
  BY PoolFacts
<1>1. b \in B /\ b \in Block /\ q.partial \in [Hash -> Entry \cup {None}]
  BY <1>0, PoolFields
<1>2. CASE old = entry
  <2>1. t = q
    BY <1>2 DEF CachePartialBlock
  <2>2. Spares(q, hold, q, hold, x)
    BY DEF Spares
  <2> QED BY <2>1, <2>2
<1>3. CASE old # entry
  <2>1. t = [q EXCEPT !.partial[h] = entry, !.pids = pids]
    BY <1>3 DEF CachePartialBlock
  <2> DEFINE gone(c) == IF old # None /\ c = old.block THEN {h} ELSE {}
  <2>2. /\ pids \in [Block -> SUBSET Hash]
        /\ \A c \in Block : pids[c] = IF c = b THEN (q.pids[c] \ gone(c)) \cup {h}
                                      ELSE q.pids[c] \ gone(c)
    BY <1>0, <1>1
  <2>3. entry \in Entry /\ entry.block = b
    BY <1>1 DEF Entry
  <2>4. \A c \in Block : gone(c) = {} \/ (gone(c) = {h} /\ old # None /\ c = old.block)
    OBVIOUS
  <2> HIDE DEF pids, entry, gone, t, old
  <2>5. /\ t.queue = q.queue /\ t.ref = q.ref /\ t.raised = FALSE
        /\ t.hash = q.hash /\ t.cached = q.cached /\ t.pids = pids
        /\ t.partial = [q.partial EXCEPT ![h] = entry]
    BY <1>0, <2>1 DEF QueuePool
  <2>6. t \in QueuePool
    <3>1. t.partial \in [Hash -> Entry \cup {None}]
      BY <1>1, <2>3, <2>5
    <3> QED BY <1>0, <2>1, <2>2, <2>5, <3>1 DEF QueuePool
  <2>7. Indexed(t)
    <3>1. ASSUME NEW g \in Hash, t.partial[g] # None PROVE g \in t.pids[t.partial[g].block]
      <4>1. CASE g = h
        <5>1. t.partial[g] = entry
          BY <1>1, <2>5, <4>1
        <5> QED BY <1>1, <2>2, <2>3, <2>5, <4>1, <5>1
      <4>2. CASE g # h
        <5>1. t.partial[g] = q.partial[g]
          BY <1>1, <2>5, <4>2
        <5>2. q.partial[g].block \in Block /\ g \in q.pids[q.partial[g].block]
          BY <1>0, <1>1, <3>1, <5>1, PoolFields DEF Indexed
        <5>3. g \notin gone(q.partial[g].block)
          BY <2>4, <4>2, <5>2
        <5> QED BY <2>2, <2>5, <5>1, <5>2, <5>3
      <4> QED BY <4>1, <4>2
    <3>2. ASSUME NEW c \in Block, NEW g \in t.pids[c], HashedIn(t, c, "attn")
          PROVE  Place(t.hash[c]) = (Place(g) \div A + 1) * A
      <4>1. HashedIn(q, c, "attn") /\ t.hash[c] = q.hash[c]
        BY <2>5, <3>2 DEF HashedIn
      <4>2. g \in q.pids[c] \/ (c = b /\ g = h)
        BY <2>2, <2>5
      <4>3. CASE g \in q.pids[c]
        BY <1>0, <4>1, <4>3 DEF Indexed
      <4>4. CASE c = b /\ g = h
        BY <4>1, <4>4
      <4> QED BY <4>2, <4>3, <4>4
    <3>3. \A c \in Block, g \in Hash : c \in ToSet(t.cached[g]) <=> t.hash[c] = g
      BY <1>0, <2>5 DEF Indexed
    <3> QED BY <3>1, <3>2, <3>3 DEF Indexed
  <2>8. PoolOK(t, hold, B)
    <3>1. \A c \in Block \ B : t.hash[c] = None /\ t.pids[c] = {}
      BY <1>0, <1>1, <2>2, <2>5
    <3>2. Counted(t, hold, B)
      BY <2>5, <2>6, <3>1, CountedSame
    <3> QED BY <1>0, <2>5, <2>6, <2>7, <3>2 DEF PoolOK
  <2>9. Spares(q, hold, t, hold, x)
    <3>1. ASSUME NEW y \in Holder \ {x}, NEW c \in hold[y]
          PROVE  /\ Own(q, hold, y, c) => Own(t, hold, y, c)
                 /\ HashedIn(q, c, "attn") => t.hash[c] = q.hash[c]
                 /\ (q.hash[c] = None \/ HashedIn(q, c, "mamba"))
                      => (t.hash[c] = None \/ HashedIn(t, c, "mamba"))
      <4>1. c \in Block
        BY <1>0
      <4>2. ASSUME Own(q, hold, y, c) PROVE Own(t, hold, y, c)
        <5>1. c # b
          BY <4>2 DEF Own
        <5>2. t.pids[c] \subseteq q.pids[c]
          BY <2>2, <2>5, <4>1, <5>1
        <5> QED BY <2>5, <4>2, <5>2 DEF Own
      <4> QED BY <2>5, <4>2 DEF HashedIn
    <3> QED BY <3>1 DEF Spares
  <2> QED BY <2>8, <2>9 DEF t
<1> QED
  BY <1>2, <1>3

\* The indexes are emptied, if nobody holds a block.
LEMMA ResetPool ==
  ASSUME NEW q, NEW hold, NEW B \in SUBSET Block, PoolOK(q, hold, B)
  PROVE  LET t == ResetPrefixCache(q)
         IN  /\ PoolOK(t, hold, B) /\ t.queue = q.queue
             /\ \A x \in Holder : Spares(q, hold, t, hold, x)
<1> DEFINE t == ResetPrefixCache(q)
<1>0. /\ q \in QueuePool /\ q.raised = FALSE /\ hold \in [Holder -> SUBSET Block]
      /\ q.queue \in Queue(Block)
      /\ ToSet(q.queue) = {b \in B : q.ref[b] = 0}
      /\ \A y \in Holder : hold[y] \cap ToSet(q.queue) = {}
  BY PoolFacts
<1>1. CASE NumFree(q) # Cardinality(Block)
  <2>1. t = q
    BY <1>1 DEF ResetPrefixCache
  <2> QED BY <2>1 DEF Spares
<1>2. CASE NumFree(q) = Cardinality(Block)
  <2>1. ToSet(q.queue) = Block
    <3>1. Cardinality(ToSet(q.queue)) = Cardinality(Block)
      BY <1>0, <1>2, QueueSize DEF NumFree
    <3>2. ToSet(q.queue) \in SUBSET Block
      BY <1>0
    <3> HIDE DEF t
    <3> QED BY <3>1, <3>2, FS_Subset, QueueAssumption
  <2>2. \A y \in Holder : hold[y] = {}
    BY <1>0, <2>1
  <2>3. t = [q EXCEPT !.cached  = [h \in Hash |-> <<>>],
                      !.partial = [h \in Hash |-> None],
                      !.pids    = [b \in Block |-> {}],
                      !.hash    = [b \in Block |-> None]]
    BY <1>2 DEF ResetPrefixCache
  <2> HIDE DEF t
  <2>4. /\ t.cached = [h \in Hash |-> <<>>] /\ t.partial = [h \in Hash |-> None]
        /\ t.pids = [b \in Block |-> {}] /\ t.hash = [b \in Block |-> None]
        /\ t.queue = q.queue /\ t.ref = q.ref /\ t.raised = FALSE
    BY <1>0, <2>3 DEF QueuePool
  <2>5. t \in QueuePool
    <3>1. t.cached \in [Hash -> Queue(Block)]
      BY <2>4, QueueEmpty
    <3> QED BY <1>0, <2>3, <2>4, <3>1 DEF QueuePool
  <2>6. Indexed(t)
    <3>1. \A b \in Block, h \in Hash : b \in ToSet(t.cached[h]) <=> t.hash[b] = h
      <4>1. ToSet(<<>>) = {} /\ None \notin Hash
        BY QueueEmpty, QueueAssumption
      <4> QED BY <2>4, <4>1
    <3> QED BY <2>4, <3>1 DEF Indexed
  <2>7. PoolOK(t, hold, B)
    <3>1. Counted(t, hold, B)
      BY <2>4, <2>5, CountedSame
    <3> QED BY <1>0, <2>4, <2>5, <2>6, <3>1 DEF PoolOK
  <2>8. \A x \in Holder : Spares(q, hold, t, hold, x)
    BY <2>2 DEF Spares
  <2> QED BY <2>4, <2>7, <2>8 DEF t
<1> QED
  BY <1>1, <1>2

-----------------------------------------------------------------------------
(* Steps of one table.                                                     *)

AttnOf(r) == <<"attn", r>>
MambaOf(r) == <<"mamba", r>>

WithMamba(c, r, q, m) == [c EXCEPT !.pool = q, !.mamba[r] = m]
WithAttn(c, r, q, a) == [c EXCEPT !.pool = q, !.attn[r] = a]

\* No block of the pool t is found under more boundaries than in q.
Barer(q, t) == \A b \in Block : t.pids[b] \subseteq q.pids[b]

\* A pool with the same partial entries is one.
LEMMA SameBarer ==
  ASSUME NEW q, NEW t, t.pids = q.pids
  PROVE  Barer(q, t)
BY DEF Barer

\* What a step of one table leaves alone.
OnlyMamba(c, c2, r) ==
  /\ c2.gold = c.gold /\ c2.attn = c.attn /\ c2.pend = c.pend
  /\ c2.fresh = c.fresh /\ c2.copies = c.copies /\ Barer(c.pool, c2.pool)
  /\ \A s \in Req \ {r} : c2.mamba[s] = c.mamba[s]

OnlyAttn(c, c2, r) ==
  /\ c2.gold = c.gold /\ c2.mamba = c.mamba /\ c2.pend = c.pend
  /\ c2.fresh = c.fresh /\ c2.copies = c.copies
  /\ \A s \in Req \ {r} : c2.attn[s] = c.attn[s]

\* The fields of a cache.
LEMMA CacheFields ==
  ASSUME NEW c \in Cache
  PROVE  /\ c.gold \in BOOLEAN /\ c.pool \in QueuePool
         /\ c.mamba \in [Req -> MambaTable] /\ c.attn \in [Req -> AttnTable]
         /\ c.pend \in [Req -> PartialHit \cup {None}]
         /\ c.fresh \in Seq(Block) /\ c.copies \in Seq(Copy)
         /\ \A r \in Req : /\ c.mamba[r] \in MambaTable /\ c.attn[r] \in AttnTable
                           /\ AttnOf(r) \in Holder /\ MambaOf(r) \in Holder
                           /\ AttnOf(r) # MambaOf(r)
BY DEF Cache, AttnOf, MambaOf, Holder, Groups

\* Every holder is a table of a request.
LEMMA HolderCases ==
  ASSUME NEW x \in Holder
  PROVE  \E r \in Req : x = AttnOf(r) \/ x = MambaOf(r)
BY DEF Holder, Groups, AttnOf, MambaOf

\* What the tables of a request hold.
LEMMA AttnHolds ==
  ASSUME NEW c, NEW r \in Req
  PROVE  Holding(c)[AttnOf(r)] = ToSet(c.attn[r].blocks) \cup ToSet(c.attn[r].pinned)
BY DEF Holder, Groups, AttnOf, Holding, HeldBy

\* What the Mamba table of a request holds: its blocks, but for the null block.
LEMMA MambaHolds ==
  ASSUME NEW c, NEW r \in Req
  PROVE  Holding(c)[MambaOf(r)] = ToSet(c.mamba[r].blocks) \ {Null}
BY DEF Holder, Groups, MambaOf, Holding, HeldBy

\* When the tables of a request are in order.
LEMMA AttnTableOK ==
  ASSUME NEW c, NEW r \in Req
  PROVE  TableOK(c, AttnOf(r)) <=> AttnOK(c.pool, Holding(c), r, c.attn[r])
BY DEF AttnOf, TableOK

\* The same for the Mamba table.
LEMMA MambaTableOK ==
  ASSUME NEW c, NEW r \in Req
  PROVE  TableOK(c, MambaOf(r)) <=> MambaOK(c.pool, Holding(c), r, c.mamba[r])
BY DEF MambaOf, TableOK

\* A step of the Mamba table of r.
LEMMA WithMambaOK ==
  ASSUME NEW c \in Cache, NEW r \in Req, NEW q \in QueuePool, NEW m \in MambaTable,
         Barer(c.pool, q)
  PROVE  LET c2 == WithMamba(c, r, q, m)
         IN  /\ c2 \in Cache /\ OnlyMamba(c, c2, r)
             /\ c2.pool = q /\ c2.mamba[r] = m
             /\ Holding(c2) = Regrip(Holding(c), MambaOf(r), ToSet(m.blocks) \ {Null})
<1> DEFINE c2 == WithMamba(c, r, q, m)
<1>0. c.mamba \in [Req -> MambaTable]
  BY DEF Cache
<1>1. /\ c2.gold = c.gold /\ c2.attn = c.attn /\ c2.pend = c.pend
      /\ c2.fresh = c.fresh /\ c2.copies = c.copies
      /\ c2.pool = q /\ c2.mamba = [c.mamba EXCEPT ![r] = m]
  BY DEF Cache, WithMamba
<1>2. c2 \in Cache
  <2>1. [c.mamba EXCEPT ![r] = m] \in [Req -> MambaTable]
    BY <1>0
  <2> QED BY <1>1, <2>1 DEF Cache, WithMamba
<1>3. c2.mamba[r] = m /\ \A s \in Req \ {r} : c2.mamba[s] = c.mamba[s]
  BY <1>0, <1>1
<1> HIDE DEF c2
<1>4. Holding(c2) = Regrip(Holding(c), MambaOf(r), ToSet(m.blocks) \ {Null})
  <2> DEFINE h2 == Regrip(Holding(c), MambaOf(r), ToSet(m.blocks) \ {Null})
  <2>0. MambaOf(r) \in Holder
    BY DEF Holder, Groups, MambaOf
  <2>1. ASSUME NEW x \in Holder PROVE Holding(c2)[x] = h2[x]
    <3>1. PICK s \in Req : x = AttnOf(s) \/ x = MambaOf(s)
      BY HolderCases
    <3>2. h2[x] = IF x = MambaOf(r) THEN ToSet(m.blocks) \ {Null} ELSE Holding(c)[x]
      BY <2>0 DEF Regrip, Holding
    <3>3. CASE x = AttnOf(s)
      <4>1. x # MambaOf(r)
        BY <3>3 DEF AttnOf, MambaOf
      <4>2. Holding(c2)[AttnOf(s)] = Holding(c)[AttnOf(s)]
        BY <1>1 DEF Holding, HeldBy, Holder, Groups, AttnOf, MambaOf
      <4> QED BY <3>2, <3>3, <4>1, <4>2
    <3>4. CASE x = MambaOf(s)
      <4>1. x = MambaOf(r) <=> s = r
        BY <3>4 DEF MambaOf
      <4>2. CASE s = r
        <5>1. Holding(c2)[MambaOf(r)] = ToSet(m.blocks) \ {Null}
          BY <1>3, AttnHolds, MambaHolds
        <5> QED BY <3>2, <3>4, <4>2, <5>1
      <4>3. CASE s # r
        <5>1. Holding(c2)[MambaOf(s)] = Holding(c)[MambaOf(s)]
          BY <1>3, <4>3 DEF Holding, HeldBy, Holder, Groups, AttnOf, MambaOf
        <5> QED BY <3>2, <3>4, <4>1, <4>3, <5>1
      <4> QED BY <4>2, <4>3
    <3> QED BY <3>1, <3>3, <3>4
  <2>2. /\ Holding(c2) = [x \in Holder |-> Holding(c2)[x]]
        /\ h2 = [x \in Holder |-> h2[x]]
    BY DEF Holding, Regrip
  <2> HIDE DEF h2
  <2>3. Holding(c2) = h2
    BY <2>1, <2>2
  <2> QED BY <2>3 DEF h2
<1> QED
  BY <1>1, <1>2, <1>3, <1>4 DEF OnlyMamba, c2

\* A step of the attention table of r.
LEMMA WithAttnOK ==
  ASSUME NEW c \in Cache, NEW r \in Req, NEW q \in QueuePool, NEW a \in AttnTable
  PROVE  LET c2 == WithAttn(c, r, q, a)
         IN  /\ c2 \in Cache /\ OnlyAttn(c, c2, r)
             /\ c2.pool = q /\ c2.attn[r] = a
             /\ Holding(c2) = Regrip(Holding(c), AttnOf(r), ToSet(a.blocks) \cup ToSet(a.pinned))
<1> DEFINE c2 == WithAttn(c, r, q, a)
<1>0. c.attn \in [Req -> AttnTable]
  BY DEF Cache
<1>1. /\ c2.gold = c.gold /\ c2.mamba = c.mamba /\ c2.pend = c.pend
      /\ c2.fresh = c.fresh /\ c2.copies = c.copies
      /\ c2.pool = q /\ c2.attn = [c.attn EXCEPT ![r] = a]
  BY DEF Cache, WithAttn
<1>2. c2 \in Cache
  <2>1. [c.attn EXCEPT ![r] = a] \in [Req -> AttnTable]
    BY <1>0
  <2> QED BY <1>1, <2>1 DEF Cache, WithAttn
<1>3. c2.attn[r] = a /\ \A s \in Req \ {r} : c2.attn[s] = c.attn[s]
  BY <1>0, <1>1
<1> HIDE DEF c2
<1>4. Holding(c2) = Regrip(Holding(c), AttnOf(r), ToSet(a.blocks) \cup ToSet(a.pinned))
  <2> DEFINE h2 == Regrip(Holding(c), AttnOf(r), ToSet(a.blocks) \cup ToSet(a.pinned))
  <2>0. AttnOf(r) \in Holder
    BY DEF Holder, Groups, AttnOf
  <2>1. ASSUME NEW x \in Holder PROVE Holding(c2)[x] = h2[x]
    <3>1. PICK s \in Req : x = AttnOf(s) \/ x = MambaOf(s)
      BY HolderCases
    <3>2. h2[x] = IF x = AttnOf(r) THEN ToSet(a.blocks) \cup ToSet(a.pinned) ELSE Holding(c)[x]
      BY <2>0 DEF Regrip, Holding
    <3>3. CASE x = MambaOf(s)
      <4>1. x # AttnOf(r)
        BY <3>3 DEF AttnOf, MambaOf
      <4>2. Holding(c2)[MambaOf(s)] = Holding(c)[MambaOf(s)]
        BY <1>1 DEF Holding, HeldBy, Holder, Groups, AttnOf, MambaOf
      <4> QED BY <3>2, <3>3, <4>1, <4>2
    <3>4. CASE x = AttnOf(s)
      <4>1. x = AttnOf(r) <=> s = r
        BY <3>4 DEF AttnOf
      <4>2. CASE s = r
        <5>1. Holding(c2)[AttnOf(r)] = ToSet(a.blocks) \cup ToSet(a.pinned)
          BY <1>3, AttnHolds, MambaHolds
        <5> QED BY <3>2, <3>4, <4>2, <5>1
      <4>3. CASE s # r
        <5>1. Holding(c2)[AttnOf(s)] = Holding(c)[AttnOf(s)]
          BY <1>3, <4>3 DEF Holding, HeldBy, Holder, Groups, AttnOf, MambaOf
        <5> QED BY <3>2, <3>4, <4>1, <4>3, <5>1
      <4> QED BY <4>2, <4>3
    <3> QED BY <3>1, <3>3, <3>4
  <2>2. /\ Holding(c2) = [x \in Holder |-> Holding(c2)[x]]
        /\ h2 = [x \in Holder |-> h2[x]]
    BY DEF Holding, Regrip
  <2> HIDE DEF h2
  <2>3. Holding(c2) = h2
    BY <2>1, <2>2
  <2> QED BY <2>3 DEF h2
<1> QED
  BY <1>1, <1>2, <1>3, <1>4 DEF OnlyAttn, c2

\* A table in order stays so when another holder moves.
LEMMA AttnSpared ==
  ASSUME NEW q, NEW hold, NEW q2, NEW hold2, NEW x \in Holder, NEW r \in Req, NEW a \in AttnTable,
         AttnOf(r) # x, hold[AttnOf(r)] = ToSet(a.blocks) \cup ToSet(a.pinned),
         Spares(q, hold, q2, hold2, x), AttnOK(q, hold, r, a)
  PROVE  AttnOK(q2, hold2, r, a)
<1>0. a.blocks \in Seq(Block) /\ a.cached \in Nat /\ AttnShape(a)
  BY DEF AttnTable, AttnOK
<1>1. \A j \in 1 .. Len(a.blocks) : a.blocks[j] \in hold[AttnOf(r)]
  BY <1>0, Members
<1>2. AttnOf(r) \in Holder \ {x} /\ a.cached <= Len(a.blocks) /\ Len(a.blocks) \in Nat
  BY <1>0, Members DEF Holder, Groups, AttnOf, AttnShape
<1>3. ASSUME NEW j \in 1 .. a.cached
      PROVE  q2.hash[a.blocks[j]] \in {AttnHash(r, j * A)} \ {None}
  <2>1. q.hash[a.blocks[j]] = AttnHash(r, j * A) /\ AttnHash(r, j * A) # None
    BY DEF AttnOK
  <2>2. HashedIn(q, a.blocks[j], "attn")
    BY <2>1 DEF HashedIn, Group, AttnHash
  <2>3. a.blocks[j] \in hold[AttnOf(r)]
    BY <1>0, <1>1, <1>2
  <2>4. q2.hash[a.blocks[j]] = q.hash[a.blocks[j]]
    BY <1>2, <2>2, <2>3 DEF Spares
  <2> QED BY <2>1, <2>4
<1>4. ASSUME NEW j \in a.cached + 1 .. Len(a.blocks)
      PROVE  Own(q2, hold2, AttnOf(r), a.blocks[j])
  <2>1. Own(q, hold, AttnOf(r), a.blocks[j])
    BY DEF AttnOK, AttnOf
  <2>2. a.blocks[j] \in hold[AttnOf(r)]
    BY <1>0, <1>1, <1>2
  <2> QED BY <1>2, <2>1, <2>2 DEF Spares
<1> QED
  BY <1>0, <1>3, <1>4 DEF AttnOK, AttnOf

\* The same for a Mamba table.
LEMMA MambaSpared ==
  ASSUME NEW q, NEW hold, NEW q2, NEW hold2, NEW x \in Holder, NEW r \in Req, NEW m \in MambaTable,
         MambaOf(r) # x, hold[MambaOf(r)] = ToSet(m.blocks) \ {Null},
         Spares(q, hold, q2, hold2, x), MambaOK(q, hold, r, m)
  PROVE  MambaOK(q2, hold2, r, m)
<1>0. m.blocks \in Seq(Block \cup {Null}) /\ MambaOf(r) \in Holder \ {x}
  BY DEF MambaTable, Holder, Groups, MambaOf
<1>1. \A i \in 1 .. Len(m.blocks) : m.blocks[i] # Null => m.blocks[i] \in hold[MambaOf(r)]
  BY <1>0, Members
<1>2. MambaHashes(q2, m.blocks)
  <2>1. ASSUME NEW b \in ToSet(m.blocks) \ {Null} PROVE q2.hash[b] = None \/ HashedIn(q2, b, "mamba")
    <3>1. q.hash[b] = None \/ HashedIn(q, b, "mamba")
      BY DEF MambaOK, MambaHashes
    <3> QED BY <1>0, <3>1 DEF Spares
  <2> QED BY <2>1 DEF MambaHashes
<1>3. ASSUME Placed(q, hold, r, m) PROVE Placed(q2, hold2, r, m)
  <2>1. /\ m.cur \in Nat /\ Len(m.blocks) = m.cur + 1 /\ m.blocks[m.cur + 1] # Null
        /\ m.cur \in {m.latest, m.coarse} \/ Own(q, hold, MambaOf(r), m.blocks[m.cur + 1])
    BY <1>3 DEF Placed, MambaOf
  <2>2. m.blocks[m.cur + 1] \in hold[MambaOf(r)]
    BY <1>1, <2>1
  <2>3. Own(q, hold, MambaOf(r), m.blocks[m.cur + 1]) => Own(q2, hold2, MambaOf(r), m.blocks[m.cur + 1])
    BY <1>0, <2>2 DEF Spares
  <2> QED BY <1>3, <2>1, <2>3 DEF Placed, MambaOf
<1> QED
  BY <1>2, <1>3 DEF MambaOK

\* Tables of the others in order, whatever was done to that of x.
LEMMA OtherOK ==
  ASSUME NEW c \in Cache, NEW c2 \in Cache, NEW x \in Holder, NEW y \in Holder \ {x},
         TableOK(c, y), Spares(c.pool, Holding(c), c2.pool, Holding(c2), x),
         \A r \in Req : AttnOf(r) # x => c2.attn[r] = c.attn[r],
         \A r \in Req : MambaOf(r) # x => c2.mamba[r] = c.mamba[r]
  PROVE  TableOK(c2, y)
<1>1. PICK r \in Req : y = AttnOf(r) \/ y = MambaOf(r)
  BY HolderCases
<1>2. CASE y = AttnOf(r)
  <2>1. c2.attn[r] = c.attn[r] /\ c.attn[r] \in AttnTable
    BY <1>2, CacheFields
  <2>2. AttnOK(c.pool, Holding(c), r, c.attn[r])
    BY <1>2, AttnTableOK
  <2>3. Holding(c)[AttnOf(r)] = ToSet(c.attn[r].blocks) \cup ToSet(c.attn[r].pinned)
    BY AttnHolds
  <2>4. AttnOf(r) # x
    BY <1>2
  <2>5. AttnOK(c2.pool, Holding(c2), r, c.attn[r])
    BY <2>1, <2>2, <2>3, <2>4, AttnSpared
  <2> QED BY <1>2, <2>1, <2>5, AttnTableOK
<1>3. CASE y = MambaOf(r)
  <2>1. c2.mamba[r] = c.mamba[r] /\ c.mamba[r] \in MambaTable
    BY <1>3, CacheFields
  <2>2. MambaOK(c.pool, Holding(c), r, c.mamba[r])
    BY <1>3, MambaTableOK
  <2>3. Holding(c)[MambaOf(r)] = ToSet(c.mamba[r].blocks) \ {Null}
    BY MambaHolds
  <2>4. MambaOf(r) # x
    BY <1>3
  <2>5. MambaOK(c2.pool, Holding(c2), r, c.mamba[r])
    BY <2>1, <2>2, <2>3, <2>4, MambaSpared
  <2> QED BY <1>3, <2>1, <2>5, MambaTableOK
<1> QED
  BY <1>1, <1>2, <1>3

\* All the tables but the one of x are in order behind such a step.
LEMMA OthersOK ==
  ASSUME NEW c \in Cache, NEW c2 \in Cache, NEW B, NEW x \in Holder,
         SoundBut(c, B, x), PoolOK(c2.pool, Holding(c2), B),
         Spares(c.pool, Holding(c), c2.pool, Holding(c2), x),
         \A r \in Req : AttnOf(r) # x => c2.attn[r] = c.attn[r],
         \A r \in Req : MambaOf(r) # x => c2.mamba[r] = c.mamba[r]
  PROVE  SoundBut(c2, B, x)
<1>1. ASSUME NEW y \in Holder \ {x} PROVE TableOK(c2, y)
  <2>1. TableOK(c, y)
    BY DEF SoundBut
  <2> QED BY <2>1, OtherOK
<1> QED
  BY <1>1 DEF SoundBut

\* All tables in order: the one of x, and the others.
LEMMA SoundSplit ==
  ASSUME NEW c, NEW B, NEW x \in Holder
  PROVE  Sound(c, B) <=> SoundBut(c, B, x) /\ TableOK(c, x)
BY DEF Sound, SoundBut

\* A cache in order is well-typed, and so is its pool.
LEMMA SoundFacts ==
  ASSUME NEW c, NEW B, NEW x, Sound(c, B) \/ SoundBut(c, B, x)
  PROVE  c \in Cache /\ c.pool \in QueuePool /\ PoolOK(c.pool, Holding(c), B)
BY DEF Sound, SoundBut, Cache

\* The cache c2 after a step of one table, whatever has become of that one.
MambaStepped(c, c2, r, q, m, h2, B) ==
  /\ SoundBut(c2, B, MambaOf(r)) /\ OnlyMamba(c, c2, r)
  /\ c2.pool = q /\ c2.mamba[r] = m /\ Holding(c2) = h2
  /\ MambaOK(q, h2, r, m) => Sound(c2, B)

AttnStepped(c, c2, r, q, a, h2, B) ==
  /\ SoundBut(c2, B, AttnOf(r)) /\ OnlyAttn(c, c2, r)
  /\ c2.pool = q /\ c2.attn[r] = a /\ Holding(c2) = h2
  /\ AttnOK(q, h2, r, a) => Sound(c2, B)

\* A step of the Mamba table of r that spares the other holders.
LEMMA MambaStep ==
  ASSUME NEW c, NEW B, NEW r \in Req, SoundBut(c, B, MambaOf(r)),
         NEW q \in QueuePool, NEW m \in MambaTable, NEW h2,
         h2 = Regrip(Holding(c), MambaOf(r), ToSet(m.blocks) \ {Null}),
         PoolOK(q, h2, B), Spares(c.pool, Holding(c), q, h2, MambaOf(r)), Barer(c.pool, q)
  PROVE  MambaStepped(c, WithMamba(c, r, q, m), r, q, m, h2, B)
<1> DEFINE c2 == WithMamba(c, r, q, m)
<1>0. c \in Cache /\ MambaOf(r) \in Holder
  BY SoundFacts, CacheFields
<1>1. /\ c2 \in Cache /\ OnlyMamba(c, c2, r) /\ c2.pool = q /\ c2.mamba[r] = m
      /\ Holding(c2) = h2
  BY <1>0, WithMambaOK
<1> HIDE DEF c2
<1>2. \A s \in Req : MambaOf(s) # MambaOf(r) => s \in Req \ {r}
  OBVIOUS
<1>3. SoundBut(c2, B, MambaOf(r))
  <2>1. /\ \A s \in Req : AttnOf(s) # MambaOf(r) => c2.attn[s] = c.attn[s]
        /\ \A s \in Req : MambaOf(s) # MambaOf(r) => c2.mamba[s] = c.mamba[s]
    BY <1>1, <1>2 DEF OnlyMamba
  <2> QED BY <1>0, <1>1, <2>1, OthersOK
<1>4. MambaOK(q, h2, r, m) => Sound(c2, B)
  <2>1. MambaOK(q, h2, r, m) => TableOK(c2, MambaOf(r))
    BY <1>1, MambaTableOK
  <2> QED BY <1>0, <1>3, <2>1, SoundSplit
<1> QED
  BY <1>1, <1>3, <1>4 DEF MambaStepped, c2

\* The same for the attention table.
LEMMA AttnStep ==
  ASSUME NEW c, NEW B, NEW r \in Req, SoundBut(c, B, AttnOf(r)),
         NEW q \in QueuePool, NEW a \in AttnTable, NEW h2,
         h2 = Regrip(Holding(c), AttnOf(r), ToSet(a.blocks) \cup ToSet(a.pinned)),
         PoolOK(q, h2, B), Spares(c.pool, Holding(c), q, h2, AttnOf(r))
  PROVE  AttnStepped(c, WithAttn(c, r, q, a), r, q, a, h2, B)
<1> DEFINE c2 == WithAttn(c, r, q, a)
<1>0. c \in Cache /\ AttnOf(r) \in Holder
  BY SoundFacts, CacheFields
<1>1. /\ c2 \in Cache /\ OnlyAttn(c, c2, r) /\ c2.pool = q /\ c2.attn[r] = a
      /\ Holding(c2) = h2
  BY <1>0, WithAttnOK
<1> HIDE DEF c2
<1>2. \A s \in Req : AttnOf(s) # AttnOf(r) => s \in Req \ {r}
  OBVIOUS
<1>3. SoundBut(c2, B, AttnOf(r))
  <2>1. /\ \A s \in Req : MambaOf(s) # AttnOf(r) => c2.mamba[s] = c.mamba[s]
        /\ \A s \in Req : AttnOf(s) # AttnOf(r) => c2.attn[s] = c.attn[s]
    BY <1>1, <1>2 DEF OnlyAttn
  <2> QED BY <1>0, <1>1, <2>1, OthersOK
<1>4. AttnOK(q, h2, r, a) => Sound(c2, B)
  <2>1. AttnOK(q, h2, r, a) => TableOK(c2, AttnOf(r))
    BY <1>1, AttnTableOK
  <2> QED BY <1>0, <1>3, <2>1, SoundSplit
<1> QED
  BY <1>1, <1>3, <1>4 DEF AttnStepped, c2

\* A cache with the pool, gold and tables of another one that is in order.
LEMMA SoundSame ==
  ASSUME NEW c, NEW c2 \in Cache, NEW B, Sound(c, B),
         c2.pool = c.pool, c2.mamba = c.mamba, c2.attn = c.attn
  PROVE  Sound(c2, B)
<1>1. \A x \in Holder : HeldBy(c2, x) = HeldBy(c, x)
  BY DEF HeldBy
<1>2. Holding(c2) = Holding(c)
  BY <1>1 DEF Holding
<1>3. \A x \in Holder : TableOK(c2, x) <=> TableOK(c, x)
  BY <1>2 DEF TableOK
<1> QED
  BY <1>2, <1>3 DEF Sound

\* What is known of the Mamba table of a request.
LEMMA MambaFacts ==
  ASSUME NEW c, NEW B \in SUBSET Block, NEW r \in Req, Sound(c, B)
  PROVE  LET m == c.mamba[r]
         IN  /\ m \in MambaTable /\ m.blocks \in Seq(Block \cup {Null})
             /\ Len(m.blocks) \in Nat
             /\ \A i \in 1 .. Len(m.blocks) : m.blocks[i] \in Block \cup {Null}
             /\ \A i \in 1 .. Len(m.blocks) : m.blocks[i] # Null
                  => m.blocks[i] \in ToSet(m.blocks) \ {Null} /\ m.blocks[i] \in B
             /\ \A i, j \in 1 .. Len(m.blocks) :
                  m.blocks[i] = m.blocks[j] /\ m.blocks[i] # Null => i = j
             /\ Holding(c)[MambaOf(r)] = ToSet(m.blocks) \ {Null}
             /\ MambaOK(c.pool, Holding(c), r, m)
             /\ SoundBut(c, B, MambaOf(r)) /\ MambaOf(r) \in Holder
<1> DEFINE m == c.mamba[r]
<1>0. c \in Cache /\ PoolOK(c.pool, Holding(c), B)
  BY SoundFacts
<1>1. m \in MambaTable /\ MambaOf(r) \in Holder
  BY <1>0, CacheFields
<1>2. SoundBut(c, B, MambaOf(r)) /\ TableOK(c, MambaOf(r))
  BY <1>1, SoundSplit
<1>3. MambaOK(c.pool, Holding(c), r, m)
  BY <1>2, MambaTableOK
<1>4. m.blocks \in Seq(Block \cup {Null})
  BY <1>1 DEF MambaTable
<1>5. Holding(c)[MambaOf(r)] = ToSet(m.blocks) \ {Null}
  BY MambaHolds
<1>6. Holding(c)[MambaOf(r)] \subseteq B
  BY <1>0, <1>1, PoolFacts
<1> HIDE DEF m
<1>7. /\ Len(m.blocks) \in Nat
      /\ \A i \in 1 .. Len(m.blocks) : m.blocks[i] \in ToSet(m.blocks) /\ m.blocks[i] \in Block \cup {Null}
  BY <1>4, Members
<1>8. MambaShape(m.blocks)
  BY <1>3 DEF MambaOK
<1> QED
  BY <1>1, <1>2, <1>3, <1>4, <1>5, <1>6, <1>7, <1>8 DEF MambaShape, m

\* The block at an index of the table.
LEMMA BlockAtFacts ==
  ASSUME NEW c, NEW B \in SUBSET Block, NEW r \in Req, Sound(c, B), NEW i \in Int,
         BlockAt(c, r, i) # Null
  PROVE  /\ i \in 0 .. Len(c.mamba[r].blocks) - 1 /\ i + 1 \in 1 .. Len(c.mamba[r].blocks)
         /\ BlockAt(c, r, i) = c.mamba[r].blocks[i + 1]
         /\ BlockAt(c, r, i) \in Holding(c)[MambaOf(r)] /\ BlockAt(c, r, i) \in Block
         /\ BlockAt(c, r, i) \in B
         /\ c.pool.hash[BlockAt(c, r, i)] = None \/ HashedIn(c.pool, BlockAt(c, r, i), "mamba")
         /\ Placed(c.pool, Holding(c), r, c.mamba[r])
         /\ i <= c.mamba[r].cur
<1> DEFINE m == c.mamba[r]
           b == BlockAt(c, r, i)
<1>0. /\ m \in MambaTable /\ m.blocks \in Seq(Block \cup {Null}) /\ Len(m.blocks) \in Nat
      /\ \A k \in 1 .. Len(m.blocks) : m.blocks[k] \in Block \cup {Null}
      /\ \A k \in 1 .. Len(m.blocks) : m.blocks[k] # Null
           => m.blocks[k] \in ToSet(m.blocks) \ {Null} /\ m.blocks[k] \in B
      /\ Holding(c)[MambaOf(r)] = ToSet(m.blocks) \ {Null}
      /\ MambaOK(c.pool, Holding(c), r, m)
  BY MambaFacts
<1>1. DOMAIN m.blocks = 1 .. Len(m.blocks)
  BY <1>0, LenProperties
<1>2. i + 1 \in 1 .. Len(m.blocks) /\ b = m.blocks[i + 1]
  BY <1>1 DEF BlockAt
<1>3. b \in ToSet(m.blocks) \ {Null} /\ b \in B
  BY <1>0, <1>2
<1>4. c.pool.hash[b] = None \/ HashedIn(c.pool, b, "mamba")
  BY <1>0, <1>3 DEF MambaOK, MambaHashes
<1>5. Placed(c.pool, Holding(c), r, m)
  <2>1. m # NoMamba
    <3>1. m.blocks # <<>>
      BY <1>0, <1>2
    <3> QED BY <3>1 DEF NoMamba
  <2> QED BY <1>0, <2>1 DEF MambaOK
<1>6. i <= m.cur
  BY <1>2, <1>5 DEF Placed
<1> QED
  BY <1>0, <1>2, <1>3, <1>4, <1>5, <1>6, SMTT(40)

-----------------------------------------------------------------------------
(* Dropping a state.                                                       *)

\* A step of the manager that only works on the Mamba table of r, and keeps it one of
\* a request that is allocated, or one that is not.
MambaMoves(c, c2, r, B) ==
  Sound(c2, B) /\ OnlyMamba(c, c2, r) /\ c2.mamba[r].alloc = c.mamba[r].alloc

\* No step at all is one of those.
LEMMA MambaStays ==
  ASSUME NEW c, NEW B, NEW r \in Req, Sound(c, B)
  PROVE  MambaMoves(c, c, r, B)
BY DEF MambaMoves, OnlyMamba, Barer

\* And so are two of them.
LEMMA MambaMovesOn ==
  ASSUME NEW c, NEW c2, NEW c3, NEW B, NEW r \in Req,
         MambaMoves(c, c2, r, B), MambaMoves(c2, c3, r, B)
  PROVE  MambaMoves(c, c3, r, B)
BY DEF MambaMoves, OnlyMamba, Barer

Nulled(m, k) == [m EXCEPT !.blocks = ReplaceAt(m.blocks, k, Null)]

NulledFrom(m, k, m2) ==
  /\ m2 \in MambaTable /\ m2.alloc = m.alloc /\ m2.cur = m.cur /\ m2.pending = m.pending
  /\ m2.inflight = m.inflight /\ m2.latest = m.latest /\ m2.coarse = m.coarse
  /\ Len(m2.blocks) = Len(m.blocks) /\ Len(m.blocks) \in Nat
  /\ m2.blocks \in Seq(Block \cup {Null})
  /\ \A j \in 1 .. Len(m.blocks) : m2.blocks[j] = IF j = k THEN Null ELSE m.blocks[j]
  /\ MambaShape(m2.blocks)
  /\ ToSet(m2.blocks) \ {Null} = (ToSet(m.blocks) \ {Null}) \ {m.blocks[k]}

\* A table with a null block in place of one.
LEMMA NulledTable ==
  ASSUME NEW m \in MambaTable, NEW k, MambaShape(m.blocks), k \in 1 .. Len(m.blocks),
         m.blocks[k] # Null, NEW m2, m2 = Nulled(m, k)
  PROVE  NulledFrom(m, k, m2)
<1>0. m.blocks \in Seq(Block \cup {Null}) /\ Len(m.blocks) \in Nat
  BY Members DEF MambaTable
<1>1. /\ m2.alloc = m.alloc /\ m2.cur = m.cur /\ m2.pending = m.pending
      /\ m2.inflight = m.inflight /\ m2.latest = m.latest /\ m2.coarse = m.coarse
      /\ m2.blocks = [m.blocks EXCEPT ![k] = Null]
  BY DEF MambaTable, ReplaceAt, Nulled
<1>2. m2.blocks \in Seq(Block \cup {Null}) /\ Len(m2.blocks) = Len(m.blocks)
  BY <1>0, <1>1
<1>3. m2 \in MambaTable
  BY <1>1, <1>2 DEF MambaTable, Nulled
<1>4. \A j \in 1 .. Len(m.blocks) : m2.blocks[j] = IF j = k THEN Null ELSE m.blocks[j]
  BY <1>0, <1>1
<1>5. \A i, j \in 1 .. Len(m.blocks) : m.blocks[i] = m.blocks[j] /\ m.blocks[i] # Null => i = j
  BY DEF MambaShape
<1>6. MambaShape(m2.blocks)
  BY <1>2, <1>4, <1>5 DEF MambaShape
<1>7. ToSet(m2.blocks) \ {Null} = (ToSet(m.blocks) \ {Null}) \ {m.blocks[k]}
  <2>1. ASSUME NEW b \in ToSet(m2.blocks), b # Null PROVE b \in ToSet(m.blocks) /\ b # m.blocks[k]
    <3>1. PICK j \in 1 .. Len(m.blocks) : m2.blocks[j] = b
      BY <1>2, <2>1, Members
    <3>2. j # k /\ m.blocks[j] = b
      BY <1>4, <2>1, <3>1
    <3>3. b \in ToSet(m.blocks)
      BY <1>0, <3>2, Members
    <3> QED BY <1>5, <2>1, <3>2, <3>3
  <2>2. ASSUME NEW b \in ToSet(m.blocks), b # Null, b # m.blocks[k] PROVE b \in ToSet(m2.blocks)
    <3>1. PICK j \in 1 .. Len(m.blocks) : m.blocks[j] = b
      BY <1>0, <2>2, Members
    <3>2. m2.blocks[j] = b
      BY <1>4, <2>2, <3>1
    <3> QED BY <1>2, <3>2, Members
  <2> QED BY <2>1, <2>2
<1> QED
  BY <1>0, <1>1, <1>2, <1>3, <1>4, <1>6, <1>7 DEF NulledFrom

\* It stays in order, unless the block is that of the running state.
LEMMA NulledOK ==
  ASSUME NEW q, NEW hold, NEW q2, NEW hold2, NEW r \in Req, NEW m \in MambaTable, NEW k,
         MambaOK(q, hold, r, m), k \in 1 .. Len(m.blocks), k # m.cur + 1, m.blocks[k] # Null,
         q2.hash = q.hash, q2.pids = q.pids, \A y \in Holder : hold2[y] \subseteq hold[y],
         NEW m2, m2 = Nulled(m, k)
  PROVE  MambaOK(q2, hold2, r, m2)
<1>0. NulledFrom(m, k, m2)
  BY NulledTable DEF MambaOK
<1>1. MambaHashes(q2, m2.blocks)
  <2>1. MambaHashes(q, m.blocks)
    BY DEF MambaOK
  <2> QED BY <1>0, <2>1 DEF NulledFrom, MambaHashes, HashedIn
<1>2. Placed(q2, hold2, r, m2)
  <2>1. Placed(q, hold, r, m)
    <3>1. m # NoMamba
      <4>1. m.blocks # <<>>
        BY <1>0 DEF NulledFrom
      <4> QED BY <4>1 DEF NoMamba
    <3> QED BY <3>1 DEF MambaOK
  <2>2. /\ m.alloc /\ m.cur \in Nat /\ Len(m.blocks) = m.cur + 1 /\ m.blocks[m.cur + 1] # Null
        /\ m.latest <= m.cur /\ m.latest <= CheckpointIdx(r) /\ m.latest \in Nat \cup {NoIdx}
        /\ m.coarse \in {NoIdx, CheckpointIdx(r)}
        /\ m.pending < m.cur /\ m.pending \in Nat \cup {NoIdx}
        /\ DOMAIN m.inflight \subseteq 0 .. m.cur - 1
        /\ m.cur \in {m.latest, m.coarse} \/ Own(q, hold, <<"mamba", r>>, m.blocks[m.cur + 1])
    BY <2>1 DEF Placed
  <2>3. m2.blocks[m.cur + 1] = m.blocks[m.cur + 1]
    <3>1. m.cur + 1 \in 1 .. Len(m.blocks) /\ m.cur + 1 # k
      BY <2>2
    <3> QED BY <1>0, <3>1 DEF NulledFrom
  <2>4. Own(q, hold, <<"mamba", r>>, m.blocks[m.cur + 1])
        => Own(q2, hold2, <<"mamba", r>>, m.blocks[m.cur + 1])
    BY DEF Own
  <2> QED BY <1>0, <2>2, <2>3, <2>4 DEF Placed, NulledFrom
<1> QED
  BY <1>0, <1>1, <1>2 DEF MambaOK, NulledFrom

\* The block of an unprotected state is given back.
LEMMA FreeUnprotectedOK ==
  ASSUME NEW c, NEW B \in SUBSET Block, NEW r \in Req, Sound(c, B), NEW i \in Int
  PROVE  LET t == FreeUnprotected(c, r, i)
         IN  /\ MambaMoves(c, t, r, B)
             /\ \A j \in Int : j # i => BlockAt(t, r, j) = BlockAt(c, r, j)
             /\ t.mamba[r].latest = c.mamba[r].latest /\ t.mamba[r].coarse = c.mamba[r].coarse
             /\ t.mamba[r].cur = c.mamba[r].cur
<1> DEFINE m == c.mamba[r]
           b == BlockAt(c, r, i)
           x == MambaOf(r)
           t == FreeUnprotected(c, r, i)
<1>1. CASE b = Null \/ i \in Protected(m)
  <2>1. t = c
    BY <1>1 DEF FreeUnprotected
  <2> QED BY <2>1, MambaStays
<1>2. CASE b # Null /\ i \notin Protected(m)
  <2>0. /\ m \in MambaTable /\ m.blocks \in Seq(Block \cup {Null}) /\ Len(m.blocks) \in Nat
        /\ Holding(c)[x] = ToSet(m.blocks) \ {Null}
        /\ MambaOK(c.pool, Holding(c), r, m) /\ SoundBut(c, B, x) /\ x \in Holder
    BY MambaFacts
  <2>1. c \in Cache /\ c.pool \in QueuePool /\ PoolOK(c.pool, Holding(c), B)
    BY SoundFacts
  <2>2. /\ i + 1 \in 1 .. Len(m.blocks) /\ b = m.blocks[i + 1] /\ b \in Holding(c)[x]
        /\ b \in Block /\ Placed(c.pool, Holding(c), r, m) /\ i \in Nat
    BY <1>2, BlockAtFacts
  <2>3. i # m.cur
    BY <1>2, <2>2 DEF Protected, NoIdx
  <2> DEFINE q  == FreeBlocks(c.pool, <<b>>)
             h2 == Regrip(Holding(c), x, Holding(c)[x] \ {b})
             m2 == Nulled(m, i + 1)
  <2>4. PoolOK(q, h2, B) /\ Spares(c.pool, Holding(c), q, h2, x) /\ SameIndexes(c.pool, q)
    <3>1. <<b>> \in Queue(Block) /\ ToSet(<<b>>) = {b}
      BY <2>2, QueueOne
    <3>2. ToSet(<<b>>) \subseteq Holding(c)[x]
      BY <2>2, <3>1
    <3> HIDE DEF b, x
    <3> QED BY <2>0, <2>1, <3>1, <3>2, FreePool
  <2>5. t = WithMamba(c, r, q, m2)
    BY <1>2, <2>1 DEF FreeUnprotected, WithMamba, Nulled, Cache, MambaTable
  <2>6. \A y \in Holder : h2[y] \subseteq Holding(c)[y]
    BY <2>0 DEF Regrip, Holding
  <2>7. q \in QueuePool /\ q.hash = c.pool.hash /\ q.pids = c.pool.pids
    BY <2>4 DEF PoolOK, SameIndexes
  <2>8. NulledFrom(m, i + 1, m2) /\ MambaOK(q, h2, r, m2)
    <3> DEFINE k == i + 1
               hold == Holding(c)
               p == c.pool
    <3>1. /\ k # m.cur + 1 /\ k \in 1 .. Len(m.blocks) /\ m.blocks[k] = b
          /\ m.blocks[k] # Null /\ m2 = Nulled(m, k)
      BY <1>2, <2>2, <2>3 DEF Placed
    <3>2. /\ MambaShape(m.blocks) /\ MambaOK(p, hold, r, m) /\ m \in MambaTable
          /\ q.hash = p.hash /\ q.pids = p.pids
          /\ \A y \in Holder : h2[y] \subseteq hold[y]
      BY <2>0, <2>6, <2>7 DEF MambaOK
    <3> HIDE DEF h2, q, m, m2, k, hold, p
    <3>3. MambaOK(q, h2, r, m2)
      BY <3>1, <3>2, NulledOK
    <3>4. NulledFrom(m, k, m2)
      BY <3>1, <3>2, NulledTable
    <3> QED BY <3>3, <3>4 DEF k
  <2>10. h2 = Regrip(Holding(c), x, ToSet(m2.blocks) \ {Null})
    BY <2>0, <2>2, <2>8 DEF NulledFrom
  <2> HIDE DEF t, q, h2, m2, x, b
  <2>11. Sound(t, B) /\ OnlyMamba(c, t, r) /\ t.mamba[r] = m2
    <3>1. x = MambaOf(r)
      BY DEF x
    <3>2. m2 \in MambaTable
      BY <2>8 DEF NulledFrom
    <3> HIDE DEF m
    <3>3. Barer(c.pool, q)
      BY <2>7, SameBarer
    <3> QED BY <2>0, <2>4, <2>5, <2>7, <2>8, <2>10, <3>1, <3>2, <3>3, MambaStep DEF MambaStepped
  <2>12. ASSUME NEW j \in Int, j # i PROVE BlockAt(t, r, j) = BlockAt(c, r, j)
    <3>1. DOMAIN m2.blocks = 1 .. Len(m.blocks) /\ DOMAIN m.blocks = 1 .. Len(m.blocks)
      BY <2>0, <2>8, LenProperties DEF NulledFrom
    <3>2. j + 1 \in 1 .. Len(m.blocks) => m2.blocks[j + 1] = m.blocks[j + 1]
      BY <2>8, <2>12 DEF NulledFrom
    <3> QED BY <2>11, <3>1, <3>2 DEF BlockAt
  <2> QED BY <2>8, <2>11, <2>12 DEF MambaMoves, NulledFrom, t
<1> QED
  BY <1>1, <1>2

\* What eviction and freeing keep of the table of r, but for the block at index i.
KeepsMarks(c, t, r, i) ==
  /\ \A j \in Int : j # i => BlockAt(t, r, j) = BlockAt(c, r, j)
  /\ t.mamba[r].latest = c.mamba[r].latest /\ t.mamba[r].coarse = c.mamba[r].coarse
  /\ t.mamba[r].cur = c.mamba[r].cur

\* An old checkpoint leaves the cache and, unless it is still needed, the table.
LEMMA DropCheckpointOK ==
  ASSUME NEW c, NEW B \in SUBSET Block, NEW r \in Req, Sound(c, B), NEW i \in Int
  PROVE  LET t == DropCheckpoint(c, r, i)
         IN  MambaMoves(c, t, r, B) /\ KeepsMarks(c, t, r, i)
<1> DEFINE b == BlockAt(c, r, i)
           t == DropCheckpoint(c, r, i)
           u == IF Hashed(c, b) THEN [c EXCEPT !.pool = EvictBlocks(@, <<b>>)] ELSE c
<1>1. t = FreeUnprotected(u, r, i)
  BY DEF DropCheckpoint
<1>2. MambaMoves(c, u, r, B) /\ u.mamba = c.mamba
  <2>1. CASE ~Hashed(c, b)
    BY <2>1, MambaStays
  <2>2. CASE Hashed(c, b)
    <3>0. c \in Cache /\ c.pool \in QueuePool /\ PoolOK(c.pool, Holding(c), B)
      BY SoundFacts
    <3>1. b # Null /\ c.pool.hash[b] # None
      BY <2>2 DEF Hashed
    <3>2. b \in Block /\ HashedIn(c.pool, b, "mamba")
      BY <3>1, BlockAtFacts
    <3>3. ~HashedIn(c.pool, b, "attn")
      BY <3>2 DEF HashedIn
    <3> DEFINE q == EvictBlocks(c.pool, <<b>>)
               m == c.mamba[r]
               x == MambaOf(r)
               p == c.pool
               h == Holding(c)
    <3>4. /\ m \in MambaTable /\ Holding(c)[x] = ToSet(m.blocks) \ {Null}
          /\ MambaOK(p, h, r, m) /\ SoundBut(c, B, x) /\ x \in Holder
      BY MambaFacts
    <3>5. u = [c EXCEPT !.pool = q]
      BY <2>2
    <3>6. u = WithMamba(c, r, q, m)
      BY <3>0, <3>4, <3>5 DEF WithMamba, Cache
    <3>7. u.mamba = c.mamba
      BY <3>0, <3>5 DEF Cache
    <3>8. /\ PoolOK(q, h, B) /\ Spares(p, h, q, h, x)
          /\ q.hash = [p.hash EXCEPT ![b] = None] /\ q.pids = [p.pids EXCEPT ![b] = {}]
      <4> HIDE DEF b, x, h, p
      <4>1. PoolOK(p, h, B)
        BY <3>0 DEF p, h
      <4>2. q = EvictBlocks(p, <<b>>) /\ ~HashedIn(p, b, "attn")
        BY <3>3 DEF p
      <4> HIDE DEF q
      <4> QED BY <3>2, <3>4, <4>1, <4>2, EvictPool
    <3>9. h = Regrip(h, x, ToSet(m.blocks) \ {Null})
      <4>1. h \in [Holder -> SUBSET Block]
        BY <3>0 DEF PoolOK
      <4> HIDE DEF h
      <4> QED BY <3>4, <4>1, SameGrip DEF h
    <3>10. q \in QueuePool
      BY <3>8 DEF PoolOK
    <3>11. MambaOK(q, h, r, m)
      <4>1. \A d \in Block : q.hash[d] = IF d = b THEN None ELSE p.hash[d]
        BY <3>0, <3>2, <3>8, PoolFields
      <4>2. \A d \in Block : q.pids[d] = IF d = b THEN {} ELSE p.pids[d]
        BY <3>0, <3>2, <3>8, PoolFields, ZenonT(60)
      <4>3. m.blocks \in Seq(Block \cup {Null})
        BY <3>4 DEF MambaTable
      <4> HIDE DEF q, p, h, m, b
      <4>4. ToSet(m.blocks) \subseteq Block \cup {Null}
        BY <4>3, Members
      <4>5. MambaHashes(q, m.blocks)
        <5>1. ASSUME NEW d \in ToSet(m.blocks) \ {Null}
              PROVE  q.hash[d] = None \/ HashedIn(q, d, "mamba")
          <6>1. d \in Block /\ (p.hash[d] = None \/ HashedIn(p, d, "mamba"))
            BY <3>4, <4>4 DEF MambaOK, MambaHashes
          <6> QED BY <4>1, <6>1 DEF HashedIn
        <5> QED BY <5>1 DEF MambaHashes
      <4>6. Placed(p, h, r, m) => Placed(q, h, r, m)
        <5>1. ASSUME NEW d \in Block, NEW y, Own(p, h, y, d) PROVE Own(q, h, y, d)
          BY <4>1, <4>2, <5>1 DEF Own
        <5>2. ASSUME Placed(p, h, r, m) PROVE m.blocks[m.cur + 1] \in Block
          <6>1. m.cur + 1 \in 1 .. Len(m.blocks) /\ m.blocks[m.cur + 1] # Null
            BY <5>2 DEF Placed
          <6> QED BY <4>3, <6>1, Members
        <5> QED BY <5>1, <5>2 DEF Placed
      <4> QED BY <3>4, <4>5, <4>6 DEF MambaOK
    <3>12. Barer(p, q)
      <4> HIDE DEF q, p, h, m, b
      <4>1. p.pids \in [Block -> SUBSET Hash]
        BY <3>0, PoolFields DEF p
      <4> QED BY <3>8, <4>1 DEF Barer
    <3>13. Sound(u, B) /\ OnlyMamba(c, u, r)
      <4>1. x = MambaOf(r) /\ p = c.pool /\ h = Holding(c)
        BY DEF x
      <4> HIDE DEF q, m, x, u
      <4> QED BY <3>4, <3>6, <3>8, <3>9, <3>10, <3>11, <3>12, <4>1, MambaStep
             DEF MambaStepped
    <3> QED BY <3>7, <3>13 DEF MambaMoves
  <2> QED BY <2>1, <2>2
<1>3. \A j \in Int : BlockAt(u, r, j) = BlockAt(c, r, j)
  BY <1>2 DEF BlockAt
<1> HIDE DEF u, t
<1>4. MambaMoves(u, t, r, B) /\ KeepsMarks(u, t, r, i)
  <2>1. Sound(u, B)
    BY <1>2 DEF MambaMoves
  <2> QED BY <1>1, <2>1, FreeUnprotectedOK DEF KeepsMarks
<1>5. MambaMoves(c, t, r, B)
  BY <1>2, <1>4, MambaMovesOn
<1>6. KeepsMarks(c, t, r, i)
  BY <1>2, <1>3, <1>4 DEF KeepsMarks
<1> QED
  BY <1>5, <1>6 DEF t

-----------------------------------------------------------------------------
(* Marking and publishing a state.                                         *)

\* The table of r is m now, in the cache t.
TableNow(c, t, r, q, m, B) ==
  /\ Sound(t, B) /\ OnlyMamba(c, t, r) /\ t.pool = q /\ t.mamba[r] = m

\* Other marks, on the same blocks.
LEMMA MarksOK ==
  ASSUME NEW c, NEW B \in SUBSET Block, NEW r \in Req, Sound(c, B),
         NEW m \in MambaTable, m.blocks = c.mamba[r].blocks,
         MambaOK(c.pool, Holding(c), r, m)
  PROVE  TableNow(c, WithMamba(c, r, c.pool, m), r, c.pool, m, B)
<1> DEFINE x == MambaOf(r)
           p == c.pool
           h == Holding(c)
           t == WithMamba(c, r, p, m)
<1>0. c \in Cache /\ p \in QueuePool /\ PoolOK(p, h, B)
  BY SoundFacts
<1>1. h[x] = ToSet(m.blocks) \ {Null} /\ SoundBut(c, B, x) /\ x \in Holder
  BY MambaFacts
<1>2. h = Regrip(h, x, ToSet(m.blocks) \ {Null})
  <2>1. h \in [Holder -> SUBSET Block]
    BY <1>0 DEF PoolOK
  <2> HIDE DEF h
  <2> QED BY <1>1, <2>1, SameGrip
<1>3. Spares(p, h, p, h, x)
  BY DEF Spares
<1>4. Sound(t, B) /\ OnlyMamba(c, t, r) /\ t.pool = p /\ t.mamba[r] = m
  <2>1. x = MambaOf(r) /\ p = c.pool /\ h = Holding(c) /\ t = WithMamba(c, r, p, m)
    BY DEF x
  <2> HIDE DEF x, p, h, t
  <2>2. Barer(p, p)
    BY SameBarer
  <2> QED BY <1>0, <1>1, <1>2, <1>3, <2>1, <2>2, MambaStep DEF MambaStepped
<1> QED
  BY <1>4 DEF TableNow

\* The prompt checkpoint is an index of the table, if there is a block at it.
LEMMA CheckpointFacts ==
  ASSUME NEW r \in Req
  PROVE  /\ CheckpointIdx(r) \in Nat \cup {NoIdx}
         /\ CheckpointIdx(r) \in Nat => (CheckpointIdx(r) + 1) * H <= Prompt[r]
         /\ Prompt[r] \in Nat \ {0} /\ H \in Nat \ {0}
<1>1. Prompt[r] \in Nat \ {0} /\ H \in Nat \ {0}
  BY TokensAssumption
<1> DEFINE n == Prompt[r]
           d == n \div H
<1>2. d \in Nat /\ d * H <= n
  <2> HIDE DEF n
  <2> QED BY <1>1 DEF n
<1>3. CheckpointIdx(r) = IF d < 2 THEN -1 ELSE d - 2
  BY DEF CheckpointIdx, NoIdx
<1>4. ASSUME d >= 2 PROVE (d - 2 + 1) * H <= n
  <2> HIDE DEF d, n
  <2>1. (d - 2 + 1) * H <= d * H
    BY <1>1, <1>2
  <2> QED BY <1>1, <1>2, <2>1 DEF n
<1> HIDE DEF d
<1> QED
  BY <1>1, <1>2, <1>3, <1>4 DEF NoIdx

\* The latest checkpoint is set, and the one before it dropped.
SetsLatest(c, t, r, i, B) ==
  /\ MambaMoves(c, t, r, B) /\ t.mamba[r].latest = i /\ t.mamba[r].cur = c.mamba[r].cur
  /\ t.mamba[r].coarse = c.mamba[r].coarse
  /\ BlockAt(t, r, i) = BlockAt(c, r, i)

\* _queue_latest_checkpoint: a new checkpoint, in place of the old one.
LEMMA SetLatestOK ==
  ASSUME NEW c, NEW B \in SUBSET Block, NEW r \in Req, Sound(c, B), NEW i \in Int,
         i = CheckpointIdx(r), BlockAt(c, r, i) # Null
  PROVE  SetsLatest(c, SetLatest(c, r, i), r, i, B)
<1> DEFINE m   == c.mamba[r]
           old == m.latest
           m2  == [m EXCEPT !.latest = i]
           u   == [c EXCEPT !.mamba[r].latest = i]
           t   == SetLatest(c, r, i)
<1>0. c \in Cache /\ m \in MambaTable
  BY SoundFacts, MambaFacts
<1>1. /\ i \in Nat /\ Placed(c.pool, Holding(c), r, m) /\ i <= m.cur
      /\ MambaOK(c.pool, Holding(c), r, m)
  BY BlockAtFacts, MambaFacts
<1>2. u = WithMamba(c, r, c.pool, m2)
  BY <1>0 DEF WithMamba, Cache, MambaTable
<1>3. /\ m2 \in MambaTable /\ m2.blocks = m.blocks /\ m2.alloc = m.alloc /\ m2.cur = m.cur
      /\ m2.pending = m.pending /\ m2.inflight = m.inflight /\ m2.latest = i
      /\ m2.coarse = m.coarse
  BY <1>0 DEF MambaTable
<1>4. old \in Nat \cup {NoIdx} /\ old <= i
  BY <1>1 DEF Placed
<1>5. MambaOK(c.pool, Holding(c), r, m2)
  <2>1. m.cur \in {i, m.coarse} \/ Own(c.pool, Holding(c), <<"mamba", r>>, m.blocks[m.cur + 1])
    <3>1. m.cur = old => m.cur = i
      BY <1>1, <1>4 DEF Placed
    <3> QED BY <1>1, <3>1 DEF Placed
  <2>2. Placed(c.pool, Holding(c), r, m2)
    <3> HIDE DEF m2, m
    <3> QED BY <1>1, <1>3, <2>1 DEF Placed
  <2> QED BY <1>1, <1>3, <2>2 DEF MambaOK
<1>6. TableNow(c, u, r, c.pool, m2, B)
  <2> HIDE DEF m2, u
  <2> QED BY <1>2, <1>3, <1>5, MarksOK
<1>7. MambaMoves(c, u, r, B)
  BY <1>3, <1>6 DEF TableNow, MambaMoves
<1>8. SetsLatest(c, u, r, i, B)
  <2>1. BlockAt(u, r, i) = BlockAt(c, r, i)
    BY <1>3, <1>6 DEF TableNow, BlockAt
  <2> QED BY <1>3, <1>6, <1>7, <2>1 DEF SetsLatest, TableNow
<1>9. CASE old \in {NoIdx, i}
  <2>1. t = u
    BY <1>9 DEF SetLatest
  <2> QED BY <1>8, <2>1
<1>10. CASE old \notin {NoIdx, i}
  <2>1. t = DropCheckpoint(u, r, old)
    BY <1>10 DEF SetLatest
  <2>2. old \in Int /\ i # old
    BY <1>4, <1>10
  <2> HIDE DEF u, t, old
  <2>3. MambaMoves(u, t, r, B) /\ KeepsMarks(u, t, r, old)
    <3>1. Sound(u, B)
      BY <1>7 DEF MambaMoves
    <3> QED BY <2>1, <2>2, <3>1, DropCheckpointOK
  <2>4. MambaMoves(c, t, r, B)
    BY <1>7, <2>3, MambaMovesOn
  <2> QED BY <1>8, <2>2, <2>3, <2>4 DEF SetsLatest, KeepsMarks, t
<1> QED
  BY <1>9, <1>10

\* The coarse checkpoint is set, to the same index as the latest one.
LEMMA SetCoarseOK ==
  ASSUME NEW c, NEW B \in SUBSET Block, NEW r \in Req, Sound(c, B), NEW i \in Int,
         i = CheckpointIdx(r), BlockAt(c, r, i) # Null
  PROVE  MambaMoves(c, SetCoarse(c, r, i), r, B)
<1> DEFINE m   == c.mamba[r]
           old == m.coarse
           m2  == [m EXCEPT !.coarse = i]
           t   == SetCoarse(c, r, i)
<1>0. c \in Cache /\ m \in MambaTable
  BY SoundFacts, MambaFacts
<1>1. /\ i \in Nat /\ Placed(c.pool, Holding(c), r, m) /\ i <= m.cur
      /\ MambaOK(c.pool, Holding(c), r, m)
  BY BlockAtFacts, MambaFacts
<1>2. t = WithMamba(c, r, c.pool, m2)
  <2>1. old \in {NoIdx, i}
    BY <1>1 DEF Placed
  <2>2. t = [c EXCEPT !.mamba[r].coarse = i]
    BY <2>1 DEF SetCoarse
  <2> QED BY <1>0, <2>2 DEF WithMamba, Cache, MambaTable
<1>3. /\ m2 \in MambaTable /\ m2.blocks = m.blocks /\ m2.alloc = m.alloc /\ m2.cur = m.cur
      /\ m2.pending = m.pending /\ m2.inflight = m.inflight /\ m2.latest = m.latest
      /\ m2.coarse = i
  BY <1>0 DEF MambaTable
<1>4. MambaOK(c.pool, Holding(c), r, m2)
  <2>1. m.cur \in {m.latest, i} \/ Own(c.pool, Holding(c), <<"mamba", r>>, m.blocks[m.cur + 1])
    <3>1. m.cur = m.coarse => m.cur = i
      BY <1>1 DEF Placed, NoIdx
    <3> QED BY <1>1, <3>1 DEF Placed
  <2>2. Placed(c.pool, Holding(c), r, m2)
    <3> HIDE DEF m2, m
    <3> QED BY <1>1, <1>3, <2>1 DEF Placed
  <2> QED BY <1>1, <1>3, <2>2 DEF MambaOK
<1>5. TableNow(c, t, r, c.pool, m2, B)
  <2> HIDE DEF m2, t
  <2> QED BY <1>2, <1>3, <1>4, MarksOK
<1> QED
  BY <1>3, <1>5 DEF TableNow, MambaMoves

\* A checkpoint is queued as the latest, and as the coarse one if it is that.
LEMMA QueueLatestOK ==
  ASSUME NEW c, NEW B \in SUBSET Block, NEW r \in Req, Sound(c, B), NEW i \in Int,
         i = CheckpointIdx(r), NEW ntok
  PROVE  MambaMoves(c, QueueLatest(c, r, i, ntok), r, B)
<1> DEFINE t == SetLatest(c, r, i)
           u == QueueLatest(c, r, i, ntok)
<1>1. CASE BlockAt(c, r, i) = Null
  BY <1>1, MambaStays DEF QueueLatest
<1>2. CASE BlockAt(c, r, i) # Null
  <2>1. SetsLatest(c, t, r, i, B)
    BY <1>2, SetLatestOK
  <2>2. u = IF TargetCoarse(ntok) = i THEN SetCoarse(t, r, i) ELSE t
    BY <1>2 DEF QueueLatest
  <2> HIDE DEF t, u
  <2>3. MambaMoves(c, t, r, B) /\ BlockAt(t, r, i) # Null /\ Sound(t, B)
    BY <1>2, <2>1 DEF SetsLatest, MambaMoves
  <2>4. MambaMoves(t, SetCoarse(t, r, i), r, B)
    BY <2>3, SetCoarseOK
  <2>5. MambaMoves(c, SetCoarse(t, r, i), r, B)
    BY <2>3, <2>4, MambaMovesOn
  <2> QED BY <2>2, <2>3, <2>5 DEF u
<1> QED
  BY <1>1, <1>2

\* cache_blocks of the Mamba manager.
LEMMA MambaCacheBlocksOK ==
  ASSUME NEW c, NEW B \in SUBSET Block, NEW r \in Req, Sound(c, B), NEW ntok, NEW tokens
  PROVE  MambaMoves(c, MambaCacheBlocks(c, r, ntok, tokens), r, B)
<1> DEFINE i == CheckpointIdx(r)
<1>1. i \in Int /\ i = CheckpointIdx(r)
  BY CheckpointFacts DEF NoIdx
<1>2. MambaMoves(c, QueueLatest(c, r, i, ntok), r, B)
  <2> HIDE DEF i
  <2> QED BY <1>1, QueueLatestOK
<1>3. \/ MambaCacheBlocks(c, r, ntok, tokens) = QueueLatest(c, r, i, ntok)
      \/ MambaCacheBlocks(c, r, ntok, tokens) = c
  BY DEF MambaCacheBlocks
<1> QED
  BY <1>2, <1>3, MambaStays

\* A checkpoint is published under the hash of its prefix.
LEMMA PublishOK ==
  ASSUME NEW c, NEW B \in SUBSET Block, NEW r \in Req, Sound(c, B), NEW i \in Int,
         BlockAt(c, r, i) # Null, i \in {c.mamba[r].latest, c.mamba[r].coarse}
  PROVE  TableNow(c, Publish(c, r, i), r, Publish(c, r, i).pool, c.mamba[r], B)
<1> DEFINE m == c.mamba[r]
           b == BlockAt(c, r, i)
           x == MambaOf(r)
           p == c.pool
           h == Holding(c)
           g == MambaHash(r, (i + 1) * H)
           q == CacheFullBlock(p, b, g)
           t == Publish(c, r, i)
<1>0. c \in Cache /\ p \in QueuePool /\ PoolOK(p, h, B)
  BY SoundFacts
<1>1. /\ m \in MambaTable /\ h[x] = ToSet(m.blocks) \ {Null}
      /\ MambaOK(p, h, r, m) /\ SoundBut(c, B, x) /\ x \in Holder
      /\ m.blocks \in Seq(Block \cup {Null})
      /\ \A j, k \in 1 .. Len(m.blocks) :
           m.blocks[j] = m.blocks[k] /\ m.blocks[j] # Null => j = k
  BY MambaFacts
<1>2. /\ i + 1 \in 1 .. Len(m.blocks) /\ b = m.blocks[i + 1] /\ b \in h[x]
      /\ b \in Block /\ Placed(p, h, r, m) /\ i \in Nat
  BY BlockAtFacts
<1>3. CASE Hashed(c, b)
  <2>1. t = c
    BY <1>3 DEF Publish
  <2> QED BY <2>1 DEF TableNow, OnlyMamba, Barer
<1>4. CASE ~Hashed(c, b)
  <2>1. p.hash[b] = None
    BY <1>4 DEF Hashed
  <2>2. t = WithMamba(c, r, q, m)
    <3>1. t = [c EXCEPT !.pool = q]
      BY <1>4 DEF Publish
    <3> QED BY <1>0, <1>1, <3>1 DEF WithMamba, Cache
  <2>3. g \in Hash /\ Group(g) = "mamba"
    <3>1. i <= CheckpointIdx(r) /\ CheckpointIdx(r) \in Nat
      BY <1>2, CheckpointFacts, SMTT(40) DEF Placed, NoIdx
    <3>2. (i + 1) * H <= Prompt[r]
      <4> DEFINE k == CheckpointIdx(r)
      <4>1. k \in Nat /\ i <= k /\ (k + 1) * H <= Prompt[r] /\ H \in Nat /\ Prompt[r] \in Nat
        BY <3>1, CheckpointFacts
      <4> HIDE DEF k
      <4>2. (i + 1) * H <= (k + 1) * H
        BY <1>2, <4>1
      <4>3. (i + 1) * H \in Nat /\ (k + 1) * H \in Nat
        BY <1>2, <4>1
      <4> QED BY <4>1, <4>2, <4>3
    <3>3. (i + 1) * H \in Nat \ {0}
      BY <1>2, CheckpointFacts
    <3>4. MaxOut[r] \in Nat /\ Prompt[r] \in Nat
      BY TokensAssumption
    <3> DEFINE n == (i + 1) * H
    <3>5. n \in 1 .. Prompt[r] + MaxOut[r]
      BY <3>2, <3>3, <3>4
    <3> HIDE DEF n
    <3>6. MambaHash(r, n) \in Hashes
      BY <3>5 DEF Hashes
    <3>7. Group(MambaHash(r, n)) = "mamba"
      BY DEF Group, MambaHash
    <3> QED BY <3>6, <3>7, RequestsAssumption DEF n
  <2>4. /\ PoolOK(q, h, B) /\ Spares(p, h, q, h, x)
        /\ q.hash = [p.hash EXCEPT ![b] = g] /\ q.pids = p.pids
    <3>1. q = CacheFullBlock(p, b, g)
      OBVIOUS
    <3> HIDE DEF q, p, h, b, g, x
    <3> QED BY <1>0, <1>1, <1>2, <2>1, <2>3, <3>1, FullPool
  <2>5. h = Regrip(h, x, ToSet(m.blocks) \ {Null})
    <3>1. h \in [Holder -> SUBSET Block]
      BY <1>0 DEF PoolOK
    <3> HIDE DEF h
    <3> QED BY <1>1, <3>1, SameGrip
  <2>6. q \in QueuePool
    BY <2>4 DEF PoolOK
  <2>7. MambaOK(q, h, r, m)
    <3>1. \A d \in Block : q.hash[d] = IF d = b THEN g ELSE p.hash[d]
      BY <1>0, <2>4, PoolFields
    <3> HIDE DEF q, p, h, m, b, g
    <3>2. ToSet(m.blocks) \subseteq Block \cup {Null}
      BY <1>1, Members
    <3>3. MambaHashes(q, m.blocks)
      <4>1. ASSUME NEW d \in ToSet(m.blocks) \ {Null}
            PROVE  q.hash[d] = None \/ HashedIn(q, d, "mamba")
        <5>1. d \in Block /\ (p.hash[d] = None \/ HashedIn(p, d, "mamba"))
          BY <1>1, <3>2 DEF MambaOK, MambaHashes
        <5>2. g # None
          BY <2>3, QueueAssumption
        <5> QED BY <2>3, <3>1, <5>1, <5>2 DEF HashedIn
      <4> QED BY <4>1 DEF MambaHashes
    <3>4. Placed(q, h, r, m)
      <4>1. m.cur \in {m.latest, m.coarse}
            \/ Own(q, h, <<"mamba", r>>, m.blocks[m.cur + 1])
        <5>1. CASE i = m.cur
          BY <5>1 DEF m
        <5>2. CASE i # m.cur
          <6>1. /\ m.cur + 1 \in 1 .. Len(m.blocks) /\ m.blocks[m.cur + 1] # Null
                /\ m.cur + 1 # i + 1
            BY <1>2, <5>2 DEF Placed
          <6>2. m.blocks[m.cur + 1] \in Block /\ m.blocks[m.cur + 1] # b
            BY <1>1, <1>2, <6>1, Members
          <6>3. q.hash[m.blocks[m.cur + 1]] = p.hash[m.blocks[m.cur + 1]]
            BY <3>1, <6>2
          <6> QED BY <1>2, <2>4, <6>3 DEF Placed, Own
        <5> QED BY <5>1, <5>2
      <4> QED BY <1>2, <4>1 DEF Placed
    <3> QED BY <1>1, <3>3, <3>4 DEF MambaOK
  <2>8. Sound(t, B) /\ OnlyMamba(c, t, r) /\ t.pool = q /\ t.mamba[r] = m
    <3>1. x = MambaOf(r) /\ p = c.pool /\ h = Holding(c)
      BY DEF x
    <3> HIDE DEF q, m, x, t
    <3>2. Barer(p, q)
      BY <2>4, SameBarer
    <3> QED BY <1>1, <2>2, <2>4, <2>5, <2>6, <2>7, <3>1, <3>2, MambaStep DEF MambaStepped
  <2> QED BY <2>8 DEF TableNow
<1> QED
  BY <1>3, <1>4

\* A publication keeps the shape of the table.
LEMMA PublishMoves ==
  ASSUME NEW c, NEW B \in SUBSET Block, NEW r \in Req, Sound(c, B), NEW i \in Int,
         BlockAt(c, r, i) # Null, i \in {c.mamba[r].latest, c.mamba[r].coarse}
  PROVE  /\ MambaMoves(c, Publish(c, r, i), r, B)
         /\ Publish(c, r, i).mamba[r] = c.mamba[r]
<1> DEFINE t == Publish(c, r, i)
<1>1. TableNow(c, t, r, t.pool, c.mamba[r], B)
  BY PublishOK
<1> HIDE DEF t
<1> QED
  BY <1>1 DEF TableNow, MambaMoves, t

\* publish_completed_latest_checkpoint.
LEMMA PublishCompletedOK ==
  ASSUME NEW c, NEW B \in SUBSET Block, NEW r \in Req, Sound(c, B), NEW computed \in Nat
  PROVE  MambaMoves(c, PublishCompleted(c, r, computed), r, B)
<1> DEFINE m    == c.mamba[r]
           full == Min2(computed, Prompt[r]) \div H
           i    == Min2(full - 1, CheckpointIdx(r))
           m2   == [m EXCEPT !.latest = Max2(m.latest, i)]
           u    == [c EXCEPT !.mamba[r].latest = Max2(@, i)]
           t    == PublishCompleted(c, r, computed)
           out  == CheckpointIdx(r) = NoIdx \/ full = 0 \/ m.cur # i \/ BlockAt(c, r, i) = Null
<1>0. t = IF out THEN c ELSE Publish(u, r, i)
  BY DEF PublishCompleted
<1>1. i \in Int /\ i <= CheckpointIdx(r)
  <2>1. Min2(computed, Prompt[r]) \in Nat /\ H \in Nat \ {0}
    BY CheckpointFacts DEF Min2
  <2>2. full \in Nat
    BY <2>1
  <2>3. CheckpointIdx(r) \in Int
    BY CheckpointFacts DEF NoIdx
  <2> HIDE DEF full
  <2> QED BY <2>2, <2>3 DEF Min2
<1>2. CASE out
  BY <1>0, <1>2, MambaStays
<1>3. CASE ~out
  <2>0. c \in Cache /\ m \in MambaTable
    BY SoundFacts, MambaFacts
  <2>1. /\ i \in Nat /\ Placed(c.pool, Holding(c), r, m) /\ m.cur = i
        /\ MambaOK(c.pool, Holding(c), r, m)
    <3>1. BlockAt(c, r, i) # Null
      BY <1>3
    <3> HIDE DEF i
    <3> QED BY <1>1, <1>3, <3>1, BlockAtFacts, MambaFacts
  <2> HIDE DEF i
  <2>2. Max2(m.latest, i) = i
    BY <2>1 DEF Placed, Max2, NoIdx
  <2>3. u = WithMamba(c, r, c.pool, m2)
    BY <2>0 DEF WithMamba, Cache, MambaTable
  <2>4. /\ m2 \in MambaTable /\ m2.blocks = m.blocks /\ m2.alloc = m.alloc /\ m2.cur = m.cur
        /\ m2.pending = m.pending /\ m2.inflight = m.inflight /\ m2.latest = i
        /\ m2.coarse = m.coarse
    BY <1>1, <2>0, <2>2 DEF MambaTable
  <2>5. MambaOK(c.pool, Holding(c), r, m2)
    <3>1. Placed(c.pool, Holding(c), r, m2)
      <4> HIDE DEF m2, m
      <4> QED BY <1>1, <2>1, <2>4 DEF Placed
    <3> QED BY <2>1, <2>4, <3>1 DEF MambaOK
  <2>6. TableNow(c, u, r, c.pool, m2, B)
    <3> HIDE DEF m2, u
    <3> QED BY <2>3, <2>4, <2>5, MarksOK
  <2>7. MambaMoves(c, u, r, B)
    BY <2>4, <2>6 DEF TableNow, MambaMoves
  <2>8. BlockAt(u, r, i) # Null /\ i = u.mamba[r].latest
    <3>1. BlockAt(c, r, i) # Null
      BY <1>3
    <3> QED BY <2>4, <2>6, <3>1 DEF TableNow, BlockAt
  <2> HIDE DEF u, t
  <2>9. MambaMoves(u, t, r, B)
    <3>1. t = Publish(u, r, i) /\ Sound(u, B)
      BY <1>0, <1>3, <2>7 DEF MambaMoves
    <3> QED BY <1>1, <2>8, <3>1, PublishMoves
  <2> QED BY <2>7, <2>9, MambaMovesOn DEF t
<1> QED
  BY <1>2, <1>3

\* publish_latest_prefill_checkpoint.
LEMMA PublishPrefillOK ==
  ASSUME NEW c, NEW B \in SUBSET Block, NEW r \in Req, Sound(c, B)
  PROVE  MambaMoves(c, PublishPrefill(c, r), r, B)
<1> DEFINE i == CheckpointIdx(r)
           u == SetLatest(c, r, i)
           t == PublishPrefill(c, r)
<1>1. CASE ~CanPublishPrefill(c, r)
  BY <1>1, MambaStays DEF PublishPrefill
<1>2. CASE CanPublishPrefill(c, r)
  <2>1. t = Publish(u, r, i)
    BY <1>2 DEF PublishPrefill
  <2>2. i = CheckpointIdx(r) /\ i \in Int /\ BlockAt(c, r, i) # Null
    BY <1>2, CheckpointFacts DEF CanPublishPrefill, NoIdx
  <2> HIDE DEF i
  <2>3. SetsLatest(c, u, r, i, B)
    BY <2>2, SetLatestOK
  <2> HIDE DEF u, t
  <2>4. /\ MambaMoves(c, u, r, B) /\ BlockAt(u, r, i) # Null /\ Sound(u, B)
        /\ i = u.mamba[r].latest
    BY <2>2, <2>3 DEF SetsLatest, MambaMoves
  <2>5. MambaMoves(u, t, r, B)
    BY <2>1, <2>2, <2>4, PublishMoves
  <2> QED BY <2>4, <2>5, MambaMovesOn DEF t
<1> QED
  BY <1>1, <1>2

\* A checkpoint is published if its block is there, and no mark changes.
LEMMA PublishAtOK ==
  ASSUME NEW c, NEW B \in SUBSET Block, NEW r \in Req, Sound(c, B), NEW i \in Int,
         i \in {c.mamba[r].latest, c.mamba[r].coarse}
  PROVE  /\ MambaMoves(c, PublishAt(c, r, i), r, B)
         /\ PublishAt(c, r, i).mamba[r] = c.mamba[r]
<1>1. CASE BlockAt(c, r, i) = Null
  BY <1>1, MambaStays DEF PublishAt
<1>2. CASE BlockAt(c, r, i) # Null
  <2>1. PublishAt(c, r, i) = Publish(c, r, i)
    BY <1>2 DEF PublishAt
  <2> QED BY <1>2, <2>1, PublishMoves
<1> QED
  BY <1>1, <1>2

\* finalize_request_cache of the Mamba manager.
LEMMA MambaFinalizeOK ==
  ASSUME NEW c, NEW B \in SUBSET Block, NEW r \in Req, Sound(c, B)
  PROVE  MambaMoves(c, MambaFinalize(c, r), r, B)
<1> DEFINE p == PublishPrefill(c, r)
           m == p.mamba[r]
           t == PublishAt(p, r, m.latest)
           u == PublishAt(t, r, m.coarse)
<1>1. MambaFinalize(c, r) = IF CoarseCacheable(m) THEN u ELSE t
  BY DEF MambaFinalize, PublishCheckpoints
<1>2. MambaMoves(c, p, r, B)
  BY PublishPrefillOK
<1> HIDE DEF p
<1>3. Sound(p, B) /\ m \in MambaTable
  BY <1>2, MambaFacts DEF MambaMoves
<1>4. m.latest \in Int /\ m.coarse \in Int
  BY <1>3 DEF MambaTable
<1>5. MambaMoves(p, t, r, B) /\ t.mamba[r] = m
  BY <1>3, <1>4, PublishAtOK
<1> HIDE DEF t
<1>6. MambaMoves(t, u, r, B)
  BY <1>4, <1>5, PublishAtOK DEF MambaMoves
<1>7. MambaMoves(c, t, r, B)
  BY <1>2, <1>5, MambaMovesOn
<1>8. MambaMoves(c, u, r, B)
  BY <1>6, <1>7, MambaMovesOn
<1> QED
  BY <1>1, <1>7, <1>8

\* remove_skipped_blocks.
LEMMA RemoveSkippedOK ==
  ASSUME NEW c, NEW B \in SUBSET Block, NEW r \in Req, Sound(c, B), NEW computed \in Nat
  PROVE  MambaMoves(c, RemoveSkipped(c, r, computed), r, B)
<1> DEFINE N == Max2(0, Min2((computed - 1) \div H, Len(c.mamba[r].blocks)))
           body(f) == [k \in 0 .. N |-> IF k = 0 THEN c ELSE FreeUnprotected(f[k - 1], r, N - k)]
           removed == CHOOSE f : f = body(f)
           X == {t \in Cache : MambaMoves(c, t, r, B)}
           next == [p \in Nat \X X |-> FreeUnprotected(p[2], r, N - p[1])]
<1>0. N \in Nat
  <2>1. (computed - 1) \div H \in Int
    BY CheckpointFacts
  <2>2. Len(c.mamba[r].blocks) \in Nat
    BY MambaFacts
  <2> QED BY <2>1, <2>2 DEF Min2, Max2
<1> HIDE DEF N
<1>1. RemoveSkipped(c, r, computed) = removed[N]
  BY DEF RemoveSkipped, N
<1>2. ASSUME NEW t \in X, NEW k \in Int PROVE FreeUnprotected(t, r, k) \in X
  <2>1. MambaMoves(c, t, r, B) /\ Sound(t, B)
    BY DEF MambaMoves
  <2>2. MambaMoves(t, FreeUnprotected(t, r, k), r, B)
    BY <2>1, FreeUnprotectedOK
  <2>3. MambaMoves(c, FreeUnprotected(t, r, k), r, B)
    BY <2>1, <2>2, MambaMovesOn
  <2> QED BY <2>3 DEF MambaMoves, Sound
<1>3. next \in [Nat \X X -> X] /\ c \in X
  <2>1. c \in X
    BY MambaStays DEF Sound
  <2>2. ASSUME NEW p \in Nat \X X PROVE next[p] \in X
    <3>1. p[1] \in Nat /\ p[2] \in X
      OBVIOUS
    <3>2. N - p[1] \in Int
      BY <1>0, <3>1
    <3> HIDE DEF X
    <3>3. FreeUnprotected(p[2], r, N - p[1]) \in X
      BY <1>2, <3>1, <3>2
    <3> QED BY <3>3
  <2> HIDE DEF X
  <2> QED BY <2>1, <2>2
<1>4. PICK f \in [0 .. N -> X] : Iterates(f, N, c, next)
  <2> HIDE DEF next, X
  <2> QED BY <1>0, <1>3, Recursion
<1>5. f = body(f)
  <2>1. ASSUME NEW k \in 1 .. N PROVE f[k] = FreeUnprotected(f[k - 1], r, N - k)
    <3>1. k \in Nat /\ k - 1 \in 0 .. N
      BY <1>0
    <3>2. f[k] = next[<<k, f[k - 1]>>]
      BY <1>4 DEF Iterates
    <3> HIDE DEF X
    <3>3. <<k, f[k - 1]>> \in Nat \X X
      BY <1>4, <3>1
    <3> QED BY <3>2, <3>3
  <2>2. f[0] = c
    BY <1>4 DEF Iterates
  <2> HIDE DEF X
  <2>3. \A k \in 0 .. N : f[k] = body(f)[k]
    BY <1>0, <2>1, <2>2
  <2>4. f = [k \in 0 .. N |-> f[k]]
    BY <1>4
  <2> QED BY <2>3, <2>4
<1>6. removed = body(removed)
  BY <1>5
<1> HIDE DEF removed
<1>7. removed[0] = c /\ \A k \in 1 .. N : removed[k] = FreeUnprotected(removed[k - 1], r, N - k)
  <2>1. \A k \in 0 .. N : removed[k] = body(removed)[k]
    BY <1>6
  <2> QED BY <1>0, <2>1
<1> DEFINE Z == {k \in Nat : k <= N => removed[k] \in X}
<1>8. 0 \in Z
  <2> HIDE DEF X
  <2> QED BY <1>3, <1>7
<1>9. ASSUME NEW k \in Nat, k \in Z PROVE k + 1 \in Z
  <2> SUFFICES ASSUME k + 1 <= N PROVE removed[k + 1] \in X
    OBVIOUS
  <2>1. k + 1 \in 1 .. N /\ N - (k + 1) \in Int /\ (k + 1) - 1 = k
    BY <1>0
  <2> HIDE DEF X
  <2>2. removed[k] \in X
    BY <1>0, <1>9
  <2>3. removed[k + 1] = FreeUnprotected(removed[k], r, N - (k + 1))
    BY <1>7, <2>1
  <2> QED BY <1>2, <2>1, <2>2, <2>3
<1>10. removed[N] \in X
  <2>1. N \in Z
    <3> HIDE DEF Z
    <3> QED BY <1>0, <1>8, <1>9, NumberInduction
  <2> QED BY <1>0, <2>1
<1> QED
  BY <1>1, <1>10

-----------------------------------------------------------------------------
(* The running state moves on.                                             *)

\* A table that grew by n null blocks and b.
AppendedBy(bs, n, b, bs2) ==
  /\ bs2 \in Seq(Block \cup {Null}) /\ Len(bs2) = Len(bs) + n + 1 /\ Len(bs) \in Nat
  /\ bs2[Len(bs) + n + 1] = b
  /\ MambaShape(bs2) /\ ToSet(bs2) \ {Null} = (ToSet(bs) \ {Null}) \cup {b}

\* A table that grows by null blocks and a new one keeps its shape.
LEMMA AppendedTable ==
  ASSUME NEW bs \in Seq(Block \cup {Null}), NEW n \in Nat, NEW b \in Block, b \notin ToSet(bs),
         MambaShape(bs)
  PROVE  AppendedBy(bs, n, b, Append(bs \o Nulls(n), b))
<1> DEFINE u   == bs \o Nulls(n)
           bs2 == Append(u, b)
           N   == Len(bs)
<1>0. N \in Nat /\ b # Null
  BY NullAssumption
<1>1. Nulls(n) \in Seq(Block \cup {Null}) /\ Len(Nulls(n)) = n
  BY DEF Nulls
<1>2. /\ u \in Seq(Block \cup {Null}) /\ Len(u) = N + n
      /\ \A i \in 1 .. N + n : u[i] = IF i <= N THEN bs[i] ELSE Null
  BY <1>0, <1>1 DEF Nulls
<1> HIDE DEF u
<1>3. /\ bs2 \in Seq(Block \cup {Null}) /\ Len(bs2) = N + n + 1 /\ bs2[N + n + 1] = b
      /\ \A i \in 1 .. N + n : bs2[i] = u[i]
  BY <1>0, <1>2
<1> HIDE DEF bs2
<1>4. \A i \in 1 .. N + n + 1 :
        bs2[i] = IF i <= N THEN bs[i] ELSE IF i = N + n + 1 THEN b ELSE Null
  BY <1>0, <1>2, <1>3
<1>5. \A i \in 1 .. N : bs[i] # b
  BY Members
<1>6. MambaShape(bs2)
  <2> SUFFICES ASSUME NEW i \in 1 .. N + n + 1, NEW j \in 1 .. N + n + 1,
                      bs2[i] = bs2[j], bs2[i] # Null
               PROVE  i = j
    BY <1>3 DEF MambaShape
  <2>1. (i <= N => bs2[i] = bs[i]) /\ (i > N /\ i # N + n + 1 => bs2[i] = Null)
    BY <1>0, <1>4
  <2>2. (j <= N => bs2[j] = bs[j]) /\ (j > N /\ j # N + n + 1 => bs2[j] = Null)
    BY <1>0, <1>4
  <2>3. CASE i <= N /\ j <= N
    <3>1. i \in 1 .. N /\ j \in 1 .. N /\ bs[i] = bs[j] /\ bs[i] # Null
      BY <2>1, <2>2, <2>3
    <3> QED BY <3>1 DEF MambaShape
  <2>4. CASE i <= N /\ ~(j <= N)
    <3>1. j = N + n + 1
      BY <1>0, <2>2, <2>4
    <3>2. i \in 1 .. N /\ bs[i] = b
      BY <1>3, <2>1, <2>4, <3>1
    <3> QED BY <1>5, <3>2
  <2>5. CASE ~(i <= N) /\ j <= N
    <3>1. i = N + n + 1
      BY <1>0, <2>1, <2>5
    <3>2. j \in 1 .. N /\ bs[j] = b
      BY <1>3, <2>2, <2>5, <3>1
    <3> QED BY <1>5, <3>2
  <2>6. CASE ~(i <= N) /\ ~(j <= N)
    BY <1>0, <2>1, <2>2, <2>6
  <2> QED BY <2>3, <2>4, <2>5, <2>6
<1>7. ToSet(bs2) \ {Null} = (ToSet(bs) \ {Null}) \cup {b}
  <2>1. ASSUME NEW d \in ToSet(bs2), d # Null PROVE d \in ToSet(bs) \/ d = b
    <3>1. PICK i \in 1 .. N + n + 1 : bs2[i] = d
      BY <1>3, Members
    <3>2. CASE i <= N
      <4>1. i \in 1 .. N /\ bs[i] = d
        BY <1>4, <3>1, <3>2
      <4> QED BY <4>1, Members
    <3>3. CASE ~(i <= N)
      BY <1>4, <2>1, <3>1, <3>3
    <3> QED BY <3>2, <3>3
  <2>2. ASSUME NEW d \in ToSet(bs) PROVE d \in ToSet(bs2)
    <3>1. PICK i \in 1 .. N : bs[i] = d
      BY Members
    <3>2. i \in 1 .. N + n + 1 /\ bs2[i] = d
      BY <1>0, <1>4, <3>1
    <3> QED BY <1>3, <3>2, Members
  <2>3. b \in ToSet(bs2)
    <3>1. N + n + 1 \in 1 .. N + n + 1
      BY <1>0
    <3> QED BY <1>3, <3>1, Members
  <2> QED BY <1>0, <2>1, <2>2, <2>3
<1> QED
  BY <1>0, <1>3, <1>6, <1>7 DEF AppendedBy, bs2, u

\* The marks of a table whose running state is the last, and nobody else's.
Marked(r, m) ==
  /\ m.alloc /\ m.cur \in Nat
  /\ m.latest <= m.cur /\ m.latest <= CheckpointIdx(r) /\ m.latest \in Nat \cup {NoIdx}
  /\ m.coarse \in {NoIdx, CheckpointIdx(r)}
  /\ m.pending < m.cur /\ m.pending \in Nat \cup {NoIdx}
  /\ DOMAIN m.inflight \subseteq 0 .. m.cur - 1

\* A state of its own gets a new block.
LEMMA NewState ==
  ASSUME NEW c, NEW B \in SUBSET Block, NEW r \in Req, SoundBut(c, B, MambaOf(r)),
         NumFree(c.pool) >= 1, NEW bs, bs = c.mamba[r].blocks,
         MambaShape(bs), MambaHashes(c.pool, bs),
         NEW m2 \in MambaTable, Marked(r, m2), m2.cur >= Len(bs),
         m2.blocks = bs \o Nulls(m2.cur - Len(bs)) \o NewBlocks(c.pool, 1)
  PROVE  LET t == WithMamba(c, r, GetNewBlocks(c.pool, 1), m2)
         IN  Sound(t, B) /\ OnlyMamba(c, t, r) /\ t.mamba[r] = m2
<1> DEFINE x  == MambaOf(r)
           p  == c.pool
           h  == Holding(c)
           q  == GetNewBlocks(p, 1)
           nb == NewBlocks(p, 1)
           h2 == Regrip(h, x, h[x] \cup ToSet(nb))
           i  == m2.cur
           t  == WithMamba(c, r, q, m2)
<1>0. c \in Cache /\ p \in QueuePool /\ PoolOK(p, h, B) /\ x \in Holder
  BY CacheFields DEF SoundBut, Cache
<1>1. /\ bs \in Seq(Block \cup {Null}) /\ Len(bs) \in Nat /\ h[x] = ToSet(bs) \ {Null}
  BY <1>0, CacheFields, MambaHolds, Members, SMTT(40) DEF MambaTable
<1>2. /\ nb \in Queue(Block) /\ Len(nb) = 1 /\ ToSet(nb) \subseteq B
      /\ \A b \in ToSet(nb) : \A y \in Holder : b \notin h[y]
      /\ PoolOK(q, h2, B) /\ Spares(p, h, q, h2, x)
      /\ \A b \in ToSet(nb) : q.hash[b] = None /\ q.pids[b] = {}
      /\ \A b \in Block \ ToSet(nb) : q.hash[b] = p.hash[b] /\ q.pids[b] = p.pids[b]
  <2>1. 1 \in Nat /\ 1 <= NumFree(p)
    BY <1>0, PoolFields, Members DEF NumFree, Queue
  <2>2. Allocated(p, h, B, x, 1, q, nb)
    <3> HIDE DEF x, p, h
    <3> QED BY <1>0, <2>1, AllocatePool
  <2> HIDE DEF x, p, h, q, nb
  <2> QED BY <2>2 DEF Allocated
<1>3. PICK b \in Block : nb = <<b>> /\ ToSet(nb) = {b}
  <2>1. nb \in Seq(Block)
    BY <1>2 DEF Queue
  <2>2. nb = <<nb[1]>> /\ nb[1] \in Block
    BY <1>2, <2>1
  <2> QED BY <2>2, QueueOne
<1> HIDE DEF nb, q
<1>4. i \in Nat /\ i - Len(bs) \in Nat
  BY <1>1 DEF Marked
<1>5. m2.blocks = Append(bs \o Nulls(i - Len(bs)), b)
  <2> DEFINE ns == Nulls(i - Len(bs))
             u  == bs \o ns
  <2>1. m2.blocks = u \o nb
    BY DEF nb
  <2>2. ns \in Seq(Block \cup {Null})
    <3> DEFINE n == i - Len(bs)
    <3> HIDE DEF n
    <3>1. Nulls(n) \in Seq(Block \cup {Null})
      BY <1>4 DEF n, Nulls
    <3> QED BY <3>1 DEF n
  <2> HIDE DEF ns
  <2>3. u \in Seq(Block \cup {Null})
    BY <1>1, <2>2
  <2> HIDE DEF u
  <2>4. u \o <<b>> = Append(u, b)
    BY <2>3
  <2> QED BY <1>3, <2>1, <2>4, Zenon DEF u, ns
<1>6. b \notin ToSet(bs)
  <2>1. b \notin h[x]
    BY <1>0, <1>2, <1>3
  <2> QED BY <1>1, <2>1, NullAssumption
<1>7. AppendedBy(bs, i - Len(bs), b, m2.blocks)
  <2> DEFINE n == i - Len(bs)
  <2> HIDE DEF n
  <2>1. AppendedBy(bs, n, b, Append(bs \o Nulls(n), b))
    BY <1>1, <1>4, <1>6, AppendedTable DEF n
  <2> QED BY <1>5, <2>1 DEF n
<1>8. h2 = Regrip(h, x, ToSet(m2.blocks) \ {Null})
  BY <1>1, <1>3, <1>7 DEF AppendedBy
<1>9. /\ h2[x] = h[x] \cup {b} /\ \A y \in Holder \ {x} : h2[y] = h[y]
  BY <1>0, <1>3 DEF Regrip, Holding
<1>10. MambaOK(q, h2, r, m2)
  <2>1. MambaHashes(q, m2.blocks)
    <3>1. ASSUME NEW d \in ToSet(m2.blocks) \ {Null} PROVE q.hash[d] = None \/ HashedIn(q, d, "mamba")
      <4>1. CASE d = b
        BY <1>2, <1>3, <4>1
      <4>2. CASE d # b
        <5>1. d \in ToSet(bs) \ {Null} /\ d \in Block
          BY <1>1, <1>7, <4>2, Members, SMTT(40) DEF AppendedBy
        <5>2. p.hash[d] = None \/ HashedIn(p, d, "mamba")
          BY <5>1 DEF MambaHashes
        <5>3. q.hash[d] = p.hash[d]
          BY <1>2, <1>3, <4>2, <5>1
        <5> QED BY <5>2, <5>3 DEF HashedIn
      <4> QED BY <4>1, <4>2
    <3> QED BY <3>1 DEF MambaHashes
  <2>2. Own(q, h2, <<"mamba", r>>, b)
    <3>1. q.hash[b] = None /\ q.pids[b] = {}
      BY <1>2, <1>3
    <3>2. ASSUME NEW y \in Holder, b \in h2[y] PROVE y = x
      BY <1>2, <1>3, <1>9, <3>2
    <3> QED BY <3>1, <3>2 DEF Own, MambaOf
  <2>3. Len(m2.blocks) = i + 1 /\ m2.blocks[i + 1] = b /\ b # Null
    <3>1. Len(bs) + (i - Len(bs)) + 1 = i + 1
      BY <1>1, <1>4
    <3> QED BY <1>7, <3>1, NullAssumption DEF AppendedBy
  <2>4. Placed(q, h2, r, m2)
    BY <2>2, <2>3 DEF Placed, Marked
  <2> QED BY <1>7, <2>1, <2>4, Zenon DEF MambaOK, AppendedBy
<1>11. q \in QueuePool
  BY <1>2 DEF PoolOK
<1>12. Sound(t, B) /\ OnlyMamba(c, t, r) /\ t.pool = q /\ t.mamba[r] = m2
  <2>1. x = MambaOf(r) /\ p = c.pool /\ h = Holding(c) /\ t = WithMamba(c, r, q, m2)
    BY DEF x
  <2> HIDE DEF x, h2, t
  <2>2. Barer(p, q)
    BY <1>2, <1>3 DEF Barer
  <2>3. MambaStepped(c, t, r, q, m2, h2, B)
    BY <1>2, <1>8, <1>11, <2>1, <2>2, MambaStep
  <2> QED BY <1>10, <2>3 DEF MambaStepped
<1> QED
  BY <1>12 DEF q

\* The Mamba table of r has got a place for its running state.
MambaPlaced(c, t, r, B) == Sound(t, B) /\ OnlyMamba(c, t, r) /\ t.mamba[r].alloc

\* A table without a running state, as a lookup leaves it.
Unplaced(m) ==
  /\ ~m.alloc /\ m.cur = NoIdx /\ m.pending = NoIdx /\ m.inflight = EmptyBag
  /\ m.latest = NoIdx /\ m.coarse = NoIdx

\* Rounding up gives a number.
LEMMA CeilDivType ==
  ASSUME NEW n \in Nat, NEW d \in Nat \ {0}
  PROVE  CeilDiv(n, d) \in Nat
BY DEF CeilDiv

\* The first allocation, behind the state of a hit if there is one.
LEMMA MambaAllocateNew ==
  ASSUME NEW c, NEW B \in SUBSET Block, NEW r \in Req, SoundBut(c, B, MambaOf(r)),
         Unplaced(c.mamba[r]), MambaShape(c.mamba[r].blocks),
         MambaHashes(c.pool, c.mamba[r].blocks), NumFree(c.pool) >= 1,
         NEW tokens \in Nat, CeilDiv(tokens, H) > Len(c.mamba[r].blocks)
  PROVE  MambaPlaced(c, MambaAllocate(c, r, tokens), r, B)
<1> DEFINE m  == c.mamba[r]
           bs == m.blocks
           i  == CeilDiv(tokens, H) - 1
           p  == c.pool
           q  == GetNewBlocks(p, 1)
           nb == NewBlocks(p, 1)
           bs2 == bs \o Nulls(i - Len(bs)) \o nb
           m2 == [m EXCEPT !.cur = i, !.alloc = TRUE, !.blocks = bs2]
           at == [c EXCEPT !.mamba[r].cur = i, !.mamba[r].alloc = TRUE]
           t  == MambaAllocate(c, r, tokens)
<1>0. /\ c \in Cache /\ m \in MambaTable /\ bs \in Seq(Block \cup {Null}) /\ Len(bs) \in Nat
      /\ PoolOK(p, Holding(c), B) /\ MambaOf(r) \in Holder
  BY CacheFields, Members DEF SoundBut, MambaTable
<1>1. i \in Nat /\ i >= Len(bs) /\ i - Len(bs) \in Nat
  <2> DEFINE k == CeilDiv(tokens, H)
  <2>1. k \in Nat /\ k > Len(bs)
    BY CeilDivType, CheckpointFacts
  <2> HIDE DEF k
  <2>2. k - 1 \in Nat /\ k - 1 >= Len(bs) /\ (k - 1) - Len(bs) \in Nat
    BY <1>0, <2>1
  <2> QED BY <2>2 DEF k
<1>2. t = AppendNewState(at, r, i)
  BY <1>1 DEF MambaAllocate, Unplaced
<1> HIDE DEF i
<1>3. /\ at.pool = p /\ at.mamba[r].blocks = bs
      /\ at = [c EXCEPT !.mamba[r] = [m EXCEPT !.cur = i, !.alloc = TRUE]]
  BY <1>0 DEF Cache, MambaTable
<1>4. t = WithMamba(c, r, q, m2)
  <2>1. t = [at EXCEPT !.pool = q, !.mamba[r].blocks = bs2]
    BY <1>2, <1>3 DEF AppendNewState
  <2> DEFINE m1 == [m EXCEPT !.cur = i, !.alloc = TRUE]
  <2> HIDE DEF q, bs2
  <2>2. c.mamba \in [Req -> MambaTable] /\ m2 = [m1 EXCEPT !.blocks = bs2]
    BY <1>0 DEF Cache
  <2> HIDE DEF m1, m2, at
  <2>3. /\ at = [c EXCEPT !.mamba = [c.mamba EXCEPT ![r] = m1]]
        /\ t = [at EXCEPT !.pool = q,
                          !.mamba = [at.mamba EXCEPT ![r] = [at.mamba[r] EXCEPT !.blocks = bs2]]]
    BY <1>3, <2>1 DEF m1
  <2>4. at.mamba = [c.mamba EXCEPT ![r] = m1]
    BY <1>0, <2>3 DEF Cache
  <2>5. at.mamba[r] = m1
    BY <2>2, <2>4
  <2>6. [at.mamba EXCEPT ![r] = m2] = [c.mamba EXCEPT ![r] = m2]
    BY <2>2, <2>4
  <2>7. t = [at EXCEPT !.pool = q, !.mamba = [c.mamba EXCEPT ![r] = m2]]
    BY <2>2, <2>3, <2>5, <2>6
  <2> QED BY <1>0, <2>3, <2>7 DEF WithMamba, Cache
<1>5. bs2 \in Seq(Block \cup {Null})
  <2>1. nb \in Seq(Block)
    <3> DEFINE h == Holding(c)
               x == MambaOf(r)
    <3>1. 1 \in Nat /\ 1 <= NumFree(p) /\ PoolOK(p, h, B) /\ x \in Holder
      BY <1>0, PoolFields, Members DEF PoolOK, NumFree, Queue
    <3>2. Allocated(p, h, B, x, 1, q, nb)
      <4> HIDE DEF x, p, h
      <4> QED BY <3>1, AllocatePool
    <3> QED BY <3>2 DEF Allocated, Queue
  <2> DEFINE n == i - Len(bs)
  <2> HIDE DEF n, nb
  <2>2. Nulls(n) \in Seq(Block \cup {Null})
    BY <1>1 DEF n, Nulls
  <2>3. bs \o Nulls(n) \in Seq(Block \cup {Null})
    BY <1>0, <2>2
  <2>4. bs \o Nulls(n) \o nb \in Seq(Block \cup {Null})
    BY <2>1, <2>3
  <2> QED BY <2>4 DEF n
<1>6. /\ m2 \in MambaTable /\ m2.alloc = TRUE /\ m2.cur = i /\ m2.blocks = bs2
      /\ m2.pending = m.pending /\ m2.inflight = m.inflight
      /\ m2.latest = m.latest /\ m2.coarse = m.coarse
  <2>1. i \in Int
    BY <1>1
  <2>2. bs2 \in Seq(Block \cup {Null}) /\ m \in MambaTable
    BY <1>0, <1>5
  <2> HIDE DEF bs2, m
  <2> QED BY <2>1, <2>2 DEF MambaTable
<1>7. Marked(r, m2)
  <2>1. CheckpointIdx(r) \in Nat \cup {NoIdx} /\ NoIdx = -1
    BY CheckpointFacts DEF NoIdx
  <2>2. DOMAIN m2.inflight = {}
    BY <1>6 DEF Unplaced, EmptyBag, SetToBag
  <2> HIDE DEF m2
  <2> QED BY <1>1, <1>6, <2>1, <2>2 DEF Marked, Unplaced
<1>8. Sound(t, B) /\ OnlyMamba(c, t, r) /\ t.mamba[r] = m2
  <2>1. m2.blocks = bs \o Nulls(m2.cur - Len(bs)) \o NewBlocks(c.pool, 1) /\ m2.cur >= Len(bs)
    BY <1>1, <1>6, Zenon
  <2>2. bs = c.mamba[r].blocks /\ q = GetNewBlocks(c.pool, 1) /\ m2 \in MambaTable
        /\ t = WithMamba(c, r, q, m2)
    BY <1>4, <1>6
  <2> HIDE DEF m2, bs, q, t
  <2> QED BY <1>7, <2>1, <2>2, NewState, Zenon
<1> QED
  BY <1>6, <1>8 DEF MambaPlaced

\* The first free block is a block.
LEMMA FirstFree ==
  ASSUME NEW q, NEW hold, NEW B \in SUBSET Block, NEW x \in Holder, PoolOK(q, hold, B),
         NumFree(q) >= 1
  PROVE  NewBlocks(q, 1) \in Seq(Block)
<1>1. 1 \in Nat /\ 1 <= NumFree(q)
  BY PoolFields, Members DEF PoolOK, NumFree, Queue
<1>2. Allocated(q, hold, B, x, 1, GetNewBlocks(q, 1), NewBlocks(q, 1))
  BY <1>1, AllocatePool
<1> QED
  BY <1>2 DEF Allocated, Queue

\* The table with other blocks, and then with other marks.
Moved(c, r, q, a, i, j, n, t, m2) ==
  /\ n = [c EXCEPT !.pool = q, !.mamba[r].blocks = a]
  /\ t = [n EXCEPT !.mamba[r].cur = i, !.mamba[r].pending = j]
  /\ m2 = [c.mamba[r] EXCEPT !.blocks = a, !.cur = i, !.pending = j]

\* The two assignments make one change of the table.
LEMMA MovedTable ==
  ASSUME NEW c \in Cache, NEW r \in Req, NEW q, NEW a, NEW i, NEW j, NEW n, NEW t, NEW m2,
         Moved(c, r, q, a, i, j, n, t, m2)
  PROVE  t = WithMamba(c, r, q, m2)
<1> DEFINE m  == c.mamba[r]
           m1 == [m EXCEPT !.blocks = a]
           f  == [c.mamba EXCEPT ![r] = m1]
<1>1. c.mamba \in [Req -> MambaTable] /\ m \in MambaTable
  BY CacheFields
<1>2. n = [c EXCEPT !.pool = q, !.mamba = f]
  BY DEF Moved
<1>3. n.mamba = f /\ f[r] = m1 /\ DOMAIN f = Req /\ r \in Req
  BY <1>1, <1>2 DEF Cache
<1>4. m2 = [m1 EXCEPT !.cur = i, !.pending = j]
  BY <1>1 DEF MambaTable, Moved
<1> HIDE DEF f, m1, m
<1>5. t = [n EXCEPT !.mamba = [[f EXCEPT ![r] = [m1 EXCEPT !.cur = i]] EXCEPT ![r] = m2]]
  <2> DEFINE n1 == [n EXCEPT !.mamba[r].cur = i]
             g  == [f EXCEPT ![r] = [m1 EXCEPT !.cur = i]]
  <2>1. n1 = [n EXCEPT !.mamba = g]
    BY <1>3
  <2>2. t = [n1 EXCEPT !.mamba[r].pending = j]
    BY DEF Moved
  <2>3. n1.mamba = g /\ g[r] = [m1 EXCEPT !.cur = i]
    BY <1>2, <1>3, <2>1 DEF Cache
  <2>4. m2 = [g[r] EXCEPT !.pending = j]
    BY <1>4, <2>3
  <2> HIDE DEF n1, g
  <2>5. t = [n1 EXCEPT !.mamba = [g EXCEPT ![r] = m2]]
    BY <2>2, <2>3, <2>4
  <2>6. t = [n EXCEPT !.mamba = [g EXCEPT ![r] = m2]]
    BY <1>2, <2>1, <2>5 DEF Cache
  <2> QED BY <2>6 DEF g
<1>6. [[f EXCEPT ![r] = [m1 EXCEPT !.cur = i]] EXCEPT ![r] = m2] = [c.mamba EXCEPT ![r] = m2]
  BY <1>1 DEF f
<1> QED
  BY <1>2, <1>5, <1>6 DEF WithMamba, Cache

\* The next place of a running state: a new block behind a checkpoint, or its own.
LEMMA MambaAllocateNext ==
  ASSUME NEW c, NEW B \in SUBSET Block, NEW r \in Req, Sound(c, B), c.mamba[r].alloc,
         NEW tokens \in Nat,
         /\ CeilDiv(tokens, H) - 1 > c.mamba[r].cur
         /\ c.mamba[r].cur \in Checkpoints(c.mamba[r])
         => NumFree(c.pool) >= 1
  PROVE  MambaPlaced(c, MambaAllocate(c, r, tokens), r, B)
<1> DEFINE m  == c.mamba[r]
           bs == m.blocks
           i  == CeilDiv(tokens, H) - 1
           x  == MambaOf(r)
           p  == c.pool
           h  == Holding(c)
           b  == BlockAt(c, r, m.cur)
           t  == MambaAllocate(c, r, tokens)
           keep == m.cur \in Checkpoints(m) \cup Sources(m) \/ Hashed(c, b)
           next == IF keep THEN AppendNewState(c, r, i) ELSE MoveState(c, r, i)
<1>0. /\ c \in Cache /\ PoolOK(p, h, B) /\ x \in Holder
      /\ m \in MambaTable /\ bs \in Seq(Block \cup {Null}) /\ Len(bs) \in Nat
      /\ MambaOK(p, h, r, m) /\ SoundBut(c, B, x) /\ h[x] = ToSet(bs) \ {Null}
  BY SoundFacts, MambaFacts
<1>1. Placed(p, h, r, m)
  BY <1>0 DEF MambaOK, NoMamba
<1>2. /\ m.cur \in Nat /\ Len(bs) = m.cur + 1 /\ bs[m.cur + 1] # Null
      /\ m.latest <= m.cur /\ m.latest \in Nat \cup {NoIdx} /\ m.latest <= CheckpointIdx(r)
      /\ m.coarse \in {NoIdx, CheckpointIdx(r)}
      /\ m.pending < m.cur /\ m.pending \in Nat \cup {NoIdx}
      /\ DOMAIN m.inflight \subseteq 0 .. m.cur - 1
      /\ m.cur \in {m.latest, m.coarse} \/ Own(p, h, <<"mamba", r>>, bs[m.cur + 1])
  BY <1>1 DEF Placed
<1>3. b = bs[m.cur + 1] /\ b \in Block
  <2>1. m.cur + 1 \in 1 .. Len(bs) /\ DOMAIN bs = 1 .. Len(bs)
    BY <1>0, <1>2
  <2> QED BY <1>0, <1>2, <2>1, Members DEF BlockAt
<1>4. i \in Int
  <2> DEFINE k == CeilDiv(tokens, H)
  <2>1. k \in Nat
    BY CeilDivType, CheckpointFacts
  <2> HIDE DEF k
  <2> QED BY <2>1 DEF k
<1>5. t = IF i <= m.cur THEN c ELSE [next EXCEPT !.mamba[r].cur = i, !.mamba[r].pending = m.cur]
  BY DEF MambaAllocate
<1>6. CASE i <= m.cur
  BY <1>5, <1>6 DEF MambaPlaced, OnlyMamba, Barer
<1>7. CASE ~(i <= m.cur)
  <2>0. i > m.cur /\ i \in Nat /\ i - Len(bs) \in Nat /\ i >= Len(bs)
    BY <1>0, <1>2, <1>4, <1>7, SMTT(40)
  <2>1. keep => m.cur \in Checkpoints(m)
    <3>1. m.cur \notin Sources(m)
      BY <1>2 DEF Sources, BagToSet
    <3>2. Hashed(c, b) => m.cur \in {m.latest, m.coarse}
      BY <1>2, <1>3, Zenon DEF Hashed, Own
    <3>3. m.cur # NoIdx
      BY <1>2 DEF NoIdx
    <3> QED BY <3>1, <3>2, <3>3 DEF Checkpoints
  <2> DEFINE bs2(a) == [m EXCEPT !.blocks = a, !.cur = i, !.pending = m.cur]
  <2>2. ASSUME NEW a \in Seq(Block \cup {Null}), NEW q,
               next = [c EXCEPT !.pool = q, !.mamba[r].blocks = a]
        PROVE  t = WithMamba(c, r, q, bs2(a))
    <3> DEFINE m2 == bs2(a)
    <3>1. t = [next EXCEPT !.mamba[r].cur = i, !.mamba[r].pending = m.cur]
      BY <1>5, <1>7
    <3>2. m2 = [c.mamba[r] EXCEPT !.blocks = a, !.cur = i, !.pending = m.cur]
      OBVIOUS
    <3> DEFINE j == m.cur
    <3>3. c \in Cache /\ Moved(c, r, q, a, i, j, next, t, m2)
      BY <1>0, <2>2, <3>1, <3>2 DEF Moved
    <3> HIDE DEF m2, t, next, i, j
    <3>4. t = WithMamba(c, r, q, m2)
      BY <3>3, MovedTable
    <3> QED BY <3>4 DEF m2
  <2> HIDE DEF i
  <2>3. ASSUME NEW a \in Seq(Block \cup {Null}), NEW m2, m2 = bs2(a)
        PROVE  /\ m2 \in MambaTable /\ m2.blocks = a /\ m2.cur = i /\ m2.alloc = TRUE
               /\ m2.latest = m.latest /\ m2.coarse = m.coarse /\ Marked(r, m2)
    <3>1. /\ m2 \in MambaTable /\ m2.blocks = a /\ m2.cur = i /\ m2.alloc = TRUE
          /\ m2.latest = m.latest /\ m2.coarse = m.coarse /\ m2.pending = m.cur
          /\ m2.inflight = m.inflight
      <4>1. m.alloc = TRUE /\ i \in Int /\ m.cur \in Int /\ m \in MambaTable
        BY <1>0, <1>1, <1>2, <2>0 DEF Placed, MambaTable
      <4> HIDE DEF m
      <4> QED BY <2>3, <4>1 DEF MambaTable
    <3> HIDE DEF m
    <3>2. DOMAIN m.inflight \subseteq 0 .. i - 1
      <4> DEFINE k == m.cur
      <4>1. k \in Nat /\ i \in Nat /\ i > k /\ DOMAIN m.inflight \subseteq 0 .. k - 1
        BY <1>2, <2>0
      <4> HIDE DEF k
      <4>2. 0 .. k - 1 \subseteq 0 .. i - 1
        BY <4>1
      <4> QED BY <4>1, <4>2
    <3>3. m.latest <= i
      <4> DEFINE k == m.cur
                 l == m.latest
      <4>1. k \in Nat /\ i \in Nat /\ i > k /\ l <= k /\ l \in Int
        BY <1>2, <2>0 DEF NoIdx
      <4> HIDE DEF k, l
      <4>2. l <= i
        BY <4>1
      <4> QED BY <4>2 DEF l
    <3>4. Marked(r, m2)
      BY <1>2, <2>0, <3>1, <3>2, <3>3 DEF Marked
    <3> QED BY <3>1, <3>4
  <2>4. CASE keep
    <3> DEFINE q  == GetNewBlocks(p, 1)
               nb == NewBlocks(p, 1)
               a  == bs \o Nulls(i - Len(bs)) \o nb
               m2 == bs2(a)
    <3>1. NumFree(p) >= 1
      BY <2>0, <2>1, <2>4 DEF i
    <3>2. a \in Seq(Block \cup {Null})
      <4>1. nb \in Seq(Block)
        <5> HIDE DEF x, p, h
        <5> QED BY <1>0, <3>1, FirstFree
      <4> DEFINE n == i - Len(bs)
      <4>2. n \in Nat
        BY <2>0
      <4> HIDE DEF n, nb
      <4>3. Nulls(n) \in Seq(Block \cup {Null})
        BY <4>2 DEF Nulls
      <4>4. bs \o Nulls(n) \in Seq(Block \cup {Null})
        BY <1>0, <4>3
      <4>5. bs \o Nulls(n) \o nb \in Seq(Block \cup {Null})
        BY <4>1, <4>4
      <4> QED BY <4>5 DEF n
    <3>3. next = [c EXCEPT !.pool = q, !.mamba[r].blocks = a]
      BY <2>4 DEF AppendNewState
    <3> HIDE DEF next, a, q
    <3>4. t = WithMamba(c, r, q, m2)
      BY <2>2, <3>2, <3>3
    <3>5. /\ m2 \in MambaTable /\ m2.blocks = a /\ m2.cur = i /\ m2.alloc = TRUE
          /\ Marked(r, m2)
      <4> HIDE DEF bs2
      <4> QED BY <2>3, <3>2
    <3> HIDE DEF m2, t
    <3>6. /\ m2.blocks = bs \o Nulls(m2.cur - Len(bs)) \o NewBlocks(c.pool, 1)
          /\ m2.cur >= Len(bs) /\ MambaShape(bs) /\ MambaHashes(c.pool, bs)
          /\ q = GetNewBlocks(c.pool, 1) /\ bs = c.mamba[r].blocks
          /\ SoundBut(c, B, MambaOf(r)) /\ NumFree(c.pool) >= 1
      BY <1>0, <2>0, <3>1, <3>5 DEF a, q, MambaOK
    <3>7. Sound(t, B) /\ OnlyMamba(c, t, r) /\ t.mamba[r] = m2
      <4> HIDE DEF bs, x, p, h
      <4> QED BY <3>4, <3>5, <3>6, NewState, ZenonT(60)
    <3> QED BY <3>5, <3>7 DEF MambaPlaced, t
  <2>5. CASE ~keep
    <3> DEFINE k  == m.cur + 1
               m1 == Nulled(m, k)
               n  == i - Len(bs)
               a  == Append(m1.blocks \o Nulls(n), b)
               m2 == bs2(a)
    <3>1. NulledFrom(m, k, m1)
      <4>1. MambaShape(m.blocks) /\ k \in 1 .. Len(m.blocks) /\ m.blocks[k] # Null
        BY <1>0, <1>2 DEF MambaOK
      <4> HIDE DEF k, m, m1
      <4>2. m1 = Nulled(m, k)
        BY DEF m1
      <4> QED BY <1>0, <4>1, <4>2, NulledTable
    <3>2. /\ Len(m1.blocks) = Len(bs) /\ m1.blocks \in Seq(Block \cup {Null})
          /\ MambaShape(m1.blocks) /\ ToSet(m1.blocks) \ {Null} = (ToSet(bs) \ {Null}) \ {b}
          /\ m1.blocks = ReplaceAt(bs, k, Null)
      BY <1>0, <1>3, <3>1 DEF NulledFrom, Nulled, MambaTable
    <3>3. AppendedBy(m1.blocks, n, b, a)
      <4>1. b \notin ToSet(m1.blocks) /\ n \in Nat
        BY <1>3, <2>0, <3>2, NullAssumption
      <4> HIDE DEF m1, n, b
      <4> QED BY <1>3, <3>2, <4>1, AppendedTable
    <3>4. /\ a \in Seq(Block \cup {Null}) /\ Len(a) = i + 1 /\ a[i + 1] = b
          /\ MambaShape(a) /\ ToSet(a) \ {Null} = ToSet(bs) \ {Null}
      <4>1. Len(m1.blocks) + n + 1 = i + 1
        <5> DEFINE k1 == Len(bs)
        <5>1. k1 \in Nat /\ i \in Nat /\ n = i - k1 /\ Len(m1.blocks) = k1
          BY <1>0, <2>0, <3>2
        <5> HIDE DEF k1, n, m1
        <5> QED BY <5>1
      <4>2. b \in ToSet(bs) \ {Null}
        <5>1. k \in 1 .. Len(bs)
          BY <1>2
        <5> QED BY <1>0, <1>2, <1>3, <5>1, Members
      <4> HIDE DEF a, m1, n
      <4> QED BY <3>2, <3>3, <4>1, <4>2 DEF AppendedBy
    <3>5. next = [c EXCEPT !.pool = p, !.mamba[r].blocks = a]
      <4> DEFINE bs1 == ReplaceAt(bs, k, Null) \o Nulls(n)
      <4>1. next = MoveState(c, r, i)
        BY <2>5
      <4>2. Len(bs1) = i
        <5>1. Len(Nulls(n)) = n /\ Nulls(n) \in Seq(Block \cup {Null}) /\ n \in Nat
          BY <2>0 DEF Nulls
        <5> HIDE DEF n
        <5>2. Len(m1.blocks \o Nulls(n)) = Len(m1.blocks) + n
          BY <3>2, <5>1, SMTT(40)
        <5>3. Len(bs) + n = i
          BY <1>0, <2>0, SMTT(40) DEF n
        <5> QED BY <3>2, <5>2, <5>3
      <4>3. p.raised = FALSE /\ p \in QueuePool
        BY <1>0 DEF PoolOK
      <4>4. MoveState(c, r, i) =
              [c EXCEPT !.pool = [p EXCEPT !.raised = p.raised \/ b = Null \/ Len(bs1) # i],
                        !.mamba[r].blocks = Append(bs1, b)]
        BY DEF MoveState
      <4>5. (p.raised \/ b = Null \/ Len(bs1) # i) = FALSE
        BY <1>3, <4>2, <4>3, NullAssumption
      <4>6. [p EXCEPT !.raised = FALSE] = p
        BY <4>3 DEF QueuePool
      <4>7. Append(bs1, b) = a
        BY <3>2, Zenon
      <4> HIDE DEF bs1, a, p, next
      <4> QED BY <4>1, <4>4, <4>5, <4>6, <4>7
    <3> HIDE DEF next, a
    <3>6. t = WithMamba(c, r, p, m2)
      BY <2>2, <3>4, <3>5
    <3>7. /\ m2 \in MambaTable /\ m2.blocks = a /\ m2.cur = i /\ m2.alloc = TRUE
          /\ m2.latest = m.latest /\ m2.coarse = m.coarse /\ Marked(r, m2)
      <4> HIDE DEF bs2
      <4> QED BY <2>3, <3>4
    <3>8. m.cur \notin {m.latest, m.coarse}
      BY <1>2, <2>5 DEF Checkpoints, NoIdx
    <3> HIDE DEF m2, t
    <3>9. MambaOK(p, h, r, m2)
      <4>1. MambaHashes(p, a)
        BY <1>0, <3>4 DEF MambaOK, MambaHashes
      <4>2. Placed(p, h, r, m2)
        BY <1>2, <1>3, <3>4, <3>7, <3>8, NullAssumption DEF Placed, Marked
      <4> QED BY <3>4, <3>7, <4>1, <4>2 DEF MambaOK
    <3>10. h = Regrip(h, x, ToSet(m2.blocks) \ {Null})
      <4>1. h \in [Holder -> SUBSET Block]
        BY <1>0 DEF PoolOK
      <4> HIDE DEF h
      <4> QED BY <1>0, <3>4, <3>7, <4>1, SameGrip
    <3>11. MambaStepped(c, t, r, p, m2, h, B)
      <4>1. Spares(p, h, p, h, x) /\ p \in QueuePool
        BY <1>0 DEF Spares, PoolOK
      <4>2. x = MambaOf(r) /\ p = c.pool /\ h = Holding(c)
        BY DEF x
      <4> HIDE DEF x, p, h
      <4>3. Barer(p, p)
        BY SameBarer
      <4> QED BY <1>0, <3>6, <3>7, <3>10, <4>1, <4>2, <4>3, MambaStep
    <3> QED BY <3>7, <3>9, <3>11 DEF MambaPlaced, MambaStepped, t
  <2> QED BY <2>4, <2>5
<1> QED
  BY <1>6, <1>7

\* The blocks of a table, without the null block.
LEMMA NonNullBlocks ==
  ASSUME NEW bs \in Seq(Block \cup {Null}), MambaShape(bs)
  PROVE  NonNull(bs) \in Queue(Block) /\ ToSet(NonNull(bs)) = ToSet(bs) \ {Null}
<1> DEFINE T == Block \cup {Null}
           Z == {q \in Seq(T) : MambaShape(q) => NonNull(q) \in Queue(Block)}
<1>1. <<>> \in Z
  <2>1. <<>> \in Seq(T) /\ NonNull(<<>>) = <<>> /\ <<>> \in Queue(Block)
    BY AmongEmpty, QueueEmpty DEF NonNull
  <2> QED BY <2>1
<1>2. ASSUME NEW q \in Seq(T), NEW x \in T, q \in Z PROVE Append(q, x) \in Z
  <2> DEFINE a == Append(q, x)
  <2>1. a \in Seq(T) /\ Len(a) = Len(q) + 1 /\ Len(q) \in Nat
        /\ a[Len(a)] = x /\ \A i \in 1 .. Len(q) : a[i] = q[i]
    OBVIOUS
  <2> HIDE DEF a
  <2>2. ASSUME MambaShape(a) PROVE NonNull(a) \in Queue(Block)
    <3>1. MambaShape(q)
      <4>1. \A i \in 1 .. Len(q) : i \in 1 .. Len(a)
        BY <2>1
      <4> QED BY <2>1, <2>2, <4>1 DEF MambaShape
    <3>2. NonNull(q) \in Queue(Block)
      BY <1>2, <3>1
    <3>3. NonNull(a) = IF x \in Block THEN Append(NonNull(q), x) ELSE NonNull(q)
      <4> HIDE DEF T
      <4> QED BY AmongAppend DEF NonNull, a
    <3>4. ASSUME x \in Block PROVE x \notin ToSet(NonNull(q))
      <4>1. ToSet(NonNull(q)) = ToSet(q) \cap Block
        <5> HIDE DEF T
        <5> QED BY AmongMembers DEF NonNull
      <4>2. ASSUME x \in ToSet(q) PROVE FALSE
        <5>1. PICK i \in 1 .. Len(q) : q[i] = x
          <6> HIDE DEF T
          <6> QED BY <4>2, Members
        <5>2. i \in 1 .. Len(a) /\ Len(a) \in 1 .. Len(a) /\ i # Len(a)
          BY <2>1
        <5>3. a[i] = a[Len(a)] /\ a[i] # Null
          BY <2>1, <3>4, <5>1, NullAssumption
        <5> QED BY <2>2, <5>2, <5>3 DEF MambaShape
      <4> QED BY <4>1, <4>2
    <3> QED BY <3>2, <3>3, <3>4, QueueAppend
  <2> QED BY <2>1, <2>2 DEF a
<1>3. bs \in Z
  <2>1. \A q \in Seq(T), x \in T : q \in Z => Append(q, x) \in Z
    BY <1>2
  <2> HIDE DEF Z, T
  <2>2. \A q \in Seq(T) : q \in Z
    BY <1>1, <2>1, SequenceInduction
  <2> QED BY <2>2 DEF T
<1>4. ToSet(NonNull(bs)) = ToSet(bs) \ {Null}
  <2>1. ToSet(NonNull(bs)) = ToSet(bs) \cap Block /\ ToSet(bs) \subseteq T
    <3> HIDE DEF T
    <3>1. bs \in Seq(T)
      BY DEF T
    <3> QED BY <3>1, AmongMembers, Members DEF NonNull
  <2> QED BY <2>1, NullAssumption
<1> QED
  BY <1>3, <1>4

\* The table of a request that is freed, and its blocks given back.
MambaFreed(c, t, r, B) == Sound(t, B) /\ OnlyMamba(c, t, r) /\ t.mamba[r] = NoMamba

\* An empty Mamba table is in order in every pool.
LEMMA NoMambaTable ==
  /\ NoMamba \in MambaTable /\ NoMamba.blocks = <<>>
  /\ \A q, h : \A r \in Req : MambaOK(q, h, r, NoMamba)
<1>1. NoMamba.blocks = <<>>
  BY DEF NoMamba
<1>2. NoMamba \in MambaTable
  <2>1. EmptyBag \in Bag
    <3>1. EmptyBag \in [{} -> Nat \ {0}]
      BY DEF EmptyBag, SetToBag
    <3> QED BY <3>1 DEF Bag
  <2> QED BY <2>1 DEF NoMamba, MambaTable, NoIdx
<1>3. \A q, h : \A r \in Req : MambaOK(q, h, r, NoMamba)
  <2>1. ToSet(<<>>) = {} /\ Len(<<>>) = 0
    BY QueueEmpty
  <2> QED BY <1>1, <2>1 DEF MambaOK, MambaShape, MambaHashes
<1> QED
  BY <1>1, <1>2, <1>3

\* free() of the Mamba manager.
LEMMA MambaFreeOK ==
  ASSUME NEW c, NEW B \in SUBSET Block, NEW r \in Req, Sound(c, B)
  PROVE  MambaFreed(c, MambaFree(c, r), r, B)
<1> DEFINE m  == c.mamba[r]
           x  == MambaOf(r)
           p  == c.pool
           h  == Holding(c)
           bs == Reverse(NonNull(m.blocks))
           q  == FreeBlocks(p, bs)
           h2 == Regrip(h, x, {})
           t  == MambaFree(c, r)
<1>0. /\ m.blocks \in Seq(Block \cup {Null}) /\ h[x] = ToSet(m.blocks) \ {Null}
      /\ MambaOK(p, h, r, m) /\ SoundBut(c, B, x) /\ x \in Holder
      /\ c \in Cache /\ p \in QueuePool /\ PoolOK(p, h, B)
  BY MambaFacts, SoundFacts
<1>1. bs \in Queue(Block) /\ ToSet(bs) = h[x]
  <2>1. MambaShape(m.blocks)
    BY <1>0 DEF MambaOK
  <2>2. NonNull(m.blocks) \in Queue(Block) /\ ToSet(NonNull(m.blocks)) = h[x]
    BY <1>0, <2>1, NonNullBlocks
  <2> DEFINE nb == NonNull(m.blocks)
  <2> HIDE DEF nb
  <2>3. Reverse(nb) \in Queue(Block) /\ ToSet(Reverse(nb)) = ToSet(nb)
    BY <2>2, QueueReverse DEF nb
  <2> QED BY <2>2, <2>3 DEF nb
<1>2. PoolOK(q, h2, B) /\ Spares(p, h, q, h2, x) /\ Barer(p, q)
  <2>1. Regrip(h, x, h[x] \ ToSet(bs)) = h2
    BY <1>1
  <2> HIDE DEF p, h, x, bs, h2
  <2> QED BY <1>0, <1>1, <2>1, FreePool DEF SameIndexes, Barer
<1>3. t = WithMamba(c, r, q, NoMamba)
  BY DEF MambaFree, WithMamba
<1>4. h2 = Regrip(h, x, ToSet(NoMamba.blocks) \ {Null})
  <2>1. ToSet(NoMamba.blocks) \ {Null} = {}
    BY NoMambaTable, QueueEmpty
  <2> QED BY <2>1
<1>5. q \in QueuePool
  BY <1>2 DEF PoolOK
<1> DEFINE m2 == NoMamba
<1>6. m2 \in MambaTable /\ MambaOK(q, h2, r, m2)
  BY NoMambaTable
<1>7. MambaStepped(c, t, r, q, m2, h2, B)
  <2>1. x = MambaOf(r) /\ p = c.pool /\ h = Holding(c)
    OBVIOUS
  <2> HIDE DEF x, p, h, q, h2, m2, t
  <2> QED BY <1>0, <1>2, <1>3, <1>4, <1>5, <1>6, <2>1, MambaStep DEF m2
<1> QED
  BY <1>6, <1>7 DEF MambaStepped, MambaFreed

-----------------------------------------------------------------------------
(* The sources of copies.                                                  *)

\* A bag of numbers, as a function.
LEMMA BagFacts ==
  ASSUME NEW f
  PROVE  f \in Bag <=> f \in [DOMAIN f -> Nat \ {0}] /\ DOMAIN f \subseteq Nat
BY DEF Bag

\* One more in a bag.
LEMMA BagPlus ==
  ASSUME NEW f \in Bag, NEW i \in Nat
  PROVE  f (+) SetToBag({i}) \in Bag /\ DOMAIN (f (+) SetToBag({i})) = DOMAIN f \cup {i}
<1> DEFINE g == f (+) SetToBag({i})
<1>1. f \in [DOMAIN f -> Nat \ {0}] /\ DOMAIN f \subseteq Nat
  BY BagFacts
<1>2. g = [e \in DOMAIN f \cup {i} |-> (IF e \in DOMAIN f THEN f[e] ELSE 0)
                                        + (IF e \in {i} THEN 1 ELSE 0)]
  BY DEF SetToBag, (+)
<1>3. \A e \in DOMAIN f \cup {i} : g[e] \in Nat \ {0}
  BY <1>1, <1>2
<1>4. DOMAIN g = DOMAIN f \cup {i} /\ DOMAIN g \subseteq Nat
  BY <1>1, <1>2
<1>5. g \in [DOMAIN g -> Nat \ {0}]
  BY <1>2, <1>3, <1>4
<1> HIDE DEF g
<1>6. g \in Bag
  BY <1>4, <1>5, BagFacts
<1> QED
  BY <1>4, <1>6 DEF g

\* One less in a bag.
LEMMA BagMinus ==
  ASSUME NEW f \in Bag, NEW i
  PROVE  f (-) SetToBag({i}) \in Bag /\ DOMAIN (f (-) SetToBag({i})) \subseteq DOMAIN f
<1> DEFINE g == f (-) SetToBag({i})
           d == [e \in DOMAIN f |-> IF e \in {i} THEN f[e] - 1 ELSE f[e]]
           S == {e \in DOMAIN f : d[e] > 0}
<1>1. f \in [DOMAIN f -> Nat \ {0}] /\ DOMAIN f \subseteq Nat
  BY BagFacts
<1>2. g = [e \in S |-> d[e]]
  BY DEF SetToBag, (-)
<1>3. \A e \in S : d[e] \in Nat \ {0}
  BY <1>1
<1>4. DOMAIN g = S /\ DOMAIN g \subseteq Nat /\ S \subseteq DOMAIN f
  BY <1>1, <1>2
<1>5. g \in [DOMAIN g -> Nat \ {0}]
  BY <1>2, <1>3, <1>4
<1> HIDE DEF g
<1>6. g \in Bag
  BY <1>4, <1>5, BagFacts
<1> QED
  BY <1>4, <1>6 DEF g

\* A change of the marks of any number of tables, and of nothing else.
MarksMoved(c, t, B) ==
  /\ Sound(t, B) /\ t.pool = c.pool /\ t.attn = c.attn
  /\ t.gold = c.gold /\ t.pend = c.pend /\ t.fresh = c.fresh /\ t.copies = c.copies
  /\ \A r \in Req : /\ t.mamba[r].alloc = c.mamba[r].alloc
                    /\ t.mamba[r].blocks = c.mamba[r].blocks
                    /\ c.mamba[r] = NoMamba => t.mamba[r] = NoMamba

\* A cache whose marks have changed stays in order if every table is.
LEMMA AllMarksOK ==
  ASSUME NEW c, NEW B, Sound(c, B), NEW M \in [Req -> MambaTable],
         \A r \in Req : /\ M[r].blocks = c.mamba[r].blocks
                        /\ M[r].alloc = c.mamba[r].alloc
                        /\ c.mamba[r] = NoMamba => M[r] = NoMamba
                        /\ MambaOK(c.pool, Holding(c), r, M[r]),
         NEW t, t = [c EXCEPT !.mamba = M]
  PROVE  MarksMoved(c, t, B)
<1>0. c \in Cache /\ PoolOK(c.pool, Holding(c), B) /\ \A y \in Holder : TableOK(c, y)
  BY DEF Sound
<1>1. /\ t \in Cache /\ t.pool = c.pool /\ t.mamba = M /\ t.attn = c.attn
      /\ t.gold = c.gold /\ t.pend = c.pend /\ t.fresh = c.fresh /\ t.copies = c.copies
  BY <1>0 DEF Cache
<1>2. Holding(t) = Holding(c)
  BY <1>1 DEF Holding, HeldBy, Holder
<1>3. ASSUME NEW y \in Holder PROVE TableOK(t, y)
  <2>1. TableOK(c, y)
    BY <1>0
  <2>2. y[1] \in Groups /\ y[2] \in Req
    BY DEF Holder
  <2> QED BY <1>1, <1>2, <2>1, <2>2 DEF TableOK
<1> QED
  BY <1>0, <1>1, <1>2, <1>3 DEF Sound, MarksMoved

\* Two tables with the same fields are the same.
LEMMA SameTable ==
  ASSUME NEW m \in MambaTable, NEW m2 \in MambaTable, m2.blocks = m.blocks, m2.alloc = m.alloc,
         m2.cur = m.cur, m2.pending = m.pending, m2.inflight = m.inflight,
         m2.latest = m.latest, m2.coarse = m.coarse
  PROVE  m2 = m
BY DEF MambaTable

\* new_step_starts() only forgets which sources were pending.
LEMMA NewStepStartsOK ==
  ASSUME NEW c, NEW B \in SUBSET Block, Sound(c, B)
  PROVE  MarksMoved(c, NewStepStarts(c), B)
<1> DEFINE M == [r \in Req |-> [c.mamba[r] EXCEPT !.pending = NoIdx]]
           t == NewStepStarts(c)
<1>1. ASSUME NEW r \in Req
      PROVE  /\ M[r] \in MambaTable
             /\ M[r].blocks = c.mamba[r].blocks /\ M[r].alloc = c.mamba[r].alloc
             /\ c.mamba[r] = NoMamba => M[r] = NoMamba
             /\ MambaOK(c.pool, Holding(c), r, M[r])
  <2> DEFINE m  == c.mamba[r]
             m2 == M[r]
  <2>1. m \in MambaTable /\ MambaOK(c.pool, Holding(c), r, m)
    BY MambaFacts
  <2>2. m2 = [m EXCEPT !.pending = NoIdx]
    OBVIOUS
  <2> HIDE DEF m, m2
  <2>3. /\ m2 \in MambaTable /\ m2.blocks = m.blocks /\ m2.alloc = m.alloc /\ m2.cur = m.cur
        /\ m2.latest = m.latest /\ m2.coarse = m.coarse /\ m2.inflight = m.inflight
        /\ m2.pending = NoIdx
    BY <2>1, <2>2 DEF MambaTable, NoIdx
  <2>4. m = NoMamba => m2 = NoMamba
    <3>1. m = NoMamba => m.pending = NoIdx
      BY DEF NoMamba
    <3> QED BY <2>1, <2>3, <3>1, SameTable
  <2>5. Placed(c.pool, Holding(c), r, m) => Placed(c.pool, Holding(c), r, m2)
    BY <2>3 DEF Placed, NoIdx
  <2>6. MambaOK(c.pool, Holding(c), r, m2)
    BY <2>1, <2>3, <2>4, <2>5 DEF MambaOK
  <2> QED BY <2>3, <2>4, <2>6 DEF m, m2
<1>2. M \in [Req -> MambaTable] /\ t = [c EXCEPT !.mamba = M]
  BY <1>1 DEF NewStepStarts
<1> HIDE DEF M, t
<1>3. MarksMoved(c, t, B)
  BY <1>1, <1>2, AllMarksOK
<1> QED
  BY <1>3 DEF t

\* take_mamba_source_block_refs only moves the pending sources to those in flight.
LEMMA TakeSourceRefsOK ==
  ASSUME NEW c, NEW B \in SUBSET Block, Sound(c, B)
  PROVE  MarksMoved(c, TakeSourceRefs(c), B)
<1> DEFINE count(r) == IF SourceRef(c, r).block # Null
                       THEN c.mamba[r].inflight (+) SetToBag({c.mamba[r].pending})
                       ELSE c.mamba[r].inflight
           M == [r \in Req |-> [c.mamba[r] EXCEPT !.inflight = count(r), !.pending = NoIdx]]
           t == TakeSourceRefs(c)
<1>1. ASSUME NEW r \in Req
      PROVE  /\ M[r] \in MambaTable
             /\ M[r].blocks = c.mamba[r].blocks /\ M[r].alloc = c.mamba[r].alloc
             /\ c.mamba[r] = NoMamba => M[r] = NoMamba
             /\ MambaOK(c.pool, Holding(c), r, M[r])
  <2> DEFINE m  == c.mamba[r]
             m2 == M[r]
             f  == count(r)
             b  == BlockAt(c, r, m.pending)
  <2>1. m \in MambaTable /\ MambaOK(c.pool, Holding(c), r, m) /\ m.inflight \in Bag
    BY MambaFacts DEF MambaTable
  <2>2. m2 = [m EXCEPT !.inflight = f, !.pending = NoIdx]
    OBVIOUS
  <2>3. f = IF b # Null THEN m.inflight (+) SetToBag({m.pending}) ELSE m.inflight
    BY DEF SourceRef
  <2>4. /\ f \in Bag
        /\ b = Null => f = m.inflight
        /\ b # Null => /\ Placed(c.pool, Holding(c), r, m)
                       /\ DOMAIN f = DOMAIN m.inflight \cup {m.pending}
                       /\ m.pending \in Nat
    <3>1. CASE b = Null
      BY <2>1, <2>3, <3>1
    <3>2. CASE b # Null
      <4>1. m.pending \in Int
        BY <2>1 DEF MambaTable
      <4>2. m.pending \in Nat /\ Placed(c.pool, Holding(c), r, m)
        <5>1. m.pending \in 0 .. Len(m.blocks) - 1 /\ Placed(c.pool, Holding(c), r, m)
          BY <3>2, <4>1, BlockAtFacts
        <5> QED BY <5>1
      <4> DEFINE i == m.pending
                 g == m.inflight
      <4>3. i \in Nat /\ g \in Bag /\ f = g (+) SetToBag({i})
        BY <2>1, <2>3, <3>2, <4>2
      <4> HIDE DEF i, g, f
      <4>4. f \in Bag /\ DOMAIN f = DOMAIN g \cup {i}
        BY <4>3, BagPlus
      <4> QED BY <3>2, <4>2, <4>4 DEF i, g
    <3> QED BY <3>1, <3>2
  <2> HIDE DEF m2, f, b
  <2>5. /\ m2 \in MambaTable /\ m2.blocks = m.blocks /\ m2.alloc = m.alloc /\ m2.cur = m.cur
        /\ m2.latest = m.latest /\ m2.coarse = m.coarse /\ m2.inflight = f
        /\ m2.pending = NoIdx
    <3>1. f \in Bag /\ m \in MambaTable /\ NoIdx \in Int
      BY <2>1, <2>4 DEF NoIdx
    <3> HIDE DEF m
    <3> QED BY <2>2, <3>1 DEF MambaTable
  <2>6. m = NoMamba => m2 = NoMamba
    <3>1. ASSUME m = NoMamba PROVE b = Null
      BY <3>1 DEF b, BlockAt, NoMamba
    <3>2. m = NoMamba => m.pending = NoIdx
      BY DEF NoMamba
    <3>3. m = NoMamba => f = m.inflight
      BY <2>4, <3>1
    <3> HIDE DEF m
    <3> QED BY <2>1, <2>5, <3>2, <3>3, SameTable
  <2>7. Placed(c.pool, Holding(c), r, m) => Placed(c.pool, Holding(c), r, m2)
    <3> HIDE DEF m
    <3>1. ASSUME Placed(c.pool, Holding(c), r, m) PROVE DOMAIN f \subseteq 0 .. m.cur - 1
      <4>1. m.cur \in Nat /\ m.pending < m.cur /\ DOMAIN m.inflight \subseteq 0 .. m.cur - 1
        BY <3>1 DEF Placed
      <4>2. b # Null => m.pending \in 0 .. m.cur - 1
        BY <2>4, <4>1
      <4> QED BY <2>4, <4>1, <4>2
    <3> QED BY <2>5, <3>1 DEF Placed, NoIdx
  <2>8. MambaOK(c.pool, Holding(c), r, m2)
    BY <2>1, <2>5, <2>6, <2>7 DEF MambaOK
  <2> QED BY <2>5, <2>6, <2>8 DEF m2
<1>2. M \in [Req -> MambaTable] /\ t = [c EXCEPT !.mamba = M]
  BY <1>1 DEF TakeSourceRefs
<1> HIDE DEF M, t
<1>3. MarksMoved(c, t, B)
  BY <1>1, <1>2, AllMarksOK
<1> QED
  BY <1>3 DEF t

\* A change of any of the Mamba tables that leaves them to the same requests.
MambaSteps(c, t, B) ==
  /\ Sound(t, B) /\ t.attn = c.attn
  /\ t.gold = c.gold /\ t.pend = c.pend /\ t.fresh = c.fresh /\ t.copies = c.copies
  /\ \A r \in Req : t.mamba[r].alloc = c.mamba[r].alloc

\* A step of one Mamba table is a move of the Mamba tables.
LEMMA MovesOf ==
  ASSUME NEW c, NEW t, NEW B, NEW r \in Req, MambaMoves(c, t, r, B)
  PROVE  MambaSteps(c, t, B)
BY DEF MambaMoves, OnlyMamba, MambaSteps

\* Two moves make one.
LEMMA MovesOn ==
  ASSUME NEW c, NEW t, NEW u, NEW B, MambaSteps(c, t, B), MambaSteps(t, u, B)
  PROVE  MambaSteps(c, u, B)
BY DEF MambaSteps

\* A reference is released, and the state behind the last one given back.
LEMMA ReleaseSourceRefOK ==
  ASSUME NEW c, NEW B \in SUBSET Block, NEW r \in Req, Sound(c, B), NEW i \in Int
  PROVE  MambaMoves(c, ReleaseSourceRef(c, r, i), r, B)
<1> DEFINE m  == c.mamba[r]
           f  == m.inflight (-) SetToBag({i})
           m2 == [m EXCEPT !.inflight = f]
           t  == [c EXCEPT !.mamba[r].inflight = f]
           p  == c.pool
           h  == Holding(c)
<1>1. CASE ~BagIn(i, m.inflight)
  <2>1. ReleaseSourceRef(c, r, i) = c
    BY <1>1 DEF ReleaseSourceRef
  <2> QED BY <2>1, MambaStays
<1>2. CASE BagIn(i, m.inflight)
  <2>0. m \in MambaTable /\ MambaOK(p, h, r, m) /\ m.inflight \in Bag /\ c \in Cache
    BY MambaFacts, SoundFacts DEF MambaTable
  <2>1. f \in Bag /\ DOMAIN f \subseteq DOMAIN m.inflight
    <3> DEFINE g == m.inflight
    <3>1. g \in Bag
      BY <2>0
    <3> HIDE DEF g
    <3>2. g (-) SetToBag({i}) \in Bag /\ DOMAIN (g (-) SetToBag({i})) \subseteq DOMAIN g
      BY <3>1, BagMinus
    <3> QED BY <3>2 DEF g
  <2>2. m # NoMamba
    BY <1>2 DEF NoMamba, EmptyBag, SetToBag, BagIn, BagToSet
  <2>3. t = WithMamba(c, r, p, m2)
    BY <2>0 DEF WithMamba, Cache
  <2> HIDE DEF f, t, m
  <2>4. /\ m2 \in MambaTable /\ m2.blocks = m.blocks /\ m2.alloc = m.alloc /\ m2.cur = m.cur
        /\ m2.latest = m.latest /\ m2.coarse = m.coarse /\ m2.pending = m.pending
        /\ m2.inflight = f
    BY <2>0, <2>1 DEF MambaTable
  <2> HIDE DEF m2
  <2>5. MambaOK(p, h, r, m2)
    <3>1. Placed(p, h, r, m)
      BY <2>0, <2>2 DEF MambaOK
    <3>2. Placed(p, h, r, m2)
      BY <2>1, <2>4, <3>1 DEF Placed
    <3> QED BY <2>0, <2>4, <3>2 DEF MambaOK
  <2>6. TableNow(c, t, r, p, m2, B)
    <3>1. m2.blocks = c.mamba[r].blocks /\ MambaOK(c.pool, Holding(c), r, m2)
          /\ t = WithMamba(c, r, c.pool, m2)
      BY <2>3, <2>4, <2>5 DEF m
    <3> QED BY <2>4, <3>1, MarksOK
  <2>7. Sound(t, B) /\ MambaMoves(c, t, r, B)
    BY <2>4, <2>6 DEF TableNow, MambaMoves, m
  <2>8. MambaMoves(c, FreeUnprotected(t, r, i), r, B)
    <3>1. MambaMoves(t, FreeUnprotected(t, r, i), r, B)
      BY <2>7, FreeUnprotectedOK
    <3> QED BY <2>7, <3>1, MambaMovesOn
  <2>9. ReleaseSourceRef(c, r, i) = IF m.inflight[i] > 1 THEN t ELSE FreeUnprotected(t, r, i)
    BY <1>2 DEF ReleaseSourceRef, t, m, f
  <2> QED BY <2>7, <2>8, <2>9
<1> QED
  BY <1>1, <1>2

\* A list of steps that each keep a property keeps it.
LEMMA Steps ==
  ASSUME NEW X, NEW n \in Nat, NEW f, f[0] \in X,
         \A k \in 1 .. n : f[k - 1] \in X => f[k] \in X
  PROVE  f[n] \in X
<1> DEFINE Z == {k \in Nat : k <= n => f[k] \in X}
<1>1. 0 \in Z
  OBVIOUS
<1>2. ASSUME NEW k \in Nat, k \in Z PROVE k + 1 \in Z
  <2>1. ASSUME k + 1 <= n PROVE f[k + 1] \in X
    <3>1. k + 1 \in 1 .. n /\ (k + 1) - 1 = k /\ f[k] \in X
      BY <1>2, <2>1
    <3> QED BY <3>1
  <2> QED BY <2>1
<1> HIDE DEF Z
<1>3. n \in Z
  BY <1>1, <1>2, NumberInduction
<1> QED
  BY <1>3 DEF Z

\* release_mamba_source_block_refs, for all the references of an output.
LEMMA ReleaseRefsOK ==
  ASSUME NEW c, NEW B \in SUBSET Block, Sound(c, B),
         NEW refs \in Seq([req : Req, index : Int, block : Block])
  PROVE  MambaSteps(c, ReleaseRefs(c, refs), B)
<1> DEFINE N == Len(refs)
           body(f) == [k \in 0 .. N |->
                         IF k = 0 THEN c
                         ELSE ReleaseSourceRef(f[k - 1], refs[k].req, refs[k].index)]
           released == CHOOSE f : f = body(f)
           X == {t \in Cache : MambaSteps(c, t, B)}
           next == [p \in Nat \X X |->
                      IF p[1] \in 1 .. N
                      THEN ReleaseSourceRef(p[2], refs[p[1]].req, refs[p[1]].index) ELSE p[2]]
<1>0. N \in Nat /\ \A k \in 1 .. N : refs[k].req \in Req /\ refs[k].index \in Int
  <2>1. N \in Nat /\ \A k \in 1 .. N : refs[k] \in [req : Req, index : Int, block : Block]
    BY LenProperties
  <2> QED BY <2>1
<1>1. ReleaseRefs(c, refs) = released[N]
  BY DEF ReleaseRefs
<1> HIDE DEF N
<1>2. ASSUME NEW t \in X, NEW k \in 1 .. N
      PROVE  ReleaseSourceRef(t, refs[k].req, refs[k].index) \in X
  <2> DEFINE r == refs[k].req
             i == refs[k].index
             u == ReleaseSourceRef(t, r, i)
  <2>1. MambaSteps(c, t, B) /\ Sound(t, B) /\ r \in Req /\ i \in Int
    BY <1>0 DEF MambaSteps
  <2> HIDE DEF r, i, u
  <2>2. MambaMoves(t, u, r, B)
    BY <2>1, ReleaseSourceRefOK DEF u
  <2>3. MambaSteps(t, u, B) /\ u \in Cache
    BY <2>1, <2>2, MovesOf DEF MambaMoves, Sound
  <2>4. MambaSteps(c, u, B)
    BY <2>1, <2>3, MovesOn
  <2> QED BY <2>3, <2>4 DEF u, r, i
<1>3. next \in [Nat \X X -> X] /\ c \in X
  <2>1. c \in X
    BY DEF Sound, MambaSteps
  <2>2. ASSUME NEW p \in Nat \X X PROVE next[p] \in X
    <3>1. p[1] \in Nat /\ p[2] \in X
      OBVIOUS
    <3> HIDE DEF X
    <3> QED BY <1>2, <3>1
  <2> HIDE DEF X
  <2> QED BY <2>1, <2>2
<1>4. PICK f \in [0 .. N -> X] : Iterates(f, N, c, next)
  <2> HIDE DEF next, X
  <2> QED BY <1>0, <1>3, Recursion
<1>5. f = body(f)
  <2>1. ASSUME NEW k \in 1 .. N
        PROVE  f[k] = ReleaseSourceRef(f[k - 1], refs[k].req, refs[k].index)
    <3>1. k \in Nat /\ k - 1 \in 0 .. N
      BY <1>0
    <3>2. f[k] = next[<<k, f[k - 1]>>]
      BY <1>4 DEF Iterates
    <3> HIDE DEF X
    <3>3. <<k, f[k - 1]>> \in Nat \X X
      BY <1>4, <3>1
    <3> QED BY <3>2, <3>3
  <2>2. f[0] = c
    BY <1>4 DEF Iterates
  <2> HIDE DEF X
  <2>3. \A k \in 0 .. N : f[k] = body(f)[k]
    BY <1>0, <2>1, <2>2
  <2>4. f = [k \in 0 .. N |-> f[k]]
    BY <1>4
  <2> QED BY <2>3, <2>4
<1>6. released = body(released)
  BY <1>5
<1> HIDE DEF released
<1>7. /\ released[0] = c
      /\ \A k \in 1 .. N : released[k] = ReleaseSourceRef(released[k - 1], refs[k].req, refs[k].index)
  <2>1. \A k \in 0 .. N : released[k] = body(released)[k]
    BY <1>6
  <2> QED BY <1>0, <2>1
<1>8. released[N] \in X
  <2> HIDE DEF X
  <2>1. released[0] \in X
    BY <1>3, <1>7
  <2>2. ASSUME NEW k \in 1 .. N, released[k - 1] \in X PROVE released[k] \in X
    BY <1>2, <1>7, <2>2
  <2> QED BY <1>0, <2>1, <2>2, Steps
<1> QED
  BY <1>1, <1>8

-----------------------------------------------------------------------------
(* What hits and growth take from the free queue.                          *)

\* The free blocks of a set.
Idling(q, S) == {b \in S \ {Null} : q.ref[b] = 0}

\* t is q without the free blocks of S.
Taken(q, t, S) ==
  /\ NumFree(t) = NumFree(q) - Cardinality(Idling(q, S))
  /\ \A b \in Block : t.ref[b] = 0 => q.ref[b] = 0

\* There are finitely many blocks.
LEMMA FiniteBlocks == \A S \in SUBSET Block : IsFiniteSet(S)
BY QueueAssumption, FS_Subset

\* Fewer free blocks, and fewer of any set.
LEMMA IdlingLess ==
  ASSUME NEW q, NEW t, \A b \in Block : t.ref[b] = 0 => q.ref[b] = 0,
         NEW S \in SUBSET (Block \cup {Null})
  PROVE  /\ Cardinality(Idling(t, S)) <= Cardinality(Idling(q, S))
         /\ Cardinality(Idling(t, S)) \in Nat /\ Cardinality(Idling(q, S)) \in Nat
<1>1. Idling(t, S) \subseteq Idling(q, S) /\ Idling(q, S) \in SUBSET Block
  BY DEF Idling
<1>2. IsFiniteSet(Idling(q, S)) /\ IsFiniteSet(Idling(t, S))
  BY <1>1, FiniteBlocks, FS_Subset
<1> QED
  BY <1>1, <1>2, FS_Subset, FS_CardinalityType

\* Touching takes no more from the free queue than the free blocks of the list.
LEMMA TouchTakes ==
  ASSUME NEW q, NEW hold, NEW B \in SUBSET Block, NEW x \in Holder, PoolOK(q, hold, B),
         NEW bs, NEW t, Touched(q, hold, B, x, bs, t)
  PROVE  Taken(q, t, ToSet(bs))
<1> DEFINE h2 == Regrip(hold, x, hold[x] \cup ToSet(bs))
           F == ToSet(q.queue)
           S == ToSet(bs)
<1>0. /\ q.queue \in Queue(Block) /\ F = {b \in B : q.ref[b] = 0}
      /\ \A y \in Holder : hold[y] \subseteq B
  BY PoolFacts
<1>1. /\ PoolOK(t, h2, B) /\ ToSet(t.queue) = F \ S
      /\ \A b \in Block : t.ref[b] = 0 => q.ref[b] = 0
  BY DEF Touched
<1>2. t.queue \in Queue(Block) /\ \A y \in Holder : h2[y] \subseteq B
  <2> HIDE DEF h2
  <2> QED BY <1>1, PoolFacts
<1>3. Idling(q, S) = F \cap S
  <2>1. S \subseteq B
    <3>1. h2[x] = hold[x] \cup S /\ h2[x] \subseteq B
      <4>1. hold \in [Holder -> SUBSET Block]
        BY PoolFacts
      <4> QED BY <1>2, <4>1 DEF Regrip
    <3> QED BY <3>1
  <2> QED BY <1>0, <2>1, NullAssumption DEF Idling
<1>4. IsFiniteSet(F) /\ Cardinality(F) = Len(q.queue) /\ Cardinality(F \ S) = Len(t.queue)
  BY <1>0, <1>1, <1>2, QueueSize
<1>5. Cardinality(F \ S) = Cardinality(F) - Cardinality(F \cap S)
  <2> HIDE DEF F, S
  <2> QED BY <1>4, FS_Difference
<1> QED
  BY <1>1, <1>3, <1>4, <1>5 DEF Taken, NumFree

-----------------------------------------------------------------------------
(* A request that gets its blocks: its Mamba table is in order, or it is   *)
(* only what a lookup has found, and grows next.                           *)

Waits(c, r) ==
  /\ Unplaced(c.mamba[r]) /\ MambaShape(c.mamba[r].blocks)
  /\ MambaHashes(c.pool, c.mamba[r].blocks)

Ready(c, B, r) ==
  /\ SoundBut(c, B, MambaOf(r))
  /\ \/ c.mamba[r].alloc /\ TableOK(c, MambaOf(r))
     \/ Waits(c, r)

\* With all tables in order, every request is ready to grow.
LEMMA SoundReady ==
  ASSUME NEW c, NEW B \in SUBSET Block, NEW r \in Req, Sound(c, B)
  PROVE  Ready(c, B, r)
<1>1. SoundBut(c, B, MambaOf(r)) /\ TableOK(c, MambaOf(r))
      /\ MambaOK(c.pool, Holding(c), r, c.mamba[r])
  BY MambaFacts, MambaTableOK
<1>2. CASE c.mamba[r] = NoMamba
  <2>1. Unplaced(c.mamba[r])
    BY <1>2 DEF Unplaced, NoMamba
  <2> QED BY <1>1, <2>1 DEF Ready, Waits, MambaOK
<1>3. CASE Placed(c.pool, Holding(c), r, c.mamba[r])
  BY <1>1, <1>3 DEF Ready, Placed
<1> QED
  BY <1>1, <1>2, <1>3 DEF MambaOK

ReadyStepped(c, c2, r, q, a, B) ==
  /\ Ready(c2, B, r) /\ (Sound(c, B) => Sound(c2, B))
  /\ OnlyAttn(c, c2, r) /\ c2.pool = q /\ c2.attn[r] = a

\* A step of the attention table keeps the request ready to grow.
LEMMA AttnReady ==
  ASSUME NEW c, NEW B, NEW r \in Req, Ready(c, B, r),
         NEW q \in QueuePool, NEW a \in AttnTable, NEW h2,
         h2 = Regrip(Holding(c), AttnOf(r), ToSet(a.blocks) \cup ToSet(a.pinned)),
         PoolOK(q, h2, B), Spares(c.pool, Holding(c), q, h2, AttnOf(r)),
         AttnOK(q, h2, r, a)
  PROVE  ReadyStepped(c, WithAttn(c, r, q, a), r, q, a, B)
<1> DEFINE c2 == WithAttn(c, r, q, a)
           x == AttnOf(r)
           z == MambaOf(r)
<1>0. c \in Cache /\ x \in Holder /\ z \in Holder /\ x # z /\ SoundBut(c, B, z)
  BY CacheFields DEF Ready, SoundBut
<1>1. /\ c2 \in Cache /\ OnlyAttn(c, c2, r) /\ c2.pool = q /\ c2.attn[r] = a
      /\ Holding(c2) = h2
  BY <1>0, WithAttnOK
<1> HIDE DEF c2
<1>2. ASSUME NEW y \in Holder \ {x}, TableOK(c, y) PROVE TableOK(c2, y)
  <2>1. /\ \A s \in Req : MambaOf(s) # x => c2.mamba[s] = c.mamba[s]
        /\ \A s \in Req : AttnOf(s) # x => c2.attn[s] = c.attn[s]
    BY <1>1 DEF OnlyAttn
  <2>2. Spares(c.pool, Holding(c), c2.pool, Holding(c2), x)
    BY <1>1
  <2> HIDE DEF x
  <2> QED BY <1>0, <1>1, <1>2, <2>1, <2>2, OtherOK
<1>3. TableOK(c2, x)
  BY <1>1, AttnTableOK
<1>4. SoundBut(c2, B, z) /\ (Sound(c, B) => Sound(c2, B))
  BY <1>0, <1>1, <1>2, <1>3 DEF SoundBut, Sound
<1>5. c2.mamba[r] = c.mamba[r]
  BY <1>1 DEF OnlyAttn
<1>6. Waits(c, r) => Waits(c2, r)
  <2>1. ASSUME MambaHashes(c.pool, c.mamba[r].blocks), NEW b \in ToSet(c.mamba[r].blocks) \ {Null}
        PROVE  c2.pool.hash[b] = None \/ HashedIn(c2.pool, b, "mamba")
    <3>1. b \in Holding(c)[z]
      BY MambaHolds
    <3>2. c.pool.hash[b] = None \/ HashedIn(c.pool, b, "mamba")
      BY <2>1 DEF MambaHashes
    <3> QED BY <1>0, <1>1, <3>1, <3>2 DEF Spares
  <2> QED BY <1>5, <2>1 DEF Waits, MambaHashes
<1>7. Ready(c2, B, r)
  BY <1>0, <1>2, <1>4, <1>5, <1>6 DEF Ready
<1> QED
  BY <1>1, <1>4, <1>7 DEF ReadyStepped, c2

\* A request's blocks: nothing of the other requests changes.
OnlyOf(c, t, r) ==
  /\ t.gold = c.gold
  /\ \A s \in Req \ {r} : /\ t.attn[s] = c.attn[s] /\ t.mamba[s] = c.mamba[s]
                          /\ t.pend[s] = c.pend[s]

\* Two changes for one request change nothing of the others.
LEMMA OnlyOfOn ==
  ASSUME NEW c, NEW t, NEW u, NEW r, OnlyOf(c, t, r), OnlyOf(t, u, r)
  PROVE  OnlyOf(c, u, r)
BY DEF OnlyOf

\* An empty attention table is in order in every pool.
LEMMA NoAttnTable ==
  /\ NoAttn \in AttnTable /\ NoAttn.blocks = <<>> /\ NoAttn.pinned = <<>> /\ NoAttn.cached = 0
  /\ \A q, h : \A r \in Req : AttnOK(q, h, r, NoAttn)
<1>1. /\ NoAttn \in AttnTable /\ NoAttn.blocks = <<>> /\ NoAttn.pinned = <<>>
      /\ NoAttn.cached = 0
  BY DEF NoAttn, AttnTable
<1>2. <<>> \in Queue(Block) /\ ToSet(<<>>) = {} /\ Len(<<>>) = 0
  BY QueueEmpty
<1> QED
  BY <1>1, <1>2 DEF AttnOK, AttnShape

\* The partial hit that the lookup has left is not free, and in one of the indexes.
Source(c, r) == IF c.pend[r] = None THEN {} ELSE {c.pend[r].src}

Pinnable(c, r) ==
  \/ c.pend[r] = None
  \/ c.attn[r] = NoAttn /\ c.pool.pids[c.pend[r].src] # {}

Pinned(c, t, r, B) ==
  /\ Sound(t, B) /\ OnlyAttn(c, t, r) /\ SameIndexes(c.pool, t.pool)
  /\ t.attn[r].blocks = c.attn[r].blocks /\ t.attn[r].cached = c.attn[r].cached
  /\ c.attn[r] = NoAttn => ToSet(t.attn[r].pinned) = Source(c, r)
  /\ Taken(c.pool, t.pool, Source(c, r))

\* Nothing is taken for no blocks.
LEMMA TakenNone == \A q : NumFree(q) \in Nat => Taken(q, q, {})
<1>1. \A q : Idling(q, {}) = {}
  BY DEF Idling
<1> QED
  BY <1>1, FS_EmptySet DEF Taken

\* The number of free blocks is a number.
LEMMA FreeNat ==
  ASSUME NEW q, NEW hold, NEW B \in SUBSET Block, PoolOK(q, hold, B)
  PROVE  NumFree(q) \in Nat
BY PoolFacts, Members DEF NumFree

\* pin_partial_cache_hits: the source of the copy gets one more holder.
LEMMA PinPartialOK ==
  ASSUME NEW c, NEW B \in SUBSET Block, NEW r \in Req, Sound(c, B), Pinnable(c, r)
  PROVE  Pinned(c, PinPartial(c, r), r, B)
<1> DEFINE src == c.pend[r].src
           x == AttnOf(r)
           p == c.pool
           h == Holding(c)
           bs == <<src>>
           q == Touch(p, bs)
           h2 == Regrip(h, x, h[x] \cup ToSet(bs))
           a == c.attn[r]
           a2 == [a EXCEPT !.pinned = Append(a.pinned, src)]
           t == PinPartial(c, r)
<1>0. /\ c \in Cache /\ p \in QueuePool /\ PoolOK(p, h, B) /\ a \in AttnTable /\ x \in Holder
      /\ NumFree(p) \in Nat
  BY SoundFacts, CacheFields, FreeNat
<1>1. CASE c.pend[r] = None
  <2>1. t = c
    BY <1>1 DEF PinPartial
  <2>2. c.attn[r] = NoAttn => ToSet(c.attn[r].pinned) = {}
    BY NoAttnTable, QueueEmpty
  <2> QED BY <1>0, <1>1, <2>1, <2>2, TakenNone DEF Pinned, OnlyAttn, SameIndexes, Source
<1>2. CASE c.pend[r] # None
  <2>1. a = NoAttn /\ p.pids[src] # {} /\ src \in Block
    <3>1. c.pend[r] \in PartialHit
      BY <1>0, <1>2, CacheFields
    <3>2. src \in Block
      BY <3>1 DEF PartialHit
    <3> QED BY <1>2, <3>2 DEF Pinnable
  <2>2. h[x] = {} /\ a.blocks = <<>> /\ a.pinned = <<>> /\ a.cached = 0
    BY <2>1, NoAttnTable, QueueEmpty, AttnHolds
  <2>3. bs \in Queue(Block) /\ ToSet(bs) = {src} /\ src \in B
    <3>1. bs \in Queue(Block) /\ ToSet(bs) = {src}
      BY <2>1, QueueOne
    <3> HIDE DEF p, h, src
    <3>2. src \in B
      BY <1>0, <2>1, PoolFacts
    <3> QED BY <3>1, <3>2
  <2>4. Touchable(p, h, B, x, bs)
    BY <2>1, <2>2, <2>3 DEF Touchable
  <2>5. Touched(p, h, B, x, bs, q)
    <3> HIDE DEF p, h, x, bs
    <3> QED BY <1>0, <2>4, TouchPool
  <2>6. PoolOK(q, h2, B) /\ Spares(p, h, q, h2, x) /\ SameIndexes(p, q) /\ q \in QueuePool
    BY <2>5 DEF Touched, PoolOK
  <2>7. Taken(p, q, {src})
    <3>1. Taken(p, q, ToSet(bs))
      <4> HIDE DEF p, h, x, bs, q
      <4> QED BY <1>0, <2>5, TouchTakes
    <3> QED BY <2>3, <3>1
  <2>8. /\ a2 \in AttnTable /\ a2.blocks = <<>> /\ a2.pinned = <<src>> /\ a2.cached = 0
    <3>1. Append(a.pinned, src) = <<src>> /\ <<src>> \in Seq(Block)
      BY <2>1, <2>2
    <3> HIDE DEF a
    <3> QED BY <1>0, <2>2, <3>1 DEF AttnTable
  <2>9. AttnOK(q, h2, r, a2)
    <3>1. <<>> \in Queue(Block) /\ ToSet(<<>>) = {} /\ Len(<<>>) = 0
      BY QueueEmpty
    <3> HIDE DEF a2
    <3> QED BY <2>3, <2>8, <3>1 DEF AttnOK, AttnShape
  <2>10. t = WithAttn(c, r, q, a2)
    BY <1>0, <1>2 DEF PinPartial, WithAttn, Cache
  <2>11. h2 = Regrip(h, x, ToSet(a2.blocks) \cup ToSet(a2.pinned))
    <3>1. ToSet(a2.blocks) \cup ToSet(a2.pinned) = h[x] \cup ToSet(bs)
      BY <2>2, <2>8, QueueEmpty
    <3> HIDE DEF a2
    <3> QED BY <3>1
  <2>12. AttnStepped(c, t, r, q, a2, h2, B)
    <3>1. SoundBut(c, B, x)
      BY <1>0, SoundSplit
    <3>2. x = AttnOf(r) /\ p = c.pool /\ h = Holding(c)
      OBVIOUS
    <3> HIDE DEF x, p, h, q, h2, a2, t
    <3> QED BY <2>6, <2>8, <2>10, <2>11, <3>1, <3>2, AttnStep
  <2>13. Sound(t, B) /\ OnlyAttn(c, t, r) /\ t.pool = q /\ t.attn[r] = a2
    BY <2>9, <2>12 DEF AttnStepped
  <2> HIDE DEF t, a2, q
  <2> QED BY <1>2, <2>2, <2>3, <2>6, <2>7, <2>8, <2>13 DEF Pinned, Source, t
<1> QED
  BY <1>1, <1>2

-----------------------------------------------------------------------------
(* Taking what a lookup has found.                                         *)

GoodHit(q, r, hit) ==
  /\ hit.len \in Nat /\ hit.len % H = 0
  /\ hit.attn \in Queue(Block) /\ hit.ssm \in Block \cup {Null}
  /\ hit.part \in PartialHit \cup {None}
  /\ hit.len = 0 => hit.attn = <<>> /\ hit.ssm = Null /\ hit.part = None
  /\ \A j \in 1 .. Len(hit.attn) : q.hash[hit.attn[j]] \in {AttnHash(r, j * A)} \ {None}
  /\ hit.ssm # Null => HashedIn(q, hit.ssm, "mamba")
  /\ hit.part # None => /\ q.pids[hit.part.src] # {} /\ hit.part.src \notin ToSet(hit.attn)
                        /\ hit.part.index = Len(hit.attn)

\* The table of a hit, null but for its last entry.
HitTable(k, b) == Append(Nulls(k - 1), b)

\* The Mamba table of a hit names one block, if any.
LEMMA HitTableOK ==
  ASSUME NEW k \in Nat \ {0}, NEW b \in Block \cup {Null}
  PROVE  /\ HitTable(k, b) \in Seq(Block \cup {Null}) /\ Len(HitTable(k, b)) = k
         /\ ToSet(HitTable(k, b)) \ {Null} = {b} \ {Null}
         /\ MambaShape(HitTable(k, b))
<1> DEFINE ns == Nulls(k - 1)
           bs == HitTable(k, b)
           T == Block \cup {Null}
<1>1. ns \in Seq(T) /\ Len(ns) = k - 1 /\ \A i \in 1 .. k - 1 : ns[i] = Null
  BY DEF Nulls
<1> HIDE DEF ns
<1>2. bs \in Seq(T) /\ Len(bs) = k /\ bs[k] = b /\ \A i \in 1 .. k - 1 : bs[i] = Null
  BY <1>1 DEF HitTable, ns
<1> HIDE DEF bs
<1>3. \A i \in 1 .. k : i # k => bs[i] = Null
  BY <1>2
<1>4. MambaShape(bs)
  BY <1>2, <1>3 DEF MambaShape
<1>5. ToSet(bs) \ {Null} = {b} \ {Null}
  <2>1. b \in ToSet(bs)
    <3> HIDE DEF T
    <3> QED BY <1>2, Members
  <2>2. ASSUME NEW y \in ToSet(bs) PROVE y \in {b, Null}
    <3>1. PICK i \in 1 .. Len(bs) : bs[i] = y
      <4> HIDE DEF T
      <4> QED BY <1>2, Members
    <3> QED BY <1>2, <1>3, <3>1
  <2> QED BY <2>1, <2>2
<1> QED
  BY <1>2, <1>4, <1>5 DEF bs

\* A list of one block, or of none for the null block.
LEMMA NonNullOne ==
  ASSUME NEW b \in Block \cup {Null}
  PROVE  NonNull(<<b>>) \in Queue(Block) /\ ToSet(NonNull(<<b>>)) = {b} \ {Null}
<1> DEFINE bs == <<b>>
<1>1. bs \in Seq(Block \cup {Null}) /\ MambaShape(bs) /\ ToSet(bs) = {b}
  <2>1. ToSet(bs) = {b}
    BY DEF ToSet
  <2> QED BY <2>1 DEF MambaShape
<1> HIDE DEF bs
<1> QED
  BY <1>1, NonNullBlocks DEF bs

HitTaken(c, t, r, hit, B) ==
  /\ Ready(t, B, r) /\ OnlyOf(c, t, r) /\ t.pend[r] = c.pend[r]
  /\ t.mamba[r].alloc = c.mamba[r].alloc
  /\ Len(t.attn[r].blocks) = Len(c.attn[r].blocks) + Len(hit.attn)
  /\ Len(t.mamba[r].blocks) = Len(c.mamba[r].blocks) + hit.len \div H
  /\ NumFree(t.pool) >= NumFree(c.pool) - Cardinality(Idling(c.pool, ToSet(hit.attn)))
                                        - Cardinality(Idling(c.pool, {hit.ssm}))
  /\ hit.len = 0 => t = c
  /\ t.attn[r].pinned = c.attn[r].pinned
  /\ t.fresh = c.fresh /\ t.copies = c.copies /\ Barer(c.pool, t.pool)

TakesHit(c, r, hit) ==
  /\ GoodHit(c.pool, r, hit)
  /\ hit.len > 0 => /\ c.mamba[r] = NoMamba /\ c.attn[r].blocks = <<>>
                    /\ ToSet(c.attn[r].pinned) \cap ToSet(hit.attn) = {}

\* The attention half of the hit.
AttnTaken(c, t, r, hit, B) ==
  /\ Sound(t, B) /\ OnlyAttn(c, t, r)
  /\ t = WithAttn(c, r, Touch(c.pool, hit.attn),
                  [c.attn[r] EXCEPT !.blocks = hit.attn, !.cached = Len(hit.attn)])
  /\ t.attn[r].blocks = hit.attn
  /\ Taken(c.pool, t.pool, ToSet(hit.attn)) /\ SameIndexes(c.pool, t.pool)

\* The attention blocks of a hit become the table of r.
LEMMA TakeAttnOK ==
  ASSUME NEW c, NEW B \in SUBSET Block, NEW r \in Req, Sound(c, B), NEW hit,
         TakesHit(c, r, hit), hit.len > 0
  PROVE  AttnTaken(c, WithAttn(c, r, Touch(c.pool, hit.attn),
                     [c.attn[r] EXCEPT !.blocks = hit.attn, !.cached = Len(hit.attn)]), r, hit, B)
<1> DEFINE x == AttnOf(r)
           p == c.pool
           h == Holding(c)
           bs == hit.attn
           q == Touch(p, bs)
           h2 == Regrip(h, x, h[x] \cup ToSet(bs))
           a == c.attn[r]
           a2 == [a EXCEPT !.blocks = bs, !.cached = Len(bs)]
           t == WithAttn(c, r, q, a2)
<1>0. /\ c \in Cache /\ p \in QueuePool /\ PoolOK(p, h, B) /\ a \in AttnTable /\ x \in Holder
      /\ TableOK(c, x) /\ SoundBut(c, B, x)
  BY SoundFacts, CacheFields, SoundSplit
<1>1. /\ bs \in Queue(Block) /\ bs \in Seq(Block) /\ Len(bs) \in Nat
      /\ \A j \in 1 .. Len(bs) : p.hash[bs[j]] \in {AttnHash(r, j * A)} \ {None}
      /\ a.blocks = <<>> /\ ToSet(a.pinned) \cap ToSet(bs) = {}
  <2>1. bs \in Queue(Block) /\ bs \in Seq(Block)
    BY DEF TakesHit, GoodHit, Queue
  <2> QED BY <2>1, Members DEF TakesHit, GoodHit
<1>2. h[x] = ToSet(a.pinned)
  <2>1. h[x] = ToSet(a.blocks) \cup ToSet(a.pinned)
    BY AttnHolds
  <2>2. ToSet(a.blocks) = {}
    BY <1>1, QueueEmpty
  <2> HIDE DEF h, x, a
  <2> QED BY <2>1, <2>2
<1>3. Touchable(p, h, B, x, bs)
  <2>1. ASSUME NEW b \in ToSet(bs) PROVE b \in B /\ p.hash[b] # None
    <3>1. b \in Block /\ \E j \in 1 .. Len(bs) : bs[j] = b
      <4> HIDE DEF bs
      <4> QED BY <1>1, Members
    <3>2. p.hash[b] # None
      BY <1>1, <3>1
    <3>3. \A d \in Block \ B : p.hash[d] = None
      <4> HIDE DEF p, h
      <4> QED BY <1>0, PoolFacts
    <3> QED BY <3>1, <3>2, <3>3
  <2>2. ToSet(bs) \cap h[x] = {}
    BY <1>1, <1>2
  <2> HIDE DEF bs, p, h, x
  <2> QED BY <1>1, <2>1, <2>2 DEF Touchable
<1>4. Touched(p, h, B, x, bs, q)
  <2> HIDE DEF p, h, x, bs
  <2> QED BY <1>0, <1>3, TouchPool
<1>5. PoolOK(q, h2, B) /\ Spares(p, h, q, h2, x) /\ SameIndexes(p, q) /\ q \in QueuePool
  BY <1>4 DEF Touched, PoolOK
<1>6. Taken(p, q, ToSet(bs))
  <2> HIDE DEF p, h, x, bs, q
  <2> QED BY <1>0, <1>4, TouchTakes
<1>7. /\ a2 \in AttnTable /\ a2.blocks = bs /\ a2.pinned = a.pinned /\ a2.cached = Len(bs)
  <2> HIDE DEF a, bs
  <2> QED BY <1>0, <1>1 DEF AttnTable
<1>8. AttnOK(q, h2, r, a2)
  <2>1. AttnShape(a)
    BY <1>0, AttnTableOK DEF AttnOK
  <2>2. AttnShape(a2)
    <3> HIDE DEF a, a2, bs
    <3> QED BY <1>1, <1>7, <2>1 DEF AttnShape
  <2>3. q.hash = p.hash
    BY <1>5 DEF SameIndexes
  <2> HIDE DEF a2, bs, p, q, h2
  <2> QED BY <1>1, <1>7, <2>2, <2>3 DEF AttnOK
<1>9. h2 = Regrip(h, x, ToSet(a2.blocks) \cup ToSet(a2.pinned))
  <2>1. ToSet(a2.blocks) \cup ToSet(a2.pinned) = h[x] \cup ToSet(bs)
    <3> HIDE DEF a2, bs, h, x, a
    <3> QED BY <1>2, <1>7
  <2> QED BY <2>1
<1>10. AttnStepped(c, t, r, q, a2, h2, B)
  <2>1. x = AttnOf(r) /\ p = c.pool /\ h = Holding(c)
    OBVIOUS
  <2> HIDE DEF x, p, h, q, h2, a2
  <2> QED BY <1>0, <1>5, <1>7, <1>9, <2>1, AttnStep
<1>11. Sound(t, B) /\ OnlyAttn(c, t, r) /\ t.pool = q /\ t.attn[r] = a2
  BY <1>8, <1>10 DEF AttnStepped
<1>12. t.attn[r].blocks = hit.attn
  BY <1>7, <1>11
<1> HIDE DEF t, q
<1> QED
  BY <1>5, <1>6, <1>11, <1>12 DEF AttnTaken, t, q

\* allocate_new_computed_blocks of both groups.
LEMMA TakeHitOK ==
  ASSUME NEW c, NEW B \in SUBSET Block, NEW r \in Req, Sound(c, B), NEW hit,
         TakesHit(c, r, hit)
  PROVE  HitTaken(c, TakeHit(c, r, hit), r, hit, B)
<1> DEFINE t == TakeHit(c, r, hit)
           p == c.pool
<1>0. c \in Cache /\ p \in QueuePool /\ PoolOK(p, Holding(c), B) /\ NumFree(p) \in Nat
      /\ hit.len \in Nat /\ hit.ssm \in Block \cup {Null} /\ H \in Nat \ {0}
      /\ hit.attn \in Queue(Block)
  BY SoundFacts, FreeNat, CheckpointFacts DEF TakesHit, GoodHit
<1>1. CASE hit.len = 0
  <2>1. t = c
    BY <1>1 DEF TakeHit
  <2>2. hit.attn = <<>> /\ hit.ssm = Null
    BY <1>1 DEF TakesHit, GoodHit
  <2>3. Idling(p, ToSet(hit.attn)) = {} /\ Idling(p, {hit.ssm}) = {}
    BY <2>2, QueueEmpty DEF Idling
  <2>4. Len(hit.attn) = 0 /\ hit.len \div H = 0
    BY <1>0, <1>1, <2>2
  <2>5. Len(c.attn[r].blocks) \in Nat /\ Len(c.mamba[r].blocks) \in Nat
    <3>1. c.attn[r].blocks \in Seq(Block) /\ c.mamba[r].blocks \in Seq(Block \cup {Null})
      BY <1>0, CacheFields DEF AttnTable, MambaTable
    <3> QED BY <3>1, SMTT(40)
  <2>6. Cardinality(Idling(p, ToSet(hit.attn))) = 0 /\ Cardinality(Idling(p, {hit.ssm})) = 0
    BY <2>3, FS_EmptySet
  <2>7. Ready(c, B, r)
    BY SoundReady
  <2> QED BY <1>0, <1>1, <2>1, <2>4, <2>5, <2>6, <2>7 DEF HitTaken, OnlyOf, Barer
<1>2. CASE hit.len # 0
  <2> DEFINE k  == hit.len \div H
             a2 == [c.attn[r] EXCEPT !.blocks = hit.attn, !.cached = Len(hit.attn)]
             q1 == Touch(p, hit.attn)
             c1 == WithAttn(c, r, q1, a2)
             nb == NonNull(<<hit.ssm>>)
             q2 == Touch(q1, nb)
             x  == MambaOf(r)
             h1 == Holding(c1)
             h2 == Regrip(h1, x, h1[x] \cup ToSet(nb))
             bs == HitTable(k, hit.ssm)
             m  == c.mamba[r]
             m2 == [m EXCEPT !.blocks = bs]
  <2>0. hit.len > 0 /\ m = NoMamba /\ c.attn[r].blocks = <<>>
    BY <1>0, <1>2 DEF TakesHit
  <2>1. k \in Nat \ {0}
    <3> DEFINE l == hit.len
    <3>1. l \in Nat /\ l > 0 /\ l % H = 0
      BY <1>0, <2>0 DEF TakesHit, GoodHit
    <3> HIDE DEF l
    <3>2. l \div H \in Nat /\ l = H * (l \div H) + (l % H)
      BY <1>0, <3>1
    <3>3. l \div H # 0
      BY <1>0, <3>1, <3>2
    <3> QED BY <3>2, <3>3 DEF l
  <2>2. AttnTaken(c, c1, r, hit, B)
    BY <2>0, TakeAttnOK
  <2>3. /\ Sound(c1, B) /\ OnlyAttn(c, c1, r) /\ c1.attn[r].blocks = hit.attn /\ c1.pool = q1
        /\ Taken(p, q1, ToSet(hit.attn)) /\ SameIndexes(p, q1) /\ c1.mamba[r] = m
    <3>1. c1.pool = q1
      BY <1>0 DEF WithAttn, Cache
    <3> HIDE DEF c1
    <3> QED BY <2>2, <3>1 DEF AttnTaken, OnlyAttn
  <2>23. c1.attn[r].pinned = c.attn[r].pinned
    <3>1. c.attn \in [Req -> AttnTable]
      BY <1>0 DEF Cache
    <3>2. c1.attn[r] = a2
      BY <1>0, <3>1 DEF WithAttn, Cache
    <3>3. a2.pinned = c.attn[r].pinned
      BY <3>1 DEF AttnTable
    <3> HIDE DEF a2, c1
    <3> QED BY <3>2, <3>3
  <2> HIDE DEF c1, q1
  <2>4. bs \in Seq(Block \cup {Null}) /\ Len(bs) = k /\ ToSet(bs) \ {Null} = {hit.ssm} \ {Null}
        /\ MambaShape(bs)
    <3> HIDE DEF k
    <3> QED BY <1>0, <2>1, HitTableOK
  <2>5. /\ c1 \in Cache /\ q1 \in QueuePool /\ PoolOK(q1, h1, B) /\ x \in Holder
        /\ h1[x] = ToSet(m.blocks) \ {Null} /\ SoundBut(c1, B, x)
    BY <2>3, SoundFacts, MambaFacts
  <2>6. h1[x] = {}
    BY <2>0, <2>5, NoMambaTable, QueueEmpty
  <2>7. nb \in Queue(Block) /\ ToSet(nb) = {hit.ssm} \ {Null}
    BY <1>0, NonNullOne
  <2>8. ASSUME hit.ssm # Null
        PROVE  hit.ssm \in B /\ q1.hash[hit.ssm] # None /\ HashedIn(q1, hit.ssm, "mamba")
    <3>1. HashedIn(p, hit.ssm, "mamba") /\ hit.ssm \in Block
      BY <1>0, <2>8 DEF TakesHit, GoodHit
    <3>2. HashedIn(q1, hit.ssm, "mamba") /\ q1.hash[hit.ssm] # None
      BY <2>3, <3>1 DEF SameIndexes, HashedIn
    <3>3. \A d \in Block \ B : q1.hash[d] = None
      <4> HIDE DEF h1
      <4> QED BY <2>5, PoolFacts
    <3> QED BY <3>1, <3>2, <3>3
  <2>9. Touchable(q1, h1, B, x, nb)
    BY <2>6, <2>7, <2>8 DEF Touchable
  <2>10. Touched(q1, h1, B, x, nb, q2)
    <3> HIDE DEF h1, x, nb
    <3> QED BY <2>5, <2>9, TouchPool
  <2>11. PoolOK(q2, h2, B) /\ Spares(q1, h1, q2, h2, x) /\ SameIndexes(q1, q2) /\ q2 \in QueuePool
    BY <2>10 DEF Touched, PoolOK
  <2>12. Taken(q1, q2, {hit.ssm} \ {Null})
    <3>1. Taken(q1, q2, ToSet(nb))
      <4> HIDE DEF h1, x, nb, q2
      <4> QED BY <2>5, <2>10, TouchTakes
    <3> QED BY <2>7, <3>1
  <2>13. /\ m2 \in MambaTable /\ m2.blocks = bs /\ Unplaced(m2) /\ m2.alloc = m.alloc
    <3>1. m \in MambaTable /\ Unplaced(m)
      BY <2>0, NoMambaTable DEF NoMamba, Unplaced
    <3> HIDE DEF m, bs
    <3> QED BY <2>4, <3>1 DEF MambaTable, Unplaced
  <2>14. h2 = Regrip(h1, x, ToSet(m2.blocks) \ {Null})
    <3>1. ToSet(m2.blocks) \ {Null} = h1[x] \cup ToSet(nb)
      BY <2>4, <2>6, <2>7, <2>13
    <3> QED BY <3>1
  <2> DEFINE c2 == WithMamba(c1, r, q2, m2)
  <2>15. MambaStepped(c1, c2, r, q2, m2, h2, B)
    <3>1. x = MambaOf(r) /\ h1 = Holding(c1) /\ q1 = c1.pool
      BY <2>3
    <3> HIDE DEF x, h1, q2, h2, m2
    <3>2. Barer(q1, q2)
      BY <2>11, SameBarer DEF SameIndexes
    <3> QED BY <2>5, <2>11, <2>13, <2>14, <3>1, <3>2, MambaStep
  <2>16. SoundBut(c2, B, x) /\ OnlyMamba(c1, c2, r) /\ c2.pool = q2 /\ c2.mamba[r] = m2
    BY <2>15 DEF MambaStepped
  <2>17. t = c2
    <3>1. t = [c EXCEPT !.pool = q2, !.attn[r].blocks = hit.attn, !.attn[r].cached = Len(hit.attn),
                        !.mamba[r].blocks = bs]
      BY <1>2 DEF TakeHit, q1, HitTable
    <3>2. c.attn \in [Req -> AttnTable] /\ c.mamba \in [Req -> MambaTable]
      BY <1>0 DEF Cache
    <3> HIDE DEF q2, bs, t
    <3>3. t = [c EXCEPT !.pool = q2, !.attn = [c.attn EXCEPT ![r] = a2],
                        !.mamba = [c.mamba EXCEPT ![r] = m2]]
      BY <3>1, <3>2 DEF AttnTable, MambaTable
    <3> HIDE DEF a2, m2
    <3>4. c1 = [c EXCEPT !.pool = q1, !.attn = [c.attn EXCEPT ![r] = a2]]
      BY DEF c1, WithAttn
    <3>5. c2 = [c1 EXCEPT !.pool = q2, !.mamba = [c1.mamba EXCEPT ![r] = m2]]
      BY DEF WithMamba
    <3>6. c1.mamba = c.mamba
      BY <1>0, <3>4 DEF Cache
    <3> HIDE DEF c2
    <3> QED BY <1>0, <3>3, <3>4, <3>5, <3>6 DEF Cache
  <2> HIDE DEF c2, q2, m2, bs, t
  <2>18. Ready(c2, B, r)
    <3>1. MambaHashes(c2.pool, m2.blocks)
      <4>1. ToSet(m2.blocks) \ {Null} = {hit.ssm} \ {Null}
        BY <2>4, <2>13
      <4> QED BY <2>8, <2>11, <2>16, <4>1 DEF MambaHashes, SameIndexes, HashedIn
    <3>2. Waits(c2, r)
      BY <2>4, <2>13, <2>16, <3>1 DEF Waits
    <3> QED BY <2>16, <3>2 DEF Ready
  <2>19. OnlyOf(c, c2, r) /\ c2.pend[r] = c.pend[r] /\ c2.mamba[r].alloc = c.mamba[r].alloc
    BY <2>3, <2>13, <2>16 DEF OnlyOf, OnlyAttn, OnlyMamba
  <2>20. Len(c2.attn[r].blocks) = Len(c.attn[r].blocks) + Len(hit.attn)
    <3>1. c2.attn[r].blocks = hit.attn /\ Len(c.attn[r].blocks) = 0 /\ Len(hit.attn) \in Nat
      BY <1>0, <2>0, <2>3, <2>16, Members DEF OnlyMamba, Queue
    <3> QED BY <3>1
  <2>21. Len(c2.mamba[r].blocks) = Len(c.mamba[r].blocks) + hit.len \div H
    <3>1. Len(c.mamba[r].blocks) = 0 /\ Len(c2.mamba[r].blocks) = k
      BY <2>0, <2>4, <2>13, <2>16, NoMambaTable
    <3> HIDE DEF m
    <3> QED BY <2>1, <3>1
  <2>22. NumFree(c2.pool) >= NumFree(p) - Cardinality(Idling(p, ToSet(hit.attn)))
                                         - Cardinality(Idling(p, {hit.ssm}))
    <3> DEFINE n0 == NumFree(p)
               n1 == NumFree(q1)
               n2 == NumFree(c2.pool)
               e1 == Cardinality(Idling(p, ToSet(hit.attn)))
               e2 == Cardinality(Idling(q1, {hit.ssm} \ {Null}))
               e3 == Cardinality(Idling(p, {hit.ssm}))
    <3>1. n1 = n0 - e1 /\ n2 = n1 - e2
      BY <2>3, <2>12, <2>16 DEF Taken
    <3>2. e2 <= e3 /\ e2 \in Nat /\ e3 \in Nat
      <4>1. Idling(q1, {hit.ssm} \ {Null}) = Idling(q1, {hit.ssm})
        BY DEF Idling
      <4>2. \A b \in Block : q1.ref[b] = 0 => p.ref[b] = 0
        BY <2>3 DEF Taken
      <4> DEFINE S == {hit.ssm}
      <4>3. S \in SUBSET (Block \cup {Null})
        BY <1>0
      <4> HIDE DEF S, p
      <4>4. /\ Cardinality(Idling(q1, S)) <= Cardinality(Idling(p, S))
            /\ Cardinality(Idling(q1, S)) \in Nat /\ Cardinality(Idling(p, S)) \in Nat
        BY <4>2, <4>3, IdlingLess
      <4> QED BY <4>1, <4>4 DEF S
    <3>3. e1 \in Nat
      <4> DEFINE S == ToSet(hit.attn)
      <4>1. S \in SUBSET (Block \cup {Null})
        BY <1>0, Members DEF Queue
      <4> HIDE DEF S, p
      <4>2. Cardinality(Idling(p, S)) \in Nat
        BY <4>1, IdlingLess
      <4> QED BY <4>2 DEF S
    <3> HIDE DEF n0, n1, n2, e1, e2, e3
    <3>4. n0 \in Nat
      BY <1>0 DEF n0
    <3>5. n2 >= n0 - e1 - e3
      BY <3>1, <3>2, <3>3, <3>4
    <3> QED BY <3>5 DEF n0, n2, e1, e3
  <2>24. c2.attn[r].pinned = c.attn[r].pinned
    BY <2>16, <2>23 DEF OnlyMamba
  <2>25. c2.fresh = c.fresh /\ c2.copies = c.copies /\ Barer(p, c2.pool)
    <3>1. q1.pids = p.pids /\ q2.pids = q1.pids
      BY <2>3, <2>11 DEF SameIndexes
    <3>2. Barer(p, c2.pool)
      BY <2>16, <3>1, SameBarer
    <3> QED BY <2>3, <2>16, <3>2 DEF OnlyAttn, OnlyMamba
  <2> QED BY <1>2, <2>17, <2>18, <2>19, <2>20, <2>21, <2>22, <2>24, <2>25 DEF HitTaken, t
<1> QED
  BY <1>1, <1>2

\* A cache that differs in what the next output carries, or in a pending hit.
LEMMA ReadySame ==
  ASSUME NEW c, NEW c2 \in Cache, NEW B, NEW r \in Req, Ready(c, B, r),
         c2.pool = c.pool, c2.mamba = c.mamba, c2.attn = c.attn
  PROVE  Ready(c2, B, r) /\ (Sound(c, B) => Sound(c2, B))
<1>1. Holding(c2) = Holding(c)
  BY DEF Holding, HeldBy
<1>2. \A y \in Holder : TableOK(c, y) => TableOK(c2, y)
  BY <1>1 DEF TableOK
<1>3. MambaOf(r) \in Holder
  BY CacheFields
<1>4. SoundBut(c2, B, MambaOf(r))
  BY <1>1, <1>2 DEF Ready, SoundBut
<1>5. Sound(c, B) => Sound(c2, B)
  BY <1>1, <1>2 DEF Sound
<1> QED
  BY <1>2, <1>3, <1>4, <1>5 DEF Ready, Waits

\* The blocks that the attention table of r has gained are to be zeroed; no table had them.
Laid(c, t, r) ==
  \E bs \in Seq(Block) :
    /\ t.fresh = c.fresh \o bs /\ t.attn[r].blocks = c.attn[r].blocks \o bs
    /\ \A b \in ToSet(bs) : t.pool.pids[b] = {} /\ \A y \in Holder : b \notin Holding(c)[y]

\* The attention table of r has grown to hold the tokens.
AttnGrown(c, t, r, tokens, B) ==
  /\ Ready(t, B, r) /\ (Sound(c, B) => Sound(t, B)) /\ OnlyOf(c, t, r)
  /\ t.mamba = c.mamba /\ t.pend = c.pend
  /\ CeilDiv(tokens, A) <= Len(t.attn[r].blocks)
  /\ NumFree(t.pool) = NumFree(c.pool) - Max2(CeilDiv(tokens, A) - Len(c.attn[r].blocks), 0)
  /\ Laid(c, t, r) /\ Barer(c.pool, t.pool)
  /\ t.attn[r].pinned = c.attn[r].pinned /\ t.copies = c.copies

\* The table with new blocks at its end.
Grown(hold, r, a, n, t, bs, a2) ==
  LET h2 == Regrip(hold, AttnOf(r), hold[AttnOf(r)] \cup ToSet(bs))
  IN  /\ a2 \in AttnTable /\ AttnOK(t, h2, r, a2)
      /\ ToSet(a2.blocks) \cup ToSet(a2.pinned) = hold[AttnOf(r)] \cup ToSet(bs)
      /\ Len(a2.blocks) = Len(a.blocks) + n

\* A table with new blocks at its end is in order: nobody finds them.
LEMMA GrownTable ==
  ASSUME NEW q, NEW hold, NEW B \in SUBSET Block, NEW r \in Req, PoolOK(q, hold, B),
         NEW a \in AttnTable, AttnOK(q, hold, r, a),
         hold[AttnOf(r)] = ToSet(a.blocks) \cup ToSet(a.pinned),
         NEW n, NEW t, NEW bs, Allocated(q, hold, B, AttnOf(r), n, t, bs),
         NEW a2, a2 = [a EXCEPT !.blocks = a.blocks \o bs]
  PROVE  Grown(hold, r, a, n, t, bs, a2)
<1> DEFINE x  == AttnOf(r)
           h2 == Regrip(hold, x, hold[x] \cup ToSet(bs))
           old == a.blocks
<1>0. x \in Holder /\ hold \in [Holder -> SUBSET Block] /\ x = <<"attn", r>>
  <2>1. x \in Holder
    BY DEF AttnOf, Holder, Groups
  <2> QED BY <2>1, PoolFacts DEF AttnOf
<1>1. /\ bs \in Queue(Block) /\ Len(bs) = n
      /\ \A b \in ToSet(bs) : \A y \in Holder : b \notin hold[y]
      /\ \A b \in ToSet(bs) : t.hash[b] = None /\ t.pids[b] = {}
      /\ \A b \in Block \ ToSet(bs) : t.hash[b] = q.hash[b] /\ t.pids[b] = q.pids[b]
  BY DEF Allocated
<1>2. /\ old \in Queue(Block) /\ old \in Seq(Block) /\ Len(old) \in Nat
      /\ a.pinned \in Queue(Block) /\ a.pinned \in Seq(Block)
      /\ ToSet(old) \cap ToSet(a.pinned) = {} /\ a.cached <= Len(old) /\ a.cached \in Nat
      /\ bs \in Seq(Block) /\ Len(bs) \in Nat
  <2>1. old \in Queue(Block) /\ a.pinned \in Queue(Block) /\ bs \in Queue(Block)
    BY <1>1 DEF AttnOK, AttnShape
  <2>2. old \in Seq(Block) /\ a.pinned \in Seq(Block) /\ bs \in Seq(Block)
    BY <2>1 DEF Queue
  <2>3. a.cached \in Nat
    BY DEF AttnTable
  <2> QED BY <2>1, <2>2, <2>3 DEF AttnOK, AttnShape
<1>3. ToSet(bs) \cap ToSet(old) = {} /\ ToSet(bs) \cap ToSet(a.pinned) = {}
      /\ ToSet(bs) \cap hold[x] = {}
  <2>1. ToSet(bs) \cap hold[x] = {}
    BY <1>0, <1>1
  <2>2. hold[x] = ToSet(old) \cup ToSet(a.pinned)
    OBVIOUS
  <2> HIDE DEF x, old
  <2> QED BY <2>1, <2>2
<1>4. /\ a2 \in AttnTable /\ a2.blocks = old \o bs /\ a2.pinned = a.pinned /\ a2.cached = a.cached
  <2>1. old \o bs \in Seq(Block)
    BY <1>2
  <2> DEFINE w == old \o bs
  <2>2. a2 = [a EXCEPT !.blocks = w]
    OBVIOUS
  <2> HIDE DEF w
  <2>3. a2 \in AttnTable /\ a2.blocks = w /\ a2.pinned = a.pinned /\ a2.cached = a.cached
    BY <2>1, <2>2 DEF AttnTable, w
  <2> QED BY <2>3 DEF w
<1>5. old \o bs \in Queue(Block) /\ ToSet(old \o bs) = ToSet(old) \cup ToSet(bs)
      /\ Len(old \o bs) = Len(old) + n
  <2>1. Len(old \o bs) = Len(old) + Len(bs)
    BY <1>2
  <2> HIDE DEF old
  <2> QED BY <1>1, <1>2, <1>3, <2>1, QueueConcat
<1>6. ToSet(a2.blocks) \cup ToSet(a2.pinned) = hold[x] \cup ToSet(bs)
  <2>1. hold[x] = ToSet(old) \cup ToSet(a.pinned)
    OBVIOUS
  <2> HIDE DEF x, old
  <2> QED BY <1>4, <1>5, <2>1
<1>7. Len(a2.blocks) = Len(old) + n /\ Len(a2.blocks) = Len(old) + Len(bs)
  BY <1>1, <1>4, <1>5
<1>8. AttnShape(a2)
  <2>1. a2.cached <= Len(a2.blocks)
    BY <1>2, <1>4, <1>7
  <2>2. ToSet(a2.blocks) \cap ToSet(a2.pinned) = {}
    <3> HIDE DEF old
    <3> QED BY <1>2, <1>3, <1>4, <1>5
  <2> QED BY <1>2, <1>4, <1>5, <2>1, <2>2 DEF AttnShape
<1>9. /\ \A j \in 1 .. Len(old) : /\ a2.blocks[j] = old[j] /\ old[j] \in Block
                                  /\ old[j] \in hold[x] /\ old[j] \notin ToSet(bs)
      /\ \A j \in Len(old) + 1 .. Len(a2.blocks) : a2.blocks[j] \in ToSet(bs)
  <2>1. \A j \in 1 .. Len(old) : a2.blocks[j] = old[j]
    BY <1>2, <1>4
  <2>2. \A j \in 1 .. Len(old) : old[j] \in ToSet(old) /\ old[j] \in Block
    <3> HIDE DEF old
    <3> QED BY <1>2, Members
  <2>3. ASSUME NEW j \in Len(old) + 1 .. Len(a2.blocks) PROVE a2.blocks[j] \in ToSet(bs)
    <3>1. j - Len(old) \in 1 .. Len(bs) /\ a2.blocks[j] = bs[j - Len(old)]
      BY <1>2, <1>4, <1>7, SMTT(40)
    <3> QED BY <1>2, <3>1, Members
  <2> QED BY <1>3, <2>1, <2>2, <2>3
<1>10. ASSUME NEW j \in 1 .. a2.cached
       PROVE  t.hash[a2.blocks[j]] \in {AttnHash(r, j * A)} \ {None}
  <2>1. j \in 1 .. Len(old) /\ j \in 1 .. a.cached
    BY <1>2, <1>4
  <2>2. q.hash[old[j]] \in {AttnHash(r, j * A)} \ {None}
    BY <2>1 DEF AttnOK
  <2>3. a2.blocks[j] = old[j] /\ t.hash[old[j]] = q.hash[old[j]]
    BY <1>1, <1>9, <2>1
  <2> QED BY <2>2, <2>3
<1>11. h2[x] = hold[x] \cup ToSet(bs) /\ \A y \in Holder : y # x => h2[y] = hold[y]
  BY <1>0 DEF Regrip
<1>12. ASSUME NEW j \in a2.cached + 1 .. Len(a2.blocks)
       PROVE  Own(t, h2, <<"attn", r>>, a2.blocks[j])
  <2> DEFINE b == a2.blocks[j]
  <2>1. CASE j \in 1 .. Len(old)
    <3>1. Own(q, hold, x, b) /\ b \in Block /\ b \notin ToSet(bs)
      <4>1. j \in a.cached + 1 .. Len(a.blocks)
        BY <1>2, <1>4, <2>1
      <4>2. Own(q, hold, x, old[j])
        BY <1>0, <4>1 DEF AttnOK
      <4> QED BY <1>9, <2>1, <4>2
    <3>2. t.hash[b] = q.hash[b] /\ t.pids[b] = q.pids[b]
      BY <1>1, <3>1
    <3> HIDE DEF b, h2
    <3>3. Own(t, h2, x, b)
      BY <1>11, <3>1, <3>2 DEF Own
    <3> QED BY <1>0, <3>3 DEF b
  <2>2. CASE j \notin 1 .. Len(old)
    <3>1. j \in Len(old) + 1 .. Len(a2.blocks)
      BY <1>2, <1>4, <2>2
    <3>2. b \in ToSet(bs)
      BY <1>9, <3>1
    <3> HIDE DEF b, h2
    <3>3. Own(t, h2, x, b)
      BY <1>1, <1>11, <3>2 DEF Own
    <3> QED BY <1>0, <3>3 DEF b
  <2> QED BY <2>1, <2>2
<1>13. AttnOK(t, h2, r, a2)
  BY <1>8, <1>10, <1>12 DEF AttnOK
<1> QED
  BY <1>4, <1>6, <1>7, <1>13 DEF Grown

\* allocate_new_blocks of the attention group.
LEMMA AttnAllocateOK ==
  ASSUME NEW c, NEW B \in SUBSET Block, NEW r \in Req, Ready(c, B, r), NEW tokens \in Nat,
         Max2(CeilDiv(tokens, A) - Len(c.attn[r].blocks), 0) <= NumFree(c.pool)
  PROVE  AttnGrown(c, AttnAllocate(c, r, tokens), r, tokens, B)
<1> DEFINE k  == CeilDiv(tokens, A)
           a  == c.attn[r]
           n  == Max2(k - Len(a.blocks), 0)
           p  == c.pool
           h  == Holding(c)
           x  == AttnOf(r)
           q  == GetNewBlocks(p, n)
           bs == NewBlocks(p, n)
           h2 == Regrip(h, x, h[x] \cup ToSet(bs))
           a2 == [a EXCEPT !.blocks = a.blocks \o bs]
           c2 == WithAttn(c, r, q, a2)
           t  == AttnAllocate(c, r, tokens)
<1>0. /\ c \in Cache /\ p \in QueuePool /\ PoolOK(p, h, B) /\ a \in AttnTable /\ x \in Holder
      /\ SoundBut(c, B, MambaOf(r)) /\ h[x] = ToSet(a.blocks) \cup ToSet(a.pinned)
      /\ AttnOK(p, h, r, a)
  <2>1. SoundBut(c, B, MambaOf(r)) /\ c \in Cache
    BY DEF Ready, SoundBut
  <2>2. TableOK(c, x)
    BY <2>1, CacheFields DEF SoundBut
  <2> QED BY <2>1, <2>2, CacheFields, AttnHolds, AttnTableOK DEF SoundBut
<1>1. n \in Nat /\ k \in Nat /\ Len(a.blocks) \in Nat /\ k <= Len(a.blocks) + n /\ n <= NumFree(p)
  <2>1. k \in Nat
    BY CeilDivType, TokensAssumption
  <2>2. Len(a.blocks) \in Nat
    BY <1>0 DEF AttnTable
  <2>3. n <= NumFree(p)
    OBVIOUS
  <2> DEFINE l == Len(a.blocks)
  <2>4. n = Max2(k - l, 0)
    OBVIOUS
  <2>5. l \in Nat
    BY <2>2
  <2> HIDE DEF k, l, n
  <2>6. n \in Nat /\ k <= l + n
    BY <2>1, <2>4, <2>5 DEF Max2
  <2> QED BY <2>1, <2>2, <2>3, <2>6 DEF l
<1>2. Allocated(p, h, B, x, n, q, bs)
  <2> HIDE DEF p, h, x, n
  <2> QED BY <1>0, <1>1, AllocatePool
<1>3. /\ PoolOK(q, h2, B) /\ Spares(p, h, q, h2, x) /\ q \in QueuePool
      /\ bs \in Seq(Block) /\ Len(q.queue) = Len(p.queue) - n
  BY <1>2 DEF Allocated, PoolOK, Queue
<1>23. /\ \A b \in ToSet(bs) : q.pids[b] = {} /\ \A y \in Holder : b \notin h[y]
       /\ \A b \in Block : q.pids[b] \subseteq p.pids[b]
  <2> HIDE DEF p, h, x, n, q, bs
  <2> QED BY <1>2 DEF Allocated
<1>4. /\ a2 \in AttnTable /\ AttnOK(q, h2, r, a2)
      /\ ToSet(a2.blocks) \cup ToSet(a2.pinned) = h[x] \cup ToSet(bs)
      /\ Len(a2.blocks) = Len(a.blocks) + n
  <2>1. x = AttnOf(r) /\ a2 = [a EXCEPT !.blocks = a.blocks \o bs]
    OBVIOUS
  <2> HIDE DEF p, h, a, n, q, bs, a2
  <2>2. Grown(h, r, a, n, q, bs, a2)
    BY <1>0, <1>2, <2>1, GrownTable
  <2> QED BY <2>2 DEF Grown
<1>24. a2.blocks = a.blocks \o bs /\ a2.pinned = a.pinned
  <2> HIDE DEF a, bs
  <2> QED BY <1>0 DEF AttnTable
<1>5. h2 = Regrip(h, x, ToSet(a2.blocks) \cup ToSet(a2.pinned))
  BY <1>4
<1>6. ReadyStepped(c, c2, r, q, a2, B)
  <2>1. x = AttnOf(r) /\ p = c.pool /\ h = Holding(c)
    OBVIOUS
  <2> HIDE DEF x, p, h, q, h2, a2
  <2> QED BY <1>3, <1>4, <1>5, <2>1, AttnReady
<1>7. /\ Ready(c2, B, r) /\ (Sound(c, B) => Sound(c2, B)) /\ OnlyAttn(c, c2, r)
      /\ c2.pool = q /\ c2.attn[r] = a2 /\ c2 \in Cache
  BY <1>6, Zenon DEF ReadyStepped, Ready, SoundBut
<1>8. t = [c2 EXCEPT !.fresh = c.fresh \o bs]
  <2>1. t = [c EXCEPT !.pool = q, !.attn[r].blocks = a.blocks \o bs, !.fresh = c.fresh \o bs]
    BY DEF AttnAllocate
  <2> HIDE DEF q, bs, t
  <2> QED BY <2>1 DEF WithAttn
<1>9. c.fresh \o bs \in Seq(Block)
  <2>1. c.fresh \in Seq(Block)
    BY <1>0, CacheFields
  <2> HIDE DEF bs
  <2> QED BY <1>3, <2>1
<1> HIDE DEF c2, q, bs, t, a2
<1>10. /\ t \in Cache /\ t.pool = q /\ t.mamba = c2.mamba /\ t.attn = c2.attn
       /\ t.pend = c2.pend /\ t.gold = c2.gold /\ t.copies = c2.copies
       /\ t.fresh = c.fresh \o bs
  BY <1>7, <1>8, <1>9 DEF Cache
<1>11. Ready(t, B, r) /\ (Sound(c, B) => Sound(t, B))
  BY <1>7, <1>10, ReadySame
<1>12. OnlyOf(c, t, r) /\ t.mamba = c.mamba /\ t.pend = c.pend
  BY <1>7, <1>10 DEF OnlyAttn, OnlyOf
<1>13. Len(t.attn[r].blocks) = Len(a.blocks) + n /\ NumFree(t.pool) = NumFree(p) - n
  BY <1>3, <1>4, <1>7, <1>10 DEF NumFree
<1>14. CeilDiv(tokens, A) <= Len(t.attn[r].blocks)
  BY <1>1, <1>13
<1>15. Laid(c, t, r)
  <2>1. t.attn[r].blocks = c.attn[r].blocks \o bs
    BY <1>7, <1>10, <1>24
  <2>2. \A b \in ToSet(bs) : t.pool.pids[b] = {} /\ \A y \in Holder : b \notin Holding(c)[y]
    BY <1>10, <1>23
  <2>3. bs \in Seq(Block) /\ t.fresh = c.fresh \o bs
    BY <1>3, <1>10
  <2> QED BY <2>1, <2>2, <2>3 DEF Laid
<1>16. Barer(c.pool, t.pool) /\ t.attn[r].pinned = c.attn[r].pinned /\ t.copies = c.copies
  BY <1>7, <1>10, <1>23, <1>24 DEF Barer, OnlyAttn
<1> QED
  BY <1>11, <1>12, <1>13, <1>14, <1>15, <1>16 DEF AttnGrown, t

-----------------------------------------------------------------------------
(* The copy of a partial hit, and the blocks that become cached.           *)

\* The pending hit of r is gone, and nothing else of the tables has changed.
Queued(c, t, r, B) ==
  /\ Sound(t, B) /\ t.attn = c.attn /\ t.mamba = c.mamba /\ t.gold = c.gold
  /\ t.pend = [c.pend EXCEPT ![r] = None]
  /\ t.pool = c.pool /\ t.fresh = c.fresh

\* A cache with another list of pending hits and copies.
LEMMA PendOK ==
  ASSUME NEW c, NEW B, NEW r \in Req, Sound(c, B), NEW new \in Seq(Copy),
         NEW t, t = [c EXCEPT !.pend[r] = None, !.copies = new]
  PROVE  Queued(c, t, r, B)
<1>0. c \in Cache
  BY SoundFacts
<1>1. /\ t.pool = c.pool /\ t.attn = c.attn /\ t.mamba = c.mamba /\ t.gold = c.gold
      /\ t.pend = [c.pend EXCEPT ![r] = None] /\ t.fresh = c.fresh /\ t.copies = new
  BY <1>0 DEF Cache
<1>2. t.pend \in [Req -> PartialHit \cup {None}]
  BY <1>0, <1>1 DEF Cache
<1>3. t \in Cache
  BY <1>0, <1>1, <1>2 DEF Cache
<1>4. Sound(t, B)
  BY <1>1, <1>3, SoundSame
<1> QED
  BY <1>1, <1>4 DEF Queued

\* The pending hit is dropped.
LEMMA PendGone ==
  ASSUME NEW c, NEW B, NEW r \in Req, Sound(c, B)
  PROVE  Queued(c, [c EXCEPT !.pend[r] = None], r, B)
<1>0. c \in Cache /\ c.copies \in Seq(Copy)
  BY SoundFacts, CacheFields
<1>1. [c EXCEPT !.pend[r] = None] = [c EXCEPT !.pend[r] = None, !.copies = c.copies]
  BY <1>0 DEF Cache
<1> QED
  BY <1>0, <1>1, PendOK

\* make_partial_cache_copy_ops.
LEMMA QueueCopyOK ==
  ASSUME NEW c, NEW B \in SUBSET Block, NEW r \in Req, Sound(c, B)
  PROVE  Queued(c, QueueCopy(c, r), r, B)
<1> DEFINE p   == c.pend[r]
           bs  == c.attn[r].blocks
           dst == bs[p.index + 1]
           new == Append(c.copies, [src |-> p.src, dst |-> dst, ntok |-> p.ntok])
<1>0. c \in Cache /\ c.copies \in Seq(Copy) /\ bs \in Seq(Block)
      /\ c.pend \in [Req -> PartialHit \cup {None}] /\ p \in PartialHit \cup {None}
  BY SoundFacts, CacheFields DEF AttnTable
<1>1. CASE p = None
  <2>1. QueueCopy(c, r) = c
    BY <1>1 DEF QueueCopy
  <2>2. [c EXCEPT !.pend[r] = None] = c
    BY <1>0, <1>1 DEF Cache
  <2> QED BY <2>1, <2>2, PendGone
<1>2. CASE p # None /\ (p.index + 1 > Len(bs) \/ dst = p.src)
  <2>1. QueueCopy(c, r) = [c EXCEPT !.pend[r] = None]
    BY <1>2 DEF QueueCopy
  <2> QED BY <2>1, PendGone
<1>3. CASE p # None /\ ~(p.index + 1 > Len(bs) \/ dst = p.src)
  <2>1. p \in PartialHit /\ p.src \in Block /\ p.index \in Nat /\ p.ntok \in Nat
    BY <1>0, <1>3 DEF PartialHit
  <2>2. dst \in Block
    <3> DEFINE i == p.index
               l == Len(bs)
    <3>1. i \in Nat /\ l \in Nat /\ ~(i + 1 > l)
      BY <1>0, <1>3, <2>1
    <3> HIDE DEF i, l, bs
    <3>2. i + 1 \in 1 .. l
      BY <3>1
    <3> QED BY <1>0, <3>2 DEF i, l
  <2>3. [src |-> p.src, dst |-> dst, ntok |-> p.ntok] \in Copy
    BY <2>1, <2>2 DEF Copy
  <2> DEFINE x == [src |-> p.src, dst |-> dst, ntok |-> p.ntok]
  <2>4. new \in Seq(Copy)
    <3>1. new = Append(c.copies, x) /\ x \in Copy
      BY <2>3
    <3> HIDE DEF new, x
    <3> QED BY <1>0, <3>1
  <2>5. QueueCopy(c, r) = [c EXCEPT !.pend[r] = None, !.copies = new]
    BY <1>3 DEF QueueCopy
  <2> HIDE DEF new
  <2> QED BY <2>4, <2>5, PendOK
<1> QED
  BY <1>1, <1>2, <1>3

\* What one table after the other leaves to the other holders.
LEMMA SparesOn ==
  ASSUME NEW q, NEW hold, NEW q2, NEW hold2, NEW q3, NEW hold3, NEW x,
         Spares(q, hold, q2, hold2, x), Spares(q2, hold2, q3, hold3, x)
  PROVE  Spares(q, hold, q3, hold3, x)
<1> SUFFICES ASSUME NEW y \in Holder \ {x}
             PROVE  /\ hold3[y] = hold[y]
                    /\ \A b \in hold[y] :
                         /\ Own(q, hold, y, b) => Own(q3, hold3, y, b)
                         /\ HashedIn(q, b, "attn") => q3.hash[b] = q.hash[b]
                         /\ (q.hash[b] = None \/ HashedIn(q, b, "mamba"))
                              => (q3.hash[b] = None \/ HashedIn(q3, b, "mamba"))
  BY DEF Spares
<1>1. hold2[y] = hold[y] /\ hold3[y] = hold2[y]
  BY DEF Spares
<1>2. ASSUME NEW b \in hold[y], HashedIn(q, b, "attn") PROVE q3.hash[b] = q.hash[b]
  <2>1. q2.hash[b] = q.hash[b]
    BY <1>2 DEF Spares
  <2>2. HashedIn(q2, b, "attn")
    BY <1>2, <2>1 DEF HashedIn
  <2> QED BY <1>1, <2>1, <2>2 DEF Spares
<1> QED
  BY <1>1, <1>2 DEF Spares

\* A pool stays a pool.
LEMMA CacheFullType ==
  ASSUME NEW q \in QueuePool, NEW b \in Block, NEW h \in Hash
  PROVE  CacheFullBlock(q, b, h) \in QueuePool
<1> DEFINE list == IF Contains(q.cached[h], b) THEN q.cached[h] ELSE Append(q.cached[h], b)
           err  == q.raised \/ q.hash[b] # None
           t    == CacheFullBlock(q, b, h)
<1>1. q.cached[h] \in Queue(Block) /\ q.cached[h] \in Seq(Block)
  BY PoolFields
<1>2. list \in Queue(Block)
  <2>1. ~Contains(q.cached[h], b) => b \notin ToSet(q.cached[h])
    BY <1>1, ContainsMember
  <2> QED BY <1>1, <2>1, QueueAppend
<1>3. t = [q EXCEPT !.hash[b] = h, !.raised = err, !.cached[h] = list]
  BY DEF CacheFullBlock
<1>4. err \in BOOLEAN
  OBVIOUS
<1> HIDE DEF list, err, t
<1>5. /\ t.queue = q.queue /\ t.ref = q.ref /\ t.raised = err /\ t.partial = q.partial
      /\ t.hash = [q.hash EXCEPT ![b] = h] /\ t.pids = q.pids
      /\ t.cached = [q.cached EXCEPT ![h] = list]
  BY <1>3 DEF QueuePool
<1>6. t.cached \in [Hash -> Queue(Block)] /\ t.hash \in [Block -> Hash \cup {None}]
  BY <1>2, <1>5, PoolFields
<1>7. t \in QueuePool
  BY <1>3, <1>4, <1>5, <1>6 DEF QueuePool
<1> QED
  BY <1>7 DEF t

\* The hashes of the tokens that a request can have.
LEMMA AttnHashType ==
  ASSUME NEW r \in Req, NEW n \in Nat \ {0}, n <= Prompt[r] + MaxOut[r]
  PROVE  AttnHash(r, n) \in Hash /\ Group(AttnHash(r, n)) = "attn" /\ Place(AttnHash(r, n)) = n
<1>1. n \in 1 .. Prompt[r] + MaxOut[r]
  BY TokensAssumption
<1>2. AttnHash(r, n) \in Hashes
  BY <1>1 DEF Hashes
<1> QED
  BY <1>2, RequestsAssumption DEF AttnHash, Group, Place, Prefix

\* The same for the Mamba group.
LEMMA MambaHashType ==
  ASSUME NEW r \in Req, NEW n \in Nat \ {0}, n <= Prompt[r] + MaxOut[r]
  PROVE  MambaHash(r, n) \in Hash /\ Group(MambaHash(r, n)) = "mamba"
<1>1. n \in 1 .. Prompt[r] + MaxOut[r]
  BY TokensAssumption
<1>2. MambaHash(r, n) \in Hashes
  BY <1>1 DEF Hashes
<1> QED
  BY <1>2, RequestsAssumption DEF MambaHash, Group

\* The pool t after the first k blocks behind the cached ones have become cached.
CachedTo(p, h, B, r, a, k, t) ==
  /\ PoolOK(t, h, B) /\ Spares(p, h, t, h, AttnOf(r))
  /\ NumFree(t) = NumFree(p) /\ Barer(p, t)
  /\ \A j \in 1 .. a.cached + k : t.hash[a.blocks[j]] \in {AttnHash(r, j * A)} \ {None}
  /\ \A j \in a.cached + k + 1 .. Len(a.blocks) : Own(t, h, AttnOf(r), a.blocks[j])

\* A place before i + k + 1.
LEMMA PlaceBefore ==
  ASSUME NEW i \in Nat, NEW k \in Nat, NEW l \in Nat, NEW j
  PROVE  /\ j \in 1 .. i + (k + 1) /\ j # i + k + 1 => j \in 1 .. i + k
         /\ j \in 1 .. i + k /\ i + k + 1 \in 1 .. l => j \in 1 .. l
OBVIOUS

\* A place behind it.
LEMMA PlaceBehind ==
  ASSUME NEW i \in Nat, NEW k \in Nat, NEW l \in Nat, NEW j \in i + (k + 1) + 1 .. l
  PROVE  j \in i + k + 1 .. l /\ j # i + k + 1 /\ j \in 1 .. l
OBVIOUS

\* One more block of the table becomes cached.
LEMMA CacheOneOK ==
  ASSUME NEW p, NEW h, NEW B \in SUBSET Block, NEW r \in Req, NEW a \in AttnTable,
         AttnShape(a), ToSet(a.blocks) \subseteq h[AttnOf(r)],
         NEW k \in Nat, NEW q, CachedTo(p, h, B, r, a, k, q), a.cached + k + 1 <= Len(a.blocks),
         (a.cached + k + 1) * A <= Prompt[r] + MaxOut[r]
  PROVE  CachedTo(p, h, B, r, a, k + 1,
           CacheFullBlock(q, a.blocks[a.cached + k + 1], AttnHash(r, (a.cached + k + 1) * A)))
<1> DEFINE i == a.cached + k + 1
           b == a.blocks[i]
           g == AttnHash(r, i * A)
           x == AttnOf(r)
           t == CacheFullBlock(q, b, g)
<1>0. /\ PoolOK(q, h, B) /\ Spares(p, h, q, h, x) /\ x \in Holder /\ NumFree(q) = NumFree(p)
      /\ q \in QueuePool
  BY DEF CachedTo, AttnOf, Holder, Groups, PoolOK
<1>1. /\ a.cached \in Nat /\ i \in Nat \ {0} /\ i \in 1 .. Len(a.blocks) /\ Len(a.blocks) \in Nat
      /\ A \in Nat \ {0} /\ i * A \in Nat \ {0} /\ a.blocks \in Seq(Block)
      /\ \A j \in 1 .. Len(a.blocks) : a.blocks[j] \in h[x] /\ a.blocks[j] \in Block
      /\ \A j \in 1 .. Len(a.blocks) : a.blocks[j] = b => j = i
  <2>1. a.cached \in Nat /\ a.blocks \in Seq(Block) /\ Len(a.blocks) \in Nat
    BY DEF AttnTable
  <2>2. i \in Nat \ {0} /\ i \in 1 .. Len(a.blocks)
    BY <2>1
  <2>3. A \in Nat \ {0} /\ i * A \in Nat \ {0}
    <3>1. A \in Nat \ {0}
      BY TokensAssumption
    <3> HIDE DEF i
    <3> QED BY <2>2, <3>1
  <2>4. \A j \in 1 .. Len(a.blocks) : a.blocks[j] \in h[x] /\ a.blocks[j] \in Block
    BY <2>1, Members
  <2>5. \A j \in 1 .. Len(a.blocks) : a.blocks[j] = b => j = i
    <3>1. a.blocks \in Queue(Block)
      BY DEF AttnShape
    <3>2. \A l, j \in 1 .. Len(a.blocks) : a.blocks[l] = a.blocks[j] => l = j
      BY <3>1, QueuePlaces
    <3> HIDE DEF i
    <3> QED BY <2>2, <3>2
  <2> QED BY <2>1, <2>2, <2>3, <2>4, <2>5
<1>2. g \in Hash /\ g # None
  <2> DEFINE n == i * A
  <2>1. n \in Nat \ {0} /\ n <= Prompt[r] + MaxOut[r]
    BY <1>1
  <2> HIDE DEF n
  <2>2. AttnHash(r, n) \in Hash
    BY <2>1, AttnHashType
  <2> QED BY <2>2, QueueAssumption DEF n
<1>3. Own(q, h, x, b) /\ q.hash[b] = None /\ b \in h[x] /\ b \in Block
  <2>1. i \in a.cached + k + 1 .. Len(a.blocks)
    BY <1>1
  <2>2. Own(q, h, x, b)
    BY <2>1 DEF CachedTo
  <2> QED BY <1>1, <2>2 DEF Own
<1>4. /\ PoolOK(t, h, B) /\ Spares(q, h, t, h, x)
      /\ t.hash = [q.hash EXCEPT ![b] = g] /\ t.pids = q.pids /\ t.queue = q.queue
  <2> HIDE DEF b, g, x
  <2> QED BY <1>0, <1>2, <1>3, FullPool
<1> HIDE DEF t
<1>5. Spares(p, h, t, h, x) /\ NumFree(t) = NumFree(p) /\ Barer(p, t)
  <2>1. Spares(p, h, t, h, x) /\ NumFree(t) = NumFree(p)
    BY <1>0, <1>4, SparesOn DEF NumFree
  <2>2. Barer(p, t)
    BY <1>4 DEF CachedTo, Barer
  <2> QED BY <2>1, <2>2
<1>6. \A d \in Block : t.hash[d] = IF d = b THEN g ELSE q.hash[d]
  BY <1>0, <1>4, PoolFields
<1>7. ASSUME NEW j \in 1 .. a.cached + (k + 1)
      PROVE  t.hash[a.blocks[j]] \in {AttnHash(r, j * A)} \ {None}
  <2>1. CASE j = i
    BY <1>2, <1>3, <1>6, <2>1
  <2>2. CASE j # i
    <3>0. a.cached \in Nat /\ i \in 1 .. Len(a.blocks) /\ Len(a.blocks) \in Nat
      BY <1>1
    <3>1. j \in 1 .. a.cached + k
      BY <2>2, <3>0, PlaceBefore
    <3>2. j \in 1 .. Len(a.blocks)
      BY <3>0, <3>1, PlaceBefore
    <3>3. q.hash[a.blocks[j]] \in {AttnHash(r, j * A)} \ {None}
      BY <3>1 DEF CachedTo
    <3> QED BY <1>1, <1>6, <2>2, <3>2, <3>3
  <2> QED BY <2>1, <2>2
<1>8. ASSUME NEW j \in a.cached + (k + 1) + 1 .. Len(a.blocks)
      PROVE  Own(t, h, x, a.blocks[j])
  <2>1. j \in a.cached + k + 1 .. Len(a.blocks) /\ j # i /\ j \in 1 .. Len(a.blocks)
    BY <1>1, PlaceBehind
  <2>2. Own(q, h, x, a.blocks[j])
    BY <2>1 DEF CachedTo
  <2> QED BY <1>1, <1>4, <1>6, <2>1, <2>2 DEF Own
<1>9. CachedTo(p, h, B, r, a, k + 1, t)
  BY <1>4, <1>5, <1>7, <1>8 DEF CachedTo
<1> QED
  BY <1>9 DEF t

\* Whole blocks of a number of tokens.
LEMMA WholeLess ==
  ASSUME NEW tokens \in Nat, NEW i \in Nat, i <= tokens \div A
  PROVE  i * A <= tokens
<1>1. A \in Nat \ {0}
  BY TokensAssumption
<1> DEFINE w == tokens \div A
<1>2. w \in Nat /\ tokens = A * w + (tokens % A) /\ tokens % A >= 0
  BY <1>1
<1> HIDE DEF w
<1>3. A * i <= A * w
  <2>1. i <= w
    BY DEF w
  <2> QED BY <1>1, <1>2, <2>1
<1>4. tokens % A \in Nat /\ A * i \in Nat /\ A * w \in Nat /\ i * A = A * i
  BY <1>1, <1>2
<1> DEFINE e == tokens % A
           u == A * i
           v == A * w
<1>5. tokens = v + e /\ u <= v /\ e \in Nat /\ u \in Nat /\ v \in Nat
  BY <1>2, <1>3, <1>4
<1> HIDE DEF e, u, v
<1>6. u <= tokens
  BY <1>5
<1> QED
  BY <1>4, <1>6 DEF u

\* The attention blocks that hold tokens only, cached one after the other.
LEMMA AttnCacheBlocksOK ==
  ASSUME NEW c, NEW B \in SUBSET Block, NEW r \in Req, Sound(c, B), NEW tokens \in Nat,
         tokens <= Prompt[r] + MaxOut[r], tokens \div A <= Len(c.attn[r].blocks)
  PROVE  LET t == AttnCacheBlocks(c, r, tokens)
         IN  /\ Sound(t, B) /\ OnlyAttn(c, t, r) /\ Barer(c.pool, t.pool)
             /\ t.attn[r].pinned = c.attn[r].pinned
<1> DEFINE a == c.attn[r]
           p == c.pool
           h == Holding(c)
           x == AttnOf(r)
           N == Max2(0, tokens \div A - a.cached)
           one(k, q) == CacheFullBlock(q, a.blocks[a.cached + k], AttnHash(r, (a.cached + k) * A))
           body(f) == [k \in 0 .. N |-> IF k = 0 THEN p ELSE one(k, f[k - 1])]
           cached == CHOOSE f : f = body(f)
           next == [z \in Nat \X QueuePool |-> IF z[1] \in 1 .. N THEN one(z[1], z[2]) ELSE z[2]]
           t == AttnCacheBlocks(c, r, tokens)
<1>0. /\ c \in Cache /\ p \in QueuePool /\ PoolOK(p, h, B) /\ a \in AttnTable /\ x \in Holder
      /\ h[x] = ToSet(a.blocks) \cup ToSet(a.pinned) /\ AttnOK(p, h, r, a)
      /\ SoundBut(c, B, x) /\ a.cached \in Nat /\ a.blocks \in Seq(Block) /\ Len(a.blocks) \in Nat
      /\ a.cached <= Len(a.blocks) /\ AttnShape(a) /\ A \in Nat \ {0} /\ x = <<"attn", r>>
  <2>1. /\ c \in Cache /\ p \in QueuePool /\ PoolOK(p, h, B) /\ a \in AttnTable /\ x \in Holder
        /\ SoundBut(c, B, x) /\ TableOK(c, x)
    BY SoundFacts, CacheFields, SoundSplit
  <2>2. h[x] = ToSet(a.blocks) \cup ToSet(a.pinned) /\ AttnOK(p, h, r, a)
    BY <2>1, AttnHolds, AttnTableOK
  <2>3. a.cached \in Nat /\ a.blocks \in Seq(Block)
    BY <2>1 DEF AttnTable
  <2>4. AttnShape(a) /\ a.cached <= Len(a.blocks) /\ A \in Nat \ {0} /\ x = <<"attn", r>>
    BY <2>2, TokensAssumption DEF AttnOK, AttnShape, AttnOf
  <2>5. Len(a.blocks) \in Nat
    BY <2>3
  <2> HIDE DEF a, p, h, x
  <2> QED BY <2>1, <2>2, <2>3, <2>4, <2>5
<1>1. N \in Nat /\ \A k \in 1 .. N : /\ a.cached + k \in 1 .. Len(a.blocks)
                                     /\ (a.cached + k) * A \in Nat \ {0}
                                     /\ (a.cached + k) * A <= Prompt[r] + MaxOut[r]
                                     /\ a.blocks[a.cached + k] \in Block
  <2> DEFINE w == tokens \div A
             d == a.cached
             l == Len(a.blocks)
  <2>1. w \in Nat /\ d \in Nat /\ l \in Nat /\ w <= l /\ N = Max2(0, w - d)
    BY <1>0, SMTT(40)
  <2>2. ASSUME NEW k \in 1 .. N
        PROVE  /\ d + k \in 1 .. l /\ d + k <= w
    <3> HIDE DEF w, d, l, N
    <3> QED BY <2>1 DEF Max2
  <2>3. ASSUME NEW k \in 1 .. N
        PROVE  /\ (d + k) * A \in Nat \ {0} /\ (d + k) * A <= Prompt[r] + MaxOut[r]
               /\ a.blocks[d + k] \in Block
    <3> DEFINE i == d + k
    <3>1. i \in Nat \ {0} /\ i <= tokens \div A /\ i \in 1 .. Len(a.blocks)
      BY <2>1, <2>2
    <3>2. a.blocks[i] \in Block
      BY <1>0, <3>1, Members, SMTT(40)
    <3> HIDE DEF i
    <3>3. i * A <= tokens
      BY <3>1, WholeLess
    <3>4. i * A \in Nat \ {0}
      BY <1>0, <3>1
    <3>5. Prompt[r] + MaxOut[r] \in Nat
      BY TokensAssumption
    <3> DEFINE v == i * A
               m == Prompt[r] + MaxOut[r]
    <3> HIDE DEF v, m
    <3>6. v <= m
      <4>1. v <= tokens /\ tokens <= m /\ v \in Nat /\ m \in Nat
        BY <3>3, <3>4, <3>5 DEF v, m
      <4> QED BY <4>1
    <3> QED BY <3>2, <3>4, <3>6 DEF v, m, i
  <2>4. N \in Nat
    <3> HIDE DEF w, d
    <3> QED BY <2>1 DEF Max2
  <2> QED BY <2>2, <2>3, <2>4
<1>2. t = [c EXCEPT !.pool = cached[N], !.attn[r].cached = a.cached + N]
  BY DEF AttnCacheBlocks
<1> HIDE DEF N
<1>3. next \in [Nat \X QueuePool -> QueuePool]
  <2>1. ASSUME NEW q \in QueuePool, NEW k \in 1 .. N PROVE one(k, q) \in QueuePool
    <3> DEFINE v == (a.cached + k) * A
               b == a.blocks[a.cached + k]
    <3>1. v \in Nat \ {0} /\ v <= Prompt[r] + MaxOut[r] /\ b \in Block
      BY <1>1
    <3> HIDE DEF v, b
    <3>2. CacheFullBlock(q, b, AttnHash(r, v)) \in QueuePool
      BY <3>1, AttnHashType, CacheFullType
    <3> QED BY <3>2 DEF v, b
  <2>2. ASSUME NEW z \in Nat \X QueuePool PROVE next[z] \in QueuePool
    <3>1. z[1] \in Nat /\ z[2] \in QueuePool
      OBVIOUS
    <3> QED BY <2>1, <3>1
  <2> QED BY <2>2
<1>4. PICK f \in [0 .. N -> QueuePool] : Iterates(f, N, p, next)
  <2> HIDE DEF next, p
  <2> QED BY <1>0, <1>1, <1>3, Recursion
<1>5. f = body(f)
  <2>1. ASSUME NEW k \in 1 .. N PROVE f[k] = one(k, f[k - 1])
    <3>1. k \in Nat /\ k - 1 \in 0 .. N
      BY <1>1
    <3>2. f[k] = next[<<k, f[k - 1]>>]
      BY <1>4 DEF Iterates
    <3>3. <<k, f[k - 1]>> \in Nat \X QueuePool
      BY <1>4, <3>1
    <3> QED BY <3>2, <3>3
  <2>2. f[0] = p
    BY <1>4 DEF Iterates
  <2> HIDE DEF p
  <2>3. \A k \in 0 .. N : f[k] = body(f)[k]
    BY <1>1, <2>1, <2>2
  <2>4. f = [k \in 0 .. N |-> f[k]]
    BY <1>4
  <2> QED BY <2>3, <2>4
<1>6. cached = body(cached)
  BY <1>5
<1> HIDE DEF cached
<1>7. cached[0] = p /\ \A k \in 1 .. N : cached[k] = one(k, cached[k - 1])
  <2>1. \A k \in 0 .. N : cached[k] = body(cached)[k]
    BY <1>6
  <2> QED BY <1>1, <2>1
<1> DEFINE q == cached[N]
           Z == {k \in Nat : k <= N => CachedTo(p, h, B, r, a, k, cached[k])}
<1>8. \A k \in Nat : k \in Z
  <2>1. 0 \in Z
    <3>1. CachedTo(p, h, B, r, a, 0, p)
      <4>1. a.cached + 0 = a.cached
        BY <1>0
      <4>2. Spares(p, h, p, h, x)
        BY DEF Spares
      <4>3. Barer(p, p)
        BY SameBarer
      <4> HIDE DEF a, p, h
      <4> QED BY <1>0, <4>1, <4>2, <4>3 DEF CachedTo, AttnOK
    <3> QED BY <1>7, <3>1
  <2>2. ASSUME NEW k \in Nat, k \in Z PROVE k + 1 \in Z
    <3>1. CASE k + 1 <= N
      <4> DEFINE i == a.cached + k + 1
                 q0 == cached[k]
                 q1 == cached[k + 1]
      <4>1. CachedTo(p, h, B, r, a, k, q0)
        BY <1>1, <2>2, <3>1
      <4>2. k + 1 \in 1 .. N /\ (k + 1) - 1 = k /\ a.cached + (k + 1) = i
        <5>1. k + 1 \in 1 .. N
          BY <1>1, <3>1
        <5>2. (k + 1) - 1 = k
          OBVIOUS
        <5>3. a.cached + (k + 1) = i
          <6> DEFINE d == a.cached
          <6>1. d \in Nat
            BY <1>0
          <6> HIDE DEF d
          <6>2. d + (k + 1) = d + k + 1
            BY <6>1
          <6> QED BY <6>2 DEF d
        <5> QED BY <5>1, <5>2, <5>3
      <4>3. q1 = CacheFullBlock(q0, a.blocks[i], AttnHash(r, i * A))
        BY <1>7, <4>2
      <4>4. i <= Len(a.blocks) /\ i * A <= Prompt[r] + MaxOut[r]
        BY <1>1, <4>2
      <4>5. ToSet(a.blocks) \subseteq h[x]
        <5> HIDE DEF h, x, a
        <5> QED BY <1>0
      <4>6. CachedTo(p, h, B, r, a, k + 1, q1)
        <5>1. x = AttnOf(r)
          OBVIOUS
        <5> HIDE DEF p, h, a, q0, q1
        <5> QED BY <1>0, <4>1, <4>3, <4>4, <4>5, <5>1, CacheOneOK
      <4> QED BY <4>6
    <3>2. CASE ~(k + 1 <= N)
      BY <3>2
    <3> QED BY <3>1, <3>2
  <2> HIDE DEF Z
  <2> QED BY <2>1, <2>2, NumberInduction
<1>9. CachedTo(p, h, B, r, a, N, q)
  BY <1>1, <1>8
<1> DEFINE a2 == [a EXCEPT !.cached = a.cached + N]
<1>10. /\ a2 \in AttnTable /\ a2.blocks = a.blocks /\ a2.pinned = a.pinned
       /\ a2.cached = a.cached + N /\ a2.cached <= Len(a.blocks)
  <2>1. a.cached + N \in Nat
    <3>1. a.cached \in Nat /\ N \in Nat
      BY <1>0, <1>1
    <3> HIDE DEF a
    <3> QED BY <3>1
  <2>2. a.cached + N <= Len(a.blocks)
    <3> DEFINE d == a.cached
               l == Len(a.blocks)
    <3>1. d \in Nat /\ l \in Nat /\ d <= l /\ N \in Nat /\ \A k \in 1 .. N : d + k \in 1 .. l
      BY <1>0, <1>1
    <3> HIDE DEF d, l
    <3>2. CASE N = 0
      BY <3>1, <3>2 DEF d, l
    <3>3. CASE N # 0
      <4>1. N \in 1 .. N
        BY <3>1, <3>3
      <4> QED BY <3>1, <4>1 DEF d, l
    <3> QED BY <3>2, <3>3
  <2> HIDE DEF a
  <2> QED BY <1>0, <2>1, <2>2 DEF AttnTable
<1> HIDE DEF a2
<1>11. AttnOK(q, h, r, a2)
  <2>1. AttnShape(a2)
    BY <1>0, <1>10 DEF AttnShape
  <2> HIDE DEF q, a, p, h
  <2>2. \A j \in 1 .. a2.cached : q.hash[a2.blocks[j]] \in {AttnHash(r, j * A)} \ {None}
    BY <1>9, <1>10 DEF CachedTo
  <2>3. \A j \in a2.cached + 1 .. Len(a2.blocks) : Own(q, h, <<"attn", r>>, a2.blocks[j])
    BY <1>0, <1>9, <1>10 DEF CachedTo
  <2> QED BY <2>1, <2>2, <2>3 DEF AttnOK
<1>12. h = Regrip(h, x, ToSet(a2.blocks) \cup ToSet(a2.pinned))
  <2>1. h \in [Holder -> SUBSET Block]
    BY <1>0 DEF PoolOK
  <2> HIDE DEF h, x, a
  <2> QED BY <1>0, <1>10, <2>1, SameGrip
<1>13. PoolOK(q, h, B) /\ Spares(p, h, q, h, x) /\ q \in QueuePool
  BY <1>9 DEF CachedTo, PoolOK
<1>14. AttnStepped(c, WithAttn(c, r, q, a2), r, q, a2, h, B)
  <2>1. x = AttnOf(r) /\ p = c.pool /\ h = Holding(c)
    OBVIOUS
  <2> HIDE DEF x, p, h, q
  <2> QED BY <1>0, <1>10, <1>12, <1>13, <2>1, AttnStep
<1>15. t = WithAttn(c, r, q, a2)
  <2> HIDE DEF t
  <2>1. c.attn \in [Req -> AttnTable]
    BY <1>0, CacheFields
  <2> QED BY <1>2, <2>1 DEF WithAttn, a2
<1>16. Sound(t, B) /\ OnlyAttn(c, t, r) /\ t.attn[r].pinned = c.attn[r].pinned
       /\ t.pool = q
  BY <1>10, <1>11, <1>14, <1>15 DEF AttnStepped
<1>17. Barer(p, q)
  <2> HIDE DEF p, q
  <2> QED BY <1>9 DEF CachedTo
<1> QED
  BY <1>16, <1>17
=============================================================================
