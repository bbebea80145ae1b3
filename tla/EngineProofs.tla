---------------------------- MODULE EngineProofs ----------------------------
(***************************************************************************)
(* The engine accounts for its blocks, for all requests, pools, settings   *)
(* and lengths: counts, tables and the free queue agree in every state and *)
(* no assertion of the block pool fails.  The copies that a step orders    *)
(* are independent of one another and of the blocks that it zeroes.        *)
(*                                                                         *)
(* In order: the inductive invariant; allocate_slots, free and the lookup; *)
(* the steps of the engine; what the invariant says of the counts; the     *)
(* copies.                                                                 *)
(***************************************************************************)
EXTENDS EngineTablesProofs

-----------------------------------------------------------------------------
(* The inductive invariant.                                                *)

\* Running requests have their tables, and the others none.
TablesOK(c) ==
  \A r \in Req :
    IF reqs[r].status = "running" THEN c.mamba[r].alloc /\ c.pend[r] = None
    ELSE c.attn[r] = NoAttn /\ c.mamba[r] = NoMamba

Msg == [kind  : {None, "running", "new", "resumed"}, start : Nat, n : Nat, last : BOOLEAN,
        attn  : Seq(Block), mamba : Seq(Block \cup {Null})]

Step == [phase     : {"idle", "running", "waiting", "output"},
         i         : Nat,
         budget    : Nat,
         need      : Nat,
         asks      : SUBSET Req,
         order     : Seq(Req),
         msg       : [Req -> Msg],
         preempted : SUBSET Req]

\* A scheduler output.
Output == [order     : Seq(Req),
           msg       : [Req -> Msg],
           preempted : SUBSET Req,
           ended     : SUBSET Req,
           fresh     : SUBSET Block,
           copies    : Seq(Copy),
           refs      : Seq([req : Req, index : Int, block : Block]),
           ran       : BOOLEAN]

ListsOK ==
  /\ conf \in Settings
  /\ reqs \in [Req -> [status : {"absent", "waiting", "running", "preempted", "finished"},
                       computed : Nat, ntok : Nat]]
  /\ running \in Seq(Req) /\ waiting \in Seq(Req)
  /\ \A r \in Req : /\ r \in ToSet(running) <=> reqs[r].status = "running"
                    /\ r \in ToSet(waiting) <=> reqs[r].status \in {"waiting", "preempted"}

\* Requests are computed up to their tokens, and have room for another one.
NumbersOK ==
  \A r \in Req :
    /\ reqs[r].status # "finished" =>
         Prompt[r] <= reqs[r].ntok /\ reqs[r].ntok < Prompt[r] + MaxOut[r]
    /\ reqs[r].computed + step.msg[r].n <= reqs[r].ntok

\* The running loop asks for one request at a time, and for no more than the budget.
StepOK ==
  /\ step \in Step
  /\ step.phase = "idle" => step = Idle
  /\ step.phase # "idle" => Len(flight) < Depth
  /\ step.phase = "running" => Len(step.order) + 1 <= step.i
  /\ step.phase = "waiting" => step.preempted = {}
  /\ \A r \in step.asks :
       /\ step.phase = "running" /\ step.asks = {r} /\ reqs[r].status = "running"
       /\ step.need > 0 /\ step.need <= step.budget
       /\ reqs[r].computed + step.need <= reqs[r].ntok
  /\ \A r \in ToSet(step.order) : reqs[r].status = "running"

\* No request is resumed right behind a step that it was scheduled in.
ResumesOK ==
  /\ prev \subseteq Req
  /\ \A r \in Req : step.msg[r].kind = "resumed" => r \notin prev
  /\ \A r \in prev : reqs[r].status = "preempted" => r \in step.preempted

IInv ==
  /\ ListsOK /\ NumbersOK /\ StepOK /\ ResumesOK
  /\ ended \subseteq Req
  /\ flight \in Seq(Output) /\ Len(flight) <= Depth
  /\ Sound(kv, conf.blocks) /\ TablesOK(kv)

-----------------------------------------------------------------------------
(* allocate_slots.                                                         *)

\* The Mamba table of r grows, whatever state the allocation has found it in.
LEMMA MambaAllocateOK ==
  ASSUME NEW c, NEW B \in SUBSET Block, NEW r \in Req, Ready(c, B, r), NEW tokens \in Nat,
         IF c.mamba[r].alloc
         THEN /\ CeilDiv(tokens, H) - 1 > c.mamba[r].cur
              /\ c.mamba[r].cur \in Checkpoints(c.mamba[r])
              => NumFree(c.pool) >= 1
         ELSE CeilDiv(tokens, H) > Len(c.mamba[r].blocks) /\ NumFree(c.pool) >= 1
  PROVE  MambaPlaced(c, MambaAllocate(c, r, tokens), r, B)
<1>0. MambaOf(r) \in Holder /\ SoundBut(c, B, MambaOf(r))
  BY CacheFields DEF Ready, SoundBut
<1>1. CASE c.mamba[r].alloc
  <2>1. Sound(c, B)
    <3>1. TableOK(c, MambaOf(r))
      BY <1>1 DEF Ready, Waits, Unplaced
    <3> QED BY <1>0, <3>1, SoundSplit
  <2> QED BY <1>1, <2>1, MambaAllocateNext
<1>2. CASE ~c.mamba[r].alloc
  <2>1. Waits(c, r)
    BY <1>2 DEF Ready
  <2> QED BY <1>0, <1>2, <2>1, MambaAllocateNew DEF Waits
<1> QED
  BY <1>1, <1>2

\* A request without tables has nothing to publish or to give back.
LEMMA RetireNone ==
  ASSUME NEW c, NEW r \in Req, c.mamba[r] = NoMamba, NEW total \in Nat
  PROVE  RemoveSkipped(PublishCompleted(c, r, total), r, total) = c
<1>1. \A i : BlockAt(c, r, i) = Null
  <2>1. DOMAIN c.mamba[r].blocks = {}
    BY NoMambaTable
  <2> QED BY <2>1 DEF BlockAt
<1>2. PublishCompleted(c, r, total) = c
  BY <1>1 DEF PublishCompleted
<1>3. RemoveSkipped(c, r, total) = c
  <2> DEFINE N == Max2(0, Min2((total - 1) \div H, Len(c.mamba[r].blocks)))
             body(f) == [k \in 0 .. N |-> IF k = 0 THEN c ELSE FreeUnprotected(f[k - 1], r, N - k)]
             removed == CHOOSE f : f = body(f)
             g == [k \in {0} |-> c]
  <2>1. N = 0
    <3>1. Len(c.mamba[r].blocks) = 0
      BY NoMambaTable
    <3>2. (total - 1) \div H \in Int
      BY CheckpointFacts
    <3> QED BY <3>1, <3>2 DEF Min2, Max2
  <2>2. RemoveSkipped(c, r, total) = removed[N]
    BY DEF RemoveSkipped
  <2> HIDE DEF N
  <2>3. g = body(g)
    <3>1. 0 .. N = {0}
      BY <2>1
    <3> QED BY <3>1
  <2>4. removed = body(removed)
    BY <2>3
  <2> HIDE DEF removed
  <2>5. removed[0] = body(removed)[0]
    BY <2>4
  <2>6. 0 \in 0 .. N
    BY <2>1
  <2>7. removed[0] = c
    BY <2>5, <2>6
  <2> QED BY <2>1, <2>2, <2>7
<1> QED
  BY <1>2, <1>3

\* What is published and given back before the tables grow.
LEMMA RetireOK ==
  ASSUME NEW c, NEW B \in SUBSET Block, NEW r \in Req, Sound(c, B), NEW total \in Nat
  PROVE  MambaMoves(c, RemoveSkipped(PublishCompleted(c, r, total), r, total), r, B)
<1> DEFINE t == PublishCompleted(c, r, total)
<1>1. MambaMoves(c, t, r, B)
  BY PublishCompletedOK
<1> HIDE DEF t
<1>2. Sound(t, B)
  BY <1>1 DEF MambaMoves
<1>3. MambaMoves(t, RemoveSkipped(t, r, total), r, B)
  BY <1>2, RemoveSkippedOK
<1>4. MambaMoves(c, RemoveSkipped(t, r, total), r, B)
  BY <1>1, <1>3, MambaMovesOn
<1> QED
  BY <1>4 DEF t

\* The hit of a request that gets blocks: what the lookup has found, and has left
\* pending, if it has no tables yet, else none.
TakenHit(c, r, hit) ==
  /\ GoodHit(c.pool, r, hit) /\ c.pend[r] = hit.part
  /\ hit.len > 0 => c.mamba[r] = NoMamba /\ c.attn[r] = NoAttn

\* More tokens than the hit fill more blocks than it does.
LEMMA CeilMore ==
  ASSUME NEW len \in Nat, len % H = 0, NEW tokens \in Nat, tokens > len
  PROVE  CeilDiv(tokens, H) > len \div H /\ CeilDiv(tokens, H) \in Nat
<1>1. H \in Nat \ {0}
  BY TokensAssumption
<1> DEFINE k == len \div H
           u == tokens + H - 1
           w == u \div H
<1>2. k \in Nat /\ len = H * k + (len % H)
  BY <1>1
<1>3. u \in Nat /\ u >= len + H
  BY <1>1
<1>4. w \in Nat /\ u = H * w + (u % H) /\ u % H \in 0 .. H - 1
  <2> HIDE DEF u
  <2> QED BY <1>1, <1>3
<1>5. H * k = len
  BY <1>1, <1>2
<1>6. w > k
  <2> SUFFICES ASSUME w <= k PROVE FALSE
    BY <1>2, <1>4
  <2> HIDE DEF w, k, u
  <2>1. H * w <= H * k
    BY <1>1, <1>2, <1>4
  <2> DEFINE x == H * w
             y == H * k
             e == u % H
  <2>2. x \in Nat /\ y \in Nat /\ e \in 0 .. H - 1 /\ x <= y /\ u = x + e /\ y = len
    BY <1>1, <1>2, <1>4, <1>5, <2>1
  <2> HIDE DEF x, y, e
  <2> QED BY <1>1, <1>3, <2>2
<1> QED
  BY <1>2, <1>4, <1>6 DEF CeilDiv

\* The free blocks that the estimate sums up, as numbers.
Needs(c, r, tokens, hit, na, ea, nm, es, ep) ==
  /\ na = Max2(CeilDiv(tokens, A) - (Len(c.attn[r].blocks) + Len(hit.attn)), 0)
  /\ ea = Cardinality(Idling(c.pool, ToSet(hit.attn)))
  /\ nm = MambaNewBlocks(c, r, tokens, hit.len \div H)
  /\ es = Cardinality(Idling(c.pool, {hit.ssm}))
  /\ ep = Cardinality(Idling(c.pool, Source(c, r)))
  /\ na \in Nat /\ ea \in Nat /\ nm \in {0, 1} /\ es \in Nat /\ ep \in Nat
  /\ CanFit(c, r, tokens, hit) <=> na + ea + nm + es + ep <= NumFree(c.pool)

\* get_num_blocks_to_allocate is the sum of these numbers.
LEMMA NeedsOK ==
  ASSUME NEW c, NEW B \in SUBSET Block, NEW r \in Req, Sound(c, B), NEW tokens \in Nat, NEW hit,
         TakenHit(c, r, hit)
  PROVE  \E na, ea, nm, es, ep : Needs(c, r, tokens, hit, na, ea, nm, es, ep)
<1> DEFINE na == Max2(CeilDiv(tokens, A) - (Len(c.attn[r].blocks) + Len(hit.attn)), 0)
           ea == Cardinality(Idling(c.pool, ToSet(hit.attn)))
           nm == MambaNewBlocks(c, r, tokens, hit.len \div H)
           es == Cardinality(Idling(c.pool, {hit.ssm}))
           ep == Cardinality(Idling(c.pool, Source(c, r)))
<1>0. /\ c \in Cache /\ hit.attn \in Queue(Block) /\ hit.ssm \in Block \cup {Null}
      /\ c.pend[r] \in PartialHit \cup {None}
  BY SoundFacts, CacheFields DEF TakenHit, GoodHit
<1>1. na \in Nat
  <2> DEFINE k == CeilDiv(tokens, A)
             l == Len(c.attn[r].blocks)
             i == Len(hit.attn)
  <2>1. k \in Nat
    BY CeilDivType, TokensAssumption
  <2>2. l \in Nat
    <3>1. c.attn[r].blocks \in Seq(Block)
      BY <1>0, CacheFields DEF AttnTable
    <3> QED BY <3>1
  <2>3. i \in Nat
    BY <1>0, Members DEF Queue
  <2> HIDE DEF k, l, i
  <2>4. Max2(k - (l + i), 0) \in Nat
    BY <2>1, <2>2, <2>3 DEF Max2
  <2> QED BY <2>4 DEF k, l, i
<1>2. \A S \in SUBSET (Block \cup {Null}) : Cardinality(Idling(c.pool, S)) \in Nat
  BY IdlingLess
<1>3. ToSet(hit.attn) \in SUBSET (Block \cup {Null}) /\ {hit.ssm} \in SUBSET (Block \cup {Null})
  BY <1>0, Members DEF Queue
<1>4. Source(c, r) \in SUBSET (Block \cup {Null})
  BY <1>0 DEF Source, PartialHit
<1>5. ea \in Nat /\ es \in Nat /\ ep \in Nat
  BY <1>2, <1>3, <1>4
<1>6. nm \in {0, 1}
  BY DEF MambaNewBlocks
<1>7. CanFit(c, r, tokens, hit) <=> na + ea + nm + es + ep <= NumFree(c.pool)
  <2> DEFINE pend == IF c.pend[r] = None THEN {} ELSE {c.pend[r].src}
             va == Evictable(c, ToSet(hit.attn))
             vs == Evictable(c, {hit.ssm})
             vp == Evictable(c, pend)
  <2>1. va = ea /\ vs = es /\ vp = ep
    BY DEF Evictable, Idling, Source
  <2>2. NumToAllocate(c, r, tokens, hit) = na + va + nm + vs + vp
    BY DEF NumToAllocate
  <2> HIDE DEF va, vs, vp, na, ea, nm, es, ep
  <2>3. NumToAllocate(c, r, tokens, hit) = na + ea + nm + es + ep
    BY <2>1, <2>2
  <2> QED BY <2>3 DEF CanFit
<1> HIDE DEF na, ea, nm, es, ep
<1>8. Needs(c, r, tokens, hit, na, ea, nm, es, ep)
  BY <1>1, <1>5, <1>6, <1>7 DEF Needs, na, ea, nm, es, ep
<1> QED
  BY <1>8
-----------------------------------------------------------------------------
(* What the worker is to zero and to copy.                                 *)

\* No boundary is cached in a block that is to be zeroed.
FreshBare(c) == \A b \in ToSet(c.fresh) : c.pool.pids[b] = {}

\* A copy goes from a pinned block that stays as it is to one that is zeroed first.
CopySafe(c, cp) ==
  /\ cp.dst \in ToSet(c.fresh) /\ cp.src \notin ToSet(c.fresh)
  /\ \E s \in Req : cp.src \in ToSet(c.attn[s].pinned)

CopiesSafe(c) == \A cp \in ToSet(c.copies) : CopySafe(c, cp)

\* Nothing to zero or to copy is added, and no pin of r is gone.
Keeps(c, t, r) ==
  /\ OnlyOf(c, t, r) /\ t.fresh = c.fresh /\ t.copies = c.copies /\ Barer(c.pool, t.pool)
  /\ ToSet(c.attn[r].pinned) \subseteq ToSet(t.attn[r].pinned)

\* What is added keeps the copies apart.
Lays(c, t, r) ==
  /\ FreshBare(c) => FreshBare(t)
  /\ FreshBare(c) /\ CopiesSafe(c) => CopiesSafe(t)
  /\ c.pend[r] = None => t.copies = c.copies

\* Two steps that keep them keep them.
LEMMA KeepsOn ==
  ASSUME NEW c, NEW t, NEW u, NEW r, Keeps(c, t, r), Keeps(t, u, r)
  PROVE  Keeps(c, u, r)
<1>1. OnlyOf(c, u, r)
  BY OnlyOfOn DEF Keeps
<1>2. Barer(c.pool, u.pool)
  BY DEF Keeps, Barer
<1> QED
  BY <1>1, <1>2 DEF Keeps

\* A step that keeps them lays no block.
LEMMA KeepsLays ==
  ASSUME NEW c \in Cache, NEW t, NEW r \in Req, Keeps(c, t, r)
  PROVE  Lays(c, t, r)
<1>1. /\ t.fresh = c.fresh /\ t.copies = c.copies /\ Barer(c.pool, t.pool)
      /\ \A s \in Req : ToSet(c.attn[s].pinned) \subseteq ToSet(t.attn[s].pinned)
  BY DEF Keeps, OnlyOf
<1>2. ToSet(c.fresh) \in SUBSET Block
  BY CacheFields, Members
<1>3. FreshBare(c) => FreshBare(t)
  BY <1>1, <1>2 DEF FreshBare, Barer
<1>4. CopiesSafe(c) => CopiesSafe(t)
  BY <1>1 DEF CopiesSafe, CopySafe
<1> QED
  BY <1>1, <1>3, <1>4 DEF Lays

\* Two steps that lay blocks make one.
LEMMA LaysOn ==
  ASSUME NEW c, NEW t, NEW u, NEW r, Lays(c, t, r), Lays(t, u, r),
         c.pend[r] = None => t.pend[r] = None
  PROVE  Lays(c, u, r)
BY DEF Lays

\* A step of the Mamba table keeps all that.
LEMMA MambaKeeps ==
  ASSUME NEW c, NEW t, NEW r \in Req, OnlyMamba(c, t, r)
  PROVE  Keeps(c, t, r)
<1>1. OnlyOf(c, t, r)
  BY DEF OnlyMamba, OnlyOf
<1> QED
  BY <1>1 DEF OnlyMamba, Keeps

\* New blocks are no source of a copy.
LEMMA LaidLays ==
  ASSUME NEW c \in Cache, NEW t, NEW r \in Req, Laid(c, t, r), OnlyOf(c, t, r),
         t.attn[r].pinned = c.attn[r].pinned, t.copies = c.copies, Barer(c.pool, t.pool)
  PROVE  Lays(c, t, r)
<1>1. PICK bs \in Seq(Block) :
        /\ t.fresh = c.fresh \o bs
        /\ \A b \in ToSet(bs) : t.pool.pids[b] = {} /\ \A y \in Holder : b \notin Holding(c)[y]
  BY DEF Laid
<1>2. c.fresh \in Seq(Block) /\ ToSet(c.fresh) \in SUBSET Block
  BY CacheFields, Members
<1>3. ToSet(t.fresh) = ToSet(c.fresh) \cup ToSet(bs)
  BY <1>1, <1>2, MembersConcat
<1>4. \A s \in Req : t.attn[s].pinned = c.attn[s].pinned
  BY DEF OnlyOf
<1>5. FreshBare(c) => FreshBare(t)
  BY <1>1, <1>2, <1>3 DEF FreshBare, Barer
<1>6. ASSUME NEW cp, CopySafe(c, cp) PROVE CopySafe(t, cp)
  <2>1. PICK s \in Req : cp.src \in ToSet(c.attn[s].pinned)
    BY <1>6 DEF CopySafe
  <2>2. AttnOf(s) \in Holder /\ cp.src \in Holding(c)[AttnOf(s)]
    BY <2>1, AttnHolds, CacheFields
  <2>3. cp.src \notin ToSet(bs)
    BY <1>1, <2>2
  <2> QED BY <1>3, <1>4, <1>6, <2>1, <2>3 DEF CopySafe
<1>7. CopiesSafe(c) => CopiesSafe(t)
  BY <1>6 DEF CopiesSafe
<1> QED
  BY <1>5, <1>7 DEF Lays

\* The pending hit of r is pinned, was cached before, and ends behind the table of r.
Queueable(c, t, r) ==
  LET p == c.pend[r]
  IN  p # None => /\ p.src \in ToSet(t.attn[r].pinned) /\ c.pool.pids[p.src] # {}
                  /\ p.index = Len(t.attn[r].blocks)

\* The copy of a hit goes from its pinned block to one of the new blocks.
LEMMA QueueLays ==
  ASSUME NEW c \in Cache, NEW c2 \in Cache, NEW r \in Req, Keeps(c, c2, r),
         c2.pend[r] = c.pend[r], Queueable(c, c2, r),
         NEW c3, NEW tokens, NEW B \in SUBSET Block, AttnGrown(c2, c3, r, tokens, B),
         NEW c4, OnlyMamba(c3, c4, r), Sound(c4, B)
  PROVE  Lays(c, QueueCopy(c4, r), r)
<1> DEFINE t  == QueueCopy(c4, r)
           p  == c.pend[r]
           tb == c4.attn[r].blocks
           cp == [src |-> p.src, dst |-> tb[p.index + 1], ntok |-> p.ntok]
<1>1. Lays(c, c2, r)
  BY KeepsLays
<1>2. c3 \in Cache /\ c4 \in Cache /\ Laid(c2, c3, r) /\ Lays(c2, c3, r) /\ c3.pend = c2.pend
      /\ c3.attn[r].pinned = c2.attn[r].pinned /\ c3.copies = c2.copies
  BY LaidLays, SoundFacts DEF AttnGrown, Ready
<1>3. Lays(c3, c4, r) /\ c4.pend = c3.pend /\ c4.attn = c3.attn /\ c4.fresh = c3.fresh
  BY <1>2, MambaKeeps, KeepsLays DEF OnlyMamba
<1>4. Lays(c, c4, r) /\ c4.pend[r] = p
  <2>1. Lays(c, c3, r)
    BY <1>1, <1>2, LaysOn
  <2> QED BY <1>2, <1>3, <2>1, LaysOn
<1>5. t.attn = c4.attn /\ t.fresh = c4.fresh /\ t.pool = c4.pool
  BY QueueCopyOK DEF Queued
<1>6. /\ \/ t.copies = c4.copies
         \/ t.copies = Append(c4.copies, cp) /\ p.index + 1 <= Len(tb)
      /\ p = None => t.copies = c4.copies
  <2> DEFINE new  == Append(c4.copies, cp)
             gone == [c4 EXCEPT !.pend[r] = None]
             more == [c4 EXCEPT !.pend[r] = None, !.copies = new]
  <2>1. t = c4 \/ t = gone \/ (t = more /\ ~(p.index + 1 > Len(tb)))
    BY <1>4 DEF QueueCopy
  <2>2. p = None => t = c4
    BY <1>4 DEF QueueCopy
  <2>3. gone.copies = c4.copies /\ more.copies = new
    BY <1>2 DEF Cache
  <2>4. p # None /\ ~(p.index + 1 > Len(tb)) => p.index + 1 <= Len(tb)
    <3>1. tb \in Seq(Block) /\ p \in PartialHit \cup {None}
      BY <1>2, CacheFields DEF AttnTable
    <3> DEFINE l == Len(tb)
               i == p.index
    <3>2. l \in Nat /\ (p # None => i \in Nat)
      BY <3>1 DEF PartialHit
    <3> HIDE DEF l, i
    <3>3. p # None /\ ~(i + 1 > l) => i + 1 <= l
      BY <3>2
    <3> QED BY <3>3 DEF l, i
  <2> HIDE DEF gone, more, t
  <2>5. CASE p = None
    <3>1. t.copies = c4.copies
      BY <2>2, <2>5
    <3> HIDE DEF t, p
    <3> QED BY <3>1
  <2>6. CASE p # None
    <3>1. t.copies = c4.copies \/ (t.copies = new /\ p.index + 1 <= Len(tb))
      BY <2>1, <2>3, <2>4, <2>6
    <3> HIDE DEF t, p, tb
    <3> QED BY <2>6, <3>1
  <2> QED BY <2>5, <2>6
<1>7. ASSUME p # None, p.index + 1 <= Len(tb), FreshBare(c)
      PROVE  CopySafe(t, cp)
  <2>1. PICK bs \in Seq(Block) :
          /\ c3.fresh = c2.fresh \o bs /\ c3.attn[r].blocks = c2.attn[r].blocks \o bs
          /\ \A b \in ToSet(bs) : \A y \in Holder : b \notin Holding(c2)[y]
    BY <1>2 DEF Laid
  <2>2. /\ c2.fresh = c.fresh /\ c.fresh \in Seq(Block) /\ c2.attn[r].blocks \in Seq(Block)
    BY CacheFields DEF Keeps, AttnTable
  <2>3. ToSet(t.fresh) = ToSet(c.fresh) \cup ToSet(bs)
    BY <1>3, <1>5, <2>1, <2>2, MembersConcat
  <2> DEFINE old == c2.attn[r].blocks
  <2>4. old \in Seq(Block) /\ Len(old) \in Nat /\ tb = old \o bs /\ Len(bs) \in Nat
        /\ p.index = Len(old)
    BY <1>3, <1>7, <2>1, <2>2 DEF Queueable
  <2> HIDE DEF old
  <2>5. tb[p.index + 1] \in ToSet(bs)
    <3>1. 1 \in 1 .. Len(bs) /\ tb[Len(old) + 1] = bs[1]
      BY <1>7, <2>1, <2>4
    <3> QED BY <2>1, <2>4, <3>1, Members
  <2>6. p.src \in ToSet(c2.attn[r].pinned) /\ c.pool.pids[p.src] # {}
    BY <1>7 DEF Queueable
  <2>7. p.src \notin ToSet(bs)
    <3>1. p.src \in Holding(c2)[AttnOf(r)] /\ AttnOf(r) \in Holder
      BY <2>6, AttnHolds, CacheFields
    <3> QED BY <2>1, <3>1
  <2>8. p.src \notin ToSet(c.fresh)
    BY <1>7, <2>6 DEF FreshBare
  <2>9. p.src \in ToSet(t.attn[r].pinned)
    BY <1>2, <1>3, <1>5, <2>6
  <2>10. cp.src = p.src /\ cp.dst = tb[p.index + 1]
    OBVIOUS
  <2> HIDE DEF cp, t, tb
  <2> QED BY <2>3, <2>5, <2>7, <2>8, <2>9, <2>10 DEF CopySafe
<1>8. FreshBare(c) => FreshBare(t)
  BY <1>4, <1>5 DEF Lays, FreshBare
<1>9. p = None => t.copies = c.copies
  BY <1>4, <1>6 DEF Lays
<1>10. \A x \in ToSet(t.copies) : x \in ToSet(c4.copies) \/ (x = cp /\ p # None /\ p.index + 1 <= Len(tb))
  <2>1. t.copies = c4.copies \/ t.copies # c4.copies
    OBVIOUS
  <2>2. CASE t.copies # c4.copies
    <3>1. t.copies = Append(c4.copies, cp) /\ p # None /\ p.index + 1 <= Len(tb)
      BY <1>6, <2>2
    <3>2. c4.copies \in Seq(Copy)
      BY <1>2, CacheFields
    <3> DEFINE T == Copy \cup {cp}
    <3>3. c4.copies \in Seq(T) /\ cp \in T
      BY <3>2
    <3> HIDE DEF T, cp, tb, t
    <3>4. ToSet(t.copies) = ToSet(c4.copies) \cup {cp}
      BY <3>1, <3>3, MembersAppend
    <3> QED BY <3>1, <3>4
  <2> QED BY <2>1, <2>2
<1> HIDE DEF cp, tb
<1>11. ASSUME FreshBare(c), CopiesSafe(c) PROVE CopiesSafe(t)
  <2>1. CopiesSafe(c4)
    BY <1>4, <1>11 DEF Lays
  <2>2. \A x \in ToSet(c4.copies) : CopySafe(t, x)
    BY <1>5, <2>1 DEF CopiesSafe, CopySafe
  <2> QED BY <1>7, <1>10, <1>11, <2>2 DEF CopiesSafe
<1> QED
  BY <1>8, <1>9, <1>11 DEF Lays, t

\* The hit is pinned and taken, and at least as much as the estimate says is left.
HitPlaced(c, t, r, hit, B, ea, es, ep) ==
  /\ Ready(t, B, r) /\ OnlyOf(c, t, r)
  /\ t.mamba[r].alloc = c.mamba[r].alloc
  /\ Len(t.attn[r].blocks) = Len(c.attn[r].blocks) + Len(hit.attn)
  /\ Len(t.mamba[r].blocks) = Len(c.mamba[r].blocks) + hit.len \div H
  /\ c.mamba[r].alloc => t.mamba[r] = c.mamba[r]
  /\ NumFree(t.pool) >= NumFree(c.pool) - ea - es - ep /\ NumFree(t.pool) \in Nat
  /\ Keeps(c, t, r) /\ t.pend[r] = c.pend[r] /\ Queueable(c, t, r)

\* Pinning and taking the hit uses up no more than the estimate counts for them.
LEMMA HitPlacedOK ==
  ASSUME NEW c, NEW B \in SUBSET Block, NEW r \in Req, Sound(c, B), NEW tokens \in Nat, NEW hit,
         TakenHit(c, r, hit), NEW na, NEW ea, NEW nm, NEW es, NEW ep,
         Needs(c, r, tokens, hit, na, ea, nm, es, ep)
  PROVE  HitPlaced(c, TakeHit(PinPartial(c, r), r, hit), r, hit, B, ea, es, ep)
<1> DEFINE c1 == PinPartial(c, r)
           c2 == TakeHit(c1, r, hit)
           p  == c.pool
           p1 == c1.pool
<1>0. /\ c \in Cache /\ GoodHit(p, r, hit) /\ c.pend[r] = hit.part
      /\ hit.attn \in Queue(Block) /\ hit.ssm \in Block \cup {Null} /\ hit.len \in Nat
  BY SoundFacts DEF TakenHit, GoodHit
<1>1. Pinnable(c, r)
  <2>1. hit.part # None => hit.len # 0 /\ p.pids[hit.part.src] # {}
    BY <1>0 DEF GoodHit
  <2>2. hit.part # None => c.attn[r] = NoAttn
    BY <1>0, <2>1 DEF TakenHit
  <2> QED BY <1>0, <2>1, <2>2 DEF Pinnable
<1>2. Pinned(c, c1, r, B)
  BY <1>1, PinPartialOK
<1>3. /\ Sound(c1, B) /\ OnlyAttn(c, c1, r) /\ SameIndexes(p, p1)
      /\ c1.attn[r].blocks = c.attn[r].blocks
      /\ c.attn[r] = NoAttn => ToSet(c1.attn[r].pinned) = Source(c, r)
      /\ Taken(p, p1, Source(c, r))
  BY <1>2 DEF Pinned
<1> HIDE DEF c1
<1>4. c1.mamba = c.mamba
  BY <1>3 DEF OnlyAttn
<1>5. GoodHit(p1, r, hit)
  <2>1. p1.hash = p.hash /\ p1.pids = p.pids
    BY <1>3 DEF SameIndexes
  <2> HIDE DEF p, p1
  <2> QED BY <1>0, <2>1 DEF GoodHit, HashedIn
<1>6. TakesHit(c1, r, hit)
  <2>1. ASSUME hit.len > 0
        PROVE  /\ c1.mamba[r] = NoMamba /\ c1.attn[r].blocks = <<>>
               /\ ToSet(c1.attn[r].pinned) \cap ToSet(hit.attn) = {}
    <3>1. c.mamba[r] = NoMamba /\ c.attn[r] = NoAttn
      BY <2>1 DEF TakenHit
    <3>2. c1.mamba[r] = NoMamba /\ c1.attn[r].blocks = <<>>
      BY <1>3, <1>4, <3>1, NoAttnTable
    <3>3. ToSet(c1.attn[r].pinned) = Source(c, r)
      BY <1>3, <3>1
    <3>4. Source(c, r) \cap ToSet(hit.attn) = {}
      BY <1>0 DEF Source, GoodHit
    <3> QED BY <3>2, <3>3, <3>4
  <2> QED BY <1>5, <2>1 DEF TakesHit
<1>7. HitTaken(c1, c2, r, hit, B)
  BY <1>3, <1>6, TakeHitOK
<1> HIDE DEF c2
<1>8. /\ Ready(c2, B, r) /\ OnlyOf(c1, c2, r) /\ c2.mamba[r].alloc = c1.mamba[r].alloc
      /\ Len(c2.attn[r].blocks) = Len(c1.attn[r].blocks) + Len(hit.attn)
      /\ Len(c2.mamba[r].blocks) = Len(c1.mamba[r].blocks) + hit.len \div H
      /\ NumFree(c2.pool) >= NumFree(p1) - Cardinality(Idling(p1, ToSet(hit.attn)))
                                         - Cardinality(Idling(p1, {hit.ssm}))
      /\ hit.len = 0 => c2 = c1
  BY <1>7 DEF HitTaken
<1>12. Keeps(c, c2, r) /\ c2.pend[r] = c.pend[r]
  <2>1. OnlyOf(c, c1, r) /\ Barer(p, p1) /\ c1.fresh = c.fresh /\ c1.copies = c.copies
        /\ c1.pend = c.pend
    BY <1>3, SameBarer DEF OnlyAttn, OnlyOf, SameIndexes
  <2>2. ToSet(c.attn[r].pinned) \subseteq ToSet(c1.attn[r].pinned)
    <3>1. CASE c.attn[r] = NoAttn
      <4>1. ToSet(c.attn[r].pinned) = {}
        BY <3>1, NoAttnTable, QueueEmpty
      <4> QED BY <4>1
    <3>2. CASE c.attn[r] # NoAttn
      <4>1. c.pend[r] = None
        BY <1>1, <3>2 DEF Pinnable
      <4>2. c1 = c
        BY <4>1 DEF c1, PinPartial
      <4> QED BY <4>2
    <3> QED BY <3>1, <3>2
  <2>3. Keeps(c, c1, r)
    BY <2>1, <2>2 DEF Keeps
  <2>4. Keeps(c1, c2, r) /\ c2.pend[r] = c1.pend[r]
    BY <1>7 DEF HitTaken, Keeps
  <2> QED BY <2>1, <2>3, <2>4, KeepsOn
<1>13. Queueable(c, c2, r)
  <2> SUFFICES ASSUME c.pend[r] # None
               PROVE  /\ c.pend[r].src \in ToSet(c2.attn[r].pinned)
                      /\ p.pids[c.pend[r].src] # {}
                      /\ c.pend[r].index = Len(c2.attn[r].blocks)
    BY DEF Queueable
  <2>1. c.attn[r] = NoAttn /\ p.pids[c.pend[r].src] # {}
    BY <1>1 DEF Pinnable
  <2>2. c.pend[r].src \in ToSet(c1.attn[r].pinned)
    BY <1>3, <2>1 DEF Source
  <2>3. c2.attn[r].pinned = c1.attn[r].pinned
    BY <1>7 DEF HitTaken
  <2>4. c.pend[r].index = Len(hit.attn)
    BY <1>0 DEF GoodHit
  <2>5. Len(c2.attn[r].blocks) = Len(hit.attn)
    <3> DEFINE l == Len(c2.attn[r].blocks)
               k == Len(hit.attn)
    <3>1. c1.attn[r].blocks = <<>> /\ k \in Nat
      BY <1>0, <1>3, <2>1, NoAttnTable, Members DEF Queue
    <3>2. l = Len(c1.attn[r].blocks) + k
      BY <1>8
    <3> HIDE DEF l, k
    <3>3. l = k
      BY <3>1, <3>2
    <3> QED BY <3>3 DEF l, k
  <2> QED BY <2>1, <2>2, <2>3, <2>4, <2>5
<1>9. OnlyOf(c, c2, r)
  <2>1. OnlyOf(c, c1, r)
    BY <1>3 DEF OnlyAttn, OnlyOf
  <2> QED BY <1>8, <2>1, OnlyOfOn
<1>10. c.mamba[r].alloc => c2.mamba[r] = c.mamba[r]
  <2>1. ASSUME c.mamba[r].alloc PROVE hit.len = 0
    <3>1. ~NoMamba.alloc
      BY DEF NoMamba
    <3>2. ~(hit.len > 0)
      BY <2>1, <3>1 DEF TakenHit
    <3> QED BY <1>0, <3>2
  <2> QED BY <1>4, <1>8, <2>1
<1>11. NumFree(c2.pool) >= NumFree(p) - ea - es - ep /\ NumFree(c2.pool) \in Nat
  <2> DEFINE n0 == NumFree(p)
             n1 == NumFree(p1)
             n2 == NumFree(c2.pool)
             S  == ToSet(hit.attn)
             T  == {hit.ssm}
             fa == Cardinality(Idling(p1, S))
             fs == Cardinality(Idling(p1, T))
  <2>1. n2 >= n1 - fa - fs
    BY <1>8
  <2>2. n1 = n0 - ep /\ \A b \in Block : p1.ref[b] = 0 => p.ref[b] = 0
    BY <1>3 DEF Taken, Needs
  <2>3. S \in SUBSET (Block \cup {Null}) /\ T \in SUBSET (Block \cup {Null})
    BY <1>0, Members DEF Queue
  <2>4. ea = Cardinality(Idling(p, S)) /\ es = Cardinality(Idling(p, T)) /\ ep \in Nat
    BY DEF Needs
  <2>5. fa <= ea /\ fa \in Nat /\ ea \in Nat
    <3> HIDE DEF S, p, p1
    <3> QED BY <2>2, <2>3, <2>4, IdlingLess
  <2>6. fs <= es /\ fs \in Nat /\ es \in Nat
    <3> HIDE DEF T, p, p1
    <3> QED BY <2>2, <2>3, <2>4, IdlingLess
  <2>7. n0 \in Nat /\ n2 \in Nat
    <3>1. PoolOK(p, Holding(c), B) /\ PoolOK(c2.pool, Holding(c2), B)
      BY <1>8, SoundFacts DEF Ready
    <3> HIDE DEF p
    <3> QED BY <3>1, FreeNat
  <2> HIDE DEF n0, n1, n2, fa, fs
  <2>8. n2 >= n0 - ea - es - ep
    BY <2>1, <2>2, <2>4, <2>5, <2>6, <2>7
  <2> QED BY <2>7, <2>8 DEF n0, n2
<1> QED
  BY <1>3, <1>4, <1>8, <1>9, <1>10, <1>11, <1>12, <1>13 DEF HitPlaced, c1, c2

\* Both tables of r hold the tokens, and nothing is pending.
Fitted(c, t, r, tokens, B) ==
  /\ Sound(t, B) /\ t.mamba[r].alloc /\ t.pend[r] = None /\ OnlyOf(c, t, r)
  /\ CeilDiv(tokens, A) <= Len(t.attn[r].blocks) /\ Lays(c, t, r)

\* A request whose estimate fits gets all its blocks: no assertion of the pool fails.
LEMMA GrowOK ==
  ASSUME NEW c, NEW B \in SUBSET Block, NEW r \in Req, Sound(c, B), NEW tokens \in Nat, NEW hit,
         TakenHit(c, r, hit), tokens > hit.len, CanFit(c, r, tokens, hit)
  PROVE  Fitted(c, Grow(c, r, tokens, hit), r, tokens, B)
<1> DEFINE c2 == TakeHit(PinPartial(c, r), r, hit)
           c3 == AttnAllocate(c2, r, tokens)
           c4 == MambaAllocate(c3, r, tokens)
           c5 == QueueCopy(c4, r)
           m  == c.mamba[r]
<1>0. PICK na, ea, nm, es, ep : Needs(c, r, tokens, hit, na, ea, nm, es, ep)
  BY NeedsOK
<1>1. HitPlaced(c, c2, r, hit, B, ea, es, ep)
  BY <1>0, HitPlacedOK
<1> HIDE DEF c2
<1>2. /\ Ready(c2, B, r) /\ OnlyOf(c, c2, r) /\ c2.mamba[r].alloc = m.alloc
      /\ Len(c2.attn[r].blocks) = Len(c.attn[r].blocks) + Len(hit.attn)
      /\ Len(c2.mamba[r].blocks) = Len(m.blocks) + hit.len \div H
      /\ m.alloc => c2.mamba[r] = m
  BY <1>1 DEF HitPlaced
<1>3. /\ na = Max2(CeilDiv(tokens, A) - Len(c2.attn[r].blocks), 0)
      /\ nm = MambaNewBlocks(c, r, tokens, hit.len \div H)
      /\ na \in Nat /\ nm \in {0, 1} /\ na + nm <= NumFree(c2.pool) /\ NumFree(c2.pool) \in Nat
  <2> DEFINE f == NumFree(c.pool)
             g == NumFree(c2.pool)
  <2>1. /\ na = Max2(CeilDiv(tokens, A) - Len(c2.attn[r].blocks), 0)
        /\ nm = MambaNewBlocks(c, r, tokens, hit.len \div H)
        /\ na \in Nat /\ ea \in Nat /\ nm \in {0, 1} /\ es \in Nat /\ ep \in Nat
        /\ na + ea + nm + es + ep <= f
    BY <1>0, <1>2 DEF Needs
  <2>2. g >= f - ea - es - ep /\ g \in Nat
    BY <1>1 DEF HitPlaced
  <2>3. f \in Nat
    BY SoundFacts, FreeNat
  <2> HIDE DEF f, g
  <2>4. na + nm <= g
    BY <2>1, <2>2, <2>3, SMTT(40)
  <2> QED BY <2>1, <2>2, <2>4 DEF g
<1>4. na <= NumFree(c2.pool)
  <2> DEFINE g == NumFree(c2.pool)
  <2> HIDE DEF g
  <2>1. na \in Nat /\ nm \in {0, 1} /\ na + nm <= g /\ g \in Nat
    BY <1>3 DEF g
  <2>2. na <= g
    BY <2>1
  <2> QED BY <2>2 DEF g
<1>5. AttnGrown(c2, c3, r, tokens, B)
  BY <1>2, <1>3, <1>4, AttnAllocateOK
<1> HIDE DEF c3
<1>6. /\ Ready(c3, B, r) /\ OnlyOf(c2, c3, r) /\ c3.mamba = c2.mamba
      /\ CeilDiv(tokens, A) <= Len(c3.attn[r].blocks)
      /\ NumFree(c3.pool) = NumFree(c2.pool) - na
  BY <1>3, <1>5 DEF AttnGrown
<1>7. nm <= NumFree(c3.pool)
  <2> DEFINE g == NumFree(c2.pool)
             e == NumFree(c3.pool)
  <2> HIDE DEF g, e
  <2>1. na \in Nat /\ nm \in {0, 1} /\ na + nm <= g /\ g \in Nat /\ e = g - na
    BY <1>3, <1>6 DEF g, e
  <2>2. nm <= e
    BY <2>1
  <2> QED BY <2>2 DEF e
<1>8. m = NoMamba \/ m.alloc
  BY MambaFacts DEF MambaOK, Placed
<1>9. MambaPlaced(c3, c4, r, B)
  <2> DEFINE w == CeilDiv(tokens, H)
             l == Len(c3.mamba[r].blocks)
  <2>1. CASE m.alloc
    <3>1. c3.mamba[r] = m
      BY <1>2, <1>6, <2>1
    <3>2. ASSUME w - 1 > m.cur, m.cur \in Checkpoints(m) PROVE nm = 1
      BY <1>3, <2>1, <3>2 DEF MambaNewBlocks
    <3>3. w - 1 > m.cur /\ m.cur \in Checkpoints(m) => NumFree(c3.pool) >= 1
      BY <1>7, <3>2
    <3> QED BY <1>6, <2>1, <3>1, <3>3, MambaAllocateOK
  <2>2. CASE ~m.alloc
    <3>1. m = NoMamba /\ Len(m.blocks) = 0
      BY <1>8, <2>2, NoMambaTable
    <3>2. hit.len \in Nat /\ hit.len % H = 0
      BY DEF TakenHit, GoodHit
    <3>3. w > hit.len \div H /\ w \in Nat
      BY <3>2, CeilMore
    <3>4. hit.len \div H \in Nat
      BY <3>2, TokensAssumption
    <3> DEFINE k == hit.len \div H
    <3>5. l = k
      <4>1. l = Len(m.blocks) + k /\ k \in Nat
        BY <1>2, <1>6, <3>4
      <4> HIDE DEF k, m, l
      <4> QED BY <3>1, <4>1
    <3>6. nm = 1
      <4>1. nm = IF w - 1 >= k + Len(m.blocks) THEN 1 ELSE 0
        BY <1>3, <2>2 DEF MambaNewBlocks
      <4> HIDE DEF w, k, m
      <4>2. w \in Nat /\ k \in Nat /\ w > k /\ Len(m.blocks) = 0
        BY <3>1, <3>3, <3>4 DEF k
      <4>3. w - 1 >= k + Len(m.blocks)
        BY <4>2
      <4> QED BY <4>1, <4>3
    <3>7. NumFree(c3.pool) >= 1
      BY <1>7, <3>6
    <3>8. ~c3.mamba[r].alloc
      BY <1>2, <1>6, <2>2
    <3>9. w > l
      BY <3>3, <3>5
    <3> QED BY <1>6, <3>7, <3>8, <3>9, MambaAllocateOK
  <2> QED BY <2>1, <2>2
<1> HIDE DEF c4
<1>10. Sound(c4, B) /\ OnlyMamba(c3, c4, r) /\ c4.mamba[r].alloc
  BY <1>9 DEF MambaPlaced
<1>11. Queued(c4, c5, r, B)
  BY <1>10, QueueCopyOK
<1> HIDE DEF c5
<1>12. c4 \in Cache /\ c4.pend \in [Req -> PartialHit \cup {None}]
  BY <1>10, SoundFacts, CacheFields
<1>13. /\ Sound(c5, B) /\ c5.attn = c4.attn /\ c5.mamba = c4.mamba /\ c5.gold = c4.gold
       /\ c5.pend[r] = None /\ \A s \in Req \ {r} : c5.pend[s] = c4.pend[s]
  BY <1>11, <1>12 DEF Queued
<1>14. OnlyOf(c, c5, r)
  <2>1. OnlyOf(c3, c5, r)
    BY <1>10, <1>13 DEF OnlyOf, OnlyMamba
  <2>2. OnlyOf(c, c3, r)
    BY <1>2, <1>6, OnlyOfOn
  <2> QED BY <2>1, <2>2, OnlyOfOn
<1>15. c5.mamba[r].alloc /\ CeilDiv(tokens, A) <= Len(c5.attn[r].blocks)
  BY <1>6, <1>10, <1>13 DEF OnlyMamba
<1>18. Lays(c, c5, r)
  <2>1. c \in Cache /\ c2 \in Cache
    BY <1>2, SoundFacts DEF Ready
  <2>2. Keeps(c, c2, r) /\ c2.pend[r] = c.pend[r] /\ Queueable(c, c2, r)
    BY <1>1 DEF HitPlaced
  <2> QED BY <1>5, <1>10, <2>1, <2>2, QueueLays DEF c5
<1>16. Fitted(c, c5, r, tokens, B)
  BY <1>13, <1>14, <1>15, <1>18 DEF Fitted
<1>17. c5 = Grow(c, r, tokens, hit)
  BY DEF Grow, c2, c3, c4, c5
<1> QED
  BY <1>16, <1>17

\* The blocks of the first tokens become cached in both groups, or queued for it.
LEMMA CacheBlocksOK ==
  ASSUME NEW c, NEW B \in SUBSET Block, NEW r \in Req, Sound(c, B), NEW ntok, NEW tokens \in Nat,
         tokens <= Prompt[r] + MaxOut[r], tokens \div A <= Len(c.attn[r].blocks)
  PROVE  LET t == CacheBlocks(c, r, ntok, tokens)
         IN  /\ Sound(t, B) /\ OnlyOf(c, t, r) /\ t.pend = c.pend
             /\ t.mamba[r].alloc = c.mamba[r].alloc /\ Keeps(c, t, r)
<1> DEFINE c1 == AttnCacheBlocks(c, r, tokens)
           c2 == MambaCacheBlocks(c1, r, ntok, tokens)
<1>1. /\ Sound(c1, B) /\ OnlyAttn(c, c1, r)
      /\ Barer(c.pool, c1.pool) /\ c1.attn[r].pinned = c.attn[r].pinned
  BY AttnCacheBlocksOK
<1> HIDE DEF c1
<1>2. MambaMoves(c1, c2, r, B)
  BY <1>1, MambaCacheBlocksOK
<1> HIDE DEF c2
<1>3. Sound(c2, B) /\ OnlyMamba(c1, c2, r) /\ c2.mamba[r].alloc = c1.mamba[r].alloc
  BY <1>2 DEF MambaMoves
<1>4. OnlyOf(c, c2, r) /\ c2.pend = c.pend /\ c2.mamba[r].alloc = c.mamba[r].alloc
  BY <1>1, <1>3 DEF OnlyOf, OnlyAttn, OnlyMamba
<1>6. Keeps(c, c2, r)
  <2>1. Keeps(c, c1, r)
    BY <1>1 DEF Keeps, OnlyOf, OnlyAttn
  <2>2. Keeps(c1, c2, r)
    BY <1>3, MambaKeeps
  <2> QED BY <2>1, <2>2, KeepsOn
<1>5. c2 = CacheBlocks(c, r, ntok, tokens)
  BY DEF CacheBlocks, c1, c2
<1> QED
  BY <1>3, <1>4, <1>5, <1>6

\* What an attempt to allocate leaves behind.
Tried(c, ok, t, r, B) ==
  /\ Sound(t, B) /\ OnlyOf(c, t, r) /\ t.pend[r] = None
  /\ ok => t.mamba[r].alloc
  /\ ~ok => t.attn[r] = c.attn[r] /\ t.mamba[r].alloc = c.mamba[r].alloc /\ Keeps(c, t, r)
  /\ Lays(c, t, r)

\* Fewer tokens fill fewer whole blocks.
LEMMA FewerBlocks ==
  ASSUME NEW n \in Nat, NEW k \in Nat, NEW tokens \in Nat, n <= tokens, CeilDiv(tokens, A) <= k
  PROVE  n \div A <= k
<1>1. A \in Nat \ {0}
  BY TokensAssumption
<1> DEFINE u == tokens + A - 1
           v == n \div A
           w == u \div A
<1>2. v \in Nat /\ n = A * v + (n % A) /\ n % A \in Nat
  BY <1>1
<1>3. u \in Nat /\ u >= n
  BY <1>1
<1>4. w \in Nat /\ u = A * w + (u % A) /\ u % A \in 0 .. A - 1
  <2> HIDE DEF u
  <2> QED BY <1>1, <1>3
<1>5. w <= k
  BY DEF CeilDiv
<1>6. v <= w
  <2> SUFFICES ASSUME w + 1 <= v PROVE FALSE
    BY <1>2, <1>4
  <2> HIDE DEF u, v, w
  <2>1. A * (w + 1) <= A * v
    BY <1>1, <1>2, <1>4
  <2>2. A * (w + 1) = A * w + A
    BY <1>1, <1>4
  <2> DEFINE x == A * w
             y == A * v
             e == u % A
             d == n % A
  <2>3. x \in Nat /\ y \in Nat /\ e \in 0 .. A - 1 /\ d \in Nat /\ x + A <= y
        /\ u = x + e /\ n = y + d
    BY <1>1, <1>2, <1>4, <2>1, <2>2
  <2> HIDE DEF x, y, e, d
  <2> QED BY <1>1, <1>3, <2>3
<1> HIDE DEF v, w
<1>7. v <= k
  BY <1>2, <1>4, <1>5, <1>6
<1> QED
  BY <1>7 DEF v

\* What follows the estimate, whether it fits or not.
LEMMA TryToGrowOK ==
  ASSUME NEW c, NEW B \in SUBSET Block, NEW r \in Req, Sound(c, B), NEW tokens \in Nat, NEW hit,
         TakenHit(c, r, hit), tokens > hit.len, NEW ntok \in Nat, ntok <= Prompt[r] + MaxOut[r]
  PROVE  LET try == TryToGrow(c, r, ntok, tokens, hit) IN Tried(c, try.ok, try.kv, r, B)
<1> DEFINE try == TryToGrow(c, r, ntok, tokens, hit)
<1>1. CASE CanFit(c, r, tokens, hit)
  <2> DEFINE g == Grow(c, r, tokens, hit)
             n == Min2(tokens, ntok)
             t == CacheBlocks(g, r, ntok, n)
  <2>1. Fitted(c, g, r, tokens, B)
    BY <1>1, GrowOK
  <2> HIDE DEF g
  <2>2. /\ Sound(g, B) /\ g.mamba[r].alloc /\ g.pend[r] = None /\ OnlyOf(c, g, r)
        /\ CeilDiv(tokens, A) <= Len(g.attn[r].blocks) /\ Lays(c, g, r)
    BY <2>1 DEF Fitted
  <2>3. n \in Nat /\ n <= tokens /\ n <= Prompt[r] + MaxOut[r]
    <3>1. Prompt[r] + MaxOut[r] \in Nat
      BY TokensAssumption
    <3> QED BY <3>1 DEF Min2
  <2> DEFINE k == Len(g.attn[r].blocks)
  <2>4. n \div A <= k
    <3>1. k \in Nat
      <4>1. g.attn[r].blocks \in Seq(Block)
        BY <2>2, SoundFacts, CacheFields DEF AttnTable
      <4> QED BY <4>1
    <3>2. CeilDiv(tokens, A) <= k
      BY <2>2
    <3> HIDE DEF k, n
    <3> QED BY <2>3, <3>1, <3>2, FewerBlocks
  <2> HIDE DEF n
  <2>5. /\ Sound(t, B) /\ OnlyOf(g, t, r) /\ t.pend = g.pend
        /\ t.mamba[r].alloc = g.mamba[r].alloc /\ Keeps(g, t, r)
    BY <2>2, <2>3, <2>4, CacheBlocksOK
  <2>6. try.ok /\ try.kv = t
    BY <1>1 DEF TryToGrow, g, n
  <2> HIDE DEF t, try
  <2>7. OnlyOf(c, t, r)
    BY <2>2, <2>5, OnlyOfOn
  <2>9. Lays(c, t, r)
    <3>1. Lays(g, t, r)
      BY <2>2, <2>5, SoundFacts, KeepsLays
    <3> QED BY <2>2, <3>1, LaysOn
  <2>8. Tried(c, try.ok, try.kv, r, B)
    BY <2>2, <2>5, <2>6, <2>7, <2>9 DEF Tried
  <2> QED BY <2>8 DEF try
<1>2. CASE ~CanFit(c, r, tokens, hit)
  <2> DEFINE t == [c EXCEPT !.pend[r] = None]
  <2>1. Queued(c, t, r, B)
    BY PendGone
  <2>2. c \in Cache /\ c.pend \in [Req -> PartialHit \cup {None}]
    BY SoundFacts, CacheFields
  <2>3. ~try.ok /\ try.kv = t
    BY <1>2 DEF TryToGrow
  <2> HIDE DEF t, try
  <2>5. Keeps(c, t, r)
    <3>1. t.copies = c.copies
      BY <2>2 DEF t, Cache
    <3> QED BY <2>1, <2>2, <3>1, SameBarer DEF Queued, Keeps, OnlyOf
  <2>4. Tried(c, try.ok, try.kv, r, B)
    BY <2>1, <2>2, <2>3, <2>5, KeepsLays DEF Tried, Queued, OnlyOf
  <2> QED BY <2>4 DEF try
<1> QED
  BY <1>1, <1>2

\* A miss is good for every pool.
LEMMA NoHit ==
  ASSUME NEW q, NEW q2, NEW r, NEW hit, GoodHit(q, r, hit), hit.len = 0
  PROVE  GoodHit(q2, r, hit)
<1>1. hit.attn = <<>> /\ hit.ssm = Null /\ hit.part = None /\ Len(<<>>) = 0
  BY DEF GoodHit
<1> QED
  BY <1>1 DEF GoodHit

\* allocate_slots keeps all tables in order and the counts exact, and raises nothing.
LEMMA AllocateSlotsOK ==
  ASSUME NEW c, NEW B \in SUBSET Block, NEW r \in Req, Sound(c, B), NEW hit, TakenHit(c, r, hit),
         NEW ntok \in Nat, ntok <= Prompt[r] + MaxOut[r], NEW computed \in Nat,
         NEW n \in Nat \ {0}
  PROVE  LET try == AllocateSlots(c, r, ntok, computed, n, hit)
         IN  Tried(c, try.ok, try.kv, r, B)
<1> DEFINE total == computed + hit.len
           c1 == RemoveSkipped(PublishCompleted(c, r, total), r, total)
           try == TryToGrow(c1, r, ntok, total + n, hit)
<1>0. hit.len \in Nat /\ total \in Nat /\ total + n \in Nat /\ total + n > hit.len
  <2>1. hit.len \in Nat
    BY DEF TakenHit, GoodHit
  <2> DEFINE l == hit.len
  <2> HIDE DEF l
  <2>2. l \in Nat
    BY <2>1 DEF l
  <2>3. computed + l \in Nat /\ (computed + l) + n \in Nat /\ (computed + l) + n > l
    BY <2>2
  <2> QED BY <2>1, <2>3 DEF l
<1> HIDE DEF total
<1>1. MambaMoves(c, c1, r, B) /\ (c.mamba[r] = NoMamba => c1 = c)
  BY <1>0, RetireOK, RetireNone
<1> HIDE DEF c1
<1>2. Sound(c1, B) /\ OnlyMamba(c, c1, r) /\ c1.mamba[r].alloc = c.mamba[r].alloc
  BY <1>1 DEF MambaMoves
<1>3. TakenHit(c1, r, hit)
  <2>1. CASE hit.len = 0
    <3>1. GoodHit(c1.pool, r, hit)
      BY <2>1, NoHit DEF TakenHit
    <3>2. ~(hit.len > 0)
      BY <2>1
    <3> QED BY <1>2, <3>1, <3>2 DEF TakenHit, OnlyMamba
  <2>2. CASE hit.len # 0
    <3>1. hit.len > 0
      BY <1>0, <2>2
    <3>2. c1 = c
      BY <1>1, <3>1 DEF TakenHit
    <3> QED BY <3>2
  <2> QED BY <2>1, <2>2
<1>4. Tried(c1, try.ok, try.kv, r, B)
  BY <1>0, <1>2, <1>3, TryToGrowOK
<1>5. try = AllocateSlots(c, r, ntok, computed, n, hit)
  BY DEF AllocateSlots, total, c1
<1> HIDE DEF try
<1>6. OnlyOf(c, try.kv, r)
  <2>1. OnlyOf(c, c1, r)
    BY <1>2 DEF OnlyOf, OnlyMamba
  <2> QED BY <1>4, <2>1, OnlyOfOn DEF Tried
<1>8. Keeps(c, c1, r) /\ Lays(c, c1, r)
  BY <1>2, MambaKeeps, KeepsLays, SoundFacts
<1>9. Lays(c, try.kv, r) /\ (~try.ok => Keeps(c, try.kv, r))
  <2>1. Lays(c1, try.kv, r) /\ (~try.ok => Keeps(c1, try.kv, r))
    BY <1>4 DEF Tried
  <2>2. c1.pend = c.pend
    BY <1>2 DEF OnlyMamba
  <2> QED BY <1>8, <2>1, <2>2, LaysOn, KeepsOn
<1>7. Tried(c, try.ok, try.kv, r, B)
  BY <1>2, <1>4, <1>6, <1>9 DEF Tried, OnlyMamba
<1> QED
  BY <1>5, <1>7

-----------------------------------------------------------------------------
(* A request gives its blocks back.                                        *)

\* All tables in order but for the attention table of r, which still has its shape.
Mirrored(c, t, r, B) ==
  SoundBut(t, B, AttnOf(r)) /\ OnlyAttn(c, t, r) /\ AttnShape(t.attn[r])

\* No step at all leaves the tables in order.
LEMMA MirrorSame ==
  ASSUME NEW c, NEW B \in SUBSET Block, NEW r \in Req, Sound(c, B)
  PROVE  Mirrored(c, c, r, B)
<1>1. AttnOf(r) \in Holder /\ c \in Cache
  BY SoundFacts, CacheFields
<1>2. SoundBut(c, B, AttnOf(r)) /\ TableOK(c, AttnOf(r))
  BY <1>1, SoundSplit
<1>3. AttnShape(c.attn[r])
  BY <1>2, AttnTableOK DEF AttnOK
<1> QED
  BY <1>2, <1>3 DEF Mirrored, OnlyAttn

\* The block of a boundary gets a partial entry: only its own table is touched.
LEMMA MirrorBoundaryOK ==
  ASSUME NEW c, NEW B \in SUBSET Block, NEW r \in Req, Sound(c, B), NEW n \in Nat,
         n <= Prompt[r] + MaxOut[r]
  PROVE  Mirrored(c, MirrorBoundary(c, r, n), r, B)
<1> DEFINE bs == c.attn[r].blocks
           a  == c.attn[r]
           p  == c.pool
           h  == Holding(c)
           x  == AttnOf(r)
           j  == n \div A + 1
           b  == bs[j]
           g  == AttnHash(r, n)
           q  == CachePartialBlock(p, b, n % A, g)
           t  == MirrorBoundary(c, r, n)
           same == n % A = 0 \/ n \div A >= Len(bs)
<1>0. /\ c \in Cache /\ PoolOK(p, h, B) /\ a \in AttnTable /\ x \in Holder /\ SoundBut(c, B, x)
      /\ h[x] = ToSet(bs) \cup ToSet(a.pinned) /\ AttnOK(p, h, r, a)
      /\ bs \in Seq(Block) /\ Len(bs) \in Nat /\ h \in [Holder -> SUBSET Block]
  <2>1. c \in Cache /\ PoolOK(p, h, B) /\ a \in AttnTable /\ x \in Holder
    BY SoundFacts, CacheFields
  <2>2. SoundBut(c, B, x) /\ TableOK(c, x)
    BY <2>1, SoundSplit
  <2>3. h[x] = ToSet(bs) \cup ToSet(a.pinned) /\ AttnOK(p, h, r, a)
    BY <2>2, AttnHolds, AttnTableOK
  <2>4. bs \in Seq(Block) /\ Len(bs) \in Nat
    BY <2>1 DEF AttnTable
  <2>5. h \in [Holder -> SUBSET Block]
    BY <2>1 DEF PoolOK
  <2> HIDE DEF p, h, x, a, bs
  <2> QED BY <2>1, <2>2, <2>3, <2>4, <2>5
<1>1. CASE same
  <2>1. t = c
    BY <1>1 DEF MirrorBoundary
  <2> QED BY <2>1, MirrorSame
<1>2. CASE ~same
  <2>1. n % A \in Nat /\ n \div A \in Nat /\ n # 0 /\ A \in Nat \ {0}
    <3>1. A \in Nat \ {0}
      BY TokensAssumption
    <3>2. 0 % A = 0
      BY <3>1
    <3> QED BY <1>2, <3>1, <3>2
  <2>2. j \in 1 .. Len(bs)
    <3> DEFINE d == n \div A
               l == Len(bs)
    <3>1. d \in Nat /\ l \in Nat /\ ~(d >= l)
      BY <1>0, <1>2, <2>1
    <3> HIDE DEF d, l
    <3>2. d + 1 \in 1 .. l
      BY <3>1
    <3> QED BY <3>2 DEF d, l
  <2>3. b \in ToSet(bs) /\ b \in Block /\ b \in h[x]
    <3> HIDE DEF j, h, x, bs
    <3> QED BY <1>0, <2>2, Members
  <2>4. g \in Hash /\ Place(g) = n
    BY <2>1, AttnHashType
  <2>5. HashedIn(p, b, "attn") => Place(p.hash[b]) = (Place(g) \div A + 1) * A
    <3>1. CASE j <= a.cached
      <4>1. j \in 1 .. a.cached
        BY <2>2, <3>1
      <4>2. p.hash[b] = AttnHash(r, j * A)
        BY <1>0, <4>1 DEF AttnOK
      <4>3. Place(AttnHash(r, j * A)) = j * A
        BY DEF Place, AttnHash, Prefix
      <4> QED BY <2>4, <4>2, <4>3
    <3>2. CASE ~(j <= a.cached)
      <4>1. a.cached \in Nat
        BY <1>0 DEF AttnTable
      <4>2. j \in a.cached + 1 .. Len(bs)
        <5> DEFINE d == a.cached
                   l == Len(bs)
        <5>1. d \in Nat /\ l \in Nat /\ j \in 1 .. l /\ ~(j <= d)
          BY <1>0, <2>2, <3>2, <4>1
        <5> HIDE DEF d, l, j
        <5>2. j \in d + 1 .. l
          BY <5>1
        <5> QED BY <5>2 DEF d, l
      <4>3. Own(p, h, <<"attn", r>>, b)
        BY <1>0, <4>2 DEF AttnOK
      <4> QED BY <4>3 DEF Own, HashedIn
    <3> QED BY <3>1, <3>2
  <2>6. PoolOK(q, h, B) /\ Spares(p, h, q, h, x) /\ q \in QueuePool
    <3> DEFINE valid == n % A
               q2 == CachePartialBlock(p, b, valid, g)
    <3>1. q = q2
      OBVIOUS
    <3>2. valid \in Nat
      BY <2>1
    <3> HIDE DEF q
    <3>3. PoolOK(q2, h, B) /\ Spares(p, h, q2, h, x)
      <4> HIDE DEF p, h, x, b, g, valid
      <4> QED BY <1>0, <2>3, <2>4, <2>5, <3>2, PartialPool
    <3>4. q2 \in QueuePool
      BY <3>3 DEF PoolOK
    <3> HIDE DEF q2
    <3> QED BY <3>1, <3>3, <3>4
  <2>7. h = Regrip(h, x, ToSet(a.blocks) \cup ToSet(a.pinned))
    <3>1. h[x] = ToSet(a.blocks) \cup ToSet(a.pinned)
      BY <1>0
    <3> HIDE DEF h, x, a
    <3> QED BY <1>0, <3>1, SameGrip
  <2>8. AttnStepped(c, WithAttn(c, r, q, a), r, q, a, h, B)
    <3>1. x = AttnOf(r) /\ p = c.pool /\ h = Holding(c)
      OBVIOUS
    <3> HIDE DEF x, p, h, q, a
    <3> QED BY <1>0, <2>6, <2>7, <3>1, AttnStep
  <2>9. t = WithAttn(c, r, q, a)
    <3>1. t = [c EXCEPT !.pool = q]
      BY <1>2 DEF MirrorBoundary
    <3>2. c.attn \in [Req -> AttnTable]
      BY <1>0, CacheFields
    <3>3. [c.attn EXCEPT ![r] = a] = c.attn
      BY <3>2
    <3> HIDE DEF q, t
    <3> QED BY <1>0, <3>1, <3>3 DEF WithAttn, Cache
  <2>10. AttnShape(a)
    BY <1>0 DEF AttnOK
  <2> HIDE DEF t, q, a
  <2>11. Mirrored(c, t, r, B)
    BY <2>8, <2>9, <2>10 DEF Mirrored, AttnStepped
  <2> QED BY <2>11 DEF t
<1> QED
  BY <1>1, <1>2

\* The attention table of a request that is freed.
AttnFreed(c, t, r, B) == Sound(t, B) /\ OnlyAttn(c, t, r) /\ t.attn[r] = NoAttn

\* free() of the attention group, pins included.
LEMMA AttnFreeOK ==
  ASSUME NEW c, NEW B \in SUBSET Block, NEW r \in Req, SoundBut(c, B, AttnOf(r)),
         AttnShape(c.attn[r])
  PROVE  AttnFreed(c, AttnFree(c, r), r, B)
<1> DEFINE a  == c.attn[r]
           p  == c.pool
           h  == Holding(c)
           x  == AttnOf(r)
           u  == Reverse(a.blocks)
           v  == Reverse(a.pinned)
           bs == u \o v
           q  == FreeBlocks(p, bs)
           h2 == Regrip(h, x, h[x] \ ToSet(bs))
           t  == WithAttn(c, r, q, NoAttn)
<1>0. /\ c \in Cache /\ PoolOK(p, h, B) /\ x \in Holder
      /\ h[x] = ToSet(a.blocks) \cup ToSet(a.pinned)
  BY CacheFields, AttnHolds DEF SoundBut
<1>1. u \in Queue(Block) /\ ToSet(u) = ToSet(a.blocks) /\ v \in Queue(Block)
      /\ ToSet(v) = ToSet(a.pinned) /\ ToSet(u) \cap ToSet(v) = {}
  BY QueueReverse DEF AttnShape
<1>2. bs \in Queue(Block) /\ ToSet(bs) = h[x]
  <2> HIDE DEF u, v, h, x, a
  <2> QED BY <1>0, <1>1, QueueConcat
<1>3. PoolOK(q, h2, B) /\ Spares(p, h, q, h2, x) /\ q \in QueuePool
  <2>1. PoolOK(q, h2, B) /\ Spares(p, h, q, h2, x)
    <3> HIDE DEF p, h, x, bs
    <3> QED BY <1>0, <1>2, FreePool
  <2> QED BY <2>1 DEF PoolOK
<1>4. ToSet(NoAttn.blocks) \cup ToSet(NoAttn.pinned) = {}
  BY NoAttnTable, QueueEmpty
<1>5. h2 = Regrip(h, x, ToSet(NoAttn.blocks) \cup ToSet(NoAttn.pinned))
  <2>1. h[x] \ ToSet(bs) = {}
    <3> HIDE DEF h, x, bs
    <3> QED BY <1>2
  <2> HIDE DEF h, x, bs
  <2> QED BY <1>4, <2>1
<1>6. AttnStepped(c, t, r, q, NoAttn, h2, B)
  <2>1. x = AttnOf(r) /\ p = c.pool /\ h = Holding(c)
    OBVIOUS
  <2> HIDE DEF x, p, h, q, h2
  <2> QED BY <1>3, <1>5, <2>1, NoAttnTable, AttnStep
<1>7. AttnFree(c, r) = t
  BY DEF AttnFree, WithAttn
<1> HIDE DEF t, q, h2
<1>8. AttnFreed(c, t, r, B)
  BY <1>6, NoAttnTable DEF AttnStepped, AttnFreed
<1> QED
  BY <1>7, <1>8

\* Nothing more to zero or to copy.
SameOrders(c, t) == t.fresh = c.fresh /\ t.copies = c.copies

\* The tables of r are empty, and nothing of the other requests has changed.
Freed(c, t, r, B) ==
  /\ Sound(t, B) /\ OnlyOf(c, t, r) /\ SameOrders(c, t)
  /\ t.attn[r] = NoAttn /\ t.mamba[r] = NoMamba /\ t.pend[r] = None

\* finalize_request_cache.
LEMMA FinalizeOK ==
  ASSUME NEW c, NEW B \in SUBSET Block, NEW r \in Req, Sound(c, B)
  PROVE  LET t == Finalize(c, r)
         IN  /\ SoundBut(t, B, AttnOf(r)) /\ AttnShape(t.attn[r]) /\ OnlyOf(c, t, r)
             /\ t.pend = c.pend /\ SameOrders(c, t)
<1> DEFINE n  == IF CanPublishPrefill(c, r) THEN (CheckpointIdx(r) + 1) * H ELSE 0
           c1 == PublishPrefill(c, r)
           c2 == MambaFinalize(c1, r)
           c3 == MirrorBoundary(c2, r, n)
<1>1. n \in Nat /\ n <= Prompt[r] + MaxOut[r]
  <2>1. Prompt[r] \in Nat /\ MaxOut[r] \in Nat
    BY TokensAssumption
  <2>2. CASE CanPublishPrefill(c, r)
    <3> DEFINE k == CheckpointIdx(r)
    <3>1. k \in Nat
      BY <2>2, CheckpointFacts DEF CanPublishPrefill
    <3>2. (k + 1) * H <= Prompt[r] /\ H \in Nat
      BY <3>1, CheckpointFacts
    <3> HIDE DEF k
    <3> DEFINE w == (k + 1) * H
    <3>3. w \in Nat
      BY <3>1, <3>2
    <3> HIDE DEF w
    <3>4. w <= Prompt[r] + MaxOut[r]
      BY <2>1, <3>2, <3>3 DEF w
    <3> QED BY <2>2, <3>3, <3>4 DEF w, k
  <2>3. CASE ~CanPublishPrefill(c, r)
    BY <2>1, <2>3
  <2> QED BY <2>2, <2>3
<1>2. MambaMoves(c, c1, r, B)
  BY PublishPrefillOK
<1> HIDE DEF c1
<1>3. MambaMoves(c1, c2, r, B)
  BY <1>2, MambaFinalizeOK DEF MambaMoves
<1> HIDE DEF c2
<1>4. MambaMoves(c, c2, r, B)
  BY <1>2, <1>3, MambaMovesOn
<1>5. Sound(c2, B) /\ OnlyMamba(c, c2, r)
  BY <1>4 DEF MambaMoves
<1> HIDE DEF n
<1>6. Mirrored(c2, c3, r, B)
  BY <1>1, <1>5, MirrorBoundaryOK
<1>7. c3 = Finalize(c, r)
  BY DEF Finalize, n, c1, c2
<1> HIDE DEF c3
<1>8. OnlyOf(c, c3, r) /\ c3.pend = c.pend /\ SameOrders(c, c3)
  BY <1>5, <1>6 DEF Mirrored, OnlyOf, OnlyMamba, OnlyAttn, SameOrders
<1> QED
  BY <1>6, <1>7, <1>8 DEF Mirrored

\* KVCacheManager.free gives back everything that a request holds, and nothing else.
LEMMA FreeOK ==
  ASSUME NEW c, NEW B \in SUBSET Block, NEW r \in Req, Sound(c, B)
  PROVE  Freed(c, Free(c, r), r, B)
<1> DEFINE c1 == [c EXCEPT !.pend[r] = None]
           c2 == Finalize(c1, r)
           c3 == AttnFree(c2, r)
           c4 == MambaFree(c3, r)
<1>0. c \in Cache /\ c.pend \in [Req -> PartialHit \cup {None}]
  BY SoundFacts, CacheFields
<1>1. Queued(c, c1, r, B)
  BY PendGone
<1>12. SameOrders(c, c1)
  BY <1>0 DEF SameOrders, Cache
<1> HIDE DEF c1
<1>2. Sound(c1, B) /\ OnlyOf(c, c1, r) /\ c1.pend[r] = None
  BY <1>0, <1>1 DEF Queued, OnlyOf
<1>3. /\ SoundBut(c2, B, AttnOf(r)) /\ AttnShape(c2.attn[r]) /\ OnlyOf(c1, c2, r)
      /\ c2.pend = c1.pend /\ SameOrders(c1, c2)
  BY <1>2, FinalizeOK
<1> HIDE DEF c2
<1>4. AttnFreed(c2, c3, r, B)
  BY <1>3, AttnFreeOK
<1> HIDE DEF c3
<1>5. Sound(c3, B) /\ OnlyAttn(c2, c3, r) /\ c3.attn[r] = NoAttn
  BY <1>4 DEF AttnFreed
<1>6. MambaFreed(c3, c4, r, B)
  BY <1>5, MambaFreeOK
<1>7. c4 = Free(c, r)
  BY DEF Free, c1, c2, c3
<1> HIDE DEF c4
<1>8. Sound(c4, B) /\ OnlyMamba(c3, c4, r) /\ c4.mamba[r] = NoMamba
  BY <1>6 DEF MambaFreed
<1>9. OnlyOf(c2, c4, r) /\ c4.attn[r] = NoAttn /\ c4.pend = c2.pend
  BY <1>5, <1>8 DEF OnlyAttn, OnlyMamba, OnlyOf
<1>10. OnlyOf(c, c4, r)
  BY <1>2, <1>3, <1>9, OnlyOfOn
<1>13. SameOrders(c, c4)
  BY <1>3, <1>5, <1>8, <1>12 DEF SameOrders, OnlyAttn, OnlyMamba
<1>11. Freed(c, c4, r, B)
  BY <1>2, <1>3, <1>8, <1>9, <1>10, <1>13 DEF Freed
<1> QED
  BY <1>7, <1>11

\* All tables of the requests of rs are empty, and nothing else has changed.
AllFreed(c, t, rs, B) ==
  /\ Sound(t, B) /\ t.gold = c.gold /\ SameOrders(c, t)
  /\ \A r \in Req : IF r \in rs
                    THEN t.attn[r] = NoAttn /\ t.mamba[r] = NoMamba /\ t.pend[r] = None
                    ELSE t.attn[r] = c.attn[r] /\ t.mamba[r] = c.mamba[r] /\ t.pend[r] = c.pend[r]

\* One more request is freed.
LEMMA FreedOn ==
  ASSUME NEW c, NEW t, NEW u, NEW rs, NEW r \in Req, NEW B, AllFreed(c, t, rs, B), Freed(t, u, r, B)
  PROVE  AllFreed(c, u, rs \cup {r}, B)
<1>1. Sound(u, B) /\ u.gold = c.gold /\ SameOrders(c, u)
  BY DEF AllFreed, Freed, OnlyOf, SameOrders
<1>2. ASSUME NEW s \in Req
      PROVE  IF s \in rs \cup {r}
             THEN u.attn[s] = NoAttn /\ u.mamba[s] = NoMamba /\ u.pend[s] = None
             ELSE u.attn[s] = c.attn[s] /\ u.mamba[s] = c.mamba[s] /\ u.pend[s] = c.pend[s]
  <2>1. CASE s = r
    BY <2>1 DEF Freed
  <2>2. CASE s # r
    <3>1. u.attn[s] = t.attn[s] /\ u.mamba[s] = t.mamba[s] /\ u.pend[s] = t.pend[s]
      BY <2>2 DEF Freed, OnlyOf
    <3> QED BY <2>2, <3>1 DEF AllFreed
  <2> QED BY <2>1, <2>2
<1> QED
  BY <1>1, <1>2 DEF AllFreed

\* The members of the first k places of a list.
FirstOf(rs, k) == {rs[i] : i \in 1 .. k}

\* A list of requests is freed one after the other.
LEMMA FreeAllOK ==
  ASSUME NEW c, NEW B \in SUBSET Block, Sound(c, B), NEW rs \in Seq(Req)
  PROVE  AllFreed(c, FreeAll(c, rs), ToSet(rs), B)
<1> DEFINE N == Len(rs)
           body(f) == [k \in 0 .. N |-> IF k = 0 THEN c ELSE Free(f[k - 1], rs[k])]
           freed == CHOOSE f : f = body(f)
           X == {t \in Cache : Sound(t, B)}
           next == [p \in Nat \X X |-> IF p[1] \in 1 .. N THEN Free(p[2], rs[p[1]]) ELSE p[2]]
<1>0. N \in Nat /\ \A k \in 1 .. N : rs[k] \in Req
  BY LenProperties
<1>1. FreeAll(c, rs) = freed[N]
  BY DEF FreeAll
<1>a. ToSet(rs) = FirstOf(rs, N)
  BY DEF ToSet, FirstOf
<1> HIDE DEF N
<1>2. ASSUME NEW t \in X, NEW k \in 1 .. N
      PROVE  Free(t, rs[k]) \in X
  <2> DEFINE r == rs[k]
             u == Free(t, r)
  <2>1. Sound(t, B) /\ r \in Req
    BY <1>0
  <2> HIDE DEF r, u
  <2>2. Freed(t, u, r, B)
    BY <2>1, FreeOK DEF u
  <2>3. u \in Cache /\ Sound(u, B)
    BY <2>2 DEF Freed, Sound
  <2> QED BY <2>3 DEF u, r
<1>3. next \in [Nat \X X -> X] /\ c \in X
  <2>1. c \in X
    BY DEF Sound
  <2>2. ASSUME NEW p \in Nat \X X PROVE next[p] \in X
    <3>1. p[1] \in Nat /\ p[2] \in X
      OBVIOUS
    <3> HIDE DEF X
    <3> QED BY <1>2, <3>1
  <2> HIDE DEF X
  <2> QED BY <2>1, <2>2
<1>4. PICK f \in [0 .. N -> X] : Iterates(f, N, c, next)
  <2> HIDE DEF next, X
  <2> QED BY <1>0, <1>3, Recursion
<1>5. f = body(f)
  <2>1. ASSUME NEW k \in 1 .. N
        PROVE  f[k] = Free(f[k - 1], rs[k])
    <3>1. k \in Nat /\ k - 1 \in 0 .. N
      BY <1>0
    <3>2. f[k] = next[<<k, f[k - 1]>>]
      BY <1>4 DEF Iterates
    <3> HIDE DEF X
    <3>3. <<k, f[k - 1]>> \in Nat \X X
      BY <1>4, <3>1
    <3> QED BY <3>2, <3>3
  <2>2. f[0] = c
    BY <1>4 DEF Iterates
  <2> HIDE DEF X
  <2>3. \A k \in 0 .. N : f[k] = body(f)[k]
    BY <1>0, <2>1, <2>2
  <2>4. f = [k \in 0 .. N |-> f[k]]
    BY <1>4
  <2> QED BY <2>3, <2>4
<1>6. freed = body(freed)
  BY <1>5
<1> HIDE DEF freed
<1>7. freed[0] = c /\ \A k \in 1 .. N : freed[k] = Free(freed[k - 1], rs[k])
  <2>1. \A k \in 0 .. N : freed[k] = body(freed)[k]
    BY <1>6
  <2> QED BY <1>0, <2>1
<1> DEFINE Z == {n \in Nat : n <= N => AllFreed(c, freed[n], FirstOf(rs, n), B)}
<1>8. 0 \in Z
  <2>1. FirstOf(rs, 0) = {}
    BY DEF FirstOf
  <2>2. AllFreed(c, c, {}, B)
    BY DEF AllFreed, SameOrders
  <2> QED BY <1>7, <2>1, <2>2
<1>9. ASSUME NEW n \in Nat, n \in Z PROVE n + 1 \in Z
  <2>1. SUFFICES ASSUME n + 1 <= N PROVE AllFreed(c, freed[n + 1], FirstOf(rs, n + 1), B)
    OBVIOUS
  <2> DEFINE t == freed[n]
             r == rs[n + 1]
             u == freed[n + 1]
             old == FirstOf(rs, n)
  <2>2. n <= N /\ n + 1 \in 1 .. N /\ (n + 1) - 1 = n
    BY <1>0, <2>1
  <2>3. AllFreed(c, t, old, B) /\ r \in Req /\ u = Free(t, r)
    BY <1>0, <1>7, <1>9, <2>2
  <2>4. FirstOf(rs, n + 1) = old \cup {r}
    <3>1. 1 .. n + 1 = (1 .. n) \cup {n + 1}
      OBVIOUS
    <3> QED BY <3>1 DEF FirstOf
  <2> HIDE DEF t, r, u, old
  <2>5. Freed(t, u, r, B)
    BY <2>3, FreeOK DEF AllFreed
  <2>6. AllFreed(c, u, old \cup {r}, B)
    BY <2>3, <2>5, FreedOn
  <2> QED BY <2>4, <2>6 DEF u
<1>10. \A n \in Nat : n \in Z
  <2> HIDE DEF Z
  <2> QED BY <1>8, <1>9, NumberInduction
<1>11. AllFreed(c, freed[N], FirstOf(rs, N), B)
  BY <1>0, <1>10
<1> QED
  BY <1>1, <1>a, <1>11

-----------------------------------------------------------------------------
(* The lookup.                                                             *)

\* A block that is found under a hash carries it.
LEMMA CachedBlockHas ==
  ASSUME NEW q \in QueuePool, Indexed(q), NEW h \in Hash, CachedBlock(q, h) # None
  PROVE  CachedBlock(q, h) \in Block /\ q.hash[CachedBlock(q, h)] = h
<1>1. q.cached[h] \in Queue(Block) /\ q.cached[h] \in Seq(Block)
  BY PoolFields
<1>2. q.cached[h] # <<>> /\ CachedBlock(q, h) = Head(q.cached[h])
  BY DEF CachedBlock
<1>3. Head(q.cached[h]) \in ToSet(q.cached[h])
  BY <1>1, <1>2, QueueTail
<1>4. ToSet(q.cached[h]) \in SUBSET Block
  BY <1>1, Members
<1> QED
  BY <1>2, <1>3, <1>4 DEF Indexed

\* What bounds the lookup: a boundary, and the Mamba state of it is cached.
LEMMA MambaBoundaryOK ==
  ASSUME NEW c, NEW r, NEW limit \in Nat
  PROVE  LET n == MambaBoundary(c, r, limit)
         IN  /\ n \in 0 .. limit /\ n % H = 0
             /\ n > 0 => CachedBlock(c.pool, MambaHash(r, n)) # None
<1> DEFINE S == {0} \cup {n \in 1 .. limit : /\ n % H = 0
                                            /\ CachedBlock(c.pool, MambaHash(r, n)) # None}
<1>1. S \in SUBSET (0 .. limit) /\ S # {}
  OBVIOUS
<1>2. 0 % H = 0
  BY TokensAssumption
<1>3. Max(S) \in S
  <2> HIDE DEF S
  <2> QED BY <1>1, Greatest
<1>4. MambaBoundary(c, r, limit) = Max(S)
  BY DEF MambaBoundary
<1> DEFINE m == Max(S)
<1>5. m \in S
  BY <1>3
<1> HIDE DEF m
<1>6. m \in 0 .. limit /\ m % H = 0 /\ (m > 0 => CachedBlock(c.pool, MambaHash(r, m)) # None)
  BY <1>2, <1>5
<1> QED
  BY <1>4, <1>6 DEF m

\* The whole blocks are cached.
LEMMA WholeBlocksOK ==
  ASSUME NEW c, NEW r, NEW limit \in Nat
  PROVE  LET k == WholeBlocks(c, r, limit)
         IN  /\ k \in Nat /\ k * A \in Nat /\ k * A <= limit
             /\ \A j \in 1 .. k : CachedBlock(c.pool, AttnHash(r, j * A)) # None
<1> DEFINE top == limit \div A
           S == {k \in 0 .. top :
                   \A j \in 1 .. k : CachedBlock(c.pool, AttnHash(r, j * A)) # None}
<1>0. A \in Nat \ {0} /\ top \in Nat
  BY TokensAssumption, Division
<1>1. 0 \in S /\ S \in SUBSET (0 .. top)
  BY <1>0
<1>2. Max(S) \in S
  <2> HIDE DEF S, top
  <2> QED BY <1>0, <1>1, Greatest
<1>3. WholeBlocks(c, r, limit) = Max(S)
  BY DEF WholeBlocks
<1> DEFINE m == Max(S)
<1>4. m \in S
  BY <1>2
<1> HIDE DEF m
<1>5. m \in 0 .. top /\ \A j \in 1 .. m : CachedBlock(c.pool, AttnHash(r, j * A)) # None
  BY <1>4
<1>6. m * A <= limit /\ m * A \in Nat
  <2>1. m \in Nat /\ m <= top
    BY <1>0, <1>5
  <2> HIDE DEF S
  <2> QED BY <1>0, <2>1, Quotient, Product
<1> QED
  BY <1>0, <1>3, <1>5, <1>6 DEF m

\* The only candidate for a partial hit is a boundary up to the bound.
LEMMA CandidateOK ==
  ASSUME NEW bound \in Nat, NEW whole \in Nat
  PROVE  LET n == PartialCandidate(bound, whole)
         IN  n \in 0 .. bound /\ n % H = 0 /\ n <= whole * A + A - 1
<1> DEFINE most == Min2(bound, whole * A + A - 1)
           m == most % H
<1>0. H \in Nat \ {0} /\ A \in Nat \ {0}
  BY TokensAssumption
<1>1. whole * A \in Nat
  BY <1>0, Product
<1>2. most \in 0 .. bound
  <2> DEFINE w == whole * A
  <2>1. w \in Nat
    BY <1>1
  <2> HIDE DEF w
  <2>2. Min2(bound, w + A - 1) \in 0 .. bound
    BY <1>0, <2>1 DEF Min2
  <2> QED BY <2>2 DEF w
<1>8. most <= whole * A + A - 1
  <2> DEFINE w == whole * A
  <2>1. w \in Nat
    BY <1>1
  <2> HIDE DEF w
  <2>2. Min2(bound, w + A - 1) <= w + A - 1
    BY <1>0, <2>1 DEF Min2
  <2> QED BY <2>2 DEF w
<1> HIDE DEF most
<1>3. most \in Nat /\ most \div H \in Nat /\ m \in 0 .. H - 1 /\ most = H * (most \div H) + m
  <2>1. most \in Nat
    BY <1>2
  <2> QED BY <1>0, <2>1, Division
<1> DEFINE d == most \div H
           w == d * H
<1>4. w = H * d /\ w % H = 0 /\ w \in Nat
  <2>1. d \in Nat
    BY <1>3
  <2> HIDE DEF d
  <2> QED BY <1>0, <2>1, Quotient, Product, SMTT(20)
<1>5. most - m = w
  <2>1. most = w + m
    BY <1>3, <1>4
  <2> HIDE DEF w, m, d
  <2> QED BY <1>0, <1>3, <1>4, <2>1
<1>6. w \in 0 .. bound
  <2> HIDE DEF w, m, d
  <2> QED BY <1>0, <1>2, <1>3, <1>4, <1>5
<1>9. w <= whole * A + A - 1
  <2> DEFINE top == whole * A
  <2>1. top \in Nat
    BY <1>1
  <2>2. most <= top + A - 1
    BY <1>8
  <2> HIDE DEF w, m, d, top
  <2>3. w <= top + A - 1
    BY <1>0, <1>3, <1>4, <1>5, <2>1, <2>2
  <2> QED BY <2>3 DEF top
<1>7. PartialCandidate(bound, whole) = most - (most % H)
  BY DEF PartialCandidate, most
<1> HIDE DEF w
<1> QED
  BY <1>4, <1>5, <1>6, <1>7, <1>9

\* The whole blocks that a lookup returns.
WholeHit(c, r, whole) == [j \in 1 .. whole |-> CachedBlock(c.pool, AttnHash(r, j * A))]

\* They are different blocks, each under its own hash.
LEMMA WholeHitOK ==
  ASSUME NEW c, NEW B \in SUBSET Block, NEW r \in Req, Sound(c, B), NEW whole \in Nat,
         whole * A <= Prompt[r] + MaxOut[r],
         \A j \in 1 .. whole : CachedBlock(c.pool, AttnHash(r, j * A)) # None
  PROVE  LET bs == WholeHit(c, r, whole)
         IN  /\ bs \in Queue(Block) /\ Len(bs) = whole
             /\ \A j \in 1 .. whole : c.pool.hash[bs[j]] \in {AttnHash(r, j * A)} \ {None}
<1> DEFINE q  == c.pool
           bs == WholeHit(c, r, whole)
           g(j) == AttnHash(r, j * A)
<1>0. q \in QueuePool /\ Indexed(q) /\ None \notin Hash /\ A \in Nat \ {0}
  BY SoundFacts, QueueAssumption, TokensAssumption DEF PoolOK
<1>1. ASSUME NEW j \in 1 .. whole PROVE g(j) \in Hash /\ Place(g(j)) = j * A
  <2>1. j \in Nat \ {0} /\ j <= whole
    OBVIOUS
  <2>2. j * A \in Nat /\ j * A <= whole * A /\ whole * A \in Nat /\ j * A > 0
    <3>1. 0 * A < j * A /\ 0 * A = 0
      BY <1>0, <2>1, Product, SMTT(20)
    <3> QED BY <1>0, <2>1, <3>1, Product
  <2> DEFINE n == j * A
             w == whole * A
             most == Prompt[r] + MaxOut[r]
  <2>3. most \in Nat
    BY TokensAssumption
  <2>4. n \in Nat \ {0} /\ n <= w /\ w <= most /\ w \in Nat
    BY <2>2
  <2> HIDE DEF n, w, most
  <2>5. n <= most
    BY <2>3, <2>4
  <2>6. n <= Prompt[r] + MaxOut[r]
    BY <2>5 DEF most
  <2>7. AttnHash(r, n) \in Hash /\ Place(AttnHash(r, n)) = n
    BY <2>4, <2>6, AttnHashType
  <2> QED BY <2>7 DEF n
<1> HIDE DEF g
<1>2. ASSUME NEW j \in 1 .. whole PROVE bs[j] \in Block /\ q.hash[bs[j]] = g(j)
  <2>1. bs[j] = CachedBlock(q, g(j)) /\ CachedBlock(q, g(j)) # None
    BY DEF WholeHit, g
  <2>2. g(j) \in Hash
    BY <1>1
  <2> HIDE DEF q, bs
  <2> QED BY <1>0, <2>1, <2>2, CachedBlockHas
<1>3. bs \in Seq(Block) /\ Len(bs) = whole
  <2>1. bs = [j \in 1 .. whole |-> bs[j]]
    BY DEF WholeHit
  <2> HIDE DEF bs
  <2>2. bs \in [1 .. whole -> Block]
    BY <1>2, <2>1
  <2> QED BY <2>2
<1>4. ASSUME NEW i \in 1 .. whole, NEW j \in 1 .. whole, bs[i] = bs[j] PROVE i = j
  <2>1. i * A = j * A
    BY <1>1, <1>2, <1>4
  <2>2. i \in Nat /\ j \in Nat
    OBVIOUS
  <2>3. ~(i < j) /\ ~(j < i)
    <3> DEFINE x == i * A
               y == j * A
    <3>1. x \in Nat /\ y \in Nat /\ (i < j <=> x < y) /\ (j < i <=> y < x)
      BY <1>0, <2>2, Product
    <3>2. x = y
      BY <2>1
    <3> HIDE DEF x, y
    <3> QED BY <3>1, <3>2
  <2> QED BY <2>2, <2>3
<1> HIDE DEF bs, q
<1>5. bs \in Queue(Block)
  BY <1>3, <1>4, QueuePlaces
<1>6. \A j \in 1 .. whole : q.hash[bs[j]] \in {g(j)} \ {None}
  BY <1>0, <1>1, <1>2
<1> QED
  BY <1>3, <1>5, <1>6 DEF bs, q, g

\* A partial hit lies in the block behind the whole ones.
LEMMA PartialIndex ==
  ASSUME NEW whole \in Nat, NEW n \in Nat, n > whole * A, n <= whole * A + A - 1
  PROVE  n \div A = whole
<1>0. A \in Nat \ {0}
  BY TokensAssumption
<1> DEFINE w == whole * A
           d == n \div A
<1>1. w \in Nat /\ d \in Nat
  BY <1>0, Product, Division
<1>2. (whole + 1) * A = w + A
  BY <1>0, SMTT(40)
<1>3. whole <= d
  <2>1. w <= n
    <3>1. n > w
      OBVIOUS
    <3> HIDE DEF w
    <3> QED BY <1>1, <3>1
  <2> QED BY <1>0, <2>1, Quotient
<1>4. ~(whole + 1 <= d)
  <2>1. ~((whole + 1) * A <= n)
    <3>1. n <= w + A - 1
      OBVIOUS
    <3> HIDE DEF w
    <3> QED BY <1>0, <1>1, <1>2, <3>1
  <2>2. whole + 1 \in Nat
    OBVIOUS
  <2> QED BY <1>0, <2>1, <2>2, Quotient
<1> HIDE DEF d
<1>5. d = whole
  BY <1>1, <1>3, <1>4
<1> QED
  BY <1>5 DEF d

\* The partial block that a lookup returns.
PartialOf(c, r, n) ==
  [src |-> c.pool.partial[AttnHash(r, n)].block, index |-> n \div A, ntok |-> n % A]

\* The source of a partial hit is none of them.
LEMMA PartialOfOK ==
  ASSUME NEW c, NEW B \in SUBSET Block, NEW r \in Req, Sound(c, B), NEW whole \in Nat,
         whole * A <= Prompt[r] + MaxOut[r],
         \A j \in 1 .. whole : CachedBlock(c.pool, AttnHash(r, j * A)) # None,
         NEW n \in Nat, n <= Prompt[r] + MaxOut[r], HasPartialHit(c, r, n, whole)
  PROVE  LET p == PartialOf(c, r, n)
         IN  /\ p \in PartialHit /\ c.pool.pids[p.src] # {}
             /\ p.src \notin ToSet(WholeHit(c, r, whole))
<1> DEFINE q  == c.pool
           g  == AttnHash(r, n)
           b  == q.partial[g].block
           bs == WholeHit(c, r, whole)
           wa == whole * A
<1>0. q \in QueuePool /\ Indexed(q) /\ None \notin Hash /\ A \in Nat \ {0}
  BY SoundFacts, QueueAssumption, TokensAssumption DEF PoolOK
<1>1. wa \in Nat /\ n > wa /\ q.partial[g] # None
  BY <1>0, Product DEF HasPartialHit
<1>2. g \in Hash /\ Place(g) = n
  <2>1. n # 0
    <3> HIDE DEF wa
    <3> QED BY <1>1
  <2> QED BY <2>1, AttnHashType
<1>3. b \in Block /\ g \in q.pids[b]
  <2> HIDE DEF g, q
  <2> QED BY <1>0, <1>1, <1>2, PoolFields DEF Indexed
<1>4. n \div A \in Nat /\ n % A \in Nat
  <2>1. n % A \in 0 .. A - 1 /\ n \div A \in Nat
    BY <1>0, Division
  <2>2. A - 1 \in Int
    BY <1>0
  <2> DEFINE m == n % A
  <2>3. m \in 0 .. A - 1 /\ n \div A \in Nat
    BY <2>1
  <2> HIDE DEF m
  <2>4. m \in Nat
    BY <2>2, <2>3
  <2> QED BY <2>3, <2>4 DEF m
<1>5. PartialOf(c, r, n) \in PartialHit /\ PartialOf(c, r, n).src = b
  BY <1>3, <1>4 DEF PartialOf, PartialHit
<1>6. ASSUME b \in ToSet(bs) PROVE FALSE
  <2>1. bs \in Queue(Block) /\ Len(bs) = whole
        /\ \A j \in 1 .. whole : q.hash[bs[j]] \in {AttnHash(r, j * A)} \ {None}
    BY WholeHitOK
  <2>2. PICK j \in 1 .. whole : bs[j] = b
    <3>1. bs \in Seq(Block)
      BY <2>1 DEF Queue
    <3> HIDE DEF bs, b
    <3> QED BY <1>6, <2>1, <3>1, Members
  <2>3. q.hash[b] = AttnHash(r, j * A) /\ q.hash[b] # None
    BY <2>1, <2>2
  <2>4. HashedIn(q, b, "attn") /\ Place(q.hash[b]) = j * A
    <3>1. \A k : Group(AttnHash(r, k)) = "attn" /\ Place(AttnHash(r, k)) = k
      BY DEF Group, Place, AttnHash, Prefix
    <3>2. Group(q.hash[b]) = "attn" /\ Place(q.hash[b]) = j * A
      BY <2>3, <3>1
    <3> QED BY <2>3, <3>2 DEF HashedIn
  <2> DEFINE d == n \div A
  <2>5. Place(q.hash[b]) = (d + 1) * A
    <3>1. \A f \in q.pids[b] : Place(q.hash[b]) = (Place(f) \div A + 1) * A
      <4> HIDE DEF b, q
      <4> QED BY <1>0, <1>3, <2>4 DEF Indexed
    <3> QED BY <1>2, <1>3, <3>1
  <2>6. j * A = (d + 1) * A
    BY <2>4, <2>5
  <2>7. d \in Nat /\ whole <= d
    <3>1. wa <= n
      <4> HIDE DEF wa
      <4> QED BY <1>1
    <3> QED BY <1>0, <1>4, <3>1, Quotient
  <2>8. j \in Nat /\ j < d + 1 /\ d + 1 \in Nat
    <3> HIDE DEF d
    <3> QED BY <2>7
  <2>9. j * A < (d + 1) * A /\ j * A \in Nat /\ (d + 1) * A \in Nat
    <3> HIDE DEF d
    <3> QED BY <1>0, <2>8, Product
  <2> DEFINE x == j * A
             y == (d + 1) * A
  <2>10. x = y /\ x < y /\ x \in Nat /\ y \in Nat
    BY <2>6, <2>9
  <2> HIDE DEF x, y
  <2> QED BY <2>10
<1> QED
  BY <1>3, <1>5, <1>6

\* A lookup of ntok tokens returns a hit that leaves at least one of them to compute.
FoundHit(c, r, ntok, hit) == GoodHit(c.pool, r, hit) /\ hit.len < ntok

\* find_longest_cache_hit.
LEMMA LookupOK ==
  ASSUME NEW c, NEW B \in SUBSET Block, NEW r \in Req, Sound(c, B), NEW ntok \in Nat \ {0},
         ntok <= Prompt[r] + MaxOut[r]
  PROVE  FoundHit(c, r, ntok, Lookup(c, r, ntok))
<1> DEFINE q     == c.pool
           bound == MambaBoundary(c, r, ntok - 1)
           whole == WholeBlocks(c, r, bound)
           wa    == whole * A
           n     == PartialCandidate(bound, whole)
           part  == HasPartialHit(c, r, n, whole)
           len   == IF part THEN n ELSE wa
           bs    == WholeHit(c, r, whole)
           ssm   == IF len > 0 /\ len = bound THEN CachedBlock(q, MambaHash(r, len)) ELSE Null
           p     == IF part THEN PartialOf(c, r, n) ELSE None
           most  == Prompt[r] + MaxOut[r]
<1>0. q \in QueuePool /\ Indexed(q) /\ None \notin Hash /\ None \notin Block
      /\ Null \notin Block /\ A \in Nat \ {0} /\ H \in Nat \ {0} /\ A % H = 0
  BY SoundFacts, QueueAssumption, TokensAssumption, NullAssumption DEF PoolOK
<1>1. bound \in 0 .. ntok - 1 /\ bound % H = 0
      /\ (bound > 0 => CachedBlock(q, MambaHash(r, bound)) # None)
  <2>1. ntok - 1 \in Nat
    OBVIOUS
  <2> QED BY <2>1, MambaBoundaryOK
<1>2. bound \in Nat /\ most \in Nat /\ bound <= most /\ bound < ntok
  <2>1. most \in Nat
    BY TokensAssumption
  <2>2. bound \in 0 .. ntok - 1 /\ ntok <= most
    BY <1>1
  <2> HIDE DEF bound, most
  <2> QED BY <2>1, <2>2
<1> HIDE DEF bound
<1>3. /\ whole \in Nat /\ wa \in Nat /\ wa <= bound
      /\ \A j \in 1 .. whole : CachedBlock(q, AttnHash(r, j * A)) # None
  BY <1>2, WholeBlocksOK
<1> HIDE DEF whole
<1>4. n \in 0 .. bound /\ n % H = 0 /\ n <= whole * A + A - 1
  BY <1>2, <1>3, CandidateOK
<1>5. wa % H = 0
  <2>1. wa % A = 0
    BY <1>0, <1>3, Quotient
  <2> HIDE DEF wa
  <2> QED BY <1>0, <1>3, <2>1, Chain
<1>6. wa <= most /\ n <= most /\ n \in Nat
  <2> HIDE DEF wa, most, n
  <2> QED BY <1>2, <1>3, <1>4
<1>7. bs \in Queue(Block) /\ Len(bs) = whole
      /\ \A j \in 1 .. whole : q.hash[bs[j]] \in {AttnHash(r, j * A)} \ {None}
  <2>1. whole * A <= Prompt[r] + MaxOut[r]
    BY <1>6
  <2> HIDE DEF bs, wa, most
  <2> QED BY <1>3, <2>1, WholeHitOK DEF bs
<1>8. part => n > wa
  BY DEF HasPartialHit
<1>9. len \in Nat /\ len % H = 0 /\ len <= bound
  <2> HIDE DEF wa, n, part
  <2> QED BY <1>2, <1>3, <1>4, <1>5
<1>10. ASSUME len = 0 PROVE ~part /\ whole = 0
  <2>1. ~part /\ wa = 0
    <3> HIDE DEF wa, n, part
    <3> QED BY <1>3, <1>4, <1>8, <1>10
  <2>2. ~(0 < whole)
    <3>1. 0 < whole => 0 * A < whole * A
      BY <1>0, <1>3, Product
    <3>2. 0 * A = 0
      BY <1>0, SMTT(20)
    <3> QED BY <2>1, <3>1, <3>2
  <2> QED BY <1>3, <2>1, <2>2
<1>11. p \in PartialHit \cup {None}
       /\ (p # None => /\ q.pids[p.src] # {} /\ p.src \notin ToSet(bs)
                       /\ p.index = Len(bs))
  <2>1. CASE part
    <3>1. n <= Prompt[r] + MaxOut[r] /\ whole * A <= Prompt[r] + MaxOut[r]
      BY <1>6
    <3>2. n \in Nat /\ HasPartialHit(c, r, n, whole) /\ p = PartialOf(c, r, n)
      BY <1>6, <2>1
    <3>3. p.index = whole
      <4>1. n > whole * A
        BY <1>8, <2>1
      <4>2. p.index = n \div A
        BY <3>2 DEF PartialOf
      <4> HIDE DEF n, p, part
      <4> QED BY <1>3, <1>4, <3>2, <4>1, <4>2, PartialIndex
    <3>4. Len(bs) = whole
      BY <1>7
    <3> HIDE DEF n, p, part
    <3>5. p \in PartialHit /\ q.pids[p.src] # {} /\ p.src \notin ToSet(bs)
      BY <1>3, <3>1, <3>2, PartialOfOK
    <3> HIDE DEF bs
    <3> QED BY <3>3, <3>4, <3>5
  <2>2. CASE ~part
    BY <2>2
  <2> QED BY <2>1, <2>2
<1>12. ssm \in Block \cup {Null} /\ (ssm # Null => HashedIn(q, ssm, "mamba"))
  <2>1. CASE len > 0 /\ len = bound
    <3> DEFINE g == MambaHash(r, len)
    <3>1. len \in Nat \ {0} /\ len <= Prompt[r] + MaxOut[r]
      <4>1. len <= most
        <5> HIDE DEF len, most
        <5> QED BY <1>2, <2>1
      <4> QED BY <1>9, <2>1, <4>1
    <3> HIDE DEF len
    <3>2. g \in Hash /\ Group(g) = "mamba"
      BY <3>1, MambaHashType
    <3>3. CachedBlock(q, g) # None /\ ssm = CachedBlock(q, g)
      BY <1>1, <2>1
    <3> HIDE DEF g, ssm
    <3>4. ssm \in Block /\ q.hash[ssm] = g
      <4> HIDE DEF q
      <4> QED BY <1>0, <3>2, <3>3, CachedBlockHas
    <3> QED BY <1>0, <3>2, <3>4 DEF HashedIn
  <2>2. CASE ~(len > 0 /\ len = bound)
    <3>1. ssm = Null
      BY <2>2
    <3> QED BY <3>1
  <2> QED BY <2>1, <2>2
<1>13. len = 0 => bs = <<>> /\ ssm = Null /\ p = None
  <2>1. SUFFICES ASSUME len = 0 PROVE bs = <<>> /\ ssm = Null /\ p = None
    OBVIOUS
  <2>2. ~part /\ whole = 0
    BY <1>10, <2>1
  <2>3. bs = <<>>
    <3>1. bs \in Seq(Block) /\ Len(bs) = 0
      BY <1>7, <2>2 DEF Queue
    <3> HIDE DEF bs
    <3> QED BY <3>1
  <2>4. ssm = Null
    <3> HIDE DEF len
    <3> QED BY <2>1
  <2> QED BY <2>2, <2>3, <2>4
<1> DEFINE hit == [len |-> len, attn |-> bs, ssm |-> ssm, part |-> p]
<1>14. Lookup(c, r, ntok) = hit
  BY DEF Lookup, bound, whole, WholeHit, PartialOf
<1>15. hit.len = len /\ hit.attn = bs /\ hit.ssm = ssm /\ hit.part = p
  OBVIOUS
<1> HIDE DEF hit, len, bs, ssm, p, q
<1>16. len < ntok
  BY <1>2, <1>9
<1>17. FoundHit(c, r, ntok, hit)
  BY <1>7, <1>9, <1>11, <1>12, <1>13, <1>15, <1>16 DEF FoundHit, GoodHit, q
<1> QED
  BY <1>14, <1>17

\* A request whose lookup found nothing, or that has none.
LEMMA MissedOK ==
  ASSUME NEW q, NEW r
  PROVE  GoodHit(q, r, MissedHit) /\ MissedHit.len = 0 /\ MissedHit.part = None
<1>1. 0 % H = 0
  BY TokensAssumption
<1>2. <<>> \in Queue(Block) /\ Len(<<>>) = 0
  BY QueueEmpty
<1> QED
  BY <1>1, <1>2 DEF GoodHit, MissedHit

-----------------------------------------------------------------------------
(* What the scheduler asks for.                                            *)

\* The hit of the lookup is pending, and nothing else has changed.
Asked(c, t, r, hit, B) ==
  /\ Sound(t, B) /\ OnlyOf(c, t, r) /\ TakenHit(t, r, hit)
  /\ t.attn = c.attn /\ t.mamba = c.mamba /\ Keeps(c, t, r)

\* get_computed_blocks leaves the partial hit pending.
LEMMA AskedOK ==
  ASSUME NEW c, NEW B \in SUBSET Block, NEW r \in Req, Sound(c, B), NEW hit,
         GoodHit(c.pool, r, hit), c.mamba[r] = NoMamba, c.attn[r] = NoAttn
  PROVE  Asked(c, ComputedBlocks(c, r, hit), r, hit, B)
<1> DEFINE p == hit.part
           t == ComputedBlocks(c, r, hit)
<1>1. c \in Cache /\ c.pend \in [Req -> PartialHit \cup {None}]
  BY SoundFacts, CacheFields
<1>2. p \in PartialHit \cup {None}
  BY DEF GoodHit
<1> HIDE DEF p
<1>3. /\ t.gold = c.gold /\ t.pool = c.pool /\ t.mamba = c.mamba /\ t.attn = c.attn
      /\ t.fresh = c.fresh /\ t.copies = c.copies /\ t.pend = [c.pend EXCEPT ![r] = p]
  BY <1>1 DEF ComputedBlocks, Cache, p
<1>4. t.pend \in [Req -> PartialHit \cup {None}] /\ t.pend[r] = p
  BY <1>1, <1>2, <1>3
<1>5. t = [c EXCEPT !.pend[r] = p]
  BY DEF ComputedBlocks, p
<1> HIDE DEF t
<1>6. t \in Cache
  BY <1>1, <1>3, <1>4, <1>5 DEF Cache
<1>7. Sound(t, B)
  BY <1>3, <1>6, SoundSame
<1>8. OnlyOf(c, t, r)
  BY <1>1, <1>3 DEF OnlyOf
<1>9. TakenHit(t, r, hit)
  BY <1>3, <1>4 DEF TakenHit, p
<1>11. Keeps(c, t, r)
  BY <1>3, <1>8, SameBarer DEF Keeps
<1>10. Asked(c, t, r, hit, B)
  BY <1>3, <1>7, <1>8, <1>9, <1>11 DEF Asked
<1> QED
  BY <1>10 DEF t

\* The least of some numbers.
LEMMA LeastOf ==
  ASSUME NEW S \in SUBSET Nat, S # {}
  PROVE  Min(S) \in S
BY LeastNumber DEF Min

\* A split of n tokens is at most n tokens.
LEMMA SplitOK ==
  ASSUME NEW r \in Req, NEW computed \in Nat, NEW n \in Nat
  PROVE  AlignedSplit(r, computed, n) \in 0 .. n
<1> DEFINE ahead == {c \in {LastCheckpoint(r)} \cup CoarseCheckpoints(r) :
                       computed < c /\ c < computed + n}
<1>0. Prompt[r] \in Nat /\ H \in Nat \ {0} /\ A \in Nat \ {0}
  BY TokensAssumption
<1>1. LastCheckpoint(r) \in Nat
  <2>1. Prompt[r] % H \in Int
    BY <1>0
  <2> QED BY <1>0, <2>1 DEF LastCheckpoint, Max2
<1>2. CoarseCheckpoints(r) \subseteq Nat
  <2>1. LastCheckpoint(r) \div A \in Nat
    BY <1>0, <1>1, Division
  <2>2. \A k \in 1 .. LastCheckpoint(r) \div A : k * A \in Nat
    <3> DEFINE d == LastCheckpoint(r) \div A
    <3> HIDE DEF d
    <3>1. \A k \in 1 .. d : k * A \in Nat
      BY <1>0, Product
    <3> QED BY <3>1 DEF d
  <2> QED BY <2>2 DEF CoarseCheckpoints
<1>3. ahead \in SUBSET Nat /\ \A c \in ahead : computed < c /\ c < computed + n
  BY <1>1, <1>2
<1> DEFINE m == n % H
<1>4. m \in 0 .. n
  <2>1. n \div H \in Nat /\ m \in 0 .. H - 1 /\ n = H * (n \div H) + m
    BY <1>0, Division
  <2> DEFINE x == H * (n \div H)
  <2>2. x \in Nat /\ n = x + m
    <3> DEFINE d == n \div H
    <3>1. d \in Nat
      BY <2>1
    <3> HIDE DEF d
    <3>2. H * d \in Nat
      BY <1>0, <3>1, SMTT(20)
    <3> QED BY <2>1, <3>2 DEF d
  <2> HIDE DEF x, m
  <2> QED BY <1>0, <2>1, <2>2
<1>5. n - m \in 0 .. n
  <2> HIDE DEF m
  <2> QED BY <1>4
<1>6. CASE computed >= Max2(Prompt[r], reqs[r].ntok - 1)
  BY <1>6 DEF AlignedSplit
<1>7. CASE ~(computed >= Max2(Prompt[r], reqs[r].ntok - 1)) /\ ahead # {}
  <2>1. AlignedSplit(r, computed, n) = Min(ahead) - computed
    BY <1>7 DEF AlignedSplit
  <2> DEFINE e == Min(ahead)
  <2>2. e \in ahead
    <3> HIDE DEF ahead
    <3> QED BY <1>3, <1>7, LeastOf
  <2>3. e \in Nat /\ computed < e /\ e < computed + n
    <3> HIDE DEF ahead, e
    <3> QED BY <1>3, <2>2
  <2> HIDE DEF e
  <2>4. e - computed \in 0 .. n
    BY <2>3
  <2> QED BY <2>1, <2>4 DEF e
<1>8. CASE ~(computed >= Max2(Prompt[r], reqs[r].ntok - 1)) /\ ahead = {}
  <2>1. AlignedSplit(r, computed, n) \in {n - (n % H), n}
    BY <1>8 DEF AlignedSplit
  <2> QED BY <1>5, <2>1
<1> QED
  BY <1>6, <1>7, <1>8

-----------------------------------------------------------------------------
(* The initial states.                                                     *)

\* A pool in which all blocks are free.
LEMMA NewPoolOK ==
  ASSUME NEW B \in SUBSET Block, NEW ids \in Queue(Block), ToSet(ids) = B,
         NEW hold, hold = [x \in Holder |-> {}]
  PROVE  PoolOK(NewPool(ids), hold, B)
<1> DEFINE q == NewPool(ids)
<1>0. None \notin Hash /\ None \notin Block /\ <<>> \in Queue(Block) /\ ToSet(<<>>) = {}
  BY QueueAssumption, QueueEmpty
<1>1. q \in QueuePool /\ ~q.raised
  BY <1>0 DEF NewPool, QueuePool
<1>2. Indexed(q)
  <2>1. \A b \in Block, h \in Hash : b \in ToSet(q.cached[h]) <=> q.hash[b] = h
    BY <1>0 DEF NewPool
  <2>2. \A h \in Hash : q.partial[h] = None
    BY DEF NewPool
  <2>3. \A b \in Block : q.pids[b] = {}
    BY DEF NewPool
  <2> HIDE DEF q
  <2> QED BY <2>1, <2>2, <2>3 DEF Indexed
<1>3. Counted(q, hold, B)
  <2>1. \A b \in Block : HoldersOf(hold, b) = {}
    BY DEF HoldersOf
  <2>2. \A b \in Block : q.ref[b] = 0 /\ q.hash[b] = None /\ q.pids[b] = {}
    BY DEF NewPool
  <2>3. q.queue = ids
    BY DEF NewPool
  <2> HIDE DEF q
  <2>4. \A b \in Block : q.ref[b] = Cardinality(HoldersOf(hold, b))
    BY <2>1, <2>2, FS_EmptySet
  <2>5. ToSet(q.queue) = {b \in B : q.ref[b] = 0}
    BY <2>2, <2>3
  <2>6. \A x \in Holder : hold[x] \subseteq B
    OBVIOUS
  <2> QED BY <2>2, <2>4, <2>5, <2>6 DEF Counted
<1>4. hold \in [Holder -> SUBSET Block]
  OBVIOUS
<1> HIDE DEF q
<1>5. PoolOK(q, hold, B)
  BY <1>1, <1>2, <1>3, <1>4 DEF PoolOK
<1> QED
  BY <1>5 DEF q

\* Nobody holds anything in a cache without tables.
LEMMA NoTables ==
  ASSUME NEW c, \A r \in Req : c.attn[r] = NoAttn /\ c.mamba[r] = NoMamba
  PROVE  Holding(c) = [x \in Holder |-> {}]
<1>1. ASSUME NEW x \in Holder PROVE HeldBy(c, x) = {}
  <2>1. x[1] \in Groups /\ x[2] \in Req
    BY DEF Holder
  <2>2. ToSet(<<>>) = {}
    BY QueueEmpty
  <2> QED BY <2>1, <2>2, NoAttnTable, NoMambaTable DEF HeldBy
<1> QED
  BY <1>1 DEF Holding

\* A new KV-cache manager is in order.
LEMMA NewCacheOK ==
  ASSUME NEW B \in SUBSET Block, NEW ids \in Queue(Block), ToSet(ids) = B,
         NEW gold \in BOOLEAN
  PROVE  /\ Sound(NewCache(gold, ids), B)
         /\ \A r \in Req : /\ NewCache(gold, ids).attn[r] = NoAttn
                           /\ NewCache(gold, ids).mamba[r] = NoMamba
<1> DEFINE c == NewCache(gold, ids)
<1>1. /\ c.gold = gold /\ c.pool = NewPool(ids)
      /\ \A r \in Req : c.attn[r] = NoAttn /\ c.mamba[r] = NoMamba
  BY DEF NewCache
<1> DEFINE q == NewPool(ids)
<1>2. PoolOK(q, [x \in Holder |-> {}], B) /\ Holding(c) = [x \in Holder |-> {}]
  <2>1. PoolOK(q, [x \in Holder |-> {}], B)
    <3> DEFINE h == [x \in Holder |-> {}]
    <3> HIDE DEF h
    <3>1. PoolOK(q, h, B)
      BY NewPoolOK DEF h
    <3> QED BY <3>1 DEF h
  <2> HIDE DEF c
  <2> QED BY <1>1, <2>1, NoTables
<1>3. c \in Cache
  <2>1. q \in QueuePool
    BY <1>2 DEF PoolOK
  <2>2. c = [gold |-> gold, pool |-> q, mamba |-> [r \in Req |-> NoMamba],
             attn |-> [r \in Req |-> NoAttn], pend |-> [r \in Req |-> None],
             fresh |-> <<>>, copies |-> <<>>]
    BY DEF NewCache
  <2> HIDE DEF c, q
  <2> QED BY <2>1, <2>2, NoAttnTable, NoMambaTable DEF Cache
<1> HIDE DEF c
<1>4. ASSUME NEW y \in Holder PROVE TableOK(c, y)
  <2>1. PICK r \in Req : y = AttnOf(r) \/ y = MambaOf(r)
    BY HolderCases
  <2>2. TableOK(c, AttnOf(r)) /\ TableOK(c, MambaOf(r))
    BY <1>1, NoAttnTable, NoMambaTable, AttnTableOK, MambaTableOK
  <2> QED BY <2>1, <2>2
<1>5. Sound(c, B)
  <2>1. PoolOK(c.pool, Holding(c), B)
    BY <1>1, <1>2
  <2> QED BY <1>3, <1>4, <2>1 DEF Sound
<1> QED
  BY <1>1, <1>5 DEF c

\* What the engine is started with.
LEMMA SettingsFacts ==
  ASSUME NEW s \in Settings
  PROVE  /\ s.blocks \in SUBSET Block /\ s.gold \in BOOLEAN /\ s.depth \in Nat \ {0}
         /\ s.policy \in {"fcfs", "priority"}
         /\ s.resets => s.blocks = Block
<1>1. s \in [policy : {"fcfs", "priority"}, reserveFull : BOOLEAN, depth : Nat \ {0},
             blocks : SUBSET Block, gold : BOOLEAN, clients : SUBSET Req,
             aborts : SUBSET Req, resets : BOOLEAN]
  BY SettingsAssumption
<1> QED
  BY <1>1, ResetsAssumption

\* A message about nothing, and a step that is not in progress.
LEMMA IdleFacts ==
  /\ NoMsg \in Msg /\ NoMsg.n = 0 /\ NoMsg.kind = None
  /\ Idle \in Step
  /\ Idle.phase = "idle" /\ Idle.i = 0 /\ Idle.budget = 0 /\ Idle.need = 0 /\ Idle.asks = {}
  /\ Idle.order = <<>> /\ Idle.preempted = {} /\ ToSet(Idle.order) = {}
  /\ \A r \in Req : Idle.msg[r] = NoMsg
<1>1. NoMsg \in Msg /\ NoMsg.n = 0 /\ NoMsg.kind = None
  BY DEF NoMsg, Msg
<1>2. ToSet(<<>>) = {}
  BY QueueEmpty
<1> DEFINE msg == [r \in Req |-> NoMsg]
<1>3. msg \in [Req -> Msg] /\ \A r \in Req : msg[r] = NoMsg
  BY <1>1
<1>4. Idle = [phase |-> "idle", i |-> 0, budget |-> 0, need |-> 0, asks |-> {}, order |-> <<>>,
              msg |-> msg, preempted |-> {}]
  BY DEF Idle
<1> HIDE DEF msg
<1>5. Idle \in Step
  BY <1>3, <1>4 DEF Step
<1> QED
  BY <1>1, <1>2, <1>3, <1>4, <1>5

\* The initial states.
LEMMA InitOK == Init => IInv
<1> SUFFICES ASSUME Init PROVE IInv
  OBVIOUS
<1>1. conf \in Settings /\ conf.blocks \in SUBSET Block /\ conf.gold \in BOOLEAN
      /\ conf.depth \in Nat \ {0}
  BY SettingsFacts DEF Init
<1>2. /\ reqs = [r \in Req |-> [status |-> "absent", computed |-> 0, ntok |-> Prompt[r]]]
      /\ running = <<>> /\ waiting = <<>> /\ step = Idle /\ prev = {} /\ ended = {}
      /\ flight = <<>>
  BY DEF Init
<1>3. \A r \in Req : reqs[r].status = "absent" /\ reqs[r].computed = 0 /\ reqs[r].ntok = Prompt[r]
  BY <1>2
<1>4. \A r \in Req : Prompt[r] \in Nat \ {0} /\ MaxOut[r] \in Nat \ {0}
  BY TokensAssumption
<1>5. ListsOK
  <2>1. reqs \in [Req -> [status : {"absent", "waiting", "running", "preempted", "finished"},
                          computed : Nat, ntok : Nat]]
    BY <1>2, <1>4
  <2>2. running \in Seq(Req) /\ waiting \in Seq(Req) /\ ToSet(running) = {} /\ ToSet(waiting) = {}
    BY <1>2, QueueEmpty
  <2> QED BY <1>1, <1>3, <2>1, <2>2 DEF ListsOK
<1>6. NumbersOK
  BY <1>2, <1>3, <1>4, IdleFacts DEF NumbersOK
<1>7. StepOK
  BY <1>2, IdleFacts DEF StepOK
<1>8. ResumesOK
  BY <1>2 DEF ResumesOK
<1>9. PICK ids \in SetToSeqs(conf.blocks) : kv = NewCache(conf.gold, ids)
  BY DEF Init
<1>10. ids \in Queue(conf.blocks) /\ ToSet(ids) = conf.blocks
  BY <1>1, FiniteBlocks, QueueOfSeqs
<1>11. ids \in Queue(Block)
  <2>1. ids \in Seq(conf.blocks)
    BY <1>10 DEF Queue
  <2>2. ids \in Seq(Block)
    BY <1>1, <2>1
  <2> QED BY <1>10, <2>2 DEF Queue
<1>12. /\ Sound(NewCache(conf.gold, ids), conf.blocks)
       /\ \A r \in Req : /\ NewCache(conf.gold, ids).attn[r] = NoAttn
                         /\ NewCache(conf.gold, ids).mamba[r] = NoMamba
  BY <1>1, <1>10, <1>11, NewCacheOK
<1>13. Sound(kv, conf.blocks) /\ \A r \in Req : kv.attn[r] = NoAttn /\ kv.mamba[r] = NoMamba
  BY <1>9, <1>12
<1>14. TablesOK(kv)
  BY <1>3, <1>13 DEF TablesOK
<1>15. flight \in Seq(Output) /\ Len(flight) <= Depth
  <2>1. <<>> \in Seq(Output) /\ Len(<<>>) = 0
    BY EmptySeq
  <2> QED BY <1>1, <1>2, <2>1 DEF Depth
<1> QED
  BY <1>2, <1>5, <1>6, <1>7, <1>8, <1>13, <1>14, <1>15 DEF IInv

-----------------------------------------------------------------------------
(* Steps of the engine.                                                    *)

Status == [status : {"absent", "waiting", "running", "preempted", "finished"},
           computed : Nat, ntok : Nat]

\* The invariant, one fact after the other.
LEMMA InvFacts ==
  ASSUME IInv
  PROVE  /\ conf \in Settings /\ conf.blocks \in SUBSET Block /\ Depth \in Nat \ {0}
         /\ reqs \in [Req -> Status]
         /\ running \in Seq(Req) /\ waiting \in Seq(Req)
         /\ \A r \in Req : /\ r \in ToSet(running) <=> reqs[r].status = "running"
                           /\ r \in ToSet(waiting) <=> reqs[r].status \in {"waiting", "preempted"}
         /\ step \in Step /\ prev \subseteq Req /\ ended \subseteq Req
         /\ flight \in Seq(Output) /\ Len(flight) <= Depth /\ Len(flight) \in Nat
         /\ Sound(kv, conf.blocks) /\ TablesOK(kv) /\ kv \in Cache
<1>1. conf \in Settings
  BY DEF IInv, ListsOK
<1>2. conf.blocks \in SUBSET Block /\ Depth \in Nat \ {0}
  BY <1>1, SettingsFacts DEF Depth
<1>3. /\ reqs \in [Req -> Status]
      /\ running \in Seq(Req) /\ waiting \in Seq(Req)
      /\ \A r \in Req : /\ r \in ToSet(running) <=> reqs[r].status = "running"
                        /\ r \in ToSet(waiting) <=> reqs[r].status \in {"waiting", "preempted"}
  BY DEF IInv, ListsOK, Status
<1>4. step \in Step /\ prev \subseteq Req /\ ended \subseteq Req
  BY DEF IInv, StepOK, ResumesOK
<1>5. flight \in Seq(Output) /\ Len(flight) <= Depth /\ Len(flight) \in Nat
  <2>1. flight \in Seq(Output) /\ Len(flight) <= Depth
    BY DEF IInv
  <2> QED BY <2>1, LenProperties
<1>6. Sound(kv, conf.blocks) /\ TablesOK(kv) /\ kv \in Cache
  BY DEF IInv, Sound
<1> QED
  BY <1>1, <1>2, <1>3, <1>4, <1>5, <1>6

\* The fields of a step and of a request.
LEMMA StepFields ==
  ASSUME NEW s \in Step
  PROVE  /\ s.phase \in {"idle", "running", "waiting", "output"}
         /\ s.i \in Nat /\ s.budget \in Nat /\ s.need \in Nat /\ s.asks \in SUBSET Req
         /\ s.order \in Seq(Req) /\ ToSet(s.order) \subseteq Req /\ Len(s.order) \in Nat
         /\ s.msg \in [Req -> Msg] /\ s.preempted \in SUBSET Req
         /\ \A r \in Req : s.msg[r] \in Msg /\ s.msg[r].n \in Nat /\ s.msg[r].start \in Nat
<1>1. /\ s.phase \in {"idle", "running", "waiting", "output"}
      /\ s.i \in Nat /\ s.budget \in Nat /\ s.need \in Nat /\ s.asks \in SUBSET Req
      /\ s.order \in Seq(Req) /\ s.msg \in [Req -> Msg] /\ s.preempted \in SUBSET Req
  BY DEF Step
<1>2. ToSet(s.order) \subseteq Req /\ Len(s.order) \in Nat
  BY <1>1, Members
<1>3. \A r \in Req : s.msg[r] \in Msg
  BY <1>1
<1>4. \A r \in Req : s.msg[r].n \in Nat /\ s.msg[r].start \in Nat
  BY <1>3 DEF Msg
<1> QED
  BY <1>1, <1>2, <1>3, <1>4
\* The fields of a request.
LEMMA ReqFields ==
  ASSUME NEW f \in [Req -> Status], NEW r \in Req
  PROVE  /\ f[r] \in Status
         /\ f[r].status \in {"absent", "waiting", "running", "preempted", "finished"}
         /\ f[r].computed \in Nat /\ f[r].ntok \in Nat
BY DEF Status

\* A step of schedule() that leaves the lists of the scheduler alone.
Within == UNCHANGED <<conf, reqs, running, waiting, prev, ended, flight>>

\* Such a step keeps what is said of the lists.
LEMMA WithinOK ==
  ASSUME IInv, Within, NumbersOK', StepOK', ResumesOK',
         Sound(kv', conf.blocks), TablesOK(kv)'
  PROVE  IInv'
<1>1. /\ conf' = conf /\ reqs' = reqs /\ running' = running /\ waiting' = waiting
      /\ prev' = prev /\ ended' = ended /\ flight' = flight
  BY DEF Within
<1>2. ListsOK'
  BY <1>1 DEF IInv, ListsOK
<1>3. (ended \subseteq Req)'
  BY <1>1, InvFacts
<1>4. (flight \in Seq(Output) /\ Len(flight) <= Depth)'
  BY <1>1, InvFacts DEF Depth
<1>5. Sound(kv, conf.blocks)'
  BY <1>1
<1> QED
  BY <1>2, <1>3, <1>4, <1>5 DEF IInv

\* One that does not touch the messages either.
Quietly == Within /\ step'.msg = step.msg /\ step'.preempted = step.preempted

\* Such a step keeps what is said of the messages.
LEMMA QuietlyOK ==
  ASSUME IInv, Quietly, StepOK', Sound(kv', conf.blocks), TablesOK(kv)'
  PROVE  IInv'
<1>1. /\ reqs' = reqs /\ prev' = prev
      /\ step'.msg = step.msg /\ step'.preempted = step.preempted
  BY DEF Quietly, Within
<1>2. NumbersOK'
  BY <1>1 DEF IInv, NumbersOK
<1>3. ResumesOK'
  BY <1>1 DEF IInv, ResumesOK
<1> QED
  BY <1>2, <1>3, WithinOK DEF Quietly

\* One that leaves the KV-cache manager alone, too.
LEMMA QuietTables ==
  ASSUME IInv, Within, kv' = kv
  PROVE  Sound(kv', conf.blocks) /\ TablesOK(kv)'
<1>1. reqs' = reqs
  BY DEF Within
<1>2. TablesOK(kv)'
  BY <1>1 DEF IInv, TablesOK
<1> QED
  BY <1>2, InvFacts

\* Moves of the Mamba tables that leave them to the same requests.
LEMMA MovesTables ==
  ASSUME IInv, reqs' = reqs, Sound(kv', conf.blocks), kv'.attn = kv.attn, kv'.pend = kv.pend,
         \A r \in Req : /\ kv'.mamba[r].alloc = kv.mamba[r].alloc
                        /\ kv.mamba[r] = NoMamba => kv'.mamba[r] = NoMamba
  PROVE  TablesOK(kv)'
<1>1. TablesOK(kv)
  BY InvFacts
<1> QED
  BY <1>1 DEF TablesOK

\* schedule() begins.
LEMMA BeginOK == IInv /\ Begin => IInv'
<1> SUFFICES ASSUME IInv, Begin PROVE IInv'
  OBVIOUS
<1>0. /\ step.phase = "idle" /\ Len(flight) < Depth
      /\ kv' = NewStepStarts(kv) /\ Within
      /\ step' = [Idle EXCEPT !.phase = "running", !.i = 1, !.budget = Budget]
  BY DEF Begin, Within
<1>1. step = Idle
  BY <1>0 DEF IInv, StepOK
<1>2. MarksMoved(kv, kv', conf.blocks)
  BY <1>0, InvFacts, NewStepStartsOK
<1>3. /\ step' \in Step /\ step'.phase = "running" /\ step'.i = 1 /\ step'.asks = {}
      /\ step'.order = <<>> /\ step'.msg = step.msg /\ step'.preempted = step.preempted
      /\ step'.need = 0
  <2>1. Budget \in Nat
    BY BudgetAssumption
  <2> QED BY <1>0, <1>1, <2>1, IdleFacts DEF Step
<1>4. StepOK'
  <2>1. Len(step'.order) = 0 /\ ToSet(step'.order) = {}
    BY <1>3, QueueEmpty, EmptySeq
  <2>2. flight' = flight /\ Depth' = Depth
    BY <1>0 DEF Within, Depth
  <2> QED BY <1>0, <1>3, <2>1, <2>2 DEF StepOK
<1>5. TablesOK(kv)'
  BY <1>0, <1>2, MovesTables DEF MarksMoved, Within
<1> QED
  BY <1>0, <1>2, <1>3, <1>4, <1>5, QuietlyOK DEF Quietly, MarksMoved

\* The running loop ends.
LEMMA EndRunningOK == IInv /\ EndRunning => IInv'
<1> SUFFICES ASSUME IInv, EndRunning PROVE IInv'
  OBVIOUS
<1>0. /\ step.phase = "running" /\ kv' = kv /\ Within /\ ~(step.need > 0)
      /\ step' = [step EXCEPT !.phase = IF step.preempted = {} THEN "waiting" ELSE "output"]
  BY DEF EndRunning, InRunningLoop, Within
<1>1. /\ step' \in Step /\ step'.phase = IF step.preempted = {} THEN "waiting" ELSE "output"
      /\ step'.i = step.i /\ step'.budget = step.budget /\ step'.need = step.need
      /\ step'.asks = step.asks /\ step'.order = step.order
      /\ step'.msg = step.msg /\ step'.preempted = step.preempted
  BY <1>0, InvFacts DEF Step
<1>2. StepOK'
  <2>1. flight' = flight /\ Depth' = Depth /\ reqs' = reqs
    BY <1>0 DEF Within, Depth
  <2>2. step.asks = {}
    BY <1>0 DEF IInv, StepOK
  <2> QED BY <1>0, <1>1, <2>1, <2>2 DEF IInv, StepOK
<1> QED
  BY <1>0, <1>1, <1>2, QuietlyOK, QuietTables DEF Quietly

\* The waiting loop ends.
LEMMA EndWaitingOK == IInv /\ EndWaiting => IInv'
<1> SUFFICES ASSUME IInv, EndWaiting PROVE IInv'
  OBVIOUS
<1>0. /\ step.phase = "waiting" /\ kv' = kv /\ Within
      /\ step' = [step EXCEPT !.phase = "output"]
  BY DEF EndWaiting, Within
<1>1. /\ step' \in Step /\ step'.phase = "output"
      /\ step'.i = step.i /\ step'.budget = step.budget /\ step'.need = step.need
      /\ step'.asks = step.asks /\ step'.order = step.order
      /\ step'.msg = step.msg /\ step'.preempted = step.preempted
  BY <1>0, InvFacts DEF Step
<1>2. StepOK'
  <2>1. flight' = flight /\ Depth' = Depth /\ reqs' = reqs
    BY <1>0 DEF Within, Depth
  <2>2. step.asks = {}
    BY <1>0 DEF IInv, StepOK
  <2> QED BY <1>0, <1>1, <2>1, <2>2 DEF IInv, StepOK
<1> QED
  BY <1>0, <1>1, <1>2, QuietlyOK, QuietTables DEF Quietly

\* The next running request asks for no more tokens than it has left.
LEMMA PickOK == IInv /\ Pick => IInv'
<1> SUFFICES ASSUME IInv, Pick PROVE IInv'
  OBVIOUS
<1> DEFINE r == running[step.i]
           n == Tokens(r)
<1>0. /\ step.phase = "running" /\ step.need = 0 /\ kv' = kv /\ Within
      /\ step.need > 0 \/ (step.i <= Len(running) /\ step.budget > 0)
      /\ step' = IF n = 0 THEN [step EXCEPT !.i = @ + 1]
                          ELSE [step EXCEPT !.need = n, !.asks = {r}]
  BY DEF Pick, InRunningLoop, Within
<1>1. step \in Step /\ step.i \in Nat /\ step.budget \in Nat /\ step.need \in Nat
      /\ Len(step.order) \in Nat /\ step.asks \in SUBSET Req
  BY InvFacts, StepFields
<1>2. Len(step.order) + 1 <= step.i
  BY <1>0 DEF IInv, StepOK
<1>3. r \in Req /\ r \in ToSet(running)
  <2>1. step.i \in 1 .. Len(running)
    BY <1>0, <1>1, <1>2, InvFacts, LenProperties
  <2> QED BY <2>1, InvFacts, Members
<1>4. reqs[r].status = "running" /\ reqs[r].computed \in Nat /\ reqs[r].ntok \in Nat
      /\ reqs[r].computed <= reqs[r].ntok
  <2> HIDE DEF r
  <2>1. reqs[r].status = "running"
    BY <1>3, InvFacts
  <2>2. reqs[r].computed \in Nat /\ reqs[r].ntok \in Nat /\ step.msg[r].n \in Nat
    BY <1>1, <1>3, InvFacts, ReqFields, StepFields
  <2>3. reqs[r].computed + step.msg[r].n <= reqs[r].ntok
    BY <1>3 DEF IInv, NumbersOK
  <2> QED BY <2>1, <2>2, <2>3
<1>5. n \in Nat /\ n <= step.budget /\ reqs[r].computed + n <= reqs[r].ntok
  <2> DEFINE k == Min2(reqs[r].ntok - reqs[r].computed, step.budget)
  <2> HIDE DEF r
  <2>1. k \in Nat /\ k <= step.budget /\ k <= reqs[r].ntok - reqs[r].computed
    BY <1>1, <1>4 DEF Min2
  <2>2. n = AlignedSplit(r, reqs[r].computed, k)
    BY DEF Tokens
  <2> HIDE DEF k, n
  <2>3. n \in 0 .. k
    BY <1>3, <1>4, <2>1, <2>2, SplitOK
  <2> QED BY <1>1, <1>4, <2>1, <2>3
<1> HIDE DEF r, n
<1>6. StepOK'
  <2>1. flight' = flight /\ Depth' = Depth /\ reqs' = reqs
    BY <1>0 DEF Within, Depth
  <2>2. StepOK
    BY DEF IInv
  <2>3. CASE n = 0
    <3>1. step' = [step EXCEPT !.i = step.i + 1]
      BY <1>0, <2>3
    <3>2. /\ step' \in Step /\ step'.phase = step.phase
          /\ step'.i = step.i + 1 /\ step'.budget = step.budget /\ step'.need = step.need
          /\ step'.asks = step.asks /\ step'.order = step.order
          /\ step'.msg = step.msg /\ step'.preempted = step.preempted
      <4> DEFINE j == step.i + 1
      <4>1. j \in Nat /\ step' = [step EXCEPT !.i = j]
        BY <1>1, <3>1
      <4> HIDE DEF j
      <4>2. /\ step' \in Step /\ step'.phase = step.phase
            /\ step'.i = j /\ step'.budget = step.budget /\ step'.need = step.need
            /\ step'.asks = step.asks /\ step'.order = step.order
            /\ step'.msg = step.msg /\ step'.preempted = step.preempted
        BY <1>1, <4>1 DEF Step
      <4> QED BY <4>2 DEF j
    <3>3. Len(step'.order) + 1 <= step'.i
      BY <1>1, <1>2, <3>2
    <3> QED BY <1>0, <2>1, <2>2, <3>2, <3>3 DEF StepOK
  <2>4. CASE n # 0
    <3>1. step' = [step EXCEPT !.need = n, !.asks = {r}]
      BY <1>0, <2>4
    <3>2. /\ step' \in Step /\ step'.phase = step.phase
          /\ step'.i = step.i /\ step'.budget = step.budget /\ step'.need = n
          /\ step'.asks = {r} /\ step'.order = step.order
          /\ step'.msg = step.msg /\ step'.preempted = step.preempted
      BY <1>1, <1>3, <1>5, <3>1 DEF Step
    <3>3. step'.need > 0 /\ step'.need <= step'.budget
      BY <1>5, <2>4, <3>2
    <3> QED BY <1>0, <1>4, <1>5, <2>1, <2>2, <3>2, <3>3 DEF StepOK
  <2> QED BY <2>3, <2>4
<1>7. step'.msg = step.msg /\ step'.preempted = step.preempted
  BY <1>0, <1>1 DEF Step
<1> QED
  BY <1>0, <1>6, <1>7, QuietlyOK, QuietTables DEF Quietly

\* The entries that a list has gained.
LEMMA SuffixOK ==
  ASSUME NEW T, NEW new \in Seq(T), NEW U, NEW old \in Seq(U)
  PROVE  Suffix(new, old) \in Seq(T)
<1> DEFINE m == Len(old) + 1
           n == Len(new)
<1>1. m \in Int /\ m >= 1 /\ n \in Int
  BY LenProperties
<1>2. \A i \in 1 .. n : new[i] \in T
  BY Members
<1> HIDE DEF m, n
<1>3. \A i \in m .. n : new[i] \in T
  BY <1>1, <1>2
<1>4. SubSeq(new, m, n) \in Seq(T)
  BY <1>1, <1>3, SubSeqProperties
<1> QED
  BY <1>4 DEF Suffix, m, n

\* The lists of blocks in a message are those of tables.
LEMMA TableLists ==
  ASSUME NEW c \in Cache, NEW r \in Req
  PROVE  c.attn[r].blocks \in Seq(Block) /\ c.mamba[r].blocks \in Seq(Block \cup {Null})
<1>1. c.attn[r] \in AttnTable /\ c.mamba[r] \in MambaTable
  BY CacheFields
<1> QED
  BY <1>1 DEF AttnTable, MambaTable

\* What a running request asks for.
LEMMA AttemptOK ==
  ASSUME IInv, NEW r \in step.asks
  PROVE  /\ Tried(kv, Attempt(r).ok, Attempt(r).kv, r, conf.blocks)
         /\ step.asks = {r} /\ r \in Req /\ r \in ToSet(running) /\ reqs[r].status = "running"
         /\ step.need \in Nat \ {0} /\ step.budget \in Nat /\ step.need <= step.budget
         /\ reqs[r].computed \in Nat /\ reqs[r].ntok \in Nat
         /\ reqs[r].computed + step.need <= reqs[r].ntok
<1>1. step.asks \in SUBSET Req /\ step.need \in Nat /\ step.budget \in Nat
  BY InvFacts, StepFields
<1>2. /\ step.asks = {r} /\ reqs[r].status = "running"
      /\ step.need > 0 /\ step.need <= step.budget
      /\ reqs[r].computed + step.need <= reqs[r].ntok
  BY DEF IInv, StepOK
<1>3. r \in Req
  BY <1>1
<1>4. reqs[r].computed \in Nat /\ reqs[r].ntok \in Nat
  BY <1>3, InvFacts, ReqFields
<1>5. reqs[r].ntok <= Prompt[r] + MaxOut[r]
  <2>1. reqs[r].ntok < Prompt[r] + MaxOut[r]
    BY <1>2, <1>3 DEF IInv, NumbersOK
  <2>2. Prompt[r] \in Nat /\ MaxOut[r] \in Nat
    BY <1>3, TokensAssumption
  <2> QED BY <1>4, <2>1, <2>2
<1>6. TakenHit(kv, r, MissedHit)
  <2>1. kv.pend[r] = None
    BY <1>2, <1>3, InvFacts DEF TablesOK
  <2> QED BY <2>1, MissedOK DEF TakenHit
<1>7. step.need \in Nat \ {0}
  BY <1>1, <1>2
<1> DEFINE n == step.need
           k == reqs[r].ntok
           d == reqs[r].computed
<1>8. Tried(kv, AllocateSlots(kv, r, k, d, n, MissedHit).ok,
            AllocateSlots(kv, r, k, d, n, MissedHit).kv, r, conf.blocks)
  <2>1. conf.blocks \in SUBSET Block /\ Sound(kv, conf.blocks)
    BY InvFacts
  <2>2. n \in Nat \ {0} /\ k \in Nat /\ d \in Nat /\ k <= Prompt[r] + MaxOut[r]
    BY <1>4, <1>5, <1>7
  <2> HIDE DEF n, k, d
  <2> QED BY <1>3, <1>6, <2>1, <2>2, AllocateSlotsOK
<1>9. r \in ToSet(running)
  BY <1>2, <1>3, InvFacts
<1> QED
  BY <1>2, <1>3, <1>4, <1>7, <1>1, <1>8, <1>9 DEF Attempt

\* The tables after r got its blocks.
LEMMA TriedTables ==
  ASSUME IInv, NEW r \in Req, NEW t, NEW ok, Tried(kv, ok, t, r, conf.blocks), ok, kv' = t,
         reqs'[r].status = "running",
         \A s \in Req \ {r} : reqs'[s].status = reqs[s].status
  PROVE  TablesOK(kv)'
<1>1. OnlyOf(kv, t, r) /\ t.pend[r] = None /\ t.mamba[r].alloc
  BY DEF Tried
<1>2. TablesOK(kv)
  BY InvFacts
<1>3. ASSUME NEW s \in Req
      PROVE  IF reqs'[s].status = "running" THEN t.mamba[s].alloc /\ t.pend[s] = None
             ELSE t.attn[s] = NoAttn /\ t.mamba[s] = NoMamba
  BY <1>1, <1>2 DEF TablesOK, OnlyOf
<1> QED
  BY <1>3 DEF TablesOK

\* A running request gets its blocks.
LEMMA ScheduleRunningOK == IInv /\ ScheduleRunning => IInv'
<1> SUFFICES ASSUME IInv, ScheduleRunning PROVE IInv'
  OBVIOUS
<1>0. PICK r \in step.asks : LET try == Attempt(r) IN
      /\ try.ok /\ kv' = try.kv
      /\ step' = [step EXCEPT
            !.i = @ + 1, !.budget = @ - step.need, !.need = 0, !.asks = {},
            !.order = Append(@, r),
            !.msg[r] = [kind  |-> "running", start |-> reqs[r].computed, n |-> step.need,
                        last  |-> reqs[r].computed + step.need = reqs[r].ntok,
                        attn  |-> Suffix(try.kv.attn[r].blocks, kv.attn[r].blocks),
                        mamba |-> Suffix(try.kv.mamba[r].blocks, kv.mamba[r].blocks)]]
  BY DEF ScheduleRunning
<1>1. Within /\ step.phase = "running"
  BY DEF ScheduleRunning, InRunningLoop, Within
<1>2. /\ Tried(kv, Attempt(r).ok, Attempt(r).kv, r, conf.blocks)
      /\ step.asks = {r} /\ r \in Req /\ r \in ToSet(running) /\ reqs[r].status = "running"
      /\ step.need \in Nat \ {0} /\ step.budget \in Nat /\ step.need <= step.budget
      /\ reqs[r].computed \in Nat /\ reqs[r].ntok \in Nat
      /\ reqs[r].computed + step.need <= reqs[r].ntok
  BY AttemptOK
<1> DEFINE m == [kind  |-> "running", start |-> reqs[r].computed, n |-> step.need,
                 last  |-> reqs[r].computed + step.need = reqs[r].ntok,
                 attn  |-> Suffix(kv'.attn[r].blocks, kv.attn[r].blocks),
                 mamba |-> Suffix(kv'.mamba[r].blocks, kv.mamba[r].blocks)]
           j == step.i + 1
           b == step.budget - step.need
           o == Append(step.order, r)
<1>3. step' = [step EXCEPT !.i = j, !.budget = b, !.need = 0, !.asks = {},
                           !.order = o, !.msg[r] = m]
  BY <1>0
<1>4. kv \in Cache /\ kv' \in Cache /\ Sound(kv', conf.blocks)
  BY <1>0, <1>2, InvFacts DEF Tried, Sound
<1>5. m \in Msg /\ m.n = step.need /\ m.kind = "running"
  <2> DEFINE da == Suffix(kv'.attn[r].blocks, kv.attn[r].blocks)
             dm == Suffix(kv'.mamba[r].blocks, kv.mamba[r].blocks)
             l  == reqs[r].computed + step.need = reqs[r].ntok
  <2>1. da \in Seq(Block)
    BY <1>2, <1>4, TableLists, SuffixOK
  <2>2. dm \in Seq(Block \cup {Null})
    BY <1>2, <1>4, TableLists, SuffixOK
  <2>3. l \in BOOLEAN
    OBVIOUS
  <2>4. m = [kind |-> "running", start |-> reqs[r].computed, n |-> step.need, last |-> l,
             attn |-> da, mamba |-> dm]
    OBVIOUS
  <2> HIDE DEF da, dm, l, m
  <2> QED BY <1>2, <2>1, <2>2, <2>3, <2>4 DEF Msg
<1>6. /\ step.i \in Nat /\ step.order \in Seq(Req) /\ Len(step.order) \in Nat
      /\ step \in Step /\ step.msg \in [Req -> Msg]
  BY InvFacts, StepFields
<1>7. /\ j \in Nat /\ b \in Nat /\ o \in Seq(Req) /\ Len(o) + 1 <= j
      /\ ToSet(o) = ToSet(step.order) \cup {r}
  <2>1. j \in Nat /\ b \in Nat
    BY <1>2, <1>6
  <2>2. o \in Seq(Req) /\ ToSet(o) = ToSet(step.order) \cup {r}
    BY <1>2, <1>6, MembersAppend
  <2>3. Len(o) = Len(step.order) + 1
    BY <1>2, <1>6, AppendProperties
  <2>4. Len(step.order) + 1 <= step.i
    BY <1>1 DEF IInv, StepOK
  <2> QED BY <1>6, <2>1, <2>2, <2>3, <2>4
<1> HIDE DEF m, j, b, o
<1>8. /\ step' \in Step /\ step'.phase = "running" /\ step'.i = j /\ step'.budget = b
      /\ step'.need = 0 /\ step'.asks = {} /\ step'.order = o
      /\ step'.msg = [step.msg EXCEPT ![r] = m] /\ step'.preempted = step.preempted
  <2> DEFINE ms == [step.msg EXCEPT ![r] = m]
  <2>1. ms \in [Req -> Msg]
    BY <1>5, <1>6
  <2>2. step' = [step EXCEPT !.i = j, !.budget = b, !.need = 0, !.asks = {},
                             !.order = o, !.msg = ms]
    BY <1>3, <1>6 DEF Step
  <2> HIDE DEF ms
  <2>3. /\ step' \in Step /\ step'.phase = "running" /\ step'.i = j /\ step'.budget = b
        /\ step'.need = 0 /\ step'.asks = {} /\ step'.order = o
        /\ step'.msg = ms /\ step'.preempted = step.preempted
    BY <1>1, <1>6, <1>7, <2>1, <2>2 DEF Step
  <2> QED BY <2>3 DEF ms
<1>9. step'.msg[r] = m /\ \A s \in Req \ {r} : step'.msg[s] = step.msg[s]
  BY <1>2, <1>6, <1>8
<1>10. StepOK'
  <2>1. flight' = flight /\ Depth' = Depth /\ reqs' = reqs
    BY <1>1 DEF Within, Depth
  <2>2. StepOK
    BY DEF IInv
  <2> QED BY <1>1, <1>2, <1>7, <1>8, <2>1, <2>2 DEF StepOK
<1>11. NumbersOK'
  <2>1. reqs' = reqs
    BY <1>1 DEF Within
  <2> QED BY <1>2, <1>5, <1>9, <2>1 DEF IInv, NumbersOK
<1>12. ResumesOK'
  <2>1. reqs' = reqs /\ prev' = prev
    BY <1>1 DEF Within
  <2> QED BY <1>2, <1>5, <1>8, <1>9, <2>1 DEF IInv, ResumesOK
<1>13. TablesOK(kv)'
  <2> DEFINE t == Attempt(r).kv
             ok == Attempt(r).ok
  <2>1. Tried(kv, ok, t, r, conf.blocks) /\ ok /\ kv' = t /\ reqs' = reqs
    BY <1>0, <1>1, <1>2 DEF Within
  <2> HIDE DEF t, ok
  <2> QED BY <1>2, <2>1, TriedTables
<1> QED
  BY <1>1, <1>4, <1>10, <1>11, <1>12, <1>13, WithinOK

\* Among some requests one has the lowest priority, and one the highest.
LEMMA RankedRequests ==
  ASSUME NEW S \in SUBSET Req, S # {}
  PROVE  /\ \E r \in S : \A q \in S : Rank[q] <= Rank[r]
         /\ \E r \in S : \A q \in S : Rank[r] <= Rank[q]
<1>1. IsFiniteSet(S) /\ \A r \in S : Rank[r] \in Int
  BY RequestsAssumption, FS_Subset
<1> DEFINE f == [r \in S |-> Rank[r]]
<1>2. f \in [S -> Int] /\ \A r \in S : f[r] = Rank[r]
  BY <1>1
<1> HIDE DEF f
<1>3. \E r \in S : \A q \in S : f[q] <= f[r]
  BY <1>1, <1>2, GreatestOf
<1>4. \E r \in S : \A q \in S : f[r] <= f[q]
  BY <1>1, <1>2, SmallestOf
<1> QED
  BY <1>2, <1>3, <1>4

\* The victim is a running request.
LEMMA VictimOK ==
  ASSUME IInv, ToSet(running) # {}
  PROVE  Victim \in ToSet(running) /\ Victim \in Req
<1>1. running \in Seq(Req) /\ ToSet(running) \in SUBSET Req
  BY InvFacts, Members
<1>2. CASE Policy = "priority"
  <2>1. \E r \in ToSet(running) : \A q \in ToSet(running) : Rank[q] <= Rank[r]
    BY <1>1, RankedRequests
  <2>2. Victim = CHOOSE r \in ToSet(running) : \A q \in ToSet(running) : Rank[q] <= Rank[r]
    BY <1>2 DEF Victim
  <2> QED BY <1>1, <2>1, <2>2
<1>3. CASE Policy # "priority"
  <2>1. Victim = running[Len(running)]
    BY <1>3 DEF Victim, Last
  <2>2. Len(running) \in 1 .. Len(running)
    <3>1. PICK x \in ToSet(running) : TRUE
      OBVIOUS
    <3>2. PICK i \in 1 .. Len(running) : running[i] = x
      BY <1>1, Members
    <3> QED BY <1>1, <3>2, LenProperties
  <2> QED BY <1>1, <2>1, <2>2, Members
<1> QED
  BY <1>2, <1>3

\* The request whose turn it is waits.
LEMMA CandidateWaits ==
  ASSUME IInv, waiting # <<>>
  PROVE  Candidate \in ToSet(waiting) /\ Candidate \in Req
<1>1. waiting \in Seq(Req) /\ ToSet(waiting) \in SUBSET Req /\ Len(waiting) \in Nat
  BY InvFacts, Members
<1>2. 1 \in 1 .. Len(waiting)
  <2>1. Len(waiting) # 0
    BY <1>1, EmptySeq
  <2> QED BY <1>1, <2>1
<1>3. waiting[1] \in ToSet(waiting)
  BY <1>1, <1>2, Members
<1>4. CASE Policy = "priority"
  <2>1. \E r \in ToSet(waiting) : \A q \in ToSet(waiting) : Rank[r] <= Rank[q]
    BY <1>1, <1>3, RankedRequests
  <2>2. Candidate = CHOOSE r \in ToSet(waiting) : \A q \in ToSet(waiting) : Rank[r] <= Rank[q]
    BY <1>4 DEF Candidate
  <2> QED BY <1>1, <2>1, <2>2
<1>5. CASE Policy # "priority"
  <2>1. Candidate = waiting[1]
    BY <1>5 DEF Candidate, Head
  <2> QED BY <1>1, <1>3, <2>1
<1> QED
  BY <1>4, <1>5

\* A preemption: the victim v, the attempt of r that failed, and what follows.
Preempts(r, v) ==
  /\ ~Attempt(r).ok /\ kv' = Free(Attempt(r).kv, v)
  /\ running' = Among(running, Req \ {v})
  /\ waiting' = <<v>> \o waiting
  /\ reqs' = [reqs EXCEPT ![v].status = "preempted", ![v].computed = 0]
  /\ step' = [step EXCEPT
       !.phase     = IF v = r THEN "output" ELSE @,
       !.need      = IF v = r THEN 0 ELSE @,
       !.asks      = @ \ {v},
       !.i         = IF Contains(step.order, v) THEN @ - 1 ELSE @,
       !.budget    = @ + step.msg[v].n,
       !.order     = Among(@, Req \ {v}),
       !.msg[v]    = NoMsg,
       !.preempted = @ \cup {v}]

\* It is one of those.
LEMMA PreemptsOK ==
  ASSUME Preempt
  PROVE  \E r \in step.asks : Preempts(r, Victim)
<1>1. PICK r \in step.asks :
   LET due == Contains(step.order, Victim)
   IN  \E try \in {Attempt(r)} :
       /\ ~try.ok
       /\ kv' = Free(try.kv, Victim)
       /\ running' = Among(running, Req \ {Victim})
       /\ waiting' = <<Victim>> \o waiting
       /\ reqs' = [reqs EXCEPT ![Victim].status = "preempted", ![Victim].computed = 0]
       /\ step' = [step EXCEPT
            !.phase       = IF Victim = r THEN "output" ELSE @,
            !.need        = IF Victim = r THEN 0 ELSE @,
            !.asks        = @ \ {Victim},
            !.i           = IF due THEN @ - 1 ELSE @,
            !.budget      = @ + step.msg[Victim].n,
            !.order       = Among(@, Req \ {Victim}),
            !.msg[Victim] = NoMsg,
            !.preempted   = @ \cup {Victim}]
  BY DEF Preempt
<1>2. Preempts(r, Victim)
  BY <1>1 DEF Preempts
<1> QED
  BY <1>2

\* The tables behind it.
LEMMA PreemptTables ==
  ASSUME IInv, NEW r \in step.asks, NEW v \in Req,
         ~Attempt(r).ok, kv' = Free(Attempt(r).kv, v),
         reqs'[v].status = "preempted",
         \A s \in Req \ {v} : reqs'[s].status = reqs[s].status
  PROVE  Sound(kv', conf.blocks) /\ TablesOK(kv)'
<1> DEFINE t  == Attempt(r).kv
           ok == Attempt(r).ok
<1>1. Tried(kv, ok, t, r, conf.blocks) /\ r \in Req /\ reqs[r].status = "running" /\ ~ok
      /\ kv' = Free(t, v)
  BY AttemptOK
<1> HIDE DEF t, ok
<1>2. Freed(t, kv', v, conf.blocks)
  <2>1. conf.blocks \in SUBSET Block /\ Sound(t, conf.blocks)
    BY <1>1, InvFacts DEF Tried
  <2> QED BY <1>1, <2>1, FreeOK
<1>3. /\ OnlyOf(kv, t, r) /\ t.pend[r] = None /\ t.mamba[r].alloc = kv.mamba[r].alloc
      /\ OnlyOf(t, kv', v) /\ kv'.attn[v] = NoAttn /\ kv'.mamba[v] = NoMamba
  BY <1>1, <1>2 DEF Tried, Freed
<1>4. TablesOK(kv)
  BY InvFacts
<1>5. ASSUME NEW s \in Req
      PROVE  IF reqs'[s].status = "running" THEN kv'.mamba[s].alloc /\ kv'.pend[s] = None
             ELSE kv'.attn[s] = NoAttn /\ kv'.mamba[s] = NoMamba
  <2>1. CASE s = v
    BY <1>3, <2>1
  <2>2. CASE s # v
    <3>1. /\ kv'.attn[s] = t.attn[s] /\ kv'.mamba[s] = t.mamba[s] /\ kv'.pend[s] = t.pend[s]
          /\ reqs'[s].status = reqs[s].status
      BY <1>3, <2>2 DEF OnlyOf
    <3>2. CASE s = r
      BY <1>1, <1>3, <1>4, <3>1, <3>2 DEF TablesOK
    <3>3. CASE s # r
      <4>1. /\ t.attn[s] = kv.attn[s] /\ t.mamba[s] = kv.mamba[s] /\ t.pend[s] = kv.pend[s]
        BY <1>3, <3>3 DEF OnlyOf
      <4> QED BY <1>4, <3>1, <4>1 DEF TablesOK
    <3> QED BY <3>2, <3>3
  <2> QED BY <2>1, <2>2
<1> QED
  BY <1>2, <1>5 DEF TablesOK, Freed

\* The lists behind it.
LEMMA PreemptLists ==
  ASSUME IInv, NEW v \in ToSet(running), v \in Req, conf' = conf,
         running' = Among(running, Req \ {v}), waiting' = <<v>> \o waiting,
         reqs' = [reqs EXCEPT ![v].status = "preempted", ![v].computed = 0]
  PROVE  /\ ListsOK'
         /\ reqs'[v].status = "preempted" /\ reqs'[v].computed = 0 /\ reqs'[v].ntok = reqs[v].ntok
         /\ \A s \in Req \ {v} : reqs'[s] = reqs[s]
<1>1. /\ conf \in Settings /\ reqs \in [Req -> Status]
      /\ running \in Seq(Req) /\ waiting \in Seq(Req)
      /\ \A r \in Req : /\ r \in ToSet(running) <=> reqs[r].status = "running"
                        /\ r \in ToSet(waiting) <=> reqs[r].status \in {"waiting", "preempted"}
  BY InvFacts
<1>2. /\ reqs'[v].status = "preempted" /\ reqs'[v].computed = 0 /\ reqs'[v].ntok = reqs[v].ntok
      /\ \A s \in Req \ {v} : reqs'[s] = reqs[s]
      /\ reqs' \in [Req -> Status]
  BY <1>1 DEF Status
<1>3. running' \in Seq(Req) /\ ToSet(running') = ToSet(running) \ {v}
  <2>1. ToSet(running) \subseteq Req
    BY <1>1, Members
  <2>2. running' \in Seq(Req) /\ ToSet(running') = ToSet(running) \cap (Req \ {v})
    BY <1>1, AmongMembers
  <2> QED BY <2>1, <2>2
<1>4. waiting' \in Seq(Req) /\ ToSet(waiting') = {v} \cup ToSet(waiting)
  <2> DEFINE w == <<v>>
  <2>1. w \in Seq(Req) /\ ToSet(w) = {v} /\ waiting' = w \o waiting
    BY QueueOne DEF Queue
  <2> HIDE DEF w
  <2> QED BY <1>1, <2>1, MembersConcat
<1>5. \A r \in Req : /\ r \in ToSet(running') <=> reqs'[r].status = "running"
                     /\ r \in ToSet(waiting') <=> reqs'[r].status \in {"waiting", "preempted"}
  BY <1>1, <1>2, <1>3, <1>4
<1>6. ListsOK'
  BY <1>1, <1>2, <1>3, <1>4, <1>5 DEF ListsOK, Status
<1> QED
  BY <1>2, <1>6

\* The step behind it.
LEMMA PreemptStep ==
  ASSUME IInv, NEW r \in step.asks, NEW v \in Req, step.phase = "running", Preempts(r, v)
  PROVE  /\ step' \in Step
         /\ step'.phase = (IF v = r THEN "output" ELSE "running")
         /\ step'.need = (IF v = r THEN 0 ELSE step.need)
         /\ step'.asks = step.asks \ {v}
         /\ Len(step'.order) + 1 <= step'.i
         /\ step'.budget \in Nat /\ step.budget <= step'.budget
         /\ ToSet(step'.order) = ToSet(step.order) \ {v}
         /\ step'.msg[v] = NoMsg /\ \A s \in Req \ {v} : step'.msg[s] = step.msg[s]
         /\ step'.preempted = step.preempted \cup {v}
<1>1. /\ step \in Step /\ step.i \in Nat /\ step.budget \in Nat /\ step.need \in Nat
      /\ step.asks \in SUBSET Req /\ step.order \in Seq(Req) /\ Len(step.order) \in Nat
      /\ ToSet(step.order) \subseteq Req
      /\ step.msg \in [Req -> Msg] /\ step.preempted \in SUBSET Req
      /\ step.msg[v].n \in Nat
  BY InvFacts, StepFields
<1>2. Len(step.order) + 1 <= step.i
  BY DEF IInv, StepOK
<1> DEFINE ph == IF v = r THEN "output" ELSE "running"
           k  == IF v = r THEN 0 ELSE step.need
           as == step.asks \ {v}
           j  == IF Contains(step.order, v) THEN step.i - 1 ELSE step.i
           b  == step.budget + step.msg[v].n
           o  == Among(step.order, Req \ {v})
           ms == [step.msg EXCEPT ![v] = NoMsg]
           p  == step.preempted \cup {v}
<1>3. step' = [step EXCEPT !.phase = ph, !.need = k, !.asks = as, !.i = j, !.budget = b,
                           !.order = o, !.msg = ms, !.preempted = p]
  BY <1>1 DEF Step, Preempts
<1>4. ph \in {"idle", "running", "waiting", "output"} /\ k \in Nat /\ as \in SUBSET Req
      /\ b \in Nat /\ step.budget <= b /\ p \in SUBSET Req
  BY <1>1
<1>5. ms \in [Req -> Msg] /\ ms[v] = NoMsg /\ \A s \in Req \ {v} : ms[s] = step.msg[s]
  BY <1>1, IdleFacts
<1>6. /\ o \in Seq(Req) /\ ToSet(o) = ToSet(step.order) \ {v} /\ Len(o) \in Nat
      /\ Len(o) <= Len(step.order)
      /\ v \in ToSet(step.order) => Len(o) + 1 <= Len(step.order)
  <2>1. o \in Seq(Req) /\ ToSet(o) = ToSet(step.order) \cap (Req \ {v})
    BY <1>1, AmongMembers
  <2>2. Len(o) \in Nat /\ Len(o) <= Len(step.order)
        /\ (~(ToSet(step.order) \subseteq Req \ {v}) => Len(o) + 1 <= Len(step.order))
    BY <1>1, AmongSize
  <2> QED BY <1>1, <2>1, <2>2
<1>7. j \in Nat /\ Len(o) + 1 <= j
  <2> DEFINE i  == step.i
             n  == Len(step.order)
             n2 == Len(o)
             in == v \in ToSet(step.order)
  <2>1. i \in Nat /\ n \in Nat /\ n2 \in Nat /\ n + 1 <= i /\ n2 <= n /\ (in => n2 + 1 <= n)
    BY <1>1, <1>2, <1>6
  <2>2. Contains(step.order, v) <=> in
    BY <1>1, ContainsMember
  <2>3. j = IF in THEN i - 1 ELSE i
    BY <2>2
  <2> HIDE DEF i, n, n2, in, j, o
  <2>4. j \in Nat /\ n2 + 1 <= j
    BY <2>1, <2>3
  <2> QED BY <2>4 DEF n2
<1> HIDE DEF k, as, j, b, o, ms, p, ph
<1>8. /\ step' \in Step /\ step'.phase = ph /\ step'.need = k /\ step'.asks = as /\ step'.i = j
      /\ step'.budget = b /\ step'.order = o /\ step'.msg = ms /\ step'.preempted = p
  BY <1>1, <1>3, <1>4, <1>5, <1>6, <1>7 DEF Step
<1>9. Len(step'.order) + 1 <= step'.i /\ ToSet(step'.order) = ToSet(step.order) \ {v}
  BY <1>6, <1>7, <1>8
<1>10. step'.budget \in Nat /\ step.budget <= step'.budget
  BY <1>4, <1>8
<1>11. step'.msg[v] = NoMsg /\ \A s \in Req \ {v} : step'.msg[s] = step.msg[s]
  BY <1>5, <1>8
<1> QED
  BY <1>8, <1>9, <1>10, <1>11 DEF k, as, p, ph

\* The victim gives its blocks back and waits again.
LEMMA PreemptOK == IInv /\ Preempt => IInv'
<1> SUFFICES ASSUME IInv, Preempt PROVE IInv'
  OBVIOUS
<1> DEFINE v == Victim
<1>1. PICK r \in step.asks : Preempts(r, v)
  BY PreemptsOK
<1>2. /\ step.phase = "running"
      /\ conf' = conf /\ prev' = prev /\ ended' = ended /\ flight' = flight
  BY DEF Preempt, InRunningLoop
<1>3. r \in Req /\ r \in ToSet(running) /\ reqs[r].status = "running"
      /\ step.asks = {r} /\ step.need \in Nat \ {0} /\ step.budget \in Nat
      /\ step.need <= step.budget /\ reqs[r].computed + step.need <= reqs[r].ntok
  BY AttemptOK
<1>4. v \in ToSet(running) /\ v \in Req
  BY <1>3, VictimOK
<1>5. reqs[v].status = "running"
  BY <1>4, InvFacts
<1> HIDE DEF v
<1>6. /\ ListsOK'
      /\ reqs'[v].status = "preempted" /\ reqs'[v].computed = 0 /\ reqs'[v].ntok = reqs[v].ntok
      /\ \A s \in Req \ {v} : reqs'[s] = reqs[s]
  BY <1>1, <1>2, <1>4, PreemptLists DEF Preempts
<1>7. /\ step' \in Step
      /\ step'.phase = (IF v = r THEN "output" ELSE "running")
      /\ step'.need = (IF v = r THEN 0 ELSE step.need)
      /\ step'.asks = step.asks \ {v}
      /\ Len(step'.order) + 1 <= step'.i
      /\ step'.budget \in Nat /\ step.budget <= step'.budget
      /\ ToSet(step'.order) = ToSet(step.order) \ {v}
      /\ step'.msg[v] = NoMsg /\ \A s \in Req \ {v} : step'.msg[s] = step.msg[s]
      /\ step'.preempted = step.preempted \cup {v}
  BY <1>1, <1>2, <1>4, PreemptStep
<1>8. Sound(kv', conf.blocks) /\ TablesOK(kv)'
  BY <1>1, <1>4, <1>6, PreemptTables DEF Preempts
<1>9. NumbersOK'
  <2>1. NumbersOK
    BY DEF IInv
  <2>2. reqs[v].ntok \in Nat
    BY <1>4, InvFacts, ReqFields
  <2> QED BY <1>4, <1>5, <1>6, <1>7, <2>1, <2>2, IdleFacts DEF NumbersOK
<1>10. StepOK'
  <2>1. StepOK /\ Depth' = Depth
    BY <1>2 DEF IInv, Depth
  <2>2. Len(flight') < Depth'
    BY <1>2, <2>1 DEF StepOK
  <2>3. \A s \in ToSet(step'.order) : reqs'[s].status = "running"
    <3>1. ToSet(step.order) \subseteq Req
      BY InvFacts, StepFields
    <3> QED BY <1>6, <1>7, <2>1, <3>1 DEF StepOK
  <2>4. ASSUME NEW s \in step'.asks
        PROVE  /\ step'.phase = "running" /\ step'.asks = {s} /\ reqs'[s].status = "running"
               /\ step'.need > 0 /\ step'.need <= step'.budget
               /\ reqs'[s].computed + step'.need <= reqs'[s].ntok
    <3>1. s = r /\ v # r /\ step'.asks = {r} /\ step'.need = step.need /\ reqs'[r] = reqs[r]
      BY <1>3, <1>6, <1>7
    <3>2. step.need > 0 /\ step.need <= step'.budget
      BY <1>3, <1>7
    <3>3. step'.phase = "running"
      BY <1>7, <3>1
    <3> QED BY <1>3, <3>1, <3>2, <3>3
  <2>5. step'.phase # "idle" /\ step'.phase # "waiting"
    BY <1>7
  <2> QED BY <1>7, <2>2, <2>3, <2>4, <2>5 DEF StepOK
<1>11. ResumesOK'
  <2>1. ResumesOK
    BY DEF IInv
  <2>2. NoMsg.kind # "resumed"
    BY IdleFacts, KindsAssumption
  <2> QED BY <1>2, <1>6, <1>7, <2>1, <2>2 DEF ResumesOK
<1>12. (ended \subseteq Req)' /\ (flight \in Seq(Output) /\ Len(flight) <= Depth)'
  BY <1>2, InvFacts DEF Depth
<1>13. Sound(kv, conf.blocks)'
  BY <1>2, <1>8
<1> QED
  BY <1>6, <1>8, <1>9, <1>10, <1>11, <1>12, <1>13 DEF IInv

\* The copies of t are as safe as those of c, where the new blocks are bare.
Safer(c, t) ==
  /\ FreshBare(c) => FreshBare(t)
  /\ FreshBare(c) /\ CopiesSafe(c) => CopiesSafe(t)

\* The request a.r and its tables in a.kv, admitted or held back.
Admitted(a) ==
  /\ a.r \in Req /\ a.r \in ToSet(waiting)
  /\ a.start \in Nat /\ a.n \in Nat
  /\ a.n <= step.budget /\ a.start + a.n <= reqs[a.r].ntok
  /\ Sound(a.kv, conf.blocks) /\ OnlyOf(kv, a.kv, a.r)
  /\ a.ok => a.kv.mamba[a.r].alloc /\ a.kv.pend[a.r] = None
  /\ ~a.ok => a.kv.attn[a.r] = NoAttn /\ a.kv.mamba[a.r] = NoMamba
  /\ Safer(kv, a.kv)

\* A Mamba table that is not allocated is empty.
LEMMA NotAllocated ==
  ASSUME NEW t, NEW r \in Req, NEW B \in SUBSET Block, Sound(t, B),
         t.mamba[r].alloc = NoMamba.alloc
  PROVE  t.mamba[r] = NoMamba
<1>1. MambaOK(t.pool, Holding(t), r, t.mamba[r])
  BY MambaFacts
<1>2. ~t.mamba[r].alloc
  BY DEF NoMamba
<1> QED
  BY <1>1, <1>2 DEF MambaOK, Placed

\* The attempt to admit the request whose turn it is.
LEMMA AdmissionOK ==
  ASSUME IInv, waiting # <<>>
  PROVE  Admitted(Admission)
<1> DEFINE r     == Candidate
           ntok  == reqs[r].ntok
           hit   == Lookup(kv, r, ntok)
           asked == ComputedBlocks(kv, r, hit)
           left  == Min2(ntok - hit.len, step.budget)
           n     == AlignedSplit(r, hit.len, left)
           fits  == ~ReserveFull \/ CanFit(asked, r, ntok, hit)
           new   == AllocateSlots(asked, r, ntok, 0, n, hit)
           try   == IF n > 0 /\ fits THEN new ELSE [ok |-> FALSE, kv |-> asked]
           a     == [r |-> r, start |-> hit.len, n |-> n, ok |-> try.ok, kv |-> try.kv]
           B     == conf.blocks
<1>1. a = Admission
  BY DEF Admission, AdmissionBehind
<1>2. r \in ToSet(waiting) /\ r \in Req
  BY CandidateWaits
<1>3. B \in SUBSET Block /\ Sound(kv, B) /\ step.budget \in Nat
  BY InvFacts, StepFields
<1> HIDE DEF r, B
<1>4. kv.attn[r] = NoAttn /\ kv.mamba[r] = NoMamba /\ reqs[r].status # "finished"
  <2>1. reqs[r].status \in {"waiting", "preempted"} /\ TablesOK(kv)
    BY <1>2, InvFacts
  <2> QED BY <1>2, <2>1 DEF TablesOK
<1>5. ntok \in Nat \ {0} /\ ntok <= Prompt[r] + MaxOut[r]
  <2>1. Prompt[r] <= ntok /\ ntok < Prompt[r] + MaxOut[r]
    BY <1>2, <1>4 DEF IInv, NumbersOK
  <2>2. ntok \in Nat /\ Prompt[r] \in Nat \ {0} /\ MaxOut[r] \in Nat
    BY <1>2, InvFacts, ReqFields, TokensAssumption
  <2> HIDE DEF ntok
  <2> QED BY <2>1, <2>2
<1> HIDE DEF ntok
<1>6. FoundHit(kv, r, ntok, hit)
  BY <1>2, <1>3, <1>5, LookupOK
<1> HIDE DEF hit
<1>7. GoodHit(kv.pool, r, hit) /\ hit.len < ntok /\ hit.len \in Nat
  BY <1>6 DEF FoundHit, GoodHit
<1>8. Asked(kv, asked, r, hit, B)
  BY <1>2, <1>3, <1>4, <1>7, AskedOK
<1> HIDE DEF asked
<1>9. /\ Sound(asked, B) /\ OnlyOf(kv, asked, r) /\ TakenHit(asked, r, hit)
      /\ asked.attn[r] = NoAttn /\ asked.mamba[r] = NoMamba /\ Safer(kv, asked)
  <2>1. Keeps(kv, asked, r) /\ kv \in Cache
    BY <1>3, <1>8, SoundFacts DEF Asked
  <2>2. Lays(kv, asked, r)
    BY <1>2, <2>1, KeepsLays
  <2> QED BY <1>4, <1>8, <2>2 DEF Asked, Lays, Safer
<1>10. n \in Nat /\ n <= step.budget /\ hit.len + n <= ntok
  <2>1. left \in Nat /\ left <= step.budget /\ left <= ntok - hit.len
    BY <1>3, <1>5, <1>7 DEF Min2
  <2> HIDE DEF left
  <2>2. n \in 0 .. left
    BY <1>2, <1>7, <2>1, SplitOK
  <2> HIDE DEF n
  <2> QED BY <1>3, <1>5, <1>7, <2>1, <2>2
<1> HIDE DEF n
<1>11. /\ Sound(try.kv, B) /\ OnlyOf(kv, try.kv, r)
       /\ try.ok => try.kv.mamba[r].alloc /\ try.kv.pend[r] = None
       /\ ~try.ok => try.kv.attn[r] = NoAttn /\ try.kv.mamba[r] = NoMamba
       /\ Safer(kv, try.kv)
  <2>1. CASE n > 0 /\ fits
    <3>1. n \in Nat \ {0} /\ 0 \in Nat /\ ntok \in Nat
      BY <1>5, <1>10, <2>1
    <3> DEFINE ok == new.ok
               t  == new.kv
    <3>2. Tried(asked, ok, t, r, B)
      BY <1>2, <1>3, <1>5, <1>9, <3>1, AllocateSlotsOK
    <3>3. try.ok = ok /\ try.kv = t
      BY <2>1
    <3> HIDE DEF ok, t, try
    <3>4. Sound(t, B) /\ OnlyOf(asked, t, r) /\ (ok => t.mamba[r].alloc /\ t.pend[r] = None)
      BY <3>2 DEF Tried
    <3>5. OnlyOf(kv, t, r)
      BY <1>9, <3>4, OnlyOfOn
    <3>6. ~ok => t.attn[r] = NoAttn /\ t.mamba[r] = NoMamba
      <4>1. ~ok => t.attn[r] = NoAttn /\ t.mamba[r].alloc = NoMamba.alloc
        BY <1>9, <3>2 DEF Tried
      <4> QED BY <1>2, <1>3, <3>4, <4>1, NotAllocated
    <3>7. Safer(kv, t)
      BY <1>9, <3>2 DEF Tried, Lays, Safer
    <3> QED BY <3>3, <3>4, <3>5, <3>6, <3>7
  <2>2. CASE ~(n > 0 /\ fits)
    <3>1. try.ok = FALSE /\ try.kv = asked
      BY <2>2
    <3> HIDE DEF try
    <3> QED BY <1>9, <3>1
  <2> QED BY <2>1, <2>2
<1> HIDE DEF try
<1>12. a.r = r /\ a.start = hit.len /\ a.n = n /\ a.ok = try.ok /\ a.kv = try.kv
  OBVIOUS
<1> HIDE DEF a
<1>13. Admitted(a)
  BY <1>2, <1>7, <1>10, <1>11, <1>12 DEF Admitted, B, ntok
<1> QED
  BY <1>1, <1>13

\* The request whose turn it is stays where it is.
LEMMA HoldBackOK == IInv /\ HoldBack => IInv'
<1> SUFFICES ASSUME IInv, HoldBack PROVE IInv'
  OBVIOUS
<1>0. /\ step.phase = "waiting" /\ waiting # <<>> /\ Within
      /\ step' = [step EXCEPT !.phase = "output"]
  BY DEF HoldBack, InWaitingLoop, Within
<1>1. ~Admission.ok /\ kv' = Admission.kv
  BY DEF HoldBack
<1> DEFINE a == Admission
<1>2. Admitted(a) /\ ~a.ok /\ kv' = a.kv
  BY <1>0, <1>1, AdmissionOK
<1> HIDE DEF a
<1>3. /\ step' \in Step /\ step'.phase = "output"
      /\ step'.i = step.i /\ step'.budget = step.budget /\ step'.need = step.need
      /\ step'.asks = step.asks /\ step'.order = step.order
      /\ step'.msg = step.msg /\ step'.preempted = step.preempted
  BY <1>0, InvFacts DEF Step
<1>4. StepOK'
  <2>1. flight' = flight /\ Depth' = Depth /\ reqs' = reqs
    BY <1>0 DEF Within, Depth
  <2>2. step.asks = {}
    BY <1>0 DEF IInv, StepOK
  <2> QED BY <1>0, <1>3, <2>1, <2>2 DEF IInv, StepOK
<1>5. Sound(kv', conf.blocks)
  BY <1>2 DEF Admitted
<1>6. TablesOK(kv)'
  <2>1. reqs' = reqs /\ TablesOK(kv)
    BY <1>0, InvFacts DEF Within
  <2>2. /\ OnlyOf(kv, kv', a.r) /\ kv'.attn[a.r] = NoAttn /\ kv'.mamba[a.r] = NoMamba
        /\ a.r \in Req /\ reqs[a.r].status # "running"
    <3>1. a.r \in Req /\ a.r \in ToSet(waiting)
      BY <1>2 DEF Admitted
    <3>2. reqs[a.r].status # "running"
      BY <3>1, InvFacts
    <3> QED BY <1>2, <3>1, <3>2 DEF Admitted
  <2>3. ASSUME NEW s \in Req
        PROVE  IF reqs[s].status = "running" THEN kv'.mamba[s].alloc /\ kv'.pend[s] = None
               ELSE kv'.attn[s] = NoAttn /\ kv'.mamba[s] = NoMamba
    <3>1. CASE s = a.r
      BY <2>2, <3>1
    <3>2. CASE s # a.r
      <4>1. kv'.attn[s] = kv.attn[s] /\ kv'.mamba[s] = kv.mamba[s] /\ kv'.pend[s] = kv.pend[s]
        BY <2>2, <3>2 DEF OnlyOf
      <4> QED BY <2>1, <4>1 DEF TablesOK
    <3> QED BY <3>1, <3>2
  <2> QED BY <2>1, <2>3 DEF TablesOK
<1> QED
  BY <1>0, <1>3, <1>4, <1>5, <1>6, QuietlyOK DEF Quietly

\* An admission.
Admits(a, r) ==
  /\ a.ok /\ kv' = a.kv
  /\ waiting' = Among(waiting, Req \ {r})
  /\ running' = Append(running, r)
  /\ reqs' = [reqs EXCEPT ![r].status = "running", ![r].computed = a.start]
  /\ step' = [step EXCEPT
       !.budget = @ - a.n, !.order = Append(@, r),
       !.msg[r] = [kind  |-> IF reqs[r].status = "waiting" THEN "new" ELSE "resumed",
                   start |-> a.start, n |-> a.n,
                   last  |-> a.start + a.n = reqs[r].ntok,
                   attn  |-> a.kv.attn[r].blocks,
                   mamba |-> a.kv.mamba[r].blocks]]

\* The lists behind it.
LEMMA AdmitLists ==
  ASSUME IInv, NEW a, NEW r \in Req, Admits(a, r), r \in ToSet(waiting), a.start \in Nat,
         conf' = conf
  PROVE  /\ ListsOK'
         /\ reqs'[r].status = "running" /\ reqs'[r].computed = a.start
         /\ reqs'[r].ntok = reqs[r].ntok
         /\ \A s \in Req \ {r} : reqs'[s] = reqs[s]
<1>1. /\ conf \in Settings /\ reqs \in [Req -> Status]
      /\ running \in Seq(Req) /\ waiting \in Seq(Req)
      /\ \A s \in Req : /\ s \in ToSet(running) <=> reqs[s].status = "running"
                        /\ s \in ToSet(waiting) <=> reqs[s].status \in {"waiting", "preempted"}
  BY InvFacts
<1>2. /\ reqs' = [reqs EXCEPT ![r].status = "running", ![r].computed = a.start]
      /\ running' = Append(running, r) /\ waiting' = Among(waiting, Req \ {r})
  BY DEF Admits
<1>3. /\ reqs'[r].status = "running" /\ reqs'[r].computed = a.start
      /\ reqs'[r].ntok = reqs[r].ntok
      /\ \A s \in Req \ {r} : reqs'[s] = reqs[s]
      /\ reqs' \in [Req -> Status]
  BY <1>1, <1>2 DEF Status
<1>4. waiting' \in Seq(Req) /\ ToSet(waiting') = ToSet(waiting) \ {r}
  <2>1. ToSet(waiting) \subseteq Req
    BY <1>1, Members
  <2>2. waiting' \in Seq(Req) /\ ToSet(waiting') = ToSet(waiting) \cap (Req \ {r})
    BY <1>1, <1>2, AmongMembers
  <2> QED BY <2>1, <2>2
<1>5. running' \in Seq(Req) /\ ToSet(running') = ToSet(running) \cup {r}
  BY <1>1, <1>2, MembersAppend
<1>6. \A s \in Req : /\ s \in ToSet(running') <=> reqs'[s].status = "running"
                     /\ s \in ToSet(waiting') <=> reqs'[s].status \in {"waiting", "preempted"}
  BY <1>1, <1>3, <1>4, <1>5
<1>7. ListsOK'
  BY <1>1, <1>3, <1>4, <1>5, <1>6 DEF ListsOK, Status
<1> QED
  BY <1>3, <1>7

\* The step behind it.
LEMMA AdmitStep ==
  ASSUME IInv, NEW a, NEW r \in Req, Admits(a, r), a.kv \in Cache, a.start \in Nat, a.n \in Nat,
         a.n <= step.budget
  PROVE  /\ step' \in Step /\ step'.phase = step.phase /\ step'.asks = step.asks
         /\ step'.preempted = step.preempted
         /\ ToSet(step'.order) = ToSet(step.order) \cup {r}
         /\ step'.msg[r].n = a.n
         /\ step'.msg[r].kind = (IF reqs[r].status = "waiting" THEN "new" ELSE "resumed")
         /\ \A s \in Req \ {r} : step'.msg[s] = step.msg[s]
<1>1. /\ step \in Step /\ step.budget \in Nat /\ step.order \in Seq(Req)
      /\ step.msg \in [Req -> Msg]
  BY InvFacts, StepFields
<1> DEFINE k == IF reqs[r].status = "waiting" THEN "new" ELSE "resumed"
           l == a.start + a.n = reqs[r].ntok
           m == [kind |-> k, start |-> a.start, n |-> a.n, last |-> l,
                 attn |-> a.kv.attn[r].blocks, mamba |-> a.kv.mamba[r].blocks]
           b == step.budget - a.n
           o == Append(step.order, r)
           ms == [step.msg EXCEPT ![r] = m]
<1>2. step' = [step EXCEPT !.budget = b, !.order = o, !.msg[r] = m]
  BY DEF Admits
<1>3. m \in Msg /\ m.n = a.n /\ m.kind = k
  <2>1. k \in {None, "running", "new", "resumed"} /\ l \in BOOLEAN
    OBVIOUS
  <2>2. a.kv.attn[r].blocks \in Seq(Block) /\ a.kv.mamba[r].blocks \in Seq(Block \cup {Null})
    BY TableLists
  <2> HIDE DEF k, l
  <2> QED BY <2>1, <2>2 DEF Msg
<1>4. b \in Nat
  BY <1>1
<1>5. o \in Seq(Req) /\ ToSet(o) = ToSet(step.order) \cup {r}
  BY <1>1, MembersAppend
<1> HIDE DEF m, b, o
<1>6. ms \in [Req -> Msg] /\ ms[r] = m /\ \A s \in Req \ {r} : ms[s] = step.msg[s]
  BY <1>1, <1>3
<1>7. step' = [step EXCEPT !.budget = b, !.order = o, !.msg = ms]
  BY <1>1, <1>2 DEF Step
<1> HIDE DEF ms
<1>8. /\ step' \in Step /\ step'.phase = step.phase /\ step'.asks = step.asks
      /\ step'.preempted = step.preempted /\ step'.order = o /\ step'.msg = ms
  BY <1>1, <1>4, <1>5, <1>6, <1>7 DEF Step
<1> QED
  BY <1>3, <1>5, <1>6, <1>8

\* A request of the waiting queue gets its blocks and runs.
LEMMA AdmitOK == IInv /\ Admit => IInv'
<1> SUFFICES ASSUME IInv, Admit PROVE IInv'
  OBVIOUS
<1> DEFINE a == Admission
           r == a.r
<1>0. /\ step.phase = "waiting" /\ waiting # <<>>
      /\ conf' = conf /\ prev' = prev /\ ended' = ended /\ flight' = flight
  BY DEF Admit, InWaitingLoop
<1>1. Admits(a, r)
  BY DEF Admit, Admits
<1>2. Admitted(a)
  BY <1>0, AdmissionOK
<1> HIDE DEF a
<1>3. /\ r \in Req /\ r \in ToSet(waiting) /\ a.start \in Nat /\ a.n \in Nat
      /\ a.n <= step.budget /\ a.start + a.n <= reqs[r].ntok
      /\ Sound(a.kv, conf.blocks) /\ OnlyOf(kv, a.kv, r) /\ a.kv \in Cache
      /\ kv' = a.kv /\ a.kv.mamba[r].alloc /\ a.kv.pend[r] = None
  BY <1>1, <1>2 DEF Admitted, Admits, Sound
<1>4. reqs[r].status \in {"waiting", "preempted"} /\ reqs[r].ntok \in Nat
  BY <1>3, InvFacts, ReqFields
<1> HIDE DEF r
<1>5. /\ ListsOK'
      /\ reqs'[r].status = "running" /\ reqs'[r].computed = a.start
      /\ reqs'[r].ntok = reqs[r].ntok
      /\ \A s \in Req \ {r} : reqs'[s] = reqs[s]
  BY <1>0, <1>1, <1>3, AdmitLists
<1>6. /\ step' \in Step /\ step'.phase = step.phase /\ step'.asks = step.asks
      /\ step'.preempted = step.preempted
      /\ ToSet(step'.order) = ToSet(step.order) \cup {r}
      /\ step'.msg[r].n = a.n
      /\ step'.msg[r].kind = (IF reqs[r].status = "waiting" THEN "new" ELSE "resumed")
      /\ \A s \in Req \ {r} : step'.msg[s] = step.msg[s]
  BY <1>1, <1>3, AdmitStep
<1>7. NumbersOK'
  <2>1. NumbersOK
    BY DEF IInv
  <2> QED BY <1>3, <1>4, <1>5, <1>6, <2>1 DEF NumbersOK
<1>8. StepOK'
  <2>1. StepOK /\ Depth' = Depth
    BY <1>0 DEF IInv, Depth
  <2>2. step.asks = {} /\ step.preempted = {} /\ Len(flight) < Depth
    BY <1>0, <2>1 DEF StepOK
  <2>3. \A s \in ToSet(step'.order) : reqs'[s].status = "running"
    <3>1. ToSet(step.order) \subseteq Req
      BY InvFacts, StepFields
    <3> QED BY <1>5, <1>6, <2>1, <3>1 DEF StepOK
  <2> QED BY <1>0, <1>6, <2>1, <2>2, <2>3 DEF StepOK
<1>9. ResumesOK'
  <2>1. ResumesOK
    BY DEF IInv
  <2>2. step.preempted = {}
    BY <1>0 DEF IInv, StepOK
  <2>3. ASSUME NEW s \in Req, step'.msg[s].kind = "resumed" PROVE s \notin prev
    <3>1. CASE s = r
      <4>1. reqs[r].status = "preempted"
        BY <1>4, <1>6, <2>3, <3>1
      <4> QED BY <2>1, <2>2, <3>1, <4>1 DEF ResumesOK
    <3>2. CASE s # r
      BY <1>6, <2>1, <2>3, <3>2 DEF ResumesOK
    <3> QED BY <3>1, <3>2
  <2>4. \A s \in prev : reqs'[s].status = "preempted" => s \in step'.preempted
    BY <1>5, <1>6, <2>1 DEF ResumesOK
  <2> QED BY <1>0, <2>1, <2>3, <2>4 DEF ResumesOK
<1>10. TablesOK(kv)'
  <2>1. TablesOK(kv)
    BY InvFacts
  <2>2. ASSUME NEW s \in Req
        PROVE  IF reqs'[s].status = "running" THEN kv'.mamba[s].alloc /\ kv'.pend[s] = None
               ELSE kv'.attn[s] = NoAttn /\ kv'.mamba[s] = NoMamba
    <3>1. CASE s = r
      BY <1>3, <1>5, <3>1
    <3>2. CASE s # r
      <4>1. /\ kv'.attn[s] = kv.attn[s] /\ kv'.mamba[s] = kv.mamba[s] /\ kv'.pend[s] = kv.pend[s]
            /\ reqs'[s] = reqs[s]
        BY <1>3, <1>5, <3>2 DEF OnlyOf
      <4> QED BY <2>1, <4>1 DEF TablesOK
    <3> QED BY <3>1, <3>2
  <2> QED BY <2>2 DEF TablesOK
<1>11. (ended \subseteq Req)' /\ (flight \in Seq(Output) /\ Len(flight) <= Depth)'
  BY <1>0, InvFacts DEF Depth
<1>12. Sound(kv, conf.blocks)'
  BY <1>0, <1>3
<1> QED
  BY <1>5, <1>7, <1>8, <1>9, <1>10, <1>11, <1>12 DEF IInv

Ref == [req : Req, index : Int, block : Block]

\* The sources of copies that an output names are blocks.
LEMMA SourceRefsOK ==
  ASSUME IInv
  PROVE  SourceRefs \in Seq(Ref)
<1> DEFINE S     == {r \in Req : SourceRef(kv, r).block # Null}
           moved == Among(step.order, S)
           refs  == [k \in DOMAIN moved |-> SourceRef(kv, moved[k])]
<1>1. moved \in Seq(Req) /\ ToSet(moved) = ToSet(step.order) \cap S
  BY InvFacts, StepFields, AmongMembers
<1>2. ASSUME NEW r \in S PROVE SourceRef(kv, r) \in Ref
  <2>1. r \in Req /\ conf.blocks \in SUBSET Block /\ Sound(kv, conf.blocks)
    BY InvFacts
  <2> DEFINE i == kv.mamba[r].pending
  <2>2. SourceRef(kv, r) = [req |-> r, index |-> i, block |-> BlockAt(kv, r, i)]
    BY DEF SourceRef
  <2>3. i \in Int
    BY <2>1, MambaFacts DEF MambaTable
  <2>4. BlockAt(kv, r, i) # Null
    BY <1>2, <2>2
  <2> HIDE DEF i
  <2>5. BlockAt(kv, r, i) \in Block
    BY <2>1, <2>3, <2>4, BlockAtFacts
  <2> DEFINE b == BlockAt(kv, r, i)
  <2> HIDE DEF b
  <2>6. [req |-> r, index |-> i, block |-> b] \in Ref
    BY <2>1, <2>3, <2>5 DEF Ref, b
  <2> QED BY <2>2, <2>6 DEF b
<1>3. refs \in Seq(Ref)
  <2> DEFINE n == Len(moved)
  <2>1. DOMAIN moved = 1 .. n /\ n \in Nat
    BY <1>1, LenProperties
  <2>2. \A k \in 1 .. n : moved[k] \in S
    BY <1>1, Members
  <2> HIDE DEF moved, n, S
  <2>3. refs = [k \in 1 .. n |-> SourceRef(kv, moved[k])]
    BY <2>1
  <2>4. \A k \in 1 .. n : SourceRef(kv, moved[k]) \in Ref
    BY <1>2, <2>2
  <2>5. refs \in [1 .. n -> Ref]
    BY <2>3, <2>4
  <2> HIDE DEF refs
  <2> QED BY <2>1, <2>5, SeqDef
<1> QED
  BY <1>3 DEF SourceRefs

\* The cache u of an output that has been emitted.
EmittedFrom(u, t) ==
  t = [u EXCEPT !.fresh = <<>>, !.copies = <<>>, !.pool = [u.pool EXCEPT !.raised = FALSE]]

\* The cache behind an output is in order.
LEMMA EmittedOK ==
  ASSUME NEW c, NEW B \in SUBSET Block, Sound(c, B), NEW t, EmittedFrom(TakeSourceRefs(c), t)
  PROVE  /\ Sound(t, B) /\ t.attn = c.attn /\ t.pend = c.pend
         /\ t.fresh = <<>> /\ t.copies = <<>>
         /\ \A r \in Req : /\ t.mamba[r].alloc = c.mamba[r].alloc
                           /\ c.mamba[r] = NoMamba => t.mamba[r] = NoMamba
<1> DEFINE u == TakeSourceRefs(c)
<1>1. MarksMoved(c, u, B)
  BY TakeSourceRefsOK
<1>2. EmittedFrom(u, t)
  OBVIOUS
<1> HIDE DEF u
<1>3. u \in Cache /\ Sound(u, B) /\ PoolOK(u.pool, Holding(u), B)
  BY <1>1 DEF MarksMoved, Sound
<1>4. u.pool \in QueuePool /\ u.pool.raised = FALSE
  BY <1>3, PoolFacts
<1> DEFINE q == [u.pool EXCEPT !.raised = FALSE]
           e == <<>>
<1>5. q = u.pool
  BY <1>4 DEF QueuePool
<1>6. t = [u EXCEPT !.fresh = e, !.copies = e, !.pool = q]
  BY <1>2 DEF EmittedFrom
<1>7. e \in Seq(Block) /\ e \in Seq(Copy)
  OBVIOUS
<1> HIDE DEF q, e
<1>8. /\ t.pool = u.pool /\ t.mamba = u.mamba /\ t.attn = u.attn
      /\ t.pend = u.pend /\ t.gold = u.gold /\ t.fresh = e /\ t.copies = e
  BY <1>3, <1>5, <1>6 DEF Cache
<1>9. t \in Cache
  BY <1>3, <1>4, <1>5, <1>6, <1>7 DEF Cache
<1>10. Sound(t, B)
  BY <1>3, <1>8, <1>9, SoundSame
<1> QED
  BY <1>1, <1>8, <1>10 DEF MarksMoved, e

\* What an output carries away is gone from the cache, and the tables stay.
LEMMA EmitTables ==
  ASSUME IInv, Emit
  PROVE  /\ Sound(kv', conf.blocks) /\ kv'.attn = kv.attn /\ kv'.pend = kv.pend
         /\ kv'.fresh = <<>> /\ kv'.copies = <<>>
         /\ \A r \in Req : /\ kv'.mamba[r].alloc = kv.mamba[r].alloc
                           /\ kv.mamba[r] = NoMamba => kv'.mamba[r] = NoMamba
<1> DEFINE again == \E r \in prev : step.msg[r].kind = "resumed"
           u     == TakeSourceRefs(kv)
<1>1. kv' = [u EXCEPT !.fresh = <<>>, !.copies = <<>>,
                      !.pool.raised = u.pool.raised \/ again]
  BY DEF Emit
<1>2. again = FALSE
  <2>1. prev \subseteq Req /\ \A r \in Req : step.msg[r].kind = "resumed" => r \notin prev
    BY DEF IInv, ResumesOK
  <2> QED BY <2>1
<1>3. Sound(kv, conf.blocks) /\ conf.blocks \in SUBSET Block
  BY InvFacts
<1>4. MarksMoved(kv, u, conf.blocks)
  BY <1>3, TakeSourceRefsOK
<1> HIDE DEF again, u
<1>5. u \in Cache /\ u.pool \in QueuePool /\ u.pool.raised = FALSE
  <2>1. Sound(u, conf.blocks)
    BY <1>4 DEF MarksMoved
  <2>2. u \in Cache /\ PoolOK(u.pool, Holding(u), conf.blocks)
    BY <2>1, SoundFacts
  <2> DEFINE q == u.pool
             h == Holding(u)
             B == conf.blocks
  <2>3. PoolOK(q, h, B) /\ B \in SUBSET Block
    BY <1>3, <2>2
  <2> HIDE DEF q, h, B
  <2>4. q \in QueuePool /\ q.raised = FALSE
    BY <2>3, PoolFacts
  <2> QED BY <2>2, <2>4 DEF q
<1>6. kv' = [u EXCEPT !.fresh = <<>>, !.copies = <<>>,
                      !.pool = [u.pool EXCEPT !.raised = u.pool.raised \/ again]]
  BY <1>1, <1>5 DEF Cache
<1>7. (u.pool.raised \/ again) = FALSE
  BY <1>2, <1>5
<1>8. EmittedFrom(u, kv')
  BY <1>6, <1>7 DEF EmittedFrom
<1> QED
  BY <1>3, <1>8, EmittedOK DEF u

\* The output of schedule(), and _update_after_schedule.
LEMMA EmitOK == IInv /\ Emit => IInv'
<1> SUFFICES ASSUME IInv, Emit PROVE IInv'
  OBVIOUS
<1> DEFINE out == [order |-> step.order, msg |-> step.msg, preempted |-> step.preempted,
                   ended |-> ended, fresh |-> ToSet(kv.fresh), copies |-> kv.copies,
                   refs |-> SourceRefs, ran |-> FALSE]
<1>0. /\ step.phase = "output" /\ flight' = Append(flight, out)
      /\ prev' = ToSet(step.order) /\ ended' = {} /\ step' = Idle
      /\ reqs' = [r \in Req |-> [reqs[r] EXCEPT !.computed = @ + step.msg[r].n]]
      /\ conf' = conf /\ running' = running /\ waiting' = waiting
  BY DEF Emit
<1>1. /\ reqs \in [Req -> Status] /\ kv \in Cache /\ Sound(kv, conf.blocks)
      /\ conf.blocks \in SUBSET Block
      /\ step.order \in Seq(Req) /\ step.msg \in [Req -> Msg] /\ step.preempted \in SUBSET Req
      /\ ToSet(step.order) \subseteq Req /\ ended \in SUBSET Req
  BY InvFacts, StepFields
<1>2. out \in Output
  <2>1. kv.fresh \in Seq(Block) /\ kv.copies \in Seq(Copy)
    BY <1>1, CacheFields
  <2>2. ToSet(kv.fresh) \in SUBSET Block
    BY <2>1, Members
  <2>3. SourceRefs \in Seq([req : Req, index : Int, block : Block])
    BY SourceRefsOK DEF Ref
  <2> DEFINE f == ToSet(kv.fresh)
             s == SourceRefs
  <2> HIDE DEF f, s
  <2>4. [order |-> step.order, msg |-> step.msg, preempted |-> step.preempted,
         ended |-> ended, fresh |-> f, copies |-> kv.copies, refs |-> s, ran |-> FALSE] \in Output
    BY <1>1, <2>1, <2>2, <2>3 DEF Output, f, s
  <2> QED BY <2>4 DEF f, s
<1> HIDE DEF out
<1>3. /\ Sound(kv', conf.blocks) /\ kv'.attn = kv.attn /\ kv'.pend = kv.pend
      /\ \A r \in Req : /\ kv'.mamba[r].alloc = kv.mamba[r].alloc
                        /\ kv.mamba[r] = NoMamba => kv'.mamba[r] = NoMamba
  BY EmitTables
<1>4. \A r \in Req : /\ reqs'[r].status = reqs[r].status /\ reqs'[r].ntok = reqs[r].ntok
                     /\ reqs'[r].computed = reqs[r].computed + step.msg[r].n
                     /\ reqs'[r] \in Status /\ reqs'[r].computed \in Nat
  <2>1. ASSUME NEW r \in Req
        PROVE  /\ reqs'[r].status = reqs[r].status /\ reqs'[r].ntok = reqs[r].ntok
               /\ reqs'[r].computed = reqs[r].computed + step.msg[r].n
               /\ reqs'[r] \in Status /\ reqs'[r].computed \in Nat
    <3> DEFINE n == reqs[r].computed + step.msg[r].n
    <3>1. reqs[r] \in Status /\ n \in Nat
      BY <1>1, InvFacts, StepFields, ReqFields
    <3>2. reqs'[r] = [reqs[r] EXCEPT !.computed = n]
      BY <1>0
    <3> HIDE DEF n
    <3>3. /\ reqs'[r].status = reqs[r].status /\ reqs'[r].ntok = reqs[r].ntok
          /\ reqs'[r].computed = n /\ reqs'[r] \in Status
      BY <3>1, <3>2 DEF Status
    <3> QED BY <3>1, <3>3 DEF n
  <2> QED BY <2>1
<1>5. reqs' \in [Req -> Status]
  <2>1. reqs' = [r \in Req |-> reqs'[r]]
    BY <1>0
  <2> QED BY <1>4, <2>1
<1>6. ListsOK'
  <2>1. ListsOK
    BY DEF IInv
  <2> QED BY <1>0, <1>4, <1>5, <2>1 DEF ListsOK, Status
<1>7. NumbersOK'
  <2>1. NumbersOK
    BY DEF IInv
  <2>2. ASSUME NEW r \in Req
        PROVE  /\ reqs'[r].status # "finished" =>
                    Prompt[r] <= reqs'[r].ntok /\ reqs'[r].ntok < Prompt[r] + MaxOut[r]
               /\ reqs'[r].computed + step'.msg[r].n <= reqs'[r].ntok
    <3>1. step'.msg[r].n = 0
      BY <1>0, IdleFacts
    <3>2. reqs[r].computed + step.msg[r].n <= reqs[r].ntok
      BY <2>1 DEF NumbersOK
    <3>3. reqs'[r].computed + step'.msg[r].n <= reqs'[r].ntok
      BY <1>4, <3>1, <3>2
    <3> QED BY <1>4, <2>1, <3>3 DEF NumbersOK
  <2> QED BY <2>2 DEF NumbersOK
<1>8. StepOK'
  BY <1>0, IdleFacts DEF StepOK
<1>9. ResumesOK'
  <2>1. \A r \in Req : step'.msg[r].kind # "resumed"
    BY <1>0, IdleFacts, KindsAssumption
  <2>2. \A r \in ToSet(step.order) : reqs[r].status = "running"
    BY DEF IInv, StepOK
  <2> QED BY <1>0, <1>1, <1>4, <2>1, <2>2 DEF ResumesOK
<1>10. TablesOK(kv)'
  <2>1. TablesOK(kv)
    BY InvFacts
  <2> QED BY <1>3, <1>4, <2>1 DEF TablesOK
<1>11. (flight \in Seq(Output) /\ Len(flight) <= Depth)'
  <2>1. flight \in Seq(Output) /\ Len(flight) \in Nat /\ Depth \in Nat
    BY InvFacts
  <2>2. Len(flight) < Depth
    BY <1>0 DEF IInv, StepOK
  <2>3. flight' \in Seq(Output) /\ Len(flight') = Len(flight) + 1
    BY <1>0, <1>2, <2>1, AppendProperties
  <2>4. Depth' = Depth
    BY <1>0 DEF Depth
  <2> QED BY <2>1, <2>2, <2>3, <2>4
<1>12. Sound(kv, conf.blocks)'
  BY <1>0, <1>3
<1>13. (ended \subseteq Req)'
  BY <1>0
<1> QED
  BY <1>6, <1>7, <1>8, <1>9, <1>10, <1>11, <1>12, <1>13 DEF IInv

\* Requests have a number of tokens within their bounds, and are computed up to it.
Numbered(s, r) ==
  /\ s.status # "finished" => Prompt[r] <= s.ntok /\ s.ntok < Prompt[r] + MaxOut[r]
  /\ s.computed <= s.ntok

\* Between two calls of schedule().
LEMMA IdleOK ==
  ASSUME IInv, step.phase = "idle"
  PROVE  /\ step = Idle /\ step.msg = Idle.msg
         /\ \A r \in Req : Numbered(reqs[r], r) /\ reqs[r].ntok \in Nat /\ reqs[r].computed \in Nat
         /\ \A r \in prev : r \in Req /\ reqs[r].status # "preempted"
<1>1. step = Idle
  BY DEF IInv, StepOK
<1>2. ASSUME NEW r \in Req
      PROVE  Numbered(reqs[r], r) /\ reqs[r].ntok \in Nat /\ reqs[r].computed \in Nat
  <2>1. reqs[r].ntok \in Nat /\ reqs[r].computed \in Nat
    BY InvFacts, ReqFields
  <2>2. step.msg[r].n = 0
    BY <1>1, IdleFacts
  <2>3. reqs[r].computed + 0 <= reqs[r].ntok
    BY <2>2 DEF IInv, NumbersOK
  <2>4. reqs[r].status # "finished" =>
           Prompt[r] <= reqs[r].ntok /\ reqs[r].ntok < Prompt[r] + MaxOut[r]
    BY DEF IInv, NumbersOK
  <2> QED BY <2>1, <2>3, <2>4 DEF Numbered
<1>3. \A r \in prev : r \in Req /\ reqs[r].status # "preempted"
  BY <1>1, IdleFacts DEF IInv, ResumesOK
<1> QED
  BY <1>1, <1>2, <1>3

\* What a step between two calls of schedule() has to keep.
LEMMA BetweenOK ==
  ASSUME IInv, step.phase = "idle", step' = step, conf' = conf,
         flight' \in Seq(Output), Len(flight') <= Len(flight), ended' \subseteq Req,
         prev' \subseteq prev, ListsOK', Sound(kv', conf.blocks), TablesOK(kv)',
         \A r \in Req : Numbered(reqs'[r], r) /\ reqs'[r].ntok \in Nat /\ reqs'[r].computed \in Nat,
         \A r \in prev' : reqs'[r].status # "preempted"
  PROVE  IInv'
<1>1. step' = Idle
  BY IdleOK
<1>2. NumbersOK'
  <2>1. ASSUME NEW r \in Req
        PROVE  /\ reqs'[r].status # "finished" =>
                    Prompt[r] <= reqs'[r].ntok /\ reqs'[r].ntok < Prompt[r] + MaxOut[r]
               /\ reqs'[r].computed + step'.msg[r].n <= reqs'[r].ntok
    <3>1. step'.msg[r].n = 0
      BY <1>1, IdleFacts
    <3>2. reqs'[r].ntok \in Nat /\ reqs'[r].computed \in Nat /\ Numbered(reqs'[r], r)
      OBVIOUS
    <3>3. reqs'[r].computed + 0 <= reqs'[r].ntok
      BY <3>2 DEF Numbered
    <3> QED BY <3>1, <3>2, <3>3 DEF Numbered
  <2> QED BY <2>1 DEF NumbersOK
<1>3. StepOK'
  BY <1>1, IdleFacts DEF StepOK
<1>4. ResumesOK'
  <2>1. \A r \in Req : step'.msg[r].kind # "resumed"
    BY <1>1, IdleFacts, KindsAssumption
  <2>2. prev' \subseteq Req
    BY InvFacts
  <2> QED BY <2>1, <2>2 DEF ResumesOK
<1>5. (ended \subseteq Req)'
  OBVIOUS
<1>6. (flight \in Seq(Output) /\ Len(flight) <= Depth)'
  <2>1. Len(flight) <= Depth /\ Len(flight) \in Nat /\ Depth \in Nat /\ Depth' = Depth
    BY InvFacts DEF Depth
  <2>2. Len(flight') \in Nat
    BY LenProperties
  <2>3. Len(flight') <= Depth'
    BY <2>1, <2>2
  <2> QED BY <2>3
<1>7. Sound(kv, conf.blocks)'
  OBVIOUS
<1> QED
  BY <1>2, <1>3, <1>4, <1>5, <1>6, <1>7 DEF IInv

\* add_request.
LEMMA ArriveOK == \A r \in Req : IInv /\ Arrive(r) => IInv'
<1> SUFFICES ASSUME NEW r \in Req, IInv, Arrive(r) PROVE IInv'
  OBVIOUS
<1> DEFINE new == [status |-> "waiting", computed |-> 0, ntok |-> Prompt[r]]
<1>0. /\ step.phase = "idle" /\ reqs[r].status \in {"absent", "finished"}
      /\ reqs' = [reqs EXCEPT ![r] = new] /\ waiting' = Append(waiting, r)
      /\ conf' = conf /\ running' = running /\ kv' = kv /\ prev' = prev /\ step' = step
      /\ ended' = ended /\ flight' = flight
  BY DEF Arrive, BetweenSteps
<1>1. /\ reqs \in [Req -> Status] /\ running \in Seq(Req) /\ waiting \in Seq(Req)
      /\ \A s \in Req : /\ s \in ToSet(running) <=> reqs[s].status = "running"
                        /\ s \in ToSet(waiting) <=> reqs[s].status \in {"waiting", "preempted"}
      /\ conf \in Settings /\ flight \in Seq(Output) /\ Len(flight) \in Nat
      /\ ended \subseteq Req /\ Sound(kv, conf.blocks) /\ TablesOK(kv)
  BY InvFacts
<1>2. Prompt[r] \in Nat \ {0} /\ MaxOut[r] \in Nat \ {0}
  BY TokensAssumption
<1>3. new \in Status /\ new.status = "waiting" /\ new.computed = 0 /\ new.ntok = Prompt[r]
  BY <1>2 DEF Status
<1> HIDE DEF new
<1>4. reqs' \in [Req -> Status] /\ reqs'[r] = new /\ \A s \in Req \ {r} : reqs'[s] = reqs[s]
  BY <1>0, <1>1, <1>3
<1>5. waiting' \in Seq(Req) /\ ToSet(waiting') = ToSet(waiting) \cup {r}
  BY <1>0, <1>1, MembersAppend
<1>6. ListsOK'
  <2>1. \A s \in Req : /\ s \in ToSet(running') <=> reqs'[s].status = "running"
                       /\ s \in ToSet(waiting') <=> reqs'[s].status \in {"waiting", "preempted"}
    BY <1>0, <1>1, <1>3, <1>4, <1>5
  <2> QED BY <1>0, <1>1, <1>4, <1>5, <2>1 DEF ListsOK, Status
<1>7. TablesOK(kv)'
  <2>1. ASSUME NEW s \in Req
        PROVE  IF reqs'[s].status = "running" THEN kv'.mamba[s].alloc /\ kv'.pend[s] = None
               ELSE kv'.attn[s] = NoAttn /\ kv'.mamba[s] = NoMamba
    <3>1. reqs'[s].status = "running" <=> reqs[s].status = "running"
      BY <1>0, <1>3, <1>4
    <3> QED BY <1>0, <1>1, <3>1 DEF TablesOK
  <2> QED BY <2>1 DEF TablesOK
<1>8. ASSUME NEW s \in Req
      PROVE  Numbered(reqs'[s], s) /\ reqs'[s].ntok \in Nat /\ reqs'[s].computed \in Nat
  <2>1. CASE s = r
    BY <1>2, <1>3, <1>4, <2>1 DEF Numbered
  <2>2. CASE s # r
    BY <1>0, <1>4, <2>2, IdleOK
  <2> QED BY <2>1, <2>2
<1>9. \A s \in prev' : reqs'[s].status # "preempted"
  BY <1>0, <1>3, <1>4, IdleOK
<1> QED
  BY <1>0, <1>1, <1>6, <1>7, <1>8, <1>9, BetweenOK

\* finish_requests.
LEMMA AbortOK == \A r \in Req : IInv /\ Abort(r) => IInv'
<1> SUFFICES ASSUME NEW r \in Req, IInv, Abort(r) PROVE IInv'
  OBVIOUS
<1>0. /\ step.phase = "idle"
      /\ reqs' = [reqs EXCEPT ![r].status = "finished"]
      /\ running' = Among(running, Req \ {r}) /\ waiting' = Among(waiting, Req \ {r})
      /\ kv' = Free(kv, r) /\ ended' = ended \cup {r}
      /\ conf' = conf /\ prev' = prev /\ step' = step /\ flight' = flight
  BY DEF Abort, BetweenCalls
<1>1. /\ reqs \in [Req -> Status] /\ running \in Seq(Req) /\ waiting \in Seq(Req)
      /\ \A s \in Req : /\ s \in ToSet(running) <=> reqs[s].status = "running"
                        /\ s \in ToSet(waiting) <=> reqs[s].status \in {"waiting", "preempted"}
      /\ conf \in Settings /\ flight \in Seq(Output) /\ Len(flight) \in Nat
      /\ ended \subseteq Req /\ Sound(kv, conf.blocks) /\ TablesOK(kv)
      /\ conf.blocks \in SUBSET Block
  BY InvFacts
<1>2. /\ reqs' \in [Req -> Status] /\ reqs'[r].status = "finished"
      /\ reqs'[r].ntok = reqs[r].ntok /\ reqs'[r].computed = reqs[r].computed
      /\ \A s \in Req \ {r} : reqs'[s] = reqs[s]
  BY <1>0, <1>1 DEF Status
<1>3. /\ running' \in Seq(Req) /\ ToSet(running') = ToSet(running) \ {r}
      /\ waiting' \in Seq(Req) /\ ToSet(waiting') = ToSet(waiting) \ {r}
  <2>1. ToSet(running) \subseteq Req /\ ToSet(waiting) \subseteq Req
    BY <1>1, Members
  <2>2. /\ running' \in Seq(Req) /\ ToSet(running') = ToSet(running) \cap (Req \ {r})
        /\ waiting' \in Seq(Req) /\ ToSet(waiting') = ToSet(waiting) \cap (Req \ {r})
    BY <1>0, <1>1, AmongMembers
  <2> QED BY <2>1, <2>2
<1>4. ListsOK'
  <2>1. \A s \in Req : /\ s \in ToSet(running') <=> reqs'[s].status = "running"
                       /\ s \in ToSet(waiting') <=> reqs'[s].status \in {"waiting", "preempted"}
    BY <1>1, <1>2, <1>3
  <2> QED BY <1>0, <1>1, <1>2, <1>3, <2>1 DEF ListsOK, Status
<1>5. Freed(kv, kv', r, conf.blocks)
  BY <1>0, <1>1, FreeOK
<1>6. TablesOK(kv)'
  <2>1. ASSUME NEW s \in Req
        PROVE  IF reqs'[s].status = "running" THEN kv'.mamba[s].alloc /\ kv'.pend[s] = None
               ELSE kv'.attn[s] = NoAttn /\ kv'.mamba[s] = NoMamba
    <3>1. CASE s = r
      BY <1>2, <1>5, <3>1 DEF Freed
    <3>2. CASE s # r
      <4>1. /\ kv'.attn[s] = kv.attn[s] /\ kv'.mamba[s] = kv.mamba[s] /\ kv'.pend[s] = kv.pend[s]
            /\ reqs'[s] = reqs[s]
        BY <1>2, <1>5, <3>2 DEF Freed, OnlyOf
      <4> QED BY <1>1, <4>1 DEF TablesOK
    <3> QED BY <3>1, <3>2
  <2> QED BY <2>1 DEF TablesOK
<1>7. ASSUME NEW s \in Req
      PROVE  Numbered(reqs'[s], s) /\ reqs'[s].ntok \in Nat /\ reqs'[s].computed \in Nat
  <2>1. Numbered(reqs[s], s) /\ reqs[s].ntok \in Nat /\ reqs[s].computed \in Nat
    BY <1>0, IdleOK
  <2>2. CASE s = r
    BY <1>2, <2>1, <2>2 DEF Numbered
  <2>3. CASE s # r
    BY <1>2, <2>1, <2>3
  <2> QED BY <2>2, <2>3
<1>8. \A s \in prev' : reqs'[s].status # "preempted"
  BY <1>0, <1>2, IdleOK
<1>9. /\ Sound(kv', conf.blocks) /\ ended' \subseteq Req /\ prev' \subseteq prev
      /\ flight' \in Seq(Output) /\ Len(flight') <= Len(flight)
  BY <1>0, <1>1, <1>5 DEF Freed
<1> QED
  BY <1>0, <1>4, <1>6, <1>7, <1>8, <1>9, BetweenOK

\* The worker touches nothing of the scheduler.
LEMMA ExecuteOK == IInv /\ Execute => IInv'
<1> SUFFICES ASSUME IInv, Execute PROVE IInv'
  OBVIOUS
<1>0. flight' = [flight EXCEPT ![NextRun].ran = TRUE]
  BY DEF Execute
<1>1. /\ conf' = conf /\ reqs' = reqs /\ running' = running /\ waiting' = waiting /\ kv' = kv
      /\ step' = step /\ prev' = prev /\ ended' = ended
  BY DEF Execute, sched
<1>2. flight' \in Seq(Output) /\ Len(flight') = Len(flight)
  <2> DEFINE n == Len(flight)
             k == NextRun
  <2>1. flight \in [1 .. n -> Output] /\ n \in Nat
    BY InvFacts, LenProperties
  <2> HIDE DEF n, k
  <2>2. flight' = [flight EXCEPT ![k].ran = TRUE]
    BY <1>0 DEF k
  <2>3. flight' \in [1 .. n -> Output]
    BY <2>1, <2>2, ZenonT(60) DEF Output
  <2>4. flight' \in Seq(Output)
    BY <2>1, <2>3, SeqDef
  <2>5. Len(flight') = n
    BY <2>1, <2>3, <2>4, LenProperties
  <2> QED BY <2>4, <2>5 DEF n
<1>3. IInv
  OBVIOUS
<1>4. ListsOK' /\ NumbersOK' /\ StepOK' /\ ResumesOK'
  <2>1. ListsOK'
    BY <1>1, <1>3 DEF IInv, ListsOK
  <2>2. NumbersOK'
    BY <1>1, <1>3 DEF IInv, NumbersOK
  <2>3. StepOK'
    <3>1. Depth' = Depth
      BY <1>1 DEF Depth
    <3> QED BY <1>1, <1>2, <1>3, <3>1 DEF IInv, StepOK
  <2>4. ResumesOK'
    BY <1>1, <1>3 DEF IInv, ResumesOK
  <2> QED BY <2>1, <2>2, <2>3, <2>4
<1>5. TablesOK(kv)'
  BY <1>1, <1>3 DEF IInv, TablesOK
<1>6. (ended \subseteq Req)' /\ Sound(kv, conf.blocks)'
  BY <1>1, InvFacts
<1>7. (flight \in Seq(Output) /\ Len(flight) <= Depth)'
  BY <1>1, <1>2, InvFacts DEF Depth
<1> QED
  BY <1>4, <1>5, <1>6, <1>7 DEF IInv

\* The output that is passed to update_from_output, and those behind it.
LEMMA OldestOutput ==
  ASSUME IInv, flight # <<>>
  PROVE  /\ Head(flight) \in Output /\ Head(flight).order \in Seq(Req)
         /\ Head(flight).refs \in Seq([req : Req, index : Int, block : Block])
         /\ Tail(flight) \in Seq(Output) /\ Len(Tail(flight)) <= Len(flight)
<1>1. flight \in Seq(Output) /\ Len(flight) \in Nat
  BY InvFacts
<1>2. /\ Head(flight) \in Output
      /\ Tail(flight) \in Seq(Output) /\ Len(Tail(flight)) = Len(flight) - 1
  BY <1>1, HeadTailProperties
<1>3. Len(Tail(flight)) <= Len(flight)
  BY <1>1, <1>2
<1> QED
  BY <1>2, <1>3 DEF Output

\* The tables behind update_from_output: references go, and then the requests of stops.
LEMMA UpdateTables ==
  ASSUME IInv, NEW refs \in Seq([req : Req, index : Int, block : Block]), NEW stops \in Seq(Req),
         kv' = FreeAll(ReleaseRefs(kv, refs), stops),
         \A r \in Req : reqs'[r].status = IF r \in ToSet(stops) THEN "finished" ELSE reqs[r].status
  PROVE  Sound(kv', conf.blocks) /\ TablesOK(kv)'
<1> DEFINE B == conf.blocks
           u == ReleaseRefs(kv, refs)
           S == ToSet(stops)
<1>1. B \in SUBSET Block /\ Sound(kv, B) /\ TablesOK(kv)
  BY InvFacts
<1>2. MambaSteps(kv, u, B)
  BY <1>1, ReleaseRefsOK
<1>3. kv' = FreeAll(u, stops)
  OBVIOUS
<1> HIDE DEF B, u
<1>4. Sound(u, B) /\ u.attn = kv.attn /\ u.pend = kv.pend
      /\ \A r \in Req : u.mamba[r].alloc = kv.mamba[r].alloc
  BY <1>2 DEF MambaSteps
<1>5. AllFreed(u, kv', S, B)
  BY <1>1, <1>3, <1>4, FreeAllOK
<1>6. \A r \in Req : reqs'[r].status = IF r \in S THEN "finished" ELSE reqs[r].status
  OBVIOUS
<1> HIDE DEF S
<1>7. ASSUME NEW r \in Req
      PROVE  IF reqs'[r].status = "running" THEN kv'.mamba[r].alloc /\ kv'.pend[r] = None
             ELSE kv'.attn[r] = NoAttn /\ kv'.mamba[r] = NoMamba
  <2>1. CASE r \in S
    BY <1>5, <1>6, <2>1 DEF AllFreed
  <2>2. CASE r \notin S /\ reqs[r].status = "running"
    <3>1. kv.mamba[r].alloc /\ kv.pend[r] = None
      BY <1>1, <2>2 DEF TablesOK
    <3>2. kv'.mamba[r] = u.mamba[r] /\ kv'.pend[r] = u.pend[r] /\ reqs'[r].status = "running"
      BY <1>5, <1>6, <2>2 DEF AllFreed
    <3> QED BY <1>4, <3>1, <3>2
  <2>3. CASE r \notin S /\ reqs[r].status # "running"
    <3>1. kv.mamba[r] = NoMamba /\ kv.attn[r] = NoAttn
      BY <1>1, <2>3 DEF TablesOK
    <3>2. u.mamba[r].alloc = NoMamba.alloc
      BY <1>4, <3>1
    <3>3. u.mamba[r] = NoMamba
      BY <1>1, <1>4, <3>2, NotAllocated
    <3>4. /\ kv'.mamba[r] = u.mamba[r] /\ kv'.attn[r] = u.attn[r]
          /\ reqs'[r].status = reqs[r].status
      BY <1>5, <1>6, <2>3 DEF AllFreed
    <3> QED BY <1>4, <2>3, <3>1, <3>3, <3>4
  <2> QED BY <2>1, <2>2, <2>3
<1>8. TablesOK(kv)'
  BY <1>7 DEF TablesOK
<1> QED
  BY <1>5, <1>8 DEF AllFreed, B

\* A request behind update_from_output, with one more token if it got one.
Updated(old, new, got, stops, r) ==
  /\ new.computed = old.computed
  /\ new.ntok = IF r \in got THEN old.ntok + 1 ELSE old.ntok
  /\ new.status = IF r \in stops THEN "finished" ELSE old.status
  /\ new \in Status

\* update_from_output.
LEMMA UpdateOK == IInv /\ Update => IInv'
<1> SUFFICES ASSUME IInv, Update PROVE IInv'
  OBVIOUS
<1> DEFINE out   == Head(flight)
           got   == Sampled(out)
           ends  == {r \in Req : reqs[r].ntok + 1 >= Prompt[r] + MaxOut[r]}
           stops == Among(got, ends)
           G     == ToSet(got)
           S     == ToSet(stops)
<1>0. /\ step.phase = "idle" /\ flight # <<>>
      /\ kv' = FreeAll(ReleaseRefs(kv, out.refs), stops)
      /\ reqs' = [r \in Req |->
              [reqs[r] EXCEPT
                 !.ntok   = IF Contains(got, r) THEN @ + 1 ELSE @,
                 !.status = IF Contains(stops, r) THEN "finished" ELSE @]]
      /\ running' = Among(running, Req \ S) /\ waiting' = Among(waiting, Req \ S)
      /\ ended' = ended \cup S /\ flight' = Tail(flight)
      /\ conf' = conf /\ prev' = prev /\ step' = step
  BY DEF Update
<1>1. /\ reqs \in [Req -> Status] /\ running \in Seq(Req) /\ waiting \in Seq(Req)
      /\ \A s \in Req : /\ s \in ToSet(running) <=> reqs[s].status = "running"
                        /\ s \in ToSet(waiting) <=> reqs[s].status \in {"waiting", "preempted"}
      /\ conf \in Settings /\ ended \subseteq Req
  BY InvFacts
<1>2. out.order \in Seq(Req) /\ out.refs \in Seq([req : Req, index : Int, block : Block])
  BY <1>0, OldestOutput
<1>3. got \in Seq(Req) /\ G \subseteq {r \in Req : reqs[r].status # "finished"}
  BY <1>2, AmongMembers DEF Sampled
<1> HIDE DEF got
<1>4. stops \in Seq(Req) /\ S = G \cap ends /\ S \subseteq Req /\ G \subseteq Req
  BY <1>3, AmongMembers
<1>5. \A r \in Req : (Contains(got, r) <=> r \in G) /\ (Contains(stops, r) <=> r \in S)
  BY <1>3, <1>4, ContainsMember
<1> HIDE DEF stops, G, S
<1>6. ASSUME NEW r \in Req
      PROVE  Updated(reqs[r], reqs'[r], G, S, r)
  <2> DEFINE n == IF Contains(got, r) THEN reqs[r].ntok + 1 ELSE reqs[r].ntok
             x == IF Contains(stops, r) THEN "finished" ELSE reqs[r].status
  <2>1. reqs'[r] = [reqs[r] EXCEPT !.ntok = n, !.status = x]
    BY <1>0
  <2>2. reqs[r] \in Status /\ reqs[r].ntok \in Nat
    BY <1>1, ReqFields
  <2>3. /\ n = (IF r \in G THEN reqs[r].ntok + 1 ELSE reqs[r].ntok)
        /\ x = (IF r \in S THEN "finished" ELSE reqs[r].status)
        /\ n \in Nat /\ x \in {"absent", "waiting", "running", "preempted", "finished"}
    BY <1>5, <2>2 DEF Status
  <2> HIDE DEF n, x
  <2>4. reqs'[r].computed = reqs[r].computed /\ reqs'[r].ntok = n /\ reqs'[r].status = x
        /\ reqs'[r] \in Status
    BY <2>1, <2>2, <2>3 DEF Status
  <2> QED BY <2>3, <2>4 DEF Updated
<1>7. reqs' \in [Req -> Status]
  <2>1. reqs' = [r \in Req |-> reqs'[r]]
    BY <1>0
  <2>2. \A r \in Req : reqs'[r] \in Status
    BY <1>6 DEF Updated
  <2> QED BY <2>1, <2>2
<1>8. \A r \in Req : reqs'[r].status = IF r \in S THEN "finished" ELSE reqs[r].status
  BY <1>6 DEF Updated
<1>9. ListsOK'
  <2>1. ToSet(running) \subseteq Req /\ ToSet(waiting) \subseteq Req
    BY <1>1, Members
  <2>2. /\ running' \in Seq(Req) /\ ToSet(running') = ToSet(running) \ S
        /\ waiting' \in Seq(Req) /\ ToSet(waiting') = ToSet(waiting) \ S
    <3>1. /\ running' \in Seq(Req) /\ ToSet(running') = ToSet(running) \cap (Req \ S)
          /\ waiting' \in Seq(Req) /\ ToSet(waiting') = ToSet(waiting) \cap (Req \ S)
      BY <1>0, <1>1, AmongMembers
    <3> QED BY <2>1, <3>1
  <2>3. \A s \in Req : /\ s \in ToSet(running') <=> reqs'[s].status = "running"
                       /\ s \in ToSet(waiting') <=> reqs'[s].status \in {"waiting", "preempted"}
    BY <1>1, <1>8, <2>2
  <2> QED BY <1>0, <1>1, <1>7, <2>2, <2>3 DEF ListsOK, Status
<1>10. Sound(kv', conf.blocks) /\ TablesOK(kv)'
  <2> DEFINE refs == out.refs
  <2>1. refs \in Seq([req : Req, index : Int, block : Block])
        /\ kv' = FreeAll(ReleaseRefs(kv, refs), stops)
    BY <1>0, <1>2
  <2>2. \A r \in Req :
           reqs'[r].status = IF r \in ToSet(stops) THEN "finished" ELSE reqs[r].status
    BY <1>8 DEF S
  <2> HIDE DEF refs
  <2> QED BY <1>4, <2>1, <2>2, UpdateTables
<1>11. ASSUME NEW r \in Req
       PROVE  Numbered(reqs'[r], r) /\ reqs'[r].ntok \in Nat /\ reqs'[r].computed \in Nat
  <2>1. Numbered(reqs[r], r) /\ reqs[r].ntok \in Nat /\ reqs[r].computed \in Nat
    BY <1>0, IdleOK
  <2>2. Prompt[r] \in Nat /\ MaxOut[r] \in Nat
    BY TokensAssumption
  <2>3. /\ reqs'[r].computed = reqs[r].computed
        /\ reqs'[r].ntok = (IF r \in G THEN reqs[r].ntok + 1 ELSE reqs[r].ntok)
        /\ reqs'[r].status = (IF r \in S THEN "finished" ELSE reqs[r].status)
    BY <1>6 DEF Updated
  <2>4. r \in G /\ r \notin S => reqs[r].ntok + 1 < Prompt[r] + MaxOut[r]
    BY <1>4, <2>1, <2>2
  <2>5. r \in G => reqs[r].status # "finished"
    BY <1>3
  <2>6. CASE r \in G
    BY <2>1, <2>2, <2>3, <2>4, <2>5, <2>6 DEF Numbered
  <2>7. CASE r \notin G
    BY <1>4, <2>1, <2>2, <2>3, <2>7 DEF Numbered
  <2> QED BY <2>6, <2>7
<1>12. ASSUME NEW s \in prev' PROVE reqs'[s].status # "preempted"
  <2>1. s \in Req /\ reqs[s].status # "preempted"
    BY <1>0, IdleOK
  <2> QED BY <1>8, <2>1
<1>13. /\ flight' \in Seq(Output) /\ Len(flight') <= Len(flight) /\ ended' \subseteq Req
       /\ prev' \subseteq prev
  BY <1>0, <1>1, <1>4, OldestOutput
<1> QED
  BY <1>0, <1>9, <1>10, <1>11, <1>12, <1>13, BetweenOK

\* A cache t with another pool, for the same tables.
Repooled(c, t, q, B) ==
  /\ Sound(t, B) /\ t.pool = q
  /\ t.attn = c.attn /\ t.mamba = c.mamba /\ t.pend = c.pend /\ SameOrders(c, t)

\* A change of the indexes that spares all holders.
LEMMA RepooledOK ==
  ASSUME NEW c, NEW B \in SUBSET Block, Sound(c, B), NEW q,
         PoolOK(q, Holding(c), B), \A x \in Holder : Spares(c.pool, Holding(c), q, Holding(c), x),
         NEW t, t = [c EXCEPT !.pool = q]
  PROVE  Repooled(c, t, q, B)
<1>1. c \in Cache /\ \A y \in Holder : TableOK(c, y)
  BY DEF Sound
<1>2. q \in QueuePool
  BY DEF PoolOK
<1>3. t \in Cache
  BY <1>1, <1>2 DEF Cache
<1>4. /\ t.pool = q /\ t.attn = c.attn /\ t.mamba = c.mamba /\ t.pend = c.pend
      /\ SameOrders(c, t)
  BY <1>1 DEF Cache, SameOrders
<1>5. Holding(t) = Holding(c)
  BY <1>4 DEF Holding, HeldBy
<1>6. ASSUME NEW x \in Holder, NEW y \in Holder \ {x}
      PROVE  TableOK(t, y)
  <2>1. Spares(c.pool, Holding(c), t.pool, Holding(t), x)
    BY <1>4, <1>5
  <2> QED BY <1>1, <1>3, <1>4, <2>1, OtherOK
<1>7. ASSUME NEW y \in Holder
      PROVE  TableOK(t, y)
  <2>1. PICK r \in Req : y = AttnOf(r) \/ y = MambaOf(r)
    BY HolderCases
  <2>2. AttnOf(r) \in Holder /\ MambaOf(r) \in Holder /\ AttnOf(r) # MambaOf(r)
    BY <1>1, CacheFields
  <2> QED BY <1>6, <2>1, <2>2
<1>8. PoolOK(t.pool, Holding(t), B)
  BY <1>4, <1>5
<1> QED
  BY <1>3, <1>4, <1>7, <1>8 DEF Sound, Repooled

\* Without tables all blocks are free.
LEMMA AllFree ==
  ASSUME NEW c, NEW B \in SUBSET Block, Sound(c, B),
         \A r \in Req : c.attn[r] = NoAttn /\ c.mamba[r] = NoMamba
  PROVE  NumFree(c.pool) = Cardinality(B)
<1> DEFINE q == c.pool
           h == Holding(c)
<1>1. PoolOK(q, h, B)
  BY DEF Sound
<1>2. h = [x \in Holder |-> {}]
  BY NoTables
<1> HIDE DEF q, h
<1>3. q.queue \in Queue(Block) /\ ToSet(q.queue) = {b \in B : q.ref[b] = 0}
  BY <1>1, PoolFacts
<1>4. \A b \in Block : q.ref[b] = Cardinality(HoldersOf(h, b))
  BY <1>1 DEF PoolOK, Counted
<1>5. \A b \in Block : HoldersOf(h, b) = {}
  BY <1>2 DEF HoldersOf
<1>6. Cardinality({}) = 0
  BY FS_EmptySet
<1>7. \A b \in B : q.ref[b] = 0
  BY <1>4, <1>5, <1>6
<1>8. ToSet(q.queue) = B
  BY <1>3, <1>7
<1>9. Cardinality(ToSet(q.queue)) = Len(q.queue)
  BY <1>3, QueueSize
<1> QED
  BY <1>8, <1>9 DEF NumFree, q

\* A reset: the requests of out give their blocks back, and the pool of what is left
\* then is reset, or raises.
Resets(out, force, freed) ==
  /\ freed = FreeAll(kv, Reverse(out))
  /\ kv' = [freed EXCEPT !.pool = [ResetPrefixCache(freed.pool) EXCEPT
              !.raised = @ \/ (force /\ NumFree(freed.pool) < Cardinality(conf.blocks))]]

\* The tables behind a reset.
LEMMA ResetTables ==
  ASSUME IInv, NEW out \in Seq(Req), NEW force \in BOOLEAN, NEW freed,
         force => out = running, Resets(out, force, freed)
  PROVE  /\ Sound(kv', conf.blocks) /\ SameOrders(kv, kv')
         /\ \A r \in Req : IF r \in ToSet(out)
                           THEN kv'.attn[r] = NoAttn /\ kv'.mamba[r] = NoMamba
                           ELSE /\ kv'.attn[r] = kv.attn[r] /\ kv'.mamba[r] = kv.mamba[r]
                                /\ kv'.pend[r] = kv.pend[r]
<1> DEFINE B == conf.blocks
           S == ToSet(out)
<1>1. B \in SUBSET Block /\ Sound(kv, B) /\ TablesOK(kv)
  BY InvFacts
<1>2. AllFreed(kv, freed, S, B)
  <2> DEFINE rs == Reverse(out)
  <2>1. rs \in Seq(Req) /\ ToSet(rs) = S
    BY MembersReverse
  <2>2. freed = FreeAll(kv, rs)
    BY DEF Resets
  <2> HIDE DEF rs, B, S
  <2>3. AllFreed(kv, FreeAll(kv, rs), ToSet(rs), B)
    BY <1>1, <2>1, FreeAllOK
  <2> QED BY <2>1, <2>2, <2>3
<1>3. Sound(freed, B)
  BY <1>2 DEF AllFreed
<1>4. force => NumFree(freed.pool) = Cardinality(B)
  <2>1. SUFFICES ASSUME force PROVE NumFree(freed.pool) = Cardinality(B)
    OBVIOUS
  <2>2. \A r \in Req : r \in S <=> reqs[r].status = "running"
    BY <2>1, InvFacts
  <2>3. \A r \in Req : freed.attn[r] = NoAttn /\ freed.mamba[r] = NoMamba
    BY <1>1, <1>2, <2>2 DEF AllFreed, TablesOK
  <2> HIDE DEF B
  <2> QED BY <1>1, <1>3, <2>3, AllFree
<1> DEFINE raises == force /\ NumFree(freed.pool) < Cardinality(B)
           q == ResetPrefixCache(freed.pool)
<1>5. raises = FALSE
  <2>1. Cardinality(B) \in Nat
    <3>1. IsFiniteSet(B)
      BY <1>1, FiniteBlocks
    <3> QED BY <3>1, FS_CardinalityType
  <2> QED BY <1>4, <2>1
<1>6. kv' = [freed EXCEPT !.pool = [q EXCEPT !.raised = @ \/ raises]]
  BY DEF Resets
<1> HIDE DEF raises
<1>7. PoolOK(freed.pool, Holding(freed), B)
  BY <1>3 DEF Sound
<1>8. /\ PoolOK(q, Holding(freed), B)
      /\ \A x \in Holder : Spares(freed.pool, Holding(freed), q, Holding(freed), x)
  <2> DEFINE p == freed.pool
             h == Holding(freed)
  <2>1. PoolOK(p, h, B)
    BY <1>7
  <2> HIDE DEF p, h, B
  <2>2. PoolOK(ResetPrefixCache(p), h, B) /\ \A x \in Holder : Spares(p, h, ResetPrefixCache(p), h, x)
    BY <1>1, <2>1, ResetPool
  <2> QED BY <2>2 DEF p, h
<1>9. [q EXCEPT !.raised = @ \/ raises] = q
  <2>1. q \in QueuePool /\ q.raised = FALSE
    <3> DEFINE h == Holding(freed)
    <3>1. PoolOK(q, h, B)
      BY <1>8
    <3> HIDE DEF q, h, B
    <3> QED BY <1>1, <3>1, PoolFacts
  <2> HIDE DEF q
  <2>2. (q.raised \/ raises) = FALSE
    BY <1>5, <2>1
  <2>3. [q EXCEPT !.raised = FALSE] = q
    BY <2>1 DEF QueuePool
  <2> QED BY <2>2, <2>3
<1>10. kv' = [freed EXCEPT !.pool = q]
  BY <1>6, <1>9
<1> HIDE DEF q, B
<1>11. Repooled(freed, kv', q, B)
  BY <1>1, <1>3, <1>8, <1>10, RepooledOK
<1>12. /\ Sound(kv', B)
       /\ kv'.attn = freed.attn /\ kv'.mamba = freed.mamba /\ kv'.pend = freed.pend
  BY <1>11 DEF Repooled
<1>13. \A r \in Req : IF r \in S
                      THEN freed.attn[r] = NoAttn /\ freed.mamba[r] = NoMamba
                      ELSE /\ freed.attn[r] = kv.attn[r] /\ freed.mamba[r] = kv.mamba[r]
                           /\ freed.pend[r] = kv.pend[r]
  BY <1>2 DEF AllFreed
<1>14. SameOrders(kv, kv')
  BY <1>2, <1>11 DEF AllFreed, Repooled, SameOrders
<1> QED
  BY <1>12, <1>13, <1>14 DEF B

\* The lists behind a reset.
ResetLists(out) ==
  /\ running' \in Seq(Req) /\ waiting' \in Seq(Req)
  /\ ToSet(running') = ToSet(running) \ ToSet(out)
  /\ ToSet(waiting') = ToSet(out) \cup ToSet(waiting)
  /\ prev' \subseteq prev /\ \A r \in prev' : r \notin ToSet(out)

\* reset_prefix_cache.
LEMMA ResetOK == \A force \in BOOLEAN : IInv /\ Reset(force) => IInv'
<1> SUFFICES ASSUME NEW force \in BOOLEAN, IInv, Reset(force) PROVE IInv'
  OBVIOUS
<1> DEFINE out   == IF force THEN running ELSE <<>>
           freed == FreeAll(kv, Reverse(out))
           S     == ToSet(out)
<1>0. /\ step.phase = "idle"
      /\ reqs' = Preempted(S)
      /\ running' = IF force THEN <<>> ELSE running
      /\ waiting' = out \o waiting
      /\ prev' = IF force THEN {} ELSE prev
      /\ conf' = conf /\ step' = step /\ ended' = ended /\ flight' = flight
  BY DEF Reset, BetweenSteps
<1>1. Resets(out, force, freed)
  BY DEF Reset, Resets
<1>2. /\ reqs \in [Req -> Status] /\ running \in Seq(Req) /\ waiting \in Seq(Req)
      /\ \A s \in Req : /\ s \in ToSet(running) <=> reqs[s].status = "running"
                        /\ s \in ToSet(waiting) <=> reqs[s].status \in {"waiting", "preempted"}
      /\ conf \in Settings /\ flight \in Seq(Output) /\ Len(flight) \in Nat
      /\ ended \subseteq Req /\ TablesOK(kv)
  BY InvFacts
<1>3. out \in Seq(Req) /\ (force => out = running)
  BY <1>2
<1>4. ToSet(<<>>) = {} /\ <<>> \in Seq(Req)
  BY QueueEmpty
<1>5. ResetLists(out)
  <2>1. ToSet(running') = ToSet(running) \ S /\ running' \in Seq(Req)
    <3>1. CASE force
      BY <1>0, <1>2, <1>4, <3>1
    <3>2. CASE ~force
      BY <1>0, <1>2, <1>4, <3>2
    <3> QED BY <3>1, <3>2
  <2>2. waiting' \in Seq(Req) /\ ToSet(waiting') = S \cup ToSet(waiting)
    <3>1. waiting' = out \o waiting
      BY <1>0
    <3> HIDE DEF out
    <3> QED BY <1>2, <1>3, <3>1, MembersConcat
  <2>3. prev' \subseteq prev /\ \A r \in prev' : r \notin S
    BY <1>0, <1>4
  <2> QED BY <2>1, <2>2, <2>3 DEF ResetLists
<1>6. S \subseteq ToSet(running)
  BY <1>4
<1> HIDE DEF out, freed
<1>7. \A r \in Req : /\ reqs'[r].status = (IF r \in S THEN "preempted" ELSE reqs[r].status)
                     /\ reqs'[r].computed = (IF r \in S THEN 0 ELSE reqs[r].computed)
                     /\ reqs'[r].ntok = reqs[r].ntok /\ reqs'[r] \in Status
  <2> HIDE DEF S
  <2>1. ASSUME NEW r \in Req
        PROVE  /\ reqs'[r].status = (IF r \in S THEN "preempted" ELSE reqs[r].status)
               /\ reqs'[r].computed = (IF r \in S THEN 0 ELSE reqs[r].computed)
               /\ reqs'[r].ntok = reqs[r].ntok /\ reqs'[r] \in Status
    <3>1. reqs'[r] = IF r \in S THEN [reqs[r] EXCEPT !.status = "preempted", !.computed = 0]
                     ELSE reqs[r]
      BY <1>0 DEF Preempted
    <3>2. reqs[r] \in Status
      BY <1>2
    <3>3. CASE r \in S
      <4>1. reqs'[r] = [reqs[r] EXCEPT !.status = "preempted", !.computed = 0]
        BY <3>1, <3>3
      <4>2. /\ reqs'[r].status = "preempted" /\ reqs'[r].computed = 0
            /\ reqs'[r].ntok = reqs[r].ntok
        BY <3>2, <4>1 DEF Status
      <4>3. [reqs[r] EXCEPT !.status = "preempted", !.computed = 0] \in Status
        BY <3>2 DEF Status
      <4> QED BY <3>3, <4>1, <4>2, <4>3
    <3>4. CASE r \notin S
      BY <3>1, <3>2, <3>4
    <3> QED BY <3>3, <3>4
  <2> QED BY <2>1
<1>8. reqs' \in [Req -> Status]
  <2>1. reqs' = [r \in Req |-> reqs'[r]]
    BY <1>0 DEF Preempted
  <2> QED BY <1>7, <2>1
<1>9. ListsOK'
  <2>1. /\ running' \in Seq(Req) /\ waiting' \in Seq(Req)
        /\ ToSet(running') = ToSet(running) \ S /\ ToSet(waiting') = S \cup ToSet(waiting)
    BY <1>5 DEF ResetLists
  <2> HIDE DEF S
  <2>2. \A s \in Req : /\ s \in ToSet(running') <=> reqs'[s].status = "running"
                       /\ s \in ToSet(waiting') <=> reqs'[s].status \in {"waiting", "preempted"}
    BY <1>2, <1>6, <1>7, <2>1
  <2> QED BY <1>0, <1>2, <1>8, <2>1, <2>2 DEF ListsOK, Status
<1>10. /\ Sound(kv', conf.blocks)
       /\ \A r \in Req : IF r \in S
                         THEN kv'.attn[r] = NoAttn /\ kv'.mamba[r] = NoMamba
                         ELSE /\ kv'.attn[r] = kv.attn[r] /\ kv'.mamba[r] = kv.mamba[r]
                              /\ kv'.pend[r] = kv.pend[r]
  BY <1>1, <1>3, ResetTables
<1> HIDE DEF S
<1>11. TablesOK(kv)'
  <2>1. ASSUME NEW s \in Req
        PROVE  IF reqs'[s].status = "running" THEN kv'.mamba[s].alloc /\ kv'.pend[s] = None
               ELSE kv'.attn[s] = NoAttn /\ kv'.mamba[s] = NoMamba
    <3>1. CASE s \in S
      BY <1>7, <1>10, <3>1
    <3>2. CASE s \notin S
      BY <1>2, <1>7, <1>10, <3>2 DEF TablesOK
    <3> QED BY <3>1, <3>2
  <2> QED BY <2>1 DEF TablesOK
<1>12. ASSUME NEW s \in Req
       PROVE  Numbered(reqs'[s], s) /\ reqs'[s].ntok \in Nat /\ reqs'[s].computed \in Nat
  <2>1. Numbered(reqs[s], s) /\ reqs[s].ntok \in Nat /\ reqs[s].computed \in Nat
    BY <1>0, IdleOK
  <2>2. s \in S => reqs[s].status = "running"
    BY <1>2, <1>6
  <2>3. CASE s \in S
    BY <1>7, <2>1, <2>2, <2>3 DEF Numbered
  <2>4. CASE s \notin S
    BY <1>7, <2>1, <2>4 DEF Numbered
  <2> QED BY <2>3, <2>4
<1>13. /\ ended' \subseteq Req /\ flight' \in Seq(Output) /\ Len(flight') <= Len(flight)
       /\ prev' \subseteq prev
  BY <1>0, <1>2, <1>5 DEF ResetLists
<1>14. ASSUME NEW s \in prev' PROVE reqs'[s].status # "preempted"
  <2>1. s \in prev /\ s \notin S
    BY <1>5 DEF ResetLists, S
  <2>2. s \in Req /\ reqs[s].status # "preempted"
    BY <1>0, <2>1, IdleOK
  <2> QED BY <1>7, <2>1, <2>2
<1> QED
  BY <1>0, <1>9, <1>10, <1>11, <1>12, <1>13, <1>14, BetweenOK

\* Every step keeps the invariant.
LEMMA NextOK == IInv /\ [Next]_vars => IInv'
<1> SUFFICES ASSUME IInv, [Next]_vars PROVE IInv'
  OBVIOUS
<1>1. CASE \E r \in Req : Arrive(r)
  BY <1>1, ArriveOK
<1>2. CASE \E r \in Req : Abort(r)
  BY <1>2, AbortOK
<1>3. CASE \E force \in BOOLEAN : Reset(force)
  BY <1>3, ResetOK
<1>4. CASE Engines
  BY <1>4, BeginOK, PickOK, ScheduleRunningOK, PreemptOK, EndRunningOK, AdmitOK, HoldBackOK,
     EndWaitingOK, EmitOK, ExecuteOK, UpdateOK DEF Engines
<1>5. CASE UNCHANGED vars
  <2>1. UNCHANGED <<conf, reqs, running, waiting, kv, step, prev, ended, flight>>
    BY <1>5 DEF vars, sched
  <2>2. ListsOK' <=> ListsOK
    BY <2>1 DEF ListsOK
  <2>3. NumbersOK' <=> NumbersOK
    BY <2>1 DEF NumbersOK
  <2>4. StepOK' <=> StepOK
    BY <2>1 DEF StepOK, Depth
  <2>5. ResumesOK' <=> ResumesOK
    BY <2>1 DEF ResumesOK
  <2>6. TablesOK(kv)' <=> TablesOK(kv)
    BY <2>1 DEF TablesOK
  <2>7. Sound(kv, conf.blocks)' <=> Sound(kv, conf.blocks)
    BY <2>1
  <2> QED BY <2>1, <2>2, <2>3, <2>4, <2>5, <2>6, <2>7 DEF IInv, Depth
<1>6. CASE AllEnded
  BY <1>5, <1>6 DEF AllEnded
<1> QED
  BY <1>1, <1>2, <1>3, <1>4, <1>5, <1>6 DEF Next

-----------------------------------------------------------------------------
(* What the invariant says of the counts.                                  *)

\* The places at which a table names a block.
Places(x, b) == {i \in DOMAIN Kept(x[1], x[2]) : Kept(x[1], x[2])[i] = b}

\* It names a block that it holds, at one place.
LEMMA NamedOnce ==
  ASSUME IInv, NEW x \in Holder, NEW b \in Block
  PROVE  /\ b \in Holding(kv)[x] <=> Places(x, b) # {}
         /\ \A i, j \in Places(x, b) : i = j
<1>1. Sound(kv, conf.blocks) /\ kv \in Cache /\ b # Null
  BY InvFacts, NullAssumption
<1>2. PICK r \in Req : x = AttnOf(r) \/ x = MambaOf(r)
  BY HolderCases
<1>3. TableOK(kv, AttnOf(r)) /\ TableOK(kv, MambaOf(r))
  BY <1>1, CacheFields DEF Sound
<1> DEFINE a == kv.attn[r]
           bs == kv.mamba[r].blocks
<1>4. CASE x = AttnOf(r)
  <2> DEFINE k == a.blocks \o a.pinned
  <2>1. /\ a.blocks \in Queue(Block) /\ a.pinned \in Queue(Block)
        /\ ToSet(a.blocks) \cap ToSet(a.pinned) = {}
    <3>1. AttnOK(kv.pool, Holding(kv), r, a)
      BY <1>3, AttnTableOK
    <3> QED BY <3>1 DEF AttnOK, AttnShape
  <2>2. k \in Queue(Block) /\ ToSet(k) = ToSet(a.blocks) \cup ToSet(a.pinned)
    BY <2>1, QueueConcat
  <2>3. Holding(kv)[x] = ToSet(a.blocks) \cup ToSet(a.pinned)
    BY <1>4, AttnHolds
  <2>4. Places(x, b) = {i \in DOMAIN k : k[i] = b}
    BY <1>4 DEF Places, Kept, AttnOf
  <2> HIDE DEF k, a
  <2>5. k \in Seq(Block) /\ \A i, j \in 1 .. Len(k) : k[i] = k[j] => i = j
    BY <2>2, QueuePlaces
  <2>6. DOMAIN k = 1 .. Len(k)
    BY <2>5, LenProperties
  <2>7. b \in ToSet(k) <=> \E i \in 1 .. Len(k) : k[i] = b
    BY <2>5, Members
  <2> QED BY <2>2, <2>3, <2>4, <2>5, <2>6, <2>7
<1>5. CASE x = MambaOf(r)
  <2>1. bs \in Seq(Block \cup {Null})
    BY <1>1, TableLists
  <2>2. MambaShape(bs)
    <3>1. MambaOK(kv.pool, Holding(kv), r, kv.mamba[r])
      BY <1>3, MambaTableOK
    <3> QED BY <3>1 DEF MambaOK
  <2>3. Holding(kv)[x] = ToSet(bs) \ {Null}
    BY <1>5, MambaHolds
  <2>4. Places(x, b) = {i \in DOMAIN bs : bs[i] = b}
    BY <1>5 DEF Places, Kept, MambaOf
  <2> HIDE DEF bs
  <2>5. DOMAIN bs = 1 .. Len(bs)
    BY <2>1, LenProperties
  <2>6. b \in ToSet(bs) <=> \E i \in 1 .. Len(bs) : bs[i] = b
    BY <2>1, Members
  <2>7. \A i, j \in 1 .. Len(bs) : bs[i] = b /\ bs[j] = b => i = j
    BY <1>1, <2>2 DEF MambaShape
  <2> QED BY <1>1, <2>3, <2>4, <2>5, <2>6, <2>7
<1> QED
  BY <1>2, <1>4, <1>5

\* Tables and pins name a block as often as it has holders.
LEMMA ReferencesCount ==
  ASSUME IInv, NEW b \in Block
  PROVE  References(b) = Cardinality(HoldersOf(Holding(kv), b))
<1> DEFINE at == [x \in Holder |-> Places(x, b)]
           all == UNION {{x} \X at[x] : x \in Holder}
<1>1. \A x \in Holder : /\ at[x] = Places(x, b)
                        /\ b \in Holding(kv)[x] <=> at[x] # {}
                        /\ \A i, j \in at[x] : i = j
  BY NamedOnce
<1>2. References(b) = Cardinality(all)
  <2>1. all = UNION {{x} \X {i \in DOMAIN Kept(x[1], x[2]) : Kept(x[1], x[2])[i] = b} :
                       x \in Groups \X Req}
    BY DEF Holder, Places
  <2> QED BY <2>1 DEF References
<1> HIDE DEF at
<1>3. Cardinality(all) = Cardinality({x \in Holder : at[x] # {}})
  BY <1>1, HoldersFinite, OneEach, SMTT(40)
<1>4. {x \in Holder : at[x] # {}} = HoldersOf(Holding(kv), b)
  BY <1>1 DEF HoldersOf
<1> QED
  BY <1>2, <1>3, <1>4

\* What the invariant is for.
LEMMA InvAccounted == IInv => Accounted
<1> SUFFICES ASSUME IInv PROVE Accounted
  OBVIOUS
<1>1. TypeOK
  <2>1. /\ reqs \in [Req -> Status] /\ running \in Seq(Req) /\ waiting \in Seq(Req)
        /\ \A r \in Req : /\ r \in ToSet(running) <=> reqs[r].status = "running"
                          /\ r \in ToSet(waiting) <=> reqs[r].status \in {"waiting", "preempted"}
        /\ Len(flight) <= Depth
    BY InvFacts
  <2>2. \A r \in Req : /\ Contains(running, r) <=> r \in ToSet(running)
                       /\ Contains(waiting, r) <=> r \in ToSet(waiting)
    BY <2>1, ContainsMember
  <2> QED BY <2>1, <2>2 DEF TypeOK, Status
<1> DEFINE q == kv.pool
           h == Holding(kv)
           B == conf.blocks
<1>2. PoolOK(q, h, B) /\ B \in SUBSET Block
  BY InvFacts, SoundFacts
<1>3. \A b \in Block : References(b) = Cardinality(HoldersOf(h, b))
  BY ReferencesCount
<1> HIDE DEF q, h, B
<1>4. q.raised = FALSE /\ q.queue \in Queue(Block) /\ ToSet(q.queue) = {b \in B : q.ref[b] = 0}
  BY <1>2, PoolFacts
<1>5. \A b \in Block : q.ref[b] = Cardinality(HoldersOf(h, b))
  BY <1>2 DEF PoolOK, Counted
<1>6. NoException
  BY <1>4 DEF NoException, q
<1>7. RefsExact
  <2>1. q.queue \in Seq(Block) /\ \A i, j \in 1 .. Len(q.queue) : q.queue[i] = q.queue[j] => i = j
    BY <1>4, QueuePlaces
  <2>2. IsInjective(q.queue)
    <3>1. DOMAIN q.queue = 1 .. Len(q.queue)
      BY <2>1, LenProperties
    <3> QED BY <2>1, <3>1 DEF IsInjective
  <2>3. \A b \in B : /\ q.ref[b] = References(b)
                     /\ Contains(q.queue, b) <=> References(b) = 0
    <3>1. \A b \in B : b \in Block /\ q.ref[b] = References(b)
      BY <1>2, <1>3, <1>5
    <3>2. \A b \in B : Contains(q.queue, b) <=> b \in ToSet(q.queue)
      BY <2>1, ContainsMember
    <3> QED BY <1>4, <3>1, <3>2
  <2> QED BY <2>2, <2>3 DEF RefsExact, q, B
<1> QED
  BY <1>1, <1>6, <1>7 DEF Accounted

\* The invariant holds in every state.
THEOREM EngineInvariant == Spec => []IInv
<1>1. Init => IInv
  BY InitOK
<1>2. IInv /\ [Next]_vars => IInv'
  BY NextOK
<1> QED
  BY <1>1, <1>2, PTL DEF Spec

\* Accounted holds.
THEOREM EngineAccounted == Spec => []Accounted
<1>1. IInv => Accounted
  BY InvAccounted
<1> QED
  BY <1>1, EngineInvariant, PTL

-----------------------------------------------------------------------------
(* The copies of a step.                                                   *)

\* CopiesIndependent, and what it needs of a step in progress: the blocks to be zeroed
\* have no partial entry while nothing was preempted in the step, so that the source of a
\* copy, a pinned block behind such an entry, is none of them; between two steps there
\* are neither copies nor blocks to be zeroed.
CopiesApart ==
  /\ CopiesIndependent /\ CopiesSafe(kv)
  /\ step.phase = "idle" => kv.fresh = <<>>
  /\ step.phase \in {"idle", "running"} => kv.copies = <<>>
  /\ step.phase \in {"running", "waiting"} /\ step.preempted = {} => FreshBare(kv)

\* Without copies and without blocks to be zeroed there is nothing to keep apart.
LEMMA NoOrders ==
  ASSUME NEW c, c.fresh = <<>>, c.copies = <<>>
  PROVE  CopiesSafe(c) /\ FreshBare(c)
<1>1. ToSet(<<>>) = {}
  BY QueueEmpty
<1> QED
  BY <1>1 DEF CopiesSafe, FreshBare

\* Nothing is ordered behind such a step.
LEMMA NoOrdersApart ==
  ASSUME CopiesIndependent', kv'.fresh = <<>>, kv'.copies = <<>>
  PROVE  CopiesApart'
<1>1. CopiesSafe(kv') /\ FreshBare(kv')
  BY NoOrders
<1>2. (CopiesSafe(kv))' /\ (FreshBare(kv))'
  BY <1>1 DEF CopiesSafe, CopySafe, FreshBare
<1> QED
  BY <1>2 DEF CopiesApart

\* A step of schedule() before the output.
LEMMA OrdersApart ==
  ASSUME CopiesApart, flight' = flight, step'.phase # "idle", CopiesSafe(kv'),
         step'.phase = "running" => kv'.copies = <<>>,
         step'.phase # "output" /\ step'.preempted = {} => FreshBare(kv')
  PROVE  CopiesApart'
<1>1. CopiesIndependent'
  BY DEF CopiesApart, CopiesIndependent
<1>2. (CopiesSafe(kv))'
  BY DEF CopiesSafe, CopySafe
<1>3. (FreshBare(kv))' <=> FreshBare(kv')
  BY DEF FreshBare
<1> QED
  BY <1>1, <1>2, <1>3 DEF CopiesApart

\* The initial states order nothing.
LEMMA InitApart == Init => CopiesApart
<1> SUFFICES ASSUME Init PROVE CopiesApart
  OBVIOUS
<1>1. flight = <<>> /\ step = Idle
  BY DEF Init
<1>2. kv.fresh = <<>> /\ kv.copies = <<>>
  BY DEF Init, NewCache
<1>3. CopiesIndependent
  BY <1>1 DEF CopiesIndependent
<1> QED
  BY <1>2, <1>3, NoOrders DEF CopiesApart

\* Calls between two steps, and update_from_output: nothing is ordered.
LEMMA IdleApart ==
  ASSUME CopiesApart, step.phase = "idle", SameOrders(kv, kv'), CopiesIndependent'
  PROVE  CopiesApart'
<1>1. kv'.fresh = <<>> /\ kv'.copies = <<>>
  BY DEF CopiesApart, SameOrders
<1> QED
  BY <1>1, NoOrdersApart

\* add_request.
LEMMA ArriveApart == \A r \in Req : CopiesApart /\ Arrive(r) => CopiesApart'
<1> SUFFICES ASSUME NEW r \in Req, CopiesApart, Arrive(r) PROVE CopiesApart'
  OBVIOUS
<1>1. step.phase = "idle" /\ kv' = kv /\ flight' = flight
  BY DEF Arrive, BetweenSteps
<1>2. SameOrders(kv, kv') /\ CopiesIndependent'
  BY <1>1 DEF SameOrders, CopiesApart, CopiesIndependent
<1> QED
  BY <1>1, <1>2, IdleApart

\* finish_requests.
LEMMA AbortApart == \A r \in Req : IInv /\ CopiesApart /\ Abort(r) => CopiesApart'
<1> SUFFICES ASSUME NEW r \in Req, IInv, CopiesApart, Abort(r) PROVE CopiesApart'
  OBVIOUS
<1>1. step.phase = "idle" /\ kv' = Free(kv, r) /\ flight' = flight
  BY DEF Abort, BetweenCalls
<1>2. Freed(kv, kv', r, conf.blocks)
  BY <1>1, InvFacts, FreeOK
<1>3. SameOrders(kv, kv') /\ CopiesIndependent'
  BY <1>1, <1>2 DEF Freed, CopiesApart, CopiesIndependent
<1> QED
  BY <1>1, <1>3, IdleApart

\* reset_prefix_cache.
LEMMA ResetApart == \A force \in BOOLEAN : IInv /\ CopiesApart /\ Reset(force) => CopiesApart'
<1> SUFFICES ASSUME NEW force \in BOOLEAN, IInv, CopiesApart, Reset(force) PROVE CopiesApart'
  OBVIOUS
<1> DEFINE out   == IF force THEN running ELSE <<>>
           freed == FreeAll(kv, Reverse(out))
<1>1. step.phase = "idle" /\ flight' = flight
  BY DEF Reset, BetweenSteps
<1>2. Resets(out, force, freed)
  BY DEF Reset, Resets
<1>3. out \in Seq(Req) /\ (force => out = running)
  BY InvFacts
<1> HIDE DEF out, freed
<1>4. SameOrders(kv, kv')
  BY <1>2, <1>3, ResetTables
<1>5. CopiesIndependent'
  BY <1>1 DEF CopiesApart, CopiesIndependent
<1> QED
  BY <1>1, <1>4, <1>5, IdleApart

\* update_from_output: the oldest output is gone.
LEMMA UpdateApart == IInv /\ CopiesApart /\ Update => CopiesApart'
<1> SUFFICES ASSUME IInv, CopiesApart, Update PROVE CopiesApart'
  OBVIOUS
<1> DEFINE refs  == Head(flight).refs
           got   == Sampled(Head(flight))
           stops == Among(got, {r \in Req : reqs[r].ntok + 1 >= Prompt[r] + MaxOut[r]})
           n     == Len(flight)
<1>1. /\ step.phase = "idle" /\ flight # <<>> /\ flight' = Tail(flight)
      /\ kv' = FreeAll(ReleaseRefs(kv, refs), stops)
  BY DEF Update
<1>2. refs \in Seq([req : Req, index : Int, block : Block]) /\ Head(flight).order \in Seq(Req)
  BY <1>1, OldestOutput
<1>3. stops \in Seq(Req)
  <2>1. got \in Seq(Req)
    BY <1>2, AmongMembers DEF Sampled
  <2> HIDE DEF got
  <2> QED BY <2>1, AmongMembers
<1> HIDE DEF refs, got, stops
<1>4. SameOrders(kv, kv')
  <2> DEFINE u == ReleaseRefs(kv, refs)
  <2>1. conf.blocks \in SUBSET Block /\ Sound(kv, conf.blocks)
    BY InvFacts
  <2>2. MambaSteps(kv, u, conf.blocks)
    BY <1>2, <2>1, ReleaseRefsOK
  <2>3. kv' = FreeAll(u, stops)
    BY <1>1
  <2> HIDE DEF u
  <2>4. AllFreed(u, kv', ToSet(stops), conf.blocks)
    BY <1>3, <2>1, <2>2, <2>3, FreeAllOK DEF MambaSteps
  <2> QED BY <2>2, <2>4 DEF AllFreed, MambaSteps, SameOrders
<1>5. CopiesIndependent'
  <2>1. flight \in Seq(Output) /\ n \in Nat /\ DOMAIN flight = 1 .. n
    BY InvFacts, LenProperties
  <2>2. /\ flight' \in Seq(Output) /\ Len(flight') = n - 1
        /\ \A k \in 1 .. n - 1 : flight'[k] = flight[k + 1]
    BY <1>1, <2>1, HeadTailProperties
  <2>3. DOMAIN flight' = 1 .. n - 1
    BY <2>2, LenProperties
  <2> HIDE DEF n
  <2>4. \A k \in DOMAIN flight' : k + 1 \in DOMAIN flight /\ flight'[k] = flight[k + 1]
    BY <2>1, <2>2, <2>3
  <2> QED BY <2>4 DEF CopiesApart, CopiesIndependent
<1> QED
  BY <1>1, <1>4, <1>5, IdleApart

\* schedule() begins.
LEMMA BeginApart == IInv /\ CopiesApart /\ Begin => CopiesApart'
<1> SUFFICES ASSUME IInv, CopiesApart, Begin PROVE CopiesApart'
  OBVIOUS
<1>1. step.phase = "idle" /\ kv' = NewStepStarts(kv) /\ flight' = flight
  BY DEF Begin
<1>2. MarksMoved(kv, kv', conf.blocks)
  BY <1>1, InvFacts, NewStepStartsOK
<1>3. SameOrders(kv, kv') /\ CopiesIndependent'
  BY <1>1, <1>2 DEF MarksMoved, SameOrders, CopiesApart, CopiesIndependent
<1> QED
  BY <1>1, <1>3, IdleApart

\* A running request orders no copies: only the source of a hit is copied.
LEMMA ScheduleRunningApart == IInv /\ CopiesApart /\ ScheduleRunning => CopiesApart'
<1> SUFFICES ASSUME IInv, CopiesApart, ScheduleRunning PROVE CopiesApart'
  OBVIOUS
<1>1. step.phase = "running" /\ flight' = flight
  BY DEF ScheduleRunning, InRunningLoop
<1>2. PICK r \in step.asks :
        /\ kv' = Attempt(r).kv
        /\ step' = [step EXCEPT
              !.i = @ + 1, !.budget = @ - step.need, !.need = 0, !.asks = {},
              !.order = Append(@, r),
              !.msg[r] = [kind  |-> "running", start |-> reqs[r].computed, n |-> step.need,
                          last  |-> reqs[r].computed + step.need = reqs[r].ntok,
                          attn  |-> Suffix(kv'.attn[r].blocks, kv.attn[r].blocks),
                          mamba |-> Suffix(kv'.mamba[r].blocks, kv.mamba[r].blocks)]]
  BY DEF ScheduleRunning
<1>3. step'.phase = step.phase /\ step'.preempted = step.preempted
  BY <1>2, InvFacts DEF Step
<1>4. r \in Req /\ reqs[r].status = "running"
      /\ Tried(kv, Attempt(r).ok, Attempt(r).kv, r, conf.blocks)
  BY AttemptOK
<1>5. Lays(kv, kv', r) /\ kv.pend[r] = None
  BY <1>2, <1>4, InvFacts DEF Tried, TablesOK
<1>6. kv.copies = <<>> /\ kv'.copies = <<>>
  BY <1>1, <1>5 DEF CopiesApart, Lays
<1>7. CopiesSafe(kv')
  BY <1>6, QueueEmpty DEF CopiesSafe
<1>8. step'.preempted = {} => FreshBare(kv')
  BY <1>1, <1>3, <1>5 DEF CopiesApart, Lays
<1> QED
  BY <1>1, <1>3, <1>6, <1>7, <1>8, OrdersApart

\* The victim gives its blocks back, and nothing is copied for it.
LEMMA PreemptApart == IInv /\ CopiesApart /\ Preempt => CopiesApart'
<1> SUFFICES ASSUME IInv, CopiesApart, Preempt PROVE CopiesApart'
  OBVIOUS
<1> DEFINE v == Victim
<1>1. step.phase = "running" /\ flight' = flight
  BY DEF Preempt, InRunningLoop
<1>2. PICK r \in step.asks : Preempts(r, v)
  BY PreemptsOK
<1>3. /\ r \in Req /\ r \in ToSet(running)
      /\ Tried(kv, Attempt(r).ok, Attempt(r).kv, r, conf.blocks)
  BY AttemptOK
<1>4. v \in Req
  BY <1>3, VictimOK
<1> DEFINE t  == Attempt(r).kv
           ok == Attempt(r).ok
<1> HIDE DEF v
<1>5. Tried(kv, ok, t, r, conf.blocks) /\ ~ok /\ kv' = Free(t, v)
  BY <1>2, <1>3 DEF Preempts
<1> HIDE DEF t, ok
<1>6. Freed(t, kv', v, conf.blocks)
  BY <1>4, <1>5, InvFacts, FreeOK DEF Tried
<1>7. kv'.copies = <<>>
  BY <1>1, <1>5, <1>6 DEF Tried, Keeps, Freed, SameOrders, CopiesApart
<1>8. CopiesSafe(kv')
  BY <1>7, QueueEmpty DEF CopiesSafe
<1>9. step'.phase # "idle" /\ step'.preempted # {}
  BY <1>1, <1>2, <1>4, PreemptStep
<1> QED
  BY <1>1, <1>7, <1>8, <1>9, OrdersApart

\* A request of the waiting queue gets its blocks, the destination of its copy too.
LEMMA AdmitApart == IInv /\ CopiesApart /\ Admit => CopiesApart'
<1> SUFFICES ASSUME IInv, CopiesApart, Admit PROVE CopiesApart'
  OBVIOUS
<1> DEFINE a == Admission
           r == a.r
<1>1. step.phase = "waiting" /\ waiting # <<>> /\ flight' = flight
  BY DEF Admit, InWaitingLoop
<1>2. Admits(a, r)
  BY DEF Admit, Admits
<1>3. Admitted(a)
  BY <1>1, AdmissionOK
<1> HIDE DEF a
<1>4. step.preempted = {}
  BY <1>1 DEF IInv, StepOK
<1>5. FreshBare(kv') /\ CopiesSafe(kv')
  BY <1>1, <1>2, <1>3, <1>4 DEF Admits, Admitted, Safer, CopiesApart
<1>6. step'.phase = step.phase
  <2>1. r \in Req /\ a.kv \in Cache /\ a.start \in Nat /\ a.n \in Nat /\ a.n <= step.budget
    BY <1>3 DEF Admitted, Sound
  <2> QED BY <1>2, <2>1, AdmitStep
<1> QED
  BY <1>1, <1>5, <1>6, OrdersApart

\* The request whose turn it is stays where it is.
LEMMA HoldBackApart == IInv /\ CopiesApart /\ HoldBack => CopiesApart'
<1> SUFFICES ASSUME IInv, CopiesApart, HoldBack PROVE CopiesApart'
  OBVIOUS
<1> DEFINE a == Admission
<1>1. /\ step.phase = "waiting" /\ waiting # <<>> /\ flight' = flight
      /\ step' = [step EXCEPT !.phase = "output"] /\ kv' = a.kv
  BY DEF HoldBack, InWaitingLoop
<1>2. Admitted(a)
  BY <1>1, AdmissionOK
<1> HIDE DEF a
<1>3. step.preempted = {}
  BY <1>1 DEF IInv, StepOK
<1>4. CopiesSafe(kv')
  BY <1>1, <1>2, <1>3 DEF Admitted, Safer, CopiesApart
<1>5. step'.phase = "output"
  BY <1>1, InvFacts DEF Step
<1> QED
  BY <1>1, <1>4, <1>5, OrdersApart

\* Steps that leave the KV-cache manager alone.
LEMMA QuietApart == IInv /\ CopiesApart /\ (Pick \/ EndRunning \/ EndWaiting) => CopiesApart'
<1> SUFFICES ASSUME IInv, CopiesApart, Pick \/ EndRunning \/ EndWaiting PROVE CopiesApart'
  OBVIOUS
<1>1. kv' = kv /\ flight' = flight
  BY DEF Pick, EndRunning, EndWaiting
<1>2. /\ step.phase \in {"running", "waiting"} /\ step'.phase \in {"running", "waiting", "output"}
      /\ step'.preempted = step.preempted /\ (step'.phase = "running" => step.phase = "running")
  <2>0. step \in Step
    BY InvFacts
  <2>1. CASE Pick
    <3>1. step.phase = "running"
      BY <2>1 DEF Pick, InRunningLoop
    <3>2. \/ step' = [step EXCEPT !.i = @ + 1]
          \/ step' = [step EXCEPT !.need = Tokens(running[step.i]), !.asks = {running[step.i]}]
      BY <2>1 DEF Pick
    <3> QED BY <2>0, <3>1, <3>2 DEF Step
  <2>2. CASE EndRunning
    BY <2>0, <2>2 DEF EndRunning, Step
  <2>3. CASE EndWaiting
    BY <2>0, <2>3 DEF EndWaiting, Step
  <2> QED BY <2>1, <2>2, <2>3
<1>3. CopiesSafe(kv')
  BY <1>1 DEF CopiesApart
<1>4. step'.preempted = {} => FreshBare(kv')
  BY <1>1, <1>2 DEF CopiesApart
<1>5. step'.phase = "running" => kv'.copies = <<>>
  BY <1>1, <1>2 DEF CopiesApart
<1> QED
  BY <1>1, <1>2, <1>3, <1>4, <1>5, OrdersApart

\* The sources of safe copies are none of the blocks to be zeroed, their destinations are.
LEMMA EmitApart == IInv /\ CopiesApart /\ Emit => CopiesApart'
<1> SUFFICES ASSUME IInv, CopiesApart, Emit PROVE CopiesApart'
  OBVIOUS
<1> DEFINE out == [order |-> step.order, msg |-> step.msg, preempted |-> step.preempted,
                   ended |-> ended, fresh |-> ToSet(kv.fresh), copies |-> kv.copies,
                   refs |-> SourceRefs, ran |-> FALSE]
           n   == Len(flight)
<1>1. flight' = Append(flight, out)
  BY DEF Emit
<1>2. out.fresh = ToSet(kv.fresh) /\ out.copies = kv.copies
  OBVIOUS
<1> HIDE DEF out
<1>3. \A c \in ToSet(out.copies) : c.dst \in out.fresh /\ c.src \notin out.fresh
  BY <1>2 DEF CopiesApart, CopiesSafe, CopySafe
<1>4. flight \in Seq(Output) /\ n \in Nat /\ DOMAIN flight = 1 .. n
  BY InvFacts, LenProperties
<1>5. /\ DOMAIN flight' = 1 .. n + 1 /\ flight'[n + 1] = out
      /\ \A k \in 1 .. n : flight'[k] = flight[k]
  BY <1>1, <1>4
<1> HIDE DEF n
<1>6. \A k \in DOMAIN flight' : flight'[k] = out \/ (k \in DOMAIN flight /\ flight'[k] = flight[k])
  BY <1>4, <1>5
<1>7. CopiesIndependent'
  BY <1>3, <1>6 DEF CopiesApart, CopiesIndependent
<1>8. kv'.fresh = <<>> /\ kv'.copies = <<>>
  BY EmitTables
<1> QED
  BY <1>7, <1>8, NoOrdersApart

\* The worker changes none of that.
LEMMA ExecuteApart == IInv /\ CopiesApart /\ Execute => CopiesApart'
<1> SUFFICES ASSUME IInv, CopiesApart, Execute PROVE CopiesApart'
  OBVIOUS
<1> DEFINE j == NextRun
<1>1. flight' = [flight EXCEPT ![j].ran = TRUE] /\ kv' = kv /\ step' = step
  BY DEF Execute, sched
<1> HIDE DEF j
<1>2. flight \in Seq(Output)
  BY InvFacts
<1>3. ASSUME NEW k \in DOMAIN flight'
      PROVE  /\ k \in DOMAIN flight /\ flight'[k].fresh = flight[k].fresh
             /\ flight'[k].copies = flight[k].copies
  <2>1. k \in DOMAIN flight
    BY <1>1
  <2>2. flight[k] \in Output
    BY <1>2, <2>1
  <2> QED BY <1>1, <2>1, <2>2 DEF Output
<1>4. CopiesIndependent'
  BY <1>3 DEF CopiesApart, CopiesIndependent
<1>5. (CopiesSafe(kv))' /\ (FreshBare(kv) => (FreshBare(kv))')
  BY <1>1 DEF CopiesApart, CopiesSafe, CopySafe, FreshBare
<1> QED
  BY <1>1, <1>4, <1>5 DEF CopiesApart

\* Every step keeps the copies apart.
LEMMA NextApart == IInv /\ CopiesApart /\ [Next]_vars => CopiesApart'
<1> SUFFICES ASSUME IInv, CopiesApart, [Next]_vars PROVE CopiesApart'
  OBVIOUS
<1>1. CASE \E r \in Req : Arrive(r)
  BY <1>1, ArriveApart
<1>2. CASE \E r \in Req : Abort(r)
  BY <1>2, AbortApart
<1>3. CASE \E force \in BOOLEAN : Reset(force)
  BY <1>3, ResetApart
<1>4. CASE Engines
  BY <1>4, BeginApart, QuietApart, ScheduleRunningApart, PreemptApart, AdmitApart,
     HoldBackApart, EmitApart, ExecuteApart, UpdateApart DEF Engines
<1>5. CASE UNCHANGED vars
  <2>1. kv' = kv /\ step' = step /\ flight' = flight
    BY <1>5 DEF vars, sched
  <2> QED BY <2>1 DEF CopiesApart, CopiesIndependent, CopiesSafe, CopySafe, FreshBare
<1>6. CASE AllEnded
  BY <1>5, <1>6 DEF AllEnded
<1> QED
  BY <1>1, <1>2, <1>3, <1>4, <1>5, <1>6 DEF Next

\* CopiesIndependent holds: within a step no block is the source and the destination of
\* partial-prefix copies, or zeroed and read by one, so that the order in which the worker
\* zeroes and copies blocks does not matter.
THEOREM EngineCopies == Spec => []CopiesIndependent
<1>1. Init => CopiesApart
  BY InitApart
<1>2. IInv /\ CopiesApart /\ [Next]_vars => CopiesApart'
  BY NextApart
<1>3. CopiesApart => CopiesIndependent
  BY DEF CopiesApart
<1> QED
  BY <1>1, <1>2, <1>3, EngineInvariant, PTL DEF Spec
=============================================================================
