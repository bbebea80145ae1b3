------------------------------ MODULE WindowTables ------------------------------
(***************************************************************************)
(* The block tables of models with sliding windows or local chunks of      *)
(* attention: the common SingleTypeKVCacheManager code under the unitary   *)
(* coordinator, or under the hybrid one with full attention and one other  *)
(* group.  Blocks that have left the window of a request are replaced by   *)
(* the null block and freed while it runs, hits begin with null blocks,    *)
(* and tokens may come from a KV connector that loads them ahead of the    *)
(* forward pass.                                                           *)
(*                                                                         *)
(* The scheduler is reduced to what the tables depend on: running requests *)
(* are served before waiting ones, each with any number of tokens or none; *)
(* the last running one is preempted when blocks are missing, and then     *)
(* nobody is admitted.  A request that has finished comes back with the    *)
(* same text.                                                              *)
(***************************************************************************)
EXTENDS BlockQueueOps, HitOps

CONSTANTS Req,      \* request ids
          Shared,   \* how many tokens all texts begin with in common
          Settings, \* the settings checked
          Null      \* the null block

ASSUME TablesAssumption ==
  /\ Shared \in Nat /\ Null \notin Block
  /\ \A c \in Settings :
       /\ c.length \in [Req -> Nat \ {0}] /\ c.chunk \in Nat \ {0}
       /\ c.exts \subseteq Nat /\ 0 \in c.exts /\ c.blocks \subseteq Block
       /\ Len(c.groups) \in 1 .. 2
       /\ Len(c.groups) = 2 =>
            c.groups[1].kind = "full" /\ c.groups[2].kind \in {"window", "chunk"}

VARIABLES
  conf,     \* the setting, which never changes
  req,      \* req[r]: running or waiting, num_computed_tokens, the value it had when its
            \* window was last moved, req_to_blocks and num_cached_block of every group
  running,  \* the running list
  pool,     \* the block pool
  content,  \* what the blocks hold: the hash of a block and how many of its tokens
  phase,    \* which loop of schedule() is in progress
  out       \* the output of the step: who computes which tokens, after which loads

vars == <<conf, req, running, pool, content, phase, out>>

groups == conf.groups  \* the groups of the model
Length == conf.length  \* Length[r]: num_tokens
Chunk  == conf.chunk   \* the most tokens a step gives to one request
Exts   == conf.exts    \* the numbers of tokens a connector may add to a hit
Blocks == conf.blocks  \* the pool

Group == 1 .. Len(groups)
Size(i) == groups[i].bs
EachGroup(Op(_, _), s) == FoldLeft(Op, s, [i \in Group |-> i])

Prefix(r, n) == IF n <= Shared THEN <<"trunk", n>> ELSE <<r, n>>
HashOf(i, r, k) == <<i, Prefix(r, k * Size(i))>>  \* of the k-th block of group i

Nulls(n)    == [k \in 1 .. n |-> Null]
NonNull(bs) == SelectSeq(bs, LAMBDA b : b # Null)

NoTables == [i \in Group |-> <<>>]
Waiting  == [running |-> FALSE, comp |-> 0, from |-> 0, table |-> NoTables,
             ncached |-> [i \in Group |-> 0]]

Init ==
  /\ conf \in Settings
  /\ req = [r \in Req |-> Waiting]
  /\ running = <<>> /\ phase = "running" /\ out = <<>>
  /\ pool = NewPool([k \in 1 .. Cardinality(Blocks) |->
                       CHOOSE b \in Blocks : Cardinality({c \in Blocks : c < b}) = k - 1])
  /\ content = [b \in Block |-> None]

-----------------------------------------------------------------------------
(* The managers.  s is [pool, table, ncached] of one request.              *)

Tables(r) == [pool |-> pool, table |-> req[r].table, ncached |-> req[r].ncached]

(* A name with _bug is a faulty variant of the definition that follows it: *)
(* put in its place, it must break a property of a run.                    *)

RemoveSkipped_bugRound(s, i, n) ==  \* a block that is still read in part goes
  LET t    == s.table[i]
      out_ == Least(Cdiv(Skipped(groups[i], n), Size(i)), Len(t))
      keep == Max({0} \cup {k \in 1 .. out_ : t[k] = Null})
  IN  [s EXCEPT !.table[i] = [k \in DOMAIN t |-> IF k <= out_ THEN Null ELSE t[k]],
                !.pool = FreeBlocks(@, Reverse(SubSeq(t, keep + 1, out_)))]

RemoveSkipped_bugLeft(s, i, n) ==  \* the search is from the left
  LET t    == s.table[i]
      out_ == Least(Skipped(groups[i], n) \div Size(i), Len(t))
      stop == Min({out_ + 1} \cup {k \in 1 .. out_ : t[k] = Null})
  IN  [s EXCEPT !.table[i] = [k \in DOMAIN t |-> IF k < stop THEN Null ELSE t[k]],
                !.pool = FreeBlocks(@, Reverse(SubSeq(t, 1, stop - 1)))]

RemoveSkipped_bugKeep(s, i, n) ==  \* the table still names the freed blocks
  LET t    == s.table[i]
      out_ == Least(Skipped(groups[i], n) \div Size(i), Len(t))
      keep == Max({0} \cup {k \in 1 .. out_ : t[k] = Null})
  IN  [s EXCEPT !.pool = FreeBlocks(@, Reverse(SubSeq(t, keep + 1, out_)))]

\* remove_skipped_blocks: from the first block that is read backwards, until a
\* block that is null already.
RemoveSkipped(s, i, n) ==
  LET t    == s.table[i]
      out_ == Least(Skipped(groups[i], n) \div Size(i), Len(t))
      keep == Max({0} \cup {k \in 1 .. out_ : t[k] = Null})
  IN  [s EXCEPT !.table[i] = [k \in DOMAIN t |-> IF k <= out_ THEN Null ELSE t[k]],
                !.pool = FreeBlocks(@, Reverse(SubSeq(t, keep + 1, out_)))]

Evictable(p, bs) == Cardinality({k \in DOMAIN bs : bs[k] # Null /\ p.ref[bs[k]] = 0})

NumToAllocate_bug(s, i, isNew, hits, total, n) ==  \* unused hits are not counted
  LET skipped == Skipped(groups[i], total) \div Size(i)
  IN  IF ~isNew THEN Most(Cdiv(n, Size(i)) - Len(s.table[i]), 0)
      ELSE Most(Cdiv(n, Size(i)) - Most(skipped, Len(hits)), 0)

\* get_num_blocks_to_allocate.
NumToAllocate(s, i, isNew, hits, total, n) ==
  LET skipped == Skipped(groups[i], total) \div Size(i)
  IN  IF ~isNew THEN Most(Cdiv(n, Size(i)) - Len(s.table[i]), 0)
      ELSE Most(Cdiv(n, Size(i)) - Most(skipped, Len(hits)), 0)
             + Evictable(s.pool, SubSeq(hits, skipped + 1, Len(hits)))

Extend_bug(s, i, n) ==  \* one block too many
  LET more == n + 1 - Len(s.table[i])
  IN  IF more <= 0 THEN s
      ELSE [s EXCEPT !.table[i] = @ \o NewBlocks(s.pool, more),
                     !.pool = GetNewBlocks(@, more)]

\* get_new_blocks, until the table has n blocks.
Extend(s, i, n) ==
  LET more == n - Len(s.table[i])
  IN  IF more <= 0 THEN s
      ELSE [s EXCEPT !.table[i] = @ \o NewBlocks(s.pool, more),
                     !.pool = GetNewBlocks(@, more)]

TakeHits_bugCached(s, i, hits, total, ext) ==  \* the hits are to be cached again
  LET skipped == Skipped(groups[i], total)
      rest    == SubSeq(hits, skipped \div Size(i) + 1, Len(hits))
      taken   == [s EXCEPT !.table[i] = Nulls(skipped \div Size(i)) \o rest,
                           !.pool = Touch(@, NonNull(rest))]
  IN  IF Least(total - skipped, ext) > 0 THEN Extend(taken, i, Cdiv(total, Size(i))) ELSE taken

TakeHits_bugTouch(s, i, hits, total, ext) ==  \* the hits are not touched
  LET skipped == Skipped(groups[i], total)
      rest    == SubSeq(hits, skipped \div Size(i) + 1, Len(hits))
      table   == Nulls(skipped \div Size(i)) \o rest
      taken   == [s EXCEPT !.table[i] = table, !.ncached[i] = Len(table)]
  IN  IF Least(total - skipped, ext) > 0 THEN Extend(taken, i, Cdiv(total, Size(i))) ELSE taken

\* allocate_new_computed_blocks: the hits behind the skipped blocks, then new
\* blocks for what the connector loads.
TakeHits(s, i, hits, total, ext) ==
  LET skipped == Skipped(groups[i], total)
      rest    == SubSeq(hits, skipped \div Size(i) + 1, Len(hits))
      table   == Nulls(skipped \div Size(i)) \o rest
      taken   == [s EXCEPT !.table[i] = table, !.ncached[i] = Len(table),
                           !.pool = Touch(@, NonNull(rest))]
  IN  IF Least(total - skipped, ext) > 0 THEN Extend(taken, i, Cdiv(total, Size(i))) ELSE taken

CacheBlocks_bug(s, r, i, n) ==  \* a block is cached before it is full
  LET full  == Least(Cdiv(n, Size(i)), Len(s.table[i]))
      fresh == {k \in DOMAIN s.table[i] : s.ncached[i] < k /\ k <= full /\ s.table[i][k] # Null}
  IN  [s EXCEPT !.ncached[i] = Most(@, full),
                !.pool = FoldSet(LAMBDA k, p : CacheFullBlock(p, s.table[i][k], HashOf(i, r, k)),
                                 @, fresh)]

\* cache_blocks; null blocks are passed over.
CacheBlocks(s, r, i, n) ==
  LET full  == n \div Size(i)
      fresh == {k \in DOMAIN s.table[i] : s.ncached[i] < k /\ k <= full /\ s.table[i][k] # Null}
  IN  [s EXCEPT !.ncached[i] = Most(@, full),
                !.pool = FoldSet(LAMBDA k, p : CacheFullBlock(p, s.table[i][k], HashOf(i, r, k)),
                                 @, fresh)]

-----------------------------------------------------------------------------
(* KVCacheManager.                                                         *)

\* get_computed_blocks: full attention is asked first, and cut to what the
\* other group accepts.
Lookup(r) ==
  LET align      == Alignment(groups)
      here(i)    == {k \in 1 .. Length[r] \div Size(i) : CachedBlock(pool, HashOf(i, r, k)) # None}
      ask(i, n)  == GroupHit(groups[i], here(i), n, align, FALSE)
      first      == ask(1, Length[r] - 1)
      last       == IF Len(groups) = 1 THEN first ELSE ask(2, first.len * Size(1))
      len        == last.len * Size(Len(groups))
      block(i, h) == [k \in 1 .. h.len |->
                        IF k \in h.held THEN CachedBlock(pool, HashOf(i, r, k)) ELSE Null]
  IN  [len |-> len, blocks |-> [i \in Group |->
         IF i = Len(groups) THEN block(i, last) ELSE block(i, Cut(first, len \div Size(i)))]]

Skipless(r) == EachGroup(LAMBDA s, i : RemoveSkipped(s, i, req[r].comp), Tables(r))

\* The blocks missing for n tokens, total of them computed when they begin.
Missing(s, r, hits, total, n) ==
  FoldSet(LAMBDA i, sum : sum + NumToAllocate(s, i, ~req[r].running, hits[i], total, n), 0, Group)

\* What is left of allocate_slots once the blocks are known to be enough.
Allocated(s, r, hits, total, ext, n) ==
  LET taken == IF req[r].running THEN s
               ELSE EachGroup(LAMBDA t, i : TakeHits(t, i, hits[i], total, ext), s)
      grown == EachGroup(LAMBDA t, i : Extend(t, i, Cdiv(n, Size(i))), taken)
  IN  EachGroup(LAMBDA t, i : CacheBlocks(t, r, i, n), grown)

\* free, for the tables of every group.
Freed(p, tables) ==
  FoldLeft(LAMBDA q, i : FreeBlocks(q, Reverse(NonNull(tables[i]))), p, [i \in Group |-> i])

-----------------------------------------------------------------------------
(* schedule().                                                             *)

\* Running requests are served in the order of the list, but for those the
\* budget passes over.
Turn(r) ==
  /\ phase # "waiting" /\ req[r].running /\ req[r].comp < Length[r]
  /\ \A k \in DOMAIN out : \E i, j \in DOMAIN running :
       i < j /\ running[i] = out[k].r /\ running[j] = r

\* The step gives r tokens up to the n-th.
Served(s, r, total, ext, n) ==
  /\ pool' = s.pool
  /\ req' = [req EXCEPT ![r] = [running |-> TRUE, comp |-> n, from |-> total,
                                table |-> s.table, ncached |-> s.ncached]]
  /\ out' = Append(out, [r |-> r, load |-> total - ext, from |-> total, to |-> n])

Grow(r) ==
  /\ Turn(r)
  /\ \E n \in req[r].comp + 1 .. Least(req[r].comp + Chunk, Length[r]), s \in {Skipless(r)} :
       /\ Missing(s, r, NoTables, req[r].comp, n) <= NumFree(s.pool)
       /\ Served(Allocated(s, r, NoTables, req[r].comp, 0, n), r, req[r].comp, 0, n)
  /\ UNCHANGED <<conf, running, content, phase>>

\* The blocks that have left the window of r are freed before it turns out that
\* there are not enough.
Preempt(r) ==
  /\ Turn(r)
  /\ \E n \in req[r].comp + 1 .. Least(req[r].comp + Chunk, Length[r]), s \in {Skipless(r)} :
       /\ Missing(s, r, NoTables, req[r].comp, n) > NumFree(s.pool)
       /\ LET v == Last(running)
          IN  /\ pool' = Freed(s.pool, IF v = r THEN s.table ELSE req[v].table)
              /\ req' = [req EXCEPT ![r].table = s.table, ![r].from = req[r].comp, ![v] = Waiting]
  /\ running' = Front(running)
  /\ phase' = "preempted"
  /\ UNCHANGED <<conf, content, out>>

\* A connector adds whole blocks to the hit, short of the last token.
Admit(r) ==
  /\ phase # "preempted" /\ ~req[r].running
  /\ \E hit \in {Lookup(r)}, ext \in Exts :
       LET total == hit.len + ext
           s     == Tables(r)
       IN  /\ total < Length[r] /\ total % Alignment(groups) = 0
           /\ \E n \in total + 1 .. Least(total + Chunk, Length[r]) :
                /\ Missing(s, r, hit.blocks, total, n) <= NumFree(pool)
                /\ Served(Allocated(s, r, hit.blocks, total, ext, n), r, total, ext, n)
  /\ running' = Append(running, r)
  /\ phase' = "waiting"
  /\ UNCHANGED <<conf, content>>

-----------------------------------------------------------------------------
(* The worker, and update_from_output().                                   *)

\* What the blocks of r hold once its tokens from .. to - 1 are written.
Written(c, o, from) ==
  LET hold(i, k) ==
        LET b    == req[o.r].table[i][k]
            h    == HashOf(i, o.r, k)
            good == from <= (k - 1) * Size(i) \/ (c[b] # None /\ c[b].hash = h)
        IN  IF good THEN [hash |-> h, n |-> Least(Size(i), o.to - (k - 1) * Size(i))] ELSE None
      places == {<<i, k>> \in Group \X (1 .. o.to) :
                   /\ k \in from \div Size(i) + 1 .. Len(req[o.r].table[i])
                   /\ (k - 1) * Size(i) < o.to
                   /\ req[o.r].table[i][k] # Null}
  IN  FoldSet(LAMBDA p, d : [d EXCEPT ![req[o.r].table[p[1]][p[2]]] = hold(p[1], p[2])], c, places)

Execute ==
  /\ out # <<>> \/ phase = "preempted"
  /\ content' = FoldLeft(LAMBDA c, o : Written(c, o, o.load), content, out)
  /\ phase' = "running" /\ out' = <<>>
  /\ UNCHANGED <<conf, req, running, pool>>

Finish(r) ==
  /\ phase = "running" /\ out = <<>> /\ req[r].running /\ req[r].comp = Length[r]
  /\ pool' = Freed(pool, req[r].table)
  /\ req' = [req EXCEPT ![r] = Waiting]
  /\ running' = SelectSeq(running, LAMBDA q : q # r)
  /\ UNCHANGED <<conf, content, phase, out>>

Next == Execute \/ \E r \in Req : Grow(r) \/ Preempt(r) \/ Admit(r) \/ Finish(r)

Spec == Init /\ [][Next]_vars

-----------------------------------------------------------------------------

\* The variables have their types; all groups of a request that runs hold
\* tables for the tokens it has been given.
TypeOK ==
  /\ phase \in {"running", "preempted", "waiting"}
  /\ \A r \in Req : /\ req[r].running <=> Contains(running, r)
                    /\ req[r].from <= req[r].comp /\ req[r].comp <= Length[r]
                    /\ \A i \in Group : Len(req[r].table[i]) = Cdiv(req[r].comp, Size(i))

Longest == Max({Length[r] : r \in Req})

\* A block is counted once for every table that names it, and is on the free
\* list, once, exactly when none does.
RefsExact ==
  \A b \in Blocks :
    /\ pool.ref[b] = Cardinality({<<r, i, k>> \in Req \X Group \X (1 .. Longest) :
                        k \in DOMAIN req[r].table[i] /\ req[r].table[i][k] = b})
    /\ Cardinality({k \in DOMAIN pool.queue : pool.queue[k] = b})
         = IF pool.ref[b] = 0 THEN 1 ELSE 0

\* allocate_slots has counted enough blocks, whatever part of the hits is
\* unused, skipped or null, and no block is cached twice: no exception.
NoException == ~pool.raised

\* Tables, counts and the free list account for one another, and no assertion fails.
Accounted == TypeOK /\ RefsExact /\ NoException

\* The blocks of group i that r still reads, and has since its window was moved.
Used(r, i) == {k \in DOMAIN req[r].table[i] : k * Size(i) > Skipped(groups[i], req[r].from)}

\* After a step, every block that a running request has read in it, back to the
\* start of the window of its first token, is in its table and holds its tokens:
\* none has been freed too early, or taken from it by another request or group.
WindowHeld ==
  out = <<>> => \A r \in Req : req[r].running => \A i \in Group : \A k \in Used(r, i) :
    LET b == req[r].table[i][k]
    IN  /\ b # Null /\ content[b] # None
        /\ content[b].hash = HashOf(i, r, k)
        /\ content[b].n >= Least(Size(i), req[r].comp - (k - 1) * Size(i))

\* No request holds a block that was wholly out of its window when allocate_slots
\* last moved it: what a windowed group takes stays within its window.
NothingKept ==
  \A r \in Req : \A i \in Group : \A k \in DOMAIN req[r].table[i] :
    k * Size(i) <= Skipped(groups[i], req[r].from) => req[r].table[i][k] = Null

\* A table names the blocks of the window, neither fewer nor more.
WindowExact == WindowHeld /\ NothingKept

\* Between two steps, a block found under a hash holds the tokens of the hash.
CachedContent ==
  out = <<>> => \A b \in Blocks : pool.hash[b] # None /\ Contains(pool.cached[pool.hash[b]], b) =>
    content[b] # None /\ content[b] = [hash |-> pool.hash[b], n |-> Size(pool.hash[b][1])]
=============================================================================
