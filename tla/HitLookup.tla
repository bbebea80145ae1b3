------------------------------- MODULE HitLookup -------------------------------
(***************************************************************************)
(* One prefix-cache lookup of the coordinators, step by step: the unitary  *)
(* coordinator asks its one manager, the one without prefix caching        *)
(* answers nothing, and the hybrid one visits its groups in passes until   *)
(* no group shortens the hit any more.                                     *)
(*                                                                         *)
(* The partial hits of full attention are not used here: HybridCacheOps    *)
(* has them, with the order of the groups they need.                       *)
(***************************************************************************)
EXTENDS HitOps, Queues

CONSTANTS Models, \* the models: their distinct groups, use_eagle, and the longest prompt
          None    \* no list found yet

ASSUME ModelsAssumption ==
  \A m \in Models :
    /\ m.eagle \in BOOLEAN /\ m.longest \in Nat \ {0}
    /\ m.groups \in Seq([kind : Kinds, bs : Nat \ {0}, span : Nat])
    /\ \A i \in 1 .. Len(m.groups) :
         LET g == m.groups[i] IN
           /\ g.kind = "window" => g.span > 1
           /\ g.kind = "chunk" => g.span > 0 /\ g.span % g.bs = 0

VARIABLES
  groups,   \* attention_groups
  eagle,    \* use_eagle
  caching,  \* enable_caching
  cached,   \* cached[i]: the blocks of the prompt that group i has in the cache
  limit,    \* max_cache_hit_length: all of the prompt but its last token
  at,       \* the next group of the pass
  hit,      \* hit_length
  cur,      \* curr_hit_length
  lists,    \* hit_blocks_by_group
  answered

asked == <<groups, eagle, caching, cached, limit>>
vars  == <<asked, at, hit, cur, lists, answered>>

Group == 1 .. Len(groups)

IsFull(g) == g.kind = "full"

\* verify_and_split_kv_cache_groups: full attention first.
Ordered(gs) ==
  LET all == {gs[i] : i \in 1 .. Len(gs)}
  IN  Among(gs, {g \in all : IsFull(g)}) \o Among(gs, {g \in all : ~IsFull(g)})

\* What the assertions of ChunkedLocalAttentionManager allow.
Supported(gs, e) ==
  \A i \in 1 .. Len(gs) : gs[i].kind = "chunk" => ~e /\ gs[i].bs = Alignment(gs)

IsSimpleHybrid ==
  Len(groups) = 2 /\ \E i \in Group : IsFull(groups[i])

Init ==
  \E m \in Models :
    /\ groups = Ordered(m.groups) /\ eagle = m.eagle /\ caching \in BOOLEAN
    /\ Supported(groups, eagle)
    /\ limit \in 0 .. m.longest - 1
    /\ \E some \in SUBSET UNION {{i} \X (1 .. (limit + 1) \div groups[i].bs) : i \in Group} :
         /\ ~caching => some = {}
         /\ cached = [i \in Group |-> {b \in 1 .. limit + 1 : <<i, b>> \in some}]
    /\ at = 1 /\ hit = limit /\ cur = limit
    /\ lists = [i \in Group |-> None]
    /\ answered = FALSE

-----------------------------------------------------------------------------

\* KVCacheCoordinatorNoPrefixCache.find_longest_cache_hit.
AnswerNothing ==
  /\ ~caching /\ ~answered
  /\ hit' = 0 /\ lists' = [i \in Group |-> NoHit] /\ answered' = TRUE
  /\ UNCHANGED <<asked, at, cur>>

\* UnitaryKVCacheCoordinator.find_longest_cache_hit.
AnswerUnitary ==
  /\ caching /\ Len(groups) = 1 /\ ~answered
  /\ LET g     == groups[1]
         found == GroupHit(g, cached[1], limit, g.bs, eagle)
     IN  lists' = <<found>> /\ hit' = found.len * g.bs
  /\ answered' = TRUE
  /\ UNCHANGED <<asked, at, cur>>

Searching == caching /\ Len(groups) > 1 /\ ~answered

\* The body of the pass over attention_groups.  What full attention has found
\* holds for every shorter length.
Visit ==
  /\ Searching /\ at \in Group
  /\ LET g == groups[at]
     IN  IF IsFull(g) /\ lists[at] # None
         THEN /\ cur' = (cur \div g.bs) * g.bs
              /\ lists' = lists
         ELSE \E found \in {GroupHit(g, cached[at], cur, Alignment(groups), eagle)} :
                cur' = found.len * g.bs /\ lists' = [lists EXCEPT ![at] = found]
  /\ at' = at + 1
  /\ UNCHANGED <<asked, hit, answered>>

(* A name with _bug is a faulty variant of the definition that follows it: *)
(* put in its place, it must break a property of a run.                    *)

Settled_bug == cur > hit  \* waits for the hit to grow

\* No group has shortened the hit.
Settled == cur >= hit

\* Another pass.
Again ==
  /\ Searching /\ at > Len(groups) /\ ~Settled /\ ~IsSimpleHybrid
  /\ at' = 1 /\ hit' = cur
  /\ UNCHANGED <<asked, cur, lists, answered>>

\* The passes end, and every list is cut to the length found.
Answer ==
  /\ Searching /\ at > Len(groups) /\ (Settled \/ IsSimpleHybrid)
  /\ hit' = Least(hit, cur)
  /\ lists' = [i \in Group |-> Cut(lists[i], hit' \div groups[i].bs)]
  /\ answered' = TRUE
  /\ UNCHANGED <<asked, at, cur>>

\* A behaviour is one lookup.
Answered == answered /\ UNCHANGED vars

Next == AnswerNothing \/ AnswerUnitary \/ Visit \/ Again \/ Answer \/ Answered

Spec == Init /\ [][Next]_vars

\* Weak fairness of the steps of the lookup, written out: one is enabled until
\* it has answered, which deadlock checking confirms.
FairSpec == Spec /\ ([]<>answered \/ []<><<Next>>_vars)

-----------------------------------------------------------------------------

\* A hit covers what the next token reads in every group: each list is as
\* long as the hit, and none of the blocks that get_num_skipped_tokens still
\* asks for is null or anything but a cached block.  The last token of a prompt is
\* always computed again.
HitCovers ==
  answered => hit \in 0 .. limit /\ \A i \in Group :
    LET g == groups[i] IN
      /\ hit % g.bs = 0 /\ lists[i].len = hit \div g.bs
      /\ Needed(g, hit) \subseteq lists[i].held
      /\ lists[i].held \subseteq cached[i]

\* A length that every group could go on from.
Common(n) ==
  /\ n % Alignment(groups) = 0
  /\ \A i \in Group : Needed(groups[i], n) \subseteq cached[i]

\* The lookup finds the longest hit there is, whichever group is visited first.
HitLongest ==
  answered /\ caching /\ ~eagle => ~\E n \in hit + 1 .. limit : Common(n)

\* With eagle a hit always leaves at least one matched block of every attention
\* group to compute again: the drafter needs the hidden states of its tokens.
LastBlockDropped ==
  answered /\ eagle /\ hit > 0 => \A i \in Group :
    groups[i].kind \in {"full", "window"} => hit \div groups[i].bs + 1 \in cached[i]

\* A hit is as long as it can be, but for the block that eagle drops.
HitExact == HitLongest /\ LastBlockDropped

\* Every lookup ends: the passes converge.
Answers == <>answered
=============================================================================
