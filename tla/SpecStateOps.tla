---------------------------- MODULE SpecStateOps ----------------------------
(***************************************************************************)
(* MambaManager in cache mode "latest" with speculative blocks             *)
(* (single_type_kv_cache_manager.py).  A request holds 1 + K states in a   *)
(* row at the end of its table: the running state, and the states after    *)
(* each of its K draft tokens, of which one is picked when the drafts have *)
(* been verified.  When the running state enters another block, blocks of  *)
(* draft states are moved along and at most one block is new; the block    *)
(* left behind is the source of a copy.  The record s of the cache has a   *)
(* field drafts here: K, which is num_speculative_blocks.                  *)
(*                                                                         *)
(* Prompts are shorter than two blocks here: then no checkpoint is ever    *)
(* kept, published or hit, and _mamba_block_aligned_split cuts nothing.    *)
(***************************************************************************)
EXTENDS MambaLatestOps

ASSUME SpecAssumption == \A r \in Req : Prompt[r] < 2 * H

\* remove_skipped_blocks takes every draft under way for rejected.
SpecRemoveSkipped(s, r, computed) == RemoveSkipped(s, r, Max2(computed - s.drafts, 0))

(* A name with _bug is a faulty variant of the definition that follows it: *)
(* put in its place, it must break a property of a run.                    *)

SpecNewBlocks_bug(s, r, tokens) ==  \* the draft blocks are always reused
  IF s.mamba[r].alloc THEN 0 ELSE 1 + s.drafts

\* get_num_blocks_to_allocate.
SpecNewBlocks(s, r, tokens) ==
  LET m == s.mamba[r]
  IN  IF CeilDiv(tokens, H) + s.drafts <= Len(m.blocks) THEN 0
      ELSE IF m.alloc THEN 1 ELSE 1 + s.drafts

MovedUp_bug(m, k, i) == m.blocks \o Nulls(i - Len(m.blocks))  \* nothing is moved

\* Draft blocks before index i are moved to the end, and null takes their
\* place; k is K.
MovedUp(m, k, i) ==
  LET wide  == m.blocks \o Nulls(i - Len(m.blocks))
      moved == IF m.alloc
               THEN Len(m.blocks) - k + 1 .. Min2(Len(m.blocks), i) ELSE {}
  IN  [j \in DOMAIN wide |-> IF j \in moved THEN Null ELSE wide[j]]
        \o SelectSeq([j \in DOMAIN wide |-> IF j \in moved THEN wide[j] ELSE Null],
                     LAMBDA b : b # Null)

\* allocate_new_blocks.  It asserts that the table never has to shrink, and
\* that a request which has its states needs one new block at most.
SpecAllocate(s, r, tokens) ==
  LET m     == s.mamba[r]
      i     == CeilDiv(tokens, H) - 1
      k     == s.drafts
      len   == Len(m.blocks)
      table == MovedUp(m, k, i)
      n     == i + 1 + k - Len(table)
  IN  IF i + 1 + k = len THEN s
      ELSE IF i + 1 + k < len \/ n > (IF m.alloc THEN 1 ELSE 1 + k)
      THEN [s EXCEPT !.pool.raised = TRUE]
      ELSE [s EXCEPT !.pool = GetNewBlocks(@, n),
                     !.mamba[r].blocks = table \o NewBlocks(s.pool, n),
                     !.mamba[r].cur = i,
                     !.mamba[r].pending = IF m.alloc THEN len - 1 - k
                                          ELSE IF len > 0 THEN len - 1 ELSE @,
                     !.mamba[r].alloc = TRUE]

\* allocate_slots up to tokens for r, of which computed are computed.
SpecSlots(s, r, computed, tokens) ==
  LET t == SpecRemoveSkipped(s, r, computed)
  IN  IF SpecNewBlocks(t, r, tokens) > NumFree(t.pool) THEN [ok |-> FALSE, kv |-> t]
      ELSE [ok |-> TRUE, kv |-> SpecAllocate(t, r, tokens)]
=============================================================================
