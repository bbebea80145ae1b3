-------------------------------- MODULE HitOps --------------------------------
(***************************************************************************)
(* The prefix-cache lookups of the KV-cache managers: what each returns    *)
(* for one request when the i-th block of its prompt is in the cache       *)
(* exactly for i \in cached.                                               *)
(*                                                                         *)
(* A group g of layers is [kind, bs, span]: its manager, its block size,   *)
(* and its sliding window or attention chunk in tokens.  A hit is a list   *)
(* of len blocks of which those in held are cached blocks and the others   *)
(* the null block.                                                         *)
(***************************************************************************)
EXTENDS Integers, Sequences, FiniteSetsExt

Kinds == {"full", "window", "chunk", "mamba"}

Least(a, b) == IF a < b THEN a ELSE b
Most(a, b)  == IF a > b THEN a ELSE b
Cdiv(a, b)  == (a + b - 1) \div b

NoHit == [len |-> 0, held |-> {}]

Cut(hit, n) == [len |-> Least(hit.len, n), held |-> hit.held \cap 1 .. n]

Lcm(a, b) == Min({m \in 1 .. a * b : m % a = 0 /\ m % b = 0})

\* lcm_block_size, or the block size of a unitary coordinator.
Alignment(gs) ==
  LET lcm[i \in 0 .. Len(gs)] == IF i = 0 THEN 1 ELSE Lcm(lcm[i - 1], gs[i].bs)
  IN  lcm[Len(gs)]

\* The longest list of at most n blocks whose tokens are a multiple of align.
Aligned(g, align, n) == Max({k \in 0 .. n : (k * g.bs) % align = 0})

\* The number of blocks of an unbroken run of cached blocks from..to.
RunFrom(cached, from, to) ==
  Max({k \in 0 .. to - from + 1 : from .. from + k - 1 \subseteq cached})

-----------------------------------------------------------------------------
(* get_num_skipped_tokens: how many of n computed tokens the next token    *)
(* does not read; and the blocks that hold the others.                     *)

WindowSkipped(g, n) == Most(0, n - g.span + 1)

ChunkSkipped(g, n) == (n \div g.span) * g.span

Skipped(g, n) ==
  CASE g.kind = "full"   -> 0
    [] g.kind = "window" -> WindowSkipped(g, n)
    [] g.kind = "chunk"  -> ChunkSkipped(g, n)
    [] g.kind = "mamba"  -> n - 1

Needed(g, n) == {i \in 1 .. Cdiv(n, g.bs) : i * g.bs > Skipped(g, n)}

-----------------------------------------------------------------------------
(* find_longest_cache_hit of each manager.                                 *)
(*                                                                         *)
(* A name with _bug is a faulty variant of the definition that follows it: *)
(* put in its place, it must break a property of a run.                    *)

FullHit_bugEagle(g, cached, most, align, eagle) ==  \* the last match is kept
  LET n == Aligned(g, align, RunFrom(cached, 1, most \div g.bs))
  IN  [len |-> n, held |-> 1 .. n]

FullHit_bugRound(g, cached, most, align, eagle) ==  \* a part of a block counts
  LET run == RunFrom(cached, 1, Cdiv(most, g.bs))
      n   == Aligned(g, align, IF eagle THEN Most(0, run - 1) ELSE run)
  IN  [len |-> n, held |-> 1 .. n]

FullHit(g, cached, most, align, eagle) ==
  LET run == RunFrom(cached, 1, most \div g.bs)
      n   == Aligned(g, align, IF eagle THEN Most(0, run - 1) ELSE run)
  IN  [len |-> n, held |-> 1 .. n]

WindowBlocks_bug(g, eagle) ==  \* rounded down
  (g.span - 1) \div g.bs + IF eagle THEN 1 ELSE 0

WindowBlocks_bugEagle(g, eagle) ==  \* no block more to drop
  Cdiv(g.span - 1, g.bs)

\* sliding_window_contiguous_blocks: the next token is in the window itself,
\* and with eagle one more block is matched, to be dropped.
WindowBlocks(g, eagle) == Cdiv(g.span - 1, g.bs) + IF eagle THEN 1 ELSE 0

\* The scan from the right: the blocks taken, the run it is in, which begins at
\* block at, and whether the run is enough.
NoScan(n) == [at |-> n + 1, run |-> 0, held |-> {}, found |-> FALSE]

\* The scan s goes on to block i.
ScanBlock(g, cached, align, eagle, s, i) ==
  CASE s.found -> s
    [] ~s.found /\ i \notin cached -> [s EXCEPT !.at = i, !.run = 0]
    [] ~s.found /\ i \in cached /\ s.run = 0 /\ (i * g.bs) % align # 0 -> [s EXCEPT !.at = i]
    [] OTHER -> [at |-> i, run |-> s.run + 1, held |-> s.held \cup {i},
                 found |-> s.run + 1 >= WindowBlocks(g, eagle)]

WindowScan(g, cached, n, align, eagle) ==
  LET scan[v \in 0 .. n] ==  \* v blocks are visited
        IF v = 0 THEN NoScan(n)
        ELSE ScanBlock(g, cached, align, eagle, scan[v - 1], n + 1 - v)
  IN  scan[n]

WindowHit(g, cached, most, align, eagle) ==
  LET scan == WindowScan(g, cached, most \div g.bs, align, eagle)
      len  == IF scan.found THEN scan.at + scan.run - 1 ELSE Aligned(g, align, scan.run)
      kept == IF eagle /\ len > 0 THEN Aligned(g, align, len - 1) ELSE len
  IN  [len |-> kept, held |-> scan.held \cap 1 .. kept]

\* Blocks of earlier chunks count as computed, whether cached or not.
ChunkHit(g, cached, most, align, eagle) ==
  LET out == ((most \div g.span) * g.span) \div g.bs
      n   == out + RunFrom(cached, out + 1, most \div g.bs)
  IN  [len |-> n, held |-> out + 1 .. n]

MambaHit_bug(g, cached, most, align, eagle) ==  \* gives up at an unaligned block
  LET n == Max({0} \cup (cached \cap 1 .. most \div g.bs))
  IN  IF (n * g.bs) % align = 0 THEN [len |-> n, held |-> {n} \ {0}] ELSE NoHit

MambaHit(g, cached, most, align, eagle) ==
  LET n == Max({0} \cup {i \in cached : i <= most \div g.bs /\ (i * g.bs) % align = 0})
  IN  [len |-> n, held |-> {n} \ {0}]

GroupHit(g, cached, most, align, eagle) ==
  CASE g.kind = "full"   -> FullHit(g, cached, most, align, eagle)
    [] g.kind = "window" -> WindowHit(g, cached, most, align, eagle)
    [] g.kind = "chunk"  -> ChunkHit(g, cached, most, align, eagle)
    [] g.kind = "mamba"  -> MambaHit(g, cached, most, align, eagle)
=============================================================================
