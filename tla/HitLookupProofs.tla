--------------------------- MODULE HitLookupProofs ---------------------------
(***************************************************************************)
(* Theorems about HitLookup: a hit is one that every group can serve, and  *)
(* the longest one.                                                        *)
(***************************************************************************)
EXTENDS HitLookup, QueuesProofs

-----------------------------------------------------------------------------
(* The longest lists.                                                      *)

\* Aligned: the longest list that fits.
LEMMA AlignedLongest ==
  ASSUME NEW g, g.bs \in Nat \ {0}, NEW align \in Nat \ {0}, NEW n \in Nat
  PROVE  /\ Aligned(g, align, n) \in 0 .. n
         /\ (Aligned(g, align, n) * g.bs) % align = 0
         /\ \A k \in 0 .. n : (k * g.bs) % align = 0 => k <= Aligned(g, align, n)
<1> DEFINE S == {k \in 0 .. n : (k * g.bs) % align = 0}
<1>1. 0 \in S
  <2>1. 0 * g.bs = 0 /\ 0 % align = 0
    BY SMTT(20)
  <2> QED BY <2>1
<1>2. S \in SUBSET (0 .. n) /\ S # {}
  BY <1>1
<1>3. Max(S) \in S /\ \A x \in S : x <= Max(S)
  <2> HIDE DEF S
  <2> QED BY <1>2, Greatest
<1> QED
  BY <1>3 DEF Aligned

\* Blocks as large as the alignment are always aligned.
LEMMA AlignedAll ==
  ASSUME NEW g, g.bs \in Nat \ {0}, NEW n \in Nat
  PROVE  Aligned(g, g.bs, n) = n
<1>1. (n * g.bs) % g.bs = 0
  BY Quotient
<1>2. /\ Aligned(g, g.bs, n) \in 0 .. n
      /\ \A k \in 0 .. n : (k * g.bs) % g.bs = 0 => k <= Aligned(g, g.bs, n)
  BY AlignedLongest
<1> QED
  BY <1>1, <1>2

\* RunFrom: the longest run.
LEMMA RunLongest ==
  ASSUME NEW c, NEW from \in Nat, NEW to \in Nat, from <= to + 1
  PROVE  /\ RunFrom(c, from, to) \in 0 .. to - from + 1
         /\ from .. from + RunFrom(c, from, to) - 1 \subseteq c
         /\ \A k \in 0 .. to - from + 1 :
              from .. from + k - 1 \subseteq c => k <= RunFrom(c, from, to)
<1> DEFINE n == to - from + 1
           S == {k \in 0 .. n : from .. from + k - 1 \subseteq c}
<1>1. n \in Nat
  OBVIOUS
<1>2. 0 \in S
  BY <1>1
<1>3. S \in SUBSET (0 .. n) /\ S # {}
  BY <1>2
<1>4. Max(S) \in S /\ \A x \in S : x <= Max(S)
  <2> HIDE DEF S, n
  <2> QED BY <1>1, <1>3, Greatest
<1> QED
  BY <1>4 DEF RunFrom

-----------------------------------------------------------------------------
(* What the next token reads.                                              *)

Layers == {g \in [kind : Kinds, bs : Nat \ {0}, span : Nat] :
             /\ g.kind = "window" => g.span > 1
             /\ g.kind = "chunk" => g.span > 0 /\ g.span % g.bs = 0}

\* k blocks of tokens are k blocks.
LEMMA BlocksOf ==
  ASSUME NEW k \in Nat, NEW b \in Nat \ {0}
  PROVE  Cdiv(k * b, b) = k
<1> DEFINE n == k * b
<1>1. n \in Nat
  BY Product
<1>2. (k * b + b - 1) \div b = k
  BY SMTT(30)
<1> QED BY <1>2 DEF Cdiv

\* Nothing is needed to begin a prompt.
LEMMA NeededNone ==
  ASSUME NEW g \in Layers
  PROVE  Needed(g, 0) = {}
<1>1. g.bs \in Nat \ {0}
  BY DEF Layers
<1>2. 0 * g.bs = 0
  BY <1>1, SMTT(20)
<1>3. Cdiv(0, g.bs) = 0
  BY <1>1, <1>2, BlocksOf
<1> QED
  BY <1>3 DEF Needed

\* Full attention reads all blocks.
LEMMA NeededFull ==
  ASSUME NEW g \in Layers, g.kind = "full", NEW k \in Nat
  PROVE  Needed(g, k * g.bs) = 1 .. k
<1>1. g.bs \in Nat \ {0}
  BY DEF Layers
<1>2. Cdiv(k * g.bs, g.bs) = k
  BY <1>1, BlocksOf
<1>3. \A i \in 1 .. k : i * g.bs > 0
  BY <1>1, SMTT(20)
<1>4. Skipped(g, k * g.bs) = 0
  BY DEF Skipped
<1> QED
  BY <1>2, <1>3, <1>4 DEF Needed

\* A Mamba layer reads its last state.
LEMMA NeededMamba ==
  ASSUME NEW g \in Layers, g.kind = "mamba", NEW k \in Nat
  PROVE  Needed(g, k * g.bs) = {k} \ {0}
<1>1. g.bs \in Nat \ {0}
  BY DEF Layers
<1>2. Cdiv(k * g.bs, g.bs) = k
  BY <1>1, BlocksOf
<1>3. Skipped(g, k * g.bs) = k * g.bs - 1
  BY DEF Skipped
<1>4. ASSUME NEW i \in 1 .. k PROVE i * g.bs > k * g.bs - 1 <=> i = k
  <2> DEFINE x == i * g.bs
             y == k * g.bs
  <2>1. x \in Nat /\ y \in Nat /\ (k <= i <=> y <= x)
    BY <1>1, Product
  <2> HIDE DEF x, y
  <2>2. x > y - 1 <=> k <= i
    BY <2>1
  <2> QED BY <2>2 DEF x, y
<1> QED
  BY <1>2, <1>3, <1>4 DEF Needed

\* A number of blocks is shorter than a number of tokens exactly when it is
\* less than the blocks that these take.
LEMMA Shorter ==
  ASSUME NEW d \in Nat, NEW t \in Nat, NEW b \in Nat \ {0}
  PROVE  Cdiv(t, b) \in Nat /\ (d * b < t <=> d < Cdiv(t, b))
<1> DEFINE s == t + b - 1
           q == s \div b
<1>1. s \in Nat /\ d + 1 \in Nat
  OBVIOUS
<1>2. q \in Nat /\ ((d + 1) * b <= s <=> d + 1 <= q)
  <2> HIDE DEF s
  <2> QED BY <1>1, Division, Quotient
<1>3. (d + 1) * b = d * b + b /\ d * b \in Nat
  BY SMTT(20)
<1>4. d * b < t <=> d + 1 <= q
  <2> DEFINE x == d * b
             y == (d + 1) * b
  <2>1. y = x + b /\ x \in Nat /\ (y <= s <=> d + 1 <= q)
    BY <1>2, <1>3
  <2> HIDE DEF x, y, q
  <2>2. x < t <=> y <= s
    BY <2>1
  <2> QED BY <2>1, <2>2 DEF x
<1> HIDE DEF q
<1>5. d * b < t <=> d < q
  BY <1>2, <1>4
<1> QED
  BY <1>2, <1>5 DEF q, s, Cdiv

\* How many blocks a sliding window reaches back.
Reach(g) == Cdiv(g.span - 1, g.bs)

\* It reaches back at least one.
LEMMA Reaches ==
  ASSUME NEW g \in Layers, g.kind = "window"
  PROVE  Reach(g) \in Nat \ {0}
<1>1. g.bs \in Nat \ {0} /\ g.span \in Nat /\ g.span > 1 /\ g.span - 1 \in Nat
  BY DEF Layers
<1> DEFINE t == g.span - 1
<1>2. t \in Nat /\ t > 0
  BY <1>1
<1> HIDE DEF t
<1>3. 0 * g.bs < t
  BY <1>1, <1>2, SMTT(20)
<1>4. Cdiv(t, g.bs) \in Nat /\ 0 < Cdiv(t, g.bs)
  BY <1>1, <1>2, <1>3, Shorter
<1> QED
  BY <1>4 DEF Reach, t

\* A sliding window reads the blocks it reaches back.
LEMMA NeededWindow ==
  ASSUME NEW g \in Layers, g.kind = "window", NEW k \in Nat
  PROVE  Needed(g, k * g.bs) = {i \in 1 .. k : k - i < Reach(g)}
<1> DEFINE b == g.bs
           t == g.span - 1
<1>1. b \in Nat \ {0} /\ g.span \in Nat /\ t \in Nat /\ g.span > 1
  BY DEF Layers
<1>2. Cdiv(k * b, b) = k
  BY <1>1, BlocksOf
<1>3. Skipped(g, k * b) = Most(0, k * b - g.span + 1)
  BY DEF Skipped, WindowSkipped
<1>4. ASSUME NEW i \in 1 .. k
      PROVE  i * b > Most(0, k * b - g.span + 1) <=> k - i < Reach(g)
  <2> DEFINE x == i * b
             y == k * b
             z == (k - i) * b
  <2>1. k - i \in Nat /\ i \in Nat \ {0}
    OBVIOUS
  <2>2. x \in Nat /\ y \in Nat /\ z \in Nat /\ x > 0
    <3> HIDE DEF b
    <3>1. x \in Nat /\ y \in Nat /\ z \in Nat
      BY <1>1, <2>1, Product
    <3>2. x > 0
      BY <1>1, <2>1, SMTT(20)
    <3> QED BY <3>1, <3>2
  <2>3. y = x + z
    <3> HIDE DEF b
    <3> QED BY <1>1, SMTT(20)
  <2>4. z < t <=> k - i < Cdiv(t, b)
    <3> HIDE DEF b, t
    <3> QED BY <1>1, <2>1, Shorter
  <2> HIDE DEF x, y, z
  <2>5. x > Most(0, y - g.span + 1) <=> z < t
    BY <1>1, <2>2, <2>3 DEF Most
  <2> QED BY <2>4, <2>5 DEF x, y, Reach
<1> QED
  BY <1>2, <1>3, <1>4 DEF Needed

\* Local attention reads the blocks of the chunk.
LEMMA NeededChunk ==
  ASSUME NEW g \in Layers, g.kind = "chunk", NEW k \in Nat
  PROVE  /\ ((k * g.bs) \div g.span) * g.span \in Nat
         /\ Needed(g, k * g.bs)
              = {i \in 1 .. k : i > (((k * g.bs) \div g.span) * g.span) \div g.bs}
<1> DEFINE b == g.bs
           s == ((k * b) \div g.span) * g.span
<1>1. b \in Nat \ {0} /\ g.span \in Nat \ {0}
  BY DEF Layers
<1>2. Cdiv(k * b, b) = k
  BY <1>1, BlocksOf
<1>3. Skipped(g, k * b) = s
  BY DEF Skipped, ChunkSkipped
<1>4. s \in Nat
  <2>1. k * b \in Nat
    <3> HIDE DEF b
    <3> QED BY <1>1, Product
  <2>2. (k * b) \div g.span \in Nat
    <3> DEFINE n == k * b
    <3> HIDE DEF n
    <3>1. n \in Nat
      BY <2>1 DEF n
    <3>2. n \div g.span \in Nat
      BY <1>1, <3>1, Division
    <3> QED BY <3>2 DEF n
  <2> DEFINE q == (k * b) \div g.span
  <2> HIDE DEF q
  <2>3. q \in Nat
    BY <2>2 DEF q
  <2>4. q * g.span \in Nat
    BY <1>1, <2>3, Product
  <2> QED BY <2>4 DEF q
<1>5. ASSUME NEW i \in 1 .. k PROVE i * b > s <=> i > s \div b
  <2> HIDE DEF s, b
  <2>1. i \in Nat /\ i * b \in Nat /\ s \div b \in Nat
    <3>1. i \in Nat
      OBVIOUS
    <3>2. i * b \in Nat
      BY <1>1, <3>1, Product
    <3>3. s \div b \in Nat
      BY <1>1, <1>4, Division
    <3> QED BY <3>1, <3>2, <3>3
  <2>2. i * b <= s <=> i <= s \div b
    BY <1>1, <1>4, <2>1, Quotient
  <2> DEFINE x == i * b
             y == s \div b
  <2>3. x \in Nat /\ y \in Nat /\ (x <= s <=> i <= y)
    BY <2>1, <2>2
  <2> HIDE DEF x, y
  <2>4. x > s <=> i > y
    BY <1>4, <2>1, <2>3
  <2> QED BY <2>4 DEF x, y
<1>6. Needed(g, k * b) = {i \in 1 .. k : i > s \div b}
  <2> HIDE DEF s
  <2>1. Needed(g, k * b) = {i \in 1 .. k : i * b > s}
    BY <1>2, <1>3 DEF Needed
  <2> QED BY <1>5, <2>1
<1> QED
  BY <1>4, <1>6

-----------------------------------------------------------------------------
(* What the lookup of one group returns.                                   *)

\* A hit h of group g: it is aligned and no longer than asked for; the blocks that
\* the next token reads are in it, and all its blocks are cached; no longer hit would
\* do, or, with eagle, one more block is cached.
Serves(g, c, most, align, h) ==
  /\ h.len \in Nat /\ h.len * g.bs <= most /\ (h.len * g.bs) % align = 0
  /\ Needed(g, h.len * g.bs) \subseteq h.held
  /\ h.held \subseteq c /\ h.held \subseteq 1 .. h.len
  /\ g.kind = "full" => h.held = 1 .. h.len
  /\ ~eagle => \A n \in 0 .. most :
                 n % align = 0 /\ Needed(g, n) \subseteq c => n <= h.len * g.bs
  /\ eagle /\ h.len > 0 /\ g.kind \in {"full", "window"} => h.len + 1 \in c

\* An aligned length is a number of blocks.
LEMMA InBlocks ==
  ASSUME NEW n \in Nat, NEW most \in Nat, n <= most, NEW align \in Nat \ {0},
         NEW b \in Nat \ {0}, n % align = 0, align % b = 0
  PROVE  /\ n \div b \in 0 .. most \div b /\ n = (n \div b) * b
         /\ ((n \div b) * b) % align = 0
<1> DEFINE k == n \div b
<1>1. n % b = 0
  BY Chain
<1>2. k \in Nat /\ n = k * b
  BY <1>1, Multiple, Division
<1> HIDE DEF k
<1>3. k * b <= most
  BY <1>2
<1>4. k <= most \div b /\ most \div b \in Nat
  BY <1>2, <1>3, Quotient, Division
<1>5. (k * b) % align = 0
  BY <1>2
<1>6. k \in 0 .. most \div b
  BY <1>2, <1>4
<1> QED
  BY <1>2, <1>5, <1>6 DEF k

\* The lookup of full attention.
LEMMA FullServes ==
  ASSUME NEW g \in Layers, g.kind = "full", NEW c \in SUBSET Nat, NEW most \in Nat,
         NEW align \in Nat \ {0}, align % g.bs = 0
  PROVE  Serves(g, c, most, align, FullHit(g, c, most, align, eagle))
<1> DEFINE b   == g.bs
           to  == most \div b
           run == RunFrom(c, 1, to)
           m   == IF eagle THEN Most(0, run - 1) ELSE run
           n   == Aligned(g, align, m)
<1>0. b \in Nat \ {0} /\ to \in Nat
  <2>1. b \in Nat \ {0}
    BY DEF Layers
  <2> HIDE DEF b
  <2> QED BY <2>1, Division
<1>1. FullHit(g, c, most, align, eagle) = [len |-> n, held |-> 1 .. n]
  BY DEF FullHit
<1> HIDE DEF to
<1>2. /\ run \in 0 .. to /\ 1 .. run \subseteq c
      /\ \A k \in 0 .. to : 1 .. k \subseteq c => k <= run
  <2>1. /\ run \in 0 .. to - 1 + 1 /\ 1 .. 1 + run - 1 \subseteq c
        /\ \A k \in 0 .. to - 1 + 1 : 1 .. 1 + k - 1 \subseteq c => k <= run
    <3>1. 1 \in Nat /\ 1 <= to + 1
      BY <1>0
    <3> HIDE DEF run
    <3> QED BY <1>0, <3>1, RunLongest DEF run
  <2>2. 0 .. to - 1 + 1 = 0 .. to
    BY <1>0
  <2> HIDE DEF run
  <2>3. \A k \in 0 .. to : 1 .. 1 + k - 1 = 1 .. k
    BY <1>0
  <2> QED BY <2>1, <2>2, <2>3
<1> HIDE DEF run
<1>3. m \in 0 .. run /\ (eagle => m = 0 \/ m + 1 \in 1 .. run) /\ (~eagle => m = run)
  BY <1>0, <1>2 DEF Most
<1> HIDE DEF m
<1>4. /\ n \in 0 .. m /\ (n * b) % align = 0
      /\ \A k \in 0 .. m : (k * b) % align = 0 => k <= n
  BY <1>0, <1>2, <1>3, AlignedLongest
<1> HIDE DEF n
<1>5. n * b <= most
  <2>1. n \in Nat /\ n <= to
    BY <1>0, <1>2, <1>3, <1>4
  <2> QED BY <1>0, <2>1, Quotient DEF to
<1>6. Needed(g, n * b) = 1 .. n /\ 1 .. n \subseteq c
  <2>1. n \in Nat /\ n <= run
    BY <1>0, <1>2, <1>3, <1>4
  <2>2. 1 .. n \subseteq 1 .. run
    BY <1>0, <1>2, <2>1
  <2> QED BY <1>2, <2>1, <2>2, NeededFull
<1>7. ASSUME ~eagle, NEW x \in 0 .. most, x % align = 0, Needed(g, x) \subseteq c
      PROVE  x <= n * b
  <2>0. x \in Nat /\ x <= most /\ align % b = 0
    BY <1>0
  <2>1. PICK k \in 0 .. to : x = k * b /\ (k * b) % align = 0
    <3> DEFINE j == x \div b
    <3> HIDE DEF b
    <3>1. j \in 0 .. to /\ x = j * b /\ (j * b) % align = 0
      BY <1>0, <1>7, <2>0, InBlocks, ZenonT(60) DEF to
    <3> HIDE DEF j
    <3> QED BY <3>1, Zenon
  <2>2. 1 .. k \subseteq c
    BY <1>0, <1>7, <2>1, NeededFull
  <2>3. k \in 0 .. m
    BY <1>0, <1>2, <1>3, <1>7, <2>2
  <2>4. k \in Nat /\ n \in Nat /\ k <= n
    BY <1>0, <1>2, <1>3, <1>4, <2>1, <2>3
  <2> HIDE DEF b
  <2>5. k * b <= n * b
    BY <1>0, <2>4, Product
  <2> QED BY <2>1, <2>5
<1>8. ASSUME eagle, n > 0 PROVE n + 1 \in c
  <2>1. n + 1 \in 1 .. run
    BY <1>0, <1>2, <1>3, <1>4, <1>8
  <2> QED BY <1>2, <2>1
<1>9. n \in Nat
  BY <1>2, <1>3, <1>4
<1> QED
  BY <1>1, <1>4, <1>5, <1>6, <1>7, <1>8, <1>9 DEF Serves

\* The lookup of the Mamba manager.
LEMMA MambaServes ==
  ASSUME NEW g \in Layers, g.kind = "mamba", NEW c \in SUBSET Nat, NEW most \in Nat,
         NEW align \in Nat \ {0}, align % g.bs = 0
  PROVE  Serves(g, c, most, align, MambaHit(g, c, most, align, eagle))
<1> DEFINE b  == g.bs
           to == most \div b
           S  == {0} \cup {i \in c : i <= to /\ (i * b) % align = 0}
           n  == Max(S)
<1>0. b \in Nat \ {0} /\ to \in Nat
  <2>1. b \in Nat \ {0}
    BY DEF Layers
  <2> HIDE DEF b
  <2> QED BY <2>1, Division
<1>1. MambaHit(g, c, most, align, eagle) = [len |-> n, held |-> {n} \ {0}]
  BY DEF MambaHit
<1> HIDE DEF to
<1>2. S \in SUBSET (0 .. to) /\ S # {}
  <2>1. \A i \in c : i <= to => i \in 0 .. to
    BY <1>0
  <2>2. 0 \in 0 .. to
    BY <1>0
  <2> QED BY <2>1, <2>2
<1>3. n \in S /\ \A x \in S : x <= n
  <2> HIDE DEF S
  <2> QED BY <1>0, <1>2, Greatest
<1> HIDE DEF n
<1>4. n \in Nat /\ n <= to /\ (n # 0 => n \in c)
  BY <1>0, <1>3
<1>5. (n * b) % align = 0
  <2>1. 0 * b = 0 /\ 0 % align = 0
    <3> HIDE DEF b
    <3> QED BY <1>0, SMTT(20)
  <2> QED BY <1>3, <2>1
<1>6. n * b <= most
  BY <1>0, <1>4, Quotient DEF to
<1>7. Needed(g, n * b) = {n} \ {0} /\ {n} \ {0} \subseteq c /\ {n} \ {0} \subseteq 1 .. n
  <2>1. Needed(g, n * b) = {n} \ {0}
    BY <1>4, NeededMamba
  <2> QED BY <1>4, <2>1
<1>8. ASSUME NEW x \in 0 .. most, x % align = 0, Needed(g, x) \subseteq c
      PROVE  x <= n * b
  <2>0. x \in Nat /\ x <= most /\ align % b = 0
    BY <1>0
  <2>1. PICK k \in 0 .. to : x = k * b /\ (k * b) % align = 0
    <3> DEFINE j == x \div b
    <3> HIDE DEF b
    <3>1. j \in 0 .. to /\ x = j * b /\ (j * b) % align = 0
      BY <1>0, <1>8, <2>0, InBlocks, ZenonT(60) DEF to
    <3> HIDE DEF j
    <3> QED BY <3>1, Zenon
  <2>2. k \in Nat /\ {k} \ {0} \subseteq c
    <3>1. k \in Nat
      BY <1>0
    <3>2. Needed(g, k * b) = {k} \ {0}
      BY <3>1, NeededMamba
    <3> QED BY <1>8, <2>1, <3>1, <3>2
  <2>3. k \in S
    BY <1>0, <2>1, <2>2
  <2>4. k \in Nat /\ k <= n
    BY <1>0, <1>3, <2>1, <2>3
  <2> HIDE DEF b
  <2>5. k * b <= n * b
    BY <1>0, <1>4, <2>4, Product
  <2> QED BY <2>1, <2>5
<1> HIDE DEF S
<1> QED
  BY <1>1, <1>4, <1>5, <1>6, <1>7, <1>8 DEF Serves

\* Numbers between a chunk's beginning and a number in it are in the chunk.
LEMMA SameChunk ==
  ASSUME NEW n \in Nat, NEW x \in Nat, NEW s \in Nat \ {0}, (n \div s) * s <= x, x <= n
  PROVE  x \div s = n \div s
<1> DEFINE p == n \div s
           q == x \div s
<1>1. p \in Nat /\ q \in Nat
  BY Division
<1>2. p <= q
  BY <1>1, Quotient
<1>3. q * s <= x /\ q * s \in Nat
  <2>1. q <= x \div s
    BY <1>1
  <2> HIDE DEF q
  <2>2. q * s <= x
    BY <1>1, <2>1, Quotient
  <2> QED BY <1>1, <2>2, Product
<1>4. q * s <= n
  <2> DEFINE y == q * s
  <2>1. y \in Nat /\ y <= x
    BY <1>3
  <2> HIDE DEF y, q
  <2>2. y <= n
    BY <2>1
  <2> QED BY <2>2 DEF y
<1>5. q <= p
  <2> HIDE DEF q
  <2> QED BY <1>1, <1>4, Quotient
<1> HIDE DEF p, q
<1>6. p = q
  BY <1>1, <1>2, <1>5
<1> QED
  BY <1>6 DEF p, q

\* The lookup of chunked local attention.
LEMMA ChunkServes ==
  ASSUME NEW g \in Layers, g.kind = "chunk", NEW c \in SUBSET Nat, NEW most \in Nat,
         NEW align \in Nat \ {0}, ~eagle, g.bs = align
  PROVE  Serves(g, c, most, align, ChunkHit(g, c, most, align, eagle))
<1> DEFINE b   == g.bs
           to  == most \div b
           s   == (most \div g.span) * g.span
           out == s \div b
           run == RunFrom(c, out + 1, to)
           n   == out + run
<1>0. /\ b \in Nat \ {0} /\ to \in Nat /\ g.span \in Nat \ {0} /\ g.span % b = 0
      /\ align % b = 0
  <2>1. b \in Nat \ {0} /\ g.span \in Nat \ {0} /\ g.span % b = 0
    BY DEF Layers
  <2>2. b % b = 0
    <3>1. 1 * b = b
      BY <2>1, SMTT(20)
    <3> HIDE DEF b
    <3> QED BY <2>1, <3>1, Quotient
  <2> HIDE DEF b
  <2>3. to \in Nat
    BY <2>1, Division
  <2> QED BY <2>1, <2>2, <2>3 DEF b
<1>1. ChunkHit(g, c, most, align, eagle) = [len |-> n, held |-> out + 1 .. n]
  BY DEF ChunkHit
<1>2. /\ s \in Nat /\ s <= most /\ out \in Nat /\ s = out * b /\ out <= to
  <2> DEFINE q == most \div g.span
  <2>1. q \in Nat /\ q <= most \div g.span
    <3>1. q \in Nat
      BY <1>0, Division
    <3>2. q = most \div g.span
      OBVIOUS
    <3> QED BY <3>1, <3>2
  <2> HIDE DEF q
  <2>2. q * g.span \in Nat /\ q * g.span <= most /\ (q * g.span) % g.span = 0
    BY <1>0, <2>1, Quotient, Product
  <2>3. s = q * g.span
    BY DEF q
  <2> HIDE DEF s, b
  <2>4. s \in Nat /\ s <= most /\ s % g.span = 0
    BY <2>2, <2>3
  <2>5. s % b = 0
    BY <1>0, <2>4, Chain
  <2>6. s = out * b /\ out \in Nat
    BY <1>0, <2>4, <2>5, Multiple, Division
  <2>7. out * b <= most
    BY <2>4, <2>6
  <2> HIDE DEF out
  <2>8. out <= to
    BY <1>0, <2>6, <2>7, Quotient
  <2> QED BY <2>4, <2>6, <2>8
<1> HIDE DEF out, to
<1>3. /\ run \in 0 .. to - out /\ out + 1 .. n \subseteq c
      /\ \A k \in 0 .. to - out : out + 1 .. out + k \subseteq c => k <= run
  <2> DEFINE from == out + 1
  <2>1. from \in Nat /\ from <= to + 1
    BY <1>0, <1>2
  <2>2. /\ RunFrom(c, from, to) \in 0 .. to - from + 1
        /\ from .. from + RunFrom(c, from, to) - 1 \subseteq c
        /\ \A k \in 0 .. to - from + 1 :
             from .. from + k - 1 \subseteq c => k <= RunFrom(c, from, to)
    <3> HIDE DEF from
    <3> QED BY <1>0, <2>1, RunLongest
  <2>3. run = RunFrom(c, from, to)
    OBVIOUS
  <2> HIDE DEF run
  <2>4. to - from + 1 = to - out
    BY <1>0, <1>2
  <2>5. \A k \in 0 .. to - out : from + k - 1 = out + k
    BY <1>0, <1>2
  <2>6. run \in 0 .. to - out
    BY <2>2, <2>3, <2>4
  <2>7. from + run - 1 = n
    BY <2>5, <2>6
  <2>8. out + 1 .. n \subseteq c
    BY <2>2, <2>3, <2>7
  <2>9. ASSUME NEW k \in 0 .. to - out, out + 1 .. out + k \subseteq c PROVE k <= run
    <3>1. from .. from + k - 1 \subseteq c
      BY <2>5, <2>9
    <3> QED BY <2>2, <2>3, <2>4, <3>1
  <2> QED BY <2>6, <2>8, <2>9
<1> HIDE DEF run
<1>4. n \in Nat /\ out <= n /\ n <= to
  BY <1>0, <1>2, <1>3
\* Lengths behind the beginning of the chunk.
<1>5. ASSUME NEW k \in out .. to PROVE Needed(g, k * b) = out + 1 .. k
  <2>1. k \in Nat /\ out <= k /\ k <= to
    BY <1>0, <1>2
  <2>2. k * b \in Nat /\ s <= k * b /\ k * b <= most
    <3> HIDE DEF b, s
    <3>1. k * b \in Nat /\ out * b <= k * b
      BY <1>0, <1>2, <2>1, Product
    <3>2. k * b <= most
      BY <1>0, <2>1, Quotient DEF to
    <3> QED BY <1>2, <3>1, <3>2
  <2>3. (k * b) \div g.span = most \div g.span
    <3> DEFINE x == k * b
    <3>1. x \in Nat /\ x <= most /\ (most \div g.span) * g.span <= x
      BY <2>2
    <3> HIDE DEF x
    <3>2. x \div g.span = most \div g.span
      BY <1>0, <3>1, SameChunk
    <3> QED BY <3>2 DEF x
  <2>4. (((k * b) \div g.span) * g.span) \div b = out
    BY <2>3 DEF out
  <2>5. Needed(g, k * b) = {i \in 1 .. k : i > out}
    BY <2>1, <2>4, NeededChunk
  <2>6. {i \in 1 .. k : i > out} = out + 1 .. k
    BY <1>2, <2>1
  <2> QED BY <2>5, <2>6
<1>6. Needed(g, n * b) = out + 1 .. n /\ out + 1 .. n \subseteq 1 .. n
  <2>1. n \in out .. to
    BY <1>0, <1>2, <1>4
  <2> HIDE DEF n
  <2>2. out + 1 .. n \subseteq 1 .. n
    BY <1>2, <1>4
  <2> QED BY <1>5, <2>1, <2>2
<1> HIDE DEF n, s
<1>7. n * b <= most /\ (n * b) % align = 0
  <2>1. (n * b) % b = 0
    <3> HIDE DEF b
    <3> QED BY <1>0, <1>4, Quotient
  <2>2. n * b <= most
    <3> HIDE DEF b
    <3> QED BY <1>0, <1>4, Quotient DEF to
  <2> QED BY <2>1, <2>2
<1>8. ASSUME NEW x \in 0 .. most, x % align = 0, Needed(g, x) \subseteq c
      PROVE  x <= n * b
  <2>0. x \in Nat /\ x <= most
    OBVIOUS
  <2>1. PICK k \in 0 .. to : x = k * b
    <3>1. x % b = 0 /\ b % b = 0
      BY <1>0, <1>8
    <3> DEFINE j == x \div b
    <3> HIDE DEF b
    <3>2. j \in 0 .. most \div b /\ x = j * b
      BY <1>0, <2>0, <3>1, InBlocks, SMTT(40)
    <3> HIDE DEF j
    <3> QED BY <3>2 DEF to
  <2>2. k \in Nat /\ k <= to
    BY <1>0
  <2>3. k <= n
    <3>1. CASE k <= out
      BY <1>2, <1>4, <2>2, <3>1
    <3>2. CASE ~ (k <= out)
      <4>1. k \in out .. to /\ k - out \in 0 .. to - out /\ out + (k - out) = k
        BY <1>0, <1>2, <2>2, <3>2
      <4>2. out + 1 .. k \subseteq c
        BY <1>5, <1>8, <2>1, <4>1
      <4>3. k - out <= run
        BY <1>3, <4>1, <4>2
      <4> QED BY <1>2, <1>3, <2>2, <4>3 DEF n
    <3> QED BY <3>1, <3>2
  <2> HIDE DEF b
  <2>4. k * b <= n * b
    BY <1>0, <1>4, <2>2, <2>3, Product
  <2> QED BY <2>1, <2>4
<1>9. out + 1 .. n \subseteq c
  BY <1>3 DEF n
<1> DEFINE h == [len |-> n, held |-> out + 1 .. n]
<1>10. h.len = n /\ h.held = out + 1 .. n
  OBVIOUS
<1> HIDE DEF h
<1>11. Serves(g, c, most, align, h)
  BY <1>4, <1>6, <1>7, <1>8, <1>9, <1>10 DEF Serves
<1> QED
  BY <1>1, <1>11 DEF h

-----------------------------------------------------------------------------
(* The scan of the sliding-window manager.                                 *)

ScanType == [at : Int, run : Nat, held : SUBSET Int, found : BOOLEAN]

\* f is what the scan has found after each number of blocks.
Scans(f, g, c, n, align) ==
  /\ f[0] = NoScan(n)
  /\ \A v \in 1 .. n : f[v] = ScanBlock(g, c, align, eagle, f[v - 1], n + 1 - v)

\* The step of the scan from s to t, by cases.
ScanStep(g, c, align, s, i, t) ==
  /\ s.found => t = s
  /\ ~s.found /\ i \notin c =>
       t.at = i /\ t.run = 0 /\ t.held = s.held /\ t.found = s.found
  /\ ~s.found /\ i \in c /\ s.run = 0 /\ (i * g.bs) % align # 0 =>
       t.at = i /\ t.run = 0 /\ t.held = s.held /\ t.found = s.found
  /\ ~s.found /\ i \in c /\ (s.run # 0 \/ (i * g.bs) % align = 0) =>
       /\ t.at = i /\ t.run = s.run + 1 /\ t.held = s.held \cup {i}
       /\ t.found <=> s.run + 1 >= WindowBlocks(g, eagle)

\* The definition is by these cases.
LEMMA ScanCases ==
  ASSUME NEW g \in Layers, NEW c, NEW align, NEW s \in ScanType, NEW i \in Int
  PROVE  /\ ScanBlock(g, c, align, eagle, s, i) \in ScanType
         /\ ScanStep(g, c, align, s, i, ScanBlock(g, c, align, eagle, s, i))
<1> DEFINE t == ScanBlock(g, c, align, eagle, s, i)
<1>1. ASSUME s.found PROVE t = s
  BY <1>1 DEF ScanBlock
<1>2. ASSUME ~s.found, i \notin c PROVE t = [s EXCEPT !.at = i, !.run = 0]
  BY <1>2 DEF ScanBlock
<1>3. ASSUME ~s.found, i \in c, s.run = 0, (i * g.bs) % align # 0
      PROVE  t = [s EXCEPT !.at = i]
  BY <1>3 DEF ScanBlock
<1>4. ASSUME ~s.found, i \in c, s.run # 0 \/ (i * g.bs) % align = 0
      PROVE  t = [at |-> i, run |-> s.run + 1, held |-> s.held \cup {i},
                  found |-> s.run + 1 >= WindowBlocks(g, eagle)]
  BY <1>4 DEF ScanBlock
<1>5. t \in ScanType
  <2>1. [s EXCEPT !.at = i, !.run = 0] \in ScanType /\ [s EXCEPT !.at = i] \in ScanType
    BY DEF ScanType
  <2>2. [at |-> i, run |-> s.run + 1, held |-> s.held \cup {i},
         found |-> s.run + 1 >= WindowBlocks(g, eagle)] \in ScanType
    <3>1. s.run + 1 \in Nat /\ s.held \cup {i} \in SUBSET Int
      BY DEF ScanType
    <3>2. (s.run + 1 >= WindowBlocks(g, eagle)) \in BOOLEAN
      OBVIOUS
    <3> QED BY <3>1, <3>2 DEF ScanType
  <2> HIDE DEF t
  <2> QED BY <1>1, <1>2, <1>3, <1>4, <2>1, <2>2
<1> HIDE DEF t
<1>6. ASSUME ~s.found, i \notin c
      PROVE  t.at = i /\ t.run = 0 /\ t.held = s.held /\ t.found = s.found
  BY <1>2, <1>6 DEF ScanType
<1>7. ASSUME ~s.found, i \in c, s.run = 0, (i * g.bs) % align # 0
      PROVE  t.at = i /\ t.run = 0 /\ t.held = s.held /\ t.found = s.found
  BY <1>3, <1>7 DEF ScanType
<1>8. ASSUME ~s.found, i \in c, s.run # 0 \/ (i * g.bs) % align = 0
      PROVE  /\ t.at = i /\ t.run = s.run + 1 /\ t.held = s.held \cup {i}
             /\ t.found <=> s.run + 1 >= WindowBlocks(g, eagle)
  <2> DEFINE n == s.run + 1
             h == s.held \cup {i}
             e == n >= WindowBlocks(g, eagle)
  <2>1. t = [at |-> i, run |-> n, held |-> h, found |-> e]
    BY <1>4, <1>8
  <2> HIDE DEF n, h, e
  <2>2. t.at = i /\ t.run = n /\ t.held = h /\ t.found = e
    BY <2>1
  <2> QED BY <2>2 DEF n, h, e
<1>9. ScanStep(g, c, align, s, i, t)
  BY <1>1, <1>6, <1>7, <1>8 DEF ScanStep
<1> QED
  BY <1>5, <1>9 DEF t

\* The recursive definition of the scan defines something.
LEMMA ScanDefined ==
  ASSUME NEW g \in Layers, NEW c, NEW align, NEW n \in Nat
  PROVE  \E f : Scans(f, g, c, n, align) /\ WindowScan(g, c, n, align, eagle) = f[n]
<1> DEFINE body(f) == [v \in 0 .. n |->
                         IF v = 0 THEN NoScan(n)
                         ELSE ScanBlock(g, c, align, eagle, f[v - 1], n + 1 - v)]
           scan == CHOOSE f : f = body(f)
           next == [p \in Nat \X ScanType |->
                      ScanBlock(g, c, align, eagle, p[2], n + 1 - p[1])]
<1>1. WindowScan(g, c, n, align, eagle) = scan[n]
  BY DEF WindowScan
<1>2. PICK f \in [0 .. n -> ScanType] : Iterates(f, n, NoScan(n), next)
  <2>1. next \in [Nat \X ScanType -> ScanType]
    <3>1. ASSUME NEW p \in Nat \X ScanType PROVE next[p] \in ScanType
      <4> DEFINE s == p[2]
                 i == n + 1 - p[1]
      <4>1. s \in ScanType /\ i \in Int
        OBVIOUS
      <4>2. next[p] = ScanBlock(g, c, align, eagle, s, i)
        OBVIOUS
      <4> HIDE DEF next, s, i
      <4>3. ScanBlock(g, c, align, eagle, s, i) \in ScanType
        BY <4>1, ScanCases
      <4> QED BY <4>2, <4>3
    <3> QED BY <3>1
  <2>2. NoScan(n) \in ScanType
    BY DEF NoScan, ScanType
  <2> HIDE DEF next
  <2> QED BY <2>1, <2>2, Recursion
<1>3. Scans(f, g, c, n, align)
  <2>1. ASSUME NEW v \in 1 .. n
        PROVE  f[v] = ScanBlock(g, c, align, eagle, f[v - 1], n + 1 - v)
    <3>1. v \in Nat /\ v - 1 \in 0 .. n
      OBVIOUS
    <3>2. f[v - 1] \in ScanType
      BY <3>1
    <3>3. <<v, f[v - 1]>> \in Nat \X ScanType
      BY <3>1, <3>2
    <3>4. f[v] = next[<<v, f[v - 1]>>]
      BY <1>2 DEF Iterates
    <3> QED BY <3>3, <3>4
  <2> HIDE DEF next
  <2> QED BY <1>2, <2>1 DEF Scans, Iterates
<1> HIDE DEF next
<1>4. f = body(f)
  <2>1. ASSUME NEW v \in 0 .. n PROVE f[v] = body(f)[v]
    <3>1. CASE v = 0
      BY <1>3, <3>1 DEF Scans
    <3>2. CASE v # 0
      <4>1. v \in 1 .. n
        BY <3>2
      <4> QED BY <1>3, <4>1, <3>2 DEF Scans
    <3> QED BY <3>1, <3>2
  <2>2. DOMAIN f = 0 .. n /\ f = [v \in 0 .. n |-> f[v]]
    OBVIOUS
  <2> QED BY <2>1, <2>2
<1>5. scan = body(scan)
  BY <1>4
<1> HIDE DEF scan
<1>6. Scans(scan, g, c, n, align)
  <2>1. \A v \in 0 .. n : scan[v] = body(scan)[v]
    BY <1>5
  <2>2. 0 \in 0 .. n /\ \A v \in 1 .. n : v \in 0 .. n /\ v # 0
    OBVIOUS
  <2>3. scan[0] = NoScan(n)
    BY <2>1, <2>2
  <2>4. \A v \in 1 .. n : scan[v] = ScanBlock(g, c, align, eagle, scan[v - 1], n + 1 - v)
    BY <2>1, <2>2
  <2> QED BY <2>3, <2>4 DEF Scans
<1> QED
  BY <1>1, <1>6

\* What the scan knows of the blocks i .. n: its run is an unbroken one of cached
\* blocks that ends aligned, and no list that would do ends behind it.
ScanOK(g, c, n, align, i, s) ==
  /\ s \in ScanType /\ i <= s.at /\ s.at + s.run - 1 <= n
  /\ ~s.found => s.at = i /\ s.run < WindowBlocks(g, eagle)
  /\ s.found => s.run >= WindowBlocks(g, eagle)
  /\ s.held \subseteq c /\ s.held \subseteq s.at .. n
  /\ s.at .. s.at + s.run - 1 \subseteq s.held
  /\ s.run > 0 => ((s.at + s.run - 1) * g.bs) % align = 0
  /\ \A k \in i .. n :
       (k * g.bs) % align = 0 /\ {j \in i .. k : k - j < WindowBlocks(g, eagle)} \subseteq c
         => k <= s.at + s.run - 1

\* A window is at least a block, and with eagle one more.
LEMMA WindowOf ==
  ASSUME NEW g \in Layers, g.kind = "window"
  PROVE  /\ WindowBlocks(g, eagle) \in Nat \ {0}
         /\ eagle => WindowBlocks(g, eagle) = Reach(g) + 1
         /\ ~eagle => WindowBlocks(g, eagle) = Reach(g)
<1>1. Reach(g) \in Nat \ {0}
  BY Reaches
<1>2. /\ eagle => WindowBlocks(g, eagle) = Reach(g) + 1
      /\ ~eagle => WindowBlocks(g, eagle) = Reach(g) + 0
  BY DEF WindowBlocks, Reach
<1> QED
  BY <1>1, <1>2

\* The scan of one more block.
LEMMA ScanKeeps ==
  ASSUME NEW g \in Layers, g.kind = "window", NEW c \in SUBSET Nat, NEW align, NEW n \in Nat,
         NEW i \in 1 .. n, NEW s, ScanOK(g, c, n, align, i + 1, s)
  PROVE  ScanOK(g, c, n, align, i, ScanBlock(g, c, align, eagle, s, i))
<1> DEFINE t == ScanBlock(g, c, align, eagle, s, i)
           w == WindowBlocks(g, eagle)
<1>0. w \in Nat \ {0}
  BY WindowOf
<1>1. /\ s \in ScanType /\ i + 1 <= s.at /\ s.at + s.run - 1 <= n
      /\ ~s.found => s.at = i + 1 /\ s.run < w
      /\ s.found => s.run >= w
      /\ s.held \subseteq c /\ s.held \subseteq s.at .. n
      /\ s.at .. s.at + s.run - 1 \subseteq s.held
      /\ s.run > 0 => ((s.at + s.run - 1) * g.bs) % align = 0
      /\ \A k \in i + 1 .. n :
           (k * g.bs) % align = 0 /\ {j \in i + 1 .. k : k - j < w} \subseteq c
             => k <= s.at + s.run - 1
  BY DEF ScanOK
<1>2. s.at \in Int /\ s.run \in Nat /\ s.held \in SUBSET Int /\ i \in Nat \ {0} /\ i <= n
  BY <1>1 DEF ScanType
<1>t. t \in ScanType /\ ScanStep(g, c, align, s, i, t)
  BY <1>1, <1>2, ScanCases
<1> HIDE DEF w
\* Lists that end behind block i.
<1>3. ASSUME NEW k \in i .. n, (k * g.bs) % align = 0,
             {j \in i .. k : k - j < w} \subseteq c, k # i
      PROVE  k \in i + 1 .. n /\ k <= s.at + s.run - 1
  <2>1. k \in i + 1 .. n
    BY <1>2, <1>3
  <2>2. {j \in i + 1 .. k : k - j < w} \subseteq {j \in i .. k : k - j < w}
    BY <1>2, <2>1
  <2> QED BY <1>1, <1>3, <2>1, <2>2
<1>4. CASE s.found
  <2>1. t = s
    BY <1>4, <1>t DEF ScanStep
  <2>2. ASSUME NEW k \in i .. n, (k * g.bs) % align = 0,
               {j \in i .. k : k - j < w} \subseteq c
        PROVE  k <= s.at + s.run - 1
    <3>1. CASE k = i
      BY <1>0, <1>1, <1>2, <1>4, <3>1
    <3>2. CASE k # i
      BY <1>3, <2>2, <3>2
    <3> QED BY <3>1, <3>2
  <2>3. i <= s.at
    BY <1>1, <1>2
  <2> HIDE DEF t
  <2> QED BY <1>1, <1>4, <2>1, <2>2, <2>3 DEF ScanOK, t, w
<1>5. CASE ~s.found /\ i \notin c
  <2> HIDE DEF t
  <2>1. t \in ScanType
    BY <1>t
  <2>2. t.at = i /\ t.run = 0 /\ t.held = s.held /\ t.found = s.found
    BY <1>5, <1>t DEF ScanStep
  <2>3. ASSUME NEW k \in i .. n, (k * g.bs) % align = 0,
               {j \in i .. k : k - j < w} \subseteq c
        PROVE  FALSE
    <3>1. ~ (k - i < w)
      <4>1. i \in i .. k
        BY <1>2
      <4> QED BY <1>5, <2>3, <4>1
    <3>2. k # i
      BY <1>0, <1>2, <3>1
    <3>3. k <= i + 1 + s.run - 1 /\ s.run < w
      BY <1>1, <1>3, <1>5, <2>3, <3>2
    <3> QED BY <1>0, <1>2, <3>1, <3>3
  <2>4. s.held \subseteq i .. n
    BY <1>1, <1>2
  <2>5. i + 0 - 1 <= n /\ i .. i + 0 - 1 = {} /\ 0 < w
    BY <1>0, <1>2
  <2> QED BY <1>1, <1>2, <1>5, <2>1, <2>2, <2>3, <2>4, <2>5 DEF ScanOK, t, w
<1>6. CASE ~s.found /\ i \in c /\ s.run = 0 /\ (i * g.bs) % align # 0
  <2> HIDE DEF t
  <2>1. t \in ScanType
    BY <1>t
  <2>2. t.at = i /\ t.run = 0 /\ t.held = s.held /\ t.found = s.found
    BY <1>6, <1>t DEF ScanStep
  <2>3. ASSUME NEW k \in i .. n, (k * g.bs) % align = 0,
               {j \in i .. k : k - j < w} \subseteq c
        PROVE  FALSE
    <3>1. k # i
      BY <1>6, <2>3
    <3>2. k \in i + 1 .. n /\ k <= i + 1 + 0 - 1
      BY <1>1, <1>3, <1>6, <2>3, <3>1
    <3> QED BY <1>2, <3>2
  <2>4. s.held \subseteq i .. n
    BY <1>1, <1>2
  <2>5. i + 0 - 1 <= n /\ i .. i + 0 - 1 = {} /\ 0 < w
    BY <1>0, <1>2
  <2> QED BY <1>1, <1>2, <1>6, <2>1, <2>2, <2>3, <2>4, <2>5 DEF ScanOK, t, w
<1>7. CASE ~s.found /\ i \in c /\ (s.run # 0 \/ (i * g.bs) % align = 0)
  <2> HIDE DEF t
  <2>1. t \in ScanType
    BY <1>t
  <2>2. /\ t.at = i /\ t.run = s.run + 1 /\ t.held = s.held \cup {i}
        /\ t.found <=> s.run + 1 >= w
    BY <1>7, <1>t DEF ScanStep, w
  <2>3. s.at = i + 1 /\ s.run < w /\ s.at + s.run - 1 = i + (s.run + 1) - 1
    BY <1>1, <1>2, <1>7
  <2>4. ASSUME NEW k \in i .. n, (k * g.bs) % align = 0,
               {j \in i .. k : k - j < w} \subseteq c
        PROVE  k <= i + (s.run + 1) - 1
    <3>1. CASE k = i
      BY <1>2, <3>1
    <3>2. CASE k # i
      BY <1>3, <2>3, <2>4, <3>2
    <3> QED BY <3>1, <3>2
  <2>5. ((i + (s.run + 1) - 1) * g.bs) % align = 0
    <3>1. CASE s.run = 0
      <4>1. i + (s.run + 1) - 1 = i
        BY <1>2, <3>1
      <4> QED BY <1>7, <3>1, <4>1
    <3>2. CASE s.run # 0
      <4>1. s.run > 0
        BY <1>2, <3>2
      <4> QED BY <1>1, <2>3, <4>1
    <3> QED BY <3>1, <3>2
  <2>6. /\ s.held \cup {i} \subseteq c
        /\ s.held \cup {i} \subseteq i .. n
        /\ i .. i + (s.run + 1) - 1 \subseteq s.held \cup {i}
    BY <1>1, <1>2, <1>7, <2>3
  <2>7. /\ ~ (s.run + 1 >= w) => s.run + 1 < w
        /\ i + (s.run + 1) - 1 <= n /\ i <= i
    BY <1>0, <1>1, <1>2, <2>3
  <2> QED BY <2>1, <2>2, <2>4, <2>5, <2>6, <2>7 DEF ScanOK, t, w
<1> QED
  BY <1>4, <1>5, <1>6, <1>7

\* The whole scan.
LEMMA ScanEnds ==
  ASSUME NEW g \in Layers, g.kind = "window", NEW c \in SUBSET Nat, NEW align, NEW n \in Nat
  PROVE  ScanOK(g, c, n, align, 1, WindowScan(g, c, n, align, eagle))
<1>1. PICK f : Scans(f, g, c, n, align) /\ WindowScan(g, c, n, align, eagle) = f[n]
  BY ScanDefined
<1> DEFINE Z == {v \in Nat : v <= n => ScanOK(g, c, n, align, n + 1 - v, f[v])}
<1>2. 0 \in Z
  <2> DEFINE s == NoScan(n)
  <2>1. f[0] = s
    BY <1>1 DEF Scans
  <2>2. /\ s \in ScanType /\ s.at = n + 1 /\ s.run = 0 /\ s.held = {} /\ s.found = FALSE
    BY DEF NoScan, ScanType
  <2> HIDE DEF s
  <2>3. /\ n + 1 <= n + 1 /\ n + 1 + 0 - 1 <= n /\ n + 1 .. n + 1 + 0 - 1 = {}
        /\ n + 1 .. n = {} /\ 0 < WindowBlocks(g, eagle) /\ n + 1 - 0 = n + 1
    BY WindowOf
  <2>4. ScanOK(g, c, n, align, n + 1 - 0, s)
    BY <2>2, <2>3 DEF ScanOK
  <2> QED BY <2>1, <2>4
<1>3. ASSUME NEW v \in Nat, v \in Z PROVE v + 1 \in Z
  <2> SUFFICES ASSUME v + 1 <= n PROVE ScanOK(g, c, n, align, n + 1 - (v + 1), f[v + 1])
    OBVIOUS
  <2> DEFINE i == n - v
  <2>1. /\ i \in 1 .. n /\ i + 1 = n + 1 - v /\ i = n + 1 - (v + 1)
        /\ v + 1 \in 1 .. n /\ (v + 1) - 1 = v /\ v <= n
    OBVIOUS
  <2> HIDE DEF i
  <2>2. ScanOK(g, c, n, align, i + 1, f[v])
    BY <1>3, <2>1
  <2>3. f[v + 1] = ScanBlock(g, c, align, eagle, f[v], i)
    BY <1>1, <2>1 DEF Scans
  <2> DEFINE s == f[v]
  <2> HIDE DEF s
  <2>4. ScanOK(g, c, n, align, i, ScanBlock(g, c, align, eagle, s, i))
    BY <2>1, <2>2, ScanKeeps DEF s
  <2> QED BY <2>1, <2>3, <2>4 DEF s
<1> HIDE DEF Z
<1>4. n \in Z
  BY <1>2, <1>3, NumberInduction
<1> QED
  <2>1. n + 1 - n = 1
    OBVIOUS
  <2> QED BY <1>1, <1>4, <2>1 DEF Z

\* The lookup of the sliding-window manager.
LEMMA WindowServes ==
  ASSUME NEW g \in Layers, g.kind = "window", NEW c \in SUBSET Nat, NEW most \in Nat,
         NEW align \in Nat \ {0}, align % g.bs = 0, eagle => g.bs = align
  PROVE  Serves(g, c, most, align, WindowHit(g, c, most, align, eagle))
<1> DEFINE b    == g.bs
           to   == most \div b
           s    == WindowScan(g, c, to, align, eagle)
           e    == s.at + s.run - 1
           len  == IF s.found THEN e ELSE Aligned(g, align, s.run)
           kept == IF eagle /\ len > 0 THEN Aligned(g, align, len - 1) ELSE len
           w    == WindowBlocks(g, eagle)
<1>0. b \in Nat \ {0} /\ to \in Nat
  <2>1. b \in Nat \ {0}
    BY DEF Layers
  <2> HIDE DEF b
  <2> QED BY <2>1, Division
<1>1. WindowHit(g, c, most, align, eagle) = [len |-> kept, held |-> s.held \cap 1 .. kept]
  BY DEF WindowHit
<1> HIDE DEF to
<1>2. ScanOK(g, c, to, align, 1, s)
  BY <1>0, ScanEnds
<1> HIDE DEF s
<1>3. /\ s.at \in Int /\ s.run \in Nat /\ 1 <= s.at /\ e <= to
      /\ ~s.found => s.at = 1
      /\ s.found => s.run >= w
      /\ s.held \subseteq c /\ s.at .. e \subseteq s.held
      /\ s.run > 0 => (e * b) % align = 0
      /\ \A k \in 1 .. to : (k * b) % align = 0 /\ {j \in 1 .. k : k - j < w} \subseteq c => k <= e
  BY <1>2 DEF ScanOK, ScanType
<1>4. w \in Nat \ {0} /\ (eagle => w = Reach(g) + 1) /\ (~eagle => w = Reach(g))
      /\ Reach(g) \in Nat
  BY WindowOf, Reaches
<1> HIDE DEF w
<1>5. e \in Nat /\ (e > 0 => s.run > 0) /\ (e * b) % align = 0
  <2>1. e \in Nat /\ (e > 0 => s.run > 0) /\ (s.run = 0 => e = 0)
    <3>1. CASE s.found
      <4>1. s.run > 0
        BY <1>3, <1>4, <3>1
      <4> QED BY <1>3, <4>1
    <3>2. CASE ~s.found
      BY <1>3, <3>2
    <3> QED BY <3>1, <3>2
  <2>2. 0 * b = 0 /\ 0 % align = 0
    <3> HIDE DEF b
    <3> QED BY <1>0, SMTT(20)
  <2> QED BY <1>3, <2>1, <2>2
<1>6. len = e
  <2>1. CASE s.found
    BY <2>1
  <2>2. CASE ~s.found
    <3>1. s.run = e
      BY <1>3, <2>2
    <3>2. /\ Aligned(g, align, s.run) \in 0 .. s.run
          /\ \A k \in 0 .. s.run : (k * g.bs) % align = 0 => k <= Aligned(g, align, s.run)
      BY <1>0, <1>3, AlignedLongest
    <3>3. s.run \in 0 .. s.run /\ (s.run * b) % align = 0
      BY <1>3, <1>5, <3>1
    <3>4. Aligned(g, align, s.run) = s.run
      <4> DEFINE m == Aligned(g, align, s.run)
      <4>1. m \in 0 .. s.run /\ s.run <= m
        BY <3>2, <3>3
      <4> HIDE DEF m
      <4>2. m = s.run
        BY <1>3, <4>1
      <4> QED BY <4>2 DEF m
    <3> QED BY <2>2, <3>1, <3>4
  <2> QED BY <2>1, <2>2
<1> HIDE DEF len
<1>7. /\ kept \in Nat /\ kept <= e
      /\ ~eagle => kept = e
      /\ eagle => kept = e - 1 \/ (kept = 0 /\ e = 0)
      /\ (kept * b) % align = 0
  <2>1. CASE eagle /\ e > 0
    <3>1. kept = Aligned(g, align, e - 1) /\ e - 1 \in Nat
      BY <1>5, <1>6, <2>1
    <3>2. Aligned(g, g.bs, e - 1) = e - 1
      BY <1>0, <3>1, AlignedAll
    <3>3. kept = e - 1
      BY <2>1, <3>1, <3>2
    <3>4. (kept * b) % b = 0
      <4> HIDE DEF b, kept
      <4> QED BY <1>0, <3>1, <3>3, Quotient
    <3> HIDE DEF kept
    <3> QED BY <1>5, <2>1, <3>1, <3>3, <3>4
  <2>2. CASE ~eagle \/ ~ (e > 0)
    <3>1. kept = e
      BY <1>5, <1>6, <2>2
    <3> HIDE DEF kept
    <3> QED BY <1>5, <2>2, <3>1
  <2> QED BY <2>1, <2>2
<1> HIDE DEF kept
<1> DEFINE held == s.held \cap 1 .. kept
<1>8. ASSUME NEW i \in 1 .. kept, kept - i < Reach(g) PROVE i \in held
  <2>1. i \in Nat /\ i <= kept /\ i <= e /\ 1 <= i
    BY <1>5, <1>7
  <2>2. s.at <= i
    <3>1. CASE s.found
      <4>1. s.run >= w /\ w \in Nat
        BY <1>3, <1>4, <3>1
      <4>2. CASE eagle
        <5>1. kept = e - 1 /\ w = Reach(g) + 1
          BY <1>4, <1>7, <2>1, <4>2
        <5> QED BY <1>3, <1>4, <1>8, <2>1, <4>1, <5>1
      <4>3. CASE ~eagle
        <5>1. kept = e /\ w = Reach(g)
          BY <1>4, <1>7, <4>3
        <5> QED BY <1>3, <1>4, <1>8, <2>1, <4>1, <5>1
      <4> QED BY <4>2, <4>3
    <3>2. CASE ~s.found
      BY <1>3, <2>1, <3>2
    <3> QED BY <3>1, <3>2
  <2>3. i \in s.at .. e
    BY <1>3, <1>5, <2>1, <2>2
  <2> QED BY <1>3, <2>3
<1>9. Needed(g, kept * b) \subseteq held
  <2>1. Needed(g, kept * b) = {i \in 1 .. kept : kept - i < Reach(g)}
    BY <1>7, NeededWindow
  <2> HIDE DEF held
  <2> QED BY <1>8, <2>1
<1>10. kept * b <= most
  <2>1. kept <= to
    BY <1>0, <1>3, <1>5, <1>7
  <2> HIDE DEF b
  <2> QED BY <1>0, <1>7, <2>1, Quotient DEF to
<1>11. ASSUME ~eagle, NEW x \in 0 .. most, x % align = 0, Needed(g, x) \subseteq c
       PROVE  x <= kept * b
  <2>0. x \in Nat /\ x <= most /\ align % b = 0
    OBVIOUS
  <2>1. PICK k \in 0 .. to : x = k * b /\ (k * b) % align = 0
    <3> DEFINE j == x \div b
    <3> HIDE DEF b
    <3>1. j \in 0 .. to /\ x = j * b /\ (j * b) % align = 0
      BY <1>0, <1>11, <2>0, InBlocks, ZenonT(60) DEF to
    <3> HIDE DEF j
    <3> QED BY <3>1, Zenon
  <2>2. k \in Nat /\ Reach(g) = w
    BY <1>0, <1>4, <1>11
  <2>3. {j \in 1 .. k : k - j < w} \subseteq c
    <3>1. Needed(g, k * b) = {j \in 1 .. k : k - j < Reach(g)}
      BY <2>2, NeededWindow
    <3> QED BY <1>11, <2>1, <2>2, <3>1
  <2>4. k <= e
    <3>1. CASE k = 0
      BY <1>5, <3>1
    <3>2. CASE k # 0
      <4>1. k \in 1 .. to
        BY <1>0, <2>2, <3>2
      <4> QED BY <1>3, <2>1, <2>3, <4>1
    <3> QED BY <3>1, <3>2
  <2>5. k <= kept
    BY <1>7, <1>11, <2>4
  <2> HIDE DEF b, e
  <2>6. k * b <= kept * b
    BY <1>0, <1>7, <2>2, <2>5, Product
  <2> QED BY <2>1, <2>6
<1>12. ASSUME eagle, kept > 0 PROVE kept + 1 \in c
  <2>1. kept + 1 = e /\ s.run > 0
    BY <1>5, <1>7, <1>12
  <2>2. e \in s.at .. e
    BY <1>3, <1>5, <2>1
  <2> QED BY <1>3, <2>1, <2>2
<1>13. held \subseteq c /\ held \subseteq 1 .. kept
  BY <1>3
<1> DEFINE h == [len |-> kept, held |-> held]
<1>14. h.len = kept /\ h.held = held
  OBVIOUS
<1> HIDE DEF h, held
<1>15. Serves(g, c, most, align, h)
  BY <1>7, <1>9, <1>10, <1>11, <1>12, <1>13, <1>14 DEF Serves
<1> QED
  BY <1>1, <1>15 DEF h, held

\* What a group must be like for the coordinator: with eagle, the blocks of a sliding
\* window are as large as the alignment; local attention asserts that of its own,
\* and that there is no eagle.
Fits(g, align) ==
  /\ g \in Layers /\ align \in Nat \ {0} /\ align % g.bs = 0
  /\ g.kind = "chunk" => ~eagle /\ g.bs = align
  /\ g.kind = "window" => (eagle => g.bs = align)

\* The lookup of any group.
LEMMA GroupServes ==
  ASSUME NEW g, NEW align, Fits(g, align), NEW c \in SUBSET Nat, NEW most \in Nat
  PROVE  Serves(g, c, most, align, GroupHit(g, c, most, align, eagle))
<1>1. g \in Layers /\ align \in Nat \ {0} /\ align % g.bs = 0
  BY DEF Fits
<1>2. CASE g.kind = "full"
  BY <1>1, <1>2, FullServes DEF GroupHit
<1>3. CASE g.kind = "window"
  <2>1. eagle => g.bs = align
    BY <1>3 DEF Fits
  <2> QED BY <1>1, <1>3, <2>1, WindowServes DEF GroupHit
<1>4. CASE g.kind = "chunk"
  <2>1. ~eagle /\ g.bs = align
    BY <1>4 DEF Fits
  <2> QED BY <1>1, <1>4, <2>1, ChunkServes DEF GroupHit
<1>5. CASE g.kind = "mamba"
  BY <1>1, <1>5, MambaServes DEF GroupHit
<1> QED
  BY <1>1, <1>2, <1>3, <1>4, <1>5 DEF Layers, Kinds

-----------------------------------------------------------------------------
(* The alignment and the order of the groups.                              *)

\* Two numbers divide their least common multiple.
LEMMA LcmDivides ==
  ASSUME NEW a \in Nat \ {0}, NEW b \in Nat \ {0}
  PROVE  Lcm(a, b) \in Nat \ {0} /\ Lcm(a, b) % a = 0 /\ Lcm(a, b) % b = 0
<1> DEFINE S == {m \in 1 .. a * b : m % a = 0 /\ m % b = 0}
<1>1. a * b \in S
  <2>1. a * b \in Nat /\ a * b > 0
    BY SMTT(20)
  <2>2. (a * b) % b = 0
    BY Quotient
  <2>3. a * b = b * a
    BY SMTT(20)
  <2>4. (a * b) % a = 0
    BY <2>3, Quotient
  <2> DEFINE p == a * b
  <2> HIDE DEF p
  <2>5. p \in 1 .. p /\ p % a = 0 /\ p % b = 0
    BY <2>1, <2>2, <2>4 DEF p
  <2> QED BY <2>5 DEF p
<1>2. a * b \in Int
  BY SMTT(20)
<1>3. S \in SUBSET Nat /\ S # {}
  <2> DEFINE p == a * b
  <2>1. p \in Int
    BY <1>2
  <2> HIDE DEF p
  <2>2. 1 .. p \subseteq Nat
    BY <2>1
  <2>3. S \subseteq 1 .. p
    BY DEF p
  <2> HIDE DEF S
  <2> QED BY <1>1, <2>2, <2>3
<1>4. PICK x \in S : \A y \in S : x <= y
  BY <1>3, LeastNumber
<1>5. Lcm(a, b) = (CHOOSE m \in S : \A y \in S : m <= y)
  BY DEF Lcm, Min
<1> DEFINE l == Lcm(a, b)
<1>6. l \in S
  BY <1>4, <1>5
<1> HIDE DEF l
<1>7. l \in Nat \ {0} /\ l % a = 0 /\ l % b = 0
  BY <1>2, <1>6
<1> QED
  BY <1>7 DEF l

\* f is the least common multiple of the first groups' block sizes.
Multiplies(f, gs) ==
  f[0] = 1 /\ \A i \in 1 .. Len(gs) : f[i] = Lcm(f[i - 1], gs[i].bs)

\* The recursive definition of the alignment defines something.
LEMMA AlignmentDefined ==
  ASSUME NEW gs \in Seq(Layers)
  PROVE  \E f : Multiplies(f, gs) /\ Alignment(gs) = f[Len(gs)]
<1> DEFINE P       == Nat \ {0}
           n       == Len(gs)
           body(f) == [i \in 0 .. n |-> IF i = 0 THEN 1 ELSE Lcm(f[i - 1], gs[i].bs)]
           lcm     == CHOOSE f : f = body(f)
           next    == [p \in Nat \X P |-> IF p[1] \in 1 .. n THEN Lcm(p[2], gs[p[1]].bs) ELSE 1]
<1>0. n \in Nat /\ \A i \in 1 .. n : gs[i].bs \in P
  <2>1. n \in Nat /\ \A i \in 1 .. n : gs[i] \in Layers
    BY LenProperties, ElementOfSeq
  <2> QED BY <2>1 DEF Layers
<1>1. Alignment(gs) = lcm[n]
  BY DEF Alignment
<1> HIDE DEF n
<1>2. PICK f \in [0 .. n -> P] : Iterates(f, n, 1, next)
  <2>1. next \in [Nat \X P -> P]
    <3>1. ASSUME NEW p \in Nat \X P PROVE next[p] \in P
      <4>1. CASE p[1] \in 1 .. n
        <5> DEFINE x == p[2]
                   y == gs[p[1]].bs
        <5>1. x \in P /\ y \in P /\ next[p] = Lcm(x, y)
          BY <1>0, <4>1
        <5> HIDE DEF next, x, y
        <5>2. Lcm(x, y) \in P
          BY <5>1, LcmDivides
        <5> QED BY <5>1, <5>2
      <4>2. CASE p[1] \notin 1 .. n
        BY <4>2
      <4> QED BY <4>1, <4>2
    <3> QED BY <3>1
  <2> HIDE DEF next, P
  <2>2. 1 \in P
    BY DEF P
  <2> QED BY <1>0, <2>1, <2>2, Recursion
<1>3. Multiplies(f, gs)
  <2>1. ASSUME NEW i \in 1 .. n PROVE f[i] = Lcm(f[i - 1], gs[i].bs)
    <3>1. i \in Nat /\ i - 1 \in 0 .. n
      BY <1>0
    <3>2. f[i - 1] \in P
      BY <3>1
    <3>3. <<i, f[i - 1]>> \in Nat \X P
      BY <3>1, <3>2
    <3>4. f[i] = next[<<i, f[i - 1]>>]
      BY <1>2 DEF Iterates
    <3> QED BY <3>3, <3>4
  <2> HIDE DEF next
  <2> QED BY <1>2, <2>1 DEF Multiplies, Iterates, n
<1> HIDE DEF next
<1>4. f = body(f)
  <2>1. ASSUME NEW i \in 0 .. n PROVE f[i] = body(f)[i]
    <3>1. CASE i = 0
      BY <1>3, <3>1 DEF Multiplies
    <3>2. CASE i # 0
      <4>1. i \in 1 .. n
        BY <1>0, <3>2
      <4> QED BY <1>3, <4>1, <3>2 DEF Multiplies, n
    <3> QED BY <3>1, <3>2
  <2>2. DOMAIN f = 0 .. n /\ f = [i \in 0 .. n |-> f[i]]
    OBVIOUS
  <2> QED BY <2>1, <2>2
<1>5. lcm = body(lcm)
  BY <1>4
<1> HIDE DEF lcm
<1>6. Multiplies(lcm, gs)
  <2>1. \A i \in 0 .. n : lcm[i] = body(lcm)[i]
    BY <1>5
  <2>2. 0 \in 0 .. n /\ \A i \in 1 .. n : i \in 0 .. n /\ i # 0
    BY <1>0
  <2>3. lcm[0] = 1
    BY <2>1, <2>2
  <2>4. \A i \in 1 .. n : lcm[i] = Lcm(lcm[i - 1], gs[i].bs)
    BY <2>1, <2>2
  <2> QED BY <2>3, <2>4 DEF Multiplies, n
<1> QED
  BY <1>1, <1>6 DEF n

\* The alignment is a number of blocks of every group.
LEMMA AlignmentDivides ==
  ASSUME NEW gs \in Seq(Layers)
  PROVE  /\ Alignment(gs) \in Nat \ {0}
         /\ \A i \in 1 .. Len(gs) : Alignment(gs) % gs[i].bs = 0
<1>1. PICK f : Multiplies(f, gs) /\ Alignment(gs) = f[Len(gs)]
  BY AlignmentDefined
<1> DEFINE n == Len(gs)
           Z == {v \in Nat : v <= n => /\ f[v] \in Nat \ {0}
                                       /\ \A i \in 1 .. v : f[v] % gs[i].bs = 0}
<1>2. n \in Nat /\ \A i \in 1 .. n : gs[i].bs \in Nat \ {0}
  <2>1. n \in Nat /\ \A i \in 1 .. n : gs[i] \in Layers
    BY LenProperties, ElementOfSeq
  <2> QED BY <2>1 DEF Layers
<1>3. 0 \in Z
  <2>1. f[0] = 1
    BY <1>1 DEF Multiplies
  <2> QED BY <2>1
<1>4. ASSUME NEW v \in Nat, v \in Z PROVE v + 1 \in Z
  <2> SUFFICES ASSUME v + 1 <= n
               PROVE  /\ f[v + 1] \in Nat \ {0}
                      /\ \A i \in 1 .. v + 1 : f[v + 1] % gs[i].bs = 0
    OBVIOUS
  <2>1. v + 1 \in 1 .. n /\ (v + 1) - 1 = v /\ v <= n
    BY <1>2
  <2> DEFINE x == f[v]
             y == gs[v + 1].bs
             z == f[v + 1]
  <2>2. x \in Nat \ {0} /\ y \in Nat \ {0} /\ z = Lcm(x, y)
    BY <1>1, <1>2, <1>4, <2>1 DEF Multiplies
  <2>3. \A i \in 1 .. v : x % gs[i].bs = 0
    BY <1>4, <2>1
  <2> HIDE DEF x, y, z, Z
  <2>4. z \in Nat \ {0} /\ z % x = 0 /\ z % y = 0
    BY <2>2, LcmDivides
  <2>5. ASSUME NEW i \in 1 .. v + 1 PROVE z % gs[i].bs = 0
    <3>1. CASE i = v + 1
      BY <2>4, <3>1 DEF y
    <3>2. CASE i # v + 1
      <4> DEFINE b == gs[i].bs
      <4>1. i \in 1 .. v /\ i \in 1 .. n
        BY <1>2, <2>1, <3>2
      <4>2. b \in Nat \ {0} /\ x % b = 0
        BY <1>2, <2>3, <4>1
      <4> HIDE DEF b
      <4>3. z % b = 0
        BY <2>2, <2>4, <4>2, Chain
      <4> QED BY <4>3 DEF b
    <3> QED BY <3>1, <3>2
  <2> QED BY <2>4, <2>5 DEF z
<1>5. n \in Z
  <2> HIDE DEF Z
  <2> QED BY <1>2, <1>3, <1>4, NumberInduction
<1> QED
  BY <1>1, <1>2, <1>5

\* Among chooses members of the sequence that are in the set.
LEMMA AmongChooses ==
  ASSUME NEW T, NEW q \in Seq(T), NEW S
  PROVE  /\ Among(q, S) \in Seq(T)
         /\ \A i \in 1 .. Len(Among(q, S)) : Among(q, S)[i] \in S
<1> DEFINE Z == {s \in Seq(T) : /\ Among(s, S) \in Seq(T)
                                /\ \A i \in 1 .. Len(Among(s, S)) : Among(s, S)[i] \in S}
<1>1. <<>> \in Z
  <2> DEFINE e == <<>>
  <2>1. e \in Seq(T) /\ Len(e) = 0 /\ Among(e, S) = e
    BY EmptySeq, AmongEmpty
  <2> HIDE DEF e
  <2>2. /\ Among(e, S) \in Seq(T)
        /\ \A i \in 1 .. Len(Among(e, S)) : Among(e, S)[i] \in S
    <3>1. 1 .. Len(Among(e, S)) = {}
      BY <2>1
    <3> QED BY <2>1, <3>1
  <2> QED BY <2>1, <2>2 DEF e
<1>2. ASSUME NEW s \in Seq(T), NEW x \in T, s \in Z PROVE Append(s, x) \in Z
  <2> DEFINE a == Among(s, S)
             t == Append(s, x)
             u == Among(t, S)
  <2>1. t \in Seq(T)
    BY AppendProperties
  <2>2. a \in Seq(T) /\ \A i \in 1 .. Len(a) : a[i] \in S
    BY <1>2
  <2>3. u = IF x \in S THEN Append(a, x) ELSE a
    BY AmongAppend
  <2> HIDE DEF a, t, u
  <2>4. u \in Seq(T) /\ \A i \in 1 .. Len(u) : u[i] \in S
    <3>1. CASE x \in S
      <4>1. /\ u \in Seq(T) /\ Len(u) = Len(a) + 1 /\ Len(a) \in Nat
            /\ u[Len(a) + 1] = x /\ \A i \in 1 .. Len(a) : u[i] = a[i]
        BY <2>2, <2>3, <3>1, AppendProperties, LenProperties
      <4>2. ASSUME NEW i \in 1 .. Len(u) PROVE u[i] \in S
        <5>1. i \in 1 .. Len(a) \/ i = Len(a) + 1
          BY <4>1
        <5> QED BY <2>2, <3>1, <4>1, <5>1
      <4> QED BY <4>1, <4>2
    <3>2. CASE x \notin S
      BY <2>2, <2>3, <3>2
    <3> QED BY <3>1, <3>2
  <2> QED BY <2>1, <2>4 DEF u, t
<1>3. q \in Z
  <2> HIDE DEF Z
  <2> QED BY <1>1, <1>2, SequenceInduction
<1> QED
  BY <1>3

\* The groups are the same kind of groups, full attention first.
LEMMA OrderedGroups ==
  ASSUME NEW gs \in Seq(Layers)
  PROVE  /\ Ordered(gs) \in Seq(Layers)
         /\ \A i, j \in 1 .. Len(Ordered(gs)) :
              i < j /\ IsFull(Ordered(gs)[j]) => IsFull(Ordered(gs)[i])
<1> DEFINE all  == {gs[i] : i \in 1 .. Len(gs)}
           full == {g \in all : IsFull(g)}
           rest == {g \in all : ~IsFull(g)}
           a    == Among(gs, full)
           b    == Among(gs, rest)
           o    == a \o b
<1>1. a \in Seq(Layers) /\ \A i \in 1 .. Len(a) : a[i] \in full
  <2> HIDE DEF full
  <2> QED BY AmongChooses
<1>2. b \in Seq(Layers) /\ \A i \in 1 .. Len(b) : b[i] \in rest
  <2> HIDE DEF rest
  <2> QED BY AmongChooses
<1>3. Ordered(gs) = o
  BY DEF Ordered
<1>4. \A g \in full : IsFull(g)
  OBVIOUS
<1>5. \A g \in rest : ~IsFull(g)
  OBVIOUS
<1> HIDE DEF a, b, full, rest
<1>6. /\ o \in Seq(Layers) /\ Len(a) \in Nat /\ Len(b) \in Nat /\ Len(o) = Len(a) + Len(b)
      /\ \A i \in 1 .. Len(a) : o[i] = a[i]
      /\ \A i \in Len(a) + 1 .. Len(a) + Len(b) : o[i] = b[i - Len(a)]
  BY <1>1, <1>2, ConcatProperties, LenProperties
<1> HIDE DEF o
<1>7. ASSUME NEW i \in 1 .. Len(o), NEW j \in 1 .. Len(o), i < j, IsFull(o[j])
      PROVE  IsFull(o[i])
  <2>1. j \in 1 .. Len(a)
    <3>1. CASE j \in Len(a) + 1 .. Len(a) + Len(b)
      <4>1. o[j] = b[j - Len(a)] /\ j - Len(a) \in 1 .. Len(b)
        BY <1>6, <3>1
      <4>2. ~IsFull(o[j])
        BY <1>2, <1>5, <4>1
      <4> QED BY <1>7, <4>2
    <3> QED BY <1>6, <3>1
  <2>2. i \in 1 .. Len(a)
    BY <1>6, <1>7, <2>1
  <2> QED BY <1>1, <1>4, <1>6, <2>2
<1> QED
  BY <1>3, <1>6, <1>7

-----------------------------------------------------------------------------
(* The invariant.                                                          *)

\* With eagle, the blocks of every sliding window are as large as the alignment.
LargeWindows ==
  \A m \in Models : m.eagle =>
    LET gs == Ordered(m.groups)
    IN  \A i \in 1 .. Len(gs) : gs[i].kind = "window" => gs[i].bs = Alignment(gs)

\* What is asked, and of whom.
Asks ==
  /\ groups \in Seq(Layers) /\ eagle \in BOOLEAN /\ caching \in BOOLEAN /\ limit \in Nat
  /\ cached \in [Group -> SUBSET Nat]
  /\ \A i \in Group : Fits(groups[i], Alignment(groups))
  /\ \A i, j \in Group : i < j /\ IsFull(groups[j]) => IsFull(groups[i])

\* The list that group i has returned last serves the length it has, and, of full
\* attention, all that the pass has left.
Listed(i) ==
  LET g == groups[i]
      l == lists[i]
  IN  /\ l.len \in Nat /\ Needed(g, l.len * g.bs) \subseteq l.held
      /\ l.held \subseteq cached[i] /\ l.held \subseteq 1 .. l.len
      /\ IsFull(g) => l.held = 1 .. l.len /\ cur <= l.len * g.bs
      /\ eagle /\ l.len > 0 /\ g.kind \in {"full", "window"} => l.len + 1 \in cached[i]

\* In this pass group i has returned a list that is not shorter than what is left.  If
\* nothing was cut off, the hit is a number of its blocks.
Visited(i) ==
  LET g == groups[i]
  IN  /\ Listed(i)
      /\ ~IsFull(g) => cur <= lists[i].len * g.bs /\ lists[i].len * g.bs <= hit
      /\ cur = hit => hit % g.bs = 0

\* The loop.
Search ==
  /\ hit \in 0 .. limit /\ cur \in 0 .. hit /\ at \in 1 .. Len(groups) + 1
  /\ lists = [i \in Group |-> lists[i]]
  /\ \A i \in Group : lists[i] = None \/ Listed(i)
  /\ \A i \in Group : i < at => Visited(i)
  /\ at > 1 /\ ~IsFull(groups[at - 1]) => lists[at - 1].len * groups[at - 1].bs = cur
  /\ IsSimpleHybrid => /\ at > 1 => cur % Alignment(groups) = 0
                       /\ \A i \in Group : at <= i => lists[i] = None
  /\ ~eagle => \A n \in cur + 1 .. limit : ~Common(n)

IInv == Asks /\ (Searching => Search) /\ HitCovers /\ HitExact

\* What is asked stays the same.
LEMMA AsksKept ==
  ASSUME Asks, UNCHANGED asked
  PROVE  Asks' /\ Group' = Group /\ (Alignment(groups))' = Alignment(groups)
<1>1. /\ groups' = groups /\ eagle' = eagle /\ caching' = caching /\ cached' = cached
      /\ limit' = limit
  BY DEF asked
<1> QED
  BY <1>1 DEF Asks, Group, Fits, IsFull

\* What Asks says of a group.
LEMMA GroupOf ==
  ASSUME Asks, NEW i \in Group
  PROVE  /\ groups[i] \in Layers /\ groups[i].bs \in Nat \ {0} /\ cached[i] \in SUBSET Nat
         /\ Alignment(groups) \in Nat \ {0} /\ Alignment(groups) % groups[i].bs = 0
         /\ Fits(groups[i], Alignment(groups)) /\ Len(groups) \in Nat
<1>1. Fits(groups[i], Alignment(groups)) /\ cached[i] \in SUBSET Nat
  BY DEF Asks
<1>2. /\ groups[i] \in Layers /\ Alignment(groups) \in Nat \ {0}
      /\ Alignment(groups) % groups[i].bs = 0
  BY <1>1 DEF Fits
<1>3. groups[i].bs \in Nat \ {0}
  BY <1>2 DEF Layers
<1>4. Len(groups) \in Nat
  BY LenProperties DEF Asks
<1> QED
  BY <1>1, <1>2, <1>3, <1>4

\* The groups of a model are groups of layers.
LEMMA LayersOf ==
  ASSUME NEW m \in Models
  PROVE  m.groups \in Seq(Layers) /\ m.eagle \in BOOLEAN /\ m.longest \in Nat \ {0}
<1> DEFINE gs == m.groups
           R  == [kind : Kinds, bs : Nat \ {0}, span : Nat]
<1>1. /\ gs \in Seq(R) /\ m.eagle \in BOOLEAN /\ m.longest \in Nat \ {0}
      /\ \A i \in 1 .. Len(gs) : /\ gs[i].kind = "window" => gs[i].span > 1
                                 /\ gs[i].kind = "chunk" => gs[i].span > 0 /\ gs[i].span % gs[i].bs = 0
  BY ModelsAssumption
<1> HIDE DEF gs
<1>2. Len(gs) \in Nat /\ gs \in [1 .. Len(gs) -> R]
  BY <1>1, LenProperties
<1>3. \A i \in 1 .. Len(gs) : gs[i] \in Layers
  BY <1>1, <1>2 DEF Layers
<1>4. gs \in [1 .. Len(gs) -> Layers]
  BY <1>2, <1>3
<1>5. gs \in Seq(Layers)
  BY <1>2, <1>4, IsASeq
<1> QED
  BY <1>1, <1>5 DEF gs

\* The invariant holds when a lookup begins.
LEMMA InitIInv ==
  ASSUME LargeWindows, Init
  PROVE  IInv
<1>1. PICK m \in Models :
        /\ groups = Ordered(m.groups) /\ eagle = m.eagle /\ caching \in BOOLEAN
        /\ Supported(groups, eagle)
        /\ limit \in 0 .. m.longest - 1
        /\ \E some : cached = [i \in Group |-> {b \in 1 .. limit + 1 : <<i, b>> \in some}]
        /\ at = 1 /\ hit = limit /\ cur = limit
        /\ lists = [i \in Group |-> None]
        /\ answered = FALSE
  BY DEF Init
<1>2. m.groups \in Seq(Layers) /\ eagle \in BOOLEAN /\ limit \in Nat
  BY <1>1, LayersOf
<1>3. /\ groups \in Seq(Layers)
      /\ \A i, j \in Group : i < j /\ IsFull(groups[j]) => IsFull(groups[i])
  BY <1>1, <1>2, OrderedGroups DEF Group
<1>4. cached \in [Group -> SUBSET Nat]
  <2>1. PICK some : cached = [i \in Group |-> {b \in 1 .. limit + 1 : <<i, b>> \in some}]
    BY <1>1
  <2>2. \A i \in Group : {b \in 1 .. limit + 1 : <<i, b>> \in some} \in SUBSET Nat
    BY <1>2
  <2> QED BY <2>1, <2>2
<1>5. ASSUME NEW i \in Group PROVE Fits(groups[i], Alignment(groups))
  <2>1. i \in 1 .. Len(groups) /\ groups[i] \in Layers
    BY <1>3, ElementOfSeq DEF Group
  <2>2. Alignment(groups) \in Nat \ {0} /\ Alignment(groups) % groups[i].bs = 0
    BY <1>3, <2>1, AlignmentDivides
  <2>3. groups[i].kind = "chunk" => ~eagle /\ groups[i].bs = Alignment(groups)
    BY <1>1, <2>1 DEF Supported
  <2>4. ASSUME groups[i].kind = "window", eagle PROVE groups[i].bs = Alignment(groups)
    <3>1. \A j \in 1 .. Len(groups) :
            groups[j].kind = "window" => groups[j].bs = Alignment(groups)
      BY <1>1, <2>4 DEF LargeWindows
    <3> QED BY <2>1, <2>4, <3>1
  <2> QED BY <2>1, <2>2, <2>3, <2>4 DEF Fits
<1>6. Asks
  BY <1>1, <1>2, <1>3, <1>4, <1>5 DEF Asks
<1>7. Search
  <2>1. Len(groups) \in Nat
    BY <1>3, LenProperties
  <2>2. hit \in 0 .. limit /\ cur \in 0 .. hit /\ at \in 1 .. Len(groups) + 1
    BY <1>1, <1>2, <2>1
  <2>3. /\ lists = [i \in Group |-> lists[i]]
        /\ \A i \in Group : lists[i] = None
    BY <1>1
  <2>4. \A i \in Group : ~ (i < at)
    BY <1>1, <2>1 DEF Group
  <2>5. cur + 1 .. limit = {}
    BY <1>1, <1>2
  <2>6. ~ (at > 1)
    BY <1>1
  <2> QED BY <2>2, <2>3, <2>4, <2>5, <2>6 DEF Search
<1>8. HitCovers /\ HitExact
  BY <1>1 DEF HitCovers, HitExact, HitLongest, LastBlockDropped
<1> QED
  BY <1>6, <1>7, <1>8 DEF IInv

\* Lists that a pass has got serve shorter lengths, too.
LEMMA ListedShorter ==
  ASSUME Asks, UNCHANGED asked, cur \in Nat, cur' \in Nat, cur' <= cur,
         NEW i \in Group, Listed(i), lists'[i] = lists[i]
  PROVE  Listed(i)'
<1>1. groups' = groups /\ cached' = cached /\ eagle' = eagle
  BY DEF asked
<1> DEFINE g == groups[i]
           l == lists[i]
           x == l.len * g.bs
<1>2. /\ l.len \in Nat /\ Needed(g, x) \subseteq l.held
      /\ l.held \subseteq cached[i] /\ l.held \subseteq 1 .. l.len
      /\ IsFull(g) => l.held = 1 .. l.len /\ cur <= x
      /\ eagle /\ l.len > 0 /\ g.kind \in {"full", "window"} => l.len + 1 \in cached[i]
  BY DEF Listed
<1>3. x \in Nat
  <2>1. g.bs \in Nat \ {0} /\ l.len \in Nat
    BY <1>2, GroupOf
  <2> HIDE DEF g, l
  <2> QED BY <2>1, Product
<1>4. IsFull(g) => cur' <= x
  <2> HIDE DEF x, g
  <2> QED BY <1>2, <1>3
<1> HIDE DEF l
<1>5. lists'[i] = l
  BY DEF l
<1> QED
  BY <1>1, <1>2, <1>4, <1>5 DEF Listed

\* What one visit of group i does: the hit gets no longer, and is a number of the
\* group's blocks; the group has a list for it; no common length is passed over.
VisitedNow(i) ==
  /\ cur' \in Nat /\ cur' <= cur /\ cur' % groups[i].bs = 0
  /\ Listed(i)'
  /\ ~IsFull(groups[i]) => lists'[i].len * groups[i].bs = cur'
  /\ lists' = [j \in Group |-> lists'[j]]
  /\ \A j \in Group : j # i => lists'[j] = lists[j]
  /\ ~eagle => \A n \in cur' + 1 .. limit : ~Common(n)
  /\ lists[i] = None => cur' % Alignment(groups) = 0

\* So does a visit of full attention that has a list already.
LEMMA VisitAgain ==
  ASSUME Asks, Search, UNCHANGED asked, NEW i \in Group, IsFull(groups[i]), lists[i] # None,
         cur' = (cur \div groups[i].bs) * groups[i].bs, lists' = lists
  PROVE  VisitedNow(i)
<1> DEFINE b == groups[i].bs
           k == cur \div b
<1>1. b \in Nat \ {0} /\ Alignment(groups) \in Nat \ {0} /\ Alignment(groups) % b = 0
  BY GroupOf
<1>2. Listed(i) /\ cur \in Nat /\ limit \in Nat /\ lists = [j \in Group |-> lists[j]]
  <2>1. limit \in Nat /\ hit \in 0 .. limit /\ cur \in 0 .. hit
    BY DEF Search, Asks
  <2>2. Listed(i) /\ lists = [j \in Group |-> lists[j]]
    BY DEF Search
  <2> QED BY <2>1, <2>2
<1>3. k \in Nat /\ cur' = k * b
  <2>1. k \in Nat
    <3> HIDE DEF b
    <3> QED BY <1>1, <1>2, Division
  <2> QED BY <2>1
<1>4. cur' \in Nat /\ cur' <= cur /\ cur' % b = 0
  <2>1. k <= cur \div b
    BY <1>3
  <2> HIDE DEF b, k
  <2> QED BY <1>1, <1>2, <1>3, <2>1, Quotient, Product
<1>5. Listed(i)'
  BY <1>2, <1>4, ListedShorter
<1>6. ASSUME ~eagle, NEW n \in cur' + 1 .. limit, Common(n) PROVE FALSE
  <2>1. n \in Nat /\ n % Alignment(groups) = 0 /\ cur' < n
    BY <1>2, <1>4, <1>6 DEF Common
  <2>2. \A j \in cur + 1 .. limit : ~Common(j)
    BY <1>6 DEF Search
  <2>3. n <= cur
    BY <1>2, <1>4, <1>6, <2>1, <2>2
  <2> DEFINE j == n \div b
  <2>4. j \in 0 .. cur \div b /\ n = j * b
    <3> HIDE DEF b
    <3> QED BY <1>1, <1>2, <2>1, <2>3, InBlocks
  <2>5. j \in Nat /\ j <= k
    BY <1>3, <2>4
  <2> HIDE DEF b, j, k
  <2>6. j * b <= k * b
    BY <1>1, <1>3, <2>5, Product
  <2> QED BY <1>3, <1>4, <2>1, <2>4, <2>6
<1> QED
  BY <1>2, <1>4, <1>5, <1>6 DEF VisitedNow

\* So does a visit that asks the group.
LEMMA VisitAsks ==
  ASSUME Asks, Search, UNCHANGED asked, NEW i \in Group,
         NEW found, found = GroupHit(groups[i], cached[i], cur, Alignment(groups), eagle),
         cur' = found.len * groups[i].bs, lists' = [lists EXCEPT ![i] = found]
  PROVE  VisitedNow(i)
<1> DEFINE g     == groups[i]
           b     == g.bs
           align == Alignment(groups)
<1>1. /\ b \in Nat \ {0} /\ align \in Nat \ {0} /\ align % b = 0
      /\ Fits(g, align) /\ cached[i] \in SUBSET Nat
  BY GroupOf
<1>2. cur \in Nat /\ limit \in Nat /\ lists = [j \in Group |-> lists[j]]
  <2>1. limit \in Nat /\ hit \in 0 .. limit /\ cur \in 0 .. hit
    BY DEF Search, Asks
  <2>2. lists = [j \in Group |-> lists[j]]
    BY DEF Search
  <2> QED BY <2>1, <2>2
<1>3. Serves(g, cached[i], cur, align, found)
  <2> HIDE DEF g, align
  <2>1. Serves(g, cached[i], cur, align, GroupHit(g, cached[i], cur, align, eagle))
    BY <1>1, <1>2, GroupServes
  <2> QED BY <2>1 DEF g, align
<1>4. /\ found.len \in Nat /\ cur' <= cur /\ cur' % align = 0
      /\ Needed(g, cur') \subseteq found.held
      /\ found.held \subseteq cached[i] /\ found.held \subseteq 1 .. found.len
      /\ IsFull(g) => found.held = 1 .. found.len
      /\ ~eagle => \A n \in 0 .. cur :
                     n % align = 0 /\ Needed(g, n) \subseteq cached[i] => n <= cur'
      /\ eagle /\ found.len > 0 /\ g.kind \in {"full", "window"} => found.len + 1 \in cached[i]
  <2>1. cur' = found.len * g.bs
    OBVIOUS
  <2> HIDE DEF g, align
  <2> QED BY <1>3, <2>1 DEF Serves, IsFull
<1>5. cur' \in Nat /\ cur' % b = 0
  <2>1. cur' = found.len * b
    OBVIOUS
  <2> HIDE DEF b
  <2> QED BY <1>1, <1>4, <2>1, Quotient, Product
<1>6. /\ lists' = [j \in Group |-> lists'[j]] /\ lists'[i] = found
      /\ \A j \in Group : j # i => lists'[j] = lists[j]
  BY <1>2
<1>7. Listed(i)'
  <2>1. groups' = groups /\ cached' = cached /\ eagle' = eagle
    BY DEF asked
  <2>2. cur' = found.len * g.bs /\ cur' <= cur'
    BY <1>5
  <2> HIDE DEF g
  <2> QED BY <1>4, <1>6, <2>1, <2>2 DEF Listed, IsFull, g
<1>8. ASSUME ~eagle, NEW n \in cur' + 1 .. limit, Common(n) PROVE FALSE
  <2>1. /\ n \in Nat /\ n % align = 0 /\ cur' < n
        /\ Needed(g, n) \subseteq cached[i]
    BY <1>2, <1>5, <1>8 DEF Common
  <2>2. \A j \in cur + 1 .. limit : ~Common(j)
    BY <1>8 DEF Search
  <2>3. n <= cur
    BY <1>2, <1>5, <1>8, <2>1, <2>2
  <2>4. n \in 0 .. cur
    BY <1>2, <2>1, <2>3
  <2>5. n <= cur'
    BY <1>4, <1>8, <2>1, <2>4
  <2> HIDE DEF g, align
  <2> QED BY <1>5, <2>1, <2>5
<1>9. ~IsFull(g) => lists'[i].len * g.bs = cur'
  BY <1>6
<1> QED
  BY <1>4, <1>5, <1>6, <1>7, <1>8, <1>9 DEF VisitedNow

\* A visit keeps the invariant.
LEMMA VisitIInv ==
  ASSUME IInv, Visit
  PROVE  IInv'
<1>1. /\ Asks /\ Search /\ Searching /\ at \in Group /\ at' = at + 1
      /\ UNCHANGED asked /\ hit' = hit /\ answered' = answered /\ ~answered
  BY DEF IInv, Visit, Searching
<1>2. groups' = groups /\ cached' = cached /\ eagle' = eagle /\ limit' = limit
  BY <1>1 DEF asked
<1>3. PICK i \in Group : i = at
  BY <1>1
<1>4. VisitedNow(i)
  <2>1. CASE IsFull(groups[i]) /\ lists[i] # None
    <3>1. cur' = (cur \div groups[i].bs) * groups[i].bs /\ lists' = lists
      BY <1>3, <2>1 DEF Visit
    <3> QED BY <1>1, <2>1, <3>1, VisitAgain
  <2>2. CASE ~ (IsFull(groups[i]) /\ lists[i] # None)
    <3> DEFINE found == GroupHit(groups[i], cached[i], cur, Alignment(groups), eagle)
    <3>1. cur' = found.len * groups[i].bs /\ lists' = [lists EXCEPT ![i] = found]
      BY <1>3, <2>2 DEF Visit
    <3>2. found = GroupHit(groups[i], cached[i], cur, Alignment(groups), eagle)
      OBVIOUS
    <3> HIDE DEF found
    <3> QED BY <1>1, <3>1, <3>2, VisitAsks
  <2> QED BY <2>1, <2>2
<1>5. /\ cur' \in Nat /\ cur' <= cur /\ cur' % groups[i].bs = 0
      /\ Listed(i)'
      /\ ~IsFull(groups[i]) => lists'[i].len * groups[i].bs = cur'
      /\ lists' = [j \in Group |-> lists'[j]]
      /\ \A j \in Group : j # i => lists'[j] = lists[j]
      /\ ~eagle => \A n \in cur' + 1 .. limit : ~Common(n)
      /\ lists[i] = None => cur' % Alignment(groups) = 0
  BY <1>4 DEF VisitedNow
<1>6. /\ hit \in 0 .. limit /\ cur \in 0 .. hit /\ limit \in Nat /\ hit \in Nat /\ cur \in Nat
      /\ Len(groups) \in Nat /\ at \in 1 .. Len(groups) /\ Len(groups') \in Nat
  <2>1. limit \in Nat /\ hit \in 0 .. limit /\ cur \in 0 .. hit /\ groups \in Seq(Layers)
    BY <1>1 DEF Search, Asks
  <2>2. Len(groups) \in Nat
    BY <2>1, LenProperties
  <2> QED BY <1>1, <1>2, <2>1, <2>2 DEF Group
<1>7. Asks' /\ Group' = Group /\ (Alignment(groups))' = Alignment(groups)
  BY <1>1, AsksKept
<1>8. ASSUME NEW j \in Group, Listed(j) PROVE Listed(j)'
  <2>1. CASE j = i
    BY <1>5, <2>1
  <2>2. CASE j # i
    BY <1>1, <1>5, <1>6, <1>8, <2>2, ListedShorter
  <2> QED BY <2>1, <2>2
<1>9. ASSUME NEW j \in Group PROVE (lists[j] = None \/ Listed(j))'
  <2>1. CASE j = i
    BY <1>5, <2>1
  <2>2. CASE j # i
    <3>1. lists[j] = None \/ Listed(j)
      BY <1>1 DEF Search
    <3> QED BY <1>5, <1>8, <2>2, <3>1
  <2> QED BY <2>1, <2>2
<1>10. ASSUME NEW j \in Group, j < at' PROVE Visited(j)'
  <2>1. CASE j = i
    <3>1. ~IsFull(groups[i]) => /\ cur' <= lists'[i].len * groups[i].bs
                                /\ lists'[i].len * groups[i].bs <= hit
      BY <1>5, <1>6
    <3>2. cur' = hit => hit % groups[i].bs = 0
      BY <1>5
    <3> QED BY <1>1, <1>2, <1>5, <2>1, <3>1, <3>2 DEF Visited, IsFull
  <2>2. CASE j # i
    <3>1. j < at
      BY <1>1, <1>3, <1>6, <1>7, <1>10, <2>2 DEF Group
    <3>2. Visited(j)
      BY <1>1, <3>1 DEF Search
    <3> DEFINE x == lists[j].len * groups[j].bs
    <3>3. /\ Listed(j) /\ (~IsFull(groups[j]) => cur <= x /\ x <= hit)
          /\ (cur = hit => hit % groups[j].bs = 0)
      BY <3>2 DEF Visited
    <3>4. x \in Nat
      <4>1. lists[j].len \in Nat /\ groups[j].bs \in Nat \ {0}
        BY <1>1, <3>3, GroupOf DEF Listed
      <4> QED BY <4>1, Product
    <3>5. lists'[j] = lists[j]
      BY <1>5, <2>2
    <3> HIDE DEF x
    <3>6. ~IsFull(groups[j]) => cur' <= x /\ x <= hit
      BY <1>5, <1>6, <3>3, <3>4
    <3>7. cur' = hit => hit % groups[j].bs = 0
      BY <1>5, <1>6, <3>3
    <3>8. Listed(j)'
      BY <1>8, <3>3
    <3> QED BY <1>1, <1>2, <3>5, <3>6, <3>7, <3>8 DEF Visited, IsFull, x
  <2> QED BY <2>1, <2>2
<1>11. hit' \in 0 .. limit' /\ cur' \in 0 .. hit' /\ at' \in 1 .. Len(groups') + 1
  BY <1>1, <1>2, <1>5, <1>6
<1>12. at' - 1 = i
  BY <1>1, <1>3, <1>6
<1>13. IsSimpleHybrid' = IsSimpleHybrid
  BY <1>2, <1>7 DEF IsSimpleHybrid, IsFull
<1>14. IsSimpleHybrid => /\ cur' % Alignment(groups) = 0
                         /\ \A j \in Group : at' <= j => lists'[j] = None
  <2> SUFFICES ASSUME IsSimpleHybrid
               PROVE  /\ cur' % Alignment(groups) = 0
                      /\ \A j \in Group : at' <= j => lists'[j] = None
    OBVIOUS
  <2>1. \A j \in Group : at <= j => lists[j] = None
    BY <1>1 DEF Search
  <2>2. lists[i] = None
    BY <1>3, <1>6, <2>1
  <2>3. ASSUME NEW j \in Group, at' <= j PROVE lists'[j] = None
    <3>1. j # i /\ at <= j
      BY <1>1, <1>3, <1>6, <2>3 DEF Group
    <3> QED BY <1>5, <2>1, <3>1
  <2> QED BY <1>5, <2>2, <2>3
<1>15. ~eagle => \A n \in cur' + 1 .. limit : ~Common(n)'
  <2>1. \A n : Common(n)' <=> Common(n)
    BY <1>2, <1>7 DEF Common
  <2> QED BY <1>5, <2>1
<1>16. Search'
  <2>1. (\A j \in Group : lists[j] = None \/ Listed(j))'
    BY <1>7, <1>9
  <2>2. (\A j \in Group : j < at => Visited(j))'
    BY <1>7, <1>10
  <2>3. (at > 1 /\ ~IsFull(groups[at - 1]) => lists[at - 1].len * groups[at - 1].bs = cur)'
    BY <1>2, <1>5, <1>12 DEF IsFull
  <2>4. (IsSimpleHybrid => /\ at > 1 => cur % Alignment(groups) = 0
                           /\ \A j \in Group : at <= j => lists[j] = None)'
    BY <1>7, <1>13, <1>14
  <2>5. (~eagle => \A n \in cur + 1 .. limit : ~Common(n))'
    BY <1>2, <1>15
  <2>6. (lists = [j \in Group |-> lists[j]])'
    BY <1>5, <1>7
  <2> QED BY <1>11, <2>1, <2>2, <2>3, <2>4, <2>5, <2>6 DEF Search
<1>17. HitCovers' /\ HitExact'
  BY <1>1 DEF HitCovers, HitExact, HitLongest, LastBlockDropped
<1> QED
  BY <1>7, <1>16, <1>17 DEF IInv

\* Another pass begins.
LEMMA AgainIInv ==
  ASSUME IInv, Again
  PROVE  IInv'
<1>1. /\ Asks /\ Search /\ ~IsSimpleHybrid /\ at' = 1 /\ hit' = cur
      /\ UNCHANGED asked /\ cur' = cur /\ lists' = lists /\ answered' = answered /\ ~answered
  BY DEF IInv, Again, Searching
<1>2. groups' = groups /\ cached' = cached /\ eagle' = eagle /\ limit' = limit
  BY <1>1 DEF asked
<1>3. /\ hit \in 0 .. limit /\ cur \in 0 .. hit /\ limit \in Nat /\ Len(groups) \in Nat
  <2>1. limit \in Nat /\ hit \in 0 .. limit /\ cur \in 0 .. hit /\ groups \in Seq(Layers)
    BY <1>1 DEF Search, Asks
  <2> QED BY <2>1, LenProperties
<1>4. Asks' /\ Group' = Group /\ (Alignment(groups))' = Alignment(groups)
  BY <1>1, AsksKept
<1>5. Search'
  <2>1. hit' \in 0 .. limit' /\ cur' \in 0 .. hit' /\ at' \in 1 .. Len(groups') + 1
    BY <1>1, <1>2, <1>3
  <2>2. (lists = [j \in Group |-> lists[j]])'
    BY <1>1, <1>4 DEF Search
  <2>3. (\A j \in Group : lists[j] = None \/ Listed(j))'
    <3>1. ASSUME NEW j \in Group, Listed(j) PROVE Listed(j)'
      BY <1>1, <1>2, <3>1 DEF Listed, IsFull
    <3>2. \A j \in Group : lists[j] = None \/ Listed(j)
      BY <1>1 DEF Search
    <3> QED BY <1>1, <1>4, <3>1, <3>2
  <2>4. (\A j \in Group : j < at => Visited(j))'
    <3>1. \A j \in Group' : ~ (j < at')
      BY <1>1, <1>2, <1>3 DEF Group
    <3> QED BY <3>1
  <2>5. ~ (at' > 1) /\ ~IsSimpleHybrid'
    BY <1>1, <1>2, <1>4 DEF IsSimpleHybrid, IsFull
  <2>6. (~eagle => \A n \in cur + 1 .. limit : ~Common(n))'
    <3>1. \A n : Common(n)' <=> Common(n)
      BY <1>2, <1>4 DEF Common
    <3>2. ~eagle => \A n \in cur + 1 .. limit : ~Common(n)
      BY <1>1 DEF Search
    <3> QED BY <1>1, <1>2, <3>1, <3>2
  <2> QED BY <2>1, <2>2, <2>3, <2>4, <2>5, <2>6 DEF Search
<1>6. HitCovers' /\ HitExact'
  BY <1>1 DEF HitCovers, HitExact, HitLongest, LastBlockDropped
<1> QED
  BY <1>4, <1>5, <1>6 DEF IInv

\* When the passes end, what is left is a number of every group's blocks, and a list
\* that is longer is one of full attention.
LEMMA AtTheEnd ==
  ASSUME Asks, Search, Searching, at > Len(groups), Settled \/ IsSimpleHybrid, NEW i \in Group
  PROVE  /\ Listed(i) /\ cur % groups[i].bs = 0
         /\ ~IsFull(groups[i]) => lists[i].len * groups[i].bs = cur
<1> DEFINE b == groups[i].bs
           x == lists[i].len * b
<1>1. /\ b \in Nat \ {0} /\ Alignment(groups) \in Nat \ {0} /\ Alignment(groups) % b = 0
      /\ Len(groups) \in Nat
  BY GroupOf
<1>2. limit \in Nat /\ hit \in 0 .. limit /\ cur \in 0 .. hit /\ at \in 1 .. Len(groups) + 1
  BY DEF Search, Asks
<1>3. i \in 1 .. Len(groups) /\ i < at /\ at = Len(groups) + 1
  BY <1>1, <1>2 DEF Group
<1>4. Visited(i)
  BY <1>3 DEF Search
<1>5. /\ Listed(i) /\ (~IsFull(groups[i]) => cur <= x /\ x <= hit)
      /\ (cur = hit => hit % b = 0)
  BY <1>4 DEF Visited
<1>6. x \in Nat
  <2>1. lists[i].len \in Nat
    BY <1>5 DEF Listed
  <2> HIDE DEF b
  <2> QED BY <1>1, <2>1, Product
<1>7. CASE Settled
  <2>1. cur = hit
    BY <1>2, <1>7 DEF Settled
  <2> HIDE DEF x, b
  <2>2. ~IsFull(groups[i]) => x = cur
    BY <1>2, <1>5, <1>6, <2>1
  <2> QED BY <1>5, <2>1, <2>2 DEF x, b
<1>8. CASE IsSimpleHybrid
  <2>1. Len(groups) = 2 /\ at = 3 /\ \E j \in Group : IsFull(groups[j])
    BY <1>3, <1>8 DEF IsSimpleHybrid
  <2>2. IsFull(groups[1])
    <3>1. PICK j \in Group : IsFull(groups[j])
      BY <2>1
    <3>2. j = 1 \/ j = 2
      BY <2>1 DEF Group
    <3>3. 1 \in Group /\ 2 \in Group
      BY <2>1 DEF Group
    <3> QED BY <3>1, <3>2, <3>3 DEF Asks
  <2>3. cur % Alignment(groups) = 0
    BY <1>8, <2>1 DEF Search
  <2>4. cur % b = 0
    <3> DEFINE a == Alignment(groups)
    <3> HIDE DEF a, b
    <3>1. cur \in Nat
      BY <1>2
    <3>2. a \in Nat \ {0} /\ a % b = 0 /\ cur % a = 0
      BY <1>1, <2>3 DEF a
    <3> QED BY <1>1, <3>1, <3>2, Chain
  <2>5. ASSUME ~IsFull(groups[i]) PROVE x = cur
    <3>1. i = 2
      BY <1>3, <2>1, <2>2, <2>5
    <3>2. at - 1 = 2 /\ at > 1
      BY <2>1
    <3> QED BY <2>5, <3>1, <3>2 DEF Search
  <2> QED BY <1>5, <2>4, <2>5
<1> QED
  BY <1>7, <1>8

\* The answer.
LEMMA AnswerIInv ==
  ASSUME IInv, Answer
  PROVE  IInv'
<1>1. /\ Asks /\ Search /\ Searching /\ at > Len(groups) /\ (Settled \/ IsSimpleHybrid)
      /\ UNCHANGED asked /\ answered' = TRUE
      /\ hit' = Least(hit, cur)
      /\ lists' = [i \in Group |-> Cut(lists[i], hit' \div groups[i].bs)]
  BY DEF IInv, Answer
<1>2. /\ groups' = groups /\ cached' = cached /\ eagle' = eagle /\ limit' = limit
      /\ caching' = caching
  BY <1>1 DEF asked
<1>3. /\ hit \in 0 .. limit /\ cur \in 0 .. hit /\ limit \in Nat
  BY <1>1 DEF Search, Asks
<1>4. hit' = cur /\ cur \in Nat /\ cur <= limit
  BY <1>1, <1>3 DEF Least
<1>5. Asks' /\ Group' = Group /\ (Alignment(groups))' = Alignment(groups)
  BY <1>1, AsksKept
<1>6. ASSUME NEW i \in Group
      PROVE  LET g == groups[i] IN
             /\ cur % g.bs = 0 /\ lists'[i].len = cur \div g.bs
             /\ Needed(g, cur) \subseteq lists'[i].held
             /\ lists'[i].held \subseteq cached[i]
             /\ eagle /\ cur > 0 /\ g.kind \in {"full", "window"} => cur \div g.bs + 1 \in cached[i]
  <2> DEFINE g == groups[i]
             b == g.bs
             l == lists[i]
             k == cur \div b
             x == l.len * b
  <2>1. g \in Layers /\ b \in Nat \ {0}
    BY GroupOf, <1>1
  <2>2. /\ Listed(i) /\ cur % b = 0 /\ (~IsFull(g) => x = cur)
    BY <1>1, AtTheEnd
  <2>3. /\ l.len \in Nat /\ Needed(g, x) \subseteq l.held
        /\ l.held \subseteq cached[i] /\ l.held \subseteq 1 .. l.len
        /\ IsFull(g) => l.held = 1 .. l.len /\ cur <= x
        /\ eagle /\ l.len > 0 /\ g.kind \in {"full", "window"} => l.len + 1 \in cached[i]
    BY <2>2 DEF Listed
  <2>4. lists'[i] = Cut(l, k)
    BY <1>1, <1>4
  <2> HIDE DEF g, l
  <2>5. k \in Nat /\ cur = k * b
    <3> HIDE DEF b
    <3> QED BY <1>4, <2>1, <2>2, Multiple, Division
  <2> HIDE DEF k
  <2>6. k <= l.len /\ (~IsFull(g) => k = l.len)
    <3>1. cur <= x /\ (~IsFull(g) => x <= cur)
      BY <1>4, <2>2, <2>3
    <3>2. (k <= l.len <=> k * b <= x) /\ (l.len <= k <=> x <= k * b)
      <4> HIDE DEF b
      <4> QED BY <2>1, <2>3, <2>5, Product
    <3>3. k <= l.len /\ (~IsFull(g) => l.len <= k)
      BY <2>5, <3>1, <3>2
    <3> QED BY <2>3, <2>5, <3>3
  <2>7. lists'[i].len = k /\ lists'[i].held = l.held \cap 1 .. k
    <3>1. Least(l.len, k) = k
      BY <2>3, <2>5, <2>6 DEF Least
    <3> QED BY <2>4, <3>1 DEF Cut
  <2>8. Needed(g, cur) \subseteq lists'[i].held
    <3>1. CASE IsFull(g)
      <4>1. Needed(g, k * b) = 1 .. k
        BY <2>1, <2>5, <3>1, NeededFull DEF IsFull
      <4>2. 1 .. k \subseteq 1 .. l.len
        BY <2>3, <2>5, <2>6
      <4> QED BY <2>3, <2>5, <2>7, <3>1, <4>1, <4>2
    <3>2. CASE ~IsFull(g)
      <4>1. k = l.len /\ x = cur
        BY <2>2, <2>6, <3>2
      <4> QED BY <2>3, <2>7, <4>1
    <3> QED BY <3>1, <3>2
  <2>9. ASSUME eagle, cur > 0, g.kind \in {"full", "window"} PROVE k + 1 \in cached[i]
    <3>1. k > 0
      <4>1. CASE k = 0
        <5>1. k * b = 0
          <6> HIDE DEF b
          <6> QED BY <2>1, <4>1, SMTT(20)
        <5> QED BY <2>5, <2>9, <5>1
      <4> QED BY <2>5, <4>1
    <3>2. CASE k = l.len
      BY <2>3, <2>9, <3>1, <3>2
    <3>3. CASE k # l.len
      <4>1. IsFull(g) /\ k + 1 \in 1 .. l.len
        BY <2>3, <2>5, <2>6, <3>3
      <4> QED BY <2>3, <4>1
    <3> QED BY <3>2, <3>3
  <2>10. lists'[i].held \subseteq cached[i]
    BY <2>3, <2>7
  <2> QED BY <2>2, <2>7, <2>8, <2>9, <2>10 DEF g, k
<1>7. HitCovers'
  <2>1. hit' \in 0 .. limit'
    BY <1>2, <1>4, <1>3
  <2> QED BY <1>2, <1>4, <1>5, <1>6, <2>1 DEF HitCovers
<1>8. HitLongest'
  <2>1. \A n : Common(n)' <=> Common(n)
    BY <1>2, <1>5 DEF Common
  <2>2. ~eagle => \A n \in cur + 1 .. limit : ~Common(n)
    BY <1>1 DEF Search
  <2> QED BY <1>2, <1>4, <2>1, <2>2 DEF HitLongest
<1>9. LastBlockDropped'
  BY <1>2, <1>4, <1>5, <1>6 DEF LastBlockDropped
<1>10. ~Searching'
  BY <1>1 DEF Searching
<1> QED
  BY <1>5, <1>7, <1>8, <1>9, <1>10 DEF IInv, HitExact

\* The coordinator without prefix caching.
LEMMA AnswerNothingIInv ==
  ASSUME IInv, AnswerNothing
  PROVE  IInv'
<1>1. /\ Asks /\ UNCHANGED asked /\ answered' = TRUE /\ ~caching /\ hit' = 0
      /\ lists' = [i \in Group |-> NoHit]
  BY DEF IInv, AnswerNothing
<1>2. groups' = groups /\ cached' = cached /\ limit' = limit /\ caching' = caching
  BY <1>1 DEF asked
<1>3. Asks' /\ Group' = Group
  BY <1>1, AsksKept
<1>4. ASSUME NEW i \in Group
      PROVE  LET g == groups[i] IN
             /\ 0 % g.bs = 0 /\ lists'[i].len = 0 \div g.bs
             /\ Needed(g, 0) \subseteq lists'[i].held
             /\ lists'[i].held \subseteq cached[i]
  <2> DEFINE b == groups[i].bs
  <2>1. groups[i] \in Layers /\ b \in Nat \ {0}
    BY <1>1, GroupOf
  <2>2. 0 % b = 0 /\ 0 \div b = 0
    <3> HIDE DEF b
    <3>1. 0 * b = 0
      BY <2>1, SMTT(20)
    <3> QED BY <2>1, <3>1, Quotient
  <2>3. lists'[i].len = 0 /\ lists'[i].held = {}
    BY <1>1 DEF NoHit
  <2>4. Needed(groups[i], 0) = {}
    BY <2>1, NeededNone
  <2> QED BY <2>2, <2>3, <2>4
<1>5. HitCovers'
  <2>1. hit' \in 0 .. limit'
    BY <1>1, <1>2 DEF Asks
  <2> QED BY <1>1, <1>2, <1>3, <1>4, <2>1 DEF HitCovers
<1>6. HitExact'
  BY <1>1, <1>2 DEF HitExact, HitLongest, LastBlockDropped
<1>7. ~Searching'
  BY <1>1 DEF Searching
<1> QED
  BY <1>3, <1>5, <1>6, <1>7 DEF IInv

\* The unitary coordinator.
LEMMA AnswerUnitaryIInv ==
  ASSUME IInv, AnswerUnitary
  PROVE  IInv'
<1> DEFINE g     == groups[1]
           b     == g.bs
           found == GroupHit(g, cached[1], limit, g.bs, eagle)
<1>1. /\ Asks /\ UNCHANGED asked /\ answered' = TRUE /\ caching /\ Len(groups) = 1
      /\ hit' = found.len * b /\ lists' = <<found>>
  BY DEF IInv, AnswerUnitary
<1>2. /\ groups' = groups /\ cached' = cached /\ limit' = limit /\ caching' = caching
      /\ eagle' = eagle
  BY <1>1 DEF asked
<1>3. Asks' /\ Group' = Group /\ (Alignment(groups))' = Alignment(groups)
  BY <1>1, AsksKept
<1>4. Group = {1} /\ 1 \in Group
  BY <1>1 DEF Group
<1>5. /\ g \in Layers /\ b \in Nat \ {0} /\ cached[1] \in SUBSET Nat
      /\ Alignment(groups) \in Nat \ {0} /\ Alignment(groups) % b = 0
      /\ Fits(g, Alignment(groups)) /\ limit \in Nat
  <2>1. limit \in Nat
    BY <1>1 DEF Asks
  <2> QED BY <1>1, <1>4, <2>1, GroupOf
<1>6. Fits(g, b)
  <2>1. b % b = 0
    <3> HIDE DEF b
    <3>1. 1 * b = b
      BY <1>5, SMTT(20)
    <3> QED BY <1>5, <3>1, Quotient
  <2> QED BY <1>5, <2>1 DEF Fits
<1>7. Serves(g, cached[1], limit, b, found)
  <2> HIDE DEF g
  <2> QED BY <1>5, <1>6, GroupServes
<1> HIDE DEF found
<1>8. /\ found.len \in Nat /\ hit' <= limit /\ hit' % b = 0
      /\ Needed(g, hit') \subseteq found.held /\ found.held \subseteq cached[1]
      /\ ~eagle => \A n \in 0 .. limit :
                     n % b = 0 /\ Needed(g, n) \subseteq cached[1] => n <= hit'
      /\ eagle /\ found.len > 0 /\ g.kind \in {"full", "window"} => found.len + 1 \in cached[1]
  <2>1. hit' = found.len * g.bs
    BY <1>1
  <2> HIDE DEF g
  <2> QED BY <1>7, <2>1 DEF Serves
<1>9. hit' \in Nat /\ found.len = hit' \div b /\ (hit' > 0 => found.len > 0)
  <2>1. hit' = found.len * b
    BY <1>1
  <2> HIDE DEF b
  <2>2. hit' \in Nat /\ found.len = hit' \div b
    BY <1>5, <1>8, <2>1, Quotient, Product
  <2>3. found.len = 0 => hit' = 0
    BY <1>5, <2>1, SMTT(20)
  <2> QED BY <1>8, <2>2, <2>3
<1>10. lists'[1] = found
  BY <1>1
<1>11. HitCovers'
  <2>1. hit' \in 0 .. limit'
    BY <1>2, <1>5, <1>8, <1>9
  <2> QED BY <1>2, <1>3, <1>4, <1>8, <1>9, <1>10, <2>1 DEF HitCovers
<1>12. HitLongest'
  <2>1. \A n : Common(n)' <=> Common(n)
    BY <1>2, <1>3 DEF Common
  <2>2. ASSUME ~eagle, NEW n \in hit' + 1 .. limit, Common(n) PROVE FALSE
    <3> DEFINE a == Alignment(groups)
    <3>1. n \in Nat /\ n <= limit /\ hit' < n
      <4>1. n \in hit' + 1 .. limit
        BY <2>2
      <4>2. hit' \in Nat /\ limit \in Nat
        BY <1>5, <1>9
      <4>3. ASSUME NEW h \in Nat, NEW l \in Nat, NEW k \in h + 1 .. l
            PROVE  k \in Nat /\ k <= l /\ h < k
        BY <4>3, SMTT(20)
      <4> HIDE DEF a, b, g
      <4> QED BY <4>1, <4>2, <4>3, Zenon
    <3>2. n % a = 0 /\ Needed(g, n) \subseteq cached[1]
      BY <1>4, <2>2 DEF Common
    <3> HIDE DEF a, b, g
    <3>3. n % b = 0
      BY <1>5, <3>1, <3>2, Chain DEF a
    <3>4. n \in 0 .. limit
      BY <1>5, <3>1
    <3>5. n <= hit'
      BY <1>8, <2>2, <3>2, <3>3, <3>4
    <3> QED BY <1>9, <3>1, <3>5
  <2> QED BY <1>2, <2>1, <2>2 DEF HitLongest
<1>13. LastBlockDropped'
  BY <1>2, <1>3, <1>4, <1>8, <1>9 DEF LastBlockDropped
<1>14. ~Searching'
  BY <1>1 DEF Searching
<1> QED
  BY <1>3, <1>11, <1>12, <1>13, <1>14 DEF IInv, HitExact

\* The invariant holds all the time, for all groups that do with eagle.
THEOREM Inductive ==
  ASSUME LargeWindows
  PROVE  Spec => []IInv
<1>1. Init => IInv
  BY InitIInv
<1>2. ASSUME IInv, [Next]_vars PROVE IInv'
  <2>1. CASE AnswerNothing
    BY <1>2, <2>1, AnswerNothingIInv
  <2>2. CASE AnswerUnitary
    BY <1>2, <2>2, AnswerUnitaryIInv
  <2>3. CASE Visit
    BY <1>2, <2>3, VisitIInv
  <2>4. CASE Again
    BY <1>2, <2>4, AgainIInv
  <2>5. CASE Answer
    BY <1>2, <2>5, AnswerIInv
  <2>6. CASE UNCHANGED vars
    <3>1. /\ UNCHANGED asked /\ groups' = groups /\ cached' = cached /\ eagle' = eagle
          /\ limit' = limit /\ caching' = caching /\ at' = at /\ hit' = hit /\ cur' = cur
          /\ lists' = lists /\ answered' = answered
      BY <2>6 DEF vars, asked
    <3>2. Asks' /\ Group' = Group /\ (Alignment(groups))' = Alignment(groups)
      BY <1>2, <3>1, AsksKept DEF IInv
    <3>3. /\ Searching' <=> Searching
          /\ HitCovers' <=> HitCovers
          /\ HitExact' <=> HitExact
      BY <3>1, <3>2 DEF Searching, HitCovers, HitExact, HitLongest, LastBlockDropped, Common
    <3>4. Search => Search'
      BY <3>1, <3>2 DEF Search, Listed, Visited, IsSimpleHybrid, IsFull, Common
    <3> QED BY <1>2, <3>2, <3>3, <3>4 DEF IInv
  <2>7. CASE Answered
    BY <2>6, <2>7 DEF Answered
  <2> QED BY <1>2, <2>1, <2>2, <2>3, <2>4, <2>5, <2>6, <2>7 DEF Next
<1> QED
  BY <1>1, <1>2, PTL DEF Spec

\* Whatever groups a model has and whatever is cached, what the next token reads behind
\* a hit is cached, in every group, and in the list that the group is given.  With eagle,
\* that needs sliding windows in blocks as large as the alignment.
THEOREM Covers ==
  ASSUME LargeWindows
  PROVE  Spec => []HitCovers
<1>1. IInv => HitCovers
  BY DEF IInv
<1> QED BY <1>1, Inductive, PTL

\* The passes never cut off more than they must: no longer hit would do for all
\* groups, whichever shortened it first; with eagle the last matched block is left.
THEOREM Exact ==
  ASSUME LargeWindows
  PROVE  Spec => []HitExact
<1>1. IInv => HitExact
  BY DEF IInv
<1> QED BY <1>1, Inductive, PTL
=============================================================================
