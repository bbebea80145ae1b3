----------------------------- MODULE QueuesProofs -----------------------------
(***************************************************************************)
(* Induction over numbers, sequences and finite sets, and what follows for *)
(* queues.  The induction principles are stated with sets: the set of the  *)
(* things that have a property contains all things.                        *)
(***************************************************************************)
EXTENDS Queues, Integers, SequencesExt, SequenceTheorems, FiniteSetTheorems,
        WellFoundedInduction, TLAPS

-----------------------------------------------------------------------------
(* Induction.                                                              *)

\* A set of numbers that is not empty has a smallest element.
LEMMA LeastNumber ==
  ASSUME NEW S \in SUBSET Nat, S # {}
  PROVE  \E x \in S : \A y \in S : x <= y
<1> DEFINE less == {p \in Nat \X Nat : p[1] < p[2]}
<1>1. OpToRel(<, Nat) = less
  BY Zenon DEF OpToRel
<1>2. IsWellFoundedOn(less, Nat)
  BY <1>1, NatLessThanWellFounded, Zenon
<1>3. \E x \in S : \A y \in S : ~ (<<y, x>> \in less)
  <2> HIDE DEF less
  <2> QED BY <1>2, WFMin, Zenon
<1>4. ASSUME NEW x \in Nat, NEW y \in Nat, ~ (<<y, x>> \in less)
      PROVE  x <= y
  BY <1>4
<1> HIDE DEF less
<1> QED
  BY <1>3, <1>4

\* A set that holds zero, and with a number its successor, holds all numbers.
LEMMA NumberInduction ==
  ASSUME NEW Z, 0 \in Z, \A n \in Nat : n \in Z => n + 1 \in Z
  PROVE  \A n \in Nat : n \in Z
<1> SUFFICES ASSUME Nat \ Z # {} PROVE FALSE
  OBVIOUS
<1>1. PICK x \in Nat \ Z : \A y \in Nat \ Z : x <= y
  BY LeastNumber
<1>2. x # 0 /\ x \in Nat
  OBVIOUS
<1>3. x - 1 \in Nat /\ (x - 1) + 1 = x /\ ~ (x <= x - 1)
  BY <1>2
<1>4. x - 1 \in Z
  BY <1>1, <1>3
<1> QED
  BY <1>1, <1>3, <1>4

\* A set that holds the empty sequence, and with a sequence all that are longer
\* by one, holds all sequences.
LEMMA SequenceInduction ==
  ASSUME NEW T, NEW Z, <<>> \in Z,
         \A q \in Seq(T), x \in T : q \in Z => Append(q, x) \in Z
  PROVE  \A q \in Seq(T) : q \in Z
<1> DEFINE short == {n \in Nat : \A q \in Seq(T) : Len(q) = n => q \in Z}
<1>1. 0 \in short
  BY EmptySeq
<1>2. ASSUME NEW n \in Nat, n \in short PROVE n + 1 \in short
  <2> SUFFICES ASSUME NEW q \in Seq(T), Len(q) = n + 1 PROVE q \in Z
    OBVIOUS
  <2>1. q # <<>>
    BY EmptySeq
  <2>2. PICK s \in Seq(T), x \in T : q = Append(s, x)
    BY <2>1, SequenceEmptyOrAppend
  <2>3. Len(s) = n
    BY <2>2, AppendProperties, LenProperties
  <2> QED
    BY <1>2, <2>2, <2>3
<1>3. \A n \in Nat : n \in short
  <2> HIDE DEF short
  <2> QED BY <1>1, <1>2, NumberInduction
<1>4. ASSUME NEW q \in Seq(T) PROVE q \in Z
  <2>1. Len(q) \in Nat
    BY LenProperties
  <2> QED BY <1>3, <2>1
<1> QED
  BY <1>4

\* Among the subsets of a finite set: a set of sets that holds the empty one,
\* and with a set all that are larger by one element, holds all of them.
LEMMA SubsetInduction ==
  ASSUME NEW S, IsFiniteSet(S), NEW Z, {} \in Z,
         \A A \in SUBSET S, x \in S : A \in Z /\ x \notin A => A \cup {x} \in Z
  PROVE  \A A \in SUBSET S : A \in Z
<1> DEFINE small == {n \in Nat : \A A \in SUBSET S : Cardinality(A) = n => A \in Z}
<1>0. ASSUME NEW A \in SUBSET S PROVE IsFiniteSet(A) /\ Cardinality(A) \in Nat
  BY FS_Subset, FS_CardinalityType
<1>1. 0 \in small
  BY <1>0, FS_EmptySet
<1>2. ASSUME NEW n \in Nat, n \in small PROVE n + 1 \in small
  <2> SUFFICES ASSUME NEW A \in SUBSET S, Cardinality(A) = n + 1 PROVE A \in Z
    OBVIOUS
  <2>1. A # {}
    BY FS_EmptySet
  <2>2. PICK x \in A : TRUE
    BY <2>1
  <2>3. Cardinality(A \ {x}) = n
    <3>1. IsFiniteSet(A) /\ Cardinality(A \ {x}) = Cardinality(A) - 1
      BY <1>0, <2>2, FS_RemoveElement
    <3> QED BY <3>1
  <2>4. A \ {x} \in Z /\ x \notin A \ {x} /\ A = (A \ {x}) \cup {x}
    BY <1>2, <2>2, <2>3
  <2> QED
    BY <2>2, <2>4
<1>3. \A n \in Nat : n \in small
  <2> HIDE DEF small
  <2> QED BY <1>1, <1>2, NumberInduction
<1> QED
  BY <1>0, <1>3

\* f starts with start, and its value at a number follows from the one before.
Iterates(f, n, start, next) ==
  f[0] = start /\ \A i \in 1 .. n : f[i] = next[<<i, f[i - 1]>>]

\* There is such a function on 0 .. n.
LEMMA Recursion ==
  ASSUME NEW X, NEW start \in X, NEW next \in [Nat \X X -> X], NEW n \in Nat
  PROVE  \E f \in [0 .. n -> X] : Iterates(f, n, start, next)
<1> DEFINE Fits(f, m) == f \in [0 .. m -> X] /\ Iterates(f, m, start, next)
           Z == {m \in Nat : \E f : Fits(f, m)}
<1>1. 0 \in Z
  <2>1. Fits([i \in 0 .. 0 |-> start], 0)
    BY DEF Iterates
  <2> QED BY <2>1
<1>2. ASSUME NEW m \in Nat, m \in Z PROVE m + 1 \in Z
  <2>1. PICK f : Fits(f, m)
    BY <1>2
  <2> DEFINE g == [i \in 0 .. m + 1 |-> IF i = m + 1 THEN next[<<m + 1, f[m]>>] ELSE f[i]]
  <2>2. f[m] \in X /\ next[<<m + 1, f[m]>>] \in X
    BY <2>1
  <2>3. g \in [0 .. m + 1 -> X] /\ g[0] = start
    BY <2>1, <2>2 DEF Iterates
  <2>4. ASSUME NEW i \in 1 .. m + 1 PROVE g[i] = next[<<i, g[i - 1]>>]
    <3>1. CASE i = m + 1
      <4>1. i - 1 = m /\ g[m] = f[m] /\ g[m + 1] = next[<<m + 1, f[m]>>]
        BY <3>1
      <4> QED BY <3>1, <4>1
    <3>2. CASE i # m + 1
      <4>1. i \in 1 .. m /\ i - 1 \in 0 .. m /\ g[i] = f[i] /\ g[i - 1] = f[i - 1]
        BY <3>2
      <4> QED BY <2>1, <4>1 DEF Iterates
    <3> QED BY <3>1, <3>2
  <2>5. Fits(g, m + 1)
    BY <2>3, <2>4 DEF Iterates
  <2> HIDE DEF g, Fits
  <2>6. \E f2 : Fits(f2, m + 1)
    BY <2>5
  <2> QED BY <2>6
<1>3. n \in Z
  <2> HIDE DEF Z
  <2> QED BY <1>1, <1>2, NumberInduction
<1> QED
  BY <1>3

-----------------------------------------------------------------------------
(* Blocks and tokens.                                                      *)

\* Division with a remainder.
LEMMA Division ==
  ASSUME NEW n \in Nat, NEW b \in Nat \ {0}
  PROVE  /\ n \div b \in Nat /\ n % b \in 0 .. b - 1
         /\ n = b * (n \div b) + (n % b)
BY SMTT(20)

\* A product is not less than what it multiplies.
LEMMA Product ==
  ASSUME NEW j \in Nat, NEW k \in Nat, NEW b \in Nat \ {0}
  PROVE  /\ j * b \in Nat
         /\ j <= k <=> j * b <= k * b
         /\ j < k <=> j * b < k * b
<1>1. j * b \in Nat /\ k * b \in Nat
  BY SMTT(20)
<1>2. ASSUME j < k PROVE j * b < k * b
  <2>1. PICK d \in Nat \ {0} : k = j + d
    <3>1. k - j \in Nat \ {0} /\ k = j + (k - j)
      BY <1>2
    <3> QED BY <3>1
  <2>2. k * b = j * b + d * b /\ d * b \in Nat
    BY <2>1, SMTT(20)
  <2>3. d * b > 0
    BY <2>1, SMTT(20)
  <2> QED BY <1>1, <2>2, <2>3
<1>3. ASSUME k < j PROVE k * b < j * b
  <2>1. PICK d \in Nat \ {0} : j = k + d
    <3>1. j - k \in Nat \ {0} /\ j = k + (j - k)
      BY <1>3
    <3> QED BY <3>1
  <2>2. j * b = k * b + d * b /\ d * b \in Nat
    BY <2>1, SMTT(20)
  <2>3. d * b > 0
    BY <2>1, SMTT(20)
  <2> QED BY <1>1, <2>2, <2>3
<1> QED
  <2>1. j < k \/ j = k \/ k < j
    OBVIOUS
  <2> DEFINE p == j * b
             q == k * b
  <2>2. j < k => p < q
    BY <1>2
  <2>3. k < j => q < p
    BY <1>3
  <2>4. j = k => p = q
    OBVIOUS
  <2>5. p \in Nat /\ q \in Nat
    BY <1>1
  <2> HIDE DEF p, q
  <2>6. /\ p \in Nat /\ (j <= k <=> p <= q) /\ (j < k <=> p < q)
    BY <2>1, <2>2, <2>3, <2>4, <2>5
  <2> QED BY <2>6 DEF p, q

\* The blocks that are full of n tokens.
LEMMA Quotient ==
  ASSUME NEW n \in Nat, NEW k \in Nat, NEW b \in Nat \ {0}
  PROVE  /\ k * b <= n <=> k <= n \div b
         /\ (k * b) \div b = k /\ (k * b) % b = 0
<1> DEFINE q == n \div b
           m == n % b
<1>1. q \in Nat /\ m \in 0 .. b - 1 /\ n = q * b + m
  <2>1. q \in Nat /\ m \in 0 .. b - 1 /\ n = b * q + m
    BY Division
  <2> HIDE DEF q, m
  <2> QED BY <2>1, SMTT(20)
<1>2. (q + 1) * b = q * b + b /\ q * b \in Nat
  <2> HIDE DEF q, m
  <2> QED BY <1>1, SMTT(20)
<1>3. /\ k <= q <=> k * b <= q * b
      /\ k < q + 1 <=> k * b < (q + 1) * b
      /\ k * b \in Nat
  BY <1>1, Product
<1>4. k * b <= n <=> k <= q
  <2> HIDE DEF q, m
  <2> DEFINE x == k * b
             y == q * b
             z == (q + 1) * b
  <2>1. /\ (k <= q <=> x <= y) /\ (k < q + 1 <=> x < z) /\ x \in Nat /\ y \in Nat
        /\ z = y + b /\ n = y + m
    BY <1>1, <1>2, <1>3
  <2> HIDE DEF x, y, z
  <2> QED BY <1>1, <2>1 DEF x
<1>5. (k * b) \div b = k /\ (k * b) % b = 0
  BY SMTT(20)
<1> QED
  BY <1>4, <1>5

\* A multiple is a number of blocks.
LEMMA Multiple ==
  ASSUME NEW n \in Nat, NEW b \in Nat \ {0}
  PROVE  n % b = 0 <=> n = (n \div b) * b
<1> DEFINE q == n \div b
           m == n % b
<1>1. q \in Nat /\ m \in 0 .. b - 1 /\ n = b * q + m
  BY Division
<1>2. b * q = q * b /\ q * b \in Nat
  <2> HIDE DEF q, m
  <2> QED BY <1>1, SMTT(20)
<1> DEFINE x == q * b
<1>3. n = x + m /\ x \in Nat
  BY <1>1, <1>2
<1> HIDE DEF x
<1>4. m = 0 <=> n = x
  BY <1>1, <1>3
<1> QED BY <1>4 DEF x

\* What divides a divisor of n divides n.
LEMMA Chain ==
  ASSUME NEW n \in Nat, NEW a \in Nat \ {0}, NEW b \in Nat \ {0}, n % a = 0, a % b = 0
  PROVE  n % b = 0
<1> DEFINE p == n \div a
           q == a \div b
<1>1. p \in Nat /\ q \in Nat /\ n = p * a /\ a = q * b
  BY Multiple, Division
<1> HIDE DEF p, q
<1>2. n = p * (q * b)
  BY <1>1
<1>3. p * (q * b) = (p * q) * b /\ p * q \in Nat
  BY <1>1, SMTT(20)
<1>4. n = (p * q) * b
  BY <1>2, <1>3
<1> QED BY <1>3, <1>4, Quotient

\* The greatest of some numbers up to n.
LEMMA Greatest ==
  ASSUME NEW n \in Nat, NEW S \in SUBSET (0 .. n), S # {}
  PROVE  Max(S) \in S /\ \A x \in S : x <= Max(S)
<1> DEFINE far == {n - x : x \in S}
<1>0. \A x \in S : x \in 0 .. n /\ n - x \in Nat
  OBVIOUS
<1>1. far \in SUBSET Nat /\ far # {}
  <2>1. far \in SUBSET Nat
    BY <1>0
  <2>2. PICK x \in S : TRUE
    OBVIOUS
  <2>3. n - x \in far
    BY <2>2
  <2> QED BY <2>1, <2>3
<1>2. PICK y \in far : \A z \in far : y <= z
  BY <1>1, LeastNumber
<1>3. PICK x \in S : y = n - x
  BY <1>2
<1>4. ASSUME NEW z \in S PROVE x >= z
  <2>1. n - x <= n - z
    BY <1>2, <1>3
  <2>2. x \in 0 .. n /\ z \in 0 .. n
    OBVIOUS
  <2> QED BY <2>1, <2>2
<1>5. \E m \in S : \A z \in S : m >= z
  BY <1>4
<1>6. Max(S) \in S /\ \A z \in S : Max(S) >= z
  BY <1>5 DEF Max
<1> DEFINE m == Max(S)
<1>7. m \in S /\ \A z \in S : m >= z
  BY <1>6
<1> HIDE DEF m
<1>8. m \in Nat /\ \A z \in S : z \in Nat
  BY <1>0, <1>7
<1>9. m \in S /\ \A z \in S : z <= m
  BY <1>7, <1>8
<1> QED
  BY <1>9 DEF m

-----------------------------------------------------------------------------
(* Among.                                                                  *)

\* What Among has collected after each member of the queue.
Collects(f, q, S) ==
  /\ f[0] = <<>>
  /\ \A i \in 1 .. Len(q) :
       f[i] = IF q[i] \in S THEN Append(f[i - 1], q[i]) ELSE f[i - 1]

\* The recursive definition defines something.
LEMMA AmongDefined ==
  ASSUME NEW T, NEW q \in Seq(T), NEW S
  PROVE  \E f \in [0 .. Len(q) -> Seq(T)] : Collects(f, q, S) /\ Among(q, S) = f[Len(q)]
<1> DEFINE body(f) == [n \in 0 .. Len(q) |->
                         IF n = 0 THEN <<>>
                         ELSE IF q[n] \in S THEN Append(f[n - 1], q[n]) ELSE f[n - 1]]
           among == CHOOSE f : f = body(f)
           next == [p \in Nat \X Seq(T) |->
                      IF p[1] \in 1 .. Len(q) /\ q[p[1]] \in S
                      THEN Append(p[2], q[p[1]]) ELSE p[2]]
<1>0. Len(q) \in Nat /\ \A i \in 1 .. Len(q) : q[i] \in T
  BY LenProperties, ElementOfSeq
<1>1. Among(q, S) = among[Len(q)]
  BY DEF Among
<1>2. PICK f \in [0 .. Len(q) -> Seq(T)] : Iterates(f, Len(q), <<>>, next)
  <2>1. next \in [Nat \X Seq(T) -> Seq(T)]
    <3>1. ASSUME NEW p \in Nat \X Seq(T) PROVE next[p] \in Seq(T)
      BY <1>0, AppendProperties
    <3> QED BY <3>1
  <2>2. <<>> \in Seq(T)
    BY EmptySeq
  <2> HIDE DEF next
  <2> QED BY <1>0, <2>1, <2>2, Recursion
<1>3. Collects(f, q, S)
  <2>1. ASSUME NEW i \in 1 .. Len(q)
        PROVE  f[i] = IF q[i] \in S THEN Append(f[i - 1], q[i]) ELSE f[i - 1]
    <3>1. i \in Nat /\ i - 1 \in 0 .. Len(q)
      BY <1>0
    <3>2. f[i - 1] \in Seq(T)
      BY <3>1
    <3>3. <<i, f[i - 1]>> \in Nat \X Seq(T)
      BY <3>1, <3>2
    <3>4. f[i] = next[<<i, f[i - 1]>>]
      BY <1>2 DEF Iterates
    <3> QED BY <3>3, <3>4
  <2> HIDE DEF next
  <2> QED BY <1>2, <2>1 DEF Collects, Iterates
<1> HIDE DEF next
<1>4. f = body(f)
  <2>1. ASSUME NEW i \in 0 .. Len(q) PROVE f[i] = body(f)[i]
    <3>1. CASE i = 0
      BY <1>3, <3>1 DEF Collects
    <3>2. CASE i # 0
      <4>1. i \in 1 .. Len(q)
        BY <1>0, <3>2
      <4> QED BY <1>3, <4>1, <3>2 DEF Collects
    <3> QED BY <3>1, <3>2
  <2> HIDE DEF Collects
  <2>2. DOMAIN f = 0 .. Len(q) /\ f = [i \in 0 .. Len(q) |-> f[i]]
    OBVIOUS
  <2> QED BY <2>1, <2>2
<1>5. among = body(among)
  BY <1>4
<1> HIDE DEF among
<1>6. Collects(among, q, S)
  <2>1. \A i \in 0 .. Len(q) : among[i] = body(among)[i]
    BY <1>5
  <2>2. 0 \in 0 .. Len(q) /\ \A i \in 1 .. Len(q) : i \in 0 .. Len(q) /\ i # 0
    BY <1>0
  <2>3. among[0] = <<>>
    BY <2>1, <2>2
  <2>4. \A i \in 1 .. Len(q) :
          among[i] = IF q[i] \in S THEN Append(among[i - 1], q[i]) ELSE among[i - 1]
    BY <2>1, <2>2
  <2> QED BY <2>3, <2>4 DEF Collects
<1>7. \A n \in Nat : n \in {m \in Nat : m <= Len(q) => among[m] = f[m]}
  <2> DEFINE Z == {m \in Nat : m <= Len(q) => among[m] = f[m]}
  <2>1. 0 \in Z
    BY <1>3, <1>6 DEF Collects
  <2>2. ASSUME NEW n \in Nat, n \in Z PROVE n + 1 \in Z
    <3> SUFFICES ASSUME n + 1 <= Len(q) PROVE among[n + 1] = f[n + 1]
      OBVIOUS
    <3>1. among[n] = f[n] /\ n + 1 \in 1 .. Len(q) /\ (n + 1) - 1 = n
      BY <1>0, <2>2
    <3> QED BY <3>1, <1>3, <1>6 DEF Collects
  <2> HIDE DEF Z
  <2>3. \A n \in Nat : n \in Z
    BY <2>1, <2>2, NumberInduction
  <2> QED BY <2>3 DEF Z
<1>8. among[Len(q)] = f[Len(q)]
  BY <1>0, <1>7
<1> QED
  BY <1>1, <1>3, <1>8

\* Nothing is among nothing.
LEMMA AmongEmpty == \A S : Among(<<>>, S) = <<>>
<1> SUFFICES ASSUME NEW S PROVE Among(<<>>, S) = <<>>
  OBVIOUS
<1> DEFINE T == {}
<1>1. <<>> \in Seq(T) /\ Len(<<>>) = 0
  BY EmptySeq
<1>2. PICK f \in [0 .. Len(<<>>) -> Seq(T)] :
        Collects(f, <<>>, S) /\ Among(<<>>, S) = f[Len(<<>>)]
  BY <1>1, AmongDefined, Zenon
<1> QED BY <1>1, <1>2 DEF Collects

\* Member by member, Among keeps a member or leaves it out.
LEMMA AmongAppend ==
  ASSUME NEW T, NEW S, NEW q \in Seq(T), NEW x \in T
  PROVE  Among(Append(q, x), S) = IF x \in S THEN Append(Among(q, S), x) ELSE Among(q, S)
<1> DEFINE r == Append(q, x)
<1>1. /\ r \in Seq(T) /\ Len(r) = Len(q) + 1 /\ Len(q) \in Nat
      /\ r[Len(q) + 1] = x /\ \A i \in 1 .. Len(q) : r[i] = q[i]
  BY AppendProperties, LenProperties
<1>2. PICK f \in [0 .. Len(q) -> Seq(T)] : Collects(f, q, S) /\ Among(q, S) = f[Len(q)]
  BY AmongDefined
<1>3. PICK g \in [0 .. Len(r) -> Seq(T)] : Collects(g, r, S) /\ Among(r, S) = g[Len(r)]
  BY <1>1, AmongDefined
<1> HIDE DEF r
<1>4. \A n \in Nat : n \in {m \in Nat : m <= Len(q) => g[m] = f[m]}
  <2> DEFINE Z == {m \in Nat : m <= Len(q) => g[m] = f[m]}
  <2>1. 0 \in Z
    BY <1>2, <1>3 DEF Collects
  <2>2. ASSUME NEW n \in Nat, n \in Z PROVE n + 1 \in Z
    <3> SUFFICES ASSUME n + 1 <= Len(q) PROVE g[n + 1] = f[n + 1]
      OBVIOUS
    <3>1. g[n] = f[n] /\ n + 1 \in 1 .. Len(q) /\ n + 1 \in 1 .. Len(r) /\ (n + 1) - 1 = n
      BY <1>1, <2>2
    <3> QED BY <3>1, <1>1, <1>2, <1>3, ZenonT(60) DEF Collects
  <2> HIDE DEF Z
  <2>3. \A n \in Nat : n \in Z
    BY <2>1, <2>2, NumberInduction
  <2> QED BY <2>3 DEF Z
<1>5. g[Len(q)] = f[Len(q)]
  BY <1>1, <1>4
<1>6. Len(q) + 1 \in 1 .. Len(r) /\ (Len(q) + 1) - 1 = Len(q)
  BY <1>1
<1>7. g[Len(q) + 1] = IF x \in S THEN Append(g[Len(q)], x) ELSE g[Len(q)]
  BY <1>1, <1>3, <1>6 DEF Collects
<1> QED
  BY <1>1, <1>2, <1>3, <1>5, <1>7 DEF r

-----------------------------------------------------------------------------
(* Queues: sequences without repetition.                                   *)

Queue(T) == {q \in Seq(T) : IsInjective(q)}

\* The members of a sequence, by their places.
LEMMA Members ==
  ASSUME NEW T, NEW q \in Seq(T)
  PROVE  /\ Len(q) \in Nat /\ ToSet(q) \in SUBSET T
         /\ \A i \in 1 .. Len(q) : q[i] \in ToSet(q) /\ q[i] \in T
         /\ \A x \in ToSet(q) : \E i \in 1 .. Len(q) : q[i] = x
BY LenProperties DEF ToSet

\* A sequence is a queue when no two places hold the same member.
LEMMA QueuePlaces ==
  ASSUME NEW T, NEW q
  PROVE  q \in Queue(T) <=> /\ q \in Seq(T)
                            /\ \A i, j \in 1 .. Len(q) : q[i] = q[j] => i = j
<1>1. q \in Seq(T) => DOMAIN q = 1 .. Len(q)
  BY LenProperties
<1> QED
  BY <1>1 DEF Queue, IsInjective

\* The empty queue.
LEMMA QueueEmpty == \A T : <<>> \in Queue(T) /\ ToSet(<<>>) = {}
<1> SUFFICES ASSUME NEW T PROVE <<>> \in Queue(T) /\ ToSet(<<>>) = {}
  OBVIOUS
<1> DEFINE e == <<>>
<1>1. e \in Seq(T) /\ Len(e) = 0
  BY EmptySeq
<1> HIDE DEF e
<1>2. \A i \in 1 .. Len(e) : FALSE
  BY <1>1
<1>3. e \in Queue(T)
  BY <1>1, <1>2, QueuePlaces
<1>4. ToSet(e) = {}
  BY <1>1, <1>2, Members
<1> QED
  BY <1>3, <1>4 DEF e

\* Queues with no common member make one queue.
LEMMA QueueConcat ==
  ASSUME NEW T, NEW a \in Queue(T), NEW b \in Queue(T), ToSet(a) \cap ToSet(b) = {}
  PROVE  a \o b \in Queue(T) /\ ToSet(a \o b) = ToSet(a) \cup ToSet(b)
<1> DEFINE c == a \o b
<1>0. /\ a \in Seq(T) /\ b \in Seq(T)
      /\ \A i, j \in 1 .. Len(a) : a[i] = a[j] => i = j
      /\ \A i, j \in 1 .. Len(b) : b[i] = b[j] => i = j
  BY QueuePlaces
<1>1. /\ c \in Seq(T) /\ Len(c) = Len(a) + Len(b) /\ Len(a) \in Nat /\ Len(b) \in Nat
      /\ \A i \in 1 .. Len(a) : c[i] = a[i] /\ i \in 1 .. Len(c)
      /\ \A i \in 1 .. Len(c) : i \notin 1 .. Len(a)
           => i - Len(a) \in 1 .. Len(b) /\ c[i] = b[i - Len(a)]
  BY <1>0, ConcatProperties, LenProperties
<1>2. /\ \A i \in 1 .. Len(a) : a[i] \in ToSet(a)
      /\ \A i \in 1 .. Len(b) : b[i] \in ToSet(b)
  BY <1>0, Members
<1> HIDE DEF c
<1>3. ASSUME NEW i \in 1 .. Len(c), NEW j \in 1 .. Len(c), c[i] = c[j]
      PROVE  i = j
  <2>1. CASE i \in 1 .. Len(a) /\ j \in 1 .. Len(a)
    BY <1>0, <1>1, <1>3, <2>1
  <2>2. CASE i \notin 1 .. Len(a) /\ j \notin 1 .. Len(a)
    <3> DEFINE k == i - Len(a)
               l == j - Len(a)
    <3>1. k \in 1 .. Len(b) /\ c[i] = b[k] /\ l \in 1 .. Len(b) /\ c[j] = b[l]
      BY <1>1, <2>2
    <3>2. (k = l) => i = j
      BY <1>1
    <3> HIDE DEF k, l
    <3>3. k = l
      BY <1>0, <1>3, <3>1
    <3> QED BY <3>2, <3>3
  <2>3. CASE i \in 1 .. Len(a) /\ j \notin 1 .. Len(a)
    <3>1. c[i] \in ToSet(a) /\ c[j] \in ToSet(b)
      BY <1>1, <1>2, <2>3
    <3> QED BY <1>3, <3>1
  <2>4. CASE i \notin 1 .. Len(a) /\ j \in 1 .. Len(a)
    <3>1. c[i] \in ToSet(b) /\ c[j] \in ToSet(a)
      BY <1>1, <1>2, <2>4
    <3> QED BY <1>3, <3>1
  <2> QED BY <2>1, <2>2, <2>3, <2>4
<1>4. c \in Queue(T)
  BY <1>1, <1>3, QueuePlaces
<1>5. ToSet(c) = ToSet(a) \cup ToSet(b)
  <2>1. ASSUME NEW x \in ToSet(c) PROVE x \in ToSet(a) \cup ToSet(b)
    <3>1. PICK i \in 1 .. Len(c) : c[i] = x
      BY <1>1, Members
    <3> QED BY <1>1, <1>2, <3>1
  <2>2. ASSUME NEW x \in ToSet(a) PROVE x \in ToSet(c)
    <3>1. PICK i \in 1 .. Len(a) : a[i] = x
      BY <1>0, Members
    <3>2. c[i] = x /\ i \in 1 .. Len(c)
      BY <1>1, <3>1
    <3> QED BY <1>1, <3>2, Members
  <2>3. ASSUME NEW x \in ToSet(b) PROVE x \in ToSet(c)
    <3>1. PICK i \in 1 .. Len(b) : b[i] = x
      BY <1>0, Members
    <3>2. /\ i + Len(a) \in 1 .. Len(c) /\ i + Len(a) \notin 1 .. Len(a)
          /\ (i + Len(a)) - Len(a) = i
      BY <1>1
    <3>3. c[i + Len(a)] = x
      BY <1>1, <3>1, <3>2
    <3> QED BY <1>1, <3>2, <3>3, Members
  <2> QED BY <2>1, <2>2, <2>3
<1> QED
  BY <1>4, <1>5 DEF c

\* One member.
LEMMA QueueOne == \A T : \A x \in T : <<x>> \in Queue(T) /\ ToSet(<<x>>) = {x}
<1> SUFFICES ASSUME NEW T, NEW x \in T PROVE <<x>> \in Queue(T) /\ ToSet(<<x>>) = {x}
  OBVIOUS
<1> DEFINE one == <<x>>
<1>1. one \in Seq(T) /\ Len(one) = 1 /\ one[1] = x
  OBVIOUS
<1> HIDE DEF one
<1>2. 1 \in 1 .. Len(one) /\ \A i \in 1 .. Len(one) : i = 1
  BY <1>1
<1>3. one \in Queue(T)
  BY <1>1, <1>2, QueuePlaces
<1>4. ToSet(one) = {x}
  BY <1>1, <1>2, Members
<1> QED
  BY <1>3, <1>4 DEF one

\* A new member in front.
LEMMA QueuePush ==
  ASSUME NEW T, NEW q \in Queue(T), NEW x \in T, x \notin ToSet(q)
  PROVE  <<x>> \o q \in Queue(T) /\ ToSet(<<x>> \o q) = ToSet(q) \cup {x}
<1> DEFINE one == <<x>>
<1>1. one \in Queue(T) /\ ToSet(one) = {x}
  BY QueueOne
<1> HIDE DEF one
<1>2. one \o q \in Queue(T) /\ ToSet(one \o q) = ToSet(q) \cup {x}
  BY <1>1, QueueConcat
<1> QED
  BY <1>2 DEF one

\* A new member at the end.
LEMMA QueueAppend ==
  ASSUME NEW T, NEW q \in Queue(T), NEW x \in T, x \notin ToSet(q)
  PROVE  Append(q, x) \in Queue(T) /\ ToSet(Append(q, x)) = ToSet(q) \cup {x}
<1> DEFINE one == <<x>>
<1>1. one \in Queue(T) /\ ToSet(one) = {x}
  BY QueueOne
<1>2. Append(q, x) = q \o one
  BY AppendIsConcat DEF Queue
<1> HIDE DEF one
<1>3. q \o one \in Queue(T) /\ ToSet(q \o one) = ToSet(q) \cup {x}
  BY <1>1, QueueConcat
<1> QED
  BY <1>2, <1>3

\* The first member leaves.
LEMMA QueueTail ==
  ASSUME NEW T, NEW q \in Queue(T), q # <<>>
  PROVE  /\ Head(q) \in ToSet(q) /\ Tail(q) \in Queue(T)
         /\ ToSet(Tail(q)) = ToSet(q) \ {Head(q)}
<1>0. q \in Seq(T) /\ \A i, j \in 1 .. Len(q) : q[i] = q[j] => i = j
  BY QueuePlaces
<1>1. /\ Len(q) \in Nat \ {0} /\ Head(q) = q[1] /\ Tail(q) \in Seq(T)
      /\ Len(Tail(q)) = Len(q) - 1
      /\ \A i \in 1 .. Len(q) - 1 : Tail(q)[i] = q[i + 1]
  BY <1>0, HeadTailProperties, EmptySeq
<1> DEFINE t == Tail(q)
<1>2. \A i \in 1 .. Len(t) : i + 1 \in 1 .. Len(q) /\ i + 1 # 1 /\ t[i] = q[i + 1]
  BY <1>1
<1>3. \A i \in 1 .. Len(q) : i # 1 => i - 1 \in 1 .. Len(t) /\ t[i - 1] = q[i]
  BY <1>1
<1>4. 1 \in 1 .. Len(q)
  BY <1>1
<1> HIDE DEF t
<1>5. t \in Queue(T)
  <2>1. ASSUME NEW i \in 1 .. Len(t), NEW j \in 1 .. Len(t), t[i] = t[j] PROVE i = j
    <3>1. i + 1 = j + 1
      BY <1>0, <1>2, <2>1
    <3> QED BY <3>1
  <2> QED BY <1>1, <2>1, QueuePlaces DEF t
<1>6. ToSet(t) = ToSet(q) \ {q[1]}
  <2>1. ASSUME NEW x \in ToSet(t) PROVE x \in ToSet(q) \ {q[1]}
    <3>1. PICK i \in 1 .. Len(t) : t[i] = x
      BY <1>1, Members, ZenonT(60) DEF t
    <3> QED BY <1>0, <1>2, <1>4, <3>1, Members
  <2>2. ASSUME NEW x \in ToSet(q) \ {q[1]} PROVE x \in ToSet(t)
    <3>1. PICK i \in 1 .. Len(q) : q[i] = x
      BY <1>0, Members
    <3>2. i - 1 \in 1 .. Len(t) /\ t[i - 1] = x
      BY <1>3, <3>1, <2>2
    <3> QED BY <1>1, <3>2, Members, ZenonT(60) DEF t
  <2> QED BY <2>1, <2>2
<1> QED
  BY <1>0, <1>1, <1>4, <1>5, <1>6, Members DEF t

\* The last member leaves.
LEMMA QueueFront ==
  ASSUME NEW T, NEW q \in Queue(T), q # <<>>
  PROVE  /\ Last(q) \in ToSet(q) /\ Front(q) \in Queue(T)
         /\ ToSet(Front(q)) = ToSet(q) \ {Last(q)}
<1> DEFINE n == Len(q)
           f == Front(q)
<1>0. q \in Seq(T) /\ \A i, j \in 1 .. n : q[i] = q[j] => i = j
  BY QueuePlaces
<1>1. n \in Nat \ {0} /\ Last(q) = q[n] /\ n \in 1 .. n
  BY <1>0, EmptySeq DEF Last
<1>2. /\ f \in Seq(T) /\ Len(f) = n - 1
      /\ \A i \in 1 .. Len(f) : f[i] = q[i] /\ i \in 1 .. n /\ i # n
  <2>1. \A i \in 1 .. n - 1 : q[i] \in T
    BY <1>0, Members
  <2>2. /\ SubSeq(q, 1, n - 1) \in Seq(T)
        /\ Len(SubSeq(q, 1, n - 1)) = IF 1 <= n - 1 THEN (n - 1) - 1 + 1 ELSE 0
        /\ \A i \in 1 .. (n - 1) - 1 + 1 : SubSeq(q, 1, n - 1)[i] = q[1 + i - 1]
    <3>1. 1 \in Int /\ n - 1 \in Int
      BY <1>1
    <3> HIDE DEF n
    <3> QED BY <2>1, <3>1, SubSeqProperties
  <2>3. Len(f) = n - 1
    <3>1. f = SubSeq(q, 1, n - 1)
      BY DEF Front
    <3> HIDE DEF n, f
    <3>2. (IF 1 <= n - 1 THEN (n - 1) - 1 + 1 ELSE 0) = n - 1
      BY <1>1
    <3> QED BY <2>2, <3>1, <3>2
  <2>4. ASSUME NEW i \in 1 .. Len(f) PROVE f[i] = q[i] /\ i \in 1 .. n /\ i # n
    <3>1. i \in 1 .. (n - 1) - 1 + 1 /\ 1 + i - 1 = i
      BY <1>1, <2>3
    <3> QED BY <1>1, <2>2, <3>1 DEF Front
  <2> QED BY <2>2, <2>3, <2>4 DEF Front
<1>3. \A i \in 1 .. n : i # n => i \in 1 .. Len(f)
  BY <1>1, <1>2
<1> HIDE DEF n, f
<1>4. f \in Queue(T)
  BY <1>0, <1>2, QueuePlaces
<1>5. ToSet(f) = ToSet(q) \ {q[n]}
  <2>1. ASSUME NEW x \in ToSet(f) PROVE x \in ToSet(q) \ {q[n]}
    <3>1. PICK i \in 1 .. Len(f) : f[i] = x
      BY <1>2, Members
    <3>2. q[i] = x /\ i # n /\ i \in 1 .. n
      BY <1>2, <3>1
    <3>3. q[i] \in ToSet(q)
      BY <1>0, <3>2, Members DEF n
    <3> QED BY <1>0, <1>1, <3>2, <3>3
  <2>2. ASSUME NEW x \in ToSet(q) \ {q[n]} PROVE x \in ToSet(f)
    <3>1. PICK i \in 1 .. n : q[i] = x
      BY <1>0, Members DEF n
    <3>2. i \in 1 .. Len(f) /\ f[i] = x
      BY <1>2, <1>3, <3>1, <2>2
    <3> QED BY <1>2, <3>2, Members
  <2> QED BY <2>1, <2>2
<1>6. q[n] \in ToSet(q)
  BY <1>0, <1>1, Members DEF n
<1> QED
  BY <1>1, <1>4, <1>5, <1>6 DEF f

\* The order turned round.
LEMMA QueueReverse ==
  ASSUME NEW T, NEW q \in Queue(T)
  PROVE  Reverse(q) \in Queue(T) /\ ToSet(Reverse(q)) = ToSet(q)
<1> DEFINE n == Len(q)
           r == Reverse(q)
<1>0. q \in Seq(T) /\ n \in Nat /\ \A i, j \in 1 .. n : q[i] = q[j] => i = j
  BY QueuePlaces, Members
<1>1. r \in Seq(T) /\ Len(r) = n /\ \A i \in 1 .. n : r[i] = q[(n - i) + 1]
  BY <1>0, Members DEF Reverse
<1>2. \A i \in 1 .. n : (n - i) + 1 \in 1 .. n /\ (n - ((n - i) + 1)) + 1 = i
  BY <1>0
<1> HIDE DEF n, r
<1>3. r \in Queue(T)
  <2>1. ASSUME NEW i \in 1 .. n, NEW j \in 1 .. n, r[i] = r[j] PROVE i = j
    <3>1. (n - i) + 1 = (n - j) + 1
      BY <1>0, <1>1, <1>2, <2>1
    <3> QED BY <1>0, <3>1
  <2> QED BY <1>1, <2>1, QueuePlaces
<1>4. ToSet(r) = ToSet(q)
  <2>1. ASSUME NEW x \in ToSet(r) PROVE x \in ToSet(q)
    <3>1. PICK i \in 1 .. n : r[i] = x
      BY <1>1, Members
    <3>2. q[(n - i) + 1] = x /\ (n - i) + 1 \in 1 .. n
      BY <1>1, <1>2, <3>1
    <3> QED BY <1>0, <3>2, Members DEF n
  <2>2. ASSUME NEW x \in ToSet(q) PROVE x \in ToSet(r)
    <3>1. PICK i \in 1 .. n : q[i] = x
      BY <1>0, Members DEF n
    <3>2. (n - i) + 1 \in 1 .. n /\ r[(n - i) + 1] = x
      BY <1>1, <1>2, <3>1
    <3> QED BY <1>1, <3>2, Members
  <2> QED BY <2>1, <2>2
<1> QED
  BY <1>3, <1>4 DEF r

\* Among keeps a queue a queue, and exactly the members asked for.
LEMMA QueueAmong ==
  ASSUME NEW T, NEW q \in Queue(T), NEW S
  PROVE  Among(q, S) \in Queue(T) /\ ToSet(Among(q, S)) = ToSet(q) \cap S
<1> DEFINE Z == {s \in Seq(T) : s \in Queue(T) =>
                   Among(s, S) \in Queue(T) /\ ToSet(Among(s, S)) = ToSet(s) \cap S}
<1>1. <<>> \in Z
  BY QueueEmpty, AmongEmpty, EmptySeq
<1>2. ASSUME NEW s \in Seq(T), NEW x \in T, s \in Z PROVE Append(s, x) \in Z
  <2> DEFINE a == Append(s, x)
  <2>1. /\ a \in Seq(T) /\ Len(a) = Len(s) + 1 /\ Len(s) \in Nat
        /\ \A i \in 1 .. Len(s) : a[i] = s[i] /\ i \in 1 .. Len(a)
        /\ a[Len(s) + 1] = x
    BY AppendProperties, LenProperties
  <2> SUFFICES ASSUME a \in Queue(T)
               PROVE  Among(a, S) \in Queue(T) /\ ToSet(Among(a, S)) = ToSet(a) \cap S
    BY <2>1
  <2>2. \A i, j \in 1 .. Len(a) : a[i] = a[j] => i = j
    BY QueuePlaces
  <2>3. s \in Queue(T)
    BY <2>1, <2>2, QueuePlaces
  <2>4. x \notin ToSet(s)
    <3> SUFFICES ASSUME x \in ToSet(s) PROVE FALSE
      OBVIOUS
    <3>1. PICK i \in 1 .. Len(s) : s[i] = x
      BY Members
    <3>2. i = Len(s) + 1
      BY <2>1, <2>2, <3>1
    <3> QED BY <2>1, <3>2
  <2>5. ToSet(a) = ToSet(s) \cup {x}
    BY <2>3, <2>4, QueueAppend
  <2>6. Among(s, S) \in Queue(T) /\ ToSet(Among(s, S)) = ToSet(s) \cap S
    BY <1>2, <2>3
  <2>7. Among(a, S) = IF x \in S THEN Append(Among(s, S), x) ELSE Among(s, S)
    BY AmongAppend
  <2> HIDE DEF a
  <2>8. CASE x \in S
    <3>1. /\ Append(Among(s, S), x) \in Queue(T)
          /\ ToSet(Append(Among(s, S), x)) = ToSet(Among(s, S)) \cup {x}
      BY <2>4, <2>6, QueueAppend
    <3> QED BY <2>5, <2>6, <2>7, <2>8, <3>1
  <2>9. CASE x \notin S
    BY <2>5, <2>6, <2>7, <2>9
  <2> QED BY <2>8, <2>9
<1>3. \A s \in Seq(T) : s \in Z
  <2> HIDE DEF Z
  <2> QED BY <1>1, <1>2, SequenceInduction
<1>4. q \in Seq(T)
  BY DEF Queue
<1> QED
  BY <1>3, <1>4

\* How often a queue holds a member.
LEMMA QueueCount ==
  ASSUME NEW T, NEW q \in Queue(T), NEW x
  PROVE  Cardinality({i \in 1 .. Len(q) : q[i] = x}) = IF x \in ToSet(q) THEN 1 ELSE 0
<1> DEFINE at == {i \in 1 .. Len(q) : q[i] = x}
<1>0. q \in Seq(T) /\ \A i, j \in 1 .. Len(q) : q[i] = q[j] => i = j
  BY QueuePlaces
<1>1. CASE x \in ToSet(q)
  <2>1. PICK i \in 1 .. Len(q) : q[i] = x
    BY <1>0, <1>1, Members
  <2>2. at = {i}
    BY <1>0, <2>1
  <2> QED BY <1>1, <2>2, FS_Singleton
<1>2. CASE x \notin ToSet(q)
  <2>1. at = {}
    BY <1>0, <1>2, Members
  <2> QED BY <1>2, <2>1, FS_EmptySet
<1> QED
  BY <1>1, <1>2

\* SetToSeq lists every member of a finite set once.
LEMMA QueueOfSet ==
  ASSUME NEW S, IsFiniteSet(S)
  PROVE  SetToSeq(S) \in Queue(S) /\ ToSet(SetToSeq(S)) = S
         /\ Len(SetToSeq(S)) = Cardinality(S)
<1> DEFINE n == Cardinality(S)
           q == SetToSeq(S)
<1>1. n \in Nat /\ ExistsBijection(1 .. n, S)
  BY FS_CardinalityType
<1>2. PICK f : f \in [1 .. n -> S] /\ IsInjective(f) /\ \A x \in S : \E i \in 1 .. n : f[i] = x
  BY <1>1 DEF ExistsBijection, Bijection, Injection, Surjection
<1>3. q \in [1 .. n -> S] /\ IsInjective(q)
  BY <1>2 DEF SetToSeq
<1>4. q \in Seq(S) /\ Len(q) = n
  BY <1>1, <1>3
<1>5. q \in Queue(S)
  BY <1>3, <1>4 DEF Queue
<1>6. ToSet(q) = S
  <2>1. q \in Injection(1 .. n, S)
    BY <1>3 DEF Injection
  <2>2. IsFiniteSet(1 .. n) /\ Cardinality(1 .. n) = n
    BY <1>1, FS_Interval
  <2>3. q \in Surjection(1 .. n, S)
    BY <2>1, <2>2, FS_Injection
  <2>4. \A x \in S : \E i \in 1 .. n : q[i] = x
    BY <2>3 DEF Surjection
  <2>5. ToSet(q) \in SUBSET S
    BY <1>4, Members
  <2>6. \A x \in S : x \in ToSet(q)
    BY <1>4, <2>4, Members
  <2> QED BY <2>5, <2>6
<1> QED
  BY <1>4, <1>5, <1>6
-----------------------------------------------------------------------------
(* Among, of any sequence.                                                 *)

\* The members of a sequence that is longer by one.
LEMMA MembersAppend ==
  ASSUME NEW T, NEW q \in Seq(T), NEW x \in T
  PROVE  Append(q, x) \in Seq(T) /\ ToSet(Append(q, x)) = ToSet(q) \cup {x}
<1> DEFINE a == Append(q, x)
<1>1. /\ a \in Seq(T) /\ Len(a) = Len(q) + 1 /\ Len(q) \in Nat
      /\ \A i \in 1 .. Len(q) : a[i] = q[i] /\ i \in 1 .. Len(a)
      /\ a[Len(q) + 1] = x /\ Len(q) + 1 \in 1 .. Len(a)
  BY AppendProperties, LenProperties
<1>2. \A i \in 1 .. Len(a) : i \in 1 .. Len(q) \/ i = Len(q) + 1
  BY <1>1
<1> HIDE DEF a
<1>3. ASSUME NEW y \in ToSet(a) PROVE y \in ToSet(q) \cup {x}
  <2>1. PICK i \in 1 .. Len(a) : a[i] = y
    BY <1>1, Members
  <2>2. \A j \in 1 .. Len(q) : q[j] \in ToSet(q)
    BY Members
  <2> QED BY <1>1, <1>2, <2>1, <2>2
<1>4. ASSUME NEW y \in ToSet(q) PROVE y \in ToSet(a)
  <2>1. PICK i \in 1 .. Len(q) : q[i] = y
    BY Members
  <2>2. \A j \in 1 .. Len(a) : a[j] \in ToSet(a)
    BY <1>1, Members
  <2> QED BY <1>1, <2>1, <2>2
<1>5. x \in ToSet(a)
  <2>2. \A j \in 1 .. Len(a) : a[j] \in ToSet(a)
    BY <1>1, Members
  <2> QED BY <1>1, <2>2
<1>6. ToSet(a) = ToSet(q) \cup {x}
  BY <1>3, <1>4, <1>5
<1> QED
  BY <1>1, <1>6 DEF a

\* What Among returns is a sequence of members that were asked for.
LEMMA AmongMembers ==
  ASSUME NEW T, NEW q \in Seq(T), NEW S
  PROVE  Among(q, S) \in Seq(T) /\ ToSet(Among(q, S)) = ToSet(q) \cap S
<1> DEFINE Z == {s \in Seq(T) : /\ Among(s, S) \in Seq(T)
                                /\ ToSet(Among(s, S)) = ToSet(s) \cap S}
<1>1. <<>> \in Z
  BY QueueEmpty, AmongEmpty, EmptySeq
<1>2. ASSUME NEW s \in Seq(T), NEW x \in T, s \in Z PROVE Append(s, x) \in Z
  <2>1. Append(s, x) \in Seq(T) /\ ToSet(Append(s, x)) = ToSet(s) \cup {x}
    BY MembersAppend
  <2>2. Among(s, S) \in Seq(T) /\ ToSet(Among(s, S)) = ToSet(s) \cap S
    BY <1>2
  <2>3. /\ Append(Among(s, S), x) \in Seq(T)
        /\ ToSet(Append(Among(s, S), x)) = ToSet(Among(s, S)) \cup {x}
    BY <2>2, MembersAppend
  <2>4. Among(Append(s, x), S) = IF x \in S THEN Append(Among(s, S), x) ELSE Among(s, S)
    BY AmongAppend
  <2>5. CASE x \in S
    BY <2>1, <2>2, <2>3, <2>4, <2>5, Zenon
  <2>6. CASE x \notin S
    BY <2>1, <2>2, <2>4, <2>6
  <2> QED BY <2>5, <2>6
<1>3. \A s \in Seq(T) : s \in Z
  <2> HIDE DEF Z
  <2> QED BY <1>1, <1>2, SequenceInduction
<1> QED
  BY <1>3

\* It depends on nothing but which members of the sequence are asked for.
LEMMA AmongSame ==
  ASSUME NEW T, NEW q \in Seq(T), NEW A, NEW B, ToSet(q) \cap A = ToSet(q) \cap B
  PROVE  Among(q, A) = Among(q, B)
<1> DEFINE Z == {s \in Seq(T) : ToSet(s) \cap A = ToSet(s) \cap B
                                  => Among(s, A) = Among(s, B)}
<1>1. <<>> \in Z
  BY AmongEmpty, EmptySeq
<1>2. ASSUME NEW s \in Seq(T), NEW x \in T, s \in Z PROVE Append(s, x) \in Z
  <2>1. Append(s, x) \in Seq(T) /\ ToSet(Append(s, x)) = ToSet(s) \cup {x}
    BY MembersAppend
  <2>2. /\ Among(Append(s, x), A) = IF x \in A THEN Append(Among(s, A), x) ELSE Among(s, A)
        /\ Among(Append(s, x), B) = IF x \in B THEN Append(Among(s, B), x) ELSE Among(s, B)
    BY AmongAppend
  <2>3. ASSUME ToSet(Append(s, x)) \cap A = ToSet(Append(s, x)) \cap B
        PROVE  Among(Append(s, x), A) = Among(Append(s, x), B)
    <3>1. ToSet(s) \cap A = ToSet(s) \cap B /\ (x \in A <=> x \in B)
      BY <2>1, <2>3
    <3>2. Among(s, A) = Among(s, B)
      BY <1>2, <3>1
    <3> QED BY <2>2, <3>1, <3>2
  <2> QED BY <2>1, <2>3
<1>3. \A s \in Seq(T) : s \in Z
  <2> HIDE DEF Z
  <2> QED BY <1>1, <1>2, SequenceInduction
<1> QED
  BY <1>3

\* All members are among themselves.
LEMMA AmongAll ==
  ASSUME NEW T, NEW q \in Seq(T), NEW S, ToSet(q) \subseteq S
  PROVE  Among(q, S) = q
<1> DEFINE Z == {s \in Seq(T) : Among(s, T) = s}
<1>1. <<>> \in Z
  BY AmongEmpty, EmptySeq
<1>2. ASSUME NEW s \in Seq(T), NEW x \in T, s \in Z PROVE Append(s, x) \in Z
  BY <1>2, AmongAppend, MembersAppend
<1>3. \A s \in Seq(T) : s \in Z
  <2> HIDE DEF Z
  <2> QED BY <1>1, <1>2, SequenceInduction
<1>4. ToSet(q) \subseteq T
  BY Members
<1>5. Among(q, S) = Among(q, T)
  <2>1. ToSet(q) \cap S = ToSet(q) \cap T
    BY <1>4
  <2> QED BY <2>1, AmongSame
<1> QED
  BY <1>3, <1>5

\* Among a set that names no member there is none.
LEMMA AmongNone ==
  ASSUME NEW T, NEW q \in Seq(T), NEW S, ToSet(q) \cap S = {}
  PROVE  Among(q, S) = <<>>
<1> DEFINE Z == {s \in Seq(T) : Among(s, {}) = <<>>}
<1>1. <<>> \in Z
  BY AmongEmpty, EmptySeq
<1>2. ASSUME NEW s \in Seq(T), NEW x \in T, s \in Z PROVE Append(s, x) \in Z
  <2>1. Among(Append(s, x), {}) = IF x \in {} THEN Append(Among(s, {}), x) ELSE Among(s, {})
    BY AmongAppend
  <2> QED BY <1>2, <2>1, MembersAppend
<1>3. \A s \in Seq(T) : s \in Z
  <2> HIDE DEF Z
  <2> QED BY <1>1, <1>2, SequenceInduction
<1>4. Among(q, S) = Among(q, {})
  <2>1. ToSet(q) \cap S = ToSet(q) \cap {}
    OBVIOUS
  <2> QED BY <2>1, AmongSame
<1> QED
  BY <1>3, <1>4

\* Asking twice is asking for what both sets name.
LEMMA AmongTwice ==
  ASSUME NEW T, NEW q \in Seq(T), NEW A, NEW B
  PROVE  Among(Among(q, A), B) = Among(q, A \cap B)
<1> DEFINE Z == {s \in Seq(T) : Among(Among(s, A), B) = Among(s, A \cap B)}
<1>1. <<>> \in Z
  BY AmongEmpty, EmptySeq
<1>2. ASSUME NEW s \in Seq(T), NEW x \in T, s \in Z PROVE Append(s, x) \in Z
  <2> DEFINE sa == Among(s, A)
             a == Append(s, x)
  <2>1. a \in Seq(T)
    BY MembersAppend
  <2>2. /\ Among(a, A) = IF x \in A THEN Append(sa, x) ELSE sa
        /\ Among(a, A \cap B) = IF x \in A \cap B THEN Append(Among(s, A \cap B), x)
                                                  ELSE Among(s, A \cap B)
    BY AmongAppend
  <2>3. sa \in Seq(T)
    BY AmongMembers
  <2>4. Among(Append(sa, x), B) = IF x \in B THEN Append(Among(sa, B), x) ELSE Among(sa, B)
    BY <2>3, AmongAppend
  <2>5. Among(sa, B) = Among(s, A \cap B)
    BY <1>2
  <2> HIDE DEF a, sa
  <2>6. Among(Among(a, A), B) = Among(a, A \cap B)
    <3>1. CASE x \in A \cap B
      BY <2>2, <2>4, <2>5, <3>1
    <3>2. CASE x \in A /\ x \notin B
      BY <2>2, <2>4, <2>5, <3>2
    <3>3. CASE x \notin A
      BY <2>2, <2>5, <3>3
    <3> QED BY <3>1, <3>2, <3>3
  <2> QED BY <2>1, <2>6 DEF a
<1>3. \A s \in Seq(T) : s \in Z
  <2> HIDE DEF Z
  <2> QED BY <1>1, <1>2, SequenceInduction
<1> QED
  BY <1>3

\* One sequence behind another.
LEMMA AmongConcat ==
  ASSUME NEW T, NEW a \in Seq(T), NEW b \in Seq(T), NEW S
  PROVE  Among(a \o b, S) = Among(a, S) \o Among(b, S)
<1> DEFINE Z == {s \in Seq(T) : Among(a \o s, S) = Among(a, S) \o Among(s, S)}
<1>0. Among(a, S) \in Seq(T)
  BY AmongMembers
<1>1. <<>> \in Z
  <2>1. a \o <<>> = a /\ Among(a, S) \o <<>> = Among(a, S)
    BY <1>0, ConcatEmptySeq
  <2>2. Among(<<>>, S) = <<>>
    BY AmongEmpty
  <2> QED BY <2>1, <2>2, EmptySeq
<1>2. ASSUME NEW s \in Seq(T), NEW x \in T, s \in Z PROVE Append(s, x) \in Z
  <2>1. Append(s, x) \in Seq(T) /\ a \o s \in Seq(T) /\ Among(s, S) \in Seq(T)
    BY MembersAppend, AmongMembers, ConcatProperties
  <2>2. a \o Append(s, x) = Append(a \o s, x)
    <3>1. a \o (s \o <<x>>) = (a \o s) \o <<x>>
      BY ConcatAssociative
    <3> QED BY <2>1, <3>1, AppendIsConcat
  <2>3. Among(a, S) \o Append(Among(s, S), x) = Append(Among(a, S) \o Among(s, S), x)
    <3>1. Among(a, S) \o Among(s, S) \in Seq(T)
      BY <1>0, <2>1, ConcatProperties
    <3>2. Among(a, S) \o (Among(s, S) \o <<x>>) = (Among(a, S) \o Among(s, S)) \o <<x>>
      BY <1>0, <2>1, ConcatAssociative
    <3> QED BY <2>1, <3>1, <3>2, AppendIsConcat
  <2>4. Among(Append(a \o s, x), S) = IF x \in S THEN Append(Among(a \o s, S), x)
                                                 ELSE Among(a \o s, S)
    <3> DEFINE c == a \o s
    <3>1. c \in Seq(T)
      BY <2>1
    <3> HIDE DEF c
    <3>2. Among(Append(c, x), S) = IF x \in S THEN Append(Among(c, S), x) ELSE Among(c, S)
      BY <3>1, AmongAppend
    <3> QED BY <3>2 DEF c
  <2>5. Among(Append(s, x), S) = IF x \in S THEN Append(Among(s, S), x) ELSE Among(s, S)
    BY AmongAppend
  <2>6. Among(a \o s, S) = Among(a, S) \o Among(s, S)
    BY <1>2
  <2>7. Among(a \o Append(s, x), S) = Among(a, S) \o Among(Append(s, x), S)
    BY <2>2, <2>3, <2>4, <2>5, <2>6, Zenon
  <2> QED BY <2>1, <2>7
<1>3. \A s \in Seq(T) : s \in Z
  <2> HIDE DEF Z
  <2> QED BY <1>1, <1>2, SequenceInduction
<1> QED
  BY <1>3

\* The first member stays first as long as it is asked for.
LEMMA AmongHead ==
  ASSUME NEW T, NEW q \in Seq(T), NEW S, q # <<>>, Head(q) \in S
  PROVE  Among(q, S) # <<>> /\ Head(Among(q, S)) = Head(q)
<1> DEFINE one == <<Head(q)>>
<1>1. q = one \o Tail(q) /\ Head(q) \in T /\ Tail(q) \in Seq(T) /\ one \in Seq(T)
  OBVIOUS
<1>2. Among(q, S) = Among(one, S) \o Among(Tail(q), S)
  <2>1. Among(one \o Tail(q), S) = Among(one, S) \o Among(Tail(q), S)
    <3> DEFINE rest == Tail(q)
    <3>1. one \in Seq(T) /\ rest \in Seq(T)
      BY <1>1
    <3> HIDE DEF one, rest
    <3>2. Among(one \o rest, S) = Among(one, S) \o Among(rest, S)
      BY <3>1, AmongConcat
    <3> QED BY <3>2 DEF rest
  <2> QED BY <1>1, <2>1, Zenon
<1>3. Among(one, S) = one
  <2>1. ToSet(one) = {Head(q)}
    BY <1>1, QueueOne
  <2>2. ToSet(one) \subseteq S
    BY <2>1
  <2> HIDE DEF one
  <2> QED BY <1>1, <2>2, AmongAll
<1>4. Among(Tail(q), S) \in Seq(T)
  BY <1>1, AmongMembers
<1>5. one \o Among(Tail(q), S) # <<>> /\ Head(one \o Among(Tail(q), S)) = Head(q)
  BY <1>1, <1>4
<1> QED
  BY <1>2, <1>3, <1>5
-----------------------------------------------------------------------------
(* Queues in two parts.                                                    *)

\* A sequence holds what is in the set of its members.
LEMMA ContainsMember ==
  ASSUME NEW T, NEW q \in Seq(T), NEW x
  PROVE  Contains(q, x) <=> x \in ToSet(q)
<1>1. \A i \in 1 .. Len(q) : q[i] \in ToSet(q)
  BY Members
<1>2. \A y \in ToSet(q) : \E i \in 1 .. Len(q) : q[i] = y
  BY Members
<1> QED
  BY <1>1, <1>2 DEF Contains

\* A queue cut in two: its first n members and the others.
LEMMA QueueSplit ==
  ASSUME NEW T, NEW q \in Queue(T), NEW n \in 0 .. Len(q)
  PROVE  /\ SubSeq(q, 1, n) \in Queue(T) /\ SubSeq(q, n + 1, Len(q)) \in Queue(T)
         /\ Len(SubSeq(q, 1, n)) = n
         /\ q = SubSeq(q, 1, n) \o SubSeq(q, n + 1, Len(q))
         /\ ToSet(SubSeq(q, 1, n)) \cap ToSet(SubSeq(q, n + 1, Len(q))) = {}
         /\ ToSet(SubSeq(q, 1, n)) \cup ToSet(SubSeq(q, n + 1, Len(q))) = ToSet(q)
<1> DEFINE len == Len(q)
           a == SubSeq(q, 1, n)
           b == SubSeq(q, n + 1, len)
<1>0. /\ q \in Seq(T) /\ len \in Nat /\ n \in 0 .. len
      /\ \A i, j \in 1 .. len : q[i] = q[j] => i = j
  BY QueuePlaces, Members
<1>1. a \in Seq(T) /\ Len(a) = n /\ \A i \in 1 .. n : a[i] = q[i]
  BY <1>0, Members
<1>2. b \in Seq(T) /\ Len(b) = len - n /\ \A i \in 1 .. len - n : b[i] = q[n + i]
  BY <1>0, Members
<1>3. /\ \A i \in 1 .. n : i \in 1 .. len
      /\ \A i \in 1 .. len - n : n + i \in 1 .. len /\ n + i \notin 1 .. n
      /\ \A i \in 1 .. len : i \notin 1 .. n => i - n \in 1 .. len - n /\ n + (i - n) = i
  BY <1>0
<1> HIDE DEF a, b, len
<1>4. a \in Queue(T)
  BY <1>0, <1>1, <1>3, QueuePlaces
<1>5. b \in Queue(T)
  <2>1. ASSUME NEW i \in 1 .. Len(b), NEW j \in 1 .. Len(b), b[i] = b[j] PROVE i = j
    <3>1. n + i = n + j
      BY <1>0, <1>2, <1>3, <2>1
    <3> QED BY <3>1
  <2> QED BY <1>2, <2>1, QueuePlaces
<1>6. q = a \o b
  <2>1. a \o b \in Seq(T) /\ Len(a \o b) = len
    <3>1. a \o b \in Seq(T) /\ Len(a \o b) = Len(a) + Len(b)
      BY <1>1, <1>2, ConcatProperties
    <3>2. n + (len - n) = len
      BY <1>0
    <3> QED BY <1>1, <1>2, <3>1, <3>2
  <2>2. ASSUME NEW i \in 1 .. len PROVE (a \o b)[i] = q[i]
    <3>1. (a \o b)[i] = IF i <= Len(a) THEN a[i] ELSE b[i - Len(a)]
      <4>1. i \in 1 .. Len(a) + Len(b)
        BY <1>0, <1>1, <1>2
      <4> QED BY <1>1, <1>2, <4>1, ConcatProperties
    <3>2. CASE i \in 1 .. n
      BY <1>0, <1>1, <3>1, <3>2
    <3>3. CASE i \notin 1 .. n
      <4>1. ~ (i <= n) /\ i - n \in 1 .. len - n /\ n + (i - n) = i
        BY <1>0, <3>3
      <4> QED BY <1>1, <1>2, <3>1, <4>1
    <3> QED BY <3>2, <3>3
  <2> QED BY <1>0, <2>1, <2>2, SeqEqual DEF len
<1>7. /\ \A x \in ToSet(a) : \E i \in 1 .. n : x = q[i]
      /\ \A x \in ToSet(b) : \E i \in 1 .. len - n : x = q[n + i]
  <2>1. \A x \in ToSet(a) : \E i \in 1 .. n : x = a[i]
    BY <1>1, Members
  <2>2. \A x \in ToSet(b) : \E i \in 1 .. len - n : x = b[i]
    BY <1>2, Members
  <2>3. \A x \in ToSet(a) : \E i \in 1 .. n : x = q[i]
    BY <1>1, <2>1
  <2>4. \A x \in ToSet(b) : \E i \in 1 .. len - n : x = q[n + i]
    BY <1>2, <2>2
  <2> QED BY <2>3, <2>4
<1>8. ToSet(a) \cap ToSet(b) = {}
  <2> SUFFICES ASSUME NEW x \in ToSet(a), x \in ToSet(b) PROVE FALSE
    OBVIOUS
  <2>1. PICK i \in 1 .. n : x = q[i]
    BY <1>7
  <2>2. PICK j \in 1 .. len - n : x = q[n + j]
    BY <1>7
  <2>3. i = n + j
    BY <1>0, <1>3, <2>1, <2>2
  <2> QED BY <1>3, <2>3
<1>9. ToSet(a \o b) = ToSet(a) \cup ToSet(b)
  BY <1>4, <1>5, <1>8, QueueConcat
<1> QED
  BY <1>1, <1>4, <1>5, <1>6, <1>8, <1>9 DEF a, b, len

\* What is put behind a sequence leaves it a prefix.
LEMMA PrefixConcat ==
  ASSUME NEW T, NEW a \in Seq(T), NEW b \in Seq(T)
  PROVE  IsPrefix(a, a) /\ IsPrefix(a, a \o b)
<1>0. Len(a) \in Nat /\ Len(b) \in Nat
  BY LenProperties
<1>1. a \o b \in Seq(T) /\ Len(a \o b) = Len(a) + Len(b) /\ \A i \in 1 .. Len(a) : (a \o b)[i] = a[i]
  BY <1>0, ConcatProperties
<1>2. SubSeq(a \o b, 1, Len(a)) = SubSeq(a, 1, Len(a))
  BY <1>0, <1>1
<1> QED
  BY <1>0, <1>1, <1>2 DEF IsPrefix

\* The members of two sequences, one behind the other.
LEMMA MembersConcat ==
  ASSUME NEW T, NEW a \in Seq(T), NEW b \in Seq(T)
  PROVE  (a \o b) \in Seq(T) /\ ToSet(a \o b) = ToSet(a) \cup ToSet(b)
<1> DEFINE c == a \o b
<1>1. /\ c \in Seq(T) /\ Len(a) \in Nat /\ Len(b) \in Nat /\ Len(c) = Len(a) + Len(b)
      /\ \A i \in 1 .. Len(c) : c[i] = IF i <= Len(a) THEN a[i] ELSE b[i - Len(a)]
  BY ConcatProperties, LenProperties
<1> HIDE DEF c
<1>2. ASSUME NEW x \in ToSet(c) PROVE x \in ToSet(a) \cup ToSet(b)
  <2>1. PICK i \in 1 .. Len(c) : c[i] = x
    BY <1>1, Members
  <2>2. CASE i <= Len(a)
    <3>1. i \in 1 .. Len(a) /\ a[i] = x
      BY <1>1, <2>1, <2>2
    <3> QED BY <3>1, Members
  <2>3. CASE ~(i <= Len(a))
    <3>1. i - Len(a) \in 1 .. Len(b) /\ b[i - Len(a)] = x
      BY <1>1, <2>1, <2>3
    <3> QED BY <3>1, Members
  <2> QED BY <2>2, <2>3
<1>3. ASSUME NEW x \in ToSet(a) PROVE x \in ToSet(c)
  <2>1. PICK i \in 1 .. Len(a) : a[i] = x
    BY Members
  <2>2. i \in 1 .. Len(c) /\ c[i] = x
    BY <1>1, <2>1
  <2> QED BY <1>1, <2>2, Members
<1>4. ASSUME NEW x \in ToSet(b) PROVE x \in ToSet(c)
  <2>1. PICK i \in 1 .. Len(b) : b[i] = x
    BY Members
  <2> DEFINE j == i + Len(a)
  <2>2. j \in 1 .. Len(c) /\ c[j] = x
    <3>1. j \in 1 .. Len(c) /\ ~(j <= Len(a)) /\ j - Len(a) = i
      BY <1>1, <2>1
    <3> HIDE DEF j
    <3>2. c[j] = b[j - Len(a)]
      BY <1>1, <3>1
    <3> QED BY <2>1, <3>1, <3>2
  <2> QED BY <1>1, <2>2, Members
<1>5. ToSet(c) = ToSet(a) \cup ToSet(b)
  BY <1>2, <1>3, <1>4
<1> QED
  BY <1>1, <1>5 DEF c

\* A queue is as long as it has members.
LEMMA QueueSize ==
  ASSUME NEW T, NEW q \in Queue(T)
  PROVE  IsFiniteSet(ToSet(q)) /\ Cardinality(ToSet(q)) = Len(q)
<1> DEFINE n == Len(q)
<1>0. /\ q \in Seq(T) /\ n \in Nat /\ \A i, j \in 1 .. n : q[i] = q[j] => i = j
      /\ \A i \in 1 .. n : q[i] \in ToSet(q)
      /\ \A x \in ToSet(q) : \E i \in 1 .. n : q[i] = x
  BY QueuePlaces, Members
<1> HIDE DEF n
<1>1. q \in [1 .. n -> ToSet(q)]
  <2>1. q = [i \in 1 .. n |-> q[i]]
    BY <1>0 DEF n
  <2> QED BY <1>0, <2>1
<1>2. q \in Injection(1 .. n, ToSet(q)) /\ q \in Surjection(1 .. n, ToSet(q))
  BY <1>0, <1>1 DEF Injection, Surjection, IsInjective
<1>3. IsFiniteSet(1 .. n) /\ Cardinality(1 .. n) = n
  BY <1>0, FS_Interval
<1> QED
  BY <1>2, <1>3, FS_Bijection DEF Bijection, ExistsBijection, n

\* Dropping members makes a sequence shorter, if there are any to drop.
LEMMA AmongSize ==
  ASSUME NEW T, NEW q \in Seq(T), NEW S
  PROVE  /\ Len(Among(q, S)) \in Nat /\ Len(Among(q, S)) <= Len(q)
         /\ ~(ToSet(q) \subseteq S) => Len(Among(q, S)) + 1 <= Len(q)
<1> DEFINE Z == {s \in Seq(T) : /\ Len(Among(s, S)) \in Nat /\ Len(Among(s, S)) <= Len(s)
                                /\ ~(ToSet(s) \subseteq S) => Len(Among(s, S)) + 1 <= Len(s)}
<1>1. <<>> \in Z
  <2>1. <<>> \in Seq(T) /\ Len(<<>>) = 0 /\ ToSet(<<>>) = {}
    BY EmptySeq, QueueEmpty
  <2> QED BY <2>1, AmongEmpty
<1>2. ASSUME NEW s \in Seq(T), NEW x \in T, s \in Z PROVE Append(s, x) \in Z
  <2> DEFINE a == Append(s, x)
             old == Among(s, S)
             new == Among(a, S)
  <2>1. a \in Seq(T) /\ ToSet(a) = ToSet(s) \cup {x} /\ Len(a) = Len(s) + 1 /\ Len(s) \in Nat
    BY MembersAppend, AppendProperties, LenProperties
  <2>2. old \in Seq(T)
    BY AmongMembers
  <2>3. new = IF x \in S THEN Append(old, x) ELSE old
    BY AmongAppend
  <2>4. Len(old) \in Nat /\ Len(Append(old, x)) = Len(old) + 1
    BY <2>2, AppendProperties, LenProperties
  <2>5. Len(old) <= Len(s) /\ (~(ToSet(s) \subseteq S) => Len(old) + 1 <= Len(s))
    BY <1>2
  <2> HIDE DEF a, old, new
  <2>6. CASE x \in S
    <3>1. Len(new) = Len(old) + 1
      BY <2>3, <2>4, <2>6
    <3>2. ToSet(a) \subseteq S <=> ToSet(s) \subseteq S
      BY <2>1, <2>6
    <3> QED BY <2>1, <2>4, <2>5, <3>1, <3>2 DEF a, new
  <2>7. CASE x \notin S
    <3>1. new = old
      BY <2>3, <2>7
    <3> QED BY <2>1, <2>4, <2>5, <3>1 DEF a, new
  <2> QED BY <2>6, <2>7
<1>3. \A s \in Seq(T) : s \in Z
  <2> HIDE DEF Z
  <2> QED BY <1>1, <1>2, SequenceInduction
<1> QED
  BY <1>3

\* One of finitely many numbers is the greatest.
LEMMA GreatestOf ==
  ASSUME NEW S, IsFiniteSet(S), S # {}, NEW f \in [S -> Int]
  PROVE  \E x \in S : \A y \in S : f[y] <= f[x]
<1> DEFINE Z == {R \in SUBSET S : R # {} => \E x \in R : \A y \in R : f[y] <= f[x]}
<1>1. {} \in Z
  OBVIOUS
<1>2. ASSUME NEW R \in SUBSET S, R \in Z, NEW z \in S PROVE R \cup {z} \in Z
  <2>1. CASE R = {}
    <3>1. \A y \in R \cup {z} : y = z
      BY <2>1
    <3>2. f[z] \in Int
      OBVIOUS
    <3> QED BY <3>1, <3>2
  <2>2. CASE R # {}
    <3>1. PICK x \in R : \A y \in R : f[y] <= f[x]
      BY <1>2, <2>2
    <3>2. \A y \in S : f[y] \in Int
      OBVIOUS
    <3>3. CASE f[z] <= f[x]
      <4>1. x \in R \cup {z} /\ \A y \in R \cup {z} : f[y] <= f[x]
        BY <3>1, <3>3
      <4> QED BY <4>1
    <3>4. CASE ~(f[z] <= f[x])
      <4>1. \A y \in R \cup {z} : f[y] <= f[z]
        BY <3>1, <3>2, <3>4
      <4> QED BY <4>1
    <3> QED BY <3>3, <3>4
  <2> QED BY <2>1, <2>2
<1>3. S \in Z
  <2> HIDE DEF Z
  <2> QED BY <1>1, <1>2, SubsetInduction
<1> QED
  BY <1>3

\* One of finitely many numbers is the least.
LEMMA SmallestOf ==
  ASSUME NEW S, IsFiniteSet(S), S # {}, NEW f \in [S -> Int]
  PROVE  \E x \in S : \A y \in S : f[x] <= f[y]
<1> DEFINE g == [x \in S |-> -f[x]]
<1>1. g \in [S -> Int] /\ \A x \in S : g[x] = -f[x] /\ f[x] \in Int
  OBVIOUS
<1> HIDE DEF g
<1>2. PICK x \in S : \A y \in S : g[y] <= g[x]
  BY <1>1, GreatestOf
<1> QED
  BY <1>1, <1>2

\* The members of a sequence, last to first.
LEMMA MembersReverse ==
  ASSUME NEW T, NEW q \in Seq(T)
  PROVE  Reverse(q) \in Seq(T) /\ ToSet(Reverse(q)) = ToSet(q)
<1> DEFINE n == Len(q)
           p == Reverse(q)
<1>1. n \in Nat /\ \A i \in 1 .. n : q[i] \in T
  BY LenProperties
<1>2. p = [j \in 1 .. n |-> q[(n - j) + 1]]
  BY DEF Reverse
<1>3. DOMAIN q = 1 .. n
  BY LenProperties
<1> HIDE DEF n, p
<1>4. \A j \in 1 .. n : (n - j) + 1 \in 1 .. n /\ p[j] = q[(n - j) + 1] /\ p[j] \in T
  BY <1>1, <1>2
<1>5. \A i \in 1 .. n : (n - i) + 1 \in 1 .. n /\ p[(n - i) + 1] = q[i]
  <2>1. ASSUME NEW i \in 1 .. n
        PROVE  (n - i) + 1 \in 1 .. n /\ p[(n - i) + 1] = q[i]
    <3> DEFINE j == (n - i) + 1
    <3>1. j \in 1 .. n /\ (n - j) + 1 = i
      BY <1>1
    <3> HIDE DEF j
    <3>2. p[j] = q[i]
      BY <1>4, <3>1
    <3> QED BY <3>1, <3>2 DEF j
  <2> QED BY <2>1
<1>6. p \in [1 .. n -> T] /\ DOMAIN p = 1 .. n
  BY <1>2, <1>4
<1>7. p \in Seq(T)
  BY <1>1, <1>6, SeqDef
<1>8. ToSet(p) = ToSet(q)
  BY <1>3, <1>4, <1>5, <1>6 DEF ToSet
<1> QED
  BY <1>7, <1>8 DEF p

\* Pairs of some things with places, at most one place each, are as many as the things
\* that have one.
LEMMA OneEach ==
  ASSUME NEW X, IsFiniteSet(X), NEW at,
         \A x \in X : \A i, j \in at[x] : i = j
  PROVE  Cardinality(UNION {{x} \X at[x] : x \in X}) = Cardinality({x \in X : at[x] # {}})
<1> DEFINE S == {x \in X : at[x] # {}}
           U == UNION {{x} \X at[x] : x \in X}
           f == [x \in S |-> <<x, CHOOSE i \in at[x] : TRUE>>]
<1>1. \A x \in S : f[x] \in U /\ f[x][1] = x
  OBVIOUS
<1>2. \A u \in U : u[1] \in S /\ f[u[1]] = u
  <2>1. ASSUME NEW u \in U PROVE u[1] \in S /\ f[u[1]] = u
    <3>1. PICK x \in X : u \in {x} \X at[x]
      OBVIOUS
    <3>2. PICK i \in at[x] : u = <<x, i>>
      BY <3>1
    <3>3. (CHOOSE j \in at[x] : TRUE) \in at[x]
      BY <3>2
    <3>4. (CHOOSE j \in at[x] : TRUE) = i
      BY <3>2, <3>3
    <3> QED BY <3>2, <3>4
  <2> QED BY <2>1
<1>3. IsFiniteSet(S)
  BY FS_Subset
<1>4. f \in [S -> U]
  BY <1>1
<1> HIDE DEF f, U, S
<1>5. f \in Bijection(S, U)
  <2>1. IsInjective(f)
    BY <1>1, <1>4 DEF IsInjective
  <2>2. \A u \in U : \E x \in S : f[x] = u
    BY <1>2
  <2> QED BY <1>4, <2>1, <2>2 DEF Bijection, Injection, Surjection
<1>6. Cardinality(U) = Cardinality(S)
  BY <1>3, <1>5, FS_Bijection DEF ExistsBijection
<1> QED
  BY <1>6 DEF U, S

\* One of the orders of a finite set is a queue of its members.
LEMMA QueueOfSeqs ==
  ASSUME NEW S, IsFiniteSet(S), NEW q \in SetToSeqs(S)
  PROVE  q \in Queue(S) /\ ToSet(q) = S
<1> DEFINE n == Cardinality(S)
<1>1. n \in Nat
  BY FS_CardinalityType
<1>2. q \in [1 .. n -> S] /\ \A i, j \in 1 .. n : i # j => q[i] # q[j]
  BY DEF SetToSeqs
<1> HIDE DEF n
<1>3. q \in Seq(S) /\ Len(q) = n
  BY <1>1, <1>2
<1>4. q \in Queue(S)
  BY <1>2, <1>3, QueuePlaces
<1>5. IsFiniteSet(ToSet(q)) /\ Cardinality(ToSet(q)) = n
  BY <1>3, <1>4, QueueSize
<1>6. ToSet(q) \subseteq S
  BY <1>3, Members
<1> QED
  BY <1>4, <1>5, <1>6, FS_Subset DEF n
==============================================================================
