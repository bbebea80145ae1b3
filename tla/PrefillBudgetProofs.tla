------------------------- MODULE PrefillBudgetProofs -------------------------
(***************************************************************************)
(* A prefill ends a chunk at every checkpoint on its way, and the budgets  *)
(* of a step are never overdrawn, for all prompts, budgets, block sizes    *)
(* and thresholds.                                                         *)
(***************************************************************************)
EXTENDS PrefillBudget, WellFoundedInduction, TLAPS

USE BudgetAssumption

-----------------------------------------------------------------------------
(* The aligned split.                                                      *)

\* The checkpoints of a request lie in its prompt.
LEMMA CheckpointsInPrompt ==
  ASSUME NEW r \in Req
  PROVE  /\ LastCheckpoint(r) \in Nat
         /\ Checkpoints(r) \subseteq 0 .. Prompt[r]
<1>1. Prompt[r] \in Nat /\ Prompt[r] % StateBlock \in Nat
  BY SMT
<1>2. LastCheckpoint(r) \in Nat /\ LastCheckpoint(r) <= Prompt[r]
  BY <1>1 DEF LastCheckpoint, Max2
<1>3. CoarseCheckpoints(r) \subseteq 1 .. LastCheckpoint(r)
  BY DEF CoarseCheckpoints
<1> QED
  BY <1>1, <1>2, <1>3 DEF Checkpoints

\* A set of numbers that is not empty has a smallest element.
LEMMA LeastOne ==
  ASSUME NEW S \in SUBSET Nat, S # {}
  PROVE  /\ (CHOOSE c \in S : \A d \in S : c <= d) \in S
         /\ \A d \in S : (CHOOSE c \in S : \A d2 \in S : c <= d2) <= d
<1> DEFINE less == {p \in Nat \X Nat : p[1] < p[2]}
<1>1. OpToRel(<, Nat) = less
  BY Zenon DEF OpToRel
<1>2. IsWellFoundedOn(less, Nat)
  BY <1>1, NatLessThanWellFounded, Zenon
<1>3. \E x \in S : \A y \in S : ~ (<<y, x>> \in less)
  <2> HIDE DEF less
  <2> QED BY <1>2, WFMin, Zenon
<1>4. ASSUME NEW x \in Nat, NEW y \in Nat, ~ (<<y, x>> \in less)
      PROVE  x <= y
  BY <1>4
<1>5. \E x \in S : \A y \in S : x <= y
  <2> HIDE DEF less
  <2> QED BY <1>3, <1>4
<1> QED
  BY <1>5

\* The split never asks for more than it was given, and no checkpoint lies
\* strictly inside the chunk that it leaves.
LEMMA SplitStops ==
  ASSUME NEW r \in Req, NEW m \in Nat, NEW n \in Nat, req[r].ntok \in Nat
  PROVE  /\ AlignedSplit(r, m, n) \in Nat
         /\ AlignedSplit(r, m, n) <= n
         /\ \A c \in Checkpoints(r) : ~ (m < c /\ c < m + AlignedSplit(r, m, n))
<1> DEFINE ahead == {c \in Checkpoints(r) : m < c /\ c < m + n}
           least == CHOOSE c \in ahead : \A d \in ahead : c <= d
<1>0. Checkpoints(r) \subseteq Nat /\ Prompt[r] \in Nat /\ LastCheckpoint(r) \in Nat
  BY CheckpointsInPrompt
<1>1. CASE m >= Max2(Prompt[r], req[r].ntok - 1)
  <2>1. m >= Prompt[r]
    BY <1>1, <1>0 DEF Max2
  <2>2. \A c \in Checkpoints(r) : c <= m
    BY <2>1, <1>0, CheckpointsInPrompt
  <2>3. AlignedSplit(r, m, n) = n
    BY <1>1 DEF AlignedSplit
  <2> QED
    BY <2>2, <2>3, <1>0
<1>2. CASE ~ (m >= Max2(Prompt[r], req[r].ntok - 1)) /\ ahead # {}
  <2>1. AlignedSplit(r, m, n) = least - m
    BY <1>2 DEF AlignedSplit
  <2>2. ahead \in SUBSET Nat
    BY <1>0
  <2>3. least \in ahead /\ \A d \in ahead : least <= d
    <3> HIDE DEF ahead
    <3> QED BY <1>2, <2>2, LeastOne
  <2>4. least \in Nat /\ m < least /\ least < m + n
    BY <2>3, <1>0
  <2> HIDE DEF least
  <2>5. \A c \in Checkpoints(r) : ~ (m < c /\ c < least)
    BY <2>3, <2>4, <1>0
  <2> QED
    BY <2>1, <2>4, <2>5, <1>0
<1>3. CASE ~ (m >= Max2(Prompt[r], req[r].ntok - 1)) /\ ahead = {}
  <2>1. \/ AlignedSplit(r, m, n) = n
        \/ AlignedSplit(r, m, n) = n - (n % StateBlock)
    BY <1>3 DEF AlignedSplit
  <2>2. n % StateBlock \in 0 .. n
    BY SMT
  <2>3. AlignedSplit(r, m, n) \in Nat /\ AlignedSplit(r, m, n) <= n
    BY <2>1, <2>2
  <2>4. \A c \in Checkpoints(r) : ~ (m < c /\ c < m + n)
    BY <1>3
  <2> QED
    BY <2>3, <2>4, <1>0
<1> QED
  BY <1>1, <1>2, <1>3

-----------------------------------------------------------------------------
(* Multiples of the state block size.                                      *)

Aligned(n) == n % StateBlock = 0

\* A number is aligned when it is a multiple.
LEMMA AlignedMultiple ==
  /\ \A k \in Nat : Aligned(k * StateBlock)
  /\ \A n \in Nat : Aligned(n) => \E k \in Nat : n = k * StateBlock
<1>1. \A k \in Nat : (k * StateBlock) % StateBlock = 0
  BY SMTT(20)
<1>2. ASSUME NEW n \in Nat, n % StateBlock = 0
      PROVE  \E k \in Nat : n = k * StateBlock
  <2>1. StateBlock \in Nat \ {0}
    OBVIOUS
  <2>2. n = (n \div StateBlock) * StateBlock /\ n \div StateBlock \in Nat
    BY <1>2, <2>1, SMTT(20)
  <2> QED BY <2>2
<1> QED
  BY <1>1, <1>2 DEF Aligned

\* Sums and differences of aligned numbers are aligned.
LEMMA AlignedSum ==
  ASSUME NEW a \in Nat, NEW b \in Nat, Aligned(a), Aligned(b)
  PROVE  /\ Aligned(a + b)
         /\ b <= a => Aligned(a - b)
<1>1. PICK i \in Nat : a = i * StateBlock
  BY AlignedMultiple
<1>2. PICK j \in Nat : b = j * StateBlock
  BY AlignedMultiple
<1>3. a + b = (i + j) * StateBlock /\ i + j \in Nat
  BY <1>1, <1>2, SMTT(20)
<1>4. ASSUME b <= a PROVE a - b = (i - j) * StateBlock /\ i - j \in Nat
  BY <1>1, <1>2, <1>4, SMTT(20)
<1> QED
  BY <1>3, <1>4, AlignedMultiple

\* Rounding down aligns.
LEMMA AlignedRound ==
  ASSUME NEW n \in Nat
  PROVE  n - (n % StateBlock) \in Nat /\ Aligned(n - (n % StateBlock))
<1>1. n = StateBlock * (n \div StateBlock) + (n % StateBlock) /\ n \div StateBlock \in Nat
  BY SMTT(20)
<1>2. n % StateBlock \in Nat
  BY SMT
<1>3. n - (n % StateBlock) = (n \div StateBlock) * StateBlock
  <2> DEFINE q == n \div StateBlock
             m == n % StateBlock
  <2>1. n = StateBlock * q + m /\ q \in Nat /\ m \in Nat
    BY <1>1, <1>2
  <2> HIDE DEF q, m
  <2>2. n - m = q * StateBlock
    BY <2>1, SMTT(20)
  <2> QED BY <2>2 DEF q, m
<1>4. (n \div StateBlock) * StateBlock \in Nat
  BY <1>1
<1> QED
  BY <1>1, <1>3, <1>4, AlignedMultiple

\* The checkpoints are aligned.
LEMMA CheckpointsAligned ==
  ASSUME NEW r \in Req, NEW c \in Checkpoints(r)
  PROVE  Aligned(c)
<1> DEFINE p == Prompt[r] - (Prompt[r] % StateBlock)
<1>1. p \in Nat /\ Aligned(p)
  BY AlignedRound
<1>2. Aligned(StateBlock) /\ Aligned(0)
  <2>1. StateBlock % StateBlock = 0 /\ 0 % StateBlock = 0
    BY SMTT(20)
  <2> QED BY <2>1 DEF Aligned
<1>3. Aligned(LastCheckpoint(r))
  <2> HIDE DEF p
  <2>1. LastCheckpoint(r) = Max2(p - StateBlock, 0)
    BY DEF p, LastCheckpoint
  <2>2. \/ LastCheckpoint(r) = 0
        \/ StateBlock <= p /\ LastCheckpoint(r) = p - StateBlock
    BY <2>1, <1>1 DEF Max2
  <2> QED
    BY <2>2, <1>1, <1>2, AlignedSum
<1>4. CASE c \in CoarseCheckpoints(r)
  <2>1. c \in Nat /\ c % AttnBlock = 0
    BY <1>4 DEF CoarseCheckpoints
  <2>2. PICK j \in Nat : c = j * AttnBlock
    BY <2>1, SMTT(20)
  <2>3. PICK k \in Nat : AttnBlock = k * StateBlock
    BY AlignedMultiple DEF Aligned
  <2>4. c = (j * k) * StateBlock /\ j * k \in Nat
    BY <2>2, <2>3, SMTT(20)
  <2> QED
    BY <2>4, AlignedMultiple
<1> QED
  BY <1>3, <1>4 DEF Checkpoints

\* Ahead of the last checkpoint, the chunk of an aligned prefill is aligned.
LEMMA SplitAligned ==
  ASSUME NEW r \in Req, NEW m \in Nat, NEW n \in Nat, req[r].ntok \in Nat,
         m + AlignedSplit(r, m, n) < LastCheckpoint(r), Aligned(m)
  PROVE  Aligned(m + AlignedSplit(r, m, n))
<1> DEFINE ahead == {c \in Checkpoints(r) : m < c /\ c < m + n}
           least == CHOOSE c \in ahead : \A d \in ahead : c <= d
<1>0. Checkpoints(r) \subseteq Nat /\ Prompt[r] \in Nat /\ LastCheckpoint(r) \in Nat
      /\ LastCheckpoint(r) <= Prompt[r]
  BY CheckpointsInPrompt DEF Checkpoints
<1>1. ~ (m >= Max2(Prompt[r], req[r].ntok - 1))
  <2>1. AlignedSplit(r, m, n) \in Nat
    BY SplitStops
  <2> QED
    BY <2>1, <1>0 DEF Max2
<1>2. CASE ahead # {}
  <2>1. AlignedSplit(r, m, n) = least - m
    BY <1>1, <1>2 DEF AlignedSplit
  <2>2. ahead \in SUBSET Nat
    BY <1>0
  <2>3. least \in ahead
    <3> HIDE DEF ahead
    <3> QED BY <1>2, <2>2, LeastOne
  <2>4. least \in Nat /\ Aligned(least)
    BY <2>3, <1>0, CheckpointsAligned
  <2>5. m + (least - m) = least
    <3> HIDE DEF least
    <3> QED BY <2>4
  <2> QED
    BY <2>1, <2>4, <2>5
<1>3. CASE ahead = {} /\ m + n < LastCheckpoint(r)
  <2>1. AlignedSplit(r, m, n) = n - (n % StateBlock)
    BY <1>1, <1>3 DEF AlignedSplit
  <2> QED
    BY <2>1, AlignedRound, AlignedSum
<1>4. CASE ahead = {} /\ ~ (m + n < LastCheckpoint(r))
  <2>1. AlignedSplit(r, m, n) = n
    BY <1>1, <1>4 DEF AlignedSplit
  <2> QED
    BY <2>1, <1>4
<1> QED
  BY <1>2, <1>3, <1>4

-----------------------------------------------------------------------------
(* The inductive invariant.                                                *)

DataTyped ==
  /\ req \in [Req -> [status : {"absent", "waiting", "running", "finished"},
                      computed : Nat, ntok : Nat, spec : Nat]]
  /\ step \in [phase : {"idle", "running", "waiting", "output"}, i : Nat, budget : Nat,
               forRunning : Nat, got : [Req -> Nat], admitted : SUBSET Req]
  /\ stops \in [Req -> SUBSET Nat]

\* The budget of running requests is a part of the budget of the step.
BudgetsNested == /\ step.phase = "running" => step.forRunning <= step.budget
                 /\ step.budget <= Budget

\* A running request has a token left to compute.
BehindTokens == \A r \in Req : /\ Prompt[r] <= req[r].ntok
                               /\ req[r].status = "running" => req[r].computed <= req[r].ntok

\* A request stands where its last chunk ended.
StandsAtStop == \A r \in Req : stops[r] # {} => req[r].computed \in stops[r]

\* No checkpoint lies strictly inside a chunk that is scheduled.
NonePassed ==
  \A r \in Req : \A c \in Checkpoints(r) :
    ~ (req[r].computed < c /\ c < req[r].computed + step.got[r])

\* Ahead of the last checkpoint a request stands at a block boundary, and so it
\* will after the chunk that is scheduled.
StandsAligned ==
  \A r \in Req :
    /\ req[r].computed < LastCheckpoint(r) => Aligned(req[r].computed)
    /\ req[r].computed + step.got[r] < LastCheckpoint(r)
         => Aligned(req[r].computed + step.got[r])

IInv == /\ DataTyped /\ BudgetsNested /\ BehindTokens /\ StandsAtStop
        /\ NonePassed /\ StandsAligned /\ CheckpointsKept /\ ChunksAligned

\* A step whose shares and budgets are replaced by typed ones is a step.
LEMMA StepTyped ==
  ASSUME DataTyped, NEW r \in Req, NEW k \in Nat, NEW i \in Nat, NEW b \in Nat,
         NEW f \in Nat, NEW a \in SUBSET Req, step'.got = [step.got EXCEPT ![r] = k],
         step' = [phase |-> step.phase, i |-> i, budget |-> b, forRunning |-> f,
                  got |-> step'.got, admitted |-> a]
  PROVE  step' \in [phase : {"idle", "running", "waiting", "output"}, i : Nat, budget : Nat,
                    forRunning : Nat, got : [Req -> Nat], admitted : SUBSET Req]
<1>1. step'.got \in [Req -> Nat] /\ step.phase \in {"idle", "running", "waiting", "output"}
  BY DEF DataTyped
<1> QED
  BY <1>1

\* No step is in progress, and no request has arrived.
LEMMA InitIInv == Init => IInv
<1> SUFFICES ASSUME Init PROVE IInv
  OBVIOUS
<1>1. DataTyped /\ BudgetsNested
  BY DEF Init, Idle, DataTyped, BudgetsNested
<1>2. BehindTokens /\ StandsAtStop /\ CheckpointsKept /\ ChunksAligned
  BY DEF Init, BehindTokens, StandsAtStop, CheckpointsKept, ChunksAligned
<1>3. NonePassed
  <2>1. \A r \in Req : req[r].computed = 0 /\ step.got[r] = 0
    BY DEF Init, Idle
  <2> QED BY <2>1, CheckpointsInPrompt DEF NonePassed
<1>4. StandsAligned
  <2>1. \A r \in Req : req[r].computed = 0 /\ req[r].computed + step.got[r] = 0
    BY DEF Init, Idle
  <2>2. Aligned(0)
    BY SMTT(20) DEF Aligned
  <2> QED BY <2>1, <2>2 DEF StandsAligned
<1> QED
  BY <1>1, <1>2, <1>3, <1>4 DEF IInv

\* Scheduling a chunk for a request that stands at m keeps the invariant.
LEMMA ChunkOK ==
  ASSUME NEW r \in Req, NEW m \in Nat, NEW n \in Nat, DataTyped, BehindTokens,
         m < LastCheckpoint(r) => Aligned(m)
  PROVE  LET k == AlignedSplit(r, m, n)
         IN  /\ k \in Nat /\ k <= n
             /\ \A c \in Checkpoints(r) : ~ (m < c /\ c < m + k)
             /\ m + k < LastCheckpoint(r) => Aligned(m + k)
<1> DEFINE k == AlignedSplit(r, m, n)
<1>1. req[r].ntok \in Nat /\ LastCheckpoint(r) \in Nat
  BY CheckpointsInPrompt DEF DataTyped
<1>2. k \in Nat /\ k <= n /\ \A c \in Checkpoints(r) : ~ (m < c /\ c < m + k)
  BY <1>1, SplitStops
<1>3. ASSUME m + k < LastCheckpoint(r) PROVE Aligned(m + k)
  <2>1. m < LastCheckpoint(r)
    <3> HIDE DEF k
    <3> QED BY <1>1, <1>2, <1>3
  <2> QED BY <1>1, <1>3, <2>1, SplitAligned
<1> QED
  BY <1>2, <1>3

\* A step begins with the whole budget.
LEMMA BeginIInv == IInv /\ Begin => IInv'
<1> SUFFICES ASSUME IInv, Begin PROVE IInv'
  OBVIOUS
<1> USE DEF IInv
<1>1. /\ UNCHANGED <<req, stops>>
      /\ step' = [phase |-> "running", i |-> 1, budget |-> Budget,
                  forRunning |-> Max2(0, Budget - Reserve),
                  got |-> [r \in Req |-> 0], admitted |-> {}]
  BY DEF Begin, Idle
<1>r. Max2(0, Budget - Reserve) \in Nat /\ Max2(0, Budget - Reserve) <= Budget
  <2>1. \A a \in Nat : BlockSize * a \in Nat
    BY SMT
  <2>2. Reserve \in Nat
    BY <2>1 DEF Reserve, Min2
  <2> QED BY <2>2 DEF Max2
<1>b. BudgetsNested'
  BY <1>1, <1>r DEF BudgetsNested
<1>2. \A r \in Req : step'.got[r] = 0 /\ req[r].computed \in Nat
  BY <1>1 DEF DataTyped
<1>3. DataTyped' /\ BehindTokens' /\ StandsAtStop' /\ CheckpointsKept' /\ ChunksAligned'
  BY <1>1, <1>r DEF DataTyped, BehindTokens, StandsAtStop, CheckpointsKept, ChunksAligned,
              Checkpoints, LastCheckpoint, CoarseCheckpoints
<1>4. NonePassed' /\ StandsAligned'
  <2>1. \A r \in Req : req[r].computed + 0 = req[r].computed
    BY <1>2
  <2>2. \A r \in Req : Checkpoints(r) \subseteq Nat
    BY CheckpointsInPrompt
  <2> QED
    BY <1>1, <1>2, <2>1, <2>2 DEF NonePassed, StandsAligned
<1> QED
  BY <1>b, <1>3, <1>4

\* A running request gets its share of the budget.
LEMMA ScheduleRunningIInv == ASSUME IInv, NEW r \in Req, ScheduleRunning(r) PROVE IInv'
<1> USE DEF IInv
<1> DEFINE n == Min2(Capped(Wanted(r)), Min2(step.budget, step.forRunning))
           k == AlignedSplit(r, req[r].computed, n)
<1>1. /\ UNCHANGED <<req, stops>>
      /\ step' = [step EXCEPT !.i = @ + 1, !.got[r] = k, !.budget = @ - k, !.forRunning = @ - k]
      /\ req[r].status = "running"
  BY DEF ScheduleRunning
<1>2. /\ req[r].computed \in Nat /\ req[r].ntok \in Nat /\ req[r].spec \in Nat
      /\ step.budget \in Nat /\ step.forRunning \in Nat /\ step.i \in Nat
  BY DEF DataTyped
<1>3. n \in Nat /\ n <= step.budget /\ n <= step.forRunning
  <2>1. Wanted(r) \in Nat
    BY <1>1, <1>2 DEF Wanted, BehindTokens
  <2>2. Capped(Wanted(r)) \in Nat
    BY <2>1 DEF Capped
  <2> QED BY <1>2, <2>2 DEF Min2
<1>4. /\ k \in Nat /\ k <= n
      /\ \A c \in Checkpoints(r) : ~ (req[r].computed < c /\ c < req[r].computed + k)
      /\ req[r].computed + k < LastCheckpoint(r) => Aligned(req[r].computed + k)
  <2> HIDE DEF n
  <2>1. req[r].computed < LastCheckpoint(r) => Aligned(req[r].computed)
    BY DEF StandsAligned
  <2> QED BY <1>2, <1>3, <2>1, ChunkOK
<1> HIDE DEF n, k
<1>5. step.budget - k \in Nat /\ step.forRunning - k \in Nat
  BY <1>2, <1>3, <1>4
<1>6. step' \in [phase : {"idle", "running", "waiting", "output"}, i : Nat, budget : Nat,
                 forRunning : Nat, got : [Req -> Nat], admitted : SUBSET Req]
  <2>1. /\ step'.got = [step.got EXCEPT ![r] = k]
        /\ step' = [phase |-> step.phase, i |-> step.i + 1, budget |-> step.budget - k,
                    forRunning |-> step.forRunning - k, got |-> step'.got,
                    admitted |-> step.admitted]
        /\ step.admitted \in SUBSET Req
    BY <1>1 DEF DataTyped
  <2>2. step.i + 1 \in Nat
    BY <1>2
  <2> QED
    BY <1>4, <1>5, <2>1, <2>2, StepTyped
<1>7. \A s \in Req : step'.got[s] = IF s = r THEN k ELSE step.got[s]
  BY <1>1 DEF DataTyped
<1>8. step'.budget = step.budget - k /\ step'.forRunning = step.forRunning - k
  BY <1>1 DEF DataTyped
<1>9. DataTyped' /\ BudgetsNested'
  <2>1. step.phase = "running" /\ step.forRunning <= step.budget /\ step.budget <= Budget
    BY DEF BudgetsNested, ScheduleRunning, InRunningLoop
  <2>2. step.forRunning - k <= step.budget - k /\ step.budget - k <= Budget
    BY <1>2, <1>4, <2>1
  <2> QED
    BY <1>1, <1>6, <1>8, <2>2 DEF DataTyped, BudgetsNested
<1>10. BehindTokens' /\ StandsAtStop' /\ CheckpointsKept' /\ ChunksAligned'
  BY <1>1 DEF BehindTokens, StandsAtStop, CheckpointsKept, ChunksAligned,
              Checkpoints, LastCheckpoint, CoarseCheckpoints
<1>11. NonePassed'
  BY <1>1, <1>4, <1>7 DEF NonePassed
<1>12. StandsAligned'
  BY <1>1, <1>4, <1>7 DEF StandsAligned
<1> QED
  BY <1>9, <1>10, <1>11, <1>12

\* A waiting request gets its share of the budget.
LEMMA AdmitIInv == ASSUME IInv, NEW r \in Req, NEW hit \in Hits(r), Admit(r, hit) PROVE IInv'
<1> USE DEF IInv
<1> DEFINE n == Min2(Capped(req[r].ntok - hit), step.budget)
           k == AlignedSplit(r, hit, n)
<1>1. /\ req' = [req EXCEPT ![r].status = "running", ![r].computed = hit]
      /\ step' = [step EXCEPT !.got[r] = k, !.budget = @ - k, !.admitted = @ \cup {r}]
      /\ stops' = [stops EXCEPT ![r] = {hit}]
  BY DEF Admit, Share
<1>2. /\ hit \in Nat /\ hit <= Prompt[r] /\ Aligned(hit)
      /\ req[r].ntok \in Nat /\ Prompt[r] \in Nat /\ Prompt[r] <= req[r].ntok
      /\ step.budget \in Nat /\ step.forRunning \in Nat
  BY DEF DataTyped, Hits, Aligned, BehindTokens
<1>3. n \in Nat /\ n <= step.budget
  <2>1. Capped(req[r].ntok - hit) \in Nat
    BY <1>2 DEF Capped
  <2> QED BY <1>2, <2>1 DEF Min2
<1>4. /\ k \in Nat /\ k <= n
      /\ \A c \in Checkpoints(r) : ~ (hit < c /\ c < hit + k)
      /\ hit + k < LastCheckpoint(r) => Aligned(hit + k)
  <2> HIDE DEF n
  <2> QED BY <1>2, <1>3, ChunkOK
<1> HIDE DEF n, k
<1>5. step.budget - k \in Nat
  BY <1>2, <1>3, <1>4
<1>6. /\ \A s \in Req : /\ step'.got[s] = IF s = r THEN k ELSE step.got[s]
                        /\ req'[s].computed = IF s = r THEN hit ELSE req[s].computed
                        /\ req'[s].ntok = req[s].ntok
                        /\ req'[s].status = IF s = r THEN "running" ELSE req[s].status
                        /\ stops'[s] = IF s = r THEN {hit} ELSE stops[s]
      /\ step'.budget = step.budget - k /\ step'.forRunning = step.forRunning
  BY <1>1 DEF DataTyped
<1>7. DataTyped'
  <2>1. /\ step'.got = [step.got EXCEPT ![r] = k]
        /\ step' = [phase |-> step.phase, i |-> step.i, budget |-> step.budget - k,
                    forRunning |-> step.forRunning, got |-> step'.got,
                    admitted |-> step.admitted \cup {r}]
        /\ step.admitted \cup {r} \in SUBSET Req /\ step.i \in Nat
    BY <1>1 DEF DataTyped
  <2>2. step' \in [phase : {"idle", "running", "waiting", "output"}, i : Nat, budget : Nat,
                   forRunning : Nat, got : [Req -> Nat], admitted : SUBSET Req]
    BY <1>2, <1>4, <1>5, <2>1, StepTyped
  <2>3. req' \in [Req -> [status : {"absent", "waiting", "running", "finished"},
                          computed : Nat, ntok : Nat, spec : Nat]]
    <3> DEFINE T == [status : {"absent", "waiting", "running", "finished"},
                     computed : Nat, ntok : Nat, spec : Nat]
               mid == [req EXCEPT ![r].status = "running"]
    <3>1. req \in [Req -> T]
      BY DEF DataTyped
    <3>2. mid \in [Req -> T]
      BY <3>1
    <3>3. req' = [mid EXCEPT ![r].computed = hit]
      BY <1>1
    <3> HIDE DEF mid
    <3> QED
      BY <1>2, <3>2, <3>3
  <2>4. stops' \in [Req -> SUBSET Nat]
    BY <1>1, <1>2 DEF DataTyped
  <2> QED
    BY <2>2, <2>3, <2>4 DEF DataTyped
<1>8. BudgetsNested'
  <2>1. step'.phase = "waiting"
    BY <1>1 DEF Admit, InWaitingLoop, DataTyped
  <2> QED
    BY <1>2, <1>4, <1>6, <2>1 DEF BudgetsNested
<1>9. BehindTokens'
  BY <1>2, <1>6 DEF BehindTokens
<1>10. StandsAtStop' /\ NonePassed' /\ StandsAligned'
  BY <1>2, <1>4, <1>6 DEF StandsAtStop, NonePassed, StandsAligned
<1>11. CheckpointsKept'
  <2>1. \A c \in Checkpoints(r) : c \in Nat
    BY CheckpointsInPrompt
  <2> QED
    BY <1>2, <1>6, <2>1 DEF CheckpointsKept
<1>12. ChunksAligned'
  BY <1>2, <1>6 DEF ChunksAligned, Aligned
<1> QED
  BY <1>7, <1>8, <1>9, <1>10, <1>11, <1>12

\* The step ends: requests get tokens, or end.
LEMMA UpdateIInv ==
  ASSUME IInv, NEW accepted \in [Req -> 0 .. Drafts], Update(accepted) PROVE IInv'
<1> USE DEF IInv
<1> DEFINE to(r) == Next1(r, accepted[r])
<1>1. /\ req' = [r \in Req |-> to(r)]
      /\ stops' = [r \in Req |-> IF step.got[r] = 0 THEN stops[r]
                                 ELSE stops[r] \cup {to(r).computed}]
      /\ \A r \in Req : accepted[r] <= Verified(r)
      /\ step' = Idle
  BY DEF Update
<1>2. ASSUME NEW r \in Req
      PROVE  /\ to(r) \in [status : {"absent", "waiting", "running", "finished"},
                           computed : Nat, ntok : Nat, spec : Nat]
             /\ Prompt[r] <= to(r).ntok
             /\ to(r).status = "running" => to(r).computed <= to(r).ntok
             /\ step.got[r] = 0 => to(r).computed = req[r].computed
             /\ to(r).computed <= req[r].computed + step.got[r]
             /\ \/ to(r).computed = req[r].computed + step.got[r]
                \/ to(r).computed >= Prompt[r]
  <2> DEFINE q == req[r]
             g == step.got[r]
  <2>1. /\ q \in [status : {"absent", "waiting", "running", "finished"},
                  computed : Nat, ntok : Nat, spec : Nat]
        /\ g \in Nat /\ accepted[r] \in Nat /\ Prompt[r] \in Nat /\ Prompt[r] <= q.ntok
        /\ q.status = "running" => q.computed <= q.ntok
        /\ accepted[r] <= Verified(r)
    BY <1>1 DEF DataTyped, BehindTokens
  <2>2. CASE ~ Sampled(r)
    <3>1. to(r) = [q EXCEPT !.computed = @ + g]
      BY <2>2 DEF Next1
    <3>2. g = 0 \/ q.computed + g < q.ntok
      BY <2>1, <2>2 DEF Sampled
    <3> QED
      BY <2>1, <3>1, <3>2
  <2>3. CASE Sampled(r)
    <3> DEFINE end == Prompt[r] + MaxOut
               nt == Min2(q.ntok + 1 + accepted[r], end)
    <3>1. g > 0 /\ q.computed + g >= q.ntok /\ Verified(r) = q.computed + g - q.ntok
      BY <2>1, <2>3 DEF Sampled, Verified, Max2
    <3>2. to(r) = [status |-> IF nt = end THEN "finished" ELSE "running",
                   computed |-> q.computed + g - (Verified(r) - accepted[r]),
                   ntok |-> nt, spec |-> Drafts]
      BY <2>3 DEF Next1
    <3>3. q.computed + g - (Verified(r) - accepted[r]) = q.ntok + accepted[r]
      BY <2>1, <3>1
    <3>4. nt \in Nat /\ Prompt[r] <= nt /\ (nt # end => q.ntok + accepted[r] <= nt)
      BY <2>1 DEF Min2
    <3> HIDE DEF nt
    <3> QED
      BY <2>1, <3>1, <3>2, <3>3, <3>4
  <2> QED
    BY <2>2, <2>3
<1>3. ASSUME NEW r \in Req
      PROVE  /\ req'[r] = to(r)
             /\ step'.got[r] = 0
             /\ stops'[r] = IF step.got[r] = 0 THEN stops[r]
                            ELSE stops[r] \cup {to(r).computed}
  <2> HIDE DEF to
  <2> QED
    BY <1>1 DEF Idle
<1>n. ASSUME NEW r \in Req
      PROVE  /\ stops[r] \in SUBSET Nat /\ req[r].computed \in Nat /\ step.got[r] \in Nat
             /\ LastCheckpoint(r) \in Nat /\ LastCheckpoint(r) <= Prompt[r]
             /\ Checkpoints(r) \subseteq Nat /\ Prompt[r] \in Nat
             /\ to(r).computed \in Nat /\ to(r).ntok \in Nat
  <2>1. to(r).computed \in Nat /\ to(r).ntok \in Nat
    BY <1>2
  <2>2. LastCheckpoint(r) \in Nat /\ LastCheckpoint(r) <= Prompt[r] /\ Checkpoints(r) \subseteq Nat
    BY CheckpointsInPrompt DEF Checkpoints
  <2> HIDE DEF to
  <2> QED
    BY <2>1, <2>2 DEF DataTyped
<1> HIDE DEF to
<1>4. DataTyped' /\ BudgetsNested'
  BY <1>1, <1>2 DEF Idle, DataTyped, BudgetsNested
<1>5. BehindTokens' /\ StandsAtStop'
  BY <1>2, <1>n, <1>3 DEF BehindTokens, StandsAtStop
<1>6. NonePassed'
  <2> SUFFICES ASSUME NEW r \in Req, NEW c \in Checkpoints(r)
               PROVE  ~ (to(r).computed < c /\ c < to(r).computed + 0)
    BY <1>3 DEF NonePassed
  <2>1. to(r).computed \in Nat /\ c \in Nat
    BY <1>n
  <2> QED
    BY <2>1
<1>7. StandsAligned'
  <2>1. ASSUME NEW r \in Req, to(r).computed < LastCheckpoint(r)
        PROVE  Aligned(to(r).computed)
    <3>1. to(r).computed = req[r].computed + step.got[r]
      BY <1>2, <1>n, <2>1
    <3> QED
      BY <2>1, <3>1 DEF StandsAligned
  <2>2. ASSUME NEW r \in Req
        PROVE  /\ to(r).computed < LastCheckpoint(r) => Aligned(to(r).computed)
               /\ to(r).computed + 0 < LastCheckpoint(r) => Aligned(to(r).computed + 0)
    <3>1. to(r).computed + 0 = to(r).computed
      BY <1>n
    <3> QED
      BY <2>1, <3>1
  <2> QED
    BY <1>3, <2>2, ZenonT(60) DEF StandsAligned, Aligned
<1>8. CheckpointsKept'
  <2> SUFFICES ASSUME NEW r \in Req, NEW c \in Checkpoints(r), NEW s \in stops'[r],
                      s <= c, c < to(r).computed
               PROVE  c \in stops'[r]
    BY <1>n, <1>3 DEF CheckpointsKept
  <2>0. c \in Nat
    BY <1>n, <1>3
  <2>1. s \in stops[r]
    <3>1. s \in stops[r] \/ s = to(r).computed
      BY <1>3
    <3>2. s # to(r).computed
      BY <1>n, <2>0
    <3> QED
      BY <3>1, <3>2
  <2>2. ASSUME c < req[r].computed PROVE c \in stops[r]
    BY <1>n, <1>3, <2>1, <2>2 DEF CheckpointsKept
  <2>3. ASSUME c = req[r].computed PROVE c \in stops[r]
    BY <1>n, <1>3, <2>1, <2>3 DEF StandsAtStop
  <2>4. ASSUME c > req[r].computed PROVE c \in stops[r]
    <3>1. to(r).computed <= req[r].computed + step.got[r]
      BY <1>2
    <3>2. c \in Nat
      BY <1>n, <1>3
    <3>3. c < req[r].computed + step.got[r]
      BY <1>n, <1>3, <3>1, <3>2
    <3> QED
      BY <3>3, <2>4 DEF NonePassed
  <2>5. c < req[r].computed \/ c = req[r].computed \/ c > req[r].computed
    <3>1. req[r].computed \in Nat
      BY DEF DataTyped
    <3> QED
      BY <2>0, <3>1
  <2>6. c \in stops[r]
    BY <2>2, <2>3, <2>4, <2>5, Zenon
  <2> QED
    BY <1>3, <2>6
<1>9. ChunksAligned'
  <2> SUFFICES ASSUME NEW r \in Req, NEW s \in stops'[r], s < LastCheckpoint(r)
               PROVE  Aligned(s)
    BY DEF ChunksAligned, Aligned
  <2>1. CASE s \in stops[r]
    BY <2>1 DEF ChunksAligned, Aligned
  <2>2. CASE s = to(r).computed
    BY <1>3, <1>7, <2>2 DEF StandsAligned, Aligned
  <2> QED
    BY <1>3, <2>1, <2>2
<1> QED
  BY <1>4, <1>5, <1>6, <1>7, <1>8, <1>9

\* Steps that change neither requests nor shares.
LEMMA QuietIInv ==
  ASSUME IInv, UNCHANGED stops, DataTyped', BudgetsNested', step'.got = step.got,
         \A r \in Req : /\ req'[r].computed = req[r].computed
                        /\ req'[r].ntok = req[r].ntok
                        /\ req'[r].status = "running" => req[r].status = "running"
  PROVE  IInv'
<1> USE DEF IInv
<1>1. BehindTokens'
  BY DEF BehindTokens
<1>2. StandsAtStop' /\ CheckpointsKept' /\ ChunksAligned'
  BY DEF StandsAtStop, CheckpointsKept, ChunksAligned
<1>3. NonePassed'
  BY DEF NonePassed
<1>4. StandsAligned'
  BY DEF StandsAligned, Aligned
<1> QED
  BY <1>1, <1>2, <1>3, <1>4

\* Ending a loop, or holding a request back, changes only the phase.
LEMMA PhaseIInv ==
  ASSUME IInv, NEW ph \in {"waiting", "output"}, step' = [step EXCEPT !.phase = ph],
         UNCHANGED <<req, stops>>
  PROVE  IInv'
<1>1. /\ step' \in [phase : {"idle", "running", "waiting", "output"}, i : Nat, budget : Nat,
                    forRunning : Nat, got : [Req -> Nat], admitted : SUBSET Req]
      /\ step'.got = step.got /\ step'.budget = step.budget /\ step'.phase = ph
  BY DEF IInv, DataTyped
<1>2. DataTyped' /\ BudgetsNested'
  BY <1>1 DEF IInv, DataTyped, BudgetsNested
<1> QED
  BY <1>1, <1>2, QuietIInv

\* add_request.
LEMMA ArriveIInv == ASSUME IInv, NEW r \in Req, Arrive(r) PROVE IInv'
<1>1. /\ req' = [req EXCEPT ![r].status = "waiting"] /\ UNCHANGED <<step, stops>>
  BY DEF Arrive
<1>2. /\ DataTyped'
      /\ \A s \in Req : /\ req'[s].computed = req[s].computed
                        /\ req'[s].ntok = req[s].ntok
                        /\ req'[s].status = "running" => req[s].status = "running"
  BY <1>1 DEF IInv, DataTyped
<1>3. BudgetsNested'
  BY <1>1 DEF IInv, BudgetsNested
<1> QED
  BY <1>1, <1>2, <1>3, QuietIInv

\* Every step keeps the invariant.
LEMMA NextIInv == IInv /\ [Next]_vars => IInv'
<1> SUFFICES ASSUME IInv, [Next]_vars PROVE IInv'
  OBVIOUS
<1>1. ASSUME NEW r \in Req, Arrive(r) PROVE IInv'
  BY <1>1, ArriveIInv
<1>2. CASE Begin
  BY <1>2, BeginIInv
<1>3. ASSUME NEW r \in Req, ScheduleRunning(r) PROVE IInv'
  BY <1>3, ScheduleRunningIInv
<1>4. ASSUME NEW r \in Req, NEW hit \in Hits(r), Admit(r, hit) PROVE IInv'
  BY <1>4, AdmitIInv
<1>5. ASSUME NEW r \in Req, NEW hit \in Hits(r), HoldBack(r, hit) PROVE IInv'
  BY <1>5, PhaseIInv DEF HoldBack
<1>6. CASE EndRunning
  BY <1>6, PhaseIInv DEF EndRunning
<1>7. CASE EndWaiting
  BY <1>7, PhaseIInv DEF EndWaiting
<1>8. ASSUME NEW accepted \in [Req -> 0 .. Drafts], Update(accepted) PROVE IInv'
  BY <1>8, UpdateIInv
<1>9. CASE UNCHANGED vars
  <2>1. UNCHANGED <<req, step, stops>>
    BY <1>9 DEF vars
  <2>2. DataTyped' /\ BudgetsNested'
    BY <2>1 DEF IInv, DataTyped, BudgetsNested
  <2> QED
    BY <2>1, <2>2, QuietIInv
<1> QED
  BY <1>1, <1>2, <1>3, <1>4, <1>5, <1>6, <1>7, <1>8, <1>9 DEF Next, Engine

\* The invariant holds in every state.
THEOREM Inductive == Spec => []IInv
<1> QED
  BY InitIInv, NextIInv, PTL DEF Spec

-----------------------------------------------------------------------------

\* A prefill ends a chunk at every checkpoint on its way, whatever the prompts,
\* the budget of a step, the threshold of a long prefill and the checkpoints
\* kept, and however many drafts are accepted.
THEOREM KeepsCheckpoints == Spec => []CheckpointsKept
<1>1. IInv => CheckpointsKept
  BY DEF IInv
<1> QED
  BY <1>1, Inductive, PTL

\* Up to its last checkpoint, a prefill starts and ends its chunks at multiples
\* of the state block size.
THEOREM AlignsChunks == Spec => []ChunksAligned
<1>1. IInv => ChunksAligned
  BY DEF IInv
<1> QED
  BY <1>1, Inductive, PTL

\* schedule() asserts that its budget does not become negative: neither does
\* the part of it that running requests share.
THEOREM BudgetsKept == Spec => [](step.budget \in 0 .. Budget /\ step.forRunning >= 0)
<1>1. IInv => step.budget \in 0 .. Budget /\ step.forRunning >= 0
  BY DEF IInv, DataTyped, BudgetsNested
<1> QED
  BY <1>1, Inductive, PTL
-----------------------------------------------------------------------------
(* Running requests leave enough of the budget.                            *)

\* As long as a step has admitted nobody, its waiting requests have at least a
\* state block of the budget.
RoomKept ==
  waiting # <<>> =>
    /\ step.phase = "running" => step.budget - step.forRunning >= StateBlock
    /\ step.phase = "waiting" /\ step.admitted = {} => step.budget >= StateBlock

\* With a block at least as large as a state block, a whole state block is
\* reserved for waiting requests.
LEMMA ReserveEnough ==
  ASSUME StateBlock <= BlockSize, waiting # <<>>
  PROVE  Reserve \in Nat /\ StateBlock <= Reserve /\ Reserve <= Budget
<1> DEFINE blocks == IF Len(waiting) >= Max2(4, Len(running) \div 16) THEN 2 ELSE 1
<1>1. blocks \in {1, 2} /\ Reserve = Min2(Budget, BlockSize * blocks)
  BY DEF Reserve
<1> HIDE DEF blocks
<1>2. BlockSize * blocks \in Nat /\ BlockSize <= BlockSize * blocks
  <2>1. BlockSize * 1 = BlockSize /\ BlockSize * 2 = BlockSize + BlockSize
    BY SMT
  <2> QED BY <1>1, <2>1
<1> QED
  BY <1>1, <1>2, StartupAssumption DEF Min2

\* A state block of the budget is enough for the split to leave a request that
\* is admitted at a hit something to compute.
LEMMA ShareLeft ==
  ASSUME NEW r \in Req, NEW hit \in Hits(r), req[r].ntok \in Nat, Prompt[r] <= req[r].ntok,
         step.budget \in Nat, StateBlock <= step.budget
  PROVE  Share(r, hit) > 0
<1> DEFINE n == Min2(Capped(req[r].ntok - hit), step.budget)
           ahead == {c \in Checkpoints(r) : hit < c /\ c < hit + n}
           least == CHOOSE c \in ahead : \A d \in ahead : c <= d
<1>0. /\ hit \in Nat /\ hit < Prompt[r] /\ Prompt[r] \in Nat
      /\ Checkpoints(r) \subseteq Nat /\ LastCheckpoint(r) \in Nat
      /\ LastCheckpoint(r) <= Prompt[r]
  BY CheckpointsInPrompt DEF Hits, Checkpoints
<1>1. n \in Nat /\ n > 0 /\ (n < req[r].ntok - hit => StateBlock <= n)
  <2>1. req[r].ntok - hit \in Nat /\ req[r].ntok - hit > 0
    BY <1>0
  <2> QED
    BY <2>1, StartupAssumption DEF Capped, Min2
<1>2. Share(r, hit) = AlignedSplit(r, hit, n)
  BY DEF Share
<1>3. CASE hit >= Max2(Prompt[r], req[r].ntok - 1)
  BY <1>1, <1>2, <1>3 DEF AlignedSplit
<1>4. CASE ~ (hit >= Max2(Prompt[r], req[r].ntok - 1)) /\ ahead # {}
  <2>1. AlignedSplit(r, hit, n) = least - hit
    BY <1>4 DEF AlignedSplit
  <2>2. ahead \in SUBSET Nat
    BY <1>0
  <2>3. least \in ahead
    <3> HIDE DEF ahead
    <3> QED BY <1>4, <2>2, LeastOne
  <2>4. least \in Nat /\ hit < least
    BY <2>3, <1>0
  <2> HIDE DEF least
  <2> QED
    BY <1>0, <1>2, <2>1, <2>4
<1>5. CASE ~ (hit >= Max2(Prompt[r], req[r].ntok - 1)) /\ ahead = {}
  <2>1. CASE hit + n < LastCheckpoint(r)
    <3>1. AlignedSplit(r, hit, n) = n - (n % StateBlock)
      BY <1>5, <2>1 DEF AlignedSplit
    <3>2. n < req[r].ntok - hit
      <4> HIDE DEF n
      <4> QED BY <1>0, <1>1, <2>1
    <3>3. n % StateBlock \in Nat /\ n % StateBlock < StateBlock
      <4> HIDE DEF n
      <4> QED BY <1>1
    <3> HIDE DEF n
    <3> QED BY <1>1, <1>2, <3>1, <3>2, <3>3
  <2>2. CASE ~ (hit + n < LastCheckpoint(r))
    BY <1>1, <1>2, <1>5, <2>2 DEF AlignedSplit
  <2> QED
    BY <2>1, <2>2
<1> QED
  BY <1>3, <1>4, <1>5

\* Every step keeps the reserve, and a step that ends has admitted somebody.
LEMMA NextRoom ==
  ASSUME StateBlock <= BlockSize, IInv, RoomKept, AdmitsOne, [Next]_vars
  PROVE  RoomKept' /\ AdmitsOne'
<1>t. /\ step.budget \in Nat /\ step.forRunning \in Nat /\ step.admitted \in SUBSET Req
      /\ step.phase = "running" => step.forRunning <= step.budget
      /\ \A r \in Req : req[r].ntok \in Nat /\ Prompt[r] <= req[r].ntok
  BY DEF IInv, DataTyped, BudgetsNested, BehindTokens
<1>1. ASSUME NEW r \in Req, Arrive(r) PROVE RoomKept' /\ AdmitsOne'
  BY <1>1 DEF Arrive, RoomKept, AdmitsOne
<1>2. CASE Begin
  <2>1. /\ step'.phase = "running" /\ step'.budget = Budget
        /\ step'.forRunning = Max2(0, Budget - Reserve) /\ waiting' = waiting
    BY <1>2 DEF Begin, Idle
  <2>2. waiting # <<>> => Budget - Max2(0, Budget - Reserve) >= StateBlock
    BY ReserveEnough DEF Max2
  <2> QED
    BY <2>1, <2>2 DEF RoomKept, AdmitsOne
<1>3. ASSUME NEW r \in Req, ScheduleRunning(r) PROVE RoomKept' /\ AdmitsOne'
  <2> DEFINE k == AlignedSplit(r, req[r].computed,
                               Min2(Capped(Wanted(r)), Min2(step.budget, step.forRunning)))
  <2>1. /\ step.phase = "running" /\ waiting' = waiting
        /\ step' = [step EXCEPT !.i = @ + 1, !.got[r] = k, !.budget = @ - k, !.forRunning = @ - k]
    BY <1>3 DEF ScheduleRunning, InRunningLoop
  <2>2. k \in Nat
    <3>1. step'.got[r] = k
      BY <2>1 DEF IInv, DataTyped
    <3>2. IInv'
      BY <1>3, ScheduleRunningIInv
    <3> QED BY <3>1, <3>2 DEF IInv, DataTyped
  <2> HIDE DEF k
  <2>3. /\ step'.phase = "running" /\ step'.budget = step.budget - k
        /\ step'.forRunning = step.forRunning - k
    BY <2>1 DEF IInv, DataTyped
  <2>4. (step.budget - k) - (step.forRunning - k) = step.budget - step.forRunning
    BY <1>t, <2>2
  <2> QED
    BY <2>1, <2>3, <2>4 DEF RoomKept, AdmitsOne
<1>4. CASE EndRunning
  <2>1. /\ step.phase = "running" /\ waiting' = waiting
        /\ step'.phase = "waiting" /\ step'.budget = step.budget
    BY <1>4 DEF EndRunning, IInv, DataTyped
  <2>2. step.budget - step.forRunning >= StateBlock => step.budget >= StateBlock
    BY <1>t
  <2> QED
    BY <2>1, <2>2 DEF RoomKept, AdmitsOne
<1>5. ASSUME NEW r \in Req, NEW hit \in Hits(r), Admit(r, hit) PROVE RoomKept' /\ AdmitsOne'
  <2>1. step'.phase = "waiting" /\ r \in step'.admitted
    BY <1>5 DEF Admit, InWaitingLoop, IInv, DataTyped
  <2> QED
    BY <2>1 DEF RoomKept, AdmitsOne
<1>6. ASSUME NEW r \in Req, NEW hit \in Hits(r), HoldBack(r, hit) PROVE RoomKept' /\ AdmitsOne'
  <2>1. /\ step.phase = "waiting" /\ waiting # <<>> /\ Share(r, hit) = 0
        /\ step'.phase = "output" /\ step'.admitted = step.admitted
    BY <1>6 DEF HoldBack, InWaitingLoop, IInv, DataTyped
  <2>2. step.admitted # {}
    <3>1. SUFFICES ASSUME step.admitted = {} PROVE FALSE
      OBVIOUS
    <3>2. StateBlock <= step.budget
      BY <2>1, <3>1, <1>t DEF RoomKept
    <3>3. Share(r, hit) > 0
      BY <1>t, <3>2, ShareLeft
    <3> QED
      BY <2>1, <3>3
  <2> QED
    BY <2>1, <2>2 DEF RoomKept, AdmitsOne
<1>7. CASE EndWaiting
  <2>1. /\ step.phase = "waiting" /\ UNCHANGED <<waiting, running>> /\ ~ InWaitingLoop
        /\ step'.phase = "output" /\ step'.admitted = step.admitted
    BY <1>7 DEF EndWaiting, IInv, DataTyped
  <2>2. waiting # <<>> /\ Len(running) < MaxRunning => ~ (step.budget > 0)
    BY <2>1 DEF InWaitingLoop
  <2>3. waiting # <<>> /\ Len(running) < MaxRunning => step.admitted # {}
    BY <1>t, <2>1, <2>2 DEF RoomKept
  <2> QED
    BY <2>1, <2>3 DEF RoomKept, AdmitsOne
<1>8. ASSUME NEW accepted \in [Req -> 0 .. Drafts], Update(accepted) PROVE RoomKept' /\ AdmitsOne'
  BY <1>8 DEF Update, Idle, RoomKept, AdmitsOne
<1>9. CASE UNCHANGED vars
  BY <1>9 DEF vars, RoomKept, AdmitsOne
<1> QED
  BY <1>1, <1>2, <1>3, <1>4, <1>5, <1>6, <1>7, <1>8, <1>9 DEF Next, Engine

\* Where a block is at least as large as a state block, as the latest cache mode
\* is meant to be used, running requests never take so much of a step that none
\* of the waiting requests is admitted to a free place.
THEOREM AdmitsWaiting ==
  ASSUME StateBlock <= BlockSize
  PROVE  Spec => []AdmitsOne
<1>1. Init => RoomKept /\ AdmitsOne
  BY DEF Init, Idle, RoomKept, AdmitsOne
<1>2. IInv /\ RoomKept /\ AdmitsOne /\ [Next]_vars => RoomKept' /\ AdmitsOne'
  BY NextRoom
<1> QED
  BY <1>1, <1>2, Inductive, PTL DEF Spec
==============================================================================
