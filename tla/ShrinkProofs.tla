---------------------------- MODULE ShrinkProofs ----------------------------
(***************************************************************************)
(* The counterexample of Shrink reproduces the failure at its last step,   *)
(* and none of the original faults it keeps can be left out, for every     *)
(* budget and every number of faults.                                      *)
(***************************************************************************)
EXTENDS Shrink, FiniteSetTheorems, SequenceTheorems, TLAPS

\* The run made with the current mask is known and fails within the budgets
\* still in question.
Reproduced ==
    \E r \in runs :
      /\ r \in RunsUnder(Mask)
      /\ r.failsAt \in lo .. hi

Budgets == lo \in Nat \ {0} /\ hi \in Nat /\ hi <= Steps

\* Before the search on the steps, the whole budget is in question.
Whole == phase \in {"none", "faults"} => lo = 1 /\ hi = Steps

\* Only when one budget is left does the search stop.
Found == phase \in {"done", "replayed"} => lo = hi

ReproducedInv == Reproduced /\ Budgets /\ Whole /\ Found

-----------------------------------------------------------------------------
\* Two runs with the same mask never treat an ordinal differently.
LEMMA SameMaskSameRun ==
    ASSUME NEW mask, NEW r \in RunsUnder(mask), NEW q \in RunsUnder(mask)
    PROVE  ~Diverge(r, q)
<1>1. r.fired \cap mask = {} /\ r.cut \subseteq mask
  BY DEF RunsUnder
<1>2. q.fired \cap mask = {} /\ q.cut \subseteq mask
  BY DEF RunsUnder
<1> QED BY <1>1, <1>2 DEF Diverge

\* So a mask that was tried once gives that run again.
LEMMA Determinism ==
    ASSUME NEW mask, NEW r \in runs, r \in RunsUnder(mask), NEW q \in Outcomes(mask)
    PROVE  q = r
<1>1. q \in RunsUnder(mask) /\ (q = r \/ Diverge(q, r))
  BY DEF Outcomes
<1> QED BY <1>1, SameMaskSameRun

\* The original run has finitely many faults.
LEMMA TotalIsNat == Init => total \in Nat
<1> SUFFICES ASSUME Init PROVE total \in Nat
  OBVIOUS
<1>1. PICK r \in RunsUnder({}) : total = Cardinality(r.fired)
  BY DEF Init
<1>2. PICK count \in 0 .. MaxFaults : r.fired = (0 .. count - 1) \ {}
  BY <1>1 DEF RunsUnder
<1>3. r.fired = 0 .. count - 1
  BY <1>2
<1>4. IsFiniteSet(0 .. count - 1)
  BY <1>2, BudgetAssumption, FS_Interval
<1> QED BY <1>1, <1>3, <1>4, FS_CardinalityType

LEMMA ReproducedInit == Init => ReproducedInv
<1> SUFFICES ASSUME Init PROVE ReproducedInv
  OBVIOUS
<1> USE BudgetAssumption
<1>1. PICK r \in RunsUnder({}) :
        /\ Reproduces(r, Steps)
        /\ runs = {r}
        /\ total = Cardinality(r.fired)
  BY DEF Init
<1>3. total \in Nat
  BY TotalIsNat
<1>4. Mask = {}
  <2>1. kept = [i \in 1 .. total |-> i - 1]
    BY DEF Init
  <2>2. Range(kept) = 0 .. total - 1
    <3>1. ASSUME NEW o \in 0 .. total - 1 PROVE o \in Range(kept)
      <4>1. o + 1 \in 1 .. total /\ kept[o + 1] = o
        BY <1>3, <2>1
      <4> QED BY <4>1, <2>1 DEF Range
    <3>2. ASSUME NEW o \in Range(kept) PROVE o \in 0 .. total - 1
      BY <3>2, <2>1, <1>3 DEF Range
    <3> QED BY <3>1, <3>2
  <2> QED BY <2>2 DEF Mask, Suppressing, Universe
<1>5. lo = 1 /\ hi = Steps /\ phase \in {"none", "steps"}
  BY DEF Init
<1>6. Reproduced
  BY <1>1, <1>4, <1>5 DEF Reproduced, Reproduces
<1>7. Budgets /\ Whole /\ Found
  BY <1>5 DEF Budgets, Whole, Found
<1> QED BY <1>6, <1>7 DEF ReproducedInv

\* The same just after a run was made.
LEMMA DeterminismNext ==
    ASSUME NEW mask, NEW q \in runs', q \in RunsUnder(mask), NEW r \in Outcomes(mask)'
    PROVE  r = q
<1>1. r \in RunsUnder(mask) /\ (r = q \/ Diverge(r, q))
  BY DEF Outcomes, RunsUnder, Diverge
<1> QED BY <1>1, SameMaskSameRun

LEMMA ReproducedNext == ReproducedInv /\ [Next]_vars => ReproducedInv'
<1> SUFFICES ASSUME ReproducedInv, [Next]_vars PROVE ReproducedInv'
  OBVIOUS
<1> USE BudgetAssumption DEF ReproducedInv
<1>1. PICK r \in runs : r \in RunsUnder(Mask) /\ r.failsAt \in lo .. hi
  BY DEF Reproduced
<1> DEFINE SameMask == total' = total /\ kept' = kept
<1>2. ASSUME SameMask PROVE RunsUnder(Mask)' = RunsUnder(Mask)
  BY <1>2 DEF RunsUnder, Mask, Suppressing, Universe, Range
<1>3. CASE TryNone
  <2>1. PICK q \in Outcomes(Universe) :
          /\ runs' = runs \cup {q}
          /\ IF Reproduces(q, Steps)
             THEN phase' = "steps" /\ kept' = <<>>
             ELSE phase' = "faults" /\ UNCHANGED kept
    BY <1>3 DEF TryNone
  <2>2. lo = 1 /\ hi = Steps /\ lo' = lo /\ hi' = hi /\ total' = total
    BY <1>3 DEF TryNone, Whole
  <2>3. Reproduced'
    <3>1. CASE Reproduces(q, Steps)
      <4>1. Mask' = Universe
        <5>1. Range(<<>>) = {}
          BY DEF Range
        <5> QED BY <2>1, <2>2, <3>1, <5>1 DEF Mask, Suppressing, Universe
      <4>2. q \in RunsUnder(Mask)'
        BY <4>1 DEF Outcomes, RunsUnder
      <4> QED BY <2>1, <2>2, <3>1, <4>2 DEF Reproduced, Reproduces
    <3>2. CASE ~Reproduces(q, Steps)
      BY <1>1, <1>2, <2>1, <2>2, <3>2 DEF Reproduced
    <3> QED BY <3>1, <3>2
  <2> QED BY <2>1, <2>2, <2>3 DEF Budgets, Whole, Found
<1>4. CASE TryComplement
  <2>1. PICK q \in Outcomes(Suppressing(Range(Complement(chunk)))) :
          /\ runs' = runs \cup {q}
          /\ IF Reproduces(q, Steps) THEN kept' = Complement(chunk)
             ELSE UNCHANGED kept
    BY <1>4 DEF TryComplement
  <2>2. /\ lo = 1 /\ hi = Steps /\ lo' = lo /\ hi' = hi
        /\ total' = total /\ phase' = phase /\ phase = "faults"
    BY <1>4 DEF TryComplement, Whole
  <2>3. Reproduced'
    <3>1. CASE Reproduces(q, Steps)
      <4>1. Mask' = Suppressing(Range(Complement(chunk)))
        BY <2>1, <2>2, <3>1 DEF Mask, Suppressing, Universe
      <4>2. q \in RunsUnder(Mask)'
        BY <4>1 DEF Outcomes, RunsUnder
      <4> QED BY <2>1, <2>2, <3>1, <4>2 DEF Reproduced, Reproduces
    <3>2. CASE ~Reproduces(q, Steps)
      BY <1>1, <1>2, <2>1, <2>2, <3>2 DEF Reproduced
    <3> QED BY <3>1, <3>2
  <2> QED BY <2>2, <2>3 DEF Budgets, Whole, Found
<1>5. CASE Bisect
  <2> DEFINE mid == (lo + hi) \div 2
  <2>1. PICK q \in Outcomes(Mask) :
          /\ runs' = runs \cup {q}
          /\ IF Reproduces(q, mid)
             THEN hi' = mid /\ UNCHANGED lo
             ELSE lo' = mid + 1 /\ UNCHANGED hi
    BY <1>5 DEF Bisect, Upper
  <2>2. q = r
    BY <1>1, <2>1, Determinism
  <2>3. lo < hi /\ phase = "steps" /\ phase' = phase /\ SameMask
    BY <1>5 DEF Bisect
  <2>4. mid \in Nat /\ lo <= mid /\ mid < hi
    BY <2>3 DEF Budgets
  <2>5. r.failsAt \in lo' .. hi' /\ Budgets'
    BY <1>1, <2>1, <2>2, <2>4 DEF Budgets, Reproduces
  <2>6. Reproduced'
    BY <1>1, <1>2, <2>1, <2>3, <2>5 DEF Reproduced
  <2> QED BY <2>3, <2>5, <2>6 DEF Whole, Found
<1>6. CASE Report
  <2>1. lo >= hi /\ lo' = lo /\ hi' = hi /\ phase' = "done" /\ SameMask /\ runs' = runs
    BY <1>6 DEF Report
  <2>2. lo = hi
    BY <1>1, <2>1 DEF Budgets
  <2> QED BY <1>1, <1>2, <2>1, <2>2 DEF Reproduced, Budgets, Whole, Found
<1>7. CASE Replay
  <2>1. /\ lo' = lo /\ hi' = hi /\ phase' = "replayed" /\ phase = "done"
        /\ SameMask /\ runs \subseteq runs'
    BY <1>7 DEF Replay
  <2> QED BY <1>1, <1>2, <2>1 DEF Reproduced, Budgets, Whole, Found
<1>8. CASE Refine
  <2>1. lo' = lo /\ hi' = hi /\ phase' = phase /\ SameMask /\ runs' = runs
    BY <1>8 DEF Refine
  <2> QED BY <1>1, <1>2, <2>1 DEF Reproduced, Budgets, Whole, Found
<1>9. CASE Minimised
  <2>1. lo' = lo /\ hi' = hi /\ phase' = "steps" /\ SameMask /\ runs' = runs
    BY <1>9 DEF Minimised
  <2> QED BY <1>1, <1>2, <2>1 DEF Reproduced, Budgets, Whole, Found
<1>10. CASE UNCHANGED vars
  <2>1. lo' = lo /\ hi' = hi /\ phase' = phase /\ SameMask /\ runs' = runs
    BY <1>10 DEF vars
  <2> QED BY <1>1, <1>2, <2>1 DEF Reproduced, Budgets, Whole, Found
<1> QED BY <1>3, <1>4, <1>5, <1>6, <1>7, <1>8, <1>9, <1>10 DEF Next, Shrinks

\* The counterexample fails in the same way as the scenario it was shrunk from,
\* first at its last step (shrink, _min_steps).
THEOREM CounterexampleReproduces == Spec => []StillReproduces
<1>1. ReproducedInv => StillReproduces
  <2> SUFFICES ASSUME ReproducedInv, phase = "done", NEW q \in Outcomes(Mask)
               PROVE  q.failsAt = lo
    BY DEF StillReproduces
  <2>1. PICK r \in runs : r \in RunsUnder(Mask) /\ r.failsAt \in lo .. hi
    BY DEF ReproducedInv, Reproduced
  <2>2. q = r
    BY <2>1, Determinism
  <2> QED BY <2>1, <2>2 DEF ReproducedInv, Found, Budgets
<1> QED BY <1>1, ReproducedInit, ReproducedNext, PTL DEF Spec

-----------------------------------------------------------------------------
(***************************************************************************)
(* ddmin.                                                                  *)
(***************************************************************************)
Distinct(s) == \A i, j \in 1 .. Len(s) : s[i] = s[j] => i = j

Granularity ==
    /\ kept \in Seq(Int)
    /\ Distinct(kept)
    /\ n \in Nat \ {0}
    /\ chunk \in Nat \ {0}
    /\ phase = "none" => chunk = 1

\* The failure needs some fault, and every subset left out so far was needed.
Needed ==
    phase = "faults" =>
      /\ \A r \in Outcomes(Universe) : ~Reproduces(r, Steps)
      /\ \A i \in 1 .. chunk - 1 : i <= Chunks =>
           \A r \in Outcomes(Suppressing(Range(Complement(i)))) : ~Reproduces(r, Steps)

OneMinimalKept ==
    phase \in {"steps", "done", "replayed"} =>
      \A o \in Range(kept) :
        \A r \in Outcomes(Suppressing(Range(kept) \ {o})) : ~Reproduces(r, Steps)

MinimalInv == Granularity /\ Needed /\ OneMinimalKept

-----------------------------------------------------------------------------
\* A granularity as large as the sequence makes subsets of one element.
LEMMA QuotientAtMostOne ==
    ASSUME NEW L \in Nat, NEW m \in Nat \ {0}, m >= L
    PROVE  L \div m <= 1
<1>1. L \div m \in Int /\ L = m * (L \div m) + (L % m) /\ L % m \in 0 .. m - 1
  OBVIOUS
<1>2. SUFFICES ASSUME L \div m >= 2 PROVE FALSE
  BY <1>1
<1>3. m * (L \div m) >= m * 2
  BY <1>1, <1>2
<1> QED BY <1>1, <1>3

\* The subset numbered i starts within the sequence.
LEMMA SubsetStarts ==
    ASSUME NEW L \in Nat, NEW S \in Nat \ {0}, NEW i \in Nat \ {0},
           i <= (L + S - 1) \div S
    PROVE  (i - 1) * S \in 0 .. L - 1
<1> DEFINE q == (L + S - 1) \div S
<1>1. /\ q \in Int
      /\ L + S - 1 = S * q + ((L + S - 1) % S)
      /\ (L + S - 1) % S \in 0 .. S - 1
  OBVIOUS
<1>2. (i - 1) * S <= (q - 1) * S
  BY <1>1
<1>3. (q - 1) * S = S * q - S
  BY <1>1
<1>4. (i - 1) * S \in Nat
  OBVIOUS
<1> QED BY <1>1, <1>2, <1>3, <1>4

\* A sequence without its elements a + 1 .. b.
CutOut(s, a, b) == SubSeq(s, 1, a) \o SubSeq(s, b + 1, Len(s))

LEMMA CutOutProperties ==
    ASSUME NEW s \in Seq(Int), NEW a \in Nat, a <= Len(s), NEW b \in Nat, b >= a
    PROVE  /\ CutOut(s, a, b) \in Seq(Int)
           /\ Len(CutOut(s, a, b)) = IF b >= Len(s) THEN a ELSE a + Len(s) - b
           /\ \A j \in 1 .. Len(CutOut(s, a, b)) :
                CutOut(s, a, b)[j] = IF j <= a THEN s[j] ELSE s[j - a + b]
<1> DEFINE t == CutOut(s, a, b)
<1> DEFINE u == SubSeq(s, 1, a)
           v == SubSeq(s, b + 1, Len(s))
<1>0. Len(s) \in Nat /\ a \in Nat /\ a <= Len(s) /\ \A j \in 1 .. Len(s) : s[j] \in Int
  OBVIOUS
<1>1. u \in Seq(Int) /\ Len(u) = a /\ \A j \in 1 .. a : u[j] = s[j]
  <2>1. \A j \in 1 .. a : s[j] \in Int
    BY <1>0
  <2>2. /\ u \in Seq(Int)
        /\ Len(u) = IF 1 <= a THEN a - 1 + 1 ELSE 0
        /\ \A j \in 1 .. a - 1 + 1 : u[j] = s[1 + j - 1]
    BY <1>0, <2>1, SubSeqProperties
  <2> QED BY <1>0, <2>2
<1>2. /\ v \in Seq(Int)
      /\ Len(v) = IF b >= Len(s) THEN 0 ELSE Len(s) - b
      /\ \A j \in 1 .. Len(v) : v[j] = s[b + j]
  <2>1. \A j \in b + 1 .. Len(s) : s[j] \in Int
    BY <1>0
  <2>2. /\ v \in Seq(Int)
        /\ Len(v) = IF b + 1 <= Len(s) THEN Len(s) - (b + 1) + 1 ELSE 0
        /\ \A j \in 1 .. Len(s) - (b + 1) + 1 : v[j] = s[(b + 1) + j - 1]
    BY <1>0, <2>1, SubSeqProperties
  <2> QED BY <1>0, <2>2
<1> HIDE DEF u, v
<1>3. /\ u \o v \in Seq(Int)
      /\ Len(u \o v) = Len(u) + Len(v)
      /\ \A j \in 1 .. Len(u) + Len(v) :
           (u \o v)[j] = IF j <= Len(u) THEN u[j] ELSE v[j - Len(u)]
  BY <1>1, <1>2, ConcatProperties
<1>4. t = u \o v
  BY DEF u, v, CutOut
<1> HIDE DEF t
<1>5. /\ t \in Seq(Int)
      /\ Len(t) = a + Len(v)
      /\ Len(v) \in Nat
      /\ \A j \in 1 .. a + Len(v) : t[j] = IF j <= a THEN u[j] ELSE v[j - a]
  BY <1>1, <1>3, <1>4
<1>6. ASSUME NEW j \in 1 .. Len(t)
      PROVE  t[j] = IF j <= a THEN s[j] ELSE s[j - a + b]
  <2>1. CASE j <= a
    BY <1>0, <1>1, <1>5, <2>1
  <2>2. CASE j > a
    <3>1. j - a \in 1 .. Len(v) /\ t[j] = v[j - a]
      BY <1>0, <1>2, <1>5, <2>2
    <3>2. v[j - a] = s[b + (j - a)] /\ b + (j - a) = j - a + b
      BY <1>0, <1>2, <3>1
    <3> QED BY <1>0, <2>2, <3>1, <3>2
  <2> QED BY <1>0, <2>1, <2>2
<1>7. Len(t) = IF b >= Len(s) THEN a ELSE a + Len(s) - b
  BY <1>0, <1>2, <1>5
<1> QED BY <1>5, <1>6, <1>7 DEF t

LEMMA ChunkSizeType == Granularity => ChunkSize \in Nat \ {0} /\ Chunks \in Int
BY DEF Granularity, ChunkSize, Chunks, Larger

\* What ddmin goes on with still lists ordinals once.
LEMMA ComplementDistinct ==
    ASSUME Granularity, chunk <= Chunks
    PROVE  Complement(chunk) \in Seq(Int) /\ Distinct(Complement(chunk))
<1> DEFINE a == (chunk - 1) * ChunkSize
           b == chunk * ChunkSize
           t == Complement(chunk)
<1>1. ChunkSize \in Nat \ {0} /\ Len(kept) \in Nat /\ kept \in Seq(Int)
  BY ChunkSizeType DEF Granularity
<1>2. a \in 0 .. Len(kept)
  BY <1>1, SubsetStarts DEF Granularity, Chunks
<1>3. b \in Nat /\ b >= a
  BY <1>1 DEF Granularity
<1> HIDE DEF a, b
<1>4. /\ t \in Seq(Int)
      /\ \A j \in 1 .. Len(t) : t[j] = IF j <= a THEN kept[j] ELSE kept[j - a + b]
      /\ Len(t) = IF b >= Len(kept) THEN a ELSE a + Len(kept) - b
  <2>1. t = CutOut(kept, a, b)
    BY DEF Complement, CutOut, a, b
  <2> HIDE DEF t
  <2>2. a \in Nat /\ a <= Len(kept)
    BY <1>1, <1>2
  <2>3. /\ CutOut(kept, a, b) \in Seq(Int)
        /\ Len(CutOut(kept, a, b)) = IF b >= Len(kept) THEN a ELSE a + Len(kept) - b
        /\ \A j \in 1 .. Len(CutOut(kept, a, b)) :
             CutOut(kept, a, b)[j] = IF j <= a THEN kept[j] ELSE kept[j - a + b]
    BY <1>1, <1>3, <2>2, CutOutProperties
  <2> QED BY <2>1, <2>3
<1> HIDE DEF t
<1>5. ASSUME NEW i \in 1 .. Len(t), NEW j \in 1 .. Len(t), t[i] = t[j]
      PROVE  i = j
  <2> DEFINE at(k) == IF k <= a THEN k ELSE k - a + b
  <2>1. \A k \in 1 .. Len(t) : at(k) \in 1 .. Len(kept)
    BY <1>1, <1>2, <1>3, <1>4
  <2>2. kept[at(i)] = kept[at(j)]
    BY <1>4, <1>5
  <2>3. at(i) = at(j)
    BY <2>1, <2>2 DEF Granularity, Distinct
  <2> QED BY <2>3, <1>2, <1>3
<1> QED BY <1>4, <1>5 DEF Distinct, t

\* With subsets of one element, a complement leaves out just that element.
LEMMA ComplementOfOne ==
    ASSUME Granularity, ChunkSize = 1, NEW i \in 1 .. Len(kept)
    PROVE  Range(Complement(i)) = Range(kept) \ {kept[i]}
<1> DEFINE t == Complement(i)
<1>1. /\ kept \in Seq(Int)
      /\ Len(kept) \in Nat
      /\ DOMAIN kept = 1 .. Len(kept)
  BY DEF Granularity
<1>0. \A k \in 1 .. Len(kept) : k # i => kept[k] \in Range(kept) \ {kept[i]}
  <2>1. \A k \in 1 .. Len(kept) : kept[k] \in Range(kept)
    BY <1>1 DEF Range
  <2>2. \A k \in 1 .. Len(kept) : kept[k] = kept[i] => k = i
    BY Zenon DEF Granularity, Distinct
  <2> QED BY <2>1, <2>2, Zenon
<1>2. t = CutOut(kept, i - 1, i)
  <2>1. (i - 1) * 1 = i - 1 /\ i * 1 + 1 = i + 1
    OBVIOUS
  <2> QED BY <2>1 DEF Complement, CutOut
<1> HIDE DEF t
<1>3. /\ t \in Seq(Int)
      /\ Len(t) = Len(kept) - 1
      /\ \A j \in 1 .. Len(t) : t[j] = IF j <= i - 1 THEN kept[j] ELSE kept[j + 1]
  <2>1. i - 1 \in Nat /\ i - 1 <= Len(kept) /\ i \in Nat /\ i >= i - 1
    BY <1>1
  <2>2. /\ t \in Seq(Int)
        /\ Len(t) = IF i >= Len(kept) THEN i - 1 ELSE (i - 1) + Len(kept) - i
        /\ \A j \in 1 .. Len(t) :
             t[j] = IF j <= i - 1 THEN kept[j] ELSE kept[j - (i - 1) + i]
    BY <1>1, <1>2, <2>1, CutOutProperties
  <2>3. Len(t) = Len(kept) - 1
    <3>1. Len(t) = IF i >= Len(kept) THEN i - 1 ELSE (i - 1) + Len(kept) - i
      BY <2>2
    <3>2. i \in Int /\ i <= Len(kept) /\ Len(kept) \in Int
      BY <1>1
    <3>3. CASE i >= Len(kept)
      <4>1. i = Len(kept) /\ Len(t) = i - 1
        BY <3>1, <3>2, <3>3
      <4> QED BY <4>1
    <3>4. CASE ~(i >= Len(kept))
      <4>1. Len(t) = (i - 1) + Len(kept) - i
        BY <3>1, <3>4
      <4> QED BY <3>2, <4>1
    <3> QED BY <3>3, <3>4
  <2>4. ASSUME NEW j \in 1 .. Len(t)
        PROVE  t[j] = IF j <= i - 1 THEN kept[j] ELSE kept[j + 1]
    <3>1. j \in Int /\ j - (i - 1) + i = j + 1
      BY <1>1, <2>3
    <3>2. t[j] = IF j <= i - 1 THEN kept[j] ELSE kept[j - (i - 1) + i]
      BY <2>2
    <3> QED BY <3>1, <3>2
  <2> QED BY <2>2, <2>3, <2>4
<1>4. ASSUME NEW o \in Range(t) PROVE o \in Range(kept) \ {kept[i]}
  <2>1. PICK j \in 1 .. Len(t) : o = t[j]
    BY <1>3 DEF Range
  <2>2. CASE j <= i - 1
    <3>1. o = kept[j] /\ j \in 1 .. Len(kept) /\ j # i
      BY <1>1, <1>3, <2>1, <2>2
    <3> QED BY <1>0, <3>1
  <2>3. CASE j >= i
    <3>1. o = kept[j + 1] /\ j + 1 \in 1 .. Len(kept) /\ j + 1 # i
      BY <1>1, <1>3, <2>1, <2>3
    <3> QED BY <1>0, <3>1
  <2>4. i - 1 \in Int /\ (j <= i - 1 \/ j >= i)
    BY <1>3
  <2> QED BY <2>2, <2>3, <2>4
<1>5. ASSUME NEW o \in Range(kept), o # kept[i] PROVE o \in Range(t)
  <2>1. PICK k \in 1 .. Len(kept) : o = kept[k]
    BY <1>1 DEF Range
  <2>2. CASE k < i
    <3>1. k \in 1 .. Len(t) /\ t[k] = o
      BY <1>1, <1>3, <2>1, <2>2
    <3> QED BY <1>3, <3>1 DEF Range
  <2>3. CASE k > i
    <3>1. k - 1 \in 1 .. Len(t) /\ t[k - 1] = o
      BY <1>1, <1>3, <2>1, <2>3
    <3> QED BY <1>3, <3>1 DEF Range
  <2> QED BY <1>5, <2>1, <2>2, <2>3
<1> QED BY <1>4, <1>5 DEF t

-----------------------------------------------------------------------------
LEMMA MinimalInit == Init => MinimalInv
<1> SUFFICES ASSUME Init PROVE MinimalInv
  OBVIOUS
<1>1. /\ n = 2 /\ chunk = 1 /\ kept = [i \in 1 .. total |-> i - 1]
      /\ phase = IF total = 0 THEN "steps" ELSE "none"
  BY DEF Init
<1>2. total \in Nat
  BY TotalIsNat
<1>3. kept \in Seq(Int) /\ Len(kept) = total
  BY <1>1, <1>2
<1>4. Distinct(kept)
  BY <1>1, <1>2, <1>3 DEF Distinct
<1>5. Granularity /\ Needed
  BY <1>1, <1>3, <1>4 DEF Granularity, Needed
<1>6. OneMinimalKept
  <2>1. phase = "steps" => Range(kept) = {}
    BY <1>1, <1>2, <1>3 DEF Range
  <2> QED BY <1>1, <2>1 DEF OneMinimalKept
<1> QED BY <1>5, <1>6 DEF MinimalInv

\* ddmin ends when no element can be left out.
LEMMA FinestIsMinimal == MinimalInv /\ Minimised => OneMinimalKept'
<1> SUFFICES ASSUME MinimalInv, Minimised PROVE OneMinimalKept'
  OBVIOUS
<1> SUFFICES ASSUME NEW o \in Range(kept),
                    NEW r \in Outcomes(Suppressing(Range(kept) \ {o}))
             PROVE  ~Reproduces(r, Steps)
  <2>0. kept' = kept /\ runs' = runs /\ total' = total
    BY DEF Minimised
  <2>1. /\ kept' = kept /\ runs' = runs /\ total' = total
        /\ Range(kept)' = Range(kept)
    BY <2>0 DEF Range
  <2>2. \A o \in Range(kept) :
          Outcomes(Suppressing(Range(kept) \ {o}))' = Outcomes(Suppressing(Range(kept) \ {o}))
    BY <2>1 DEF Outcomes, RunsUnder, Suppressing, Universe
  <2> QED BY <2>1, <2>2 DEF OneMinimalKept, Reproduces
<1> USE DEF MinimalInv
<1>1. kept \in Seq(Int) /\ Len(kept) \in Nat /\ phase = "faults"
  BY DEF Granularity, Minimised
<1>2. PICK i \in 1 .. Len(kept) : o = kept[i]
  BY <1>1 DEF Range
<1>3. CASE Len(kept) < 2
  <2>1. Range(kept) \ {o} = {}
    BY <1>1, <1>2, <1>3 DEF Range
  <2>2. Suppressing(Range(kept) \ {o}) = Universe
    BY <2>1 DEF Suppressing
  <2> QED BY <1>1, <2>2 DEF Needed
<1>4. CASE Len(kept) >= 2 /\ chunk > Chunks /\ Finest
  <2>1. ChunkSize = 1
    <3>1. Len(kept) \div n <= 1
      BY <1>1, <1>4, QuotientAtMostOne DEF Finest, Granularity
    <3>2. Len(kept) \div n \in Int
      BY <1>1 DEF Granularity
    <3> QED BY <3>1, <3>2 DEF ChunkSize, Larger
  <2>2. Chunks = Len(kept)
    BY <1>1, <2>1 DEF Chunks
  <2>3. i \in 1 .. chunk - 1 /\ i <= Chunks
    BY <1>1, <1>4, <2>2 DEF Granularity
  <2>4. Range(Complement(i)) = Range(kept) \ {o}
    BY <1>2, <2>1, ComplementOfOne
  <2> QED BY <1>1, <2>3, <2>4 DEF Needed
<1> QED BY <1>1, <1>3, <1>4 DEF Minimised

LEMMA MinimalNext == MinimalInv /\ [Next]_vars => MinimalInv'
<1> SUFFICES ASSUME MinimalInv, [Next]_vars PROVE MinimalInv'
  OBVIOUS
<1> USE DEF MinimalInv
<1>2. CASE TryNone
  <2>1. PICK q \in Outcomes(Universe) :
          /\ runs' = runs \cup {q}
          /\ IF Reproduces(q, Steps)
             THEN phase' = "steps" /\ kept' = <<>>
             ELSE phase' = "faults" /\ UNCHANGED kept
    BY <1>2 DEF TryNone
  <2>2. phase = "none" /\ total' = total /\ n' = n /\ chunk' = chunk /\ chunk = 1
    BY <1>2 DEF TryNone, Granularity
  <2>3. CASE Reproduces(q, Steps)
    <3>1. kept' = <<>> /\ phase' = "steps"
      BY <2>1, <2>3
    <3>2. Granularity'
      BY <2>2, <3>1 DEF Granularity, Distinct
    <3>3. Range(kept)' = {}
      BY <3>1 DEF Range
    <3> QED BY <3>1, <3>2, <3>3 DEF Needed, OneMinimalKept
  <2>4. CASE ~Reproduces(q, Steps)
    <3>1. kept' = kept /\ phase' = "faults" /\ q \in runs'
      BY <2>1, <2>4
    <3>2. Granularity'
      BY <2>2, <3>1 DEF Granularity, Distinct
    <3>3. ASSUME NEW r \in Outcomes(Universe)' PROVE ~Reproduces(r, Steps)
      <4>1. Universe' = Universe /\ q \in RunsUnder(Universe)
        BY <2>2 DEF Universe, Outcomes
      <4>2. r \in Outcomes(Universe)'
        BY <3>3
      <4>3. r = q
        BY <3>1, <4>1, <4>2, DeterminismNext
      <4> QED BY <2>4, <4>3
    <3>4. Needed'
      BY <2>2, <3>3 DEF Needed, Reproduces
    <3> QED BY <3>1, <3>2, <3>4 DEF OneMinimalKept
  <2> QED BY <2>3, <2>4
<1>3. CASE TryComplement
  <2>1. PICK q \in Outcomes(Suppressing(Range(Complement(chunk)))) :
          /\ runs' = runs \cup {q}
          /\ IF Reproduces(q, Steps)
             THEN kept' = Complement(chunk) /\ n' = Larger(n - 1, 2) /\ chunk' = 1
             ELSE chunk' = chunk + 1 /\ UNCHANGED <<kept, n>>
    BY <1>3 DEF TryComplement
  <2>2. phase = "faults" /\ phase' = phase /\ total' = total /\ chunk <= Chunks
    BY <1>3 DEF TryComplement
  <2>3. \A r \in Outcomes(Universe)' : ~Reproduces(r, Steps)
    <3>1. Universe' = Universe
      BY <2>2 DEF Universe
    <3>2. \A r \in Outcomes(Universe)' : r \in Outcomes(Universe)
      BY <2>1, <3>1 DEF Outcomes, RunsUnder
    <3> QED BY <2>2, <3>2 DEF Needed
  <2>4. CASE Reproduces(q, Steps)
    <3>1. kept' = Complement(chunk) /\ n' \in Nat \ {0} /\ chunk' = 1
      BY <2>1, <2>4 DEF Larger, Granularity
    <3>2. Granularity'
      BY <2>2, <3>1, ComplementDistinct DEF Granularity, Distinct
    <3>3. Needed'
      BY <2>3, <3>1 DEF Needed, Reproduces
    <3> QED BY <2>2, <3>2, <3>3 DEF OneMinimalKept
  <2>5. CASE ~Reproduces(q, Steps)
    <3>1. kept' = kept /\ n' = n /\ chunk' = chunk + 1 /\ q \in runs'
      BY <2>1, <2>5
    <3>2. Granularity'
      BY <2>2, <3>1 DEF Granularity, Distinct
    <3>3. ASSUME NEW i \in 1 .. chunk, i <= Chunks,
                 NEW r \in Outcomes(Suppressing(Range(Complement(i))))'
          PROVE  ~Reproduces(r, Steps)
      <4> DEFINE mask == Suppressing(Range(Complement(i)))
      <4>1. mask' = mask
        BY <2>2, <3>1 DEF Suppressing, Universe, Range, Complement, ChunkSize
      <4>2. r \in Outcomes(mask)' /\ runs \subseteq runs'
        BY <2>1, <3>3
      <4>3. CASE i = chunk
        <5>1. q \in RunsUnder(mask)
          BY <2>1, <4>3 DEF Outcomes
        <5> HIDE DEF mask
        <5>2. r = q
          BY <3>1, <4>1, <4>2, <5>1, DeterminismNext
        <5> QED BY <2>5, <5>2
      <4>4. CASE i # chunk
        <5>1. i \in 1 .. chunk - 1
          BY <4>4 DEF Granularity
        <5>2. r \in Outcomes(mask)
          BY <4>1, <4>2 DEF Outcomes, RunsUnder
        <5> QED BY <2>2, <3>3, <5>1, <5>2 DEF Needed
      <4> QED BY <4>3, <4>4
    <3>4. Chunks' = Chunks /\ chunk' - 1 = chunk
      BY <3>1 DEF Chunks, ChunkSize, Granularity
    <3>5. Needed'
      BY <2>3, <3>3, <3>4 DEF Needed, Reproduces
    <3> QED BY <2>2, <3>2, <3>5 DEF OneMinimalKept
  <2> QED BY <2>4, <2>5
<1>4. CASE Refine
  <2>1. /\ phase = "faults" /\ phase' = phase /\ total' = total /\ kept' = kept
        /\ runs' = runs /\ chunk' = 1 /\ n' = Finer /\ Len(kept) >= 2
    BY <1>4 DEF Refine
  <2>2. n' \in Nat \ {0}
    BY <2>1 DEF Finer, Smaller, Granularity
  <2>3. Granularity'
    BY <2>1, <2>2 DEF Granularity, Distinct
  <2>4. Outcomes(Universe)' = Outcomes(Universe)
    BY <2>1 DEF Outcomes, RunsUnder, Universe
  <2>5. Needed'
    BY <2>1, <2>4 DEF Needed, Reproduces
  <2> QED BY <2>1, <2>3, <2>5 DEF OneMinimalKept
<1>5. CASE Minimised
  <2>1. OneMinimalKept'
    BY <1>5, FinestIsMinimal
  <2>2. Granularity' /\ Needed'
    BY <1>5 DEF Minimised, Granularity, Needed
  <2> QED BY <2>1, <2>2
<1>6. CASE Bisect \/ Report \/ Replay
  <2>1. /\ phase' \notin {"none", "faults"}
        /\ phase \in {"steps", "done"}
        /\ UNCHANGED <<kept, n, chunk, total>>
        /\ runs \subseteq runs'
    BY <1>6 DEF Bisect, Report, Replay
  <2>2. Granularity' /\ Needed'
    BY <2>1 DEF Granularity, Distinct, Needed
  <2>3. ASSUME NEW o \in Range(kept)', NEW r \in Outcomes(Suppressing(Range(kept) \ {o}))'
        PROVE  ~Reproduces(r, Steps)
    <3>1. Range(kept)' = Range(kept)
      BY <2>1 DEF Range
    <3>2. r \in Outcomes(Suppressing(Range(kept) \ {o}))
      BY <2>1, <2>3, <3>1 DEF Outcomes, RunsUnder, Suppressing, Universe
    <3> QED BY <2>1, <2>3, <3>1, <3>2 DEF OneMinimalKept
  <2>4. OneMinimalKept'
    BY <2>3 DEF OneMinimalKept, Reproduces
  <2> QED BY <2>2, <2>4
<1>7. CASE UNCHANGED vars
  <2>1. UNCHANGED <<phase, total, kept, n, chunk, runs>>
    BY <1>7 DEF vars
  <2>2. Range(kept)' = Range(kept) /\ Chunks' = Chunks /\ Universe' = Universe
    BY <2>1 DEF Range, Chunks, ChunkSize, Universe
  <2>3. \A i : Complement(i)' = Complement(i)
    BY <2>1 DEF Complement, ChunkSize
  <2>4. Outcomes(Universe)' = Outcomes(Universe)
    BY <2>1 DEF Outcomes, RunsUnder, Universe
  <2>5. \A i : Outcomes(Suppressing(Range(Complement(i))))'
                = Outcomes(Suppressing(Range(Complement(i))))
    BY <2>1, <2>3 DEF Outcomes, RunsUnder, Suppressing, Universe, Range
  <2>6. \A o : Outcomes(Suppressing(Range(kept) \ {o}))'
                = Outcomes(Suppressing(Range(kept) \ {o}))
    BY <2>1, <2>2 DEF Outcomes, RunsUnder, Suppressing, Universe
  <2>7. Granularity'
    BY <2>1 DEF Granularity, Distinct
  <2>8. Needed'
    BY <2>1, <2>2, <2>4, <2>5 DEF Needed, Reproduces
  <2>9. OneMinimalKept'
    BY <2>1, <2>2, <2>6 DEF OneMinimalKept, Reproduces
  <2> QED BY <2>7, <2>8, <2>9
<1> QED BY <1>2, <1>3, <1>4, <1>5, <1>6, <1>7 DEF Next, Shrinks

\* Of the original faults that ddmin keeps none can be left out: without it the
\* failure vanishes, however many faults there are (ddmin).
THEOREM KeptFaultsNeeded == Spec => []KeptOneMinimal
<1>1. MinimalInv => KeptOneMinimal
  BY DEF MinimalInv, OneMinimalKept, KeptOneMinimal
<1> QED BY <1>1, MinimalInit, MinimalNext, PTL DEF Spec
=============================================================================
