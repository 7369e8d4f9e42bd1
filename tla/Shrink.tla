------------------------------- MODULE Shrink -------------------------------
(***************************************************************************)
(* The schedule shrinker of deterministic_raft/shrink.py: ddmin over the   *)
(* ordinals of the fault injections, then a binary search on the steps,    *)
(* for a failure that is the violation of an invariant.                    *)
(*                                                                         *)
(* What a cluster does under a suppression mask is not the shrinker's      *)
(* business: a run is any record of the ordinals it fired, the ordinals it *)
(* suppressed and the first step at which the target failure fires (0 if it*)
(* never does).  The simulator is deterministic, and no more: two runs are *)
(* the same until they first treat an ordinal differently, and anything may*)
(* follow that, faults of new ordinals included.                           *)
(***************************************************************************)
EXTENDS Integers, Sequences, FiniteSets, SequencesExt

CONSTANTS
    Steps,          \* the step budget of the failing scenario
    MaxFaults       \* BOUND: ordinals a run draws

ASSUME BudgetAssumption == Steps \in Nat \ {0} /\ MaxFaults \in Nat

VARIABLES
    phase,          \* where shrink is: "none", "faults", "steps" or "done"
    total,          \* the faults of the original run
    kept,           \* ddmin: the ordinals not suppressed, in order
    n,              \* ddmin: the granularity
    chunk,          \* ddmin: the next subset to leave out
    lo, hi,         \* _min_steps: the budgets still in question
    runs            \* every run made so far

vars == <<phase, total, kept, n, chunk, lo, hi, runs>>

-----------------------------------------------------------------------------
(***************************************************************************)
(* Runs.                                                                   *)
(***************************************************************************)
\* _fire_fault: each injection takes the next ordinal, and fires unless the
\* mask suppresses it.
RunsUnder(mask) ==
    {[fired |-> (0 .. count - 1) \ mask, cut |-> (0 .. count - 1) \cap mask,
      failsAt |-> step] : count \in 0 .. MaxFaults, step \in 0 .. Steps}

Diverge(r, q) == r.fired \cap q.cut # {} \/ r.cut \cap q.fired # {}

\* The runs the mask may give, knowing the runs made before.
Outcomes(mask) ==
    {r \in RunsUnder(mask) : \A q \in runs : r = q \/ Diverge(r, q)}

\* failure_signature(scenario with this budget) = target.
Reproduces(r, budget) == r.failsAt \in 1 .. budget

Universe == 0 .. total - 1
Suppressing(ordinals) == Universe \ ordinals
Mask == Suppressing(Range(kept))

Init ==
    /\ n = 2
    /\ chunk = 1
    /\ lo = 1
    /\ hi = Steps
    /\ \E r \in {q \in RunsUnder({}) : Reproduces(q, Steps)} :
         /\ runs = {r}
         /\ total = Cardinality(r.fired)
    /\ kept = [i \in 1 .. total |-> i - 1]
    /\ phase = IF total = 0 THEN "steps" ELSE "none"

-----------------------------------------------------------------------------
(***************************************************************************)
(* ddmin.                                                                  *)
(***************************************************************************)
Larger(a, b) == IF a >= b THEN a ELSE b
Smaller(a, b) == IF a <= b THEN a ELSE b

\* Is any fault needed at all?
TryNone ==
    /\ phase = "none"
    /\ \E r \in Outcomes(Universe) :
         /\ runs' = runs \cup {r}
         /\ IF Reproduces(r, Steps)
            THEN phase' = "steps" /\ kept' = <<>>
            ELSE phase' = "faults" /\ UNCHANGED kept
    /\ UNCHANGED <<total, n, chunk, lo, hi>>

ChunkSize == Larger(1, Len(kept) \div n)
Chunks == (Len(kept) + ChunkSize - 1) \div ChunkSize

\* What is kept without the i-th subset.
Complement(i) ==
    SubSeq(kept, 1, (i - 1) * ChunkSize)
    \o SubSeq(kept, i * ChunkSize + 1, Len(kept))

TryComplement ==
    /\ phase = "faults"
    /\ Len(kept) >= 2
    /\ chunk <= Chunks
    /\ \E r \in Outcomes(Suppressing(Range(Complement(chunk)))) :
         /\ runs' = runs \cup {r}
         /\ IF Reproduces(r, Steps)
            THEN /\ kept' = Complement(chunk)
                 /\ n' = Larger(n - 1, 2)
                 /\ chunk' = 1
            ELSE /\ chunk' = chunk + 1
                 /\ UNCHANGED <<kept, n>>
    /\ UNCHANGED <<phase, total, lo, hi>>

\* DEFECT: the granularity that doubling would end at is never tried.
FinestEarly == 2 * n >= Len(kept)

\* No finer granularity is left to try.
Finest == n >= Len(kept)

\* DEFECT: the granularity is never doubled.
FinerNever == n

Finer == Smaller(Len(kept), 2 * n)

\* Every complement was tried in vain: start again with smaller subsets.
Refine ==
    /\ phase = "faults"
    /\ Len(kept) >= 2
    /\ chunk > Chunks
    /\ ~Finest
    /\ n' = Finer
    /\ chunk' = 1
    /\ UNCHANGED <<phase, total, kept, lo, hi, runs>>

\* ddmin returns kept.
Minimised ==
    /\ phase = "faults"
    /\ Len(kept) < 2 \/ (chunk > Chunks /\ Finest)
    /\ phase' = "steps"
    /\ UNCHANGED <<total, kept, n, chunk, lo, hi, runs>>

-----------------------------------------------------------------------------
(***************************************************************************)
(* _min_steps.                                                             *)
(***************************************************************************)
\* DEFECT: the budget that reproduces is thrown away.
UpperBelow(mid) == mid - 1

\* The largest budget in question once mid reproduces.
Upper(mid) == mid

Bisect ==
    LET mid == (lo + hi) \div 2
    IN /\ phase = "steps"
       /\ lo < hi
       /\ \E r \in Outcomes(Mask) :
            /\ runs' = runs \cup {r}
            /\ IF Reproduces(r, mid)
               THEN hi' = Upper(mid) /\ UNCHANGED lo
               ELSE lo' = mid + 1 /\ UNCHANGED hi
       /\ UNCHANGED <<phase, total, kept, n, chunk>>

\* The counterexample: the scenario with mask Mask and budget lo.
Report ==
    /\ phase = "steps"
    /\ lo >= hi
    /\ phase' = "done"
    /\ UNCHANGED <<total, kept, n, chunk, lo, hi, runs>>

-----------------------------------------------------------------------------
\* The faults that still fire in the counterexample's run.
Firing == UNION {r.fired : r \in runs \cap Outcomes(Mask)}

\* The reader of the counterexample replays it with one more fault suppressed.
Replay ==
    /\ phase = "done"
    /\ \E o \in Firing : \E r \in Outcomes(Mask \cup {o}) : runs' = runs \cup {r}
    /\ phase' = "replayed"
    /\ UNCHANGED <<total, kept, n, chunk, lo, hi>>

Shrinks ==
    TryNone \/ TryComplement \/ Refine \/ Minimised \/ Bisect \/ Report

Next == Shrinks \/ Replay

Spec == Init /\ [][Next]_vars

\* shrink is a sequential loop: it is not interrupted between two candidates.
FairSpec == Spec /\ WF_vars(Shrinks)

-----------------------------------------------------------------------------
\* The counterexample still fails in the same way, first at its very last step,
\* whatever the shorter masks and budgets tried on the way did (shrink, and
\* _min_steps: "the earliest step budget that still reproduces").
StillReproduces ==
    phase = "done" => \A r \in Outcomes(Mask) : r.failsAt = lo

\* Of the original faults that ddmin keeps, none can be left out: each was left
\* out alone, at the full budget, and the failure vanished (ddmin).
KeptOneMinimal ==
    phase \in {"steps", "done"} =>
      \A o \in Range(kept) :
        \A r \in Outcomes(Suppressing(Range(kept) \ {o})) : ~Reproduces(r, Steps)

\* Shrinking ends: a reduction or a refinement always comes nearer to a set
\* that cannot be reduced (ddmin's while loop, _min_steps).
Terminates == <>(phase = "done")

\* Suppressing any one more of the counterexample's faults makes the failure
\* vanish (README.md: "a 1-minimal set").
OneMinimal ==
    phase = "replayed" =>
      \A o \in Firing : \A r \in runs \cap Outcomes(Mask \cup {o}) : ~Reproduces(r, lo)
=============================================================================
