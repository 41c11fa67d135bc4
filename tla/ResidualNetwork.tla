-------------------------- MODULE ResidualNetwork --------------------------
(***************************************************************************)
(* The residual-survival gate (signals/gate.py, stability.py) and the edge *)
(* filter under it (correlation.py).  The gate pivots the residuals to a   *)
(* panel of rows, slides a window over it, keeps in each window the        *)
(* within-sector pairs whose correlation survives Benjamini-Hochberg,      *)
(* compares consecutive windows and decides GO or NO-GO on the medians.    *)
(*                                                                         *)
(* A p-value is an integer level, in the unit of Alpha.  Jaccard and lift  *)
(* are exact rationals, pairs <<numerator, denominator>>.                  *)
(***************************************************************************)
EXTENDS Integers, FiniteSets, SequencesExt

CONSTANTS Names,
          Sector,          \* [Names -> sector or Unplaced]
          Unplaced,        \* of a name without a sector
          MaxRows,         \* bound on the panel
          Window, Step,    \* rows of a window and between two
          Levels,          \* p-values are 1 .. Levels
          Alpha,
          MinLift, MinWindowPairs, MinMedianEdges,
          MinJaccard       \* in percent

ASSUME RollingAssumption == Window \in Nat \ {0} /\ Step \in Nat \ {0} /\ MaxRows \in Nat
ASSUME TestAssumption == IsFiniteSet(Names) /\ Levels \in Nat /\ Alpha \in Nat
ASSUME ThresholdsAssumption == MinWindowPairs \in Nat /\ MinLift \in Nat \ {0}

Unmeasured == 0

Pairs == {p \in SUBSET Names : Cardinality(p) = 2}

(* within_sector_pairs                                                     *)
WithinSector == {p \in Pairs : \E s \in {Sector[a] : a \in p} \ {Unplaced} :
                                   \A a \in p : Sector[a] = s}

VARIABLES rows,      \* of the panel
          lo,        \* first row of the next window
          measure,   \* [WithinSector -> p-value] of the window being filtered
          filtering, \* a window has been measured and not yet filtered
          sets,      \* the edge sets of the windows done
          decision

gateVars == <<rows, lo, measure, filtering, sets, decision>>

(***************************************************************************)
(* fdr_edges.                                                              *)
(***************************************************************************)
Tested(m) == {p \in WithinSector : m[p] # Unmeasured}

(* The tested pairs by ascending p-value; ties in whatever order.          *)
ByPValue(m) ==
    CHOOSE s \in [1 .. Cardinality(Tested(m)) -> Tested(m)] :
        /\ IsInjective(s)
        /\ \A i, j \in DOMAIN s : i < j => m[s[i]] <= m[s[j]]

(* The ranks k with p_(k) <= (k / m) * alpha.                              *)
Below(m, sorted) ==
    {k \in 1 .. Len(sorted) : m[sorted[k]] * Len(sorted) <= k * Alpha}

(* Mutant of Rejected: step-down, the first rank that fails ends it.       *)
RejectedStepDown(m) ==
    LET sorted == ByPValue(m)
        below == Below(m, sorted)
    IN  {sorted[k] : k \in {k \in below : 1 .. k \subseteq below}}

(* Step-up: everything up to the largest such rank is rejected.            *)
Rejected(m) ==
    LET sorted == ByPValue(m)
    IN  {sorted[k] : k \in 1 .. Max(Below(m, sorted) \cup {0})}

(***************************************************************************)
(* stability.py                                                            *)
(***************************************************************************)

(* Mutant of Compare: the union is taken for what two windows share.       *)
CompareUnion(a, b) ==
    [before |-> Cardinality(a), after |-> Cardinality(b), shared |-> Cardinality(a \cup b)]

Compare(a, b) ==
    [before |-> Cardinality(a), after |-> Cardinality(b), shared |-> Cardinality(a \cap b)]

(* The rows of rolling_stability: consecutive windows.                     *)
Compared == [i \in 1 .. Len(sets) - 1 |-> Compare(sets[i], sets[i + 1])]

Union(c) == c.before + c.after - c.shared

(* Two empty sets agree on everything.                                     *)
Jaccard(c) == IF c.before + c.after = 0 THEN <<1, 1>> ELSE <<c.shared, Union(c)>>

(* The overlap of two random sets of these sizes is x / (N(a + b) - x),    *)
(* with x = a * b; it is 0 when one of the sets is empty.                  *)
Product(c) == c.before * c.after
RandomFloor(c) ==
    <<Product(c), Cardinality(WithinSector) * (c.before + c.after) - Product(c)>>

(* Over a floor of 0 the lift is 0, or infinite if the windows agree.      *)
Infinite(c) == Product(c) = 0 /\ Jaccard(c)[1] > 0
Lift(c) ==
    IF Product(c) = 0 THEN <<0, 1>>
    ELSE <<Jaccard(c)[1] * RandomFloor(c)[2], Jaccard(c)[2] * RandomFloor(c)[1]>>

Lower(x, y) == x[1] * y[2] < y[1] * x[2]

(* The k-th value from below of a function on finitely many indices.       *)
Ranked(f, k) ==
    f[CHOOSE i \in DOMAIN f :
        /\ Cardinality({j \in DOMAIN f : Lower(f[j], f[i])}) < k
        /\ k <= Cardinality({j \in DOMAIN f : ~Lower(f[i], f[j])})]

Median(f) ==
    LET size == Cardinality(DOMAIN f)
        x == Ranked(f, (size + 1) \div 2)
        y == Ranked(f, size \div 2 + 1)
    IN  <<x[1] * y[2] + y[1] * x[2], 2 * x[2] * y[2]>>

(* _ge: a median of nothing clears no threshold.                           *)
MedianReaches(f, threshold) ==
    DOMAIN f # {} /\ ~Lower(Median(f), threshold)

FiniteLifts(cs) == [i \in {i \in DOMAIN cs : ~Infinite(cs[i])} |-> Lift(cs[i])]

Jaccards(cs) == [i \in DOMAIN cs |-> Jaccard(cs[i])]

EdgeCounts(cs) == [e \in (DOMAIN cs) \X {"before", "after"} |-> <<cs[e[1]][e[2]], 1>>]

Enough(cs) == Len(cs) >= MinWindowPairs

(* stability_summary, decide_gate                                          *)
Decide(cs) ==
    IF /\ Enough(cs)
       /\ MedianReaches(EdgeCounts(cs), <<MinMedianEdges, 1>>)
       /\ MedianReaches(FiniteLifts(cs), <<MinLift, 1>>)
       /\ MedianReaches(Jaccards(cs), <<MinJaccard, 100>>)
      THEN "GO" ELSE "NO-GO"

(***************************************************************************)
(* The gate.                                                               *)
(***************************************************************************)
Measurements == [WithinSector -> {Unmeasured} \cup 1 .. Levels]

NoMeasure == [p \in WithinSector |-> Unmeasured]

(* rolling_window_bounds: only whole windows.                              *)
HasWindow == lo + Window <= rows

(* Any panel: none when there are no residuals, or none long enough.       *)
GateInit ==
    /\ rows \in 0 .. MaxRows
    /\ lo = 0 /\ measure = NoMeasure /\ filtering = FALSE
    /\ sets = <<>> /\ decision = "none"

(* pairwise_correlation and the t-test on the rows of the window: a pair   *)
(* with too few joint rows is unmeasured.                                  *)
MeasureWindow ==
    /\ decision = "none" /\ ~filtering /\ HasWindow
    /\ measure' \in Measurements
    /\ filtering' = TRUE
    /\ UNCHANGED <<rows, lo, sets, decision>>

(* window_edge_set: of the rejected pairs those below min_abs_corr go.     *)
FilterWindow ==
    /\ filtering
    /\ \E found \in SUBSET Rejected(measure) : sets' = Append(sets, found)
    /\ lo' = lo + Step
    /\ measure' = NoMeasure /\ filtering' = FALSE
    /\ UNCHANGED <<rows, decision>>

DecideGate ==
    /\ decision = "none" /\ ~filtering /\ ~HasWindow
    /\ decision' = Decide(Compared)
    /\ UNCHANGED <<rows, lo, measure, filtering, sets>>

GateNext == MeasureWindow \/ FilterWindow \/ DecideGate

GateSpec == GateInit /\ [][GateNext]_gateVars

(***************************************************************************)
(* Properties.                                                             *)
(***************************************************************************)
SelfConsistent(R, m) ==
    \A p \in R : m[p] * Cardinality(Tested(m)) <= Cardinality(R) * Alpha

(* benjamini_hochberg against its declarative meaning: the rejected pairs  *)
(* are the largest set in which every p-value is within the share of alpha *)
(* that the size of the set earns it.                                      *)
RejectsLargestSet ==
    filtering =>
        LET rejected == Rejected(measure)
        IN  /\ SelfConsistent(rejected, measure)
            /\ \A R \in SUBSET Tested(measure) :
                  SelfConsistent(R, measure) => R \subseteq rejected

(* A GO is never the artefact of empty or disjoint edge sets (two empty    *)
(* windows have Jaccard 1): some edge did recur in consecutive windows.    *)
GoMeansRecurring ==
    decision = "GO" => \E i \in 2 .. Len(sets) : sets[i - 1] \cap sets[i] # {}
=============================================================================
