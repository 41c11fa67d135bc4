---------------------------- MODULE WalkForward ----------------------------
(***************************************************************************)
(* The anchored walk-forward folds of the backtester                       *)
(* (signals/backtest.py, purged_walk_forward_splits) over n ordered rows,  *)
(* numbered from 0, and what the two runners take from them: which rows a  *)
(* variant is chosen on and which rows it then trades.                     *)
(***************************************************************************)
EXTENDS Integers, FiniteSets

CONSTANTS NSplits,  \* number of test folds
          Purge,    \* rows dropped before a test fold
          Embargo   \* width of the band dropped further back

ASSUME NSplitsAssumption == NSplits \in Nat /\ NSplits >= 2
ASSUME PurgeAssumption   == Purge \in Nat
ASSUME EmbargoAssumption == Embargo \in Nat

Folds == 1 .. NSplits

(* The first of NSplits + 1 blocks is kept as the initial training base.   *)
FoldSize(n) == n \div (NSplits + 1)

(* Neither of the ValueErrors is raised.                                   *)
Splittable(n) == n >= NSplits /\ FoldSize(n) >= 1

TestStart(n, k) == k * FoldSize(n)

(* The last fold takes the remainder.                                      *)
TestEnd(n, k) == IF k < NSplits THEN (k + 1) * FoldSize(n) - 1 ELSE n - 1

TestRows(n, k) == TestStart(n, k) .. TestEnd(n, k)

(* The embargo band: it ends one fold before the test rows, so it lies     *)
(* before the previous test fold.                                          *)
Banned(n, k) ==
    LET before == TestStart(n, k) - FoldSize(n)
    IN  {r \in 0 .. before - 1 : r >= before - Embargo}

(* Mutant of TrainRows: the purge is forgotten.                            *)
TrainRowsUnpurged(n, k) == (0 .. TestStart(n, k) - 1) \ Banned(n, k)

TrainRows(n, k) == (0 .. TestStart(n, k) - Purge - 1) \ Banned(n, k)

(* walk_forward_oos_weights passes over a fold without training rows.      *)
UsableFolds(n) == {k \in Folds : TrainRows(n, k) # {}}

(* The rows the candidate is judged on.                                    *)
OutOfSample(n) == UNION {TestRows(n, k) : k \in UsableFolds(n)}

(* The fold whose choice of variant trades row t.                          *)
FoldOf(n, t) == CHOOSE k \in UsableFolds(n) : t \in TestRows(n, k)
=============================================================================
