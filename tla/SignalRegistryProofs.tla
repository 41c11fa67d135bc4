----------------------- MODULE SignalRegistryProofs -----------------------
(***************************************************************************)
(* Proofs about the signal side.  The signal runners, for every number of  *)
(* days, rows, folds and variants: the folds themselves, the books row by  *)
(* row, and the registry's rows.  The residual-survival gate, for every    *)
(* universe, window and p-value.                                           *)
(***************************************************************************)
EXTENDS SignalRegistry, ResidualNetwork, FiniteSetTheorems, WellFoundedInduction, TLAPS

(***************************************************************************)
(* Least and greatest elements.                                            *)
(***************************************************************************)
LEMMA HasLeast ==
    ASSUME NEW S, S \subseteq Nat, S # {}
    PROVE  \E x \in S : \A y \in S : x <= y
<1> DEFINE R == OpToRel(<, Nat)
<1>1. IsWellFoundedOn(R, Nat)
    BY NatLessThanWellFounded
<1>2. \E x \in S : \A y \in S : <<y, x>> \notin R
    <2> HIDE DEF R
    <2> QED
        BY <1>1, WFMin
<1>3. PICK x \in S : \A y \in S : <<y, x>> \notin R
    BY <1>2
<1>4. ASSUME NEW y \in S PROVE x <= y
    <2>1. <<y, x>> \notin {ss \in Nat \X Nat : ss[1] < ss[2]}
        BY <1>3 DEF OpToRel
    <2> QED
        BY <2>1
<1> QED
    BY <1>4

LEMMA MinIsLeast ==
    ASSUME NEW S, S \subseteq Nat, S # {}
    PROVE  Min(S) \in S /\ \A y \in S : Min(S) <= y
BY HasLeast DEF Min

LEMMA MaxIsGreatest ==
    ASSUME NEW m \in Nat, NEW S, S \subseteq 0 .. m, S # {}
    PROVE  Max(S) \in S /\ \A y \in S : Max(S) >= y
<1> DEFINE T == {i \in 0 .. m : m - i \in S}
<1>1. T \subseteq Nat /\ T # {}
    <2>1. PICK z \in S : TRUE
        OBVIOUS
    <2>2. z \in 0 .. m
        BY <2>1
    <2>3. \E i \in 0 .. m : m - i = z
        <3>1. m - z \in 0 .. m /\ m - (m - z) = z
            BY <2>2
        <3> QED
            BY <3>1
    <2>4. T \subseteq Nat
        OBVIOUS
    <2>5. T # {}
        BY <2>1, <2>3
    <2> QED
        BY <2>4, <2>5
<1>2. PICK x \in T : \A y \in T : x <= y
    <2> HIDE DEF T
    <2> QED
        BY <1>1, HasLeast
<1>3. ASSUME NEW y \in S PROVE m - x >= y
    <2>1. m - y \in 0 .. m /\ m - (m - y) = y
        OBVIOUS
    <2>2. m - y \in T
        BY <2>1
    <2> QED
        BY <1>2, <2>2
<1>4. m - x \in S
    BY <1>2
<1> QED
    BY <1>3, <1>4 DEF Max

LEMMA TwoMax ==
    ASSUME NEW a \in Nat, NEW b \in Nat
    PROVE  Max({a, b}) \in Nat /\ Max({a, b}) >= a
<1>1. \E x \in {a, b} : \A y \in {a, b} : x >= y
    OBVIOUS
<1> QED
    BY <1>1 DEF Max

(***************************************************************************)
(* The folds.                                                              *)
(***************************************************************************)
LEMMA FoldSizeFits ==
    ASSUME NEW m \in Nat
    PROVE  FoldSize(m) \in Nat /\ FoldSize(m) * (NSplits + 1) <= m
BY NSplitsAssumption DEF FoldSize

LEMMA FoldBounds ==
    ASSUME NEW m \in Nat, NEW k \in Folds
    PROVE  TestStart(m, k) \in Nat /\ TestEnd(m, k) \in Int /\ TestEnd(m, k) < m
<1>1. FoldSize(m) \in Nat /\ FoldSize(m) * (NSplits + 1) <= m
    BY FoldSizeFits
<1>2. k * FoldSize(m) \in Nat /\ (k + 1) * FoldSize(m) \in Nat
    BY <1>1, NSplitsAssumption DEF Folds
<1>3. (k + 1) * FoldSize(m) <= (NSplits + 1) * FoldSize(m)
    BY <1>1, NSplitsAssumption DEF Folds
<1> QED
    BY <1>1, <1>2, <1>3, NSplitsAssumption DEF TestStart, TestEnd, Folds

LEMMA OutOfSampleWithin ==
    ASSUME NEW m \in Nat
    PROVE  OutOfSample(m) \subseteq 0 .. m - 1
BY FoldBounds DEF OutOfSample, UsableFolds, TestRows

LEMMA FoldOfTraded ==
    ASSUME NEW m \in Nat, NEW r \in OutOfSample(m)
    PROVE  FoldOf(m, r) \in Folds /\ r \in TestRows(m, FoldOf(m, r))
BY DEF OutOfSample, FoldOf, UsableFolds

(* The test rows of a fold come before those of every later fold, so no    *)
(* row is traded by two choices of variant.                                *)
THEOREM FoldsInOrder ==
    ASSUME NEW m \in Nat, NEW j \in Folds, NEW k \in Folds, j < k,
           NEW r \in TestRows(m, j), NEW q \in TestRows(m, k)
    PROVE  r < q
<1>1. FoldSize(m) \in Nat
    BY FoldSizeFits
<1>2. /\ j + 1 \in Nat /\ k \in Nat /\ j + 1 <= k /\ j < NSplits
    BY NSplitsAssumption DEF Folds
<1>3. (j + 1) * FoldSize(m) \in Nat /\ k * FoldSize(m) \in Nat
    BY <1>1, <1>2
<1>4. (j + 1) * FoldSize(m) <= k * FoldSize(m)
    BY <1>1, <1>2
<1> QED
    BY <1>2, <1>3, <1>4 DEF TestRows, TestStart, TestEnd

(* A variant is chosen on rows that end more than Purge rows before any    *)
(* row its fold trades.                                                    *)
THEOREM ChosenBeforeTraded ==
    ASSUME NEW m \in Nat, NEW k \in Folds, NEW r \in TrainRows(m, k),
           NEW q \in TestRows(m, k)
    PROVE  r + Purge < TestStart(m, k) /\ TestStart(m, k) <= q
BY FoldBounds, PurgeAssumption DEF TrainRows, TestRows

(***************************************************************************)
(* The inductive invariant.                                                *)
(***************************************************************************)
Sound(v) ==
    /\ v.promoted => v.beats /\ v.dsr # "undefined" /\ v.pbo # "undefined"
    /\ v.trials \in Nat /\ v.trials >= 1 /\ v.trials >= GridSize

(* A script at work has rows, and walks the out-of-sample ones.            *)
OnPanel ==
    /\ at # "idle" => n >= 1
    /\ at # "books" => row = -1
    /\ Walking => row \in TestIndex(n)

(* The stress book is never short, also before its first row.              *)
Feasibly ==
    /\ held["stress"] >= 0
    /\ Walking /\ locked => \A b \in Feasible : held[b] = before[b]

(* A reached verdict is sound, and its snapshot lands before it.           *)
Judged ==
    /\ at \in {"corr", "registry", "report"} => Sound(verdict)
    /\ at = "corr" => Refits(n) # {}
    /\ (at = "registry" /\ sig = M5) =>
           \E c \in corr : c.knowledge = asof /\ c.end <= LastTest(n)

SoundRows == \A r \in registry : Sound(r.verdict)

RegistryInv == TypeOK /\ OnPanel /\ Feasibly /\ Judged /\ SoundRows /\ SnapshotBehindVerdict

LEMMA Constants ==
    /\ LastDay \in Nat /\ MaxRuns \in Nat /\ GridSize \in Nat \ {0}
    /\ EdgeWindow \in Nat \ {0} /\ PanelMinObs \in Nat \ {0}
BY BoundsAssumption, WindowAssumption

LEMMA FlatBooks == Flat \in [Books -> Sign] /\ Flat["stress"] = 0
BY DEF Flat, Books, Sign

(* Whatever the numbers were, an evaluation is a sound verdict.            *)
LEMMA EvaluateSound ==
    ASSUME NEW cand \in Sharpe \cup {NaN}, NEW best \in Sharpe \cup {NaN},
           NEW dsr \in Grade, NEW pbo \in Grade, NEW columns \in Nat
    PROVE  Evaluate(cand, best, dsr, pbo, columns) \in Verdict
           /\ Sound(Evaluate(cand, best, dsr, pbo, columns))
<1>1. Trials(columns) \in Nat /\ Trials(columns) >= GridSize
    BY Constants, TwoMax DEF Trials
<1>2. Beats(cand, best) \in BOOLEAN /\ Promoted(cand, best, dsr, pbo) \in BOOLEAN
    BY DEF Beats, Promoted
<1>3. Promoted(cand, best, dsr, pbo) =>
        Beats(cand, best) /\ dsr # "undefined" /\ pbo # "undefined"
    BY DEF Promoted
<1>4. Evaluate(cand, best, dsr, pbo, columns) \in Verdict
    BY <1>1, <1>2 DEF Evaluate, Verdict
<1>5. Sound(Evaluate(cand, best, dsr, pbo, columns))
    BY <1>1, <1>3, Constants DEF Evaluate, Sound
<1> QED
    BY <1>4, <1>5

LEMMA NoVerdictSound == NoVerdict \in Verdict
BY EvaluateSound DEF NoVerdict, Grade

LEMMA RefitsWithin ==
    ASSUME NEW m \in Nat, Refits(m) # {}
    PROVE  Max(Refits(m)) \in 0 .. m - 1
<1>1. Refits(m) \subseteq 0 .. m /\ Refits(m) \subseteq 0 .. m - 1
    BY Constants DEF Refits
<1> QED
    BY <1>1, MaxIsGreatest

LEMMA InitRegistry == Init => RegistryInv
<1> SUFFICES ASSUME Init PROVE RegistryInv
    OBVIOUS
<1>1. TypeOK
    <2>1. /\ today \in Days /\ fitTo \in 0 .. LastDay /\ asof \in Days
          /\ n \in 0 .. LastDay /\ row \in -1 .. LastDay - 1 /\ runs \in 0 .. MaxRuns
        BY Constants DEF Init, Days
    <2>2. /\ held \in [Books -> Sign] /\ before \in [Books -> Sign] /\ verdict \in Verdict
        BY FlatBooks, NoVerdictSound DEF Init
    <2> QED
        BY <2>1, <2>2 DEF Init, TypeOK, Steps, Signals
<1>2. OnPanel /\ Feasibly
    BY FlatBooks DEF Init, OnPanel, Feasibly, Walking
<1>3. Judged /\ SoundRows /\ SnapshotBehindVerdict
    BY DEF Init, Judged, SoundRows, SnapshotBehindVerdict
<1> QED
    BY <1>1, <1>2, <1>3 DEF RegistryInv

(* The end of a script, however it came: what has landed stays.            *)
LEMMA EndKeeps ==
    ASSUME RegistryInv, NEW result \in {"ok", "failed", "raised"}, End(result),
           UNCHANGED storeVars, worldVars' = worldVars,
           sig' \in Signals, asof' \in Days, runs' \in 0 .. MaxRuns
    PROVE  RegistryInv'
<1>1. TypeOK'
    <2>1. n' \in 0 .. LastDay /\ row' \in -1 .. LastDay - 1
        BY Constants DEF RegistryInv, End, TypeOK, Days
    <2>2. /\ held' \in [Books -> Sign] /\ before' \in [Books -> Sign] /\ verdict' \in Verdict
        BY FlatBooks, NoVerdictSound DEF End
    <2> QED
        BY <2>1, <2>2 DEF RegistryInv, End, TypeOK, storeVars, worldVars, Steps
<1>2. OnPanel' /\ Feasibly'
    BY FlatBooks DEF End, OnPanel, Feasibly, Walking
<1>3. Judged' /\ SoundRows' /\ SnapshotBehindVerdict'
    BY DEF RegistryInv, End, Judged, SoundRows, SnapshotBehindVerdict, storeVars
<1> QED
    BY <1>1, <1>2, <1>3 DEF RegistryInv

(* Time and the fit move, or nothing does.                                 *)
LEMMA WorldKeeps ==
    ASSUME RegistryInv, NextDay \/ Refit \/ UNCHANGED vars
    PROVE  RegistryInv'
<1>1. UNCHANGED <<storeVars, at, sig, asof, n, walkVars, verdict, code, runs>>
    BY DEF NextDay, Refit, vars
<1>2. today' \in Days /\ fitTo' \in 0 .. LastDay
    BY Constants DEF RegistryInv, TypeOK, NextDay, Refit, vars, worldVars, Days
<1>3. TypeOK'
    BY <1>1, <1>2 DEF RegistryInv, TypeOK, storeVars, walkVars
<1>4. OnPanel' /\ Feasibly'
    BY <1>1 DEF RegistryInv, OnPanel, Feasibly, Walking, walkVars
<1>5. Judged' /\ SoundRows' /\ SnapshotBehindVerdict'
    BY <1>1 DEF RegistryInv, Judged, SoundRows, SnapshotBehindVerdict, storeVars
<1> QED
    BY <1>3, <1>4, <1>5 DEF RegistryInv

LEMMA LaunchKeeps ==
    ASSUME RegistryInv, NEW s \in Signals, NEW a \in Days, Launch(s, a)
    PROVE  RegistryInv'
<1>1. /\ UNCHANGED storeVars /\ worldVars' = worldVars
      /\ sig' \in Signals /\ asof' \in Days /\ runs' \in 0 .. MaxRuns
    BY Constants DEF Launch, RegistryInv, TypeOK
<1>2. CASE \E result \in {"ok", "failed", "raised"} : End(result)
    BY <1>1, <1>2, EndKeeps
<1>3. CASE /\ ~NothingToRun(s, a) /\ ~NothingLanded(s, a)
           /\ at' = "folds" /\ n' = PanelRows(s, a) /\ code' = "none"
           /\ UNCHANGED <<walkVars, verdict>>
    <2>1. PanelRows(s, a) \in 1 .. LastDay
        <3>1. \E x \in {a, fitTo} : \A y \in {a, fitTo} : x <= y
            BY Constants DEF RegistryInv, TypeOK, Days
        <3>2. Min({a, fitTo}) \in {a, fitTo}
            BY <3>1 DEF Min
        <3>3. a \in Nat /\ a >= 1 /\ a <= LastDay /\ fitTo \in 0 .. LastDay
            BY Constants DEF RegistryInv, TypeOK, Days
        <3> QED
            BY <1>3, <3>2, <3>3, Constants DEF PanelRows, NothingToRun
    <2>2. TypeOK'
        BY <1>1, <1>3, <2>1 DEF RegistryInv, TypeOK, storeVars, worldVars, walkVars, Steps
    <2>5. row' = -1 /\ n' >= 1 /\ held' = held
        BY <1>3, <2>1 DEF Launch, RegistryInv, OnPanel, walkVars
    <2>3. OnPanel' /\ Feasibly'
        BY <1>3, <2>5 DEF RegistryInv, OnPanel, Feasibly, Walking
    <2>4. Judged' /\ SoundRows' /\ SnapshotBehindVerdict'
        BY <1>1, <1>3 DEF RegistryInv, Judged, SoundRows, SnapshotBehindVerdict, storeVars
    <2> QED
        BY <2>2, <2>3, <2>4 DEF RegistryInv
<1> QED
    BY <1>2, <1>3 DEF Launch, EndEmpty

LEMMA ChooseKeeps == ASSUME RegistryInv, ChooseVariants PROVE RegistryInv'
<1>1. /\ UNCHANGED storeVars /\ worldVars' = worldVars
      /\ sig' \in Signals /\ asof' \in Days /\ runs' \in 0 .. MaxRuns
      /\ UNCHANGED <<sig, asof, runs>>
    BY DEF ChooseVariants, RegistryInv, TypeOK
<1>2. CASE \E result \in {"ok", "failed", "raised"} : End(result)
    BY <1>1, <1>2, EndKeeps
<1>3. CASE at = "folds" /\ at' = "books" /\ UNCHANGED <<n, walkVars, verdict, code>>
    <2>1. TypeOK'
        BY <1>1, <1>3 DEF RegistryInv, TypeOK, storeVars, worldVars, walkVars, Steps
    <2>2. row' = -1 /\ n' >= 1 /\ held' = held
        BY <1>3 DEF RegistryInv, OnPanel, walkVars
    <2>3. OnPanel' /\ Feasibly'
        BY <1>3, <2>2 DEF RegistryInv, OnPanel, Feasibly, Walking
    <2>4. Judged' /\ SoundRows' /\ SnapshotBehindVerdict'
        BY <1>1, <1>3 DEF RegistryInv, Judged, SoundRows, SnapshotBehindVerdict, storeVars
    <2> QED
        BY <2>1, <2>3, <2>4 DEF RegistryInv
<1> QED
    BY <1>2, <1>3 DEF ChooseVariants, EndEmpty

(* A row keeps what was held over a lock, and the stress book shorts never.*)
LEMMA WalkKeeps ==
    ASSUME RegistryInv, NEW target \in Sign, NEW lock \in LockFlags(sig), WalkRow(target, lock)
    PROVE  RegistryInv'
<1>1. UNCHANGED <<worldVars, storeVars, at, sig, asof, n, verdict, code, runs>> /\ at = "books"
    BY DEF WalkRow
<1>2. row' \in TestIndex(n) /\ row' \in 0 .. LastDay - 1
    <2>1. n \in Nat /\ n <= LastDay
        BY Constants DEF RegistryInv, TypeOK
    <2>2. TestIndex(n) \subseteq 0 .. n - 1
        BY <2>1, OutOfSampleWithin DEF TestIndex
    <2>3. Ahead \subseteq Nat /\ Ahead # {}
        BY <2>2 DEF WalkRow, Ahead
    <2>4. row' \in Ahead
        BY <2>3, MinIsLeast DEF WalkRow
    <2> QED
        BY <2>1, <2>2, <2>4, Constants DEF Ahead
<1>3. /\ before' = held /\ locked' = lock /\ lock \in BOOLEAN
      /\ held' = [b \in Books |-> Position(b, target, lock, held)]
    BY DEF WalkRow, LockFlags
<1>4. \A b \in Books : Position(b, target, lock, held) \in Sign
    BY DEF RegistryInv, TypeOK, Position, Allowed, Sign
<1>5. held'["stress"] >= 0
    <2>1. held'["stress"] = Position("stress", target, lock, held)
        BY <1>3 DEF Books
    <2>2. CASE lock
        BY <2>1, <2>2 DEF Position, Feasible, RegistryInv, Feasibly
    <2>3. CASE ~lock
        BY <2>1, <2>3 DEF Position, Allowed, Sign
    <2> QED
        BY <2>2, <2>3
<1>6. lock => \A b \in Feasible : held'[b] = held[b]
    BY <1>3 DEF Position, Feasible, Books
<1>7. TypeOK'
    <2>1. held' \in [Books -> Sign] /\ before' \in [Books -> Sign] /\ locked' \in BOOLEAN
        BY <1>3, <1>4 DEF RegistryInv, TypeOK
    <2>2. row' \in -1 .. LastDay - 1
        BY <1>2, Constants
    <2> QED
        BY <1>1, <2>1, <2>2 DEF RegistryInv, TypeOK, storeVars, worldVars
<1>8. OnPanel' /\ Feasibly'
    BY <1>1, <1>2, <1>3, <1>5, <1>6 DEF RegistryInv, OnPanel, Feasibly, Walking
<1>9. Judged' /\ SoundRows' /\ SnapshotBehindVerdict'
    BY <1>1 DEF RegistryInv, Judged, SoundRows, SnapshotBehindVerdict, storeVars
<1> QED
    BY <1>7, <1>8, <1>9 DEF RegistryInv

LEMMA CloseKeeps == ASSUME RegistryInv, CloseBooks PROVE RegistryInv'
<1>1. /\ UNCHANGED <<worldVars, storeVars, sig, asof, n, verdict, code, runs>>
      /\ at = "books" /\ at' = "judge"
      /\ row' = -1 /\ held' = Flat /\ before' = Flat /\ locked' = FALSE
    BY DEF CloseBooks
<1>2. TypeOK'
    <2>1. row' \in -1 .. LastDay - 1
        BY <1>1, Constants
    <2> QED
        BY <1>1, <2>1, FlatBooks DEF RegistryInv, TypeOK, storeVars, worldVars, Steps
<1>3. OnPanel' /\ Feasibly'
    BY <1>1, FlatBooks DEF RegistryInv, OnPanel, Feasibly, Walking
<1>4. Judged' /\ SoundRows' /\ SnapshotBehindVerdict'
    BY <1>1 DEF RegistryInv, Judged, SoundRows, SnapshotBehindVerdict, storeVars
<1> QED
    BY <1>2, <1>3, <1>4 DEF RegistryInv

LEMMA JudgeKeeps == ASSUME RegistryInv, Judge PROVE RegistryInv'
<1>1. /\ UNCHANGED <<worldVars, storeVars, sig, asof, n, walkVars, code, runs>>
      /\ at = "judge"
    BY DEF Judge
<1>2. verdict' \in Verdict /\ Sound(verdict')
    <2>1. PICK cand \in Sharpe \cup {NaN}, best \in Sharpe \cup {NaN}, columns \in 1 .. GridSize,
               pbo \in PBOs(Cardinality(TestIndex(n))) :
               \E dsr \in DSRs(cand) : verdict' = Evaluate(cand, best, dsr, pbo, columns)
        BY DEF Judge
    <2>2. PICK dsr \in DSRs(cand) : verdict' = Evaluate(cand, best, dsr, pbo, columns)
        BY <2>1
    <2>3. pbo \in Grade /\ dsr \in Grade /\ columns \in Nat
        BY Constants DEF PBOs, DSRs, Grade
    <2> QED
        BY <2>2, <2>3, EvaluateSound
<1>3. PICK edges \in BOOLEAN : (edges => Refits(n) # {}) /\ at' = AfterVerdict(edges)
    BY DEF Judge
<1>4. /\ at' \in {"corr", "registry", "report"}
      /\ at' = "corr" => Refits(n) # {}
      /\ sig = M5 => at' # "registry"
    BY <1>3, SignalsAssumption DEF AfterVerdict
<1>5. TypeOK'
    BY <1>1, <1>2, <1>4 DEF RegistryInv, TypeOK, storeVars, worldVars, walkVars, Steps
<1>6. OnPanel' /\ Feasibly'
    <2>1. row' = -1 /\ n' >= 1 /\ held' = held
        BY <1>1 DEF RegistryInv, OnPanel, walkVars
    <2> QED
        BY <1>4, <2>1 DEF RegistryInv, OnPanel, Feasibly, Walking
<1>7. Judged' /\ SoundRows' /\ SnapshotBehindVerdict'
    BY <1>1, <1>2, <1>4 DEF RegistryInv, Judged, SoundRows, SnapshotBehindVerdict, storeVars, Sound
<1> QED
    BY <1>5, <1>6, <1>7 DEF RegistryInv

(* The snapshot lands with the day of the judgement, inside the panel.     *)
LEMMA LandCorrKeeps == ASSUME RegistryInv, LandCorr PROVE RegistryInv'
<1>1. /\ UNCHANGED <<worldVars, registry, sig, asof, n, walkVars, verdict, code, runs>>
      /\ at = "corr" /\ at' = "registry"
      /\ corr' = corr \cup {[knowledge |-> asof, end |-> DayOf(Max(Refits(n)))]}
    BY DEF LandCorr
<1>2. DayOf(Max(Refits(n))) \in 1 .. n /\ n \in 0 .. LastDay
    <2>1. n \in 0 .. LastDay /\ Refits(n) # {}
        BY <1>1 DEF RegistryInv, TypeOK, Judged
    <2>2. Max(Refits(n)) \in 0 .. n - 1
        BY <2>1, RefitsWithin, Constants
    <2> QED
        BY <2>1, <2>2, Constants DEF DayOf
<1>3. TypeOK'
    <2>1. DayOf(Max(Refits(n))) \in Days /\ asof \in Days
        BY <1>2, Constants DEF Days, RegistryInv, TypeOK
    <2>2. corr' \subseteq [knowledge : Days, end : Days]
        BY <1>1, <2>1 DEF RegistryInv, TypeOK
    <2> QED
        BY <1>1, <2>2 DEF RegistryInv, TypeOK, worldVars, walkVars, Steps
<1>4. OnPanel' /\ Feasibly'
    <2>1. row' = -1 /\ n' >= 1 /\ held' = held
        BY <1>1 DEF RegistryInv, OnPanel, walkVars
    <2> QED
        BY <1>1, <2>1 DEF RegistryInv, OnPanel, Feasibly, Walking
<1>5. Judged'
    <2>1. LastTest(n') = n
        BY <1>1, <1>2, Constants DEF LastTest, DayOf
    <2>2. DayOf(Max(Refits(n))) <= LastTest(n')
        BY <1>2, <2>1, Constants
    <2>3. \E c \in corr' : c.knowledge = asof' /\ c.end = DayOf(Max(Refits(n)))
        <3>1. asof' = asof
            BY <1>1
        <3>2. [knowledge |-> asof, end |-> DayOf(Max(Refits(n)))] \in corr'
            BY <1>1
        <3> QED
            BY <3>1, <3>2
    <2>4. \E c \in corr' : c.knowledge = asof' /\ c.end <= LastTest(n')
        BY <2>2, <2>3
    <2> QED
        BY <1>1, <2>4 DEF RegistryInv, Judged
<1>6. SoundRows' /\ SnapshotBehindVerdict'
    BY <1>1 DEF RegistryInv, SoundRows, SnapshotBehindVerdict
<1> QED
    BY <1>3, <1>4, <1>5, <1>6 DEF RegistryInv

LEMMA TestsCounted == ASSUME RegistryInv PROVE Cardinality(TestIndex(n)) \in 0 .. LastDay
<1>1. n \in Nat /\ n <= LastDay
    BY Constants DEF RegistryInv, TypeOK
<1>2. IsFiniteSet(0 .. n - 1) /\ Cardinality(0 .. n - 1) = n
    BY <1>1, FS_Interval
<1>3. TestIndex(n) \in SUBSET (0 .. n - 1)
    BY <1>1, OutOfSampleWithin DEF TestIndex
<1>4. IsFiniteSet(TestIndex(n)) /\ Cardinality(TestIndex(n)) <= n
    BY <1>2, <1>3, FS_Subset
<1>5. Cardinality(TestIndex(n)) \in Nat
    BY <1>4, FS_CardinalityType
<1> QED
    BY <1>1, <1>4, <1>5, Constants

(* The row that lands is sound, and its snapshot is there before it.       *)
LEMMA LandRegistryKeeps == ASSUME RegistryInv, LandRegistry PROVE RegistryInv'
<1>1. /\ UNCHANGED <<worldVars, corr, sig, asof, n, walkVars, verdict, code, runs>>
      /\ at = "registry" /\ at' = "report"
      /\ registry' \subseteq registry \cup {Entry}
    BY DEF LandRegistry, Recorded
<1>2. Entry.sig = sig /\ Entry.knowledge = LastTest(n) /\ Entry.judged = asof
      /\ Entry.verdict = verdict
    BY DEF Entry
<1>3. TypeOK'
    <2>1. LastTest(n) \in Days
        BY <1>1, Constants DEF RegistryInv, TypeOK, OnPanel, LastTest, DayOf, Days
    <2>2. Entry \in Rows
        BY <2>1, TestsCounted DEF RegistryInv, TypeOK, Entry, Rows
    <2> QED
        BY <1>1, <2>2 DEF RegistryInv, TypeOK, worldVars, walkVars, Steps
<1>4. OnPanel' /\ Feasibly'
    <2>1. row' = -1 /\ n' >= 1 /\ held' = held
        BY <1>1 DEF RegistryInv, OnPanel, walkVars
    <2> QED
        BY <1>1, <2>1 DEF RegistryInv, OnPanel, Feasibly, Walking
<1>5. Judged'
    BY <1>1 DEF RegistryInv, Judged
<1>6. Sound(Entry.verdict)
    BY <1>1, <1>2 DEF RegistryInv, Judged
<1>7. SoundRows'
    BY <1>1, <1>6 DEF RegistryInv, SoundRows
<1>8. sig = M5 => \E c \in corr : c.knowledge = Entry.judged /\ c.end <= Entry.knowledge
    BY <1>1, <1>2 DEF RegistryInv, Judged
<1>9. SnapshotBehindVerdict'
    BY <1>1, <1>2, <1>8 DEF RegistryInv, SnapshotBehindVerdict
<1> QED
    BY <1>3, <1>4, <1>5, <1>7, <1>9 DEF RegistryInv

LEMMA RegistryStep == RegistryInv /\ [Next]_vars => RegistryInv'
<1> SUFFICES ASSUME RegistryInv, [Next]_vars PROVE RegistryInv'
    OBVIOUS
<1>1. CASE NextDay \/ Refit \/ UNCHANGED vars
    BY <1>1, WorldKeeps
<1>2. CASE \E s \in Signals, a \in Days : Launch(s, a)
    BY <1>2, LaunchKeeps
<1>3. CASE ChooseVariants
    BY <1>3, ChooseKeeps
<1>4. CASE \E target \in Sign, lock \in LockFlags(sig) : WalkRow(target, lock)
    BY <1>4, WalkKeeps
<1>5. CASE CloseBooks
    BY <1>5, CloseKeeps
<1>6. CASE Judge
    BY <1>6, JudgeKeeps
<1>7. CASE LandCorr
    BY <1>7, LandCorrKeeps
<1>8. CASE LandRegistry
    BY <1>8, LandRegistryKeeps
<1>9. CASE Report \/ Die
    <2>1. /\ \E result \in {"ok", "failed", "raised"} : End(result)
          /\ UNCHANGED storeVars /\ worldVars' = worldVars
          /\ UNCHANGED <<sig, asof, runs>>
        BY <1>9 DEF Report, Die
    <2> QED
        BY <2>1, EndKeeps DEF RegistryInv, TypeOK
<1> QED
    BY <1>1, <1>2, <1>3, <1>4, <1>5, <1>6, <1>7, <1>8, <1>9 DEF Next

(***************************************************************************)
(* The theorems.                                                           *)
(***************************************************************************)
(* The inductive invariant of the runners and their ledger.                *)
THEOREM RegistryAlways == Spec => []RegistryInv
<1>1. Init => RegistryInv
    BY InitRegistry
<1>2. RegistryInv /\ [Next]_vars => RegistryInv'
    BY RegistryStep
<1> QED
    BY <1>1, <1>2, PTL DEF Spec

(* Type correctness of the runners, the registry and the edge snapshots.   *)
THEOREM RegistryTypeOK == Spec => []TypeOK
BY RegistryAlways, PTL DEF RegistryInv

(* No feasible book trades a locked row, no stress book ends a row short.  *)
THEOREM RegistryBooksTradable == Spec => []BooksTradable
<1>1. RegistryInv => BooksTradable
    BY DEF RegistryInv, Feasibly, BooksTradable
<1> QED
    BY <1>1, RegistryAlways, PTL

(* No row of the ledger fails the hygiene monitor, whatever was undefined. *)
THEOREM RegistryLedgerCoherent == Spec => []LedgerCoherent
<1>1. RegistryInv => LedgerCoherent
    BY DEF RegistryInv, SoundRows, Sound, LedgerCoherent, Hygienic
<1> QED
    BY <1>1, RegistryAlways, PTL

(* No verdict on residuals without the edge snapshot it rests on.          *)
THEOREM RegistrySnapshotBehindVerdict == Spec => []SnapshotBehindVerdict
<1>1. RegistryInv => SnapshotBehindVerdict
    BY DEF RegistryInv
<1> QED
    BY <1>1, RegistryAlways, PTL

(* The weight of a stat-arb row is decided on earlier rows only.           *)
LEMMA StatArbLooksBack ==
    ASSUME NEW m \in Nat, NEW r \in Nat, NEW q \in StatArbRows(m, r)
    PROVE  q < r
<1>1. PICK s \in From(r - 1, Lookback) : q \in SpreadRows(m, s)
    BY DEF StatArbRows
<1>2. s \in Int /\ s <= r - 1
    BY <1>1 DEF From
<1>3. q \in Int /\ q <= s
    <2>1. CASE q = s
        BY <1>2, <2>1
    <2>2. CASE \E e \in Refits(m) : e <= s /\ q \in From(e, EdgeWindow)
        BY <1>2, <2>2, Constants DEF From, Refits
    <2> QED
        BY <1>1, <2>1, <2>2 DEF SpreadRows
<1> QED
    BY <1>2, <1>3

(* Every row is traded by a choice made Purge rows before its fold, and    *)
(* stat-arb weights use earlier rows only.                                 *)
THEOREM RegistryDecidedOnThePast == Spec => []DecidedOnThePast
<1>1. RegistryInv => DecidedOnThePast
    <2> SUFFICES ASSUME RegistryInv, Walking PROVE DecidedOnThePast
        BY DEF DecidedOnThePast
    <2> DEFINE k == FoldOf(n, row)
    <2>1. n \in Nat /\ row \in Nat /\ row \in OutOfSample(n)
        BY Constants DEF RegistryInv, TypeOK, OnPanel, Walking, TestIndex
    <2>2. k \in Folds /\ row \in TestRows(n, k)
        BY <2>1, FoldOfTraded
    <2>3. \A r \in TrainRows(n, k) : r + Purge < TestStart(n, k)
        BY <2>1, <2>2, ChosenBeforeTraded
    <2>4. sig = M5 => \A r \in WeightRows(M5, n, row) : r < row
        BY <2>1, StatArbLooksBack DEF WeightRows
    <2> QED
        BY <2>2, <2>3, <2>4 DEF DecidedOnThePast
<1> QED
    BY <1>1, RegistryAlways, PTL

(***************************************************************************)
(* The residual-survival gate.                                             *)
(***************************************************************************)

(* A finite set can be listed in the order of a number of its elements.    *)
LEMMA SortedExists ==
    ASSUME NEW S, IsFiniteSet(S), NEW m, \A x \in S : m[x] \in Nat
    PROVE  \E s \in [1 .. Cardinality(S) -> S] :
               /\ IsInjective(s)
               /\ \A i, j \in DOMAIN s : i < j => m[s[i]] <= m[s[j]]
<1> DEFINE Listed(T) == \E s \in [1 .. Cardinality(T) -> T] :
                           /\ IsInjective(s)
                           /\ \A i, j \in DOMAIN s : i < j => m[s[i]] <= m[s[j]]
           Bad == {k \in Nat : \E T \in SUBSET S : Cardinality(T) = k /\ ~Listed(T)}
<1>1. SUFFICES ASSUME Bad # {} PROVE FALSE
    <2>1. Cardinality(S) \in Nat /\ S \in SUBSET S
        BY FS_CardinalityType
    <2>2. ~Listed(S) => Cardinality(S) \in Bad
        BY <2>1
    <2> HIDE DEF Bad
    <2> QED
        BY <1>1, <2>2
<1>2. PICK k \in Bad : \A j \in Bad : k <= j
    <2> HIDE DEF Bad
    <2>1. Bad \subseteq Nat
        BY DEF Bad
    <2> QED
        BY <1>1, <2>1, HasLeast
<1> HIDE DEF Listed
<1>3. PICK T \in SUBSET S : Cardinality(T) = k /\ ~Listed(T)
    BY <1>2
<1>4. IsFiniteSet(T) /\ k \in Nat
    BY <1>2, <1>3, FS_Subset
<1>5. T # {}
    <2> SUFFICES ASSUME T = {}
                 PROVE  FALSE
        OBVIOUS
    <2>1. Cardinality(T) = 0
        BY FS_EmptySet
    <2>2. <<>> \in [1 .. 0 -> T] /\ DOMAIN <<>> = 1 .. 0
        OBVIOUS
    <2>3. Listed(T)
        BY <2>1, <2>2 DEF Listed, IsInjective
    <2> QED
        BY <1>3, <2>3
<1>6. PICK p \in T : \A x \in T : m[p] <= m[x]
    <2> DEFINE V == {m[x] : x \in T}
    <2>1. V \subseteq Nat /\ V # {}
        BY <1>5
    <2>2. PICK v \in V : \A w \in V : v <= w
        <3> HIDE DEF V
        <3> QED
            BY <2>1, HasLeast
    <2> QED
        BY <2>2
<1> DEFINE U == T \ {p}
<1>7. Cardinality(U) = k - 1 /\ k - 1 \in Nat /\ U \in SUBSET S
    <2>1. IsFiniteSet(U) /\ Cardinality(U) = k - 1
        BY <1>3, <1>4, FS_RemoveElement
    <2>2. Cardinality(U) \in Nat
        BY <2>1, FS_CardinalityType
    <2> QED
        BY <2>1, <2>2
<1>8. Listed(U)
    <2> SUFFICES ASSUME ~Listed(U)
                 PROVE  FALSE
        OBVIOUS
    <2>1. k - 1 \in Bad
        BY <1>7
    <2> QED
        BY <1>2, <1>4, <2>1
<1>9. PICK t \in [1 .. k - 1 -> U] :
         IsInjective(t) /\ \A i, j \in DOMAIN t : i < j => m[t[i]] <= m[t[j]]
    BY <1>7, <1>8 DEF Listed
<1> DEFINE s == [i \in 1 .. k |-> IF i = 1 THEN p ELSE t[i - 1]]
<1>10. \A i \in 1 .. k : i # 1 => i - 1 \in 1 .. k - 1 /\ s[i] = t[i - 1] /\ s[i] \in U
    <2> TAKE i \in 1 .. k
    <2> HAVE i # 1
    <2>1. i - 1 \in 1 .. k - 1
        BY <1>4
    <2> QED
        BY <1>9, <2>1
<1>11. s \in [1 .. k -> T] /\ (\A i \in 1 .. k : i = 1 => s[i] = p) /\ DOMAIN s = 1 .. k
    BY <1>10
<1> HIDE DEF s
<1>12. \A i, j \in 1 .. k : s[i] = s[j] => i = j
    <2> SUFFICES ASSUME NEW i \in 1 .. k, NEW j \in 1 .. k, s[i] = s[j]
                 PROVE  i = j
        OBVIOUS
    <2>1. CASE i = 1 \/ j = 1
        BY <1>10, <1>11, <2>1
    <2>2. CASE i # 1 /\ j # 1
        <3>1. /\ i - 1 \in 1 .. k - 1 /\ j - 1 \in 1 .. k - 1
              /\ t[i - 1] = t[j - 1]
            BY <1>10, <2>2
        <3>2. i - 1 = j - 1
            BY <1>9, <3>1 DEF IsInjective
        <3> QED
            BY <1>4, <3>2
    <2> QED
        BY <2>1, <2>2
<1>13. \A i, j \in 1 .. k : i < j => m[s[i]] <= m[s[j]]
    <2> SUFFICES ASSUME NEW i \in 1 .. k, NEW j \in 1 .. k, i < j
                 PROVE  m[s[i]] <= m[s[j]]
        OBVIOUS
    <2>1. s[j] \in T /\ j # 1
        BY <1>4, <1>11
    <2>2. CASE i = 1
        BY <1>6, <1>11, <2>1, <2>2
    <2>3. CASE i # 1
        <3>1. /\ i - 1 \in 1 .. k - 1 /\ j - 1 \in 1 .. k - 1 /\ i - 1 < j - 1
              /\ s[i] = t[i - 1] /\ s[j] = t[j - 1]
            BY <1>4, <1>10, <2>1, <2>3
        <3> QED
            BY <1>9, <3>1
    <2> QED
        BY <2>2, <2>3
<1>14. Listed(T)
    BY <1>3, <1>11, <1>12, <1>13 DEF Listed, IsInjective
<1> QED
    BY <1>3, <1>14

LEMMA TestedFinite == \A m : IsFiniteSet(Tested(m)) /\ Cardinality(Tested(m)) \in Nat
<1> TAKE m
<1>1. IsFiniteSet(SUBSET Names)
    BY TestAssumption, FS_SUBSET
<1>2. Tested(m) \in SUBSET (SUBSET Names)
    BY DEF Tested, WithinSector, Pairs
<1>3. IsFiniteSet(Tested(m))
    BY <1>1, <1>2, FS_Subset
<1> QED
    BY <1>3, FS_CardinalityType

(* The sorted pairs are all tested pairs, once each, by p-value.           *)
LEMMA ByPValueSorts ==
    ASSUME NEW m \in Measurements, NEW N, N = Cardinality(Tested(m))
    PROVE  /\ ByPValue(m) \in [1 .. N -> Tested(m)] /\ Len(ByPValue(m)) = N
           /\ \A i, j \in 1 .. N : ByPValue(m)[i] = ByPValue(m)[j] => i = j
           /\ \A i, j \in 1 .. N : i < j => m[ByPValue(m)[i]] <= m[ByPValue(m)[j]]
           /\ \A p \in Tested(m) : \E i \in 1 .. N : ByPValue(m)[i] = p
<1> DEFINE S == Tested(m)
           s == ByPValue(m)
<1>1. IsFiniteSet(S) /\ N \in Nat
    BY TestedFinite
<1>2. \A x \in S : m[x] \in Nat
    BY TestAssumption DEF Tested, Measurements, Unmeasured
<1>3. /\ s \in [1 .. N -> S] /\ IsInjective(s)
      /\ \A i, j \in DOMAIN s : i < j => m[s[i]] <= m[s[j]]
    <2> HIDE DEF S
    <2>1. \E t \in [1 .. Cardinality(S) -> S] :
             /\ IsInjective(t)
             /\ \A i, j \in DOMAIN t : i < j => m[t[i]] <= m[t[j]]
        BY <1>1, <1>2, SortedExists
    <2> QED
        BY <2>1 DEF ByPValue, S
<1> HIDE DEF S, s
<1>4. s \in Injection(1 .. N, S)
    BY <1>3 DEF Injection
<1>5. IsFiniteSet(1 .. N) /\ Cardinality(1 .. N) = N
    BY <1>1, FS_Interval
<1>6. s \in Surjection(1 .. N, S)
    BY <1>1, <1>4, <1>5, FS_Injection DEF S
<1>7. Len(s) = N /\ DOMAIN s = 1 .. N
    BY <1>1, <1>3
<1>8. \A p \in S : \E i \in 1 .. N : s[i] = p
    BY <1>6 DEF Surjection
<1>9. \A i, j \in 1 .. N : s[i] = s[j] => i = j
    BY <1>3, <1>7 DEF IsInjective
<1> QED
    BY <1>3, <1>7, <1>8, <1>9 DEF S, s

LEMMA TimesMonotone ==
    \A a, b \in Nat : \A c \in Nat : a <= b => a * c <= b * c
OBVIOUS

(* A set of ranks has at most as many members as its greatest rank.        *)
LEMMA RanksWithin ==
    ASSUME NEW k \in Nat, NEW T, T \subseteq 1 .. k
    PROVE  IsFiniteSet(T) /\ Cardinality(T) <= k
<1>1. IsFiniteSet(1 .. k) /\ Cardinality(1 .. k) = k
    BY FS_Interval
<1> QED
    BY <1>1, FS_Subset

LEMMA GreatestRank ==
    ASSUME NEW k \in Nat, NEW B, B \subseteq 1 .. k
    PROVE  LET r == Max(B \cup {0})
           IN  r \in 0 .. k /\ (r # 0 => r \in B) /\ \A i \in B : i <= r
<1> DEFINE r == Max(B \cup {0})
<1>1. B \cup {0} \subseteq 0 .. k /\ B \cup {0} # {}
    OBVIOUS
<1>2. r \in B \cup {0} /\ \A i \in B \cup {0} : r >= i
    BY <1>1, MaxIsGreatest
<1> HIDE DEF r
<1>3. r \in 0 .. k /\ (r # 0 => r \in B) /\ \A i \in B : i <= r
    BY <1>1, <1>2
<1> QED
    BY <1>3 DEF r

(* What Rejected takes: the first r pairs, r the last rank below its       *)
(* threshold.                                                              *)
LEMMA RejectedShape ==
    ASSUME NEW m \in Measurements, NEW N, N = Cardinality(Tested(m)),
           NEW r, r = Max(Below(m, ByPValue(m)) \cup {0})
    PROVE  /\ r \in 0 .. N
           /\ r # 0 => r \in Below(m, ByPValue(m))
           /\ \A k \in Below(m, ByPValue(m)) : k <= r
           /\ Rejected(m) = {ByPValue(m)[k] : k \in 1 .. r}
           /\ Cardinality(Rejected(m)) = r
<1> DEFINE s == ByPValue(m)
           B == Below(m, s)
<1>1. /\ N \in Nat /\ s \in [1 .. N -> Tested(m)] /\ Len(s) = N
      /\ \A i, j \in 1 .. N : s[i] = s[j] => i = j
    BY TestedFinite, ByPValueSorts
<1>2. B \subseteq 1 .. N
    BY <1>1 DEF Below
<1>4. r \in 0 .. N /\ (r # 0 => r \in B) /\ \A k \in B : k <= r
    <2> HIDE DEF B
    <2> QED
        BY <1>1, <1>2, GreatestRank DEF B
<1>5. Rejected(m) = {s[k] : k \in 1 .. r}
    BY DEF Rejected
<1>6. Cardinality(Rejected(m)) = r
    <2> DEFINE R == {s[k] : k \in 1 .. r}
               f == [k \in 1 .. r |-> s[k]]
    <2>1. IsFiniteSet(1 .. r) /\ Cardinality(1 .. r) = r
        BY <1>4, FS_Interval
    <2>2. \A i \in 1 .. r : i \in 1 .. N
        BY <1>1, <1>4
    <2>3. f \in [1 .. r -> R] /\ \A p \in R : \E i \in 1 .. r : f[i] = p
        OBVIOUS
    <2>4. f \in Surjection(1 .. r, R)
        <3> HIDE DEF f, R
        <3> QED
            BY <2>3 DEF Surjection
    <2>5. \A i, j \in 1 .. r : f[i] = f[j] => i = j
        BY <1>1, <2>2
    <2>6. f \in Injection(1 .. r, R)
        <3>1. DOMAIN f = 1 .. r
            OBVIOUS
        <3> HIDE DEF f, R
        <3> QED
            BY <2>3, <2>5, <3>1 DEF Injection, IsInjective
    <2>7. Cardinality(R) = Cardinality(1 .. r)
        <3> HIDE DEF f, R
        <3> QED
            BY <2>1, <2>4, <2>6, FS_Surjection
    <2> QED
        BY <1>5, <2>1, <2>7
<1> QED
    BY <1>4, <1>5, <1>6

LEMMA RejectedConsistent ==
    ASSUME NEW m \in Measurements
    PROVE  SelfConsistent(Rejected(m), m)
<1> DEFINE s == ByPValue(m)
           N == Cardinality(Tested(m))
           r == Max(Below(m, ByPValue(m)) \cup {0})
<1>1. /\ N \in Nat /\ s \in [1 .. N -> Tested(m)] /\ Len(s) = N
      /\ \A i, j \in 1 .. N : i < j => m[s[i]] <= m[s[j]]
    BY TestedFinite, ByPValueSorts
<1>2. /\ r \in 0 .. N
      /\ r # 0 => r \in Below(m, s)
      /\ Rejected(m) = {s[k] : k \in 1 .. r}
      /\ Cardinality(Rejected(m)) = r
    <2> HIDE DEF N, r
    <2> QED
        BY RejectedShape DEF N, r
<1>3. \A p \in Tested(m) : m[p] \in Nat
    BY TestAssumption DEF Tested, Measurements, Unmeasured
<1> SUFFICES ASSUME NEW p \in Rejected(m)
             PROVE  m[p] * N <= Cardinality(Rejected(m)) * Alpha
    BY DEF SelfConsistent
<1> HIDE DEF s, N, r
<1>4. PICK k \in 1 .. r : p = s[k]
    BY <1>2
<1>5. k \in 1 .. N /\ r \in 1 .. N /\ k <= r /\ r \in Nat
    BY <1>1, <1>2, <1>4
<1>6. m[s[r]] * N <= r * Alpha
    <2>1. r \in Below(m, s)
        BY <1>2, <1>5
    <2> QED
        BY <1>1, <2>1 DEF Below
<1>7. m[s[k]] \in Nat /\ m[s[r]] \in Nat /\ m[s[k]] <= m[s[r]]
    <2>1. s[k] \in Tested(m) /\ s[r] \in Tested(m)
        BY <1>1, <1>5
    <2>2. k = r \/ k < r
        BY <1>5
    <2> QED
        BY <1>1, <1>3, <1>5, <2>1, <2>2
<1>8. m[s[k]] * N <= m[s[r]] * N
    BY <1>1, <1>7, TimesMonotone
<1> DEFINE a == m[s[k]] * N
           b == m[s[r]] * N
           c == r * Alpha
<1>9. a \in Nat /\ b \in Nat /\ c \in Nat
    BY <1>1, <1>5, <1>7, TestAssumption
<1>10. a <= c
    <2>1. a <= b /\ b <= c
        BY <1>6, <1>8
    <2> HIDE DEF a, b, c
    <2> QED
        BY <1>9, <2>1
<1> QED
    BY <1>2, <1>4, <1>10

LEMMA RejectedLargest ==
    ASSUME NEW m \in Measurements, NEW R \in SUBSET Tested(m), SelfConsistent(R, m)
    PROVE  R \subseteq Rejected(m)
<1> DEFINE s == ByPValue(m)
           N == Cardinality(Tested(m))
           r == Max(Below(m, ByPValue(m)) \cup {0})
           K == {k \in 1 .. N : s[k] \in R}
<1>1. /\ N \in Nat /\ s \in [1 .. N -> Tested(m)] /\ Len(s) = N
      /\ \A i, j \in 1 .. N : s[i] = s[j] => i = j
      /\ \A p \in Tested(m) : \E i \in 1 .. N : s[i] = p
    BY TestedFinite, ByPValueSorts
<1>2. /\ r \in 0 .. N
      /\ \A k \in Below(m, s) : k <= r
      /\ Rejected(m) = {s[k] : k \in 1 .. r}
    <2> HIDE DEF N, r
    <2> QED
        BY RejectedShape DEF N, r
<1>3. \A p \in Tested(m) : m[p] \in Nat
    BY TestAssumption DEF Tested, Measurements, Unmeasured
<1>4. \A p \in R : m[p] * N <= Cardinality(R) * Alpha
    BY DEF SelfConsistent
<1>5. IsFiniteSet(R) /\ Cardinality(R) \in Nat
    BY TestedFinite, FS_Subset, FS_CardinalityType
<1> HIDE DEF s, N, r
<1> SUFFICES ASSUME R # {}
             PROVE  R \subseteq Rejected(m)
    OBVIOUS
<1>6. K \subseteq 0 .. N /\ K # {}
    BY <1>1
<1> DEFINE last == Max(K)
<1>7. last \in K /\ \A k \in K : last >= k
    <2> HIDE DEF K
    <2> QED
        BY <1>1, <1>6, MaxIsGreatest
<1>8. last \in 1 .. N /\ s[last] \in R /\ K \subseteq 1 .. last
    BY <1>1, <1>7
<1> HIDE DEF last
<1>9. Cardinality(R) <= last
    <2> DEFINE f == [k \in K |-> s[k]]
    <2>1. IsFiniteSet(K) /\ Cardinality(K) <= last
        BY <1>1, <1>8, RanksWithin
    <2>2. f \in [K -> R] /\ \A p \in R : \E k \in K : f[k] = p
        BY <1>1
    <2>3. f \in Surjection(K, R)
        <3> HIDE DEF f, K
        <3> QED
            BY <2>2 DEF Surjection
    <2>4. Cardinality(R) <= Cardinality(K) /\ Cardinality(K) \in Nat
        <3> HIDE DEF f, K
        <3> QED
            BY <2>1, <2>3, FS_Surjection, FS_CardinalityType
    <2> HIDE DEF K
    <2> QED
        BY <1>1, <1>5, <1>8, <2>1, <2>4
<1>10. last \in Below(m, s)
    <2> DEFINE a == m[s[last]] * N
               b == Cardinality(R) * Alpha
               c == last * Alpha
    <2>1. a <= b
        BY <1>4, <1>8
    <2>2. b <= c
        BY <1>1, <1>5, <1>8, <1>9, TestAssumption, TimesMonotone
    <2>3. a \in Nat /\ b \in Nat /\ c \in Nat
        BY <1>1, <1>3, <1>5, <1>8, TestAssumption
    <2>4. a <= c
        <3> HIDE DEF a, b, c
        <3> QED
            BY <2>1, <2>2, <2>3
    <2> QED
        BY <1>1, <1>8, <2>4 DEF Below
<1>11. last <= r
    BY <1>2, <1>10
<1> SUFFICES ASSUME NEW p \in R
             PROVE  p \in Rejected(m)
    OBVIOUS
<1>12. PICK k \in 1 .. N : s[k] = p
    BY <1>1
<1>13. k \in 1 .. r
    <2>1. k \in K
        BY <1>12
    <2> QED
        BY <1>1, <1>2, <1>8, <1>11, <2>1
<1> QED
    BY <1>2, <1>12, <1>13

(***************************************************************************)
(* The decision.                                                           *)
(***************************************************************************)
NetworkInv ==
    /\ rows \in Nat /\ lo \in Nat
    /\ measure \in Measurements
    /\ filtering \in BOOLEAN
    /\ sets \in Seq(SUBSET WithinSector)
    /\ decision \in {"none", "GO", "NO-GO"}
    /\ filtering => decision = "none"
    /\ decision = "GO" => Decide(Compared) = "GO"

LEMMA MeasuresTyped == NoMeasure \in Measurements
BY DEF NoMeasure, Measurements

LEMMA RejectedTested == \A m \in Measurements : Rejected(m) \subseteq WithinSector
<1> TAKE m \in Measurements
<1> DEFINE N == Cardinality(Tested(m))
           r == Max(Below(m, ByPValue(m)) \cup {0})
<1>1. /\ N \in Nat /\ ByPValue(m) \in [1 .. N -> Tested(m)]
    BY TestedFinite, ByPValueSorts
<1>2. r \in 0 .. N /\ Rejected(m) = {ByPValue(m)[k] : k \in 1 .. r}
    <2> HIDE DEF N, r
    <2> QED
        BY RejectedShape DEF N, r
<1> HIDE DEF N, r
<1>3. \A k \in 1 .. r : k \in 1 .. N
    BY <1>1, <1>2
<1> QED
    BY <1>1, <1>2, <1>3 DEF Tested

LEMMA NetworkInit == GateInit => NetworkInv
<1> SUFFICES ASSUME GateInit
             PROVE  NetworkInv
    OBVIOUS
<1>1. rows \in Nat /\ lo \in Nat
    BY RollingAssumption DEF GateInit
<1>2. sets \in Seq(SUBSET WithinSector)
    BY DEF GateInit
<1> QED
    BY <1>1, <1>2, MeasuresTyped DEF GateInit, NetworkInv

LEMMA NetworkStep == NetworkInv /\ [GateNext]_gateVars => NetworkInv'
<1> SUFFICES ASSUME NetworkInv, [GateNext]_gateVars
             PROVE  NetworkInv'
    OBVIOUS
<1>1. CASE MeasureWindow
    <2>1. Compared' = Compared
        BY <1>1 DEF MeasureWindow, Compared
    <2> QED
        BY <1>1, <2>1 DEF MeasureWindow, NetworkInv
<1>2. CASE FilterWindow
    <2>1. PICK found \in SUBSET Rejected(measure) : sets' = Append(sets, found)
        BY <1>2 DEF FilterWindow
    <2>2. found \in SUBSET WithinSector
        BY <2>1, RejectedTested DEF NetworkInv
    <2>3. sets' \in Seq(SUBSET WithinSector)
        BY <2>1, <2>2 DEF NetworkInv
    <2>4. lo' \in Nat
        BY <1>2, RollingAssumption DEF FilterWindow, NetworkInv
    <2>5. decision = "none" /\ decision' = "none"
        BY <1>2 DEF FilterWindow, NetworkInv
    <2> QED
        BY <1>2, <2>3, <2>4, <2>5, MeasuresTyped DEF FilterWindow, NetworkInv
<1>3. CASE DecideGate
    <2>1. Compared' = Compared
        BY <1>3 DEF DecideGate, Compared
    <2>2. Decide(Compared) \in {"GO", "NO-GO"}
        BY DEF Decide
    <2> QED
        BY <1>3, <2>1, <2>2 DEF DecideGate, NetworkInv
<1>4. CASE UNCHANGED gateVars
    BY <1>4 DEF gateVars, NetworkInv, Compared
<1> QED
    BY <1>1, <1>2, <1>3, <1>4 DEF GateNext

(* The edge sets of a window are subsets of the pairs under the sectors,   *)
(* and a GO is always the decision on the windows the run compared.        *)
THEOREM NetworkHolds == GateSpec => []NetworkInv
<1>1. GateInit => NetworkInv
    BY NetworkInit
<1>2. NetworkInv /\ [GateNext]_gateVars => NetworkInv'
    BY NetworkStep
<1> QED
    BY <1>1, <1>2, PTL DEF GateSpec

(* fdr_edges (correlation.py) keeps what Benjamini and Hochberg define:    *)
(* the largest set of pairs in which every p-value is within the share of  *)
(* alpha that the size of the set earns it, for every panel of p-values    *)
(* and whatever the order of tied ones.                                    *)
THEOREM StepUpIsLargest == GateSpec => []RejectsLargestSet
<1>1. NetworkInv => RejectsLargestSet
    BY RejectedConsistent, RejectedLargest DEF NetworkInv, RejectsLargestSet
<1> QED
    BY <1>1, NetworkHolds, PTL

(* The median of values that are all zero is zero.                         *)
LEMMA MedianOfZeroes ==
    ASSUME NEW D, IsFiniteSet(D), D # {},
           NEW f \in [D -> Int \X Int], \A i \in D : f[i][1] = 0 /\ f[i][2] > 0,
           NEW t \in Nat \ {0}
    PROVE  ~MedianReaches(f, <<t, 1>>)
<1> DEFINE size == Cardinality(D)
<1>1. size \in Nat \ {0}
    BY FS_EmptySet, FS_CardinalityType
<1>2. DOMAIN f = D
    OBVIOUS
<1>3. \A i, j \in D : ~Lower(f[i], f[j])
    <2> TAKE i, j \in D
    <2>1. f[i][1] = 0 /\ f[j][1] = 0 /\ f[i][2] \in Int /\ f[j][2] \in Int
        OBVIOUS
    <2>2. f[i][1] * f[j][2] = 0 /\ f[j][1] * f[i][2] = 0
        BY <2>1
    <2> QED
        BY <2>2 DEF Lower
<1>4. ASSUME NEW k \in 1 .. size
      PROVE  /\ Ranked(f, k)[1] = 0
             /\ Ranked(f, k)[2] \in Nat \ {0}
    <2> DEFINE Good(i) == /\ Cardinality({j \in DOMAIN f : Lower(f[j], f[i])}) < k
                          /\ k <= Cardinality({j \in DOMAIN f : ~Lower(f[i], f[j])})
    <2>1. PICK i \in D : TRUE
        OBVIOUS
    <2>2. /\ {j \in DOMAIN f : Lower(f[j], f[i])} = {}
          /\ {j \in DOMAIN f : ~Lower(f[i], f[j])} = D
        BY <1>2, <1>3
    <2>3. Good(i)
        BY <1>1, <2>2, FS_EmptySet
    <2> DEFINE c == CHOOSE x \in DOMAIN f : Good(x)
    <2>4. c \in D
        <3> HIDE DEF Good
        <3> QED
            BY <1>2, <2>1, <2>3
    <2>5. Ranked(f, k) = f[c]
        BY DEF Ranked
    <2> HIDE DEF c
    <2>6. f[c][1] = 0 /\ f[c][2] \in Int /\ f[c][2] > 0
        BY <2>4
    <2> QED
        BY <2>5, <2>6
<1>5. (size + 1) \div 2 \in 1 .. size /\ size \div 2 + 1 \in 1 .. size
    BY <1>1
<1> DEFINE x == Ranked(f, (size + 1) \div 2)
           y == Ranked(f, size \div 2 + 1)
<1>6. x[1] = 0 /\ y[1] = 0 /\ x[2] \in Nat \ {0} /\ y[2] \in Nat \ {0}
    BY <1>4, <1>5
<1>7. Median(f) = <<x[1] * y[2] + y[1] * x[2], 2 * x[2] * y[2]>>
    BY <1>2 DEF Median
<1> HIDE DEF x, y, size
<1>8. Median(f)[1] = 0 /\ Median(f)[2] \in Nat \ {0}
    <2>1. x[1] * y[2] = 0 /\ y[1] * x[2] = 0
        BY <1>6
    <2>2. \A a, b \in Nat \ {0} : 2 * a * b \in Nat \ {0}
        OBVIOUS
    <2>3. 2 * x[2] * y[2] \in Nat \ {0}
        BY <1>6, <2>2
    <2>4. x[1] * y[2] + y[1] * x[2] = 0
        BY <2>1
    <2> QED
        BY <1>7, <2>3, <2>4
<1>9. Lower(Median(f), <<t, 1>>)
    <2>1. \A a, b \in Nat \ {0} : a * b > 0
        OBVIOUS
    <2> QED
        BY <1>8, <2>1 DEF Lower
<1> QED
    BY <1>9 DEF MedianReaches

(* Two windows that share no edge have a lift of zero, unless both are     *)
(* empty: then it is infinite, and left out of the median.                 *)
LEMMA DisjointLift ==
    ASSUME NEW a \in SUBSET WithinSector, NEW b \in SUBSET WithinSector,
           a \cap b = {}, ~Infinite(Compare(a, b))
    PROVE  /\ Lift(Compare(a, b)) \in Int \X Int
           /\ Lift(Compare(a, b))[1] = 0 /\ Lift(Compare(a, b))[2] > 0
<1> DEFINE c == Compare(a, b)
           w == Cardinality(WithinSector)
<1>1. IsFiniteSet(WithinSector)
    <2>1. IsFiniteSet(SUBSET Names)
        BY TestAssumption, FS_SUBSET
    <2>2. WithinSector \in SUBSET (SUBSET Names)
        BY DEF WithinSector, Pairs
    <2> QED
        BY <2>1, <2>2, FS_Subset
<1>2. c.before \in Nat /\ c.after \in Nat /\ c.shared = 0 /\ w \in Nat
    BY <1>1, FS_Subset, FS_CardinalityType, FS_EmptySet DEF Compare
<1> HIDE DEF c, w
<1>3. CASE Product(c) = 0
    BY <1>3 DEF Lift, c
<1>4. CASE Product(c) # 0
    <2>1. c.before # 0 /\ c.after # 0
        BY <1>2, <1>4 DEF Product
    <2>2. Product(c) \in Nat \ {0}
        BY <1>2, <1>4 DEF Product
    <2>3. Jaccard(c) = <<0, c.before + c.after>>
        BY <1>2, <2>1 DEF Jaccard, Union
    <2>4. RandomFloor(c) = <<Product(c), w * (c.before + c.after) - Product(c)>>
        BY DEF RandomFloor, w
    <2> DEFINE u == c.before + c.after
               v == w * u - Product(c)
    <2>5. u \in Nat \ {0} /\ v \in Int
        BY <1>2, <2>1, <2>2
    <2>6. Lift(c) = <<0 * v, u * Product(c)>>
        BY <1>4, <2>3, <2>4 DEF Lift
    <2> HIDE DEF u, v
    <2>7. 0 * v = 0
        BY <2>5
    <2>8. u * Product(c) \in Int /\ u * Product(c) > 0
        <3>1. \A i, j \in Nat \ {0} : i * j \in Int /\ i * j > 0
            OBVIOUS
        <3> QED
            BY <2>2, <2>5, <3>1
    <2> QED
        BY <2>6, <2>7, <2>8 DEF c
<1> QED
    BY <1>3, <1>4

LEMMA DisjointIsNoGo ==
    ASSUME sets \in Seq(SUBSET WithinSector),
           \A i \in 2 .. Len(sets) : sets[i - 1] \cap sets[i] = {}
    PROVE  Decide(Compared) # "GO"
<1> DEFINE D == {i \in DOMAIN Compared : ~Infinite(Compared[i])}
           f == FiniteLifts(Compared)
<1>1. Len(sets) \in Nat /\ Len(sets) - 1 \in Int /\ DOMAIN Compared = 1 .. Len(sets) - 1
    BY DEF Compared
<1>2. IsFiniteSet(D)
    <2>1. IsFiniteSet(1 .. Len(sets) - 1)
        BY <1>1, FS_Interval
    <2>2. D \in SUBSET (1 .. Len(sets) - 1)
        BY <1>1
    <2> QED
        BY <2>1, <2>2, FS_Subset
<1>3. ASSUME NEW i \in D
      PROVE  /\ Lift(Compared[i]) \in Int \X Int
             /\ Lift(Compared[i])[1] = 0 /\ Lift(Compared[i])[2] > 0
    <2>1. i \in 1 .. Len(sets) - 1 /\ Compared[i] = Compare(sets[i], sets[i + 1])
        BY <1>1 DEF Compared
    <2>2. /\ i \in 1 .. Len(sets) /\ i + 1 \in 2 .. Len(sets) /\ i + 1 - 1 = i
        BY <1>1, <2>1
    <2>3. /\ sets[i] \in SUBSET WithinSector /\ sets[i + 1] \in SUBSET WithinSector
          /\ sets[i] \cap sets[i + 1] = {}
        <3>1. sets[i + 1 - 1] \cap sets[i + 1] = {}
            BY <2>2
        <3>2. sets[i] \in SUBSET WithinSector
            BY <2>2
        <3>3. i + 1 \in 1 .. Len(sets)
            BY <1>1, <2>2
        <3>4. sets[i + 1] \in SUBSET WithinSector
            BY <3>3
        <3> QED
            BY <2>2, <3>1, <3>2, <3>4
    <2>4. ~Infinite(Compare(sets[i], sets[i + 1]))
        BY <2>1
    <2> QED
        BY <2>1, <2>3, <2>4, DisjointLift
<1>4. f = [i \in D |-> Lift(Compared[i])]
    BY DEF FiniteLifts
<1> HIDE DEF D, f
<1>5. /\ f \in [D -> Int \X Int] /\ DOMAIN f = D
      /\ \A i \in D : f[i][1] = 0 /\ f[i][2] > 0
    BY <1>3, <1>4
<1>6. ~MedianReaches(f, <<MinLift, 1>>)
    <2>1. CASE D = {}
        BY <1>5, <2>1 DEF MedianReaches
    <2>2. CASE D # {}
        BY <1>2, <1>5, <2>2, MedianOfZeroes, ThresholdsAssumption
    <2> QED
        BY <2>1, <2>2
<1> QED
    BY <1>6 DEF Decide, f

(* decide_gate (stability.py) says GO only when some edge recurred: the    *)
(* Jaccard of 1 of two empty windows cannot carry a run of windows that    *)
(* share nothing over the lift threshold.                                  *)
THEOREM GoRecurs == GateSpec => []GoMeansRecurring
<1>1. NetworkInv => GoMeansRecurring
    BY DisjointIsNoGo DEF NetworkInv, GoMeansRecurring
<1> QED
    BY <1>1, NetworkHolds, PTL
=============================================================================
