-------------------------- MODULE SignalRegistry --------------------------
(***************************************************************************)
(* The signal runners and the registry of their verdicts: the residual     *)
(* stat-arb runner (scripts/run_m5_statarb.py, signals/run_statarb.py) and *)
(* the event runner (scripts/run_m6_gate.py, events/run_event_signal.py)   *)
(* read the store as of a day, choose a variant in every fold, walk the    *)
(* chosen weights through the three books row by row, judge the candidate  *)
(* and land, write by write, what the judgement leaves behind.             *)
(*                                                                         *)
(* Row i of a panel is the bar of day i + 1.  Of the weights of a name one *)
(* sign is kept, of a Sharpe ratio its level, of DSR and PBO on which side *)
(* of their threshold they are; each may be undefined.  The residual fit   *)
(* is redone, or lost, at any time (FactorFit).                            *)
(***************************************************************************)
EXTENDS WalkForward, FiniteSetsExt

CONSTANTS M5, M6,         \* the two signals
          LastDay,        \* bound on time
          MaxRuns,        \* bound on the runs of the two scripts
          PanelMinObs,    \* rows a residual panel needs
          EdgeWindow,     \* rows an edge set is estimated on
          RefitStep,      \* rows between two edge sets
          Lookback,       \* rows of spread a stat-arb weight looks back on
          EventDays,      \* days with a reported event
          DriftWindow,    \* rows an event's spread is held
          ExposureLag,    \* rows before entry its exposures are read
          GridSize,       \* variants in the grid
          CapacityFloor   \* the net Sharpe a candidate has to reach

Signals == {M5, M6}
Days == 1 .. LastDay

ASSUME SignalsAssumption == M5 # M6
ASSUME BoundsAssumption == LastDay \in Nat /\ MaxRuns \in Nat /\ GridSize \in Nat \ {0}
ASSUME WindowAssumption == /\ EdgeWindow \in Nat \ {0} /\ RefitStep \in Nat \ {0}
                           /\ PanelMinObs \in Nat \ {0}
ASSUME EventAssumption  == /\ EventDays \subseteq Days
                           /\ DriftWindow \in Nat \ {0} /\ ExposureLag \in Nat

VARIABLES today,
          fitTo,     \* last day with residuals; 0 when there are none
          registry,  \* signal_registry
          corr,      \* residual_corr, by vintage
          at,        \* where the running script is
          sig,       \* the signal it evaluates
          asof,
          n,         \* rows of its panel
          row,       \* the row the books have come to
          held,      \* the position of each book after that row
          before,    \* and before it
          locked,    \* the row is flagged limit-locked
          verdict,
          code,      \* how the last script ended
          runs

worldVars == <<today, fitTo>>
storeVars == <<registry, corr>>
walkVars  == <<row, held, before, locked>>
vars == <<worldVars, storeVars, at, sig, asof, n, walkVars, verdict, code, runs>>

(***************************************************************************)
(* What a weight is decided on.                                            *)
(***************************************************************************)
From(r, width) == {i \in 0 .. r : i > r - width}

(* build_edge_schedule: the rows at which an edge set is estimated.        *)
Refits(rows) ==
    {r \in EdgeWindow - 1 .. rows - 1 : (r - (EdgeWindow - 1)) % RefitStep = 0}

(* residual_spread: the spread of row r uses the latest edge set in effect *)
(* on it, estimated on the rows up to its effective row.                   *)
SpreadRows(rows, r) ==
    {r} \cup UNION {From(e, EdgeWindow) :
                      e \in {e \in Refits(rows) : /\ e <= r
                                                  /\ \A o \in Refits(rows) : o <= r => o <= e}}

(* statarb_signal: levels and z-scores of the spread, shifted by one row.  *)
StatArbRows(rows, r) ==
    UNION {SpreadRows(rows, s) : s \in From(r - 1, Lookback)}

(* differential_exposure_weights: an event enters on the first row on or   *)
(* after its day, with the exposures of ExposureLag rows before, and is    *)
(* held for DriftWindow rows.                                              *)
EntryRow(d) == d - 1

EventRows(rows, r) ==
    UNION {{EntryRow(d), EntryRow(d) - ExposureLag} :
             d \in {d \in EventDays : /\ EntryRow(d) - ExposureLag >= 0
                                      /\ r \in EntryRow(d) .. EntryRow(d) + DriftWindow - 1}}

WeightRows(s, rows, r) == IF s = M5 THEN StatArbRows(rows, r) ELSE EventRows(rows, r)

(***************************************************************************)
(* The books.                                                              *)
(***************************************************************************)
Books == {"research", "venue_feasible", "stress"}
Feasible == {"venue_feasible", "stress"}
Sign == {-1, 0, 1}

Flat == [b \in Books |-> 0]

(* The stress book bans every short.  (The runners pass no short_eligible  *)
(* panel, so no book bans the short of one name.)                          *)
Allowed(b, target) == IF b = "stress" /\ target < 0 THEN 0 ELSE target

(* Mutant of Position: a locked row carries the target as it was wanted.   *)
PositionAsWanted(b, target, lock, prev) ==
    IF lock /\ b \in Feasible THEN prev["research"] ELSE Allowed(b, target)

(* apply_book_constraints on one row: on a locked one the books with       *)
(* block_limit_lock keep what they held.                                   *)
Position(b, target, lock, prev) ==
    IF lock /\ b \in Feasible THEN prev[b] ELSE Allowed(b, target)

(* The event runner passes no limit_lock panel.                            *)
LockFlags(s) == IF s = M5 THEN BOOLEAN ELSE {FALSE}

(***************************************************************************)
(* The judge.                                                              *)
(***************************************************************************)
NaN == -1
Sharpe == 0 .. 1
Grade == {"undefined", "fails", "passes"}

TestIndex(rows) == OutOfSample(rows)

(* _safe_pbo: the largest even number of blocks, at most 10, that the test *)
(* rows can fill; half of them are in-sample.                              *)
Blocks(tests) == 2 * (Min({10, tests}) \div 2)
InSample(tests) == (Blocks(tests) \div 2) * (tests \div Blocks(tests))

(* One in-sample row has no Sharpe ratio, and PBO is undefined.            *)
PBOs(tests) == IF InSample(tests) >= 2 THEN Grade ELSE {"undefined"}

(* PSR is undefined when the observed Sharpe is.                           *)
DSRs(cand) == IF cand = NaN THEN {"undefined"} ELSE Grade

(* _gt: an undefined candidate never wins, an undefined baseline never     *)
(* sets the bar.                                                           *)
Beats(cand, best) == cand # NaN /\ (best = NaN \/ cand > best)

(* n_trials: the grid, or the P&L columns if there are more of them.       *)
Trials(columns) == Max({GridSize, columns})

Verdict == [beats : BOOLEAN, dsr : Grade, pbo : Grade, trials : Nat, promoted : BOOLEAN]

(* Mutant of Promoted: an undefined DSR passes.                            *)
PromotedUnlessFails(cand, best, dsr, pbo) ==
    Beats(cand, best) /\ cand >= CapacityFloor /\ dsr # "fails" /\ pbo # "fails"

Promoted(cand, best, dsr, pbo) ==
    Beats(cand, best) /\ cand >= CapacityFloor /\ dsr = "passes" /\ pbo = "passes"

(* evaluate_candidate                                                      *)
Evaluate(cand, best, dsr, pbo, columns) ==
    [beats |-> Beats(cand, best), dsr |-> dsr, pbo |-> pbo, trials |-> Trials(columns),
     promoted |-> Promoted(cand, best, dsr, pbo)]

NoVerdict == Evaluate(NaN, NaN, "undefined", "undefined", 0)

(***************************************************************************)
(* The registry.                                                           *)
(***************************************************************************)
DayOf(r) == r + 1

(* Mutant of LastTest: the row after the last is taken.                    *)
PastLastTest(rows) == DayOf(rows)

LastTest(rows) == DayOf(rows - 1)

(* build_registry_entry: knowledge_date is the last test day.  `judged` is *)
(* no column: it is the as_of the verdict was reached for.                 *)
Entry ==
    [sig |-> sig, knowledge |-> LastTest(n), tests |-> Cardinality(TestIndex(n)),
     judged |-> asof, verdict |-> verdict]

Rows == [sig : Signals, knowledge : Days, tests : 0 .. LastDay, judged : Days,
         verdict : Verdict]

KeyHeld(e) == \E r \in registry : r.sig = e.sig /\ r.knowledge = e.knowledge

(* write_registry_entry: ON CONFLICT DO NOTHING.                           *)
Recorded(e) == IF KeyHeld(e) THEN registry ELSE registry \cup {e}

(* registry_hygiene of one row.                                            *)
Hygienic(r) ==
    /\ r.verdict.promoted => /\ r.verdict.beats
                             /\ r.verdict.dsr # "undefined"
                             /\ r.verdict.pbo # "undefined"
    /\ r.verdict.trials >= 1

(***************************************************************************)
(* State.                                                                  *)
(***************************************************************************)
Steps == {"idle", "folds", "books", "judge", "corr", "registry", "report"}

TypeOK ==
    /\ today \in Days /\ fitTo \in 0 .. LastDay
    /\ registry \subseteq Rows
    /\ corr \subseteq [knowledge : Days, end : Days]
    /\ at \in Steps
    /\ sig \in Signals /\ asof \in Days
    /\ n \in 0 .. LastDay /\ row \in -1 .. LastDay - 1
    /\ held \in [Books -> Sign] /\ before \in [Books -> Sign] /\ locked \in BOOLEAN
    /\ verdict \in Verdict
    /\ code \in {"none", "ok", "failed", "raised"}
    /\ runs \in 0 .. MaxRuns

Init ==
    /\ today \in Days /\ fitTo = today
    /\ registry = {} /\ corr = {}
    /\ at = "idle" /\ sig = M5 /\ asof = 1 /\ n = 0
    /\ row = -1 /\ held = Flat /\ before = Flat /\ locked = FALSE
    /\ verdict = NoVerdict
    /\ code = "none" /\ runs = 0

NextDay ==
    /\ today < LastDay
    /\ today' = today + 1
    /\ UNCHANGED <<fitTo, storeVars, at, sig, asof, n, walkVars, verdict, code, runs>>

(* A refit reaches today, or clears the residuals and fails.               *)
Refit ==
    /\ fitTo' \in {0, today}
    /\ UNCHANGED <<today, storeVars, at, sig, asof, n, walkVars, verdict, code, runs>>

(***************************************************************************)
(* The scripts.                                                            *)
(***************************************************************************)
End(result) ==
    /\ at' = "idle"
    /\ code' = result
    /\ n' = 0 /\ row' = -1 /\ held' = Flat /\ before' = Flat /\ locked' = FALSE
    /\ verdict' = NoVerdict

(* Returns are there up to as_of; residuals up to the last fit.            *)
PanelRows(s, a) == IF s = M5 THEN Min({a, fitTo}) ELSE a

(* main: nothing landed that the signal is about.                          *)
NothingLanded(s, a) ==
    IF s = M5 THEN fitTo = 0 ELSE \A d \in EventDays : d > a

(* _empty_report is returned when the panel is empty; the event runner     *)
(* needs betas as well.                                                    *)
NothingToRun(s, a) ==
    IF s = M5 THEN PanelRows(s, a) < PanelMinObs ELSE fitTo = 0

(* run_m6_gate prints an empty report and ends well; run_m5_statarb looks  *)
(* up the missing "verdict" and raises.                                    *)
EndEmpty(s) == End(IF s = M5 THEN "raised" ELSE "ok")

Launch(s, a) ==
    /\ at = "idle" /\ runs < MaxRuns /\ a <= today
    /\ runs' = runs + 1
    /\ sig' = s /\ asof' = a
    /\ IF NothingLanded(s, a) THEN End("failed")
       ELSE IF NothingToRun(s, a) THEN EndEmpty(s)
       ELSE /\ at' = "folds"
            /\ n' = PanelRows(s, a)
            /\ code' = "none"
            /\ UNCHANGED <<walkVars, verdict>>
    /\ UNCHANGED <<worldVars, storeVars>>

(* walk_forward_oos_weights; fewer than three test rows are no history.    *)
ChooseVariants ==
    /\ at = "folds"
    /\ IF ~Splittable(n) THEN End("raised")
       ELSE IF Cardinality(TestIndex(n)) < 3 THEN EndEmpty(sig)
       ELSE /\ at' = "books"
            /\ UNCHANGED <<n, walkVars, verdict, code>>
    /\ UNCHANGED <<worldVars, storeVars, sig, asof, runs>>

Ahead == {r \in TestIndex(n) : r > row}

(* run_book on the next row of the candidate, for the three books.         *)
WalkRow(target, lock) ==
    /\ at = "books" /\ Ahead # {}
    /\ row' = Min(Ahead)
    /\ before' = held
    /\ held' = [b \in Books |-> Position(b, target, lock, held)]
    /\ locked' = lock
    /\ UNCHANGED <<worldVars, storeVars, at, sig, asof, n, verdict, code, runs>>

(* Mutant of AfterVerdict: the verdict lands before its edge snapshot.     *)
AfterVerdictAlways(edges) == "registry"

(* The stat-arb runner lands nothing unless its latest edge snapshot has   *)
(* surviving edges.                                                        *)
AfterVerdict(edges) ==
    IF sig = M6 THEN "registry" ELSE IF edges THEN "corr" ELSE "report"

CloseBooks ==
    /\ at = "books" /\ Ahead = {}
    /\ at' = "judge"
    /\ row' = -1 /\ held' = Flat /\ before' = Flat /\ locked' = FALSE
    /\ UNCHANGED <<worldVars, storeVars, sig, asof, n, verdict, code, runs>>

Judge ==
    /\ at = "judge"
    /\ \E cand, best \in Sharpe \cup {NaN}, columns \in 1 .. GridSize,
          pbo \in PBOs(Cardinality(TestIndex(n))) :
         \E dsr \in DSRs(cand) : verdict' = Evaluate(cand, best, dsr, pbo, columns)
    /\ \E edges \in BOOLEAN :
         /\ edges => Refits(n) # {}
         /\ at' = AfterVerdict(edges)
    /\ UNCHANGED <<worldVars, storeVars, sig, asof, n, walkVars, code, runs>>

(* _land_residual_corr: knowledge_date is as_of.                           *)
LandCorr ==
    /\ at = "corr"
    /\ corr' = corr \cup {[knowledge |-> asof, end |-> DayOf(Max(Refits(n)))]}
    /\ at' = "registry"
    /\ UNCHANGED <<worldVars, registry, sig, asof, n, walkVars, verdict, code, runs>>

LandRegistry ==
    /\ at = "registry"
    /\ registry' = Recorded(Entry)
    /\ at' = "report"
    /\ UNCHANGED <<worldVars, corr, sig, asof, n, walkVars, verdict, code, runs>>

Report ==
    /\ at = "report"
    /\ End("ok")
    /\ UNCHANGED <<worldVars, storeVars, sig, asof, runs>>

(* A statement raises or the process is killed; what had landed stays.     *)
Die ==
    /\ at # "idle"
    /\ End("raised")
    /\ UNCHANGED <<worldVars, storeVars, sig, asof, runs>>

Next ==
    \/ NextDay \/ Refit
    \/ \E s \in Signals, a \in Days : Launch(s, a)
    \/ ChooseVariants
    \/ \E target \in Sign, lock \in LockFlags(sig) : WalkRow(target, lock)
    \/ CloseBooks \/ Judge \/ LandCorr \/ LandRegistry \/ Report \/ Die

Spec == Init /\ [][Next]_vars

(***************************************************************************)
(* Properties.                                                             *)
(***************************************************************************)
Walking == at = "books" /\ row >= 0

(* The variant that trades a test row was chosen on rows that end at least *)
(* Purge rows before its fold, and the stat-arb weights of the row use     *)
(* residuals and edge sets of earlier rows only: no decision peeks at what *)
(* it earns.                                                               *)
DecidedOnThePast ==
    Walking =>
        LET k == FoldOf(n, row)
        IN  /\ \A r \in TrainRows(n, k) : r + Purge < TestStart(n, k)
            /\ row \in TestRows(n, k)
            /\ sig = M5 => \A r \in WeightRows(M5, n, row) : r < row

(* The two feasible books do not trade a locked row whatever the signal    *)
(* wants, and the stress book never ends a row short, also not by carrying *)
(* a position over locked rows.                                            *)
BooksTradable ==
    Walking => /\ locked => \A b \in Feasible : held[b] = before[b]
               /\ held["stress"] >= 0

(* Whatever was undefined on the way, no row of the ledger fails the       *)
(* hygiene monitor, and each was haircut for the whole grid.               *)
LedgerCoherent ==
    \A r \in registry : Hygienic(r) /\ r.verdict.trials >= GridSize

(* The edge snapshot a stat-arb verdict rests on is in residual_corr, with *)
(* the day of the judgement and a window inside the tested panel, although *)
(* the two are landed in separate sessions.                                *)
SnapshotBehindVerdict ==
    \A r \in registry : r.sig = M5 =>
        \E c \in corr : c.knowledge = r.judged /\ c.end <= r.knowledge

(* Claimed by backtest.py of the weights: decided on information of their  *)
(* row, earning the period that starts there.  The runners pass returns    *)
(* of the period that ends there, so a weight may use earlier rows only.   *)
(* Not so for events: see the finding.                                     *)
NeverPeeks == Walking => \A r \in WeightRows(sig, n, row) : r < row
=============================================================================
