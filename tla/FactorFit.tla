------------------------------ MODULE FactorFit ------------------------------
(***************************************************************************)
(* The factor fit: rolling betas and neutralized residuals, rebuilt from   *)
(* total_returns and the factor series by two scripts.                     *)
(*                                                                         *)
(* refit_factor_model.py (the daily serving refit) checks that every       *)
(* factor is there before it clears the old fit; run_m3_gate.py (run by    *)
(* hand) clears first and finds out afterwards.  Both then go through the  *)
(* names, and for each read its returns, write its betas, read again and   *)
(* write its residuals, every read and write in a DuckDB session of its    *)
(* own: between two sessions the other script or a top-up may run.         *)
(*                                                                         *)
(* A fitted row is its day and the return rows its window came down to:    *)
(* the trailing rows of the panel joined with the returns, less those a    *)
(* factor is missing from.  A beta needs min_obs of them and not its own   *)
(* day; a residual needs its own day too.  A window lies in one regime.    *)
(***************************************************************************)
EXTENDS Naturals, FiniteSets

CONSTANTS Symbols,
          Factors,    \* the configured factors
          FX,         \* the one among them that turns lira into dollars
          LastDay,    \* bound on time
          FitWindow,  \* trailing rows of a fit (FIT_WINDOW)
          MinObs,     \* complete ones it needs (FIT_MIN_OBS)
          Fitters,    \* which scripts run: a subset of {"refit", "gate"}
          MaxFaults   \* bound on crashes and failed statements

Days == 1 .. LastDay

ASSUME LastDayAssumption == LastDay \in Nat /\ LastDay >= 2
ASSUME FXAssumption      == FX \in Factors
ASSUME WindowAssumption  == FitWindow \in Nat /\ MinObs \in 1 .. FitWindow
ASSUME MaxFaultsAssumption == MaxFaults \in Nat
ASSUME FittersAssumption == Fitters \subseteq {"refit", "gate"}

VARIABLES today,
          returns,    \* [Symbols -> set of total_returns rows]
          facTo,      \* [Factors -> last day with a level]: levels are landed in order
          betas,      \* [Symbols -> set of fitted rows]
          residuals,  \* [Symbols -> set of fitted rows]
          pc,         \* where each script is
          asof,       \* its as_of
          todo,       \* the names it has still to fit
          cur,        \* the name it is fitting
          panel,      \* the factor levels its panel was built from
          buf,        \* the rows it is about to write
          rc,         \* how it exited the last time
          faults      \* crashes and failed statements so far

fitVars   == <<betas, residuals, pc, asof, todo, cur, panel, buf, rc>>
inputVars == <<today, returns, facTo>>
vars      == <<inputVars, fitVars, faults>>

(* A total_returns row: the return of `day` over the last held bar `prev`, *)
(* with or without a dollar value.                                         *)
Ret == [day : Days, prev : Days, usd : BOOLEAN]

(* A fitted row, beta or residual: its day, and the rows it was fitted on. *)
Fitted == [day : Days, used : SUBSET Ret]

PCs == {"idle", "validate", "clear", "panel", "next",
        "writeBetas", "readResiduals", "writeResiduals"}

TypeOK ==
    /\ today \in Days
    /\ returns \in [Symbols -> SUBSET Ret]
    /\ facTo \in [Factors -> Days]
    /\ betas \in [Symbols -> SUBSET Fitted]
    /\ residuals \in [Symbols -> SUBSET Fitted]
    /\ pc \in [Fitters -> PCs]
    /\ asof \in [Fitters -> Days]
    /\ todo \in [Fitters -> SUBSET Symbols]
    /\ cur \in [Fitters -> SUBSET Symbols]
    /\ panel \in [Fitters -> [Factors -> Days]]
    /\ buf \in [Fitters -> SUBSET Fitted]
    /\ rc \in [Fitters -> {"none", "ok", "failed"}]
    /\ faults \in 0 .. MaxFaults

(***************************************************************************)
(* The inputs.                                                             *)
(***************************************************************************)

Before(d, held) == {e \in held : e < d}

(* Mutant of ReturnsOf: the first bar's row is not dropped.                 *)
ReturnsOfEveryBar(held, fxTo) ==
    {r \in [day : held, prev : held \cup {0}, usd : BOOLEAN] :
        /\ r.prev < r.day
        /\ \A e \in Before(r.day, held) : e <= r.prev
        /\ r.usd <=> r.day <= fxTo}

(* compute_total_returns over the bars of the days `held`: a row for every *)
(* bar but the first, over the bar before it, in dollars when FX is there. *)
ReturnsOf(held, fxTo) ==
    {r \in [day : held, prev : held, usd : BOOLEAN] :
        /\ r.prev < r.day
        /\ \A e \in Before(r.day, held) : e <= r.prev
        /\ r.usd <=> r.day <= fxTo}

(* write_parquet on one symbol's rows: a day that has a row keeps it.      *)
Merge(old, new) == old \cup {r \in new : \A q \in old : q.day # r.day}

(* The factor has a return on or before day a: two levels are known.       *)
Present(f, a) == facTo[f] >= 2 /\ a >= 2

PanelComplete(a) == \A f \in Factors : Present(f, a)

(* Mutant of AllThere: dropna(how="all") keeps a row one factor is in.      *)
SomeThere(q, levels) == \E f \in Factors : q.day <= levels[f]

(* dropna: no factor is missing on the day of q.                           *)
AllThere(q, levels) == \A f \in Factors : q.day <= levels[f]

(* panel.join(y, how="inner"): the dollar returns up to day a on the days  *)
(* the panel has a row of, that is, at least one factor.                   *)
Joined(s, a, levels) ==
    {r \in returns[s] : r.day <= a /\ r.usd /\ \E f \in Factors : r.day <= levels[f]}

(* The window of day `end`: its last FitWindow joined rows, less the       *)
(* incomplete ones.                                                        *)
Used(rows, end, levels) ==
    {q \in rows : /\ q.day <= end
                  /\ Cardinality({r \in rows : q.day < r.day /\ r.day <= end}) < FitWindow
                  /\ AllThere(q, levels)}

(* rolling_factor_betas of s as of a, with a panel of these factor levels: *)
(* the day itself may lack a factor.                                       *)
BetaRows(s, a, levels) ==
    LET rows == Joined(s, a, levels)
    IN {row \in {[day |-> r.day, used |-> Used(rows, r.day, levels)] : r \in rows} :
          Cardinality(row.used) >= MinObs}

OwnDay(row) == \E q \in row.used : q.day = row.day

(* rolling_residuals: `end not in win.index` is skipped.                   *)
ResidualRows(s, a, levels) == {row \in BetaRows(s, a, levels) : OwnDay(row)}

(* total_returns rows with knowledge_date = bar_date <= a.                 *)
WithReturns(a) == {s \in Symbols : \E r \in returns[s] : r.day <= a}

(***************************************************************************)
(* The scripts.                                                            *)
(***************************************************************************)
NoPanel == [f \in Factors |-> 1]

FitInit ==
    /\ betas = [s \in Symbols |-> {}]
    /\ residuals = [s \in Symbols |-> {}]
    /\ pc = [p \in Fitters |-> "idle"]
    /\ asof = [p \in Fitters |-> 1]
    /\ todo = [p \in Fitters |-> {}]
    /\ cur = [p \in Fitters |-> {}]
    /\ panel = [p \in Fitters |-> NoPanel]
    /\ buf = [p \in Fitters |-> {}]
    /\ rc = [p \in Fitters |-> "none"]

Exit(p, result) ==
    /\ pc' = [pc EXCEPT ![p] = "idle"]
    /\ todo' = [todo EXCEPT ![p] = {}]
    /\ cur' = [cur EXCEPT ![p] = {}]
    /\ panel' = [panel EXCEPT ![p] = NoPanel]
    /\ buf' = [buf EXCEPT ![p] = {}]
    /\ UNCHANGED asof
    /\ rc' = [rc EXCEPT ![p] = result]

(* Mutant of FirstStep: the daily refit clears first, as the gate does.     *)
ClearFirst(p) == "clear"

FirstStep(p) == IF p = "refit" THEN "validate" ELSE "clear"

(* main, up to the symbol list: without one the script exits 1.            *)
Launch(p, a) ==
    /\ pc[p] = "idle"
    /\ IF WithReturns(a) = {}
         THEN Exit(p, "failed")
         ELSE /\ pc' = [pc EXCEPT ![p] = FirstStep(p)]
              /\ asof' = [asof EXCEPT ![p] = a]
              /\ todo' = [todo EXCEPT ![p] = WithReturns(a)]
              /\ rc' = [rc EXCEPT ![p] = "none"]
              /\ UNCHANGED <<cur, panel, buf>>
    /\ UNCHANGED <<betas, residuals>>

Goto(p, label) == pc' = [pc EXCEPT ![p] = label]

(* refit only: VALIDATE BEFORE CLEARING.                                   *)
Validate(p) ==
    /\ pc[p] = "validate"
    /\ IF PanelComplete(asof[p])
         THEN Goto(p, "clear") /\ UNCHANGED <<asof, todo, cur, panel, buf, rc>>
         ELSE Exit(p, "failed")
    /\ UNCHANGED <<betas, residuals>>

(* Mutant of ClearFit: the old rows stay.                                   *)
ClearNothing(p) ==
    /\ pc[p] = "clear"
    /\ Goto(p, "panel")
    /\ UNCHANGED <<betas, residuals, asof, todo, cur, panel, buf, rc>>

(* _clear_fit: DELETE FROM betas, DELETE FROM residuals in one session.    *)
ClearFit(p) ==
    /\ pc[p] = "clear"
    /\ betas' = [s \in Symbols |-> {}]
    /\ residuals' = [s \in Symbols |-> {}]
    /\ Goto(p, "panel")
    /\ UNCHANGED <<asof, todo, cur, panel, buf, rc>>

(* run_m2_factor_model builds the panel once, with require_all: it raises  *)
(* when a factor is missing.                                               *)
BuildPanel(p) ==
    /\ pc[p] = "panel"
    /\ IF PanelComplete(asof[p])
         THEN /\ panel' = [panel EXCEPT ![p] = facTo]
              /\ Goto(p, "next")
              /\ UNCHANGED <<asof, todo, cur, buf, rc>>
         ELSE Exit(p, "failed")
    /\ UNCHANGED <<betas, residuals>>

(* build_betas, the reading session: the next name.                        *)
ReadForBetas(p, s) ==
    /\ pc[p] = "next"
    /\ s \in todo[p]
    /\ cur' = [cur EXCEPT ![p] = {s}]
    /\ buf' = [buf EXCEPT ![p] = BetaRows(s, asof[p], panel[p])]
    /\ Goto(p, "writeBetas")
    /\ UNCHANGED <<betas, residuals, asof, todo, panel, rc>>

WriteBetas(p, s) ==
    /\ pc[p] = "writeBetas"
    /\ s \in cur[p]
    /\ betas' = [betas EXCEPT ![s] = Merge(@, buf[p])]
    /\ Goto(p, "readResiduals")
    /\ UNCHANGED <<residuals, asof, todo, cur, panel, buf, rc>>

(* build_residuals reads the returns again.                                *)
ReadForResiduals(p, s) ==
    /\ pc[p] = "readResiduals"
    /\ s \in cur[p]
    /\ buf' = [buf EXCEPT ![p] = ResidualRows(s, asof[p], panel[p])]
    /\ Goto(p, "writeResiduals")
    /\ UNCHANGED <<betas, residuals, asof, todo, cur, panel, rc>>

WriteResiduals(p, s) ==
    /\ pc[p] = "writeResiduals"
    /\ s \in cur[p]
    /\ residuals' = [residuals EXCEPT ![s] = Merge(@, buf[p])]
    /\ todo' = [todo EXCEPT ![p] = @ \ {s}]
    /\ cur' = [cur EXCEPT ![p] = {}]
    /\ buf' = [buf EXCEPT ![p] = {}]
    /\ Goto(p, "next")
    /\ UNCHANGED <<betas, asof, panel, rc>>

(* Every name is done: exit 0.                                             *)
Finish(p) ==
    /\ pc[p] = "next"
    /\ todo[p] = {}
    /\ Exit(p, "ok")
    /\ UNCHANGED <<betas, residuals>>

(* A statement raises (another process has the DuckDB file open) or the    *)
(* script is killed; between the two DELETEs of the clearing session only  *)
(* the betas are gone.                                                     *)
FitterDies(p) ==
    /\ pc[p] # "idle"
    /\ faults < MaxFaults
    /\ faults' = faults + 1
    /\ Exit(p, "failed")
    /\ \/ UNCHANGED betas
       \/ pc[p] = "clear" /\ betas' = [s \in Symbols |-> {}]
    /\ UNCHANGED residuals

FitterStep(p) ==
    \/ Validate(p)
    \/ ClearFit(p)
    \/ BuildPanel(p)
    \/ Finish(p)
    \/ \E s \in Symbols :
          \/ ReadForBetas(p, s)
          \/ WriteBetas(p, s)
          \/ ReadForResiduals(p, s)
          \/ WriteResiduals(p, s)

(***************************************************************************)
(* The scripts beside the jobs that feed them.                             *)
(***************************************************************************)
Init ==
    /\ today = 2
    /\ returns = [s \in Symbols |-> {}]
    /\ facTo \in [Factors -> {1, 2}]
    /\ faults = 0
    /\ FitInit

Tick ==
    /\ today < LastDay
    /\ today' = today + 1
    /\ UNCHANGED <<returns, facTo, fitVars, faults>>

(* ingest_factors.py lands levels of a factor up to a later day.           *)
LandFactor(f, d) ==
    /\ facTo[f] < d
    /\ d <= today
    /\ facTo' = [facTo EXCEPT ![f] = d]
    /\ UNCHANGED <<today, returns, fitVars, faults>>

(* build_total_returns(overwrite=True): the DELETE session ...             *)
EraseReturns(s) ==
    /\ returns[s] # {}
    /\ returns' = [returns EXCEPT ![s] = {}]
    /\ UNCHANGED <<today, facTo, fitVars, faults>>

(* ... and write_parquet, of returns computed over the bars held.  Without *)
(* overwrite it is all that happens.                                       *)
LandReturns(s, held) ==
    /\ returns' = [returns EXCEPT ![s] = Merge(@, ReturnsOf(held, facTo[FX]))]
    /\ UNCHANGED <<today, facTo, fitVars, faults>>

Next ==
    \/ Tick
    \/ \E f \in Factors, d \in Days : LandFactor(f, d)
    \/ \E s \in Symbols : EraseReturns(s)
    \/ \E s \in Symbols, held \in SUBSET (1 .. today) : LandReturns(s, held)
    \/ \E p \in Fitters, a \in Days :
          a <= today /\ Launch(p, a) /\ UNCHANGED <<inputVars, faults>>
    \/ \E p \in Fitters : FitterStep(p) /\ UNCHANGED <<inputVars, faults>>
    \/ \E p \in Fitters : FitterDies(p) /\ UNCHANGED inputVars

Spec == Init /\ [][Next]_vars

(***************************************************************************)
(* Properties.                                                             *)
(***************************************************************************)

(* The daily refit never wipes the fit and then aborts for a missing       *)
(* factor: between its check and its second panel build other jobs run,    *)
(* but factor levels are never lost.                                       *)
RefitNeverStrandsFit ==
    \A p \in Fitters :
        (p = "refit" /\ pc[p] \in {"clear", "panel"}) => PanelComplete(asof[p])

(* Every served row was fitted on enough of the past and on nothing else: *)
(* min_obs rows none of which is later than its day, each with a dollar    *)
(* return and all factors, and a residual's own day among them.  This      *)
(* whichever scripts, rebuilds and factor landings interleaved.            *)
WellFitted(row) ==
    /\ Cardinality(row.used) >= MinObs
    /\ \A q \in row.used :
          /\ q.usd /\ q.day <= row.day
          /\ \A f \in Factors : q.day <= facTo[f]

FitWithinFactors ==
    \A s \in Symbols :
        /\ \A row \in betas[s] : WellFitted(row)
        /\ \A row \in residuals[s] : WellFitted(row) /\ OwnDay(row)

(* Concurrent fits never leave two versions of one day.                    *)
OneFitPerDay ==
    \A s \in Symbols :
        /\ \A r, q \in betas[s] : r.day = q.day => r = q
        /\ \A r, q \in residuals[s] : r.day = q.day => r = q

(***************************************************************************)
(* The inductive invariant: what is about to be written is as good as what *)
(* is there, the returns it was read from have one row per day, and the    *)
(* levels of a panel are still in the store.                               *)
(***************************************************************************)
OneReturnPerDay == \A s \in Symbols : \A r, q \in returns[s] : r.day = q.day => r = q

BufferedFitSound ==
    \A p \in Fitters :
        /\ \A row \in buf[p] : WellFitted(row)
        /\ pc[p] = "writeResiduals" => \A row \in buf[p] : OwnDay(row)
        /\ \A r, q \in buf[p] : r.day = q.day => r = q

PanelWithinLevels == \A p \in Fitters, f \in Factors : panel[p][f] <= facTo[f]

FitSound ==
    /\ TypeOK
    /\ RefitNeverStrandsFit
    /\ FitWithinFactors
    /\ OneFitPerDay
    /\ OneReturnPerDay
    /\ PanelWithinLevels
    /\ BufferedFitSound
=============================================================================
