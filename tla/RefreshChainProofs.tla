------------------------- MODULE RefreshChainProofs -------------------------
(***************************************************************************)
(* Proofs about the daily refresh chain and the factor fit it runs, for    *)
(* any names, factors, number of days, faults, retries and revisions.      *)
(*                                                                         *)
(* First the fit on its own, for any of the two scripts running: the       *)
(* inductive invariant is FitSound, which beside the three properties says *)
(* that the returns have one row per day and that the rows a script is     *)
(* about to write are sound.  Then the chain, and what its exit code of 0  *)
(* promises: FitSound holds within it too, and the lemmas about the steps  *)
(* of a script are used for the refit.                                     *)
(***************************************************************************)
EXTENDS RefreshChain, FiniteSetTheorems, WellFoundedInduction, TLAPS

(***************************************************************************)
(* The operators.                                                          *)
(***************************************************************************)
OncePerDay(R) == \A r, q \in R : r.day = q.day => r = q

Complete(R) == \A row \in R : WellFitted(row)

OwnDays(R) == \A row \in R : OwnDay(row)

(* write_parquet keeps one row per day and brings in nothing but the new.  *)
LEMMA MergeSound ==
  ASSUME NEW T, NEW old \in SUBSET T, NEW new \in SUBSET T,
         OncePerDay(old), OncePerDay(new)
  PROVE  Merge(old, new) \in SUBSET T /\ OncePerDay(Merge(old, new))
BY DEF Merge, OncePerDay

(* compute_total_returns gives one row per day: the previous held bar is   *)
(* unique, and the FX series decides on the dollars.                       *)
LEMMA ReturnsSound ==
  ASSUME NEW held \in SUBSET Days, NEW fxTo \in Days
  PROVE  ReturnsOf(held, fxTo) \in SUBSET Ret /\ OncePerDay(ReturnsOf(held, fxTo))
<1>1. ReturnsOf(held, fxTo) \in SUBSET Ret
  BY DEF ReturnsOf, Ret
<1>2. ASSUME NEW r \in ReturnsOf(held, fxTo), NEW q \in ReturnsOf(held, fxTo),
             r.day = q.day
      PROVE  r = q
  <2>1. r.prev \in Days /\ q.prev \in Days /\ r \in Ret /\ q \in Ret
    BY <1>1 DEF Ret
  <2>2. r.prev \in Before(q.day, held) /\ q.prev \in Before(r.day, held)
    BY <1>2 DEF ReturnsOf, Before
  <2>3. r.prev <= q.prev /\ q.prev <= r.prev
    BY <2>2 DEF ReturnsOf
  <2>4. r.prev = q.prev
    BY <2>1, <2>3 DEF Days
  <2>5. r.usd = q.usd
    <3>1. r.usd \in BOOLEAN /\ q.usd \in BOOLEAN
      BY <2>1 DEF Ret
    <3>2. (r.usd <=> r.day <= fxTo) /\ (q.usd <=> q.day <= fxTo)
      BY DEF ReturnsOf
    <3>3. r.usd <=> q.usd
      BY <1>2, <3>2
    <3> QED
      BY <3>1, <3>3
  <2> QED
    BY <1>2, <2>1, <2>4, <2>5 DEF Ret
<1> QED
  BY <1>1, <1>2 DEF OncePerDay

(* What a script is about to write is well fitted and has one row per day, *)
(* as the levels of its panel are still there.                             *)
LEMMA BetaRowsSound ==
  ASSUME FitSound, NEW p \in Fitters, NEW s \in Symbols
  PROVE  /\ BetaRows(s, asof[p], panel[p]) \in SUBSET Fitted
         /\ OncePerDay(BetaRows(s, asof[p], panel[p]))
         /\ Complete(BetaRows(s, asof[p], panel[p]))
<1> DEFINE rows == Joined(s, asof[p], panel[p])
           used(d) == Used(rows, d, panel[p])
           fit == BetaRows(s, asof[p], panel[p])
<1>1. /\ returns[s] \in SUBSET Ret
      /\ \A f \in Factors : /\ panel[p][f] \in Nat /\ facTo[f] \in Nat
                             /\ panel[p][f] <= facTo[f]
  BY DEF FitSound, TypeOK, PanelWithinLevels, Days
<1>2. \A r \in rows : r \in Ret /\ r \in returns[s] /\ r.usd
  BY <1>1 DEF Joined
<1>3. \A d \in Days : \A q \in used(d) :
         q \in Ret /\ q.usd /\ q.day <= d /\ \A f \in Factors : q.day <= facTo[f]
  <2>1. \A d \in Days : \A q \in used(d) :
           q \in rows /\ q.day <= d /\ \A f \in Factors : q.day <= panel[p][f]
    BY DEF Used, AllThere
  <2> QED
    BY <1>1, <1>2, <2>1 DEF Ret, Days
<1>4. \A row \in fit : /\ \E r \in rows : row = [day |-> r.day, used |-> used(r.day)]
                       /\ Cardinality(row.used) >= MinObs
  BY DEF BetaRows
<1> HIDE DEF rows, used, fit
<1>5. \A row \in fit : row \in Fitted /\ WellFitted(row)
  <2> SUFFICES ASSUME NEW row \in fit PROVE row \in Fitted /\ WellFitted(row)
    OBVIOUS
  <2>1. PICK r \in rows : row = [day |-> r.day, used |-> used(r.day)]
    BY <1>4
  <2>2. r.day \in Days
    BY <1>2 DEF Ret
  <2> QED
    BY <1>3, <1>4, <2>1, <2>2 DEF Fitted, WellFitted
<1>6. OncePerDay(fit)
  BY <1>4 DEF OncePerDay
<1> QED
  BY <1>5, <1>6 DEF Complete, fit

LEMMA ResidualRowsSound ==
  ASSUME FitSound, NEW p \in Fitters, NEW s \in Symbols
  PROVE  /\ ResidualRows(s, asof[p], panel[p]) \in SUBSET Fitted
         /\ OncePerDay(ResidualRows(s, asof[p], panel[p]))
         /\ Complete(ResidualRows(s, asof[p], panel[p]))
         /\ OwnDays(ResidualRows(s, asof[p], panel[p]))
<1>1. \A row \in ResidualRows(s, asof[p], panel[p]) :
         row \in BetaRows(s, asof[p], panel[p]) /\ OwnDay(row)
  BY DEF ResidualRows
<1> QED
  BY <1>1, BetaRowsSound DEF OncePerDay, Complete, OwnDays

(***************************************************************************)
(* What the steps of a script do to the invariant.                         *)
(***************************************************************************)

(* A script that leaves, in order or not, disturbs nothing.                *)
LEMMA ExitKeepsSound ==
  ASSUME FitSound, NEW p \in Fitters, NEW result \in {"ok", "failed"},
         Exit(p, result), UNCHANGED <<inputVars, residuals>>,
         faults' \in 0 .. MaxFaults,
         betas' = betas \/ betas' = [s \in Symbols |-> {}]
  PROVE  FitSound'
<1> USE DEF FitSound, Exit, inputVars
<1>1. TypeOK'
  BY LastDayAssumption DEF TypeOK, PCs, NoPanel, Days
<1>2. RefitNeverStrandsFit'
  BY DEF RefitNeverStrandsFit, TypeOK, PanelComplete, Present
<1>3. FitWithinFactors' /\ OneFitPerDay'
  BY DEF FitWithinFactors, OneFitPerDay, WellFitted
<1>4. OneReturnPerDay'
  BY DEF OneReturnPerDay
<1>5. BufferedFitSound'
  BY DEF BufferedFitSound, TypeOK, WellFitted
<1>6. PanelWithinLevels'
  BY DEF PanelWithinLevels, TypeOK, NoPanel, Days
<1> QED
  BY <1>1, <1>2, <1>3, <1>4, <1>5, <1>6

(* A script that goes to its next label, its fit tables untouched: it must *)
(* not reach the clearing without a complete panel, and what it reads on   *)
(* the way must be sound.                                                  *)
LEMMA MoveKeepsSound ==
  ASSUME FitSound, NEW p \in Fitters, NEW label \in PCs,
         pc' = [pc EXCEPT ![p] = label],
         NEW a \in Days, asof' = [asof EXCEPT ![p] = a],
         (p = "refit" /\ label \in {"clear", "panel"}) => PanelComplete(a),
         NEW levels \in [Factors -> Days], panel' = [panel EXCEPT ![p] = levels],
         \A f \in Factors : levels[f] <= facTo[f],
         NEW rows \in SUBSET Fitted, buf' = [buf EXCEPT ![p] = rows],
         OncePerDay(rows), Complete(rows), label = "writeResiduals" => OwnDays(rows),
         todo' \in [Fitters -> SUBSET Symbols], cur' \in [Fitters -> SUBSET Symbols],
         rc' \in [Fitters -> {"none", "ok", "failed"}],
         UNCHANGED <<inputVars, faults, betas, residuals>>
  PROVE  FitSound'
<1> USE DEF FitSound, inputVars
<1>1. TypeOK'
  BY DEF TypeOK
<1>2. RefitNeverStrandsFit'
  BY DEF RefitNeverStrandsFit, TypeOK, PanelComplete, Present
<1>3. FitWithinFactors' /\ OneFitPerDay' /\ OneReturnPerDay'
  BY DEF FitWithinFactors, OneFitPerDay, OneReturnPerDay, WellFitted
<1>4. PanelWithinLevels'
  BY DEF PanelWithinLevels, TypeOK
<1>5. BufferedFitSound'
  BY DEF BufferedFitSound, TypeOK, OncePerDay, Complete, OwnDays, WellFitted
<1> QED
  BY <1>1, <1>2, <1>3, <1>4, <1>5

(* The same without a panel and without a read.                            *)
LEMMA StepKeepsSound ==
  ASSUME FitSound, NEW p \in Fitters, NEW label \in PCs, Goto(p, label),
         (p = "refit" /\ label \in {"clear", "panel"}) => PanelComplete(asof[p]),
         label # "writeResiduals",
         UNCHANGED <<inputVars, faults, betas, residuals, asof, todo, cur, panel, buf, rc>>
  PROVE  FitSound'
<1>1. /\ asof[p] \in Days /\ asof' = [asof EXCEPT ![p] = asof[p]]
      /\ panel[p] \in [Factors -> Days] /\ panel' = [panel EXCEPT ![p] = panel[p]]
      /\ buf[p] \in SUBSET Fitted /\ buf' = [buf EXCEPT ![p] = buf[p]]
      /\ todo' \in [Fitters -> SUBSET Symbols]
      /\ cur' \in [Fitters -> SUBSET Symbols]
      /\ rc' \in [Fitters -> {"none", "ok", "failed"}]
  BY DEF FitSound, TypeOK
<1>2. /\ OncePerDay(buf[p]) /\ Complete(buf[p])
      /\ \A f \in Factors : panel[p][f] <= facTo[f]
  BY DEF FitSound, BufferedFitSound, PanelWithinLevels, OncePerDay, Complete
<1> HIDE DEF FitSound
<1> QED
  BY <1>1, <1>2, MoveKeepsSound DEF Goto

LEMMA LaunchKeepsSound ==
  ASSUME FitSound, NEW p \in Fitters, NEW a \in Days, Launch(p, a),
         UNCHANGED <<inputVars, faults>>
  PROVE  FitSound'
<1>1. CASE Exit(p, "failed")
  <2>1. faults' \in 0 .. MaxFaults
    BY DEF FitSound, TypeOK
  <2>2. UNCHANGED <<inputVars, residuals>> /\ betas' = betas
    BY DEF Launch
  <2> QED
    BY <1>1, <2>1, <2>2, ExitKeepsSound
<1>2. CASE /\ pc' = [pc EXCEPT ![p] = FirstStep(p)]
           /\ asof' = [asof EXCEPT ![p] = a]
           /\ todo' = [todo EXCEPT ![p] = WithReturns(a)]
           /\ rc' = [rc EXCEPT ![p] = "none"]
           /\ UNCHANGED <<cur, panel, buf>>
  <2>1. /\ FirstStep(p) \in PCs /\ FirstStep(p) # "writeResiduals"
        /\ ~(p = "refit" /\ FirstStep(p) \in {"clear", "panel"})
    BY DEF FirstStep, PCs
  <2>2. /\ panel[p] \in [Factors -> Days] /\ panel' = [panel EXCEPT ![p] = panel[p]]
        /\ buf[p] \in SUBSET Fitted /\ buf' = [buf EXCEPT ![p] = buf[p]]
    BY <1>2 DEF FitSound, TypeOK
  <2>3. /\ OncePerDay(buf[p]) /\ Complete(buf[p])
        /\ \A f \in Factors : panel[p][f] <= facTo[f]
    BY DEF FitSound, BufferedFitSound, PanelWithinLevels, OncePerDay, Complete
  <2>4. /\ todo' \in [Fitters -> SUBSET Symbols]
        /\ cur' \in [Fitters -> SUBSET Symbols]
        /\ rc' \in [Fitters -> {"none", "ok", "failed"}]
    BY <1>2 DEF FitSound, TypeOK, WithReturns
  <2>5. UNCHANGED <<inputVars, faults, betas, residuals>>
    BY DEF Launch
  <2> QED
    BY <1>2, <2>1, <2>2, <2>3, <2>4, <2>5, MoveKeepsSound
<1> QED
  BY <1>1, <1>2 DEF Launch

(* The guard of Validate is what makes the clearing safe.                  *)
LEMMA ValidateKeepsSound ==
  ASSUME FitSound, NEW p \in Fitters, Validate(p), UNCHANGED <<inputVars, faults>>
  PROVE  FitSound'
<1>1. CASE PanelComplete(asof[p])
  <2>1. Goto(p, "clear") /\ UNCHANGED <<betas, residuals, asof, todo, cur, panel, buf, rc>>
    BY <1>1 DEF Validate
  <2> QED
    BY <1>1, <2>1, StepKeepsSound DEF PCs
<1>2. CASE ~PanelComplete(asof[p])
  <2>1. Exit(p, "failed") /\ UNCHANGED <<betas, residuals>>
    BY <1>2 DEF Validate
  <2> QED
    BY <2>1, ExitKeepsSound DEF FitSound, TypeOK
<1> QED
  BY <1>1, <1>2

LEMMA ClearKeepsSound ==
  ASSUME FitSound, NEW p \in Fitters, ClearFit(p), UNCHANGED <<inputVars, faults>>
  PROVE  FitSound'
<1> USE DEF FitSound, ClearFit, Goto, inputVars
<1>1. TypeOK'
  BY DEF TypeOK, PCs
<1>2. RefitNeverStrandsFit'
  BY DEF RefitNeverStrandsFit, TypeOK, PanelComplete, Present
<1>3. FitWithinFactors' /\ OneFitPerDay' /\ OneReturnPerDay'
  BY DEF FitWithinFactors, OneFitPerDay, OneReturnPerDay, WellFitted
<1>4. BufferedFitSound' /\ PanelWithinLevels'
  BY DEF BufferedFitSound, PanelWithinLevels, TypeOK, WellFitted
<1> QED
  BY <1>1, <1>2, <1>3, <1>4

LEMMA PanelKeepsSound ==
  ASSUME FitSound, NEW p \in Fitters, BuildPanel(p), UNCHANGED <<inputVars, faults>>
  PROVE  FitSound'
<1>1. CASE PanelComplete(asof[p])
  <2>1. /\ panel' = [panel EXCEPT ![p] = facTo]
        /\ pc' = [pc EXCEPT ![p] = "next"]
        /\ UNCHANGED <<betas, residuals, asof, todo, cur, buf, rc>>
    BY <1>1 DEF BuildPanel, Goto
  <2>2. /\ asof[p] \in Days /\ asof' = [asof EXCEPT ![p] = asof[p]]
        /\ facTo \in [Factors -> Days]
        /\ \A f \in Factors : facTo[f] <= facTo[f]
        /\ buf[p] \in SUBSET Fitted /\ buf' = [buf EXCEPT ![p] = buf[p]]
        /\ todo' \in [Fitters -> SUBSET Symbols]
        /\ cur' \in [Fitters -> SUBSET Symbols]
        /\ rc' \in [Fitters -> {"none", "ok", "failed"}]
    BY <2>1 DEF FitSound, TypeOK, Days
  <2>3. OncePerDay(buf[p]) /\ Complete(buf[p])
    BY DEF FitSound, BufferedFitSound, OncePerDay, Complete
  <2>4. "next" \in PCs /\ "next" \notin {"clear", "panel", "writeResiduals"}
    BY DEF PCs
  <2>5. UNCHANGED <<inputVars, faults, betas, residuals>>
    BY <2>1
  <2> QED
    BY <2>1, <2>2, <2>3, <2>4, <2>5, MoveKeepsSound
<1>2. CASE ~PanelComplete(asof[p])
  <2>1. Exit(p, "failed") /\ UNCHANGED <<betas, residuals>>
    BY <1>2 DEF BuildPanel
  <2> QED
    BY <2>1, ExitKeepsSound DEF FitSound, TypeOK
<1> QED
  BY <1>1, <1>2

LEMMA FinishKeepsSound ==
  ASSUME FitSound, NEW p \in Fitters, Finish(p), UNCHANGED <<inputVars, faults>>
  PROVE  FitSound'
BY ExitKeepsSound DEF Finish, FitSound, TypeOK

LEMMA DeathKeepsSound ==
  ASSUME FitSound, NEW p \in Fitters, FitterDies(p), UNCHANGED inputVars
  PROVE  FitSound'
<1>1. faults' \in 0 .. MaxFaults
  BY MaxFaultsAssumption DEF FitterDies, FitSound, TypeOK
<1>2. /\ Exit(p, "failed") /\ UNCHANGED <<inputVars, residuals>>
      /\ betas' = betas \/ betas' = [s \in Symbols |-> {}]
  BY DEF FitterDies
<1> QED
  BY <1>1, <1>2, ExitKeepsSound

LEMMA ReadKeepsSound ==
  ASSUME FitSound, NEW p \in Fitters, NEW s \in Symbols,
         ReadForBetas(p, s) \/ ReadForResiduals(p, s), UNCHANGED <<inputVars, faults>>
  PROVE  FitSound'
<1>1. /\ asof[p] \in Days /\ asof' = [asof EXCEPT ![p] = asof[p]]
      /\ panel[p] \in [Factors -> Days] /\ panel' = [panel EXCEPT ![p] = panel[p]]
      /\ \A f \in Factors : panel[p][f] <= facTo[f]
  BY DEF FitSound, TypeOK, PanelWithinLevels, ReadForBetas, ReadForResiduals
<1>2. /\ todo' \in [Fitters -> SUBSET Symbols]
      /\ cur' \in [Fitters -> SUBSET Symbols]
      /\ rc' \in [Fitters -> {"none", "ok", "failed"}]
      /\ UNCHANGED <<betas, residuals>>
  BY DEF FitSound, TypeOK, ReadForBetas, ReadForResiduals
<1>3. {"writeBetas", "writeResiduals"} \subseteq PCs \ {"clear", "panel"}
  BY DEF PCs
<1>4. CASE ReadForBetas(p, s)
  <2>1. /\ buf' = [buf EXCEPT ![p] = BetaRows(s, asof[p], panel[p])]
        /\ pc' = [pc EXCEPT ![p] = "writeBetas"]
    BY <1>4 DEF ReadForBetas, Goto
  <2> QED
    BY <1>1, <1>2, <1>3, <2>1, BetaRowsSound, MoveKeepsSound
<1>5. CASE ReadForResiduals(p, s)
  <2>1. /\ buf' = [buf EXCEPT ![p] = ResidualRows(s, asof[p], panel[p])]
        /\ pc' = [pc EXCEPT ![p] = "writeResiduals"]
    BY <1>5 DEF ReadForResiduals, Goto
  <2> QED
    BY <1>1, <1>2, <1>3, <2>1, ResidualRowsSound, MoveKeepsSound
<1> QED
  BY <1>4, <1>5

(* A write merges sound rows into a sound table.                           *)
LEMMA WriteKeepsSound ==
  ASSUME FitSound, NEW p \in Fitters, NEW s \in Symbols,
         WriteBetas(p, s) \/ WriteResiduals(p, s), UNCHANGED <<inputVars, faults>>
  PROVE  FitSound'
<1> USE DEF FitSound, inputVars
<1>1. /\ buf[p] \in SUBSET Fitted /\ OncePerDay(buf[p]) /\ Complete(buf[p])
      /\ betas[s] \in SUBSET Fitted /\ OncePerDay(betas[s]) /\ Complete(betas[s])
      /\ residuals[s] \in SUBSET Fitted /\ OncePerDay(residuals[s]) /\ Complete(residuals[s])
      /\ OwnDays(residuals[s]) /\ (pc[p] = "writeResiduals" => OwnDays(buf[p]))
  BY DEF TypeOK, BufferedFitSound, OneFitPerDay, FitWithinFactors, OncePerDay, Complete,
         OwnDays
<1>2. /\ Merge(betas[s], buf[p]) \in SUBSET Fitted
      /\ OncePerDay(Merge(betas[s], buf[p]))
      /\ Merge(residuals[s], buf[p]) \in SUBSET Fitted
      /\ OncePerDay(Merge(residuals[s], buf[p]))
  BY <1>1, MergeSound
<1>3. /\ Complete(Merge(betas[s], buf[p]))
      /\ Complete(Merge(residuals[s], buf[p]))
      /\ pc[p] = "writeResiduals" => OwnDays(Merge(residuals[s], buf[p]))
  BY <1>1 DEF Merge, Complete, OwnDays
<1>4. /\ betas' = [betas EXCEPT ![s] = betas'[s]]
      /\ residuals' = [residuals EXCEPT ![s] = residuals'[s]]
      /\ betas'[s] \in SUBSET Fitted /\ OncePerDay(betas'[s]) /\ Complete(betas'[s])
      /\ residuals'[s] \in SUBSET Fitted /\ OncePerDay(residuals'[s])
      /\ Complete(residuals'[s]) /\ OwnDays(residuals'[s])
  <2>1. CASE WriteBetas(p, s)
    BY <1>1, <1>2, <1>3, <2>1 DEF TypeOK, WriteBetas
  <2>2. CASE WriteResiduals(p, s)
    BY <1>1, <1>2, <1>3, <2>2 DEF TypeOK, WriteResiduals
  <2> QED
    BY <2>1, <2>2
<1>5. TypeOK'
  <2>1. /\ betas' \in [Symbols -> SUBSET Fitted]
        /\ residuals' \in [Symbols -> SUBSET Fitted]
    BY <1>4 DEF TypeOK
  <2>2. /\ todo' \in [Fitters -> SUBSET Symbols]
        /\ cur' \in [Fitters -> SUBSET Symbols]
        /\ buf' \in [Fitters -> SUBSET Fitted]
        /\ pc' \in [Fitters -> PCs]
        /\ UNCHANGED <<asof, panel, rc>>
    <3>1. CASE WriteBetas(p, s)
      BY <3>1 DEF TypeOK, WriteBetas, Goto, PCs
    <3>2. CASE WriteResiduals(p, s)
      BY <3>2 DEF TypeOK, WriteResiduals, Goto, PCs
    <3> QED
      BY <3>1, <3>2
  <2> QED
    BY <2>1, <2>2 DEF TypeOK
<1>6. RefitNeverStrandsFit'
  BY DEF RefitNeverStrandsFit, TypeOK, PanelComplete, Present, WriteBetas, WriteResiduals,
         Goto
<1>7. FitWithinFactors' /\ OneFitPerDay'
  <2>1. ASSUME NEW t \in Symbols
        PROVE  /\ OncePerDay(betas'[t]) /\ Complete(betas'[t])
               /\ OncePerDay(residuals'[t]) /\ Complete(residuals'[t])
               /\ OwnDays(residuals'[t])
    <3>1. CASE t = s
      BY <1>4, <3>1
    <3>2. CASE t # s
      <4>1. betas'[t] = betas[t] /\ residuals'[t] = residuals[t]
        BY <1>4, <3>2 DEF TypeOK
      <4> QED
        BY <4>1 DEF OneFitPerDay, FitWithinFactors, OncePerDay, Complete, OwnDays
    <3> QED
      BY <3>1, <3>2
  <2> QED
    <3>1. \A row : WellFitted(row)' <=> WellFitted(row)
      BY DEF WellFitted
    <3> QED
      BY <2>1, <3>1 DEF FitWithinFactors, OneFitPerDay, OncePerDay, Complete, OwnDays, OwnDay
<1>8. OneReturnPerDay' /\ PanelWithinLevels'
  BY DEF OneReturnPerDay, PanelWithinLevels, WriteBetas, WriteResiduals
<1>9. BufferedFitSound'
  BY DEF BufferedFitSound, TypeOK, WriteBetas, WriteResiduals, Goto, WellFitted
<1> QED
  BY <1>5, <1>6, <1>7, <1>8, <1>9

(* Levels that only grow leave complete rows complete.                     *)
LEMMA GrowthKeepsComplete ==
  ASSUME \A f \in Factors : facTo[f] \in Nat /\ facTo'[f] \in Nat /\ facTo[f] <= facTo'[f],
         NEW R \in SUBSET Fitted, Complete(R)
  PROVE  Complete(R)'
<1> SUFFICES ASSUME NEW row \in R PROVE WellFitted(row)'
  BY DEF Complete
<1>1. WellFitted(row) /\ \A q \in row.used : q.day \in Nat
  BY DEF Complete, Fitted, Ret, Days
<1> QED
  BY <1>1 DEF WellFitted

(***************************************************************************)
(* The jobs beside the scripts.                                            *)
(***************************************************************************)

(* Levels only grow, so a complete panel and complete rows stay complete.  *)
LEMMA FeedKeepsSound ==
  ASSUME FitSound,
         \/ Tick
         \/ \E f \in Factors, d \in Days : LandFactor(f, d)
  PROVE  FitSound'
<1> USE DEF FitSound, fitVars
<1>1. TypeOK'
  BY LastDayAssumption DEF TypeOK, Tick, LandFactor, Days
<1>2. /\ \A f \in Factors : facTo[f] \in Nat /\ facTo'[f] \in Nat /\ facTo[f] <= facTo'[f]
      /\ UNCHANGED <<returns, fitVars>>
  BY <1>1 DEF TypeOK, Tick, LandFactor, Days
<1>3. \A a \in Days : PanelComplete(a) => PanelComplete(a)'
  BY <1>2 DEF PanelComplete, Present
<1>4. \A R \in SUBSET Fitted : Complete(R) => Complete(R)'
  BY <1>2, GrowthKeepsComplete
<1>5. RefitNeverStrandsFit'
  BY <1>2, <1>3 DEF RefitNeverStrandsFit, TypeOK
<1>6. FitWithinFactors'
  <2>1. \A s \in Symbols : /\ betas[s] \in SUBSET Fitted /\ Complete(betas[s])
                           /\ residuals[s] \in SUBSET Fitted /\ Complete(residuals[s])
                           /\ OwnDays(residuals[s])
    BY DEF FitWithinFactors, TypeOK, Complete, OwnDays
  <2>2. \A s \in Symbols : Complete(betas[s])' /\ Complete(residuals[s])'
    BY <1>2, <1>4, <2>1
  <2>3. UNCHANGED residuals
    BY <1>2
  <2> QED
    BY <2>1, <2>2, <2>3 DEF FitWithinFactors, Complete, OwnDays, OwnDay
<1>7. OneFitPerDay' /\ OneReturnPerDay' /\ PanelWithinLevels'
  BY <1>2 DEF OneFitPerDay, OneReturnPerDay, PanelWithinLevels, TypeOK, Days
<1>8. BufferedFitSound'
  <2>1. \A p \in Fitters : buf[p] \in SUBSET Fitted /\ Complete(buf[p])
    BY DEF BufferedFitSound, TypeOK, Complete
  <2>2. \A p \in Fitters : Complete(buf[p])'
    BY <1>2, <1>4, <2>1
  <2> QED
    BY <1>2, <2>2 DEF BufferedFitSound, Complete
<1> QED
  BY <1>1, <1>5, <1>6, <1>7, <1>8

LEMMA RebuildKeepsSound ==
  ASSUME FitSound, NEW s \in Symbols,
         \/ EraseReturns(s)
         \/ \E held \in SUBSET (1 .. today) : LandReturns(s, held)
  PROVE  FitSound'
<1> USE DEF FitSound, fitVars
<1>1. PICK rows \in SUBSET Ret :
         OncePerDay(rows) /\ returns' = [returns EXCEPT ![s] = rows]
  <2>1. CASE EraseReturns(s)
    BY <2>1 DEF EraseReturns, OncePerDay
  <2>2. ASSUME NEW held \in SUBSET (1 .. today), LandReturns(s, held)
        PROVE  \E rows \in SUBSET Ret :
                  OncePerDay(rows) /\ returns' = [returns EXCEPT ![s] = rows]
    <3>1. held \in SUBSET Days /\ facTo[FX] \in Days
      BY LastDayAssumption, FXAssumption DEF TypeOK, Days
    <3>2. returns[s] \in SUBSET Ret /\ OncePerDay(returns[s])
      BY DEF TypeOK, OneReturnPerDay, OncePerDay
    <3>3. /\ ReturnsOf(held, facTo[FX]) \in SUBSET Ret
          /\ OncePerDay(ReturnsOf(held, facTo[FX]))
      BY <3>1, ReturnsSound
    <3>4. /\ Merge(returns[s], ReturnsOf(held, facTo[FX])) \in SUBSET Ret
          /\ OncePerDay(Merge(returns[s], ReturnsOf(held, facTo[FX])))
      BY <3>2, <3>3, MergeSound
    <3> QED
      BY <2>2, <3>4 DEF LandReturns
  <2> QED
    BY <2>1, <2>2
<1>2. UNCHANGED <<today, facTo, fitVars, faults>>
  BY DEF EraseReturns, LandReturns
<1>3. TypeOK'
  BY <1>1, <1>2 DEF TypeOK
<1>4. OneReturnPerDay'
  BY <1>1 DEF OneReturnPerDay, OncePerDay, TypeOK
<1>5. /\ RefitNeverStrandsFit' /\ FitWithinFactors' /\ OneFitPerDay' /\ BufferedFitSound'
      /\ PanelWithinLevels'
  BY <1>2 DEF RefitNeverStrandsFit, PanelComplete, Present, FitWithinFactors,
              OneFitPerDay, BufferedFitSound, PanelWithinLevels, WellFitted
<1> QED
  BY <1>3, <1>4, <1>5

(***************************************************************************)
(* The invariant and what follows from it.                                 *)
(***************************************************************************)
LEMMA InitSound == Init => FitSound
<1> SUFFICES ASSUME Init PROVE FitSound
  OBVIOUS
<1>1. TypeOK
  BY LastDayAssumption, MaxFaultsAssumption DEF Init, FitInit, NoPanel, TypeOK, Days, PCs
<1> QED
  BY <1>1 DEF Init, FitInit, NoPanel, FitSound, RefitNeverStrandsFit, FitWithinFactors,
              OneFitPerDay, OneReturnPerDay, PanelWithinLevels, BufferedFitSound, TypeOK,
              Days

LEMMA NextSound == FitSound /\ [Next]_vars => FitSound'
<1> SUFFICES ASSUME FitSound, [Next]_vars PROVE FitSound'
  OBVIOUS
<1>1. CASE Tick \/ \E f \in Factors, d \in Days : LandFactor(f, d)
  BY <1>1, FeedKeepsSound
<1>2. CASE \E s \in Symbols : EraseReturns(s)
  BY <1>2, RebuildKeepsSound
<1>3. CASE \E s \in Symbols, held \in SUBSET (1 .. today) : LandReturns(s, held)
  BY <1>3, RebuildKeepsSound
<1>4. CASE \E p \in Fitters, a \in Days :
              a <= today /\ Launch(p, a) /\ UNCHANGED <<inputVars, faults>>
  BY <1>4, LaunchKeepsSound
<1>5. CASE \E p \in Fitters : FitterStep(p) /\ UNCHANGED <<inputVars, faults>>
  <2> SUFFICES ASSUME NEW p \in Fitters, FitterStep(p), UNCHANGED <<inputVars, faults>>
               PROVE  FitSound'
    BY <1>5
  <2>1. CASE Validate(p)
    BY <2>1, ValidateKeepsSound
  <2>2. CASE ClearFit(p)
    BY <2>2, ClearKeepsSound
  <2>3. CASE BuildPanel(p)
    BY <2>3, PanelKeepsSound
  <2>4. CASE Finish(p)
    BY <2>4, FinishKeepsSound
  <2>5. CASE \E s \in Symbols : ReadForBetas(p, s) \/ ReadForResiduals(p, s)
    BY <2>5, ReadKeepsSound
  <2>6. CASE \E s \in Symbols : WriteBetas(p, s) \/ WriteResiduals(p, s)
    BY <2>6, WriteKeepsSound
  <2> QED
    BY <2>1, <2>2, <2>3, <2>4, <2>5, <2>6 DEF FitterStep
<1>6. CASE \E p \in Fitters : FitterDies(p) /\ UNCHANGED inputVars
  BY <1>6, DeathKeepsSound
<1>7. CASE UNCHANGED vars
  BY <1>7 DEF vars, inputVars, fitVars, FitSound, TypeOK, RefitNeverStrandsFit,
              PanelComplete, Present, FitWithinFactors, OneFitPerDay, OneReturnPerDay,
              PanelWithinLevels, BufferedFitSound, WellFitted
<1> QED
  BY <1>1, <1>2, <1>3, <1>4, <1>5, <1>6, <1>7 DEF Next

(* The fit is sound in every reachable state, whichever scripts and jobs   *)
(* interleave and wherever they die.                                       *)
THEOREM FitAlwaysSound == Spec => []FitSound
BY InitSound, NextSound, PTL DEF Spec

(* Type correctness of the factor fit.                                     *)
COROLLARY FitTypeOK == Spec => []TypeOK
<1>1. FitSound => TypeOK
  BY DEF FitSound
<1> QED
  BY <1>1, FitAlwaysSound, PTL

(* The daily refit never wipes the fit and then aborts for a missing       *)
(* factor (refit_factor_model.py), whatever lands in between.              *)
COROLLARY FitNeverStranded == Spec => []RefitNeverStrandsFit
<1>1. FitSound => RefitNeverStrandsFit
  BY DEF FitSound
<1> QED
  BY <1>1, FitAlwaysSound, PTL

(* Every served beta and residual was fitted on min_obs complete days, not *)
(* past its own, and a residual on its own day too.                        *)
COROLLARY FitComplete == Spec => []FitWithinFactors
<1>1. FitSound => FitWithinFactors
  BY DEF FitSound
<1> QED
  BY <1>1, FitAlwaysSound, PTL

(* Concurrent fits leave one version of a day.                             *)
COROLLARY FitOncePerDay == Spec => []OneFitPerDay
<1>1. FitSound => OneFitPerDay
  BY DEF FitSound
<1> QED
  BY <1>1, FitAlwaysSound, PTL

-----------------------------------------------------------------------------
(***************************************************************************)
(* The inductive invariant.                                                *)
(***************************************************************************)
DailyStages == {"pull", "read", "delete", "insert"}

Planned(s) == plan[s] # NotPlanned

Rebuilt(s) == returns[s] = ReturnsOf(HeldDays(s), facTo[FX])

(* What is held was posted, and what is posted is not of the future; a     *)
(* return is that of a held bar which is not the first.                    *)
BarsSound ==
    /\ day <= today
    /\ \A s \in Symbols, d \in Days :
          /\ vendor[s][d] # NoBar => d <= today
          /\ prices[s][d] # NoBar => vendor[s][d] # NoBar
    /\ \A s \in Symbols : \A r \in returns[s] :
          r.day \in HeldDays(s) /\ Before(r.day, HeldDays(s)) # {}

AtMostOne(S) == S = {} \/ \E s \in S : S = {s}

(* daily_update at work: nothing is held past its as_of, a planned name    *)
(* holds its last day, and every planned name is still to pull, or being   *)
(* rebuilt, or rebuilt already, or one was missed.                         *)
DailySound ==
    /\ AtMostOne(pulling)
    /\ at \notin DailyStages => pulling = {}
    /\ at \in DailyStages =>
          \A s \in Symbols :
             /\ \A d \in HeldDays(s) : d <= day
             /\ Planned(s) => plan[s] \in HeldDays(s)
             /\ s \in pulls \cup pulling => Planned(s)
             /\ Planned(s) /\ ~missed => s \in pulls \cup pulling \/ Rebuilt(s)
    /\ \A s \in pulling :
          /\ at \in {"delete", "insert"} => fresh = ReturnsOf(HeldDays(s), facTo[FX])
          /\ at = "insert" => returns[s] = {}

(* A chain that has not come that far has no exit code.                    *)
CodesSound ==
    /\ at \in {"factors", "scan"} \cup DailyStages => codes["daily"] = "none"
    /\ OkMeansRebuilt

BetaTarget(s) == BetaRows(s, asof[Refit], facTo)

ResidualTarget(s) == ResidualRows(s, asof[Refit], facTo)

Served(s) == betas[s] = BetaTarget(s) /\ residuals[s] = ResidualTarget(s)

Fitting == {"next", "writeBetas", "readResiduals", "writeResiduals"}

(* The refit: a name is served, or untouched since the clearing, or it is  *)
(* the one in hand.                                                        *)
RefitSound ==
    /\ at # "fitting" => pc[Refit] = "idle"
    /\ AtMostOne(cur[Refit])
    /\ pc[Refit] \in {"validate", "clear", "panel"} =>
          todo[Refit] = WithReturns(asof[Refit])
    /\ pc[Refit] \in {"idle", "validate", "clear", "panel", "next"} => cur[Refit] = {}
    /\ pc[Refit] = "panel" => \A s \in Symbols : betas[s] = {} /\ residuals[s] = {}
    /\ pc[Refit] \in Fitting =>
          /\ panel[Refit] = facTo
          /\ cur[Refit] \subseteq todo[Refit]
          /\ \A s \in Symbols :
                /\ s \notin todo[Refit] => Served(s)
                /\ s \in todo[Refit] => residuals[s] = {}
                /\ s \in todo[Refit] \ cur[Refit] => betas[s] = {}
    /\ \A s \in cur[Refit] :
          /\ pc[Refit] = "writeBetas" => betas[s] = {} /\ buf[Refit] = BetaTarget(s)
          /\ pc[Refit] \in {"readResiduals", "writeResiduals"} => betas[s] = BetaTarget(s)
          /\ pc[Refit] = "writeResiduals" => buf[Refit] = ResidualTarget(s)
    /\ at = "fitting" /\ pc[Refit] = "idle" /\ rc[Refit] = "ok" =>
          \A s \in Symbols : Served(s)
    /\ at = "idle" /\ codes["refit"] = "ok" => \A s \in Symbols : Served(s)

ChainInv ==
    /\ ChainTypeOK
    /\ FitSound
    /\ BarsSound
    /\ DailySound
    /\ CodesSound
    /\ RefitSound

(***************************************************************************)
(* Sets of days, and the returns over them.                                *)
(***************************************************************************)
LEMMA HasLeastDay ==
  ASSUME NEW S, S \subseteq Nat, S # {}
  PROVE  \E x \in S : \A y \in S : x <= y
<1> DEFINE R == OpToRel(<, Nat)
<1>1. IsWellFoundedOn(R, Nat)
  BY NatLessThanWellFounded
<1>2. \E x \in S : \A y \in S : <<y, x>> \notin R
  <2> HIDE DEF R
  <2> QED
    BY <1>1, WFMin
<1>3. PICK x \in S : \A y \in S : <<y, x>> \notin R
  BY <1>2
<1>4. ASSUME NEW y \in S PROVE x <= y
  <2>1. <<y, x>> \notin {ss \in Nat \X Nat : ss[1] < ss[2]}
    BY <1>3 DEF OpToRel
  <2> QED
    BY <2>1
<1> QED
  BY <1>4

LEMMA HasLastDay ==
  ASSUME NEW S, S \subseteq Days, S # {}
  PROVE  \E x \in S : \A y \in S : x >= y
<1> DEFINE T == {LastDay - d : d \in S}
<1>1. T \subseteq Nat /\ T # {}
  BY LastDayAssumption DEF Days
<1>2. PICK t \in T : \A u \in T : t <= u
  <2> HIDE DEF T
  <2> QED
    BY <1>1, HasLeastDay
<1>3. PICK x \in S : t = LastDay - x
  BY <1>2
<1>4. ASSUME NEW y \in S PROVE x >= y
  <2>1. t <= LastDay - y
    BY <1>2
  <2> QED
    BY <1>3, <2>1, LastDayAssumption DEF Days
<1> QED
  BY <1>4

LEMMA MaxDay ==
  ASSUME NEW S, S \subseteq Days, S # {}
  PROVE  Max(S) \in S
BY HasLastDay DEF Max

(* Every held bar but the first has a return, and no other day has.        *)
LEMMA ReturnDays ==
  ASSUME NEW held \in SUBSET Days, NEW fxTo \in Days
  PROVE  /\ \A r \in ReturnsOf(held, fxTo) : r.day \in held /\ Before(r.day, held) # {}
         /\ \A d \in held : Before(d, held) # {} =>
               \E r \in ReturnsOf(held, fxTo) : r.day = d
<1>1. ASSUME NEW r \in ReturnsOf(held, fxTo)
      PROVE  r.day \in held /\ Before(r.day, held) # {}
  <2>1. r.day \in held /\ r.prev \in held /\ r.prev < r.day
    BY DEF ReturnsOf
  <2> QED
    BY <2>1 DEF Before
<1>2. ASSUME NEW d \in held, Before(d, held) # {}
      PROVE  \E r \in ReturnsOf(held, fxTo) : r.day = d
  <2>1. Before(d, held) \subseteq Days
    BY DEF Before
  <2>2. PICK e \in Before(d, held) : \A x \in Before(d, held) : e >= x
    BY <1>2, <2>1, HasLastDay
  <2>3. e \in held /\ e < d /\ \A x \in Before(d, held) : x <= e
    BY <2>1, <2>2 DEF Before, Days
  <2>4. PICK dollars \in BOOLEAN : dollars <=> d <= fxTo
    OBVIOUS
  <2>5. PICK r \in [day : held, prev : held, usd : BOOLEAN] :
           r.day = d /\ r.prev = e /\ r.usd = dollars
    <3>1. [day |-> d, prev |-> e, usd |-> dollars] \in [day : held, prev : held, usd : BOOLEAN]
      BY <2>3
    <3> QED
      BY <3>1
  <2>6. r \in ReturnsOf(held, fxTo)
    BY <2>3, <2>4, <2>5 DEF ReturnsOf
  <2> QED
    BY <2>5, <2>6
<1> QED
  BY <1>1, <1>2

LEMMA HeldAreDays == \A s \in Symbols : HeldDays(s) \in SUBSET Days
BY DEF HeldDays

LEMMA MergeIntoNothing == \A rows : Merge({}, rows) = rows
BY DEF Merge

(* A set with at most one member has a cardinality of 0 or 1.              *)
LEMMA AtMostOneCounts ==
  ASSUME NEW S, AtMostOne(S)
  PROVE  Cardinality(S) <= 1
<1>1. CASE S = {}
  BY <1>1, FS_EmptySet
<1>2. ASSUME NEW s \in S, S = {s} PROVE Cardinality(S) <= 1
  BY <1>2, FS_Singleton
<1> QED
  BY <1>1, <1>2 DEF AtMostOne

(***************************************************************************)
(* Steps that leave parts of the state alone.                              *)
(***************************************************************************)

(* The fit of what is there stays sound when levels grow and returns keep  *)
(* one row per day.                                                        *)
LEMMA InputsKeepFitSound ==
  ASSUME FitSound, UNCHANGED fitVars, today' \in Days, faults' \in 0 .. MaxFaults,
         returns' \in [Symbols -> SUBSET Ret],
         \A s \in Symbols : OncePerDay(returns'[s]),
         facTo' \in [Factors -> Days], \A f \in Factors : facTo[f] <= facTo'[f]
  PROVE  FitSound'
<1> USE DEF FitSound, fitVars
<1>1. TypeOK'
  BY DEF TypeOK
<1>2. \A f \in Factors : facTo[f] \in Nat /\ facTo'[f] \in Nat
  BY DEF TypeOK, Days
<1>3. \A a \in Days : PanelComplete(a) => PanelComplete(a)'
  BY <1>2 DEF PanelComplete, Present
<1>4. \A R \in SUBSET Fitted : Complete(R) => Complete(R)'
  BY <1>2, GrowthKeepsComplete
<1>5. RefitNeverStrandsFit'
  BY <1>3 DEF RefitNeverStrandsFit, TypeOK
<1>6. FitWithinFactors'
  <2>1. \A s \in Symbols : /\ betas[s] \in SUBSET Fitted /\ Complete(betas[s])
                           /\ residuals[s] \in SUBSET Fitted /\ Complete(residuals[s])
                           /\ OwnDays(residuals[s])
    BY DEF FitWithinFactors, TypeOK, Complete, OwnDays
  <2>2. \A s \in Symbols : Complete(betas[s])' /\ Complete(residuals[s])'
    BY <1>4, <2>1
  <2> QED
    BY <2>1, <2>2 DEF FitWithinFactors, Complete, OwnDays, OwnDay
<1>7. OneFitPerDay' /\ OneReturnPerDay'
  BY DEF OneFitPerDay, OneReturnPerDay, OncePerDay
<1>8. PanelWithinLevels'
  BY <1>2 DEF PanelWithinLevels, TypeOK, Days
<1>9. BufferedFitSound'
  <2>1. \A p \in Fitters : buf[p] \in SUBSET Fitted /\ Complete(buf[p])
    BY DEF BufferedFitSound, TypeOK, Complete
  <2>2. \A p \in Fitters : Complete(buf[p])'
    BY <1>4, <2>1
  <2> QED
    BY <2>2 DEF BufferedFitSound, Complete
<1> QED
  BY <1>1, <1>5, <1>6, <1>7, <1>8, <1>9

LEMMA UnchangedKeepsFitSound ==
  ASSUME FitSound, UNCHANGED <<returns, facTo, fitVars>>,
         today' \in Days, faults' \in 0 .. MaxFaults
  PROVE  FitSound'
<1>1. /\ returns' \in [Symbols -> SUBSET Ret] /\ facTo' \in [Factors -> Days]
      /\ \A s \in Symbols : OncePerDay(returns'[s])
      /\ \A f \in Factors : facTo[f] <= facTo'[f]
  BY DEF FitSound, TypeOK, OneReturnPerDay, OncePerDay, Days
<1> QED
  BY <1>1, InputsKeepFitSound DEF fitVars

(* What is served stays so while tables, returns, levels and as_of do.     *)
LEMMA ServedStays ==
  ASSUME UNCHANGED <<betas, residuals, returns, facTo>>, asof'[Refit] = asof[Refit],
         NEW s \in Symbols, Served(s)
  PROVE  Served(s)'
<1>1. BetaTarget(s)' = BetaTarget(s) /\ ResidualTarget(s)' = ResidualTarget(s)
  BY DEF BetaTarget, ResidualTarget, BetaRows, ResidualRows, Joined
<1> QED
  BY <1>1 DEF Served

LEMMA UnchangedKeepsRefit ==
  ASSUME RefitSound, UNCHANGED <<returns, facTo, fitVars, at, codes>>
  PROVE  RefitSound'
<1>1. \A s : BetaTarget(s)' = BetaTarget(s) /\ ResidualTarget(s)' = ResidualTarget(s)
  BY DEF BetaTarget, ResidualTarget, BetaRows, ResidualRows, Joined, fitVars
<1>2. /\ UNCHANGED <<betas, residuals, pc, todo, cur, panel, buf, rc, facTo, at, codes>>
      /\ WithReturns(asof[Refit])' = WithReturns(asof[Refit])
  BY DEF fitVars, WithReturns
<1>3. \A s \in Symbols : Served(s)' <=> Served(s)
  BY <1>1, <1>2 DEF Served
<1> QED
  BY <1>1, <1>2, <1>3 DEF RefitSound, AtMostOne, Fitting

(* Outside the refit nothing touches what it left, unless the chain begins *)
(* anew.                                                                   *)
LEMMA RefitUndisturbed ==
  ASSUME RefitSound, UNCHANGED fitVars, at # "fitting", at' # "fitting",
         at' = "idle" => /\ at = "idle" /\ codes' = codes
                         /\ UNCHANGED <<returns, facTo>>
  PROVE  RefitSound'
<1>1. pc[Refit] = "idle" /\ UNCHANGED <<betas, residuals, pc, asof, todo, cur, panel, buf, rc>>
  BY DEF RefitSound, fitVars
<1>2. ASSUME at' = "idle", codes'["refit"] = "ok", NEW s \in Symbols
      PROVE  Served(s)'
  BY <1>1, <1>2, ServedStays DEF RefitSound
<1> QED
  BY <1>1, <1>2 DEF RefitSound, Fitting

(***************************************************************************)
(* The world, the start of the chain and its first step.                   *)
(***************************************************************************)
LEMMA WorldKeeps ==
  ASSUME ChainInv,
         NextDay \/ \E s \in Symbols, d \in Days : Post(s, d) \/ Revise(s, d)
  PROVE  ChainInv'
<1>1. /\ UNCHANGED <<returns, facTo, prices, fitVars, faults, at, chainVars, codes>>
      /\ today' \in Days /\ today <= today'
      /\ vendor' \in [Symbols -> [Days -> Versions]]
      /\ \A s \in Symbols, d \in Days :
            /\ vendor[s][d] # NoBar => vendor'[s][d] # NoBar
            /\ vendor'[s][d] # NoBar => vendor[s][d] # NoBar \/ d <= today'
  <2> USE DEF ChainInv, ChainTypeOK, storeVars
  <2>1. today \in Days
    BY DEF TypeOK
  <2>2. CASE NextDay
    BY <2>1, <2>2, LastDayAssumption DEF NextDay, Days
  <2>3. CASE \E s \in Symbols, d \in Days : Post(s, d) \/ Revise(s, d)
    <3> PICK s \in Symbols, d \in Days : Post(s, d) \/ Revise(s, d)
      BY <2>3
    <3>1. PICK v \in {1, 2} : vendor' = [vendor EXCEPT ![s][d] = v]
      BY DEF Post, Revise
    <3>2. UNCHANGED <<today, returns, facTo, prices, fitVars, faults, at, chainVars, codes>>
      BY DEF Post, Revise
    <3>3. d <= today \/ vendor[s][d] # NoBar
      BY DEF Post, Revise, NoBar
    <3>4. vendor' \in [Symbols -> [Days -> Versions]]
      BY <3>1 DEF Versions
    <3>5. \A t \in Symbols, e \in Days :
             vendor'[t][e] = IF t = s /\ e = d THEN v ELSE vendor[t][e]
      BY <3>1
    <3>6. today' \in Days /\ today <= today'
      BY <2>1, <3>2 DEF Days
    <3> QED
      BY <3>2, <3>3, <3>4, <3>5, <3>6 DEF NoBar
  <2> QED
    BY <2>2, <2>3
<1>2. ChainTypeOK /\ FitSound /\ BarsSound /\ DailySound /\ CodesSound /\ RefitSound
  BY DEF ChainInv
<1>3. FitSound'
  <2>1. faults' \in 0 .. MaxFaults
    BY <1>1, <1>2 DEF ChainTypeOK, TypeOK
  <2> QED
    BY <1>1, <1>2, <2>1, UnchangedKeepsFitSound
<1>4. ChainTypeOK'
  BY <1>1, <1>2, <1>3 DEF ChainTypeOK, FitSound, chainVars
<1>5. \A s \in Symbols : HeldDays(s)' = HeldDays(s)
  BY <1>1 DEF HeldDays
<1>6. BarsSound'
  <2>1. today \in Days /\ day \in Days /\ day' = day
    BY <1>1, <1>2 DEF ChainTypeOK, TypeOK, chainVars
  <2>2. day' <= today'
    BY <1>1, <1>2, <2>1 DEF BarsSound, Days
  <2>3. \A s \in Symbols, d \in Days : vendor'[s][d] # NoBar => d <= today'
    BY <1>1, <1>2, <2>1 DEF BarsSound, Days
  <2> QED
    BY <1>1, <1>2, <1>5, <2>2, <2>3 DEF BarsSound
<1>7. DailySound'
  BY <1>1, <1>2, <1>5 DEF DailySound, AtMostOne, Planned, Rebuilt, chainVars, ChainTypeOK
<1>8. CodesSound'
  BY <1>1, <1>2, <1>5 DEF CodesSound, OkMeansRebuilt, chainVars
<1>9. RefitSound'
  BY <1>1, <1>2, UnchangedKeepsRefit
<1> QED
  BY <1>2, <1>3, <1>4, <1>6, <1>7, <1>8, <1>9 DEF ChainInv

LEMMA StartKeeps ==
  ASSUME ChainInv, Start
  PROVE  ChainInv'
<1> USE DEF Start, storeVars
<1>1. ChainTypeOK /\ FitSound /\ BarsSound /\ DailySound /\ CodesSound /\ RefitSound
  BY DEF ChainInv
<1>2. FitSound'
  BY <1>1, UnchangedKeepsFitSound DEF ChainTypeOK, TypeOK
<1>3. ChainTypeOK'
  BY <1>1, <1>2 DEF ChainTypeOK, FitSound, chainVars, NoCodes, Stages
<1>4. \A s \in Symbols : HeldDays(s)' = HeldDays(s)
  BY DEF HeldDays
<1>5. BarsSound'
  BY <1>1, <1>4 DEF BarsSound, chainVars
<1>6. DailySound'
  BY <1>1 DEF DailySound, DailyStages, chainVars
<1>7. CodesSound'
  BY DEF CodesSound, OkMeansRebuilt, NoCodes
<1>8. RefitSound'
  BY <1>1, RefitUndisturbed
<1> QED
  BY <1>2, <1>3, <1>5, <1>6, <1>7, <1>8 DEF ChainInv

LEMMA IngestKeeps ==
  ASSUME ChainInv, IngestFactors
  PROVE  ChainInv'
<1>1. ChainTypeOK /\ FitSound /\ BarsSound /\ DailySound /\ CodesSound /\ RefitSound
  BY DEF ChainInv
<1>2. PICK result \in {"ok", "failed"} :
         /\ codes' = [codes EXCEPT !["factors"] = result]
         /\ faults' = faults \/ (faults < MaxFaults /\ faults' = faults + 1)
         /\ facTo' \in [Factors -> Days]
         /\ \A f \in Factors : facTo'[f] \in facTo[f] .. today \/ facTo'[f] = facTo[f]
  BY DEF IngestFactors
<1>3. /\ at = "factors" /\ at' = "scan"
      /\ UNCHANGED <<today, returns, prices, fitVars, vendor, chainVars>>
  BY DEF IngestFactors
<1>4. facTo' \in [Factors -> Days] /\ \A f \in Factors : facTo[f] <= facTo'[f]
  <2>1. facTo' \in [Factors -> Days]
    BY <1>2
  <2>2. facTo \in [Factors -> Days] /\ today \in Days
    BY <1>1 DEF ChainTypeOK, TypeOK
  <2>3. \A f \in Factors : facTo'[f] \in facTo[f] .. today \/ facTo'[f] = facTo[f]
    BY <1>2
  <2> QED
    BY <2>1, <2>2, <2>3 DEF Days
<1>5. faults' \in 0 .. MaxFaults
  <2>1. faults \in 0 .. MaxFaults
    BY <1>1 DEF ChainTypeOK, TypeOK
  <2> QED
    BY <1>2, <2>1, MaxFaultsAssumption
<1>6. FitSound'
  <2>1. /\ today' \in Days /\ returns' \in [Symbols -> SUBSET Ret]
        /\ \A s \in Symbols : OncePerDay(returns'[s])
    BY <1>1, <1>3 DEF ChainTypeOK, TypeOK, FitSound, OneReturnPerDay, OncePerDay
  <2> QED
    BY <1>1, <1>3, <1>4, <1>5, <2>1, InputsKeepFitSound
<1>7. codes' \in [{"factors", "daily", "refit"} -> {"none", "ok", "failed"}]
      /\ codes'["daily"] = "none"
  BY <1>1, <1>2, <1>3 DEF ChainTypeOK, CodesSound
<1>8. ChainTypeOK'
  BY <1>1, <1>3, <1>6, <1>7 DEF ChainTypeOK, FitSound, chainVars, Stages
<1>9. BarsSound'
  BY <1>1, <1>3 DEF BarsSound, HeldDays, chainVars
<1>10. DailySound'
  BY <1>1, <1>3 DEF DailySound, DailyStages, chainVars
<1>11. CodesSound'
  BY <1>7 DEF CodesSound, OkMeansRebuilt
<1>12. RefitSound'
  BY <1>1, <1>3, RefitUndisturbed
<1> QED
  BY <1>6, <1>8, <1>9, <1>10, <1>11, <1>12 DEF ChainInv

(***************************************************************************)
(* daily_update.                                                           *)
(***************************************************************************)

(* What every step within the script leaves alone.                         *)
LEMMA WithinDaily ==
  ASSUME ChainInv, at \in {"scan"} \cup DailyStages, at' \in DailyStages,
         UNCHANGED <<today, facTo, fitVars, vendor, codes>>,
         faults' \in 0 .. MaxFaults, prices' \in [Symbols -> [Days -> Versions]],
         returns' \in [Symbols -> SUBSET Ret], \A s \in Symbols : OncePerDay(returns'[s]),
         day' \in Days, plan' \in [Symbols -> Days \cup {NotPlanned}],
         pulls' \subseteq Symbols, pulling' \subseteq Symbols,
         attempt' \in 0 .. MaxRetries, fresh' \subseteq Ret, missed' \in BOOLEAN,
         BarsSound', DailySound'
  PROVE  ChainInv'
<1>1. ChainTypeOK /\ FitSound /\ CodesSound /\ RefitSound
  BY DEF ChainInv
<1>2. FitSound'
  <2>1. /\ today' \in Days /\ facTo' \in [Factors -> Days]
        /\ \A f \in Factors : facTo[f] <= facTo'[f]
    BY <1>1 DEF ChainTypeOK, TypeOK, Days
  <2> QED
    BY <1>1, <2>1, InputsKeepFitSound
<1>3. ChainTypeOK'
  <2>1. Cardinality(pulling') <= 1
    BY AtMostOneCounts DEF DailySound, AtMostOne
  <2> QED
    BY <1>1, <1>2, <2>1 DEF ChainTypeOK, FitSound, DailyStages, Stages
<1>4. CodesSound'
  BY <1>1 DEF CodesSound, OkMeansRebuilt, DailyStages
<1>5. RefitSound'
  BY <1>1, RefitUndisturbed DEF DailyStages
<1> QED
  BY <1>2, <1>3, <1>4, <1>5 DEF ChainInv

(* The steps that touch neither bars nor returns.                          *)
LEMMA StoreUntouched ==
  ASSUME ChainInv, at \in {"scan"} \cup DailyStages, at' \in DailyStages,
         UNCHANGED <<today, storeVars, fitVars, vendor, codes>>,
         faults' \in 0 .. MaxFaults,
         day' \in Days, day' <= today, plan' \in [Symbols -> Days \cup {NotPlanned}],
         pulls' \subseteq Symbols, pulling' \subseteq Symbols,
         attempt' \in 0 .. MaxRetries, fresh' \subseteq Ret, missed' \in BOOLEAN,
         DailySound'
  PROVE  ChainInv'
<1>1. ChainTypeOK /\ FitSound /\ BarsSound
  BY DEF ChainInv
<1>2. /\ prices' \in [Symbols -> [Days -> Versions]]
      /\ returns' \in [Symbols -> SUBSET Ret] /\ \A s \in Symbols : OncePerDay(returns'[s])
  BY <1>1 DEF ChainTypeOK, TypeOK, FitSound, OneReturnPerDay, OncePerDay, storeVars
<1>3. BarsSound'
  BY <1>1 DEF BarsSound, HeldDays, storeVars
<1> QED
  BY <1>2, <1>3, WithinDaily DEF storeVars

LEMMA ScanKeeps ==
  ASSUME ChainInv, Scan
  PROVE  ChainInv'
<1>1. ChainTypeOK /\ BarsSound /\ DailySound
  BY DEF ChainInv
<1>2. /\ at = "scan" /\ at' = "pull" /\ day' = today
      /\ UNCHANGED <<today, storeVars, fitVars, faults, vendor,
                     pulling, attempt, fresh, missed, codes>>
      /\ pulls' = {s \in Symbols : Stale(s)}
      /\ plan' = [s \in Symbols |-> IF Stale(s) THEN LastHeld(s) ELSE NotPlanned]
  BY DEF Scan
<1>3. today \in Days
  BY <1>1 DEF ChainTypeOK, TypeOK
<1>4. ASSUME NEW s \in Symbols, Stale(s)
      PROVE  LastHeld(s) \in HeldDays(s) /\ LastHeld(s) \in Days /\ LastHeld(s) # NotPlanned
  <2>1. {r.day : r \in returns[s]} \subseteq HeldDays(s) /\ {r.day : r \in returns[s]} # {}
    BY <1>1, <1>4 DEF BarsSound, Stale
  <2>2. LastHeld(s) \in HeldDays(s)
    BY <2>1, HeldAreDays, MaxDay DEF LastHeld
  <2> QED
    BY <2>2, HeldAreDays DEF Days, NotPlanned
<1>5. plan' \in [Symbols -> Days \cup {NotPlanned}]
  BY <1>2, <1>4
<1>6. DailySound'
  <2>1. \A s \in Symbols : HeldDays(s)' = HeldDays(s)
    BY <1>2 DEF HeldDays, storeVars
  <2>2. pulling' = {}
    BY <1>1, <1>2 DEF DailySound, DailyStages
  <2>3. ASSUME NEW s \in Symbols
        PROVE  /\ \A d \in HeldDays(s)' : d <= day'
               /\ Planned(s)' <=> s \in pulls'
               /\ Planned(s)' => plan'[s] \in HeldDays(s)'
    <3>1. \A d \in HeldDays(s) : d <= today
      BY <1>1 DEF BarsSound, HeldDays
    <3>2. plan'[s] = IF Stale(s) THEN LastHeld(s) ELSE NotPlanned
      BY <1>2
    <3>3. Planned(s)' <=> Stale(s)
      BY <1>4, <3>2 DEF Planned
    <3> QED
      BY <1>2, <1>4, <2>1, <3>1, <3>2, <3>3
  <2> QED
    BY <1>2, <2>2, <2>3 DEF DailySound, AtMostOne
<1>7. /\ faults' \in 0 .. MaxFaults /\ pulls' \subseteq Symbols /\ pulling' \subseteq Symbols
      /\ attempt' \in 0 .. MaxRetries /\ fresh' \subseteq Ret /\ missed' \in BOOLEAN
  BY <1>1, <1>2 DEF ChainTypeOK, TypeOK
<1>8. day' <= today
  BY <1>2, <1>3 DEF Days
<1> QED
  BY <1>2, <1>3, <1>5, <1>6, <1>7, <1>8, StoreUntouched DEF DailyStages

LEMMA PickKeeps ==
  ASSUME ChainInv, NEW s \in Symbols, Pick(s)
  PROVE  ChainInv'
<1>1. ChainTypeOK /\ BarsSound /\ DailySound
  BY DEF ChainInv
<1>2. /\ at = "pull" /\ at' = "pull" /\ s \in pulls
      /\ pulling' = {s} /\ pulls' = pulls \ {s} /\ pulling = {}
      /\ UNCHANGED <<today, returns, facTo, prices, fitVars, faults, vendor,
                     day, plan, attempt, fresh, missed, codes>>
  BY DEF Pick, storeVars
<1>3. \A t \in Symbols : /\ HeldDays(t)' = HeldDays(t) /\ Planned(t)' = Planned(t)
                         /\ Rebuilt(t)' = Rebuilt(t)
  BY <1>2 DEF HeldDays, Planned, Rebuilt
<1>4. DailySound'
  <2>1. pulls' \cup pulling' = pulls \cup pulling
    BY <1>2
  <2> QED
    BY <1>1, <1>2, <1>3, <2>1 DEF DailySound, AtMostOne, DailyStages
<1>5. /\ faults' \in 0 .. MaxFaults /\ pulls' \subseteq Symbols /\ pulling' \subseteq Symbols
      /\ attempt' \in 0 .. MaxRetries /\ fresh' \subseteq Ret /\ missed' \in BOOLEAN
      /\ plan' \in [Symbols -> Days \cup {NotPlanned}] /\ day' \in Days /\ day' <= today
  BY <1>1, <1>2 DEF ChainTypeOK, TypeOK, BarsSound
<1> QED
  BY <1>2, <1>4, <1>5, StoreUntouched DEF DailyStages, storeVars

(* A pull that is retried, given up or broken off: without a miss nothing  *)
(* is forgotten.                                                           *)
LEMMA InterruptionKeeps ==
  ASSUME ChainInv, NEW s \in Symbols, RateLimited(s) \/ GiveUp(s) \/ PullFails(s)
  PROVE  ChainInv'
<1>1. ChainTypeOK /\ BarsSound /\ DailySound
  BY DEF ChainInv
<1>2. /\ at \in DailyStages /\ at' = "pull" /\ s \in pulling
      /\ UNCHANGED <<today, returns, facTo, prices, fitVars, vendor, day, plan, pulls, codes>>
      /\ \/ UNCHANGED <<missed, pulling>>
         \/ missed' = TRUE /\ pulling' = {}
      /\ attempt' \in 0 .. MaxRetries /\ faults' \in 0 .. MaxFaults
      /\ fresh' = fresh \/ fresh' = {}
  <2>1. attempt \in 0 .. MaxRetries /\ faults \in 0 .. MaxFaults
    BY <1>1 DEF ChainTypeOK, TypeOK
  <2>2. CASE RateLimited(s)
    BY <2>1, <2>2, BudgetAssumption DEF RateLimited, MayRetry, DailyStages, storeVars
  <2>3. CASE GiveUp(s)
    BY <2>1, <2>3, BudgetAssumption, MaxFaultsAssumption DEF GiveUp, DailyStages, storeVars
  <2>4. CASE PullFails(s)
    BY <2>1, <2>4, BudgetAssumption, MaxFaultsAssumption DEF PullFails, DailyStages, storeVars
  <2> QED
    BY <2>2, <2>3, <2>4
<1>3. \A t \in Symbols : /\ HeldDays(t)' = HeldDays(t) /\ Planned(t)' = Planned(t)
                         /\ Rebuilt(t)' = Rebuilt(t)
  BY <1>2 DEF HeldDays, Planned, Rebuilt
<1>4. DailySound'
  BY <1>1, <1>2, <1>3 DEF DailySound, AtMostOne, DailyStages
<1>5. /\ pulls' \subseteq Symbols /\ pulling' \subseteq Symbols
      /\ fresh' \subseteq Ret /\ missed' \in BOOLEAN
      /\ plan' \in [Symbols -> Days \cup {NotPlanned}] /\ day' \in Days /\ day' <= today
  BY <1>1, <1>2 DEF ChainTypeOK, BarsSound
<1> QED
  BY <1>2, <1>4, <1>5, StoreUntouched DEF DailyStages, storeVars

(* The window of a planned name takes in its last held day, whose bar the  *)
(* vendor has: the answer is never empty, and the bars are read back.      *)
LEMMA FetchKeeps ==
  ASSUME ChainInv, NEW s \in Symbols, Fetch(s)
  PROVE  ChainInv'
<1>1. ChainTypeOK /\ BarsSound /\ DailySound /\ FitSound
  BY DEF ChainInv
<1>2. /\ at = "pull" /\ s \in pulling
      /\ prices' = [prices EXCEPT ![s] = Landed(s)]
      /\ attempt' = 0
      /\ UNCHANGED <<today, returns, facTo, fitVars, faults, vendor,
                     day, plan, pulls, fresh, missed, codes>>
  BY DEF Fetch
<1>3. Answer(s) # {}
  <2>1. plan[s] \in HeldDays(s) /\ plan[s] <= day /\ plan[s] \in Days
    BY <1>1, <1>2, HeldAreDays DEF DailySound, DailyStages
  <2>2. vendor[s][plan[s]] # NoBar
    BY <1>1, <2>1 DEF BarsSound, HeldDays
  <2>3. plan[s] <= plan[s] + Overlap
    BY <2>1, BudgetAssumption DEF Days
  <2>4. plan[s] \in Answer(s)
    BY <2>1, <2>2, <2>3 DEF Answer, Window
  <2> QED
    BY <2>4
<1>4. at' = "read" /\ UNCHANGED pulling
  BY <1>3 DEF Fetch
<1>5. prices' \in [Symbols -> [Days -> Versions]]
  <2>1. Landed(s) \in [Days -> Versions]
    BY <1>1 DEF ChainTypeOK, Landed
  <2> QED
    BY <1>1, <1>2, <2>1 DEF ChainTypeOK
<1>6. \A t \in Symbols, d \in Days :
         prices'[t][d] # NoBar => \/ prices[t][d] # NoBar
                                  \/ vendor[t][d] # NoBar /\ d <= day
  <2>1. \A d \in Days : Landed(s)[d] # NoBar => \/ prices[s][d] # NoBar
                                                \/ d \in Answer(s)
    BY DEF Landed
  <2>2. \A d \in Answer(s) : vendor[s][d] # NoBar /\ d <= day
    BY DEF Answer, Window
  <2>3. \A t \in Symbols : prices'[t] = IF t = s THEN Landed(s) ELSE prices[t]
    BY <1>1, <1>2 DEF ChainTypeOK
  <2> QED
    BY <2>1, <2>2, <2>3
<1>7. \A t \in Symbols : /\ HeldDays(t) \subseteq HeldDays(t)'
                         /\ t # s => HeldDays(t)' = HeldDays(t)
  <2>1. \A t \in Symbols : prices'[t] = IF t = s THEN Landed(s) ELSE prices[t]
    BY <1>1, <1>2 DEF ChainTypeOK
  <2>2. \A d \in Days : prices[s][d] # NoBar => Landed(s)[d] # NoBar
    BY DEF Landed
  <2> QED
    BY <2>1, <2>2 DEF HeldDays
<1>8. BarsSound'
  <2>1. day' <= today'
    BY <1>1, <1>2 DEF BarsSound
  <2>2. \A t \in Symbols, d \in Days : /\ vendor'[t][d] # NoBar => d <= today'
                                       /\ prices'[t][d] # NoBar => vendor'[t][d] # NoBar
    BY <1>1, <1>2, <1>6 DEF BarsSound
  <2>3. ASSUME NEW t \in Symbols, NEW r \in returns'[t]
        PROVE  r.day \in HeldDays(t)' /\ Before(r.day, HeldDays(t)') # {}
    <3>1. r.day \in HeldDays(t) /\ Before(r.day, HeldDays(t)) # {}
      BY <1>1, <1>2, <2>3 DEF BarsSound
    <3> QED
      BY <1>7, <3>1 DEF Before
  <2> QED
    BY <2>1, <2>2, <2>3 DEF BarsSound
<1>9. DailySound'
  <2>1. AtMostOne(pulling)
    BY <1>1 DEF DailySound
  <2>2. ASSUME NEW t \in Symbols
        PROVE  /\ \A d \in HeldDays(t)' : d <= day'
               /\ Planned(t)' => plan'[t] \in HeldDays(t)'
               /\ t \in pulls' \cup pulling' => Planned(t)'
               /\ Planned(t)' /\ ~missed' => t \in pulls' \cup pulling' \/ Rebuilt(t)'
    <3>1. /\ \A d \in HeldDays(t) : d <= day
          /\ Planned(t) => plan[t] \in HeldDays(t)
          /\ t \in pulls \cup pulling => Planned(t)
          /\ Planned(t) /\ ~missed => t \in pulls \cup pulling \/ Rebuilt(t)
      BY <1>1, <1>2 DEF DailySound, DailyStages
    <3>2. Planned(t)' = Planned(t) /\ (t # s => Rebuilt(t)' = Rebuilt(t))
      BY <1>2, <1>7 DEF Planned, Rebuilt
    <3>3. \A d \in HeldDays(t)' : d <= day'
      BY <1>2, <1>6, <3>1 DEF HeldDays
    <3> QED
      BY <1>2, <1>4, <1>7, <3>1, <3>2, <3>3
  <2> QED
    BY <1>4, <2>1, <2>2 DEF DailySound, AtMostOne, DailyStages
<1>10. /\ faults' \in 0 .. MaxFaults /\ pulls' \subseteq Symbols /\ pulling' \subseteq Symbols
       /\ attempt' \in 0 .. MaxRetries /\ fresh' \subseteq Ret /\ missed' \in BOOLEAN
       /\ plan' \in [Symbols -> Days \cup {NotPlanned}] /\ day' \in Days
       /\ returns' \in [Symbols -> SUBSET Ret] /\ \A t \in Symbols : OncePerDay(returns'[t])
  BY <1>1, <1>2, <1>4, BudgetAssumption
  DEF ChainTypeOK, TypeOK, FitSound, OneReturnPerDay, OncePerDay
<1> QED
  BY <1>2, <1>4, <1>5, <1>8, <1>9, <1>10, WithinDaily DEF DailyStages

(* The name being rebuilt is the only one in hand.                         *)
LEMMA InHand ==
  ASSUME DailySound, NEW s \in pulling
  PROVE  pulling = {s}
BY DEF DailySound, AtMostOne

(* No held bar is past as_of, so what is recomputed are all the returns.   *)
LEMMA ReadKeeps ==
  ASSUME ChainInv, NEW s \in Symbols, ReadInputs(s)
  PROVE  ChainInv'
<1>1. ChainTypeOK /\ BarsSound /\ DailySound /\ FitSound
  BY DEF ChainInv
<1>2. /\ at = "read" /\ at' = "delete" /\ s \in pulling
      /\ fresh' = {r \in ReturnsOf(HeldDays(s), facTo[FX]) : r.day <= day}
      /\ UNCHANGED <<today, returns, facTo, prices, fitVars, faults, vendor,
                     day, plan, pulls, pulling, attempt, missed, codes>>
  BY DEF ReadInputs, storeVars
<1>3. facTo[FX] \in Days /\ HeldDays(s) \in SUBSET Days
  BY <1>1, FXAssumption, HeldAreDays DEF ChainTypeOK, TypeOK
<1>4. fresh' = ReturnsOf(HeldDays(s), facTo[FX])
  <2>1. \A d \in HeldDays(s) : d <= day
    BY <1>1, <1>2 DEF DailySound, DailyStages
  <2>2. \A r \in ReturnsOf(HeldDays(s), facTo[FX]) : r.day <= day
    BY <1>3, <2>1, ReturnDays
  <2> QED
    BY <1>2, <2>2
<1>5. \A t \in Symbols : /\ HeldDays(t)' = HeldDays(t) /\ Planned(t)' = Planned(t)
                         /\ Rebuilt(t)' = Rebuilt(t)
  BY <1>2 DEF HeldDays, Planned, Rebuilt
<1>6. DailySound'
  <2>1. pulling' = {s}
    BY <1>1, <1>2, InHand
  <2>2. fresh' = ReturnsOf(HeldDays(s)', facTo'[FX])
    BY <1>2, <1>4, <1>5
  <2>3. ASSUME NEW t \in Symbols
        PROVE  /\ \A d \in HeldDays(t)' : d <= day'
               /\ Planned(t)' => plan'[t] \in HeldDays(t)'
               /\ t \in pulls' \cup pulling' => Planned(t)'
               /\ Planned(t)' /\ ~missed' => t \in pulls' \cup pulling' \/ Rebuilt(t)'
    BY <1>1, <1>2, <1>5 DEF DailySound, DailyStages
  <2> QED
    BY <1>2, <2>1, <2>2, <2>3 DEF DailySound, AtMostOne, DailyStages
<1>7. fresh' \subseteq Ret
  BY <1>3, <1>4, ReturnsSound
<1>8. /\ faults' \in 0 .. MaxFaults /\ pulls' \subseteq Symbols /\ pulling' \subseteq Symbols
      /\ attempt' \in 0 .. MaxRetries /\ missed' \in BOOLEAN
      /\ plan' \in [Symbols -> Days \cup {NotPlanned}] /\ day' \in Days /\ day' <= today
  BY <1>1, <1>2 DEF ChainTypeOK, TypeOK, BarsSound
<1> QED
  BY <1>2, <1>6, <1>7, <1>8, StoreUntouched DEF DailyStages, storeVars

(* Returns of one name that are replaced by rows on held bars, one a day.  *)
LEMMA ReturnsReplaced ==
  ASSUME ChainInv, at \in DailyStages, at' \in DailyStages, NEW s \in Symbols,
         NEW rows \in SUBSET Ret, OncePerDay(rows),
         returns' = [returns EXCEPT ![s] = rows],
         \A r \in rows : r.day \in HeldDays(s) /\ Before(r.day, HeldDays(s)) # {},
         UNCHANGED <<today, facTo, prices, fitVars, faults, vendor,
                     day, plan, pulls, attempt, missed, codes>>,
         pulling' \subseteq Symbols, fresh' \subseteq Ret, DailySound'
  PROVE  ChainInv'
<1>1. ChainTypeOK /\ BarsSound /\ FitSound
  BY DEF ChainInv
<1>2. returns \in [Symbols -> SUBSET Ret]
  BY <1>1 DEF ChainTypeOK, TypeOK
<1>3. \A t \in Symbols : returns'[t] = IF t = s THEN rows ELSE returns[t]
  BY <1>2
<1>4. returns' \in [Symbols -> SUBSET Ret] /\ \A t \in Symbols : OncePerDay(returns'[t])
  BY <1>1, <1>2, <1>3 DEF FitSound, OneReturnPerDay, OncePerDay
<1>5. BarsSound'
  <2>1. \A t \in Symbols : HeldDays(t)' = HeldDays(t)
    BY DEF HeldDays
  <2>2. \A t \in Symbols : \A r \in returns'[t] :
           r.day \in HeldDays(t)' /\ Before(r.day, HeldDays(t)') # {}
    BY <1>1, <1>3, <2>1 DEF BarsSound
  <2> QED
    BY <1>1, <2>2 DEF BarsSound
<1>6. /\ faults' \in 0 .. MaxFaults /\ pulls' \subseteq Symbols
      /\ attempt' \in 0 .. MaxRetries /\ missed' \in BOOLEAN
      /\ plan' \in [Symbols -> Days \cup {NotPlanned}] /\ day' \in Days
      /\ prices' \in [Symbols -> [Days -> Versions]]
  BY <1>1 DEF ChainTypeOK, TypeOK
<1> QED
  BY <1>4, <1>5, <1>6, WithinDaily

(* Every return of the name is of a day that has been recomputed: between  *)
(* the first of them and the last nothing is left.                         *)
LEMMA DeleteKeeps ==
  ASSUME ChainInv, NEW s \in Symbols, DeleteSpan(s)
  PROVE  ChainInv'
<1>1. ChainTypeOK /\ BarsSound /\ DailySound
  BY DEF ChainInv
<1>2. /\ at = "delete" /\ at' = "insert" /\ s \in pulling
      /\ returns' = [returns EXCEPT ![s] =
                       {r \in @ : \A q \in fresh : r.day < q.day
                                    \/ \A q2 \in fresh : r.day > q2.day}]
      /\ UNCHANGED <<today, facTo, prices, fitVars, faults, vendor,
                     day, plan, pulls, pulling, attempt, fresh, missed, codes>>
  BY DEF DeleteSpan, chainVars
<1>3. facTo[FX] \in Days /\ HeldDays(s) \in SUBSET Days
  BY <1>1, FXAssumption, HeldAreDays DEF ChainTypeOK, TypeOK
<1>4. fresh = ReturnsOf(HeldDays(s), facTo[FX]) /\ fresh \subseteq Ret
  BY <1>1, <1>2 DEF DailySound, ChainTypeOK
<1>5. \A r \in returns[s] : \E q \in fresh : q.day = r.day
  BY <1>1, <1>3, <1>4, ReturnDays DEF BarsSound
<1>6. returns' = [returns EXCEPT ![s] = {}]
  <2>1. ASSUME NEW r \in returns[s]
        PROVE  ~ \A q \in fresh : r.day < q.day \/ \A q2 \in fresh : r.day > q2.day
    <3>1. PICK q \in fresh : q.day = r.day
      BY <1>5
    <3>2. q.day \in Nat
      BY <1>4, <3>1 DEF Ret, Days
    <3> QED
      BY <3>1, <3>2
  <2>2. returns \in [Symbols -> SUBSET Ret]
    BY <1>1 DEF ChainTypeOK, TypeOK
  <2> QED
    BY <1>2, <2>1, <2>2
<1>7. returns'[s] = {} /\ \A t \in Symbols : t # s => returns'[t] = returns[t]
  BY <1>1, <1>6 DEF ChainTypeOK, TypeOK
<1>8. DailySound'
  <2>1. pulling = {s}
    BY <1>1, <1>2, InHand
  <2>2. \A t \in Symbols : /\ HeldDays(t)' = HeldDays(t) /\ Planned(t)' = Planned(t)
                           /\ t # s => Rebuilt(t)' = Rebuilt(t)
    BY <1>2, <1>7 DEF HeldDays, Planned, Rebuilt
  <2>3. ASSUME NEW t \in Symbols
        PROVE  /\ \A d \in HeldDays(t)' : d <= day'
               /\ Planned(t)' => plan'[t] \in HeldDays(t)'
               /\ t \in pulls' \cup pulling' => Planned(t)'
               /\ Planned(t)' /\ ~missed' => t \in pulls' \cup pulling' \/ Rebuilt(t)'
    BY <1>1, <1>2, <2>1, <2>2 DEF DailySound, DailyStages
  <2> QED
    BY <1>2, <1>4, <1>7, <2>1, <2>2, <2>3 DEF DailySound, AtMostOne, DailyStages
<1> QED
  <2>1. pulling' \subseteq Symbols /\ fresh' \subseteq Ret
    BY <1>1, <1>2 DEF ChainTypeOK
  <2> QED
    BY <1>2, <1>6, <1>8, <2>1, ReturnsReplaced DEF OncePerDay, DailyStages

LEMMA InsertKeeps ==
  ASSUME ChainInv, NEW s \in Symbols, InsertFresh(s)
  PROVE  ChainInv'
<1>1. ChainTypeOK /\ BarsSound /\ DailySound
  BY DEF ChainInv
<1>2. /\ at = "insert" /\ at' = "pull" /\ s \in pulling
      /\ returns' = [returns EXCEPT ![s] = Merge(@, fresh)]
      /\ fresh' = {} /\ pulling' = {}
      /\ UNCHANGED <<today, facTo, prices, fitVars, faults, vendor,
                     day, plan, pulls, attempt, missed, codes>>
  BY DEF InsertFresh
<1>3. facTo[FX] \in Days /\ HeldDays(s) \in SUBSET Days
  BY <1>1, FXAssumption, HeldAreDays DEF ChainTypeOK, TypeOK
<1>4. fresh = ReturnsOf(HeldDays(s), facTo[FX]) /\ returns[s] = {}
  BY <1>1, <1>2 DEF DailySound
<1>5. returns' = [returns EXCEPT ![s] = fresh]
  BY <1>1, <1>2, <1>4, MergeIntoNothing DEF ChainTypeOK, TypeOK
<1>6. returns'[s] = fresh /\ \A t \in Symbols : t # s => returns'[t] = returns[t]
  BY <1>1, <1>5 DEF ChainTypeOK, TypeOK
<1>7. DailySound'
  <2>1. pulling = {s}
    BY <1>1, <1>2, InHand
  <2>2. \A t \in Symbols : /\ HeldDays(t)' = HeldDays(t) /\ Planned(t)' = Planned(t)
                           /\ t # s => Rebuilt(t)' = Rebuilt(t)
    BY <1>2, <1>6 DEF HeldDays, Planned, Rebuilt
  <2>3. Rebuilt(s)'
    BY <1>2, <1>4, <1>6, <2>2 DEF Rebuilt
  <2>4. ASSUME NEW t \in Symbols
        PROVE  /\ \A d \in HeldDays(t)' : d <= day'
               /\ Planned(t)' => plan'[t] \in HeldDays(t)'
               /\ t \in pulls' \cup pulling' => Planned(t)'
               /\ Planned(t)' /\ ~missed' => t \in pulls' \cup pulling' \/ Rebuilt(t)'
    BY <1>1, <1>2, <2>1, <2>2, <2>3 DEF DailySound, DailyStages
  <2> QED
    BY <1>2, <2>4 DEF DailySound, AtMostOne, DailyStages
<1>8. /\ fresh \in SUBSET Ret /\ OncePerDay(fresh)
      /\ \A r \in fresh : r.day \in HeldDays(s) /\ Before(r.day, HeldDays(s)) # {}
  BY <1>3, <1>4, ReturnsSound, ReturnDays
<1>9. pulling' \subseteq Symbols /\ fresh' \subseteq Ret
  BY <1>2
<1> QED
  BY <1>2, <1>5, <1>7, <1>8, <1>9, ReturnsReplaced DEF DailyStages

(* The exit code is 0 only when every planned name is rebuilt.             *)
LEMMA DailyEnds ==
  ASSUME ChainInv, EndOfPlan \/ DailyDies
  PROVE  ChainInv'
<1>1. ChainTypeOK /\ BarsSound /\ DailySound /\ FitSound /\ CodesSound /\ RefitSound
  BY DEF ChainInv
<1>2. /\ at \in {"scan"} \cup DailyStages /\ at' = "refit"
      /\ UNCHANGED <<today, returns, facTo, prices, fitVars, vendor, day, plan>>
      /\ pulls' \subseteq Symbols /\ pulling' = {} /\ fresh' \subseteq Ret
      /\ attempt' \in 0 .. MaxRetries /\ missed' \in BOOLEAN
      /\ faults' \in 0 .. MaxFaults
      /\ codes' \in [{"factors", "daily", "refit"} -> {"none", "ok", "failed"}]
      /\ codes'["daily"] = "ok" => at = "pull" /\ pulling = {} /\ pulls = {} /\ ~missed
  <2>1. /\ faults \in 0 .. MaxFaults /\ attempt \in 0 .. MaxRetries /\ pulls \subseteq Symbols
        /\ fresh \subseteq Ret /\ missed \in BOOLEAN
        /\ codes \in [{"factors", "daily", "refit"} -> {"none", "ok", "failed"}]
    BY <1>1 DEF ChainTypeOK, TypeOK
  <2>2. CASE EndOfPlan
    BY <2>1, <2>2 DEF EndOfPlan, EndDaily, DailyCode, DailyStages, storeVars
  <2>3. CASE DailyDies
    <3>1. /\ at \in {"scan"} \cup DailyStages /\ at' = "refit"
          /\ codes' = [codes EXCEPT !["daily"] = "failed"]
          /\ UNCHANGED <<today, returns, facTo, prices, fitVars, vendor, day, plan>>
      BY <2>3 DEF DailyDies, EndDaily, DailyStages, storeVars
    <3>2. /\ pulls' \subseteq Symbols /\ pulling' = {} /\ fresh' \subseteq Ret
          /\ missed' \in BOOLEAN
      BY <2>3 DEF DailyDies
    <3>3. attempt' \in 0 .. MaxRetries /\ faults' \in 0 .. MaxFaults
      BY <2>1, <2>3, BudgetAssumption, MaxFaultsAssumption DEF DailyDies
    <3>4. /\ codes' \in [{"factors", "daily", "refit"} -> {"none", "ok", "failed"}]
          /\ codes'["daily"] # "ok"
      BY <2>1, <3>1
    <3> QED
      BY <3>1, <3>2, <3>3, <3>4
  <2> QED
    BY <2>2, <2>3
<1>3. FitSound'
  <2>1. today' \in Days
    BY <1>1, <1>2 DEF ChainTypeOK, TypeOK
  <2> QED
    BY <1>1, <1>2, <2>1, UnchangedKeepsFitSound
<1>4. ChainTypeOK'
  <2>1. Cardinality(pulling') <= 1
    BY <1>2, AtMostOneCounts DEF AtMostOne
  <2> QED
    BY <1>1, <1>2, <1>3, <2>1 DEF ChainTypeOK, FitSound, Stages
<1>5. BarsSound'
  BY <1>1, <1>2 DEF BarsSound, HeldDays
<1>6. DailySound'
  BY <1>2 DEF DailySound, AtMostOne, DailyStages
<1>7. CodesSound'
  <2>1. ASSUME codes'["daily"] = "ok", NEW s \in Symbols, plan'[s] # NotPlanned
        PROVE  returns'[s] = ReturnsOf(HeldDays(s)', facTo'[FX])
    <3>1. Planned(s) /\ ~missed /\ at \in DailyStages /\ s \notin pulls \cup pulling
      BY <1>2, <2>1 DEF Planned, DailyStages
    <3>2. Rebuilt(s)
      BY <1>1, <3>1 DEF DailySound
    <3> QED
      BY <1>2, <3>2 DEF Rebuilt, HeldDays
  <2> QED
    BY <1>2, <2>1 DEF CodesSound, OkMeansRebuilt, DailyStages
<1>8. RefitSound'
  BY <1>1, <1>2, RefitUndisturbed DEF DailyStages
<1> QED
  BY <1>3, <1>4, <1>5, <1>6, <1>7, <1>8 DEF ChainInv

(***************************************************************************)
(* The refit within the chain.                                             *)
(***************************************************************************)
(* What the steps of the refit and around it leave alone.                  *)
LEMMA AroundRefit ==
  ASSUME ChainInv, at \in {"refit", "fitting"}, at' \in {"fitting", "idle"},
         UNCHANGED <<inputVars, prices, vendor, chainVars>>,
         codes' \in [{"factors", "daily", "refit"} -> {"none", "ok", "failed"}],
         codes'["daily"] = codes["daily"], FitSound', RefitSound'
  PROVE  ChainInv'
<1>1. ChainTypeOK /\ BarsSound /\ DailySound /\ CodesSound
  BY DEF ChainInv
<1>2. ChainTypeOK'
  BY <1>1 DEF ChainTypeOK, FitSound, chainVars, Stages
<1>3. \A s \in Symbols : HeldDays(s)' = HeldDays(s)
  BY DEF HeldDays
<1>4. BarsSound'
  BY <1>1, <1>3 DEF BarsSound, chainVars, inputVars
<1>5. DailySound'
  BY <1>1 DEF DailySound, DailyStages, chainVars
<1>6. CodesSound'
  BY <1>1, <1>3 DEF CodesSound, OkMeansRebuilt, DailyStages, chainVars, inputVars
<1> QED
  BY <1>2, <1>4, <1>5, <1>6 DEF ChainInv

LEMMA RefitFits == Refit \in Fitters
BY RefitAssumption

LEMMA StartRefitKeeps ==
  ASSUME ChainInv, StartRefit
  PROVE  ChainInv'
<1>1. ChainTypeOK /\ FitSound /\ RefitSound
  BY DEF ChainInv
<1>2. /\ at = "refit" /\ at' = "fitting" /\ Launch(Refit, today)
      /\ UNCHANGED <<inputVars, prices, faults, vendor, chainVars, codes>>
  BY DEF StartRefit
<1>3. today \in Days
  BY <1>1 DEF ChainTypeOK, TypeOK
<1>4. FitSound'
  BY <1>1, <1>2, <1>3, RefitFits, LaunchKeepsSound
<1>5. /\ pc \in [Fitters -> PCs] /\ todo \in [Fitters -> SUBSET Symbols]
      /\ cur \in [Fitters -> SUBSET Symbols] /\ asof \in [Fitters -> Days]
      /\ rc \in [Fitters -> {"none", "ok", "failed"}]
  BY <1>1 DEF ChainTypeOK, TypeOK
<1>6. RefitSound'
  <2>1. CASE WithReturns(today) = {}
    BY <1>1, <1>2, <1>5, <2>1, RefitFits
    DEF Launch, Exit, RefitSound, AtMostOne, Fitting
  <2>2. CASE WithReturns(today) # {}
    <3>1. /\ pc'[Refit] = "validate" /\ asof'[Refit] = today
          /\ todo'[Refit] = WithReturns(today) /\ UNCHANGED cur
      BY <1>2, <1>5, <2>2, RefitFits DEF Launch, FirstStep, Refit
    <3>2. WithReturns(today)' = WithReturns(today)
      BY <1>2 DEF WithReturns, inputVars
    <3>3. cur'[Refit] = {}
      BY <1>1, <1>2, <1>5, <3>1 DEF RefitSound
    <3> QED
      BY <1>2, <3>1, <3>2, <3>3 DEF RefitSound, AtMostOne, Fitting, WithReturns, inputVars
  <2> QED
    BY <2>1, <2>2
<1>7. codes' \in [{"factors", "daily", "refit"} -> {"none", "ok", "failed"}]
  BY <1>1, <1>2 DEF ChainTypeOK
<1> QED
  BY <1>2, <1>4, <1>6, <1>7, AroundRefit

LEMMA EndChainKeeps ==
  ASSUME ChainInv, EndChain
  PROVE  ChainInv'
<1>1. ChainTypeOK /\ FitSound /\ RefitSound
  BY DEF ChainInv
<1>2. /\ at = "fitting" /\ at' = "idle" /\ pc[Refit] = "idle"
      /\ codes' = [codes EXCEPT !["refit"] = rc[Refit]]
      /\ UNCHANGED <<inputVars, prices, fitVars, faults, vendor, chainVars>>
  BY DEF EndChain, inputVars, storeVars
<1>3. /\ codes' \in [{"factors", "daily", "refit"} -> {"none", "ok", "failed"}]
      /\ codes'["daily"] = codes["daily"] /\ codes'["refit"] = rc[Refit]
  BY <1>1, <1>2, RefitFits DEF ChainTypeOK, TypeOK
<1>4. FitSound'
  BY <1>1, <1>2, UnchangedKeepsFitSound DEF ChainTypeOK, TypeOK, inputVars
<1>5. RefitSound'
  <2>1. ASSUME rc[Refit] = "ok", NEW s \in Symbols PROVE Served(s)'
    BY <1>1, <1>2, <2>1, ServedStays DEF RefitSound, inputVars, fitVars
  <2> QED
    BY <1>1, <1>2, <1>3, <2>1 DEF RefitSound, Fitting, fitVars
<1> QED
  BY <1>2, <1>3, <1>4, <1>5, AroundRefit

(* A refit that leaves: only Finish leaves with 0, and every name is done. *)
LEMMA ExitKeepsRefit ==
  ASSUME RefitSound, TypeOK, at = "fitting", at' = at, codes' = codes,
         NEW result \in {"ok", "failed"}, Exit(Refit, result),
         UNCHANGED inputVars,
         result = "ok" => /\ pc[Refit] = "next" /\ todo[Refit] = {}
                          /\ UNCHANGED <<betas, residuals>>
  PROVE  RefitSound'
<1>1. /\ pc'[Refit] = "idle" /\ cur'[Refit] = {} /\ rc'[Refit] = result /\ UNCHANGED asof
  BY RefitFits DEF Exit, TypeOK
<1>2. ASSUME result = "ok", NEW s \in Symbols PROVE Served(s)'
  BY <1>1, <1>2, ServedStays DEF RefitSound, Fitting, inputVars
<1> QED
  BY <1>1, <1>2 DEF RefitSound, AtMostOne, Fitting

LEMMA ValidateKeepsRefit ==
  ASSUME RefitSound, TypeOK, at = "fitting", at' = at, codes' = codes,
         Validate(Refit), UNCHANGED inputVars
  PROVE  RefitSound'
<1>1. CASE PanelComplete(asof[Refit])
  <2>1. pc'[Refit] = "clear" /\ UNCHANGED <<asof, todo, cur, returns>>
    BY <1>1, RefitFits DEF Validate, Goto, TypeOK, inputVars
  <2>2. pc[Refit] = "validate"
    BY DEF Validate
  <2> QED
    BY <2>1, <2>2 DEF RefitSound, AtMostOne, Fitting, WithReturns
<1>2. CASE ~PanelComplete(asof[Refit])
  BY <1>2, ExitKeepsRefit DEF Validate
<1> QED
  BY <1>1, <1>2

LEMMA ClearKeepsRefit ==
  ASSUME RefitSound, TypeOK, at = "fitting", at' = at, codes' = codes,
         ClearFit(Refit), UNCHANGED inputVars
  PROVE  RefitSound'
<1>1. pc'[Refit] = "panel" /\ UNCHANGED <<asof, todo, cur, returns>>
  BY RefitFits DEF ClearFit, Goto, TypeOK, inputVars
<1>2. pc[Refit] = "clear"
  BY DEF ClearFit
<1>3. \A s \in Symbols : betas'[s] = {} /\ residuals'[s] = {}
  BY DEF ClearFit
<1> QED
  BY <1>1, <1>2, <1>3 DEF RefitSound, AtMostOne, Fitting, WithReturns

(* A name without returns up to as_of has nothing to fit: it is served     *)
(* already.                                                                *)
LEMMA PanelKeepsRefit ==
  ASSUME RefitSound, TypeOK, at = "fitting", at' = at, codes' = codes,
         BuildPanel(Refit), UNCHANGED inputVars
  PROVE  RefitSound'
<1>1. CASE PanelComplete(asof[Refit])
  <2>1. /\ pc'[Refit] = "next" /\ panel'[Refit] = facTo'
        /\ UNCHANGED <<asof, todo, cur, returns, facTo, betas, residuals>>
    BY <1>1, RefitFits DEF BuildPanel, Goto, TypeOK, inputVars
  <2>2. /\ pc[Refit] = "panel" /\ cur[Refit] = {}
        /\ todo[Refit] = WithReturns(asof[Refit])
        /\ \A s \in Symbols : betas[s] = {} /\ residuals[s] = {}
    BY DEF BuildPanel, RefitSound
  <2>3. ASSUME NEW s \in Symbols, s \notin todo[Refit] PROVE Served(s)'
    <3>1. Joined(s, asof[Refit], facTo) = {}
      BY <2>2, <2>3 DEF Joined, WithReturns
    <3>2. BetaTarget(s) = {} /\ ResidualTarget(s) = {}
      BY <3>1 DEF BetaTarget, ResidualTarget, BetaRows, ResidualRows
    <3>3. BetaTarget(s)' = BetaTarget(s) /\ ResidualTarget(s)' = ResidualTarget(s)
      BY <2>1 DEF BetaTarget, ResidualTarget, BetaRows, ResidualRows, Joined
    <3> QED
      BY <2>1, <2>2, <3>2, <3>3 DEF Served
  <2> QED
    BY <2>1, <2>2, <2>3 DEF RefitSound, AtMostOne, Fitting
<1>2. CASE ~PanelComplete(asof[Refit])
  BY <1>2, ExitKeepsRefit DEF BuildPanel
<1> QED
  BY <1>1, <1>2

(* The steps of one name.                                                  *)
LEMMA NameKeepsRefit ==
  ASSUME RefitSound, TypeOK, at = "fitting", at' = at, codes' = codes, NEW s \in Symbols,
         \/ ReadForBetas(Refit, s) \/ WriteBetas(Refit, s)
         \/ ReadForResiduals(Refit, s) \/ WriteResiduals(Refit, s),
         UNCHANGED inputVars
  PROVE  RefitSound'
<1>1. /\ UNCHANGED <<asof, panel, returns, facTo>>
      /\ pc[Refit] \in Fitting /\ pc'[Refit] \in Fitting
  BY RefitFits DEF ReadForBetas, WriteBetas, ReadForResiduals, WriteResiduals, Goto,
                   TypeOK, Fitting, inputVars
<1>2. \A t \in Symbols : /\ BetaTarget(t)' = BetaTarget(t)
                       /\ ResidualTarget(t)' = ResidualTarget(t)
  BY <1>1 DEF BetaTarget, ResidualTarget, BetaRows, ResidualRows, Joined
<1>3. /\ panel[Refit] = facTo /\ AtMostOne(cur[Refit]) /\ cur[Refit] \subseteq todo[Refit]
      /\ \A t \in Symbols :
            /\ t \notin todo[Refit] => Served(t)
            /\ t \in todo[Refit] => residuals[t] = {}
            /\ t \in todo[Refit] \ cur[Refit] => betas[t] = {}
  BY <1>1 DEF RefitSound
<1>4. /\ BetaRows(s, asof[Refit], panel[Refit]) = BetaTarget(s)
      /\ ResidualRows(s, asof[Refit], panel[Refit]) = ResidualTarget(s)
  BY <1>3 DEF BetaTarget, ResidualTarget
<1>5. CASE ReadForBetas(Refit, s)
  <2>1. /\ pc[Refit] = "next" /\ s \in todo[Refit] /\ cur[Refit] = {}
        /\ pc'[Refit] = "writeBetas" /\ cur'[Refit] = {s} /\ buf'[Refit] = BetaTarget(s)
        /\ UNCHANGED <<betas, residuals, todo>>
    BY <1>4, <1>5, RefitFits DEF ReadForBetas, Goto, TypeOK, RefitSound
  <2> QED
    BY <1>1, <1>2, <1>3, <2>1 DEF RefitSound, AtMostOne, Served, Fitting
<1>6. CASE WriteBetas(Refit, s)
  <2>1. /\ pc[Refit] = "writeBetas" /\ s \in cur[Refit]
        /\ pc'[Refit] = "readResiduals"
        /\ betas' = [betas EXCEPT ![s] = Merge(@, buf[Refit])]
        /\ UNCHANGED <<residuals, todo, cur>>
    BY <1>6, RefitFits DEF WriteBetas, Goto, TypeOK
  <2>2. betas[s] = {} /\ buf[Refit] = BetaTarget(s) /\ cur[Refit] = {s}
    BY <1>3, <2>1 DEF RefitSound, AtMostOne
  <2>3. betas'[s] = BetaTarget(s) /\ \A t \in Symbols : t # s => betas'[t] = betas[t]
    BY <2>1, <2>2, MergeIntoNothing DEF TypeOK
  <2> QED
    BY <1>1, <1>2, <1>3, <2>1, <2>2, <2>3 DEF RefitSound, AtMostOne, Served, Fitting
<1>7. CASE ReadForResiduals(Refit, s)
  <2>1. /\ pc[Refit] = "readResiduals" /\ s \in cur[Refit]
        /\ pc'[Refit] = "writeResiduals" /\ buf'[Refit] = ResidualTarget(s)
        /\ UNCHANGED <<betas, residuals, todo, cur>>
    BY <1>4, <1>7, RefitFits DEF ReadForResiduals, Goto, TypeOK
  <2>2. betas[s] = BetaTarget(s) /\ cur[Refit] = {s}
    BY <1>3, <2>1 DEF RefitSound, AtMostOne
  <2> QED
    BY <1>1, <1>2, <1>3, <2>1, <2>2 DEF RefitSound, AtMostOne, Served, Fitting
<1>8. CASE WriteResiduals(Refit, s)
  <2>1. /\ pc[Refit] = "writeResiduals" /\ s \in cur[Refit]
        /\ pc'[Refit] = "next" /\ cur'[Refit] = {} /\ todo'[Refit] = todo[Refit] \ {s}
        /\ residuals' = [residuals EXCEPT ![s] = Merge(@, buf[Refit])]
        /\ UNCHANGED betas
    BY <1>8, RefitFits DEF WriteResiduals, Goto, TypeOK
  <2>2. /\ betas[s] = BetaTarget(s) /\ buf[Refit] = ResidualTarget(s) /\ cur[Refit] = {s}
        /\ residuals[s] = {}
    BY <1>3, <2>1 DEF RefitSound, AtMostOne
  <2>3. residuals'[s] = ResidualTarget(s) /\ \A t \in Symbols : t # s => residuals'[t] = residuals[t]
    BY <2>1, <2>2, MergeIntoNothing DEF TypeOK
  <2>4. ASSUME NEW t \in Symbols
        PROVE  /\ t \notin todo'[Refit] => Served(t)'
               /\ t \in todo'[Refit] => residuals'[t] = {} /\ betas'[t] = {}
    BY <1>2, <1>3, <2>1, <2>2, <2>3 DEF Served
  <2> QED
    BY <1>1, <1>3, <2>1, <2>4 DEF RefitSound, AtMostOne, Fitting
<1> QED
  BY <1>5, <1>6, <1>7, <1>8

LEMMA RefitKeeps ==
  ASSUME ChainInv, RefitRuns
  PROVE  ChainInv'
<1>1. ChainTypeOK /\ TypeOK /\ FitSound /\ RefitSound
  BY DEF ChainInv, FitSound
<1>2. /\ at = "fitting" /\ at' = at /\ codes' = codes
      /\ UNCHANGED <<inputVars, prices, vendor, chainVars>>
      /\ codes' \in [{"factors", "daily", "refit"} -> {"none", "ok", "failed"}]
  BY <1>1 DEF RefitRuns, ChainTypeOK
<1>3. CASE FitterStep(Refit) /\ UNCHANGED faults
  <2>1. ASSUME Validate(Refit) PROVE FitSound' /\ RefitSound'
    BY <1>1, <1>2, <1>3, <2>1, RefitFits, ValidateKeepsSound, ValidateKeepsRefit
  <2>2. ASSUME ClearFit(Refit) PROVE FitSound' /\ RefitSound'
    BY <1>1, <1>2, <1>3, <2>2, RefitFits, ClearKeepsSound, ClearKeepsRefit
  <2>3. ASSUME BuildPanel(Refit) PROVE FitSound' /\ RefitSound'
    BY <1>1, <1>2, <1>3, <2>3, RefitFits, PanelKeepsSound, PanelKeepsRefit
  <2>4. ASSUME Finish(Refit) PROVE FitSound' /\ RefitSound'
    BY <1>1, <1>2, <1>3, <2>4, RefitFits, FinishKeepsSound, ExitKeepsRefit DEF Finish
  <2>5. ASSUME NEW s \in Symbols,
               \/ ReadForBetas(Refit, s) \/ WriteBetas(Refit, s)
               \/ ReadForResiduals(Refit, s) \/ WriteResiduals(Refit, s)
        PROVE  FitSound' /\ RefitSound'
    <3>1. FitSound'
      BY <1>1, <1>2, <1>3, <2>5, RefitFits, ReadKeepsSound, WriteKeepsSound
    <3>2. RefitSound'
      BY <1>1, <1>2, <2>5, NameKeepsRefit
    <3> QED
      BY <3>1, <3>2
  <2>6. FitSound' /\ RefitSound'
    BY <1>3, <2>1, <2>2, <2>3, <2>4, <2>5 DEF FitterStep
  <2> QED
    BY <1>1, <1>2, <2>6, AroundRefit
<1>4. CASE FitterDies(Refit)
  <2>1. FitSound' /\ RefitSound'
    BY <1>1, <1>2, <1>4, RefitFits, DeathKeepsSound, ExitKeepsRefit DEF FitterDies
  <2> QED
    BY <1>1, <1>2, <2>1, AroundRefit
<1> QED
  BY <1>3, <1>4 DEF RefitRuns

(***************************************************************************)
(* The invariant and what follows from it.                                 *)
(***************************************************************************)
LEMMA ChainStarts == ChainInit => ChainInv
<1> SUFFICES ASSUME ChainInit PROVE ChainInv
  OBVIOUS
<1>1. PICK onboarded \in SUBSET Symbols :
         /\ prices = [s \in Symbols |->
                        [d \in Days |-> IF s \in onboarded THEN vendor[s][d] ELSE NoBar]]
         /\ returns = [s \in Symbols |-> ReturnsOf(HeldDays(s), facTo[FX])]
  BY DEF ChainInit
<1>2. facTo \in [Factors -> Days] /\ facTo[FX] \in Days /\ 1 \in Days /\ 2 \in Days
  BY LastDayAssumption, FXAssumption DEF ChainInit, Days
<1>3. \A s \in Symbols : HeldDays(s) \in SUBSET Days
  BY HeldAreDays
<1>4. /\ returns \in [Symbols -> SUBSET Ret]
      /\ \A s \in Symbols : OncePerDay(returns[s])
  BY <1>1, <1>2, <1>3, ReturnsSound
<1>5. FitSound
  <2>1. TypeOK
    BY <1>2, <1>4, MaxFaultsAssumption DEF ChainInit, FitInit, NoPanel, TypeOK, Days, PCs
  <2> QED
    BY <1>2, <1>4, <2>1
    DEF ChainInit, FitInit, NoPanel, FitSound, RefitNeverStrandsFit, FitWithinFactors,
        OneFitPerDay, OneReturnPerDay, PanelWithinLevels, BufferedFitSound, OncePerDay, Days
<1>6. /\ vendor = [s \in Symbols |-> [d \in Days |-> IF d <= 2 THEN 1 ELSE NoBar]]
      /\ today = 2 /\ day = 1 /\ at = "idle" /\ codes = NoCodes
      /\ plan = [s \in Symbols |-> NotPlanned]
      /\ pulls = {} /\ pulling = {} /\ attempt = 0 /\ fresh = {} /\ missed = FALSE
  BY DEF ChainInit
<1>7. ChainTypeOK
  <2>1. prices \in [Symbols -> [Days -> Versions]] /\ vendor \in [Symbols -> [Days -> Versions]]
    BY <1>1, <1>6 DEF Versions, NoBar
  <2>2. Cardinality({}) <= 1
    BY FS_EmptySet
  <2>3. /\ plan \in [Symbols -> Days \cup {NotPlanned}]
        /\ codes \in [{"factors", "daily", "refit"} -> {"none", "ok", "failed"}]
        /\ at \in Stages /\ day \in Days
    BY <1>2, <1>6 DEF NoCodes, Stages
  <2>4. attempt \in 0 .. MaxRetries
    BY <1>6, BudgetAssumption
  <2>5. missed \in BOOLEAN
    BY <1>6
  <2> QED
    BY <1>5, <1>6, <2>1, <2>2, <2>3, <2>4, <2>5 DEF ChainTypeOK, FitSound
<1>8. BarsSound
  <2>1. ASSUME NEW s \in Symbols, NEW d \in Days
        PROVE  /\ vendor[s][d] # NoBar => d <= today
               /\ prices[s][d] # NoBar => vendor[s][d] # NoBar
    BY <1>1, <1>6 DEF NoBar
  <2>2. \A s \in Symbols : \A r \in returns[s] :
           r.day \in HeldDays(s) /\ Before(r.day, HeldDays(s)) # {}
    BY <1>1, <1>2, <1>3, ReturnDays
  <2> QED
    BY <1>6, <2>1, <2>2 DEF BarsSound
<1>9. DailySound
  BY <1>6 DEF DailySound, AtMostOne, DailyStages
<1>10. CodesSound
  BY <1>6 DEF CodesSound, OkMeansRebuilt, NoCodes
<1>11. RefitSound
  <2>1. pc[Refit] = "idle" /\ cur[Refit] = {}
    BY RefitFits DEF ChainInit, FitInit
  <2> QED
    BY <1>6, <2>1 DEF RefitSound, AtMostOne, NoCodes, Fitting
<1> QED
  BY <1>5, <1>7, <1>8, <1>9, <1>10, <1>11 DEF ChainInv

LEMMA ChainStutters ==
  ASSUME ChainInv, UNCHANGED allVars
  PROVE  ChainInv'
<1> USE DEF allVars, vars, inputVars, chainVars
<1>1. ChainTypeOK /\ FitSound /\ BarsSound /\ DailySound /\ CodesSound /\ RefitSound
  BY DEF ChainInv
<1>2. FitSound'
  BY <1>1, UnchangedKeepsFitSound DEF ChainTypeOK, TypeOK
<1>3. ChainTypeOK'
  BY <1>1, <1>2 DEF ChainTypeOK, FitSound
<1>4. \A s \in Symbols : HeldDays(s)' = HeldDays(s)
  BY DEF HeldDays
<1>5. BarsSound'
  BY <1>1, <1>4 DEF BarsSound
<1>6. DailySound'
  BY <1>1, <1>4 DEF DailySound, AtMostOne, Planned, Rebuilt, ChainTypeOK
<1>7. CodesSound'
  BY <1>1, <1>4 DEF CodesSound, OkMeansRebuilt
<1>8. RefitSound'
  BY <1>1, UnchangedKeepsRefit
<1> QED
  BY <1>2, <1>3, <1>5, <1>6, <1>7, <1>8 DEF ChainInv

LEMMA ChainNextKeeps == ChainInv /\ [ChainNext]_allVars => ChainInv'
<1> SUFFICES ASSUME ChainInv, [ChainNext]_allVars PROVE ChainInv'
  OBVIOUS
<1>1. CASE NextDay \/ \E s \in Symbols, d \in Days : Post(s, d) \/ Revise(s, d)
  BY <1>1, WorldKeeps
<1>2. CASE Start
  BY <1>2, StartKeeps
<1>3. CASE ChainProgress
  <2>1. CASE Pull
    BY <2>1, PickKeeps, FetchKeeps, ReadKeeps, DeleteKeeps, InsertKeeps DEF Pull
  <2> QED
    BY <1>3, <2>1, IngestKeeps, ScanKeeps, DailyEnds, StartRefitKeeps, RefitKeeps,
       EndChainKeeps DEF ChainProgress
<1>4. CASE \E s \in Symbols : RateLimited(s) \/ GiveUp(s) \/ PullFails(s)
  BY <1>4, InterruptionKeeps
<1>5. CASE DailyDies
  BY <1>5, DailyEnds
<1>6. CASE UNCHANGED allVars
  BY <1>6, ChainStutters
<1> QED
  BY <1>1, <1>2, <1>3, <1>4, <1>5, <1>6 DEF ChainNext

(* The invariant holds in every reachable state of the chain, wherever a   *)
(* pull, a subprocess or the refit fails.                                  *)
THEOREM ChainAlways == ChainSpec => []ChainInv
BY ChainStarts, ChainNextKeeps, PTL DEF ChainSpec

(* Type correctness of the chain.                                          *)
COROLLARY ChainTypesOK == ChainSpec => []ChainTypeOK
<1>1. ChainInv => ChainTypeOK
  BY DEF ChainInv
<1> QED
  BY <1>1, ChainAlways, PTL

(* daily_update exits 0 only when the returns of every planned name are    *)
(* those of all its held bars at the FX levels landed.                     *)
COROLLARY OkIsRebuilt == ChainSpec => []OkMeansRebuilt
<1>1. ChainInv => OkMeansRebuilt
  BY DEF ChainInv, CodesSound
<1> QED
  BY <1>1, ChainAlways, PTL

(* refresh_all reports ok only when what is served of every name is the    *)
(* fit of the returns now held, in both tables.                            *)
COROLLARY OkIsServed == ChainSpec => []OkMeansFitServed
<1>1. ChainInv => OkMeansFitServed
  <2> SUFFICES ASSUME ChainInv, at = "idle", \A step \in DOMAIN codes : codes[step] = "ok",
                      NEW s \in Symbols
               PROVE  /\ betas[s] = BetaRows(s, asof[Refit], facTo)
                      /\ residuals[s] = ResidualRows(s, asof[Refit], facTo)
    BY DEF OkMeansFitServed
  <2>1. codes["refit"] = "ok"
    BY DEF ChainInv, ChainTypeOK
  <2>2. Served(s)
    BY <2>1 DEF ChainInv, RefitSound
  <2> QED
    BY <2>2 DEF Served, BetaTarget, ResidualTarget
<1> QED
  BY <1>1, ChainAlways, PTL

(* Within the chain too the refit never wipes the fit and then aborts for  *)
(* a missing factor, and what is served was fitted on complete days.       *)
COROLLARY ChainFitSound == ChainSpec => [](RefitNeverStrandsFit /\ FitWithinFactors)
<1>1. ChainInv => RefitNeverStrandsFit /\ FitWithinFactors
  BY DEF ChainInv, FitSound
<1> QED
  BY <1>1, ChainAlways, PTL
=============================================================================
