---------------------------- MODULE RefreshChain ----------------------------
(***************************************************************************)
(* The daily refresh chain (scripts/refresh_all.py): ingest_factors, then  *)
(* daily_update, then refit, each a subprocess whose exit code is recorded *)
(* and which never stops the chain.                                        *)
(*                                                                         *)
(* daily_update scans total_returns for the last held day of every listed  *)
(* name, plans a pull of the stale ones, and for each fetches the bars of  *)
(* its window, lands them in prices (first version of a bar wins), reads   *)
(* back prices and FX, deletes the name's returns and writes the           *)
(* recomputed ones: three DuckDB sessions that may fail, or be the last    *)
(* thing the subprocess does.  The refit is that of FactorFit.             *)
(*                                                                         *)
(* The vendor posts the bar of a day on that day or later, and may revise  *)
(* it once.                                                                *)
(***************************************************************************)
EXTENDS FactorFit, Sequences, FiniteSetsExt

CONSTANTS FactorOrder,  \* the factors in the order the registry lists them
          MaxAge,       \* --max-age: the freshness budget in days
          Overlap,      \* overlap_days of the incremental window
          MaxRetries,   \* retries of one name after HTTP 429
          MaxRevised    \* bound on the bars the vendor revises

Refit == "refit"

ASSUME RefitAssumption   == Fitters = {Refit}
ASSUME BudgetAssumption  == MaxAge \in Nat /\ Overlap \in Nat /\ MaxRetries \in Nat

NoBar == 0
NotPlanned == 0

VARIABLES vendor,   \* [Symbols -> [Days -> version of the bar at the vendor]]
          prices,   \* [Symbols -> [Days -> version landed]]
          at,       \* where the chain is
          day,      \* as_of of daily_update: the day it started
          plan,     \* [Symbols -> last held day of a planned name, or NotPlanned]
          pulls,    \* the planned names still to pull
          pulling,  \* the name being pulled: an empty set or a singleton
          attempt,  \* how often it was rate limited
          fresh,    \* the returns recomputed for it
          missed,   \* some pull failed
          codes     \* exit codes of this chain run

chainVars == <<day, plan, pulls, pulling, attempt, fresh, missed>>
allVars   == <<vars, vendor, prices, at, chainVars, codes>>

Versions == 0 .. 2

Stages == {"idle", "factors", "scan", "pull", "read", "delete", "insert", "refit",
           "fitting"}

ChainTypeOK ==
    /\ TypeOK
    /\ vendor \in [Symbols -> [Days -> Versions]]
    /\ prices \in [Symbols -> [Days -> Versions]]
    /\ at \in Stages
    /\ day \in Days
    /\ plan \in [Symbols -> Days \cup {NotPlanned}]
    /\ pulls \subseteq Symbols
    /\ pulling \subseteq Symbols /\ Cardinality(pulling) <= 1
    /\ attempt \in 0 .. MaxRetries
    /\ fresh \subseteq Ret
    /\ missed \in BOOLEAN
    /\ codes \in [{"factors", "daily", "refit"} -> {"none", "ok", "failed"}]

NoCodes == [step \in {"factors", "daily", "refit"} |-> "none"]

(* The days of the bars held of s.                                         *)
HeldDays(s) == {d \in Days : prices[s][d] # NoBar}

LastHeld(s) == Max({r.day : r \in returns[s]})

(* On day 2 some names have been onboarded: both their bars are held and   *)
(* their returns built; of the others the store holds nothing.             *)
ChainInit ==
    /\ today = 2
    /\ facTo \in [Factors -> {1, 2}]
    /\ faults = 0
    /\ vendor = [s \in Symbols |-> [d \in Days |-> IF d <= 2 THEN 1 ELSE NoBar]]
    /\ \E onboarded \in SUBSET Symbols :
          /\ prices = [s \in Symbols |->
                         [d \in Days |-> IF s \in onboarded THEN vendor[s][d] ELSE NoBar]]
          /\ returns = [s \in Symbols |-> ReturnsOf(HeldDays(s), facTo[FX])]
    /\ at = "idle"
    /\ day = 1
    /\ plan = [s \in Symbols |-> NotPlanned]
    /\ pulls = {}
    /\ pulling = {}
    /\ attempt = 0
    /\ fresh = {}
    /\ missed = FALSE
    /\ codes = NoCodes
    /\ FitInit

(***************************************************************************)
(* The world.                                                              *)
(***************************************************************************)
storeVars == <<returns, facTo, prices>>

NextDay ==
    /\ today < LastDay
    /\ today' = today + 1
    /\ UNCHANGED <<storeVars, fitVars, faults, vendor, at, chainVars, codes>>

Post(s, d) ==
    /\ d <= today
    /\ vendor[s][d] = NoBar
    /\ vendor' = [vendor EXCEPT ![s][d] = 1]
    /\ UNCHANGED <<today, storeVars, fitVars, faults, at, chainVars, codes>>

Revise(s, d) ==
    /\ vendor[s][d] = 1
    /\ Cardinality({sd \in Symbols \X Days : vendor[sd[1]][sd[2]] = 2}) < MaxRevised
    /\ vendor' = [vendor EXCEPT ![s][d] = 2]
    /\ UNCHANGED <<today, storeVars, fitVars, faults, at, chainVars, codes>>

(***************************************************************************)
(* refresh_all and its first step.                                         *)
(***************************************************************************)
Start ==
    /\ at = "idle"
    /\ at' = "factors"
    /\ codes' = NoCodes
    /\ UNCHANGED <<today, storeVars, fitVars, faults, vendor, chainVars>>

(* ingest_factors.py goes through the factors in order: a source that      *)
(* answers brings the series up to today, to an earlier day or no further  *)
(* (no points is no error); one that cannot be reached ends the script,    *)
(* perhaps after the first chunks of its window have landed.               *)
IngestFactors ==
    /\ at = "factors"
    /\ \E reached \in 0 .. Len(FactorOrder) :
         /\ reached < Len(FactorOrder) => faults < MaxFaults
         /\ faults' = IF reached < Len(FactorOrder) THEN faults + 1 ELSE faults
         /\ codes' = [codes EXCEPT !["factors"] =
                        IF reached = Len(FactorOrder) THEN "ok" ELSE "failed"]
         /\ facTo' \in {to \in [Factors -> Days] : \A f \in Factors :
                          IF \E i \in 1 .. Len(FactorOrder) :
                                FactorOrder[i] = f /\ i <= reached + 1
                            THEN to[f] \in facTo[f] .. today
                            ELSE to[f] = facTo[f]}
    /\ at' = "scan"
    /\ UNCHANGED <<today, returns, prices, fitVars, vendor, chainVars>>

(***************************************************************************)
(* daily_update --execute.                                                 *)
(***************************************************************************)

(* classify_freshness: held, and the last held day is before the cutoff.   *)
Stale(s) == returns[s] # {} /\ LastHeld(s) + MaxAge < today

EndDaily(result) ==
    /\ at' = "refit"
    /\ codes' = [codes EXCEPT !["daily"] = result]

(* freshness_report and plan_daily_pulls.                                  *)
Scan ==
    /\ at = "scan"
    /\ plan' = [s \in Symbols |-> IF Stale(s) THEN LastHeld(s) ELSE NotPlanned]
    /\ pulls' = {s \in Symbols : Stale(s)}
    /\ day' = today
    /\ at' = "pull"
    /\ UNCHANGED <<today, storeVars, fitVars, faults, vendor,
                   pulling, attempt, fresh, missed, codes>>

(* The next item of the plan: the oldest first.                            *)
Pick(s) ==
    /\ at = "pull"
    /\ pulling = {}
    /\ s \in pulls
    /\ \A t \in pulls : plan[s] <= plan[t]
    /\ pulling' = {s}
    /\ pulls' = pulls \ {s}
    /\ UNCHANGED <<today, storeVars, fitVars, faults, vendor, at,
                   day, plan, attempt, fresh, missed, codes>>

(* Mutant of Window: the window starts after the last held day.             *)
WindowPastLast(s) == {d \in Days : plan[s] < d /\ d < day}

(* incremental_window.                                                     *)
Window(s) == {d \in Days : plan[s] <= d + Overlap /\ d <= day}

Answer(s) == {d \in Window(s) : vendor[s][d] # NoBar}

(* write_parquet into prices: a bar's knowledge date is its day, so a bar  *)
(* of a held day is ignored.                                               *)
Landed(s) ==
    [d \in Days |-> IF d \in Answer(s) /\ prices[s][d] = NoBar THEN vendor[s][d]
                                                               ELSE prices[s][d]]

(* ingest_prices: the fetch answers.  Without bars the pull is done.       *)
Fetch(s) ==
    /\ at = "pull"
    /\ s \in pulling
    /\ prices' = [prices EXCEPT ![s] = Landed(s)]
    /\ IF Answer(s) = {} THEN at' = "pull" /\ pulling' = {}
                         ELSE at' = "read" /\ UNCHANGED pulling
    /\ attempt' = 0
    /\ UNCHANGED <<today, returns, facTo, fitVars, faults, vendor,
                   day, plan, pulls, fresh, missed, codes>>

(* Mutant of MayRetry: one retry too many.                                  *)
MayRetryAgain == attempt <= MaxRetries

MayRetry == attempt < MaxRetries

(* HTTP 429: back off and retry the same name ...                          *)
RateLimited(s) ==
    /\ at = "pull"
    /\ s \in pulling
    /\ MayRetry
    /\ attempt' = attempt + 1
    /\ UNCHANGED <<today, storeVars, fitVars, faults, vendor, at,
                   day, plan, pulls, pulling, fresh, missed, codes>>

(* ... and give it up when the retries are used up.                        *)
GiveUp(s) ==
    /\ at = "pull"
    /\ s \in pulling
    /\ ~MayRetry
    /\ faults < MaxFaults
    /\ faults' = faults + 1
    /\ attempt' = 0
    /\ missed' = TRUE
    /\ pulling' = {}
    /\ UNCHANGED <<today, storeVars, fitVars, vendor, at, day, plan, pulls, fresh, codes>>

(* build_total_returns(overwrite=True), its three sessions.                *)
ReadInputs(s) ==
    /\ at = "read"
    /\ s \in pulling
    /\ fresh' = {r \in ReturnsOf(HeldDays(s), facTo[FX]) : r.day <= day}
    /\ at' = "delete"
    /\ UNCHANGED <<today, storeVars, fitVars, faults, vendor,
                   day, plan, pulls, pulling, attempt, missed, codes>>

(* Mutant of DeleteSpan: overwrite is forgotten.                            *)
DeleteNothing(s) ==
    /\ at = "delete"
    /\ s \in pulling
    /\ at' = "insert"
    /\ UNCHANGED <<today, storeVars, fitVars, faults, vendor, chainVars, codes>>

(* The rows between the first and the last recomputed day go.              *)
DeleteSpan(s) ==
    /\ at = "delete"
    /\ s \in pulling
    /\ returns' = [returns EXCEPT ![s] =
                     {r \in @ : \A q \in fresh : r.day < q.day
                                  \/ \A q2 \in fresh : r.day > q2.day}]
    /\ at' = "insert"
    /\ UNCHANGED <<today, facTo, prices, fitVars, faults, vendor, chainVars, codes>>

InsertFresh(s) ==
    /\ at = "insert"
    /\ s \in pulling
    /\ returns' = [returns EXCEPT ![s] = Merge(@, fresh)]
    /\ fresh' = {}
    /\ pulling' = {}
    /\ at' = "pull"
    /\ UNCHANGED <<today, facTo, prices, fitVars, faults, vendor,
                   day, plan, pulls, attempt, missed, codes>>

(* Any other exception fails this name and the loop goes on: the source    *)
(* cannot be reached, or another process has the DuckDB file open.         *)
PullFails(s) ==
    /\ at \in {"pull", "read", "delete", "insert"}
    /\ s \in pulling
    /\ faults < MaxFaults
    /\ faults' = faults + 1
    /\ missed' = TRUE
    /\ fresh' = {}
    /\ pulling' = {}
    /\ attempt' = 0
    /\ at' = "pull"
    /\ UNCHANGED <<today, storeVars, fitVars, vendor, day, plan, pulls, codes>>

(* Mutant of DailyCode: the exit code ignores failed pulls.                 *)
AlwaysOk == "ok"

(* Non-zero when any pull failed.                                          *)
DailyCode == IF missed THEN "failed" ELSE "ok"

EndOfPlan ==
    /\ at = "pull"
    /\ pulling = {}
    /\ pulls = {}
    /\ EndDaily(DailyCode)
    /\ missed' = FALSE
    /\ UNCHANGED <<today, storeVars, fitVars, faults, vendor,
                   day, plan, pulls, pulling, attempt, fresh>>

(* The subprocess dies between two statements.                             *)
DailyDies ==
    /\ at \in {"scan", "pull", "read", "delete", "insert"}
    /\ faults < MaxFaults
    /\ faults' = faults + 1
    /\ pulls' = {}
    /\ pulling' = {}
    /\ fresh' = {}
    /\ attempt' = 0
    /\ missed' = FALSE
    /\ EndDaily("failed")
    /\ UNCHANGED <<today, storeVars, fitVars, vendor, day, plan>>

(***************************************************************************)
(* The refit, and the end of the chain.                                    *)
(***************************************************************************)
StartRefit ==
    /\ at = "refit"
    /\ Launch(Refit, today)
    /\ at' = "fitting"
    /\ UNCHANGED <<inputVars, prices, faults, vendor, chainVars, codes>>

RefitRuns ==
    /\ at = "fitting"
    /\ \/ FitterStep(Refit) /\ UNCHANGED faults
       \/ FitterDies(Refit)
    /\ UNCHANGED <<inputVars, prices, vendor, at, chainVars, codes>>

EndChain ==
    /\ at = "fitting"
    /\ pc[Refit] = "idle"
    /\ codes' = [codes EXCEPT !["refit"] = rc[Refit]]
    /\ at' = "idle"
    /\ UNCHANGED <<today, storeVars, fitVars, faults, vendor, chainVars>>

Pull ==
    \E s \in Symbols :
        \/ Pick(s) \/ Fetch(s) \/ ReadInputs(s) \/ DeleteSpan(s) \/ InsertFresh(s)

ChainProgress ==
    \/ IngestFactors
    \/ Scan
    \/ Pull
    \/ EndOfPlan
    \/ StartRefit
    \/ RefitRuns
    \/ EndChain

ChainNext ==
    \/ NextDay
    \/ \E s \in Symbols, d \in Days : Post(s, d) \/ Revise(s, d)
    \/ Start
    \/ ChainProgress
    \/ \E s \in Symbols : RateLimited(s) \/ GiveUp(s) \/ PullFails(s)
    \/ DailyDies

(* The scheduler starts the chain again every day, and subprocess.run      *)
(* returns: the chain is fair.  Neither the vendor nor the calendar is.    *)
ChainFairness == WF_allVars(Start \/ ChainProgress)

ChainSpec     == ChainInit /\ [][ChainNext]_allVars
FairChainSpec == ChainSpec /\ ChainFairness

(***************************************************************************)
(* Properties.                                                             *)
(***************************************************************************)

(* After a daily_update that exits 0, the returns of every planned name    *)
(* are those of all its held bars at the FX levels the chain landed, late  *)
(* bars and late dollars included, whatever earlier runs left half done.   *)
OkMeansRebuilt ==
    codes["daily"] = "ok" =>
        \A s \in Symbols :
            plan[s] # NotPlanned => returns[s] = ReturnsOf(HeldDays(s), facTo[FX])

(* When refresh_all reports ok, what is served for every name is the fit   *)
(* of the returns now held and the factors now landed, betas and residuals *)
(* of the same inputs: nothing of an earlier fit survives in either.       *)
OkMeansFitServed ==
    (at = "idle" /\ \A step \in DOMAIN codes : codes[step] = "ok") =>
        \A s \in Symbols :
            /\ betas[s] = BetaRows(s, asof[Refit], facTo)
            /\ residuals[s] = ResidualRows(s, asof[Refit], facTo)

(* A bar the vendor has posted reaches the returns of every name that      *)
(* still has some: in the end each is fresh or at the vendor's last bar.   *)
StaleHeals ==
    \A s \in Symbols :
        <>[](returns[s] # {} =>
                \/ LastHeld(s) + MaxAge >= today
                \/ \A d \in Days : vendor[s][d] # NoBar => d <= LastHeld(s))

(* What incremental.py says of a name with nothing held: the same path     *)
(* pulls its full window.  A name whose rebuild stops between the DELETE   *)
(* and the INSERT holds nothing, is "missing", and is never planned again. *)
ErasedComesBack ==
    \A s \in Symbols :
        (plan[s] # NotPlanned /\ returns[s] = {}) ~> returns[s] # {}
=============================================================================
