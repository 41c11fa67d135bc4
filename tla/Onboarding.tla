----------------------------- MODULE Onboarding -----------------------------
(***************************************************************************)
(* How a company of the exchange's list reaches the identity graph and the *)
(* quant store: the KAP seed, the LEI and ISIN back-fills from GLEIF, the  *)
(* ISIN back-fill from the exchange's reference, the sector link, prices   *)
(* and fit, run by hand or by the onboarding orchestrator.                 *)
(*                                                                         *)
(* One process works on the graph at a time (the database has one writer); *)
(* it goes through its targets one company after the other and can die     *)
(* between any two statements.  What GLEIF and the reference say is data:  *)
(* the name match and the ISIN classes are constants.                      *)
(***************************************************************************)
EXTENDS Naturals, FiniteSets, Sequences

CONSTANTS Oids,        \* companies of the exchange, by kap_oid
          Tickers, Leis, Isins,
          None,        \* an empty leg
          Absent,      \* no node, no cached record
          MatchOf,     \* [Oids -> Leis \cup {None}]: GLEIF's best record for the name
          Instruments, \* [Leis -> SUBSET Isins]: the equity ISINs GLEIF lists
          Capped,      \* LEIs whose instrument list runs past the page cap
          CandidateCap,\* equity codes of an undecided list that are cached, the first
          Rank,        \* [Isins -> Nat]: the codes in alphabetical order
          Embeds,      \* <<i, t>>: i is a TRA code that spells ticker t
          Reference,   \* [Tickers -> Isins \cup {None}]: valid rows of the reference
          Rulings,     \* ticker |-> a human's row for an ambiguous ticker
          Sectored,    \* tickers of the sector taxonomy
          Listed0,     \* [Oids -> Tickers \cup {None}]: the list at the start
          MaxChanges, MaxFaults   \* bounds

Record == [ticker : Tickers, lei : Leis \cup {None}, isin : Isins \cup {None}, sector : BOOLEAN]
Result == [isin : Isins \cup {None}, candidates : SUBSET Isins]

ASSUME DataAssumption ==
  /\ None # Absent /\ Absent \notin Record \cup Result /\ {None, Absent} \cap (Oids \cup Tickers \cup Leis \cup Isins) = {}
  /\ MatchOf \in [Oids -> Leis \cup {None}]
  /\ Instruments \in [Leis -> SUBSET Isins] /\ \A l \in Leis : IsFiniteSet(Instruments[l])
  /\ CandidateCap \in Nat \ {0} /\ Rank \in [Isins -> Nat]
  /\ Reference \in [Tickers -> Isins \cup {None}]
  /\ Rulings \in [Tickers -> [confirmed : BOOLEAN, chosen : Isins \cup {None},
                              candidates : SUBSET Isins]]
  /\ Listed0 \in [Oids -> Tickers \cup {None}]
  /\ MaxChanges \in Nat /\ MaxFaults \in Nat

VARIABLES
  kap,       \* the exchange's list: stock code of a listed company, or None
  members,   \* kap_members.json; all None when there is none
  recent,    \* members is within its week
  company,   \* Company nodes: [Oids -> record or Absent]
  security,  \* isin of Security nodes: [Oids \X Tickers -> isin, None or Absent]
  l2,        \* tickers with returns, with a universe class, with betas
  disk,      \* gleif_lookups.json and gleif_isins.json
  warm,      \* disk is within its thirty days
  mem,       \* the caches of the running GLEIF process
  phases,    \* stages the running process has still to do
  todo,      \* companies the current stage has still to do
  plan,      \* steps the orchestrator has still to run for its entity, by number
  ents,      \* entities the orchestrator has still to do
  changes, faults

vars == <<kap, members, recent, company, security, l2, disk, warm, mem,
          phases, todo, plan, ents, changes, faults>>
graph == <<company, security>>
world == <<kap, changes>>
caches == <<members, recent, disk, warm>>

Steps == <<"kap_identity", "gleif_identity", "sector", "universe_prices", "factor_refit">>
StepNames == {Steps[n] : n \in DOMAIN Steps}

Script == [s \in StepNames \cup {"bist"} |->
             CASE s = "kap_identity" -> <<"fetch", "seed">>
               [] s = "gleif_identity" -> <<"lei", "isin">>
               [] OTHER -> <<s>>]

NoGleif == [match |-> [o \in Oids |-> Absent], isins |-> [l \in Leis |-> Absent]]
Known == {o \in Oids : company[o] # Absent}
-----------------------------------------------------------------------------
(* What the sources answer *)

\* The first codes of a set, as many as the cache keeps.
FirstOf(seen) == {i \in seen : Cardinality({j \in seen : Rank[j] < Rank[i]}) < CandidateCap}

\* pick_equity_isin over the codes seen, and the record the lookup caches.
Picked(seen, t) ==
  LET spelled == {i \in seen : <<i, t>> \in Embeds} IN
  IF spelled # {} THEN [isin |-> CHOOSE i \in spelled : TRUE, candidates |-> {}]
  ELSE IF Cardinality(seen) = 1 THEN [isin |-> CHOOSE i \in seen : TRUE, candidates |-> {}]
  ELSE [isin |-> None, candidates |-> FirstOf(seen)]

Failed == [isin |-> None, candidates |-> {}]     \* method http_error, cached as well

\* Pages are read up to the cap: of a longer list only a part is seen.
Seen(l) == IF l \in Capped THEN SUBSET Instruments[l] ELSE {Instruments[l]}

\* The equity candidates the loader finds in the cache file, whatever its age.
Candidates(l) ==
  IF l = None \/ disk.isins[l] = Absent THEN {}
  ELSE disk.isins[l].candidates \cup ({disk.isins[l].isin} \ {None})

\* A human's ruling counts when confirmed and one of its own candidates.
Ruled(t) ==
  LET row == Rulings[t] IN
  IF row.confirmed /\ row.chosen \in row.candidates THEN row.chosen ELSE None

\* (changed) The reference is taken at its word.
FromReferenceUnchecked(o) ==
  LET t == company[o].ticker IN IF Ruled(t) # None THEN Ruled(t) ELSE Reference[t]

\* The ISIN the reference stage writes for a company, None when it refuses.
\* A ruling goes first and, refused by GLEIF's candidates, ends the matter.
FromReference(o) ==
  LET t == company[o].ticker
      claim == IF Ruled(t) # None THEN Ruled(t) ELSE Reference[t]
      rivals == Candidates(company[o].lei)
  IN IF claim # None /\ (rivals = {} \/ claim \in rivals) THEN claim ELSE None

-----------------------------------------------------------------------------
(* Detection and completion: what is read from the state *)

NewListings == {o \in Oids : members[o] # None} \ Known

Priced(t) == t \in l2.returns /\ t \in l2.universe
HasLegs(o) == company[o].lei # None /\ company[o].isin # None

\* onboarding_status for an entity, by stage.
Done(o) ==
  IF o \notin Known THEN [s \in StepNames |-> FALSE]
  ELSE LET t == company[o].ticker IN
       [s \in StepNames |->
          CASE s = "kap_identity" -> TRUE
            [] s = "gleif_identity" -> HasLegs(o)
            [] s = "sector" -> company[o].sector
            [] s = "universe_prices" -> Priced(t)
            [] s = "factor_refit" -> t \in l2.betas]

Remaining(o) == {n \in DOMAIN Steps : ~Done(o)[Steps[n]]}
-----------------------------------------------------------------------------
Init ==
  /\ kap = Listed0 /\ members = [o \in Oids |-> None] /\ recent = FALSE
  /\ company = [o \in Oids |-> Absent]
  /\ security = [os \in Oids \X Tickers |-> Absent]
  /\ l2 = [returns |-> {}, universe |-> {}, betas |-> {}]
  /\ disk = NoGleif /\ warm = FALSE /\ mem = NoGleif
  /\ phases = <<>> /\ todo = {} /\ plan = {} /\ ents = {}
  /\ changes = 0 /\ faults = 0

Idle == phases = <<>>

\* The exchange lists, delists or renames a company; no two share a code.
Relist ==
  /\ changes < MaxChanges /\ changes' = changes + 1
  /\ \E o \in Oids, t \in Tickers \cup {None} :
       /\ t # kap[o] /\ (t = None \/ \A q \in Oids : kap[q] # t)
       /\ kap' = [kap EXCEPT ![o] = t]
  /\ UNCHANGED <<members, recent, graph, l2, disk, warm, mem, phases, todo, plan, ents, faults>>

\* A week, or thirty days, go by between two processes.
Age ==
  /\ Idle /\ (recent \/ warm)
  /\ \E r \in {recent, FALSE}, w \in {warm, FALSE} : recent' = r /\ warm' = w
  /\ UNCHANGED <<world, members, graph, l2, disk, mem, phases, todo, plan, ents, faults>>

\* (changed) backfill_isins and backfill_leis without only_missing.
TargetsAll(stage) ==
  CASE stage \in {"lei", "bist"} -> Known
    [] stage = "isin" -> {o \in Known : company[o].lei # None}
    [] OTHER -> {}

\* Companies a stage is started with; the sector, price and fit stages work
\* on the whole graph at once.
Targets(stage) ==
  CASE stage = "lei"  -> {o \in Known : company[o].lei = None}
    [] stage = "isin" -> {o \in Known : company[o].lei # None /\ company[o].isin = None}
    [] stage = "bist" -> {o \in Known : company[o].isin = None}
    [] OTHER -> {}

\* A process starts: the GLEIF adapter reads its caches if they are warm.
Start(step) ==
  /\ phases' = Script[step] /\ todo' = Targets(Head(Script[step]))
  /\ mem' = IF step = "gleif_identity" /\ warm THEN disk ELSE NoGleif

\* The operator starts a script by hand.
Run(step) ==
  /\ Idle /\ ents = {} /\ plan = {} /\ Start(step)
  /\ UNCHANGED <<world, caches, graph, l2, plan, ents, faults>>

\* The orchestrator with --execute takes the names the detector finds now,
\* and for one after the other the steps not done when its turn comes.
Execute ==
  /\ Idle /\ ents = {} /\ plan = {} /\ NewListings # {}
  /\ ents' = NewListings
  /\ UNCHANGED <<world, caches, graph, l2, mem, phases, todo, plan, faults>>

NextEntity ==
  /\ Idle /\ plan = {}
  /\ \E o \in ents : ents' = ents \ {o} /\ plan' = Remaining(o)
  /\ UNCHANGED <<world, caches, graph, l2, mem, phases, todo, faults>>

NextStep ==
  /\ Idle
  /\ \E n \in plan : /\ \A m \in plan : n <= m
                      /\ Start(Steps[n]) /\ plan' = plan \ {n}
  /\ UNCHANGED <<world, caches, graph, l2, ents, faults>>

\* A process ends with an error or is killed: what it wrote stays, the caches
\* are saved only if it could still leave its block, the plan is given up.
Stop ==
  /\ faults < MaxFaults /\ faults' = faults + 1
  /\ phases' = <<>> /\ todo' = {} /\ plan' = {}

\* Names with ticker, ISIN and sector.
Eligible == {company[o].ticker : o \in {q \in Known : company[q].isin # None /\ company[q].sector}}

\* What a price or fit job that did not finish leaves: returns of some names
\* and no classes; the fit cleared and begun again.
HalfDone ==
  \/ l2' = l2
  \/ /\ Head(phases) = "universe_prices"
     /\ \E built \in SUBSET Eligible : l2' = [l2 EXCEPT !.returns = @ \cup built]
  \/ /\ Head(phases) = "factor_refit"
     /\ \E fitted \in SUBSET l2.returns : l2' = [l2 EXCEPT !.betas = fitted]

\* A GLEIF process that could still leave its block saves its caches.
MaySave(held) == UNCHANGED <<disk, warm>> \/ (disk' = held /\ warm' = TRUE)

Die ==
  /\ ~Idle /\ Stop /\ HalfDone
  /\ IF Head(phases) \in {"lei", "isin"} THEN MaySave(mem) ELSE UNCHANGED <<disk, warm>>
  /\ UNCHANGED <<world, members, recent, graph, mem, ents>>

\* A stage is through: the next one takes its targets, or the process ends
\* and the GLEIF adapter writes its caches.
Through ==
  /\ ~Idle /\ Head(phases) \notin {"fetch", "sector", "universe_prices", "factor_refit"}
  /\ todo = {} /\ phases' = Tail(phases)
  /\ todo' = IF Len(phases) > 1 THEN Targets(phases[2]) ELSE {}
  /\ IF phases = <<"isin">> THEN disk' = mem /\ warm' = TRUE ELSE UNCHANGED <<disk, warm>>
  /\ UNCHANGED <<world, members, recent, graph, l2, mem, plan, ents, faults>>

Doing(stage, o) == ~Idle /\ Head(phases) = stage /\ o \in todo /\ todo' = todo \ {o}

\* (changed) Members without a stock code are seeded as well.
FetchUnlisted ==
  /\ ~Idle /\ Head(phases) = "fetch"
  /\ IF recent THEN UNCHANGED <<members, recent>> ELSE members' = kap /\ recent' = TRUE
  /\ phases' = Tail(phases) /\ todo' = Oids
  /\ UNCHANGED <<world, graph, l2, disk, warm, mem, plan, ents, faults>>

\* fetch_members: the cached list within its week, else the exchange's.
Fetch ==
  /\ ~Idle /\ Head(phases) = "fetch"
  /\ IF recent THEN UNCHANGED <<members, recent>> ELSE members' = kap /\ recent' = TRUE
  /\ phases' = Tail(phases) /\ todo' = {o \in Oids : members'[o] # None}
  /\ UNCHANGED <<world, graph, l2, disk, warm, mem, plan, ents, faults>>

\* The seed sets the code of a listed company and adds the Security of that
\* code; the other legs and an earlier code's Security stay.
Seed(o) ==
  /\ Doing("seed", o)
  /\ company' = [company EXCEPT ![o] =
       IF @ = Absent THEN [ticker |-> members[o], lei |-> None, isin |-> None, sector |-> FALSE]
       ELSE [@ EXCEPT !.ticker = members[o]]]
  /\ security' = [security EXCEPT ![<<o, members[o]>>] = IF @ = Absent THEN None ELSE @]
  /\ UNCHANGED <<world, caches, l2, mem, phases, plan, ents, faults>>

Match(o) == IF mem.match[o] # Absent THEN mem.match[o] ELSE MatchOf[o]

\* backfill_leis: a cached answer, GLEIF's, or an error, which is not cached.
MatchName(o) ==
  /\ Doing("lei", o)
  /\ \/ /\ company' = [company EXCEPT ![o].lei = Match(o)]
        /\ mem' = [mem EXCEPT !.match[o] = Match(o)] /\ UNCHANGED faults
     \/ /\ mem.match[o] = Absent /\ faults < MaxFaults /\ faults' = faults + 1
        /\ UNCHANGED <<company, mem>>
  /\ UNCHANGED <<world, caches, security, l2, phases, plan, ents>>

\* An ISIN is written in two statements: the Company's, then that of the
\* Securities it issues.
WriteIsin(o, i) ==
  /\ company' = [company EXCEPT ![o].isin = i]
  /\ security' = [os \in Oids \X Tickers |->
       IF os[1] = o /\ security[os] # Absent THEN i ELSE security[os]]

Answers(o) ==
  LET l == company[o].lei IN
  IF mem.isins[l] # Absent THEN {mem.isins[l]}
  ELSE {Picked(seen, company[o].ticker) : seen \in Seen(l)}

\* backfill_isins: only a confident answer is written; every answer, an error
\* too, is cached under the LEI.
FindIsin(o) ==
  /\ Doing("isin", o)
  /\ \/ /\ \E r \in Answers(o) :
             /\ IF r.isin = None THEN UNCHANGED graph ELSE WriteIsin(o, r.isin)
             /\ mem' = [mem EXCEPT !.isins[company[o].lei] = r]
        /\ UNCHANGED faults
     \/ /\ mem.isins[company[o].lei] = Absent /\ faults < MaxFaults
        /\ faults' = faults + 1 /\ UNCHANGED graph
        /\ mem' = [mem EXCEPT !.isins[company[o].lei] = Failed]
  /\ UNCHANGED <<world, caches, l2, phases, plan, ents>>

\* backfill_isins_from_bist.
TakeReference(o) ==
  /\ Doing("bist", o)
  /\ LET i == FromReference(o) IN IF i = None THEN UNCHANGED graph ELSE WriteIsin(o, i)
  /\ UNCHANGED <<world, caches, l2, mem, phases, plan, ents, faults>>

\* Killed with the answer in the cache and nothing written yet, or between the
\* two statements that write an ISIN: the Company carries it already.
DieInLookup(o) ==
  /\ ~Idle /\ o \in todo /\ Stop
  /\ \/ /\ Head(phases) = "lei" /\ UNCHANGED company
        /\ MaySave([mem EXCEPT !.match[o] = Match(o)])
     \/ /\ Head(phases) = "isin"
        /\ \E r \in Answers(o) :
             /\ \/ UNCHANGED company
                \/ r.isin # None /\ company' = [company EXCEPT ![o].isin = r.isin]
             /\ MaySave([mem EXCEPT !.isins[company[o].lei] = r])
     \/ /\ Head(phases) = "bist" /\ FromReference(o) # None
        /\ company' = [company EXCEPT ![o].isin = FromReference(o)]
        /\ UNCHANGED <<disk, warm>>
  /\ UNCHANGED <<world, members, recent, security, l2, mem, ents>>

\* The last statement of the one-stage scripts.
Finish(stage) ==
  /\ ~Idle /\ Head(phases) = stage /\ phases' = Tail(phases)
  /\ UNCHANGED <<world, caches, security, mem, todo, plan, ents, faults>>

\* load_company_sectors links by ticker and never unlinks.
LinkSectors ==
  /\ Finish("sector")
  /\ company' = [o \in Oids |->
       IF o \in Known /\ company[o].ticker \in Sectored
       THEN [company[o] EXCEPT !.sector = TRUE] ELSE company[o]]
  /\ UNCHANGED l2

\* ingest_universe: names with ticker, ISIN and sector the vendor carries;
\* what it lacks or cannot build is skipped, and the exit code is still 0
\* (a burst of failures ends it as Die does).
PullUniverse ==
  /\ Finish("universe_prices")
  /\ \E carried \in SUBSET Eligible :
       \E built \in SUBSET carried :
         l2' = [l2 EXCEPT !.returns = @ \cup built, !.universe = @ \cup carried]
  /\ UNCHANGED company

\* run_m3_gate clears the fit and fits the names with returns that have the
\* history, none if a factor is missing; without any returns it exits 1.
Refit ==
  /\ Finish("factor_refit") /\ l2.returns # {}
  /\ \E fitted \in SUBSET l2.returns : l2' = [l2 EXCEPT !.betas = fitted]
  /\ UNCHANGED company

\* A script that cannot do its work ends with an error code.
Refuse ==
  /\ ~Idle /\ Head(phases) = "factor_refit" /\ l2.returns = {}
  /\ phases' = <<>> /\ plan' = {}
  /\ UNCHANGED <<world, caches, graph, l2, mem, todo, ents, faults>>

\* onboard_symbol on one name of the graph, when the vendor carries it: no
\* universe class without a sector, nor when it dies before.
OnboardSymbol(o) ==
  /\ Idle /\ ents = {} /\ plan = {} /\ o \in Known
  /\ \E classed \in SUBSET {c \in {company[o].ticker} : company[o].sector} :
       l2' = [l2 EXCEPT !.returns = @ \cup {company[o].ticker}, !.universe = @ \cup classed]
  /\ UNCHANGED <<world, caches, graph, mem, phases, todo, plan, ents, faults>>

Next ==
  \/ Relist \/ Age \/ Execute \/ NextEntity \/ NextStep \/ Die \/ Through \/ Fetch
  \/ \E s \in DOMAIN Script : Run(s)
  \/ LinkSectors \/ PullUniverse \/ Refit \/ Refuse
  \/ \E o \in Oids : \/ Seed(o) \/ MatchName(o) \/ FindIsin(o) \/ TakeReference(o)
                     \/ DieInLookup(o) \/ OnboardSymbol(o)

Spec == Init /\ [][Next]_vars
-----------------------------------------------------------------------------
(* Properties *)

Caches == [match : [Oids -> Leis \cup {None, Absent}], isins : [Leis -> Result \cup {Absent}]]

\* Type invariant of the graph, the store and the files between them.
TypeOK ==
  /\ kap \in [Oids -> Tickers \cup {None}]
  /\ members \in [Oids -> Tickers \cup {None}]
  /\ company \in [Oids -> Record \cup {Absent}]
  /\ security \in [Oids \X Tickers -> Isins \cup {None, Absent}]
  /\ l2 \in [returns : SUBSET Tickers, universe : SUBSET Tickers, betas : SUBSET Tickers]
  /\ disk \in Caches /\ mem \in Caches /\ recent \in BOOLEAN /\ warm \in BOOLEAN
  /\ todo \subseteq Oids /\ plan \subseteq DOMAIN Steps /\ ents \subseteq Oids
  /\ changes \in 0..MaxChanges /\ faults \in 0..MaxFaults

\* Two names were matched to one LEI.
Shared(l) == \E o, q \in Oids : o # q /\ MatchOf[o] = l /\ MatchOf[q] = l

\* Two sources, never at odds: unless two names were matched to one LEI, an
\* ISIN in the graph is an equity code GLEIF lists for the company's LEI, when
\* the cached answer has any - over both back-fills in either order, cached
\* lists cut short, expired or lost caches, errors and kills
\* (bist_isin_backfill.py:149-167, gleif_backfill.py:158-188).
IsinVouched ==
  \A o \in Known :
    LET l == company[o].lei IN
    /\ company[o].isin # None /\ Candidates(l) # {} /\ ~Shared(l)
    => company[o].isin \in Instruments[l]

\* A leg once found is kept, and so is the node: re-seeding, a renamed or
\* delisted company and a re-run of a back-fill (without --all, which is how
\* the orchestrator runs it) replace neither LEI nor ISIN (kap_ingest.py:44-70,
\* gleif_backfill.py:30-62).
LegsKept ==
  [][\A o \in Known : /\ o \in Known'
                      /\ company[o].lei # None => company'[o].lei = company[o].lei
                      /\ company[o].isin # None => company'[o].isin = company[o].isin]_vars
=============================================================================
