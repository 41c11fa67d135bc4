-------------------------- MODULE OnboardingProofs --------------------------
(***************************************************************************)
(* Proofs about the onboarding of companies, for any companies, sources,   *)
(* rulings, renamings and faults: type correctness, that no re-run of a    *)
(* stage takes a found LEI or ISIN away, and that an ISIN written is one   *)
(* its LEI vouches for.  One invariant says what a stage may assume of the *)
(* companies it has still to do, a second what the caches hold.            *)
(***************************************************************************)
EXTENDS Onboarding, FiniteSetTheorems, TLAPS

PhaseSeqs ==
  {<<>>, <<"fetch", "seed">>, <<"seed">>, <<"lei", "isin">>, <<"isin">>, <<"bist">>,
   <<"sector">>, <<"universe_prices">>, <<"factor_refit">>}

(* The stage that runs, "none" between two processes.                      *)
Stage == IF phases = <<>> THEN "none" ELSE Head(phases)

(* What holds of the companies the running stage has still to do.          *)
Ready(stage, o) ==
  /\ stage = "seed" => members[o] # None
  /\ stage = "lei"  => o \in Known /\ company[o].lei = None
  /\ stage = "isin" => o \in Known /\ company[o].lei # None /\ company[o].isin = None
  /\ stage = "bist" => o \in Known /\ company[o].isin = None

OnboardingInv == TypeOK /\ phases \in PhaseSeqs /\ \A o \in todo : Ready(Stage, o)

(* The step keeps every found leg.                                         *)
Keeps ==
  \A o \in Known : /\ o \in Known'
                   /\ company[o].lei # None => company'[o].lei = company[o].lei
                   /\ company[o].isin # None => company'[o].isin = company[o].isin

(***************************************************************************)
(* Stages.                                                                 *)
(***************************************************************************)
LEMMA PhaseFacts ==
  ASSUME NEW ph \in PhaseSeqs, ph # <<>>
  PROVE  /\ Tail(ph) \in PhaseSeqs
         /\ Head(ph) \in {"fetch", "seed", "lei", "isin", "bist", "sector",
                          "universe_prices", "factor_refit"}
         /\ Head(ph) = "fetch" => Tail(ph) = <<"seed">>
         /\ Head(ph) = "lei" => Tail(ph) = <<"isin">> /\ Len(ph) = 2 /\ ph[2] = "isin"
         /\ Head(ph) \notin {"fetch", "lei"} => Tail(ph) = <<>> /\ Len(ph) = 1
<1>1. CASE ph = <<"fetch", "seed">>
  BY <1>1 DEF PhaseSeqs
<1>2. CASE ph = <<"seed">>
  BY <1>2 DEF PhaseSeqs
<1>3. CASE ph = <<"lei", "isin">>
  BY <1>3 DEF PhaseSeqs
<1>4. CASE ph = <<"isin">>
  BY <1>4 DEF PhaseSeqs
<1>5. CASE ph = <<"bist">>
  BY <1>5 DEF PhaseSeqs
<1>6. CASE ph = <<"sector">>
  BY <1>6 DEF PhaseSeqs
<1>7. CASE ph = <<"universe_prices">>
  BY <1>7 DEF PhaseSeqs
<1>8. CASE ph = <<"factor_refit">>
  BY <1>8 DEF PhaseSeqs
<1> QED
  BY <1>1, <1>2, <1>3, <1>4, <1>5, <1>6, <1>7, <1>8 DEF PhaseSeqs

LEMMA StepsAre ==
  /\ DOMAIN Steps = 1 .. 5
  /\ StepNames = {"kap_identity", "gleif_identity", "sector", "universe_prices", "factor_refit"}
<1>1. DOMAIN Steps = 1 .. 5
  BY DEF Steps
<1>2. /\ Steps[1] = "kap_identity" /\ Steps[2] = "gleif_identity" /\ Steps[3] = "sector"
      /\ Steps[4] = "universe_prices" /\ Steps[5] = "factor_refit"
  BY DEF Steps
<1>3. 1 .. 5 = {1, 2, 3, 4, 5}
  OBVIOUS
<1> QED
  BY <1>1, <1>2, <1>3 DEF StepNames

LEMMA ScriptFacts ==
  ASSUME NEW s \in StepNames \cup {"bist"}
  PROVE  /\ Script[s] \in PhaseSeqs /\ Script[s] # <<>>
         /\ Head(Script[s]) \notin {"seed", "isin"}
<1>1. CASE s = "kap_identity"
  <2>1. Script[s] = <<"fetch", "seed">>
    BY <1>1 DEF Script
  <2> QED
    BY <2>1 DEF PhaseSeqs
<1>2. CASE s = "gleif_identity"
  <2>1. Script[s] = <<"lei", "isin">>
    BY <1>2 DEF Script
  <2> QED
    BY <2>1 DEF PhaseSeqs
<1>3. CASE s \in {"bist", "sector", "universe_prices", "factor_refit"}
  <2>1. Script[s] = <<s>>
    BY <1>3 DEF Script
  <2> QED
    BY <1>3, <2>1 DEF PhaseSeqs
<1> QED
  BY <1>1, <1>2, <1>3, StepsAre

(***************************************************************************)
(* What the sources answer.                                                *)
(***************************************************************************)
LEMMA FirstsAreSeen == \A seen : FirstOf(seen) \subseteq seen
BY DEF FirstOf

LEMMA MatchTyped == ASSUME TypeOK, NEW o \in Oids PROVE Match(o) \in Leis \cup {None}
BY DataAssumption DEF Match, TypeOK, Caches

LEMMA PickedTyped ==
  ASSUME NEW seen \in SUBSET Isins, IsFiniteSet(seen), NEW t
  PROVE  Picked(seen, t) \in Result
<1> DEFINE spelled == {i \in seen : <<i, t>> \in Embeds}
<1>1. CASE spelled # {}
  BY <1>1 DEF Picked, Result
<1>2. CASE spelled = {} /\ Cardinality(seen) = 1
  <2>1. \E i : seen = {i}
    BY <1>2, FS_Singleton
  <2> QED
    BY <1>2, <2>1 DEF Picked, Result
<1>3. CASE spelled = {} /\ Cardinality(seen) # 1
  BY <1>3, FirstsAreSeen DEF Picked, Result
<1> QED
  BY <1>1, <1>2, <1>3

LEMMA AnswersTyped ==
  ASSUME TypeOK, NEW o \in Known, o \in Oids, company[o].lei # None
  PROVE  Answers(o) \subseteq Result /\ company[o].lei \in Leis
<1>1. company[o].lei \in Leis
  BY DEF TypeOK, Known, Record
<1>2. CASE mem.isins[company[o].lei] # Absent
  BY <1>1, <1>2 DEF Answers, TypeOK, Caches
<1>3. CASE mem.isins[company[o].lei] = Absent
  <2>1. \A seen \in Seen(company[o].lei) : seen \in SUBSET Isins /\ IsFiniteSet(seen)
    <3>1. Instruments[company[o].lei] \in SUBSET Isins /\ IsFiniteSet(Instruments[company[o].lei])
      BY <1>1, DataAssumption
    <3> QED
      BY <3>1, FS_Subset DEF Seen
  <2> QED
    BY <1>1, <1>3, <2>1, PickedTyped DEF Answers
<1> QED
  BY <1>1, <1>2, <1>3

LEMMA FromReferenceTyped ==
  ASSUME TypeOK, NEW o \in Known, o \in Oids
  PROVE  FromReference(o) \in Isins \cup {None}
<1>1. company[o].ticker \in Tickers
  BY DEF TypeOK, Known, Record
<1>2. Ruled(company[o].ticker) \in Isins \cup {None}
  BY <1>1, DataAssumption DEF Ruled
<1> QED
  BY <1>1, <1>2, DataAssumption DEF FromReference

LEMMA TargetsReady ==
  ASSUME TypeOK, NEW stage \in {"fetch", "lei", "isin", "bist", "sector", "universe_prices",
                                "factor_refit"}
  PROVE  /\ Targets(stage) \subseteq Oids
         /\ \A o \in Targets(stage) : Ready(stage, o)
BY DEF Targets, Known, Ready

(***************************************************************************)
(* The steps.                                                              *)
(***************************************************************************)
LEMMA InitOnboarding == Init => OnboardingInv
<1> SUFFICES ASSUME Init PROVE OnboardingInv
  OBVIOUS
<1>1. NoGleif \in Caches
  BY DEF NoGleif, Caches
<1>2. TypeOK
  <2>1. changes \in 0..MaxChanges /\ faults \in 0..MaxFaults
    BY DataAssumption DEF Init
  <2>2. kap \in [Oids -> Tickers \cup {None}] /\ members \in [Oids -> Tickers \cup {None}]
    BY DataAssumption DEF Init
  <2>3. /\ company \in [Oids -> Record \cup {Absent}]
        /\ security \in [Oids \X Tickers -> Isins \cup {None, Absent}]
    BY DEF Init
  <2>4. l2 \in [returns : SUBSET Tickers, universe : SUBSET Tickers, betas : SUBSET Tickers]
    BY DEF Init
  <2> QED
    BY <1>1, <2>1, <2>2, <2>3, <2>4 DEF Init, TypeOK
<1> QED
  BY <1>2 DEF Init, OnboardingInv, PhaseSeqs

(* A step that leaves the graph and the work alone.                        *)
LEMMA Elsewhere ==
  ASSUME OnboardingInv, UNCHANGED <<company, security, phases, todo, members, recent>>,
         TypeOK'
  PROVE  OnboardingInv' /\ Keeps
<1>1. \A o \in todo' : (Ready(Stage, o))'
  BY DEF OnboardingInv, Ready, Stage, Known
<1> QED
  BY <1>1 DEF OnboardingInv, Keeps, Known

(* A step after which no process runs, with the nodes as they were.        *)
LEMMA Ends ==
  ASSUME OnboardingInv, phases' = <<>>, company' = company, TypeOK'
  PROVE  OnboardingInv' /\ Keeps
<1>1. \A o \in todo' : (Ready(Stage, o))'
  BY DEF Ready, Stage
<1> QED
  BY <1>1 DEF OnboardingInv, Keeps, Known, PhaseSeqs

LEMMA RelistStep == ASSUME OnboardingInv, Relist \/ Age PROVE OnboardingInv' /\ Keeps
<1>1. CASE Relist
  <2>1. PICK o \in Oids, t \in Tickers \cup {None} : kap' = [kap EXCEPT ![o] = t]
    BY <1>1 DEF Relist
  <2>2. TypeOK'
    <3>1. kap' \in [Oids -> Tickers \cup {None}]
      BY <2>1 DEF OnboardingInv, TypeOK
    <3>2. changes' \in 0..MaxChanges
      BY <1>1, DataAssumption DEF Relist, OnboardingInv, TypeOK
    <3> QED
      BY <1>1, <3>1, <3>2 DEF Relist, OnboardingInv, TypeOK, graph
  <2> QED
    BY <1>1, <2>2, Elsewhere DEF Relist, graph
<1>2. CASE Age
  <2>1. TypeOK'
    BY <1>2 DEF Age, OnboardingInv, TypeOK, graph, world
  <2>2. phases = <<>> /\ phases' = <<>> /\ company' = company
    BY <1>2 DEF Age, Idle, graph
  <2> QED
    BY <2>1, <2>2, Ends
<1> QED
  BY <1>1, <1>2

(* A process starts with the companies its first stage asks for.           *)
LEMMA Starts ==
  ASSUME OnboardingInv, NEW s \in StepNames \cup {"bist"}, Start(s),
         UNCHANGED <<world, caches, graph, l2, faults>>,
         plan' \subseteq DOMAIN Steps, ents' \subseteq Oids
  PROVE  OnboardingInv' /\ Keeps
<1>1. /\ phases' = Script[s] /\ phases' \in PhaseSeqs /\ phases' # <<>>
      /\ Head(phases') \in {"fetch", "lei", "bist", "sector", "universe_prices", "factor_refit"}
      /\ todo' = Targets(Head(phases'))
  BY ScriptFacts, PhaseFacts DEF Start
<1>2. mem' \in Caches
  BY DEF Start, OnboardingInv, TypeOK, NoGleif, Caches
<1>3. todo' \subseteq Oids /\ \A o \in todo' : Ready(Head(phases'), o)
  BY <1>1, TargetsReady DEF OnboardingInv
<1>4. TypeOK'
  BY <1>2, <1>3 DEF OnboardingInv, TypeOK, world, caches, graph
<1>5. \A o \in todo' : (Ready(Stage, o))'
  BY <1>1, <1>3 DEF Ready, Stage, Known, graph, caches
<1>6. Keeps
  BY DEF Keeps, Known, graph
<1> QED
  BY <1>1, <1>4, <1>5, <1>6 DEF OnboardingInv

LEMMA OrchestratorStep ==
  ASSUME OnboardingInv, Execute \/ NextEntity \/ NextStep \/ \E s \in DOMAIN Script : Run(s)
  PROVE  OnboardingInv' /\ Keeps
<1>1. CASE Execute
  <2>1. NewListings \subseteq Oids
    BY DEF NewListings
  <2>2. TypeOK'
    BY <1>1, <2>1 DEF Execute, OnboardingInv, TypeOK, world, caches, graph
  <2> QED
    BY <1>1, <2>2, Elsewhere DEF Execute, graph, caches
<1>2. CASE NextEntity
  <2>1. plan' \subseteq DOMAIN Steps /\ ents' \subseteq Oids
    BY <1>2 DEF NextEntity, Remaining, OnboardingInv, TypeOK
  <2>2. TypeOK'
    BY <1>2, <2>1 DEF NextEntity, OnboardingInv, TypeOK, world, caches, graph
  <2> QED
    BY <1>2, <2>2, Elsewhere DEF NextEntity, graph, caches
<1>3. CASE NextStep
  <2>1. PICK n \in plan : Start(Steps[n]) /\ plan' = plan \ {n}
    BY <1>3 DEF NextStep
  <2>2. n \in DOMAIN Steps /\ plan' \subseteq DOMAIN Steps
    BY <2>1 DEF OnboardingInv, TypeOK
  <2>3. Steps[n] \in StepNames
    BY <2>2 DEF StepNames
  <2> QED
    BY <1>3, <2>1, <2>2, <2>3, Starts DEF NextStep, OnboardingInv, TypeOK
<1>4. CASE \E s \in DOMAIN Script : Run(s)
  <2>1. PICK s \in StepNames \cup {"bist"} : Run(s)
    BY <1>4 DEF Script
  <2> QED
    BY <2>1, Starts DEF Run, OnboardingInv, TypeOK
<1> QED
  BY <1>1, <1>2, <1>3, <1>4

LEMMA Typed == OnboardingInv => TypeOK
BY DEF OnboardingInv

LEMMA EligibleTyped == ASSUME TypeOK PROVE Eligible \subseteq Tickers
BY DEF TypeOK, Eligible, Known, Record

(* The last statement of a process, or its death, on the store's side.     *)
LEMMA StoreStep ==
  ASSUME OnboardingInv, PullUniverse \/ Refit \/ Refuse \/ \E o \in Oids : OnboardSymbol(o)
  PROVE  OnboardingInv' /\ Keeps
<1> USE Typed
<1>1. CASE PullUniverse
  <2>1. Head(phases) = "universe_prices" /\ phases # <<>> /\ phases' = Tail(phases)
    BY <1>1 DEF PullUniverse, Finish, Idle
  <2>2. phases' = <<>>
    BY <2>1, PhaseFacts DEF OnboardingInv
  <2>3. l2' \in [returns : SUBSET Tickers, universe : SUBSET Tickers, betas : SUBSET Tickers]
    BY <1>1, EligibleTyped DEF PullUniverse, TypeOK
  <2>4. TypeOK'
    BY <1>1, <2>3 DEF PullUniverse, Finish, TypeOK, world, caches
  <2> QED
    BY <1>1, <2>2, <2>4, Ends DEF PullUniverse
<1>2. CASE Refit
  <2>1. Head(phases) = "factor_refit" /\ phases # <<>> /\ phases' = Tail(phases)
    BY <1>2 DEF Refit, Finish, Idle
  <2>2. phases' = <<>>
    BY <2>1, PhaseFacts DEF OnboardingInv
  <2>3. l2' \in [returns : SUBSET Tickers, universe : SUBSET Tickers, betas : SUBSET Tickers]
    BY <1>2 DEF Refit, TypeOK
  <2>4. TypeOK'
    BY <1>2, <2>3 DEF Refit, Finish, TypeOK, world, caches
  <2> QED
    BY <1>2, <2>2, <2>4, Ends DEF Refit
<1>3. CASE Refuse
  <2>1. TypeOK'
    BY <1>3 DEF Refuse, TypeOK, world, caches, graph
  <2> QED
    BY <1>3, <2>1, Ends DEF Refuse, graph
<1>4. ASSUME NEW o \in Oids, OnboardSymbol(o) PROVE OnboardingInv' /\ Keeps
  <2>1. company[o].ticker \in Tickers
    BY <1>4 DEF OnboardSymbol, TypeOK, Known, Record
  <2>2. l2' \in [returns : SUBSET Tickers, universe : SUBSET Tickers, betas : SUBSET Tickers]
    <3>1. PICK classed \in SUBSET {company[o].ticker} :
               l2' = [l2 EXCEPT !.returns = @ \cup {company[o].ticker}, !.universe = @ \cup classed]
      BY <1>4 DEF OnboardSymbol
    <3> QED
      BY <2>1, <3>1 DEF TypeOK
  <2>3. TypeOK'
    BY <1>4, <2>2 DEF OnboardSymbol, TypeOK, world, caches, graph
  <2> QED
    BY <1>4, <2>3, Elsewhere DEF OnboardSymbol, graph, caches
<1> QED
  BY <1>1, <1>2, <1>3, <1>4

LEMMA DieStep == ASSUME OnboardingInv, Die PROVE OnboardingInv' /\ Keeps
<1> USE Typed
<1>1. phases' = <<>> /\ company' = company
  BY DEF Die, Stop, graph
<1>2. l2' \in [returns : SUBSET Tickers, universe : SUBSET Tickers, betas : SUBSET Tickers]
  <2>1. CASE l2' = l2
    BY <2>1 DEF TypeOK
  <2>2. CASE \E built \in SUBSET Eligible : l2' = [l2 EXCEPT !.returns = @ \cup built]
    BY <2>2, EligibleTyped DEF TypeOK
  <2>3. CASE \E fitted \in SUBSET l2.returns : l2' = [l2 EXCEPT !.betas = fitted]
    BY <2>3 DEF TypeOK
  <2> QED
    BY <2>1, <2>2, <2>3 DEF Die, HalfDone
<1>3. faults' \in 0..MaxFaults
  BY DataAssumption DEF Die, Stop, TypeOK
<1>4. disk' \in Caches /\ warm' \in BOOLEAN
  BY DEF Die, MaySave, TypeOK
<1>5. TypeOK'
  BY <1>2, <1>3, <1>4 DEF Die, Stop, TypeOK, world, graph
<1> QED
  BY <1>1, <1>5, Ends

(* A stage hands over to the next, or the process ends.                    *)
LEMMA ThroughStep == ASSUME OnboardingInv, Through PROVE OnboardingInv' /\ Keeps
<1> USE Typed
<1>1. /\ phases # <<>> /\ phases \in PhaseSeqs /\ phases' = Tail(phases) /\ todo = {}
      /\ Head(phases) \in {"seed", "lei", "isin", "bist"}
      /\ UNCHANGED <<company, security, members>>
      /\ todo' = IF Len(phases) > 1 THEN Targets(phases[2]) ELSE {}
  BY PhaseFacts DEF Through, Idle, OnboardingInv, graph
<1>2. disk' \in Caches /\ warm' \in BOOLEAN
  BY DEF Through, TypeOK
<1>3. CASE Head(phases) = "lei"
  <2>1. phases' = <<"isin">> /\ todo' = Targets("isin")
    BY <1>1, <1>3, PhaseFacts
  <2>2. todo' \subseteq Oids /\ \A o \in todo' : Ready("isin", o)
    BY <2>1, TargetsReady
  <2>3. TypeOK'
    BY <1>2, <2>2 DEF Through, TypeOK, world, graph
  <2>4. Stage' = "isin"
    BY <2>1 DEF Stage
  <2>5. \A o \in todo' : (Ready(Stage, o))'
    BY <1>1, <2>2, <2>4 DEF Ready, Known
  <2> QED
    BY <1>1, <2>1, <2>3, <2>5 DEF OnboardingInv, PhaseSeqs, Keeps, Known
<1>4. CASE Head(phases) # "lei"
  <2>1. phases' = <<>> /\ todo' = {}
    BY <1>1, <1>4, PhaseFacts
  <2>2. TypeOK'
    BY <1>2, <2>1 DEF Through, TypeOK, world, graph
  <2> QED
    BY <1>1, <2>1, <2>2, Ends
<1> QED
  BY <1>3, <1>4

LEMMA FetchStep == ASSUME OnboardingInv, Fetch PROVE OnboardingInv' /\ Keeps
<1> USE Typed
<1>1. /\ phases' = <<"seed">> /\ UNCHANGED <<company, security>>
      /\ todo' = {o \in Oids : members'[o] # None}
  BY PhaseFacts DEF Fetch, Idle, OnboardingInv, graph
<1>2. members' \in [Oids -> Tickers \cup {None}] /\ recent' \in BOOLEAN
  BY DEF Fetch, TypeOK
<1>3. TypeOK'
  BY <1>1, <1>2 DEF Fetch, TypeOK, world, graph
<1>4. \A o \in todo' : (Ready(Stage, o))'
  <2>1. Stage' = "seed"
    BY <1>1 DEF Stage
  <2> QED
    BY <1>1, <2>1 DEF Ready
<1> QED
  BY <1>1, <1>3, <1>4 DEF OnboardingInv, PhaseSeqs, Keeps, Known

(* A step on one company o of the current stage: the others are as ready   *)
(* as they were, and o keeps the legs it has.                              *)
LEMMA OneCompany ==
  ASSUME OnboardingInv, NEW o \in Oids, NEW rec \in Record,
         company' = [company EXCEPT ![o] = rec], todo' = todo \ {o},
         UNCHANGED <<phases, members>>, TypeOK',
         o \in Known => /\ company[o].lei # None => rec.lei = company[o].lei
                        /\ company[o].isin # None => rec.isin = company[o].isin
  PROVE  OnboardingInv' /\ Keeps
<1>1. Absent # rec
  BY DataAssumption
<1>2. \A q \in Oids : company'[q] = IF q = o THEN rec ELSE company[q]
  BY DEF OnboardingInv, TypeOK
<1>3. Known' = Known \cup {o}
  BY <1>1, <1>2 DEF Known
<1>4. \A q \in todo' : (Ready(Stage, q))'
  <2>1. Stage' = Stage
    BY DEF Stage
  <2> TAKE q \in todo'
  <2>2. q # o /\ q \in Oids /\ Ready(Stage, q)
    BY DEF OnboardingInv, TypeOK
  <2>3. company'[q] = company[q] /\ (q \in Known => q \in Known')
    BY <1>2, <1>3, <2>2
  <2> QED
    BY <2>1, <2>2, <2>3 DEF Ready
<1>5. Keeps
  BY <1>2, <1>3 DEF Keeps, Known
<1> QED
  BY <1>4, <1>5 DEF OnboardingInv

LEMMA NodeOf ==
  ASSUME OnboardingInv, NEW stage \in {"lei", "isin", "bist"}, NEW o \in Oids, Doing(stage, o)
  PROVE  /\ o \in Known /\ company[o] \in Record /\ Ready(stage, o) /\ Stage = stage
         /\ todo' = todo \ {o} /\ todo' \subseteq Oids
BY DEF OnboardingInv, TypeOK, Doing, Idle, Stage, Ready, Known

LEMMA SeedStep == ASSUME OnboardingInv, NEW o \in Oids, Seed(o) PROVE OnboardingInv' /\ Keeps
<1> USE Typed
<1>1. members[o] \in Tickers /\ todo' = todo \ {o}
  BY DEF Seed, Doing, Idle, OnboardingInv, TypeOK, Ready, Stage
<1> DEFINE rec == IF company[o] = Absent
                  THEN [ticker |-> members[o], lei |-> None, isin |-> None, sector |-> FALSE]
                  ELSE [company[o] EXCEPT !.ticker = members[o]]
<1>2. /\ rec \in Record
      /\ o \in Known => rec.lei = company[o].lei /\ rec.isin = company[o].isin
  BY <1>1 DEF Known, TypeOK, Record
<1>3. company' = [company EXCEPT ![o] = rec]
  BY DEF Seed
<1>4. security' \in [Oids \X Tickers -> Isins \cup {None, Absent}]
  BY <1>1 DEF Seed, TypeOK
<1>5. company' \in [Oids -> Record \cup {Absent}]
  BY <1>2, <1>3 DEF TypeOK
<1>6. TypeOK'
  BY <1>1, <1>4, <1>5 DEF Seed, TypeOK, world, caches
<1> HIDE DEF rec
<1> QED
  BY <1>1, <1>2, <1>3, <1>6, OneCompany DEF Seed, caches

LEMMA MatchStep ==
  ASSUME OnboardingInv, NEW o \in Oids, MatchName(o) PROVE OnboardingInv' /\ Keeps
<1> USE Typed
<1>1. o \in Known /\ company[o] \in Record /\ company[o].lei = None /\ todo' = todo \ {o}
  BY NodeOf DEF MatchName, Ready
<1>2. PICK l \in Leis \cup {None} : company' = [company EXCEPT ![o].lei = l]
  <2>1. CASE company' = [company EXCEPT ![o].lei = Match(o)]
    BY <2>1, MatchTyped
  <2>2. CASE UNCHANGED company
    <3>1. company' = [company EXCEPT ![o].lei = None]
      BY <1>1, <2>2 DEF Record, TypeOK
    <3> QED
      BY <3>1
  <2> QED
    BY <2>1, <2>2 DEF MatchName
<1> DEFINE rec == [company[o] EXCEPT !.lei = l]
<1>3. rec \in Record /\ rec.isin = company[o].isin
  BY <1>1 DEF Record
<1>4. company' = [company EXCEPT ![o] = rec]
  BY <1>2
<1>5. company' \in [Oids -> Record \cup {Absent}]
  BY <1>3, <1>4 DEF TypeOK
<1>6. mem' \in Caches /\ faults' \in 0..MaxFaults
  <2>1. Match(o) \in Leis \cup {None, Absent}
    BY MatchTyped
  <2>2. mem' \in Caches
    BY <2>1 DEF MatchName, TypeOK, Caches
  <2>3. faults' \in 0..MaxFaults
    BY DataAssumption DEF MatchName, TypeOK
  <2> QED
    BY <2>2, <2>3
<1>7. TypeOK'
  BY <1>1, <1>5, <1>6 DEF MatchName, TypeOK, world, caches
<1> HIDE DEF rec
<1> QED
  BY <1>1, <1>3, <1>4, <1>7, OneCompany DEF MatchName, caches

(* An ISIN written to a company that has none.                             *)
LEMMA IsinWritten ==
  ASSUME OnboardingInv, NEW o \in Known, o \in Oids, NEW i \in Isins \cup {None},
         company[o].isin = None, WriteIsin(o, i) \/ (UNCHANGED graph /\ i = None)
  PROVE  \E rec \in Record : /\ company' = [company EXCEPT ![o] = rec]
                             /\ rec.lei = company[o].lei
                             /\ company' \in [Oids -> Record \cup {Absent}]
                             /\ security' \in [Oids \X Tickers -> Isins \cup {None, Absent}]
<1> USE Typed
<1> DEFINE rec == [company[o] EXCEPT !.isin = i]
<1>1. company[o] \in Record
  BY DEF Known, TypeOK
<1>2. rec \in Record /\ rec.lei = company[o].lei
  BY <1>1 DEF Record
<1>3. company' = [company EXCEPT ![o] = rec]
  <2>1. CASE WriteIsin(o, i)
    BY <2>1 DEF WriteIsin
  <2>2. CASE UNCHANGED graph /\ i = None
    <3>1. rec = company[o]
      BY <1>1, <2>2 DEF Record
    <3> QED
      BY <2>2, <3>1 DEF graph, TypeOK
  <2> QED
    BY <2>1, <2>2
<1>4. security' \in [Oids \X Tickers -> Isins \cup {None, Absent}]
  <2>1. CASE WriteIsin(o, i)
    <3>1. \A os \in Oids \X Tickers : security[os] \in Isins \cup {None, Absent}
      BY DEF TypeOK
    <3> QED
      BY <2>1, <3>1 DEF WriteIsin
  <2>2. CASE UNCHANGED graph
    BY <2>2 DEF graph, TypeOK
  <2> QED
    BY <2>1, <2>2
<1>5. company' \in [Oids -> Record \cup {Absent}]
  BY <1>2, <1>3 DEF TypeOK
<1> HIDE DEF rec
<1> QED
  BY <1>2, <1>3, <1>4, <1>5

LEMMA FindStep ==
  ASSUME OnboardingInv, NEW o \in Oids, FindIsin(o) PROVE OnboardingInv' /\ Keeps
<1> USE Typed
<1>1. /\ o \in Known /\ company[o] \in Record /\ company[o].lei # None
      /\ company[o].isin = None /\ todo' = todo \ {o}
  BY NodeOf DEF FindIsin, Ready
<1>2. Answers(o) \subseteq Result /\ company[o].lei \in Leis
  BY <1>1, AnswersTyped
<1>3. \E i \in Isins \cup {None} : WriteIsin(o, i) \/ (UNCHANGED graph /\ i = None)
  <2>1. CASE \E r \in Answers(o) : IF r.isin = None THEN UNCHANGED graph ELSE WriteIsin(o, r.isin)
    <3>1. PICK r \in Answers(o) : IF r.isin = None THEN UNCHANGED graph ELSE WriteIsin(o, r.isin)
      BY <2>1
    <3>2. r.isin \in Isins \cup {None}
      BY <1>2 DEF Result
    <3> QED
      BY <3>1, <3>2
  <2>2. CASE UNCHANGED graph
    BY <2>2
  <2> QED
    BY <2>1, <2>2 DEF FindIsin
<1>4. PICK rec \in Record : /\ company' = [company EXCEPT ![o] = rec]
                            /\ rec.lei = company[o].lei
                            /\ company' \in [Oids -> Record \cup {Absent}]
                            /\ security' \in [Oids \X Tickers -> Isins \cup {None, Absent}]
  BY <1>1, <1>3, IsinWritten
<1>5. mem' \in Caches /\ faults' \in 0..MaxFaults
  <2>1. Failed \in Result
    BY DEF Failed, Result
  <2>2. \E r \in Result : mem' = [mem EXCEPT !.isins[company[o].lei] = r]
    BY <1>2, <2>1 DEF FindIsin
  <2>3. mem' \in Caches
    BY <1>2, <2>2 DEF TypeOK, Caches
  <2>4. faults' \in 0..MaxFaults
    BY DataAssumption DEF FindIsin, TypeOK
  <2> QED
    BY <2>3, <2>4
<1>6. TypeOK'
  BY <1>1, <1>4, <1>5 DEF FindIsin, TypeOK, world, caches
<1> QED
  BY <1>1, <1>4, <1>6, OneCompany DEF FindIsin, caches

LEMMA TakeStep ==
  ASSUME OnboardingInv, NEW o \in Oids, TakeReference(o) PROVE OnboardingInv' /\ Keeps
<1> USE Typed
<1>1. o \in Known /\ company[o] \in Record /\ company[o].isin = None /\ todo' = todo \ {o}
  BY NodeOf DEF TakeReference, Ready
<1>2. FromReference(o) \in Isins \cup {None}
  BY <1>1, FromReferenceTyped
<1>3. WriteIsin(o, FromReference(o)) \/ (UNCHANGED graph /\ FromReference(o) = None)
  BY DEF TakeReference
<1>4. PICK rec \in Record : /\ company' = [company EXCEPT ![o] = rec]
                            /\ rec.lei = company[o].lei
                            /\ company' \in [Oids -> Record \cup {Absent}]
                            /\ security' \in [Oids \X Tickers -> Isins \cup {None, Absent}]
  BY <1>1, <1>2, <1>3, IsinWritten
<1>5. TypeOK'
  BY <1>1, <1>4 DEF TakeReference, TypeOK, world, caches
<1> QED
  BY <1>1, <1>4, <1>5, OneCompany DEF TakeReference, caches

(* A process killed between the two writes of an ISIN: it was one of the   *)
(* companies without.                                                      *)
LEMMA DieInStep ==
  ASSUME OnboardingInv, NEW o \in Oids, DieInLookup(o) PROVE OnboardingInv' /\ Keeps
<1> USE Typed
<1>1. /\ o \in Known /\ company[o] \in Record
      /\ Head(phases) \in {"isin", "bist"} => company[o].isin = None
      /\ Head(phases) = "isin" => company[o].lei # None
      /\ Head(phases) \in {"lei", "isin", "bist"}
  BY DEF DieInLookup, Idle, OnboardingInv, Stage, Ready, Known, TypeOK
<1>2. PICK i \in Isins \cup {None} :
         /\ company' = [company EXCEPT ![o].isin = i]
         /\ company[o].isin # None => i = company[o].isin
  <2>1. company = [company EXCEPT ![o].isin = company[o].isin]
    BY <1>1 DEF TypeOK, Record
  <2>2. CASE UNCHANGED company
    BY <1>1, <2>1, <2>2 DEF Record
  <2>3. CASE Head(phases) = "isin"
    <3>1. Answers(o) \subseteq Result
      BY <1>1, <2>3, AnswersTyped
    <3>2. CASE \E r \in Answers(o) : company' = [company EXCEPT ![o].isin = r.isin]
      BY <1>1, <2>3, <3>1, <3>2 DEF Result
    <3> QED
      BY <2>2, <2>3, <3>2 DEF DieInLookup
  <2>4. CASE Head(phases) = "bist"
    BY <1>1, <2>4, FromReferenceTyped DEF DieInLookup
  <2> QED
    BY <1>1, <2>2, <2>3, <2>4 DEF DieInLookup
<1>a. disk' \in Caches /\ warm' \in BOOLEAN
  <2>1. CASE Head(phases) = "lei"
    <3>1. Match(o) \in Leis \cup {None, Absent}
      BY MatchTyped
    <3>2. [mem EXCEPT !.match[o] = Match(o)] \in Caches
      BY <3>1 DEF TypeOK, Caches
    <3> QED
      BY <2>1, <3>2 DEF DieInLookup, MaySave, TypeOK
  <2>2. CASE Head(phases) = "isin"
    <3>1. PICK r \in Answers(o) : MaySave([mem EXCEPT !.isins[company[o].lei] = r])
      BY <2>2 DEF DieInLookup
    <3>2. r \in Result /\ company[o].lei \in Leis
      BY <1>1, <2>2, AnswersTyped
    <3>3. [mem EXCEPT !.isins[company[o].lei] = r] \in Caches
      BY <3>2 DEF TypeOK, Caches
    <3> QED
      BY <3>1, <3>3 DEF MaySave, TypeOK
  <2>3. CASE Head(phases) = "bist"
    BY <2>3 DEF DieInLookup, TypeOK
  <2> QED
    BY <1>1, <2>1, <2>2, <2>3
<1> DEFINE rec == [company[o] EXCEPT !.isin = i]
<1>3. /\ rec \in Record /\ rec.lei = company[o].lei
      /\ company[o].isin # None => rec.isin = company[o].isin
  BY <1>1, <1>2 DEF Record
<1>4. company' = [company EXCEPT ![o] = rec]
  BY <1>2
<1>5. company' \in [Oids -> Record \cup {Absent}]
  BY <1>3, <1>4 DEF TypeOK
<1>6. faults' \in 0..MaxFaults
  BY DataAssumption DEF DieInLookup, Stop, TypeOK
<1>7. TypeOK'
  BY <1>5, <1>6, <1>a DEF DieInLookup, Stop, TypeOK, world
<1>8. phases' = <<>> /\ todo' = {}
  BY DEF DieInLookup, Stop
<1> HIDE DEF rec
<1>9. Keeps
  <2>1. \A q \in Oids : company'[q] = IF q = o THEN rec ELSE company[q]
    BY <1>4 DEF TypeOK
  <2>2. Absent # rec
    BY <1>3, DataAssumption
  <2> QED
    BY <1>1, <1>3, <2>1, <2>2 DEF Keeps, Known
<1> QED
  BY <1>7, <1>8, <1>9 DEF OnboardingInv, PhaseSeqs

LEMMA SectorStep == ASSUME OnboardingInv, LinkSectors PROVE OnboardingInv' /\ Keeps
<1> USE Typed
<1>1. phases # <<>> /\ Head(phases) = "sector" /\ phases' = Tail(phases)
  BY DEF LinkSectors, Finish, Idle
<1>2. phases' = <<>>
  BY <1>1, PhaseFacts DEF OnboardingInv
<1>3. \A o \in Known : /\ company[o] \in Record
                       /\ [company[o] EXCEPT !.sector = TRUE] \in Record
                       /\ [company[o] EXCEPT !.sector = TRUE].lei = company[o].lei
                       /\ [company[o] EXCEPT !.sector = TRUE].isin = company[o].isin
  BY DEF Known, TypeOK, Record
<1>4. company' \in [Oids -> Record \cup {Absent}]
  BY <1>3 DEF LinkSectors, TypeOK
<1>5. TypeOK'
  BY <1>4 DEF LinkSectors, Finish, TypeOK, world, caches
<1>6. Keeps
  BY <1>3, DataAssumption DEF LinkSectors, Keeps, Known
<1> QED
  BY <1>2, <1>5, <1>6 DEF OnboardingInv, PhaseSeqs, Stage, Ready

LEMMA OnboardingStep == OnboardingInv /\ [Next]_vars => OnboardingInv' /\ (Keeps \/ UNCHANGED vars)
<1> SUFFICES ASSUME OnboardingInv, [Next]_vars
             PROVE  OnboardingInv' /\ (Keeps \/ UNCHANGED vars)
  OBVIOUS
<1>1. CASE Next
  BY <1>1, RelistStep, OrchestratorStep, StoreStep, DieStep, ThroughStep, FetchStep,
     SeedStep, MatchStep, FindStep, TakeStep, DieInStep, SectorStep DEF Next
<1>2. CASE UNCHANGED vars
  <2>1. TypeOK'
    BY <1>2 DEF vars, OnboardingInv, TypeOK
  <2> QED
    BY <1>2, <2>1, Elsewhere DEF vars
<1> QED
  BY <1>1, <1>2

(***************************************************************************)
(* The ISINs and GLEIF's answers.  The records of both caches, the file    *)
(* and that of a running GLEIF process, are answers about their LEI, and a *)
(* company was asked about: if it has an ISIN and the answer has any, that *)
(* ISIN is one GLEIF lists.                                                *)
(***************************************************************************)
Equities(r) == r.candidates \cup ({r.isin} \ {None})

IsAnswer(r, l) ==
  /\ r.isin \in Instruments[l] \cup {None}
  /\ r.candidates \subseteq Instruments[l]

Nodes(graphOf) == {o \in Oids : graphOf[o] # Absent}

Agrees(node, r, l) == node.isin # None /\ Equities(r) # {} => node.isin \in Instruments[l]

CacheSound(c, nodes) ==
  /\ \A o \in Oids : c.match[o] \in {Absent, MatchOf[o]}
  /\ \A l \in Leis : c.isins[l] # Absent =>
       /\ IsAnswer(c.isins[l], l)
       /\ ~Shared(l) => \E o \in Nodes(nodes) :
                           nodes[o].lei = l /\ Agrees(nodes[o], c.isins[l], l)

Matched(nodes) == \A o \in Nodes(nodes) : nodes[o].lei \in {None, MatchOf[o]}

VouchInv ==
  /\ OnboardingInv
  /\ Matched(company)
  /\ CacheSound(disk, company)
  /\ Stage \in {"lei", "isin"} => CacheSound(mem, company)

LegsGrow(nodes, next) ==
  \A o \in Nodes(nodes) : /\ o \in Nodes(next)
                          /\ nodes[o].lei # None => next[o].lei = nodes[o].lei
                          /\ nodes[o].isin # None => next[o].isin = nodes[o].isin

LEMMA KnownNodes == Known = Nodes(company) /\ Known' = Nodes(company')
BY DEF Known, Nodes

LEMMA EmptyCacheSound == ASSUME NEW nodes PROVE CacheSound(NoGleif, nodes)
BY DEF CacheSound, NoGleif

(* A cache stays sound as companies gain legs, when an ISIN they gain is   *)
(* one of GLEIF's, or the cache has none for their LEI.                    *)
LEMMA StaysSound ==
  ASSUME NEW c, NEW nodes, NEW next, CacheSound(c, nodes), LegsGrow(nodes, next),
         \A o \in Nodes(nodes) : \A l \in Leis :
            /\ nodes[o].lei = l /\ nodes[o].isin = None /\ next[o].isin # None
            /\ c.isins[l] # Absent /\ Equities(c.isins[l]) # {}
            => next[o].isin \in Instruments[l]
  PROVE  CacheSound(c, next)
<1>1. ASSUME NEW l \in Leis, c.isins[l] # Absent, ~Shared(l)
      PROVE  \E o \in Nodes(next) : next[o].lei = l /\ Agrees(next[o], c.isins[l], l)
  <2>1. PICK o \in Nodes(nodes) : nodes[o].lei = l /\ Agrees(nodes[o], c.isins[l], l)
    BY <1>1 DEF CacheSound
  <2>2. o \in Nodes(next) /\ next[o].lei = l
    BY <2>1, DataAssumption DEF LegsGrow
  <2>3. CASE nodes[o].isin # None
    <3>1. next[o].isin = nodes[o].isin
      BY <2>3 DEF LegsGrow
    <3>2. Agrees(next[o], c.isins[l], l)
      BY <2>1, <3>1 DEF Agrees
    <3> QED
      BY <2>2, <3>2
  <2>4. CASE nodes[o].isin = None
    <3>1. next[o].isin # None /\ Equities(c.isins[l]) # {} => next[o].isin \in Instruments[l]
      BY <1>1, <2>1, <2>4
    <3>2. Agrees(next[o], c.isins[l], l)
      BY <3>1 DEF Agrees
    <3> QED
      BY <2>2, <3>2
  <2> QED
    BY <2>3, <2>4
<1> QED
  BY <1>1 DEF CacheSound

LEMMA KeepsGrows == Keeps => LegsGrow(company, company')
BY KnownNodes DEF Keeps, LegsGrow

(* What GLEIF answers, cached or fetched now.                              *)
LEMMA PickedIsAnswer ==
  ASSUME NEW l \in Leis, NEW seen \in Seen(l), NEW t
  PROVE  IsAnswer(Picked(seen, t), l)
<1> DEFINE spelled == {i \in seen : <<i, t>> \in Embeds}
<1>1. seen \subseteq Instruments[l]
  BY DEF Seen
<1>2. CASE spelled # {}
  BY <1>1, <1>2 DEF Picked, IsAnswer
<1>3. CASE spelled = {} /\ Cardinality(seen) = 1
  <2>1. IsFiniteSet(seen)
    BY <1>1, DataAssumption, FS_Subset
  <2>2. \E i : seen = {i}
    BY <1>3, <2>1, FS_Singleton
  <2> QED
    BY <1>1, <1>3, <2>2 DEF Picked, IsAnswer
<1>4. CASE spelled = {} /\ Cardinality(seen) # 1
  BY <1>1, <1>4, FirstsAreSeen DEF Picked, IsAnswer
<1> QED
  BY <1>2, <1>3, <1>4

LEMMA AnswersSound ==
  ASSUME VouchInv, Stage \in {"lei", "isin"}, NEW o \in Known, o \in Oids,
         company[o].lei # None, NEW r \in Answers(o)
  PROVE  IsAnswer(r, company[o].lei) /\ company[o].lei \in Leis /\ r \in Result
<1>1. company[o].lei \in Leis /\ r \in Result
  BY AnswersTyped DEF VouchInv, OnboardingInv
<1>2. CASE mem.isins[company[o].lei] # Absent
  BY <1>1, <1>2 DEF Answers, VouchInv, CacheSound
<1>3. CASE mem.isins[company[o].lei] = Absent
  BY <1>1, <1>3, PickedIsAnswer DEF Answers
<1> QED
  BY <1>1, <1>2, <1>3

(* The reference's ISIN is one of the cached answer's, if that has any.    *)
LEMMA ReferenceSound ==
  ASSUME VouchInv, NEW o \in Known, NEW l \in Leis, company[o].lei = l,
         disk.isins[l] # Absent, Equities(disk.isins[l]) # {}, FromReference(o) # None
  PROVE  FromReference(o) \in Instruments[l]
<1>1. Candidates(l) = Equities(disk.isins[l])
  BY DataAssumption DEF Candidates, Equities
<1>2. FromReference(o) \in Equities(disk.isins[l])
  BY <1>1 DEF FromReference
<1>3. IsAnswer(disk.isins[l], l)
  BY DEF VouchInv, CacheSound
<1> QED
  BY <1>2, <1>3 DEF IsAnswer, Equities

(***************************************************************************)
(* The steps again.                                                        *)
(***************************************************************************)
LEMMA InitVouch == Init => VouchInv
<1> SUFFICES ASSUME Init PROVE VouchInv
  OBVIOUS
<1>1. OnboardingInv
  BY InitOnboarding
<1>2. Nodes(company) = {} /\ disk = NoGleif /\ phases = <<>>
  BY DEF Init, Nodes
<1> QED
  BY <1>1, <1>2, EmptyCacheSound DEF VouchInv, Matched, Stage

(* Companies and cache file as they were; a GLEIF process that runs then   *)
(* ran before.                                                             *)
LEMMA QuietVouch ==
  ASSUME VouchInv, OnboardingInv', company' = company, disk' = disk,
         Stage' \in {"lei", "isin"} => Stage \in {"lei", "isin"} /\ mem' = mem
  PROVE  VouchInv'
BY DEF VouchInv

LEMMA StartVouch ==
  ASSUME VouchInv, OnboardingInv', NEW s \in StepNames \cup {"bist"}, Start(s),
         UNCHANGED <<company, disk>>
  PROVE  VouchInv'
<1>1. mem' = disk \/ mem' = NoGleif
  BY DEF Start
<1>2. CacheSound(mem', company')
  BY <1>1, EmptyCacheSound DEF VouchInv
<1> QED
  BY <1>2 DEF VouchInv

(* The stages that change companies but neither LEI nor ISIN.              *)
LEMMA OtherLegsVouch ==
  ASSUME VouchInv, OnboardingInv', Keeps, disk' = disk,
         \A o \in Nodes(company') :
            IF o \in Nodes(company)
              THEN company'[o].lei = company[o].lei /\ company'[o].isin = company[o].isin
              ELSE company'[o].lei = None,
         Stage' \notin {"lei", "isin"}
  PROVE  VouchInv'
<1>1. LegsGrow(company, company')
  BY KeepsGrows
<1>2. CacheSound(disk, company')
  <2>1. \A o \in Nodes(company) : company'[o].isin = company[o].isin
    BY <1>1 DEF LegsGrow
  <2>2. CacheSound(disk, company)
    BY DEF VouchInv
  <2> QED
    BY <1>1, <2>1, <2>2, StaysSound
<1>3. Matched(company')
  BY DEF VouchInv, Matched
<1> QED
  BY <1>2, <1>3 DEF VouchInv

LEMMA SeedVouch == ASSUME VouchInv, NEW o \in Oids, Seed(o) PROVE VouchInv'
<1>1. OnboardingInv' /\ Keeps
  BY SeedStep DEF VouchInv
<1>2. company \in [Oids -> Record \cup {Absent}]
  BY DEF VouchInv, OnboardingInv, TypeOK
<1>3. \A q \in Nodes(company') :
         IF q \in Nodes(company)
           THEN company'[q].lei = company[q].lei /\ company'[q].isin = company[q].isin
           ELSE company'[q].lei = None
  <2> TAKE q \in Nodes(company')
  <2>1. CASE q # o
    <3>1. company'[q] = company[q]
      BY <1>2, <2>1 DEF Seed, Nodes
    <3> QED
      BY <3>1 DEF Nodes
  <2>2. CASE q = o /\ company[o] = Absent
    BY <1>2, <2>2 DEF Seed, Nodes
  <2>3. CASE q = o /\ company[o] # Absent
    <3>1. company[o] \in Record /\ o \in Nodes(company)
      BY <1>2, <2>3 DEF Nodes
    <3>2. company'[o] = [company[o] EXCEPT !.ticker = members[o]]
      BY <1>2, <2>3 DEF Seed
    <3> QED
      BY <2>3, <3>1, <3>2 DEF Record
  <2> QED
    BY <2>1, <2>2, <2>3
<1>4. Stage' \notin {"lei", "isin"} /\ disk' = disk
  BY DEF Seed, Doing, Idle, Stage, caches
<1> QED
  BY <1>1, <1>3, <1>4, OtherLegsVouch

LEMMA SectorVouch == ASSUME VouchInv, LinkSectors PROVE VouchInv'
<1>1. OnboardingInv' /\ Keeps
  BY SectorStep DEF VouchInv
<1>2. \A q \in Nodes(company') :
         IF q \in Nodes(company)
           THEN company'[q].lei = company[q].lei /\ company'[q].isin = company[q].isin
           ELSE company'[q].lei = None
  <2> TAKE q \in Nodes(company')
  <2>1. CASE q \in Known
    <3>1. company[q] \in Record /\ q \in Oids
      BY <2>1 DEF Known, VouchInv, OnboardingInv, TypeOK
    <3>2. company'[q] = company[q] \/ company'[q] = [company[q] EXCEPT !.sector = TRUE]
      BY <3>1 DEF LinkSectors
    <3> QED
      BY <2>1, <3>1, <3>2, KnownNodes DEF Record
  <2>2. CASE q \notin Known
    BY <2>2 DEF LinkSectors, Nodes, Known
  <2> QED
    BY <2>1, <2>2
<1>3. Stage' \notin {"lei", "isin"} /\ disk' = disk
  <2>1. phases' = <<>>
    BY PhaseFacts DEF LinkSectors, Finish, Idle, VouchInv, OnboardingInv
  <2> QED
    BY <2>1 DEF Stage, LinkSectors, Finish, caches
<1> QED
  BY <1>1, <1>2, <1>3, OtherLegsVouch

(* A match is written: nobody has an ISIN more.                            *)
LEMMA MatchVouch == ASSUME VouchInv, NEW o \in Oids, MatchName(o) PROVE VouchInv'
<1>1. OnboardingInv' /\ Keeps /\ LegsGrow(company, company')
  BY MatchStep, KeepsGrows DEF VouchInv
<1>2. /\ o \in Known /\ company[o] \in Record /\ Stage = "lei"
  BY NodeOf DEF MatchName, VouchInv
<1>3. company \in [Oids -> Record \cup {Absent}] /\ mem \in Caches
  BY DEF VouchInv, OnboardingInv, TypeOK
<1>4. CacheSound(mem, company) /\ CacheSound(disk, company) /\ Matched(company)
  BY <1>2 DEF VouchInv
<1>5. \/ company' = company
      \/ \E l \in {None, MatchOf[o]} : company' = [company EXCEPT ![o].lei = l]
  BY <1>4 DEF MatchName, Match, CacheSound
<1>6. (\A q \in Nodes(company) : company'[q].isin = company[q].isin) /\ Matched(company')
  <2>1. CASE company' = company
    BY <1>4, <2>1
  <2>2. CASE \E l \in {None, MatchOf[o]} : company' = [company EXCEPT ![o].lei = l]
    <3>1. PICK l \in {None, MatchOf[o]} : company' = [company EXCEPT ![o].lei = l]
      BY <2>2
    <3>2. company'[o] = [company[o] EXCEPT !.lei = l]
      BY <1>3, <3>1
    <3>3. company'[o].lei = l /\ company'[o].isin = company[o].isin
      BY <1>2, <3>2 DEF Record
    <3>4. \A q \in Oids : q # o => company'[q] = company[q]
      BY <1>3, <3>1
    <3> QED
      BY <1>4, <3>3, <3>4 DEF Matched, Nodes
  <2> QED
    BY <1>5, <2>1, <2>2
<1>7. CacheSound(mem, company') /\ CacheSound(disk, company')
  BY <1>1, <1>4, <1>6, StaysSound
<1>8. CacheSound(mem', company')
  <2>1. mem'.isins = mem.isins /\ \A q \in Oids : mem'.match[q] \in {mem.match[q], MatchOf[q]}
    BY <1>3 DEF MatchName, Match, Caches
  <2> QED
    BY <1>7, <2>1 DEF CacheSound
<1> QED
  BY <1>1, <1>6, <1>7, <1>8 DEF VouchInv, MatchName, caches

(* What a step that writes at most one ISIN, one of GLEIF's, or one that   *)
(* the cache has nothing against, does to a cache.                         *)
LEMMA IsinKeepsSound ==
  ASSUME OnboardingInv, Keeps, NEW c, CacheSound(c, company), NEW o \in Known,
         company[o].isin = None, NEW i,
         company' = [company EXCEPT ![o].isin = i] \/ company' = company,
         i # None => \A l \in Leis :
            /\ company[o].lei = l /\ c.isins[l] # Absent /\ Equities(c.isins[l]) # {}
            => i \in Instruments[l]
  PROVE  CacheSound(c, company')
<1>1. LegsGrow(company, company')
  BY KeepsGrows
<1>2. company \in [Oids -> Record \cup {Absent}] /\ o \in Oids /\ company[o] \in Record
  BY DEF OnboardingInv, TypeOK, Known
<1>3. ASSUME NEW q \in Nodes(company), NEW l \in Leis, company[q].lei = l,
             company[q].isin = None, company'[q].isin # None,
             c.isins[l] # Absent, Equities(c.isins[l]) # {}
      PROVE  company'[q].isin \in Instruments[l]
  <2>1. q = o /\ company' = [company EXCEPT ![o].isin = i]
    BY <1>2, <1>3 DEF Nodes
  <2>2. company'[o].isin = i
    BY <1>2, <2>1 DEF Record
  <2> QED
    BY <1>3, <2>1, <2>2
<1> QED
  BY <1>1, <1>3, StaysSound

LEMMA IsinKeepsMatched ==
  ASSUME OnboardingInv, Matched(company), NEW o \in Known, NEW i,
         company' = [company EXCEPT ![o].isin = i] \/ company' = company
  PROVE  Matched(company')
<1>1. company \in [Oids -> Record \cup {Absent}] /\ o \in Oids /\ company[o] \in Record
  BY DEF OnboardingInv, TypeOK, Known
<1>2. CASE company' = [company EXCEPT ![o].isin = i]
  <2>1. company'[o].lei = company[o].lei /\ \A q \in Oids : q # o => company'[q] = company[q]
    BY <1>1, <1>2 DEF Record
  <2> QED
    BY <2>1, KnownNodes DEF Matched, Nodes
<1>3. CASE company' = company
  BY <1>3
<1> QED
  BY <1>2, <1>3

LEMMA TakeVouch == ASSUME VouchInv, NEW o \in Oids, TakeReference(o) PROVE VouchInv'
<1>1. OnboardingInv' /\ Keeps
  BY TakeStep DEF VouchInv
<1>2. o \in Known /\ company[o].isin = None /\ Stage = "bist" /\ OnboardingInv
  BY NodeOf DEF TakeReference, VouchInv, Ready
<1> DEFINE i == FromReference(o)
<1>3. company' = [company EXCEPT ![o].isin = i] \/ company' = company
  BY DEF TakeReference, WriteIsin, graph
<1>4. CacheSound(disk, company')
  <2>1. i # None => \A l \in Leis :
           /\ company[o].lei = l /\ disk.isins[l] # Absent /\ Equities(disk.isins[l]) # {}
           => i \in Instruments[l]
    BY <1>2, ReferenceSound
  <2>2. CacheSound(disk, company)
    BY DEF VouchInv
  <2> HIDE DEF i
  <2> QED
    BY <1>1, <1>2, <1>3, <2>1, <2>2, IsinKeepsSound
<1>5. Matched(company')
  <2>1. Matched(company)
    BY DEF VouchInv
  <2> HIDE DEF i
  <2> QED
    BY <1>2, <1>3, <2>1, IsinKeepsMatched
<1>6. Stage' = Stage /\ disk' = disk
  BY DEF TakeReference, Stage, caches
<1> QED
  BY <1>1, <1>2, <1>4, <1>5, <1>6 DEF VouchInv

(* An answer that enters the cache, written to its company or not yet.      *)
LEMMA AnswerHeld ==
  ASSUME NEW c \in Caches, NEW nodes, CacheSound(c, nodes), NEW l \in Leis, NEW r,
         IsAnswer(r, l), NEW o \in Nodes(nodes), nodes[o].lei = l,
         nodes[o].isin \in {None, r.isin}
  PROVE  CacheSound([c EXCEPT !.isins[l] = r], nodes)
<1> DEFINE held == [c EXCEPT !.isins[l] = r]
<1>1. /\ held.match = c.match
      /\ \A k \in Leis : held.isins[k] = IF k = l THEN r ELSE c.isins[k]
  BY DEF Caches
<1>2. Agrees(nodes[o], r, l)
  BY DEF Agrees, IsAnswer
<1> HIDE DEF held
<1>3. CacheSound(held, nodes)
  BY <1>1, <1>2 DEF CacheSound
<1> QED
  BY <1>3 DEF held

LEMMA FindVouch == ASSUME VouchInv, NEW o \in Oids, FindIsin(o) PROVE VouchInv'
<1>1. OnboardingInv' /\ Keeps
  BY FindStep DEF VouchInv
<1>2. /\ o \in Known /\ company[o].isin = None /\ company[o].lei # None /\ Stage = "isin"
      /\ OnboardingInv /\ company[o] \in Record
  BY NodeOf DEF FindIsin, VouchInv, Ready
<1> DEFINE l == company[o].lei
<1>3. l \in Leis /\ company \in [Oids -> Record \cup {Absent}] /\ mem \in Caches
  BY <1>2 DEF OnboardingInv, TypeOK, Record
<1>4. PICK r : /\ r \in Result /\ IsAnswer(r, l)
               /\ mem' = [mem EXCEPT !.isins[l] = r]
               /\ IF r.isin = None THEN company' = company
                                   ELSE company' = [company EXCEPT ![o].isin = r.isin]
  <2>1. CASE \E r \in Answers(o) :
                /\ IF r.isin = None THEN UNCHANGED graph ELSE WriteIsin(o, r.isin)
                /\ mem' = [mem EXCEPT !.isins[l] = r]
    BY <1>2, <2>1, AnswersSound DEF WriteIsin, graph
  <2>2. CASE UNCHANGED graph /\ mem' = [mem EXCEPT !.isins[l] = Failed]
    <3>1. Failed \in Result /\ IsAnswer(Failed, l) /\ Failed.isin = None
      BY DEF Failed, Result, IsAnswer
    <3> QED
      BY <2>2, <3>1 DEF graph
  <2> QED
    BY <2>1, <2>2 DEF FindIsin
<1>5. r.isin # None => r.isin \in Instruments[l]
  BY <1>4 DEF IsAnswer
<1>6. company' = [company EXCEPT ![o].isin = r.isin] \/ company' = company
  BY <1>4
<1>7. CacheSound(disk, company') /\ CacheSound(mem, company')
  <2>1. CacheSound(disk, company) /\ CacheSound(mem, company)
    BY <1>2 DEF VouchInv
  <2> QED
    BY <1>1, <1>2, <1>5, <1>6, <2>1, IsinKeepsSound
<1>8. Matched(company')
  BY <1>2, <1>6, IsinKeepsMatched DEF VouchInv
<1>9. CacheSound(mem', company')
  <2>2. o \in Nodes(company') /\ company'[o].lei = l /\ company'[o].isin = r.isin
    <3>1. o \in Nodes(company')
      BY <1>1, <1>2, KnownNodes DEF Keeps
    <3>2. CASE r.isin = None
      BY <1>2, <1>4, <3>1, <3>2
    <3>3. CASE r.isin # None
      BY <1>2, <1>3, <1>4, <3>1, <3>3 DEF Record
    <3> QED
      BY <3>2, <3>3
  <2> QED
    BY <1>3, <1>4, <1>7, <2>2, AnswerHeld
<1> QED
  BY <1>1, <1>7, <1>8, <1>9 DEF VouchInv, FindIsin, caches

(* What a lookup that is cut short writes is GLEIF's, or nothing.          *)
LEMMA CutShort ==
  ASSUME VouchInv, NEW o \in Known, o \in Oids, Stage = "isin", company[o].lei # None,
         company[o].isin = None, NEW r \in Answers(o),
         \/ UNCHANGED company
         \/ r.isin # None /\ company' = [company EXCEPT ![o].isin = r.isin]
  PROVE  /\ IsAnswer(r, company[o].lei) /\ company[o].lei \in Leis
         /\ \E i \in {None, r.isin} : company' = [company EXCEPT ![o].isin = i]
<1>1. IsAnswer(r, company[o].lei) /\ company[o].lei \in Leis
  BY AnswersSound
<1>2. company = [company EXCEPT ![o].isin = None]
  BY DEF VouchInv, OnboardingInv, TypeOK, Known, Record
<1> QED
  BY <1>1, <1>2

LEMMA DieInVouch == ASSUME VouchInv, NEW o \in Oids, DieInLookup(o) PROVE VouchInv'
<1>1. OnboardingInv' /\ Keeps
  BY DieInStep DEF VouchInv
<1>2. /\ o \in Known /\ OnboardingInv /\ company[o] \in Record
      /\ Head(phases) \in {"isin", "bist"} => company[o].isin = None
      /\ Head(phases) = "isin" => company[o].lei # None
      /\ Stage = Head(phases) /\ Head(phases) \in {"lei", "isin", "bist"}
      /\ mem \in Caches /\ company \in [Oids -> Record \cup {Absent}]
  BY DEF DieInLookup, Idle, VouchInv, OnboardingInv, Stage, Ready, Known, TypeOK
<1>3. Stage' = "none"
  BY DEF DieInLookup, Stop, Stage
<1>4. CASE Head(phases) = "lei"
  <2>1. company' = company /\ MaySave([mem EXCEPT !.match[o] = Match(o)])
    BY <1>4 DEF DieInLookup
  <2>2. CacheSound(mem, company) /\ CacheSound(disk, company) /\ Matched(company)
    BY <1>2, <1>4 DEF VouchInv
  <2> DEFINE held == [mem EXCEPT !.match[o] = Match(o)]
  <2>3. held.isins = mem.isins /\ \A q \in Oids : held.match[q] \in {mem.match[q], MatchOf[q]}
    BY <1>2 DEF Match, Caches
  <2> HIDE DEF held
  <2>4. CacheSound(held, company)
    BY <2>2, <2>3 DEF CacheSound
  <2>5. CacheSound(disk', company')
    BY <2>1, <2>2, <2>4 DEF MaySave, held
  <2> QED
    BY <1>1, <1>3, <2>1, <2>2, <2>5 DEF VouchInv
<1>5. CASE Head(phases) = "isin"
  <2>1. PICK r \in Answers(o) :
           /\ \/ UNCHANGED company
              \/ r.isin # None /\ company' = [company EXCEPT ![o].isin = r.isin]
           /\ MaySave([mem EXCEPT !.isins[company[o].lei] = r])
    BY <1>5 DEF DieInLookup
  <2>2. /\ IsAnswer(r, company[o].lei) /\ company[o].lei \in Leis
        /\ \E i \in {None, r.isin} : company' = [company EXCEPT ![o].isin = i]
    BY <1>2, <1>5, <2>1, CutShort
  <2>3. PICK i \in {None, r.isin} : company' = [company EXCEPT ![o].isin = i]
    BY <2>2
  <2>4. i # None => i \in Instruments[company[o].lei]
    BY <2>2, <2>3 DEF IsAnswer
  <2>5. CacheSound(disk, company') /\ CacheSound(mem, company')
    <3>1. CacheSound(disk, company) /\ CacheSound(mem, company)
      BY <1>2, <1>5 DEF VouchInv
    <3> QED
      BY <1>1, <1>2, <1>5, <2>3, <2>4, <3>1, IsinKeepsSound
  <2>6. Matched(company')
    BY <1>2, <2>3, IsinKeepsMatched DEF VouchInv
  <2>7. o \in Nodes(company') /\ company'[o].lei = company[o].lei /\ company'[o].isin = i
    <3>1. o \in Nodes(company')
      BY <1>1, <1>2, KnownNodes DEF Keeps
    <3> QED
      BY <1>2, <2>3, <3>1 DEF Record
  <2>8. CacheSound([mem EXCEPT !.isins[company[o].lei] = r], company')
    BY <1>2, <2>2, <2>3, <2>5, <2>7, AnswerHeld
  <2>9. CacheSound(disk', company')
    BY <2>1, <2>5, <2>8 DEF MaySave
  <2> QED
    BY <1>1, <1>3, <2>6, <2>9 DEF VouchInv
<1>6. CASE Head(phases) = "bist"
  <2> DEFINE i == FromReference(o)
  <2>1. company' = [company EXCEPT ![o].isin = i] /\ disk' = disk
    BY <1>6 DEF DieInLookup
  <2>2. i # None => \A l \in Leis :
           /\ company[o].lei = l /\ disk.isins[l] # Absent /\ Equities(disk.isins[l]) # {}
           => i \in Instruments[l]
    BY <1>2, ReferenceSound
  <2> HIDE DEF i
  <2>3. CacheSound(disk, company')
    BY <1>1, <1>2, <1>6, <2>1, <2>2, IsinKeepsSound DEF VouchInv
  <2>4. Matched(company')
    BY <1>2, <2>1, IsinKeepsMatched DEF VouchInv
  <2> QED
    BY <1>1, <1>3, <2>1, <2>3, <2>4 DEF VouchInv
<1> QED
  BY <1>2, <1>4, <1>5, <1>6

(* The caches are written by the GLEIF process that holds them.            *)
LEMMA SaveVouch == ASSUME VouchInv, Die \/ Through PROVE VouchInv'
<1>1. OnboardingInv' /\ company' = company
  BY DieStep, ThroughStep DEF VouchInv, Die, Through, graph
<1>2. disk' = disk \/ (disk' = mem /\ Stage \in {"lei", "isin"})
  <2>1. CASE Die
    BY <2>1 DEF Die, MaySave, Idle, Stage
  <2>2. CASE Through
    BY <2>2 DEF Through, Idle, Stage
  <2> QED
    BY <2>1, <2>2
<1>3. Stage' \in {"lei", "isin"} => Stage \in {"lei", "isin"} /\ mem' = mem
  <2>1. CASE Die
    BY <2>1 DEF Die, Stop, Stage
  <2>2. CASE Through
    <3>1. phases # <<>> /\ phases \in PhaseSeqs /\ phases' = Tail(phases) /\ mem' = mem
          /\ Head(phases) \notin {"fetch", "sector", "universe_prices", "factor_refit"}
      BY <2>2 DEF Through, Idle, VouchInv, OnboardingInv
    <3> QED
      BY <3>1, PhaseFacts DEF Stage
  <2> QED
    BY <2>1, <2>2
<1> QED
  BY <1>1, <1>2, <1>3 DEF VouchInv

LEMMA VouchStep == VouchInv /\ [Next]_vars => VouchInv'
<1> SUFFICES ASSUME VouchInv, [Next]_vars PROVE VouchInv'
  OBVIOUS
<1>1. OnboardingInv /\ OnboardingInv'
  BY OnboardingStep DEF VouchInv
<1>2. CASE Relist \/ Age \/ Execute \/ NextEntity
  <2>1. UNCHANGED <<company, disk, mem, phases>>
    BY <1>2 DEF Relist, Age, Execute, NextEntity, graph, caches
  <2> QED
    BY <1>1, <2>1, QuietVouch DEF Stage
<1>3. CASE NextStep \/ \E s \in DOMAIN Script : Run(s)
  <2>1. PICK s \in StepNames \cup {"bist"} : Start(s)
    <3>1. CASE NextStep
      <4>1. PICK n \in plan : Start(Steps[n])
        BY <3>1 DEF NextStep
      <4>2. Steps[n] \in StepNames
        BY <1>1 DEF OnboardingInv, TypeOK, StepNames
      <4> QED
        BY <4>1, <4>2
    <3>2. CASE \E s \in DOMAIN Script : Run(s)
      BY <3>2 DEF Script, Run
    <3> QED
      BY <1>3, <3>1, <3>2
  <2>2. UNCHANGED <<company, disk>>
    BY <1>3 DEF NextStep, Run, graph, caches
  <2> QED
    BY <1>1, <2>1, <2>2, StartVouch
<1>4. CASE Die \/ Through
  BY <1>4, SaveVouch
<1>5. CASE Fetch \/ PullUniverse \/ Refit \/ Refuse \/ \E o \in Oids : OnboardSymbol(o)
  <2>1. UNCHANGED <<company, disk>>
    BY <1>5 DEF Fetch, PullUniverse, Refit, Refuse, OnboardSymbol, Finish, graph, caches
  <2>2. Stage' \notin {"lei", "isin"}
    <3>1. CASE Fetch
      <4>1. Head(phases) = "fetch" /\ phases # <<>> /\ phases' = Tail(phases)
        BY <3>1 DEF Fetch, Idle
      <4>2. phases' = <<"seed">>
        BY <1>1, <4>1, PhaseFacts DEF OnboardingInv
      <4> QED
        BY <4>2 DEF Stage
    <3>2. CASE PullUniverse \/ Refit
      <4>1. /\ Head(phases) \in {"universe_prices", "factor_refit"}
            /\ phases # <<>> /\ phases' = Tail(phases)
        BY <3>2 DEF PullUniverse, Refit, Finish, Idle
      <4>2. phases' = <<>>
        BY <1>1, <4>1, PhaseFacts DEF OnboardingInv
      <4> QED
        BY <4>2 DEF Stage
    <3>3. CASE Refuse \/ \E o \in Oids : OnboardSymbol(o)
      BY <3>3 DEF Refuse, OnboardSymbol, Idle, Stage
    <3> QED
      BY <1>5, <3>1, <3>2, <3>3
  <2> QED
    BY <1>1, <2>1, <2>2, QuietVouch
<1>6. CASE UNCHANGED vars
  BY <1>1, <1>6, QuietVouch DEF vars, Stage
<1> QED
  BY <1>2, <1>3, <1>4, <1>5, <1>6, SeedVouch, SectorVouch, MatchVouch, FindVouch,
     TakeVouch, DieInVouch DEF Next

(* An LEI that is not shared is one company's: the one the cache knows.    *)
LEMMA VouchedFollows == VouchInv => IsinVouched
<1> SUFFICES ASSUME VouchInv, NEW o \in Known, company[o].isin # None,
                    Candidates(company[o].lei) # {}, ~Shared(company[o].lei)
             PROVE  company[o].isin \in Instruments[company[o].lei]
  BY DEF IsinVouched
<1> DEFINE l == company[o].lei
<1>1. l \in Leis /\ disk.isins[l] # Absent /\ Candidates(l) = Equities(disk.isins[l])
  <2>1. l \in Leis \cup {None}
    BY DEF VouchInv, OnboardingInv, TypeOK, Known, Record
  <2> QED
    BY <2>1 DEF Candidates, Equities
<1>2. PICK q \in Nodes(company) : company[q].lei = l /\ Agrees(company[q], disk.isins[l], l)
  BY <1>1 DEF VouchInv, CacheSound
<1>3. q = o
  <2>1. MatchOf[o] = l /\ MatchOf[q] = l /\ o \in Oids /\ q \in Oids
    BY <1>1, <1>2, DataAssumption, KnownNodes DEF VouchInv, Matched, Nodes, Known
  <2> QED
    BY <2>1 DEF Shared
<1> QED
  BY <1>1, <1>2, <1>3 DEF Agrees

(***************************************************************************)
(* The theorems.                                                           *)
(***************************************************************************)
(* The inductive invariant: what a stage may assume of its companies.      *)
THEOREM OnboardingAlways == Spec => []OnboardingInv
<1>1. Init => OnboardingInv
  BY InitOnboarding
<1>2. OnboardingInv /\ [Next]_vars => OnboardingInv'
  BY OnboardingStep
<1> QED
  BY <1>1, <1>2, PTL DEF Spec

(* Type correctness of the graph, the caches and the store's names.        *)
THEOREM OnboardingTypeOK == Spec => []TypeOK
BY OnboardingAlways, PTL DEF OnboardingInv

(* No step of any script, orchestrated or by hand, takes a found LEI or    *)
(* ISIN away or replaces it.                                               *)
THEOREM FoundLegsKept == Spec => LegsKept
<1>1. OnboardingInv /\ [Next]_vars => Keeps \/ UNCHANGED vars
  BY OnboardingStep
<1> QED
  BY <1>1, OnboardingAlways, PTL DEF Spec, LegsKept, Keeps

(* An ISIN in the graph is an equity code GLEIF lists for the company's    *)
(* LEI, when the cached answer has any and the LEI is that of one company  *)
(* only: the two back-fills are never at odds, whatever was cut from the   *)
(* cached lists, dies or expires.                                          *)
THEOREM IsinsVouched == Spec => []IsinVouched
BY InitVouch, VouchStep, VouchedFollows, PTL DEF Spec
=============================================================================
