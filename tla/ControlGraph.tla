---------------------------- MODULE ControlGraph ----------------------------
(***************************************************************************)
(* The Kuzu graph of companies and who writes it: the KAP seed, the GLEIF  *)
(* LEI back-fill and Level-2 parents, the KAP subsidiaries, the listing    *)
(* classification and the sector load with its inheritance, ending in the  *)
(* CONTROLS-cycle gate of schema/integrity.py.                             *)
(*                                                                         *)
(* A script runs its stages one after the other, alone on the database.    *)
(* A stage reads what it needs once, takes its items one at a time, and    *)
(* writes each as a few statements that Kuzu commits one by one, so a      *)
(* script that dies leaves a prefix of them.                               *)
(*                                                                         *)
(* A company is an issuer known to KAP or the node ext-<LEI> minted for a  *)
(* parent outside the universe; the model names such a node by its LEI.    *)
(***************************************************************************)
EXTENDS Naturals, Sequences, FiniteSets

CONSTANTS Issuers,     \* companies KAP lists
          Leis,        \* legal entity identifiers
          Sectors,     \* leaf sectors
          Matches,     \* [Issuers -> SUBSET Leis]: what the name matcher may answer
          Answers,     \* parents GLEIF may report: [lei, direct, ultimate]
          Relations,   \* related parties KAP declares: [parent, child, kind, pct]
          References,  \* the sector references imported over time
          Equities,    \* issuers with a traded equity line
          MaxRuns,     \* bound on the script runs
          MaxDeaths,   \* bound on the deaths among them
          None

Company == Issuers \cup Leis

ASSUME NamesAssumption ==
    /\ Issuers \cap Leis = {}
    /\ None \notin Company \cup Sectors
    /\ IsFiniteSet(Company)
    /\ Equities \subseteq Issuers
    /\ MaxRuns \in Nat /\ MaxDeaths \in Nat

ASSUME WorldAssumption ==
    /\ Matches \in [Issuers -> SUBSET Leis]
    /\ Answers \subseteq [lei : Leis, direct : Leis \cup {None},
                          ultimate : Leis \cup {None}]
    /\ Relations \subseteq [parent : Issuers, child : Company,
                            kind : {"subsidiary", "jv"}, pct : BOOLEAN]
    /\ References \subseteq [Issuers -> Sectors \cup {None}] /\ References # {}

VARIABLES nodes,         \* Company nodes of the graph
          lei,           \* [Company -> Company.lei or None]
          status,        \* [Company -> listing_status]
          controls,      \* [parent, child -> basis of the CONTROLS edge, or "absent"]
          subsidiaryOf,  \* SUBSIDIARY_OF edges <<child, parent>>
          stakes,        \* HOLDS_STAKE edges <<parent, child>>
          inSector,      \* [Company -> [Sectors -> basis of the IN_SECTOR edge]]
          reference,     \* data/reference/sectors.json
          stages,        \* stages left of the running script, <<>> when none runs
          opened,        \* the head stage has read its targets
          onlyMissing,   \* the script runs without --all
          create,        \* --create-missing-parents
          uuidOf,        \* lei2uuid of the Level-2 stage
          leafOf,        \* leaf map of the inheritance stage
          todo,          \* items the stage has not taken
          queue,         \* statements of the item taken
          verdict,       \* what the gate of the last script said
          runs,          \* scripts started
          deaths         \* scripts that died

graph == <<nodes, lei, status, controls, subsidiaryOf, stakes, inSector>>
script == <<stages, opened, onlyMissing, create, uuidOf, leafOf, todo, queue, runs,
            deaths>>
vars == <<graph, reference, script, verdict>>

Gleif == {"direct", "ultimate"}
Bases == Gleif \cup {"kap"}
SectorBases == {"kap-direct", "inherited"}

HasControl(p, c) == controls[<<p, c>>] # "absent"
HasSector(c) == \E s \in Sectors : inSector[c][s] # "absent"

(***************************************************************************)
(* Statements, over nodes the stage found or minted itself.  MERGE creates *)
(* an edge or finds it.                                                    *)
(***************************************************************************)
Seed(c)        == [op |-> "seed", of |-> c]
SetLei(c, l)   == [op |-> "lei", of |-> c, lei |-> l]
External(l)    == [op |-> "external", of |-> l]
SetStatus(c)   == [op |-> "status", of |-> c]
Control(p, c, basis, keep) ==
    [op |-> "control", parent |-> p, child |-> c, basis |-> basis, keep |-> keep]
Subsidiary(p, c) == [op |-> "subsidiary", parent |-> p, child |-> c]
Stake(p, c)      == [op |-> "stake", parent |-> p, child |-> c]
Sector(c, s, basis) == [op |-> "sector", of |-> c, leaf |-> s, basis |-> basis]

Statements ==
    [op : {"seed"}, of : Issuers] \cup [op : {"lei"}, of : Issuers, lei : Leis]
    \cup [op : {"external"}, of : Leis] \cup [op : {"status"}, of : Company]
    \cup [op : {"control"}, parent : Company, child : Company, basis : Bases,
          keep : BOOLEAN]
    \cup [op : {"subsidiary", "stake"}, parent : Company, child : Company]
    \cup [op : {"sector"}, of : Company, leaf : Sectors, basis : SectorBases]

(***************************************************************************)
(* Scripts and their stages: ingest_kap.py --seed, the stages of           *)
(* backfill_gleif.py, discover_kap_subsidiaries.py, which runs the KAP     *)
(* stage without the gate, and backfill_sectors.py.                        *)
(***************************************************************************)
Scripts == {<<"seed">>, <<"lei", "gate">>, <<"l2", "gate">>, <<"classify", "gate">>,
            <<"subsidiary", "gate">>, <<"subsidiary">>,
            <<"lei", "l2", "classify", "subsidiary", "gate">>,
            <<"sectors", "inherit">>}

StageNames == {"seed", "lei", "l2", "classify", "subsidiary", "gate", "sectors", "inherit"}

InStage(s) == stages # <<>> /\ Head(stages) = s

\* Mutation: the inheritance does not ask whether a company has a sector.
NotExternal == {c \in nodes : status[c] # "EXTERNAL_PARENT"}

Unsectored == {c \in nodes : ~HasSector(c) /\ status[c] # "EXTERNAL_PARENT"}

\* What the stage iterates over.  An issuer has a ticker and is_listed, an
\* external parent neither.
Targets(s) ==
    CASE s = "seed"       -> Issuers
      [] s = "lei"        -> {c \in nodes \cap Issuers : onlyMissing => lei[c] = None}
      [] s = "l2"         -> {c \in nodes :
                                /\ lei[c] # None
                                /\ onlyMissing => \A p \in Company : <<c, p>> \notin subsidiaryOf}
      [] s = "classify"   -> nodes
      [] s = "subsidiary" -> Relations
      [] s = "sectors"    -> nodes \cap Issuers
      [] s = "inherit"    -> Unsectored
      [] s = "gate"       -> {}

\* One row per LEI, and per company with a sector, survives in the dict the
\* stage fills: any, since the query does not order them.
UuidMaps == {m \in [Leis -> Company \cup {None}] :
               \A l \in Leis : LET holders == {c \in nodes : lei[c] = l}
                               IN  IF holders = {} THEN m[l] = None ELSE m[l] \in holders}
LeafMaps == {m \in [Company -> Sectors \cup {None}] :
               \A c \in Company : LET leaves == {s \in Sectors : inSector[c][s] # "absent"}
                                  IN  IF leaves = {} THEN m[c] = None ELSE m[c] \in leaves}

NoUuids == [l \in Leis |-> None]
NoLeaves == [c \in Company |-> None]

TypeOK ==
    /\ nodes \subseteq Company
    /\ lei \in [Company -> Leis \cup {None}]
    /\ status \in [Company -> {"none", "EQUITY_TRADED", "NON_EQUITY_ISSUER",
                               "EXTERNAL_PARENT"}]
    /\ controls \in [Company \X Company -> Bases \cup {"absent"}]
    /\ subsidiaryOf \subseteq Company \X Company
    /\ stakes \subseteq Company \X Company
    /\ inSector \in [Company -> [Sectors -> SectorBases \cup {"absent"}]]
    /\ reference \in References
    /\ stages \in Seq(StageNames)
    /\ opened \in BOOLEAN /\ onlyMissing \in BOOLEAN /\ create \in BOOLEAN
    /\ uuidOf \in [Leis -> Company \cup {None}]
    /\ leafOf \in [Company -> Sectors \cup {None}]
    /\ todo \subseteq Company \cup Relations
    /\ queue \in Seq(Statements)
    /\ verdict \in {"none", "dag", "cycle"}
    /\ runs \in Nat /\ deaths \in Nat
    /\ stages = <<>> => todo = {} /\ queue = <<>>

Init ==
    /\ nodes = {} /\ subsidiaryOf = {} /\ stakes = {}
    /\ lei = [c \in Company |-> None]
    /\ status = [c \in Company |-> "none"]
    /\ controls = [e \in Company \X Company |-> "absent"]
    /\ inSector = [c \in Company |-> [s \in Sectors |-> "absent"]]
    /\ reference \in References
    /\ stages = <<>> /\ todo = {} /\ queue = <<>> /\ verdict = "none" /\ runs = 0
    /\ deaths = 0
    /\ opened = FALSE /\ onlyMissing = TRUE /\ create = FALSE
    /\ uuidOf = NoUuids /\ leafOf = NoLeaves

(***************************************************************************)
(* A script starts, opens each stage, and ends in the gate if it has one.  *)
(***************************************************************************)
Start(s, missing, mint) ==
    /\ stages = <<>> /\ runs < MaxRuns
    /\ ~missing => s[1] \in {"lei", "l2"}
    /\ mint => "l2" \in {s[i] : i \in DOMAIN s}
    /\ stages' = s /\ onlyMissing' = missing /\ create' = mint
    /\ opened' = FALSE
    /\ verdict' = "none" /\ runs' = runs + 1
    /\ UNCHANGED <<graph, reference, uuidOf, leafOf, todo, queue, deaths>>

Open ==
    /\ stages # <<>> /\ ~opened
    /\ opened' = TRUE
    /\ todo' = Targets(Head(stages))
    /\ IF InStage("l2") THEN uuidOf' \in UuidMaps ELSE uuidOf' = uuidOf
    /\ IF InStage("inherit") THEN leafOf' \in LeafMaps ELSE leafOf' = leafOf
    /\ UNCHANGED <<graph, reference, stages, onlyMissing, create, queue, runs, deaths,
                   verdict>>

Idle == opened /\ todo = {} /\ queue = <<>>

Forget ==
    /\ opened' = FALSE /\ uuidOf' = NoUuids /\ leafOf' = NoLeaves

\* The process is gone, and its arguments with it.
Exit == stages' = <<>> /\ onlyMissing' = TRUE /\ create' = FALSE /\ Forget

Close ==
    /\ stages # <<>> /\ Idle /\ ~InStage("gate")
    /\ IF Tail(stages) = <<>> THEN Exit
       ELSE stages' = Tail(stages) /\ UNCHANGED <<onlyMissing, create>> /\ Forget
    /\ UNCHANGED <<graph, reference, todo, queue, runs, deaths, verdict>>

\* The process is killed, or an exception ends it.
Die ==
    /\ stages # <<>> /\ deaths < MaxDeaths
    /\ Exit /\ todo' = {} /\ queue' = <<>>
    /\ deaths' = deaths + 1
    /\ UNCHANGED <<graph, reference, runs, verdict>>

(***************************************************************************)
(* Each stage turns an item into statements.                               *)
(***************************************************************************)
\* The queries and files fix an order, mostly that of the tickers.
NextItem == CHOOSE item \in todo : TRUE

Take(s, item, statements) ==
    /\ InStage(s) /\ opened /\ queue = <<>>
    /\ item \in todo
    /\ queue' = statements
    /\ UNCHANGED <<graph, reference, stages, opened, onlyMissing, create, uuidOf, leafOf,
                   runs, deaths, verdict>>

TakeOne(s, item, statements) ==
    /\ Take(s, item, statements)
    /\ todo' = todo \ {item}

TakeMember(c) == c \in Issuers /\ TakeOne("seed", c, <<Seed(c)>>)

\* A match above the threshold is written; none, a weak one and an HTTP error
\* are only reported.
TakeUnidentified(c) ==
    /\ c \in Issuers
    /\ \/ \E l \in Matches[c] : TakeOne("lei", c, <<SetLei(c, l)>>)
       \/ TakeOne("lei", c, <<>>)

TakeUnclassified(c) == c \in Company /\ TakeOne("classify", c, <<SetStatus(c)>>)

\* The node a reported parent LEI stands for.
Parent(l) ==
    IF uuidOf[l] # None THEN uuidOf[l] ELSE IF create THEN l ELSE None

Mint(l) == IF uuidOf[l] = None /\ create THEN <<External(l)>> ELSE <<>>

\* Mutation: the subsidiary edge is written before the control edge.
SubsidiaryFirst(c, a) ==
    IF a.direct = None \/ a.direct = a.lei THEN <<>>
    ELSE Mint(a.direct) \o
         (IF Parent(a.direct) = None THEN <<>>
          ELSE <<Subsidiary(Parent(a.direct), c),
                 Control(Parent(a.direct), c, "direct", FALSE)>>)

DirectParent(c, a) ==
    IF a.direct = None \/ a.direct = a.lei THEN <<>>
    ELSE Mint(a.direct) \o
         (IF Parent(a.direct) = None THEN <<>>
          ELSE <<Control(Parent(a.direct), c, "direct", FALSE),
                 Subsidiary(Parent(a.direct), c)>>)

\* Mutation: a parent that is nobody's node, and is not to be created, is
\* linked all the same.
UltimateUnresolved(c, a) ==
    IF a.ultimate \in {None, a.lei, a.direct} THEN <<>>
    ELSE Mint(a.ultimate) \o <<Control(Parent(a.ultimate), c, "ultimate", FALSE)>>

UltimateParent(c, a) ==
    IF a.ultimate \in {None, a.lei, a.direct} THEN <<>>
    ELSE Mint(a.ultimate) \o
         (IF Parent(a.ultimate) = None THEN <<>>
          ELSE <<Control(Parent(a.ultimate), c, "ultimate", FALSE)>>)

\* GLEIF answers for the company's LEI, or fails and the company is skipped.
TakeChild(c) ==
    \/ \E a \in Answers : /\ c \in Company /\ a.lei = lei[c]
                          /\ TakeOne("l2", c, DirectParent(c, a) \o UltimateParent(c, a))
    \/ TakeOne("l2", c, <<>>)

Resolved(r) == r.parent \in nodes /\ r.child \in nodes /\ r.parent # r.child

Declared(r) ==
    (IF r.kind = "subsidiary"
     THEN <<Control(r.parent, r.child, "kap", TRUE), Subsidiary(r.parent, r.child)>>
     ELSE <<>>)
    \o (IF r.pct THEN <<Stake(r.parent, r.child)>> ELSE <<>>)

SameEdge(r, q) == r.parent = q.parent /\ r.child = q.child /\ r.kind = q.kind

\* A second row for the same parent, child and kind is skipped (seen_edges).
TakeRelation(r) ==
    /\ r \in Relations
    /\ IF Resolved(r)
       THEN /\ Take("subsidiary", r, Declared(r))
            /\ todo' = {q \in todo : q # r /\ ~SameEdge(r, q)}
       ELSE TakeOne("subsidiary", r, <<>>)

TakeTicker(c) ==
    /\ c \in Issuers
    /\ TakeOne("sectors", c, IF reference[c] = None THEN <<>>
                             ELSE <<Sector(c, reference[c], "kap-direct")>>)

\* Mutation: the walk goes down the control graph.
ChildrenOf(c) == {p \in Company : HasControl(c, p) \/ <<p, c>> \in subsidiaryOf}

ParentsOf(c) == {p \in Company : HasControl(p, c) \/ <<c, p>> \in subsidiaryOf}

Up(level) == UNION {ParentsOf(c) : c \in level}

\* The ancestors n edges above c.
Above(c) ==
    LET A[n \in 0 .. Cardinality(Company)] == IF n = 0 THEN {c} ELSE Up(A[n - 1])
    IN  A

\* The first level above c where somebody is in the leaf map.
Nearest(c) ==
    LET A == Above(c)
        At(n) == {p \in Company : p \in A[n] /\ leafOf[p] # None}
        levels == {n \in DOMAIN A : At(n) # {}}
    IN  IF levels = {} THEN {}
        ELSE At(CHOOSE n \in levels : \A m \in levels : n <= m)

TakeUnsectored(c) ==
    /\ c \in Company
    /\ IF Nearest(c) = {} THEN TakeOne("inherit", c, <<>>)
       ELSE \E p \in Nearest(c) :
              TakeOne("inherit", c, <<Sector(c, leafOf[p], "inherited")>>)

(***************************************************************************)
(* The statements, each committed on its own.                              *)
(***************************************************************************)
Next1(op) ==
    /\ queue # <<>> /\ Head(queue).op = op
    /\ queue' = Tail(queue)
    /\ UNCHANGED <<reference, stages, opened, onlyMissing, create, uuidOf, leafOf, todo,
                   runs, deaths, verdict>>

WriteSeed ==
    /\ Next1("seed")
    /\ nodes' = nodes \cup {Head(queue).of}
    /\ UNCHANGED <<lei, status, controls, subsidiaryOf, stakes, inSector>>

WriteLei ==
    /\ Next1("lei")
    /\ lei' = [lei EXCEPT ![Head(queue).of] = Head(queue).lei]
    /\ UNCHANGED <<nodes, status, controls, subsidiaryOf, stakes, inSector>>

WriteExternal ==
    /\ Next1("external")
    /\ LET l == Head(queue).of
       IN  /\ nodes' = nodes \cup {l}
           /\ lei' = [lei EXCEPT ![l] = l]
           /\ status' = [status EXCEPT ![l] = "EXTERNAL_PARENT"]
    /\ UNCHANGED <<controls, subsidiaryOf, stakes, inSector>>

WriteStatus ==
    /\ Next1("status")
    /\ LET c == Head(queue).of
       IN  status' = [status EXCEPT ![c] = IF c \in Equities THEN "EQUITY_TRADED"
                                           ELSE "NON_EQUITY_ISSUER"]
    /\ UNCHANGED <<nodes, lei, controls, subsidiaryOf, stakes, inSector>>

\* Mutation: KAP overwrites the edge it finds.
OverwriteControl ==
    /\ Next1("control")
    /\ LET s == Head(queue)
       IN  controls' = [controls EXCEPT ![<<s.parent, s.child>>] = s.basis]
    /\ UNCHANGED <<nodes, lei, status, subsidiaryOf, stakes, inSector>>

\* KAP leaves an edge it finds alone, GLEIF stamps its own provenance on it.
WriteControl ==
    /\ Next1("control")
    /\ LET s == Head(queue)
       IN  controls' = IF s.keep /\ HasControl(s.parent, s.child) THEN controls
                       ELSE [controls EXCEPT ![<<s.parent, s.child>>] = s.basis]
    /\ UNCHANGED <<nodes, lei, status, subsidiaryOf, stakes, inSector>>

WriteSubsidiary ==
    /\ Next1("subsidiary")
    /\ subsidiaryOf' = subsidiaryOf \cup {<<Head(queue).child, Head(queue).parent>>}
    /\ UNCHANGED <<nodes, lei, status, controls, stakes, inSector>>

WriteStake ==
    /\ Next1("stake")
    /\ stakes' = stakes \cup {<<Head(queue).parent, Head(queue).child>>}
    /\ UNCHANGED <<nodes, lei, status, controls, subsidiaryOf, inSector>>

WriteSector ==
    /\ Next1("sector")
    /\ LET s == Head(queue) IN inSector' = [inSector EXCEPT ![s.of][s.leaf] = s.basis]
    /\ UNCHANGED <<nodes, lei, status, controls, subsidiaryOf, stakes>>

(***************************************************************************)
(* The gate: strongly connected components by Tarjan's algorithm, with the *)
(* explicit work stack of the code; rest is what a frame's iterator has    *)
(* left.  A component of several nodes, or an edge to itself, is a cycle.  *)
(***************************************************************************)
Controlled(c) == {d \in nodes : HasControl(c, d)}

Smaller(m, n) == IF m <= n THEN m ELSE n

Visit(t, c) ==
    [t EXCEPT !.index[c] = t.counter, !.low[c] = t.counter, !.counter = t.counter + 1,
              !.stack = Append(t.stack, c),
              !.work = Append(t.work, [node |-> c, rest |-> Controlled(c)])]

\* Mutation: a node already popped counts as on the stack.
Visited(t, c) == t.index[c] # 0

OnStack(t, c) == \E i \in DOMAIN t.stack : t.stack[i] = c

\* One successor of the node on top of the work stack.
Successor(t, c) ==
    LET top == Len(t.work)
        d == CHOOSE d \in t.work[top].rest : TRUE
        u == [t EXCEPT !.work[top].rest = @ \ {d}]
    IN  CASE t.index[d] = 0 -> Visit(u, d)
          [] t.index[d] # 0 /\ OnStack(t, d) ->
                 [u EXCEPT !.low[c] = Smaller(t.low[c], t.index[d])]
          [] OTHER -> u

\* A node fully explored: its component is what lies on the stack from it up.
Component(t, c) ==
    LET at == CHOOSE i \in DOMAIN t.stack : t.stack[i] = c
    IN  IF t.low[c] = t.index[c]
        THEN [t EXCEPT !.out = @ \cup {{t.stack[i] : i \in at .. Len(t.stack)}},
                       !.stack = SubSeq(t.stack, 1, at - 1)]
        ELSE t

Ascend(t, c) ==
    LET work == SubSeq(t.work, 1, Len(t.work) - 1)
        up == work[Len(work)].node
    IN  IF work = <<>> THEN [t EXCEPT !.work = work]
        ELSE [t EXCEPT !.work = work, !.low[up] = Smaller(t.low[up], t.low[c])]

SearchStep(t) ==
    IF t.work = <<>>
    THEN LET roots == {c \in nodes : t.index[c] = 0}
         IN  IF roots = {} THEN t ELSE Visit(t, CHOOSE c \in roots : TRUE)
    ELSE LET c == t.work[Len(t.work)].node
         IN  IF t.work[Len(t.work)].rest # {} THEN Successor(t, c)
             ELSE Ascend(Component(t, c), c)

Components ==
    LET zero == [c \in nodes |-> 0]
        steps == 2 * Cardinality(nodes) + Cardinality({e \in nodes \X nodes : HasControl(e[1], e[2])})
        T[n \in 0 .. steps] ==
            IF n = 0 THEN [index |-> zero, low |-> zero, counter |-> 1, stack |-> <<>>,
                           work |-> <<>>, out |-> {}]
            ELSE SearchStep(T[n - 1])
    IN  T[steps].out

CycleFound ==
    \/ \E comp \in Components : Cardinality(comp) > 1
    \/ \E c \in nodes : HasControl(c, c)

Gate ==
    /\ InStage("gate") /\ Idle
    /\ verdict' = IF CycleFound THEN "cycle" ELSE "dag"
    /\ Exit
    /\ UNCHANGED <<graph, reference, todo, queue, runs, deaths>>

\* scripts/import_sectors.py commits another reference.
ImportSectors ==
    /\ stages = <<>>
    /\ reference' \in References \ {reference}
    /\ UNCHANGED <<graph, script, verdict>>

RunScript ==
    \/ \E s \in Scripts : \E missing, mint \in BOOLEAN : Start(s, missing, mint)
    \/ Open \/ Close \/ Gate

TakeItem ==
    /\ todo # {}
    /\ LET item == NextItem IN
        \/ TakeMember(item) \/ TakeUnidentified(item) \/ TakeUnclassified(item)
        \/ TakeChild(item) \/ TakeRelation(item) \/ TakeTicker(item)
        \/ TakeUnsectored(item)

Write ==
    \/ WriteSeed \/ WriteLei \/ WriteExternal \/ WriteStatus \/ WriteControl
    \/ WriteSubsidiary \/ WriteStake \/ WriteSector

Next == RunScript \/ TakeItem \/ Write \/ Die \/ ImportSectors

Spec == Init /\ [][Next]_vars

-----------------------------------------------------------------------------
\* A company is a subsidiary only of a company that controls it, whatever
\* wrote the two edges and wherever a script died between them
\* (_write_control, _write_controls).
SubsidiaryControlled ==
    \A c, p \in Company : <<c, p>> \in subsidiaryOf => HasControl(p, c)

\* No loader makes a company its own parent: GLEIF compares LEIs and KAP
\* compares nodes, also when two nodes carry one LEI.
NoSelfControl == \A c \in Company : ~HasControl(c, c)

\* S takes in whom c controls, and with a company whom that one controls.
Closed(c, S) == \A b \in S \cup {c}, d \in Company : HasControl(b, d) => d \in S

\* The companies below c in the control graph.
Below(c) == {d \in Company : \A S \in SUBSET Company : Closed(c, S) => d \in S}

\* The gate reports a cycle exactly when some company is below itself
\* (find_controls_cycles, check_no_controls_cycles).
GateExact ==
    verdict # "none" => (verdict = "cycle" <=> \E c \in Company : c \in Below(c))

\* An edge GLEIF reported is never turned into one of KAP's
\* (kap_subsidiary_backfill: "PROVENANCE-PRESERVING").
GleifKept ==
    [][\A p, c \in Company :
         controls[<<p, c>>] \in Gleif => controls'[<<p, c>>] \in Gleif]_vars

\* A sector KAP assigned is never removed or marked as inherited
\* (inherit_sectors: "A KAP-assigned edge is never touched").
KapSectorKept ==
    [][\A c \in Company : \A s \in Sectors :
         inSector[c][s] = "kap-direct" => inSector'[c][s] = "kap-direct"]_vars

\* Every inherited sector is the KAP sector of some company above
\* (inherit_sectors: "every inheritance traces to a real KAP sector"), also
\* when runs of the loaders come between.
InheritedFromAbove ==
    \A c \in Company, s \in Sectors :
        inSector[c][s] = "inherited" =>
            \E p \in Company : inSector[p][s] = "kap-direct" /\ c \in Below(p)
=============================================================================
