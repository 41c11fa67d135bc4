------------------------- MODULE ControlGraphProofs -------------------------
(***************************************************************************)
(* What the loaders keep of the control graph, for any issuers, answers of *)
(* GLEIF, relations and references, and any number of runs and deaths.     *)
(*                                                                         *)
(* The safety properties speak of the graph; the strengthening says what   *)
(* the statements still queued may do to it, and what the maps a stage     *)
(* read still mean.  The verdict of the gate needs the search for strongly *)
(* connected components as well: an invariant of its states, and a count   *)
(* of the steps it takes.                                                  *)
(***************************************************************************)
EXTENDS ControlGraph, FiniteSetTheorems, SequenceTheorems, WellFoundedInduction, TLAPS

\* A SUBSIDIARY_OF statement finds its CONTROLS edge written or queued before it.
Ordered(q) ==
    \A i \in 1 .. Len(q) :
        q[i].op = "subsidiary" =>
            \/ HasControl(q[i].parent, q[i].child)
            \/ \E j \in 1 .. (i - 1) : /\ q[j].op = "control"
                                       /\ q[j].parent = q[i].parent
                                       /\ q[j].child = q[i].child

\* No statement makes a company its own parent; one that may overwrite is GLEIF's.
Proper(q) ==
    \A i \in 1 .. Len(q) :
        q[i].op = "control" => /\ q[i].parent # q[i].child
                               /\ q[i].keep \/ q[i].basis \in Gleif

\* LEIs are written by their stage alone, sectors one at a time.
Staged(q) ==
    \A i \in 1 .. Len(q) :
        /\ q[i].op = "lei" => InStage("lei")
        /\ q[i].op = "sector" =>
               /\ Len(q) = 1 /\ q[i].of \notin todo
               /\ q[i].basis = "inherited" => InStage("inherit") /\ ~HasSector(q[i].of)

\* The node of an external parent carries its own LEI.
ExternalLei == \A l \in Leis : lei[l] \in {None, l}

\* lei2uuid is still right while the Level-2 stage uses it.
UuidsHold ==
    InStage("l2") /\ opened => \A l \in Leis : uuidOf[l] # None => lei[uuidOf[l]] = l

\* The companies still to inherit have no sector yet.
TargetsUnsectored ==
    InStage("inherit") /\ opened => \A c \in todo : ~HasSector(c)

\* Statements are queued by an open stage.
QueuedByOpen == queue # <<>> => opened

GraphInv ==
    /\ TypeOK /\ SubsidiaryControlled /\ NoSelfControl
    /\ Ordered(queue) /\ Proper(queue) /\ Staged(queue)
    /\ QueuedByOpen /\ ExternalLei /\ UuidsHold /\ TargetsUnsectored

-----------------------------------------------------------------------------
(***************************************************************************)
(* Types.                                                                  *)
(***************************************************************************)

\* A stage takes companies or relations.
LEMMA TargetsType ==
    ASSUME TypeOK, NEW s \in StageNames
    PROVE  Targets(s) \subseteq Company \cup Relations
<1>1. CASE s = "seed"
  BY <1>1 DEF Targets, Company
<1>2. CASE s = "lei"
  BY <1>2 DEF Targets, Company, TypeOK
<1>3. CASE s = "l2"
  BY <1>3 DEF Targets, TypeOK
<1>4. CASE s = "classify"
  BY <1>4 DEF Targets, TypeOK
<1>5. CASE s = "subsidiary"
  BY <1>5 DEF Targets
<1>6. CASE s = "sectors"
  BY <1>6 DEF Targets, TypeOK
<1>7. CASE s = "inherit"
  BY <1>7 DEF Targets, Unsectored, TypeOK
<1>8. CASE s = "gate"
  BY <1>8 DEF Targets
<1> QED
  BY <1>1, <1>2, <1>3, <1>4, <1>5, <1>6, <1>7, <1>8 DEF StageNames

\* An item taken leaves the types alone when its statements are statements.
LEMMA TakeType ==
    ASSUME TypeOK, NEW s, NEW item, NEW st \in Seq(Statements),
           Take(s, item, st), todo' \subseteq todo
    PROVE  TypeOK'
<1>1. stages # <<>>
  BY DEF Take, InStage
<1> QED
  BY <1>1 DEF TypeOK, Take, graph

LEMMA TakeOneType ==
    ASSUME TypeOK, NEW s, NEW item, NEW st \in Seq(Statements), TakeOne(s, item, st)
    PROVE  TypeOK'
BY TakeType DEF TakeOne

\* Short sequences.
LEMMA ShortSeqs ==
    ASSUME NEW S
    PROVE  /\ <<>> \in Seq(S)
           /\ \A x \in S : <<x>> \in Seq(S)
           /\ \A x, y \in S : <<x, y>> \in Seq(S)
OBVIOUS

\* Each constructor makes a statement.
LEMMA SingleTypes ==
    /\ \A c \in Issuers : Seed(c) \in Statements
    /\ \A c \in Issuers, l \in Leis : SetLei(c, l) \in Statements
    /\ \A l \in Leis : External(l) \in Statements
    /\ \A c \in Company : SetStatus(c) \in Statements
    /\ \A c \in Company, s \in Sectors, b \in SectorBases : Sector(c, s, b) \in Statements
BY DEF Seed, SetLei, External, SetStatus, Sector, Statements

LEMMA EdgeTypes ==
    ASSUME NEW p \in Company, NEW c \in Company
    PROVE  /\ \A b \in Bases, k \in BOOLEAN : Control(p, c, b, k) \in Statements
           /\ Subsidiary(p, c) \in Statements
           /\ Stake(p, c) \in Statements
BY DEF Control, Subsidiary, Stake, Statements

\* The statements of the GLEIF and KAP stages.
LEMMA ParentType ==
    ASSUME TypeOK, NEW l \in Leis
    PROVE  /\ Parent(l) \in Company \cup {None}
           /\ Mint(l) \in Seq(Statements)
<1>1. Parent(l) \in Company \cup {None}
  BY DEF TypeOK, Parent, Company
<1>2. External(l) \in Statements
  BY SingleTypes
<1> QED
  BY <1>1, <1>2 DEF Mint

LEMMA DirectType ==
    ASSUME TypeOK, NEW c \in Company, NEW a \in Answers
    PROVE  DirectParent(c, a) \in Seq(Statements)
<1>1. CASE a.direct = None \/ a.direct = a.lei
  <2>1. DirectParent(c, a) = <<>>
    BY <1>1 DEF DirectParent
  <2> QED
    BY <2>1, ShortSeqs
<1>2. CASE ~(a.direct = None \/ a.direct = a.lei)
  <2>1. a.direct \in Leis
    BY <1>2, WorldAssumption
  <2>2. Mint(a.direct) \in Seq(Statements) /\ Parent(a.direct) \in Company \cup {None}
    BY <2>1, ParentType
  <2> DEFINE edges == IF Parent(a.direct) = None THEN <<>>
                      ELSE <<Control(Parent(a.direct), c, "direct", FALSE),
                             Subsidiary(Parent(a.direct), c)>>
  <2>3. edges \in Seq(Statements)
    <3>1. CASE Parent(a.direct) = None
      BY <3>1, ShortSeqs
    <3>2. CASE Parent(a.direct) # None
      <4>1. /\ Control(Parent(a.direct), c, "direct", FALSE) \in Statements
            /\ Subsidiary(Parent(a.direct), c) \in Statements
        BY <2>2, <3>2, EdgeTypes DEF Bases, Gleif
      <4> QED
        BY <3>2, <4>1, ShortSeqs
    <3> QED
      BY <3>1, <3>2
  <2> HIDE DEF edges
  <2>4. Mint(a.direct) \o edges \in Seq(Statements)
    BY <2>2, <2>3
  <2> QED
    BY <1>2, <2>4 DEF DirectParent, edges
<1> QED
  BY <1>1, <1>2

LEMMA UltimateType ==
    ASSUME TypeOK, NEW c \in Company, NEW a \in Answers
    PROVE  UltimateParent(c, a) \in Seq(Statements)
<1>1. CASE a.ultimate \in {None, a.lei, a.direct}
  <2>1. UltimateParent(c, a) = <<>>
    BY <1>1 DEF UltimateParent
  <2> QED
    BY <2>1, ShortSeqs
<1>2. CASE a.ultimate \notin {None, a.lei, a.direct}
  <2>1. a.ultimate \in Leis
    BY <1>2, WorldAssumption
  <2>2. Mint(a.ultimate) \in Seq(Statements) /\ Parent(a.ultimate) \in Company \cup {None}
    BY <2>1, ParentType
  <2> DEFINE edges == IF Parent(a.ultimate) = None THEN <<>>
                      ELSE <<Control(Parent(a.ultimate), c, "ultimate", FALSE)>>
  <2>3. edges \in Seq(Statements)
    <3>1. CASE Parent(a.ultimate) = None
      BY <3>1, ShortSeqs
    <3>2. CASE Parent(a.ultimate) # None
      <4>1. Control(Parent(a.ultimate), c, "ultimate", FALSE) \in Statements
        BY <2>2, <3>2, EdgeTypes DEF Bases, Gleif
      <4> QED
        BY <3>2, <4>1, ShortSeqs
    <3> QED
      BY <3>1, <3>2
  <2> HIDE DEF edges
  <2>4. Mint(a.ultimate) \o edges \in Seq(Statements)
    BY <2>2, <2>3
  <2> QED
    BY <1>2, <2>4 DEF UltimateParent, edges
<1> QED
  BY <1>1, <1>2

LEMMA DeclaredType ==
    ASSUME NEW r \in Relations
    PROVE  Declared(r) \in Seq(Statements)
<1>1. r.parent \in Company /\ r.child \in Company
  BY WorldAssumption DEF Company
<1>2. /\ Control(r.parent, r.child, "kap", TRUE) \in Statements
      /\ Subsidiary(r.parent, r.child) \in Statements
      /\ Stake(r.parent, r.child) \in Statements
  BY <1>1, EdgeTypes DEF Bases
<1> DEFINE edges == IF r.kind = "subsidiary"
                    THEN <<Control(r.parent, r.child, "kap", TRUE),
                           Subsidiary(r.parent, r.child)>>
                    ELSE <<>>
           stake == IF r.pct THEN <<Stake(r.parent, r.child)>> ELSE <<>>
<1>3. edges \in Seq(Statements) /\ stake \in Seq(Statements)
  BY <1>2, ShortSeqs
<1> HIDE DEF edges, stake
<1>4. edges \o stake \in Seq(Statements)
  BY <1>3
<1> QED
  BY <1>4 DEF Declared, edges, stake

\* The inheritance takes the sector of a company that has one.
LEMMA NearestIsSectored ==
    ASSUME NEW c, NEW p \in Nearest(c)
    PROVE  p \in Company /\ leafOf[p] # None
BY DEF Nearest

\* An item of any stage keeps the types.
LEMMA TakeItemType ==
    ASSUME TypeOK, TakeItem
    PROVE  TypeOK'
<1> DEFINE item == NextItem
<1>0. item \in todo
  BY DEF TakeItem, NextItem
<1>i. item \in Company \cup Relations
  BY <1>0 DEF TypeOK
<1>s. /\ <<>> \in Seq(Statements)
      /\ \A st \in Statements : <<st>> \in Seq(Statements)
  BY ShortSeqs
<1> HIDE DEF item
<1>1. CASE TakeMember(item)
  <2>1. <<Seed(item)>> \in Seq(Statements)
    BY <1>1, <1>s, SingleTypes DEF TakeMember
  <2> QED
    BY <1>1, <2>1, TakeOneType DEF TakeMember
<1>2. CASE TakeUnidentified(item)
  <2>1. CASE TakeOne("lei", item, <<>>)
    BY <2>1, <1>s, TakeOneType
  <2>2. ASSUME NEW l \in Matches[item], TakeOne("lei", item, <<SetLei(item, l)>>)
        PROVE  TypeOK'
    <3>1. item \in Issuers
      BY <1>2 DEF TakeUnidentified
    <3>2. l \in Leis
      BY <3>1, <2>2, WorldAssumption
    <3>3. <<SetLei(item, l)>> \in Seq(Statements)
      BY <3>1, <3>2, <1>s, SingleTypes
    <3> QED
      BY <2>2, <3>3, TakeOneType
  <2> QED
    BY <1>2, <2>1, <2>2 DEF TakeUnidentified
<1>3. CASE TakeUnclassified(item)
  <2>1. <<SetStatus(item)>> \in Seq(Statements)
    BY <1>3, <1>s, SingleTypes DEF TakeUnclassified
  <2> QED
    BY <1>3, <2>1, TakeOneType DEF TakeUnclassified
<1>4. CASE TakeChild(item)
  <2>1. CASE TakeOne("l2", item, <<>>)
    BY <2>1, <1>s, TakeOneType
  <2>2. ASSUME NEW a \in Answers, item \in Company,
               TakeOne("l2", item, DirectParent(item, a) \o UltimateParent(item, a))
        PROVE  TypeOK'
    <3>1. /\ DirectParent(item, a) \in Seq(Statements)
          /\ UltimateParent(item, a) \in Seq(Statements)
      BY <2>2, DirectType, UltimateType
    <3>2. DirectParent(item, a) \o UltimateParent(item, a) \in Seq(Statements)
      BY <3>1
    <3> QED
      BY <2>2, <3>2, TakeOneType
  <2> QED
    BY <1>4, <2>1, <2>2 DEF TakeChild
<1>5. CASE TakeRelation(item)
  <2>1. item \in Relations
    BY <1>5 DEF TakeRelation
  <2>2. CASE Resolved(item)
    <3>1. Take("subsidiary", item, Declared(item)) /\ todo' \subseteq todo
      BY <1>5, <2>2 DEF TakeRelation
    <3>2. Declared(item) \in Seq(Statements)
      BY <2>1, DeclaredType
    <3> QED
      BY <3>1, <3>2, TakeType
  <2>3. CASE ~Resolved(item)
    BY <1>5, <2>3, <1>s, TakeOneType DEF TakeRelation
  <2> QED
    BY <2>2, <2>3
<1>6. CASE TakeTicker(item)
  <2>1. item \in Issuers /\ item \in Company
    BY <1>6 DEF TakeTicker, Company
  <2>2. reference[item] \in Sectors \cup {None}
    BY <2>1, WorldAssumption DEF TypeOK
  <2> DEFINE st == IF reference[item] = None THEN <<>>
                   ELSE <<Sector(item, reference[item], "kap-direct")>>
  <2>3. st \in Seq(Statements)
    <3>1. reference[item] # None =>
            Sector(item, reference[item], "kap-direct") \in Statements
      BY <2>1, <2>2, SingleTypes DEF SectorBases
    <3> QED
      BY <3>1, <1>s
  <2>4. TakeOne("sectors", item, st)
    BY <1>6 DEF TakeTicker
  <2> QED
    BY <2>3, <2>4, TakeOneType
<1>7. CASE TakeUnsectored(item)
  <2>1. CASE TakeOne("inherit", item, <<>>)
    BY <2>1, <1>s, TakeOneType
  <2>2. ASSUME NEW p \in Nearest(item), item \in Company,
               TakeOne("inherit", item, <<Sector(item, leafOf[p], "inherited")>>)
        PROVE  TypeOK'
    <3>1. leafOf[p] # None /\ leafOf[p] \in Sectors
      <4>1. p \in Company /\ leafOf[p] # None
        BY <2>2, NearestIsSectored
      <4> QED
        BY <4>1 DEF TypeOK
    <3>2. <<Sector(item, leafOf[p], "inherited")>> \in Seq(Statements)
      BY <2>2, <3>1, <1>s, SingleTypes DEF SectorBases
    <3> QED
      BY <2>2, <3>2, TakeOneType
  <2> QED
    BY <1>7, <2>1, <2>2 DEF TakeUnsectored
<1> QED
  BY <1>1, <1>2, <1>3, <1>4, <1>5, <1>6, <1>7 DEF TakeItem, item

\* What a statement of each kind names.
LEMMA StatementFields ==
    ASSUME NEW s \in Statements
    PROVE  /\ s.op \in {"seed", "lei", "external", "status", "control", "subsidiary",
                        "stake", "sector"}
           /\ s.op = "seed" => s.of \in Issuers
           /\ s.op = "lei" => s.of \in Issuers /\ s.lei \in Leis
           /\ s.op = "external" => s.of \in Leis
           /\ s.op = "status" => s.of \in Company
           /\ s.op = "control" => /\ s.parent \in Company /\ s.child \in Company
                                  /\ s.basis \in Bases /\ s.keep \in BOOLEAN
           /\ s.op \in {"subsidiary", "stake"} => s.parent \in Company /\ s.child \in Company
           /\ s.op = "sector" => /\ s.of \in Company /\ s.leaf \in Sectors
                                 /\ s.basis \in SectorBases
BY DEF Statements

\* The statement at the head is one, and the rest of the queue a queue.
LEMMA HeadAndTail ==
    ASSUME TypeOK, queue # <<>>
    PROVE  /\ Head(queue) \in Statements /\ Head(queue) = queue[1]
           /\ Tail(queue) \in Seq(Statements) /\ Len(queue) \in Nat \ {0}
           /\ Len(Tail(queue)) = Len(queue) - 1
           /\ \A i \in 1 .. Len(Tail(queue)) : Tail(queue)[i] = queue[i + 1]
BY DEF TypeOK

\* Every statement keeps the types.
LEMMA WriteType ==
    ASSUME TypeOK, Write
    PROVE  TypeOK'
<1> DEFINE s == Head(queue)
<1>0. queue # <<>>
  BY DEF Write, WriteSeed, WriteLei, WriteExternal, WriteStatus, WriteControl,
         WriteSubsidiary, WriteStake, WriteSector, Next1
<1>1. s \in Statements /\ Tail(queue) \in Seq(Statements)
  BY <1>0, HeadAndTail
<1>2. stages # <<>>
  BY <1>0 DEF TypeOK
<1> HIDE DEF s
<1>3. CASE WriteSeed
  <2>1. s.of \in Company
    BY <1>1, <1>3, StatementFields DEF WriteSeed, Next1, s, Company
  <2> QED
    BY <1>1, <1>2, <1>3, <2>1 DEF WriteSeed, Next1, TypeOK, s
<1>4. CASE WriteLei
  <2>1. s.of \in Company /\ s.lei \in Leis
    BY <1>1, <1>4, StatementFields DEF WriteLei, Next1, s, Company
  <2> QED
    BY <1>1, <1>2, <1>4, <2>1 DEF WriteLei, Next1, TypeOK, s
<1>5. CASE WriteExternal
  <2>1. s.of \in Company /\ s.of \in Leis
    BY <1>1, <1>5, StatementFields DEF WriteExternal, Next1, s, Company
  <2> QED
    BY <1>1, <1>2, <1>5, <2>1 DEF WriteExternal, Next1, TypeOK, s
<1>6. CASE WriteStatus
  <2>1. s.of \in Company
    BY <1>1, <1>6, StatementFields DEF WriteStatus, Next1, s
  <2> QED
    BY <1>1, <1>2, <1>6, <2>1 DEF WriteStatus, Next1, TypeOK, s
<1>7. CASE WriteControl
  <2>1. s.parent \in Company /\ s.child \in Company /\ s.basis \in Bases
    BY <1>1, <1>7, StatementFields DEF WriteControl, Next1, s
  <2>2. controls' \in [Company \X Company -> Bases \cup {"absent"}]
    BY <1>7, <2>1 DEF WriteControl, TypeOK, s
  <2> QED
    BY <1>1, <1>2, <1>7, <2>2 DEF WriteControl, Next1, TypeOK, s
<1>8. CASE WriteSubsidiary
  <2>1. s.parent \in Company /\ s.child \in Company
    BY <1>1, <1>8, StatementFields DEF WriteSubsidiary, Next1, s
  <2> QED
    BY <1>1, <1>2, <1>8, <2>1 DEF WriteSubsidiary, Next1, TypeOK, s
<1>9. CASE WriteStake
  <2>1. s.parent \in Company /\ s.child \in Company
    BY <1>1, <1>9, StatementFields DEF WriteStake, Next1, s
  <2> QED
    BY <1>1, <1>2, <1>9, <2>1 DEF WriteStake, Next1, TypeOK, s
<1>10. CASE WriteSector
  <2>1. s.of \in Company /\ s.leaf \in Sectors /\ s.basis \in SectorBases
    BY <1>1, <1>10, StatementFields DEF WriteSector, Next1, s
  <2>2. inSector' \in [Company -> [Sectors -> SectorBases \cup {"absent"}]]
    BY <1>10, <2>1 DEF WriteSector, TypeOK, s
  <2> QED
    BY <1>1, <1>2, <1>10, <2>2 DEF WriteSector, Next1, TypeOK, s
<1> QED
  BY <1>3, <1>4, <1>5, <1>6, <1>7, <1>8, <1>9, <1>10 DEF Write

\* The maps of a process that is gone are empty.
LEMMA ForgetType ==
    ASSUME Forget
    PROVE  opened' \in BOOLEAN /\ uuidOf' \in [Leis -> Company \cup {None}]
           /\ leafOf' \in [Company -> Sectors \cup {None}]
BY DEF Forget, NoUuids, NoLeaves

\* A script is a list of stages.
LEMMA ScriptsType ==
    ASSUME NEW s \in Scripts
    PROVE  s \in Seq(StageNames) /\ s # <<>>
<1>1. /\ "seed" \in StageNames /\ "lei" \in StageNames /\ "l2" \in StageNames
      /\ "classify" \in StageNames /\ "subsidiary" \in StageNames
      /\ "gate" \in StageNames /\ "sectors" \in StageNames
      /\ "inherit" \in StageNames
  BY DEF StageNames
<1>2. CASE s = <<"seed">>
  BY <1>1, <1>2
<1>3. CASE s = <<"lei", "gate">>
  BY <1>1, <1>3
<1>4. CASE s = <<"l2", "gate">>
  BY <1>1, <1>4
<1>5. CASE s = <<"classify", "gate">>
  BY <1>1, <1>5
<1>6. CASE s = <<"subsidiary", "gate">>
  BY <1>1, <1>6
<1>7. CASE s = <<"subsidiary">>
  BY <1>1, <1>7
<1>8. CASE s = <<"lei", "l2", "classify", "subsidiary", "gate">>
  BY <1>1, <1>8
<1>9. CASE s = <<"sectors", "inherit">>
  BY <1>1, <1>9
<1> QED
  BY <1>2, <1>3, <1>4, <1>5, <1>6, <1>7, <1>8, <1>9 DEF Scripts

\* Starting, opening, closing, the gate and death keep the types.
LEMMA ScriptType ==
    ASSUME TypeOK, RunScript \/ Die \/ ImportSectors
    PROVE  TypeOK'
<1>1. ASSUME NEW s \in Scripts, NEW missing \in BOOLEAN, NEW mint \in BOOLEAN,
             Start(s, missing, mint)
      PROVE  TypeOK'
  <2>1. s \in Seq(StageNames) /\ s # <<>>
    BY ScriptsType
  <2>2. stages' \in Seq(StageNames) /\ stages' # <<>>
    BY <1>1, <2>1 DEF Start
  <2>3. runs' \in Nat
    BY <1>1 DEF Start, TypeOK
  <2>4. opened' \in BOOLEAN /\ onlyMissing' \in BOOLEAN /\ create' \in BOOLEAN
    BY <1>1 DEF Start
  <2> QED
    BY <1>1, <2>2, <2>3, <2>4 DEF Start, TypeOK, graph
<1>2. CASE Open
  <2>1. Head(stages) \in StageNames
    BY <1>2 DEF Open, TypeOK
  <2>2. todo' \subseteq Company \cup Relations
    BY <1>2, <2>1, TargetsType DEF Open
  <2>3. uuidOf' \in [Leis -> Company \cup {None}]
    BY <1>2 DEF Open, TypeOK, UuidMaps
  <2>4. leafOf' \in [Company -> Sectors \cup {None}]
    BY <1>2 DEF Open, TypeOK, LeafMaps
  <2> QED
    BY <1>2, <2>2, <2>3, <2>4 DEF Open, TypeOK, graph
<1>3. CASE Close
  <2>1. Tail(stages) \in Seq(StageNames)
    BY <1>3 DEF Close, TypeOK
  <2>2. /\ stages' \in Seq(StageNames) /\ onlyMissing' \in BOOLEAN /\ create' \in BOOLEAN
        /\ Forget
    BY <1>3, <2>1 DEF Close, Exit, TypeOK
  <2>3. todo' = {} /\ queue' = <<>>
    BY <1>3 DEF Close, Idle
  <2> QED
    BY <1>3, <2>2, <2>3, ForgetType DEF Close, TypeOK, graph
<1>4. CASE Gate
  <2>1. stages' \in Seq(StageNames) /\ onlyMissing' \in BOOLEAN /\ create' \in BOOLEAN
    BY <1>4, ShortSeqs DEF Gate, Exit
  <2>2. verdict' \in {"none", "dag", "cycle"} /\ Forget
    BY <1>4 DEF Gate, Exit
  <2>3. todo' = {} /\ queue' = <<>> /\ UNCHANGED <<graph, reference, runs, deaths, queue>>
    BY <1>4 DEF Gate, Idle
  <2> QED
    BY <2>1, <2>2, <2>3, ForgetType DEF TypeOK, graph
<1>5. CASE Die
  <2>1. stages' \in Seq(StageNames) /\ queue' \in Seq(Statements)
    BY <1>5, ShortSeqs DEF Die, Exit
  <2>2. Forget /\ todo' = {} /\ queue' = <<>> /\ UNCHANGED <<graph, reference, runs, verdict>>
    BY <1>5 DEF Die, Exit
  <2>3. /\ onlyMissing' \in BOOLEAN /\ create' \in BOOLEAN
        /\ deaths' = deaths + 1 /\ deaths \in Nat
    BY <1>5 DEF Die, Exit, TypeOK
  <2>4. verdict' \in {"none", "dag", "cycle"} /\ runs' \in Nat /\ reference' \in References
    BY <2>2 DEF TypeOK
  <2>5. UNCHANGED <<nodes, lei, status, controls, subsidiaryOf, stakes, inSector>>
    BY <2>2 DEF graph
  <2> QED
    BY <2>1, <2>2, <2>3, <2>4, <2>5, ForgetType DEF TypeOK
<1>6. CASE ImportSectors
  <2>1. reference' \in References
    BY <1>6 DEF ImportSectors
  <2>2. UNCHANGED graph /\ UNCHANGED script /\ UNCHANGED verdict
    BY <1>6 DEF ImportSectors
  <2> QED
    BY <2>1, <2>2 DEF TypeOK, graph, script
<1> QED
  BY <1>1, <1>2, <1>3, <1>4, <1>5, <1>6 DEF RunScript

\* The types are inductive.
LEMMA TypeStep ==
    ASSUME TypeOK, [Next]_vars
    PROVE  TypeOK'
<1>1. CASE UNCHANGED vars
  BY <1>1 DEF vars, graph, script, TypeOK
<1> QED
  BY <1>1, TakeItemType, WriteType, ScriptType DEF Next

LEMMA TypeInit ==
    ASSUME Init
    PROVE  TypeOK
<1>1. stages \in Seq(StageNames) /\ queue \in Seq(Statements)
  BY ShortSeqs DEF Init
<1>2. /\ lei \in [Company -> Leis \cup {None}]
      /\ controls \in [Company \X Company -> Bases \cup {"absent"}]
      /\ inSector \in [Company -> [Sectors -> SectorBases \cup {"absent"}]]
      /\ uuidOf \in [Leis -> Company \cup {None}]
      /\ leafOf \in [Company -> Sectors \cup {None}]
  BY DEF Init, NoUuids, NoLeaves
<1> QED
  BY <1>1, <1>2 DEF Init, TypeOK

-----------------------------------------------------------------------------
(***************************************************************************)
(* What an item puts in the queue.                                         *)
(***************************************************************************)

\* Statements that write neither an LEI of the LEI stage nor a sector.
Edges(q) == \A i \in 1 .. Len(q) : q[i].op \notin {"lei", "sector"}

Careful(q) == q \in Seq(Statements) /\ Ordered(q) /\ Proper(q) /\ Edges(q)

LEMMA CarefulEmpty == Careful(<<>>)
BY ShortSeqs DEF Careful, Ordered, Proper, Edges

\* Careful parts make a careful queue.
LEMMA CarefulConcat ==
    ASSUME NEW q, NEW r, Careful(q), Careful(r)
    PROVE  Careful(q \o r)
<1> DEFINE s == q \o r
<1>1. /\ s \in Seq(Statements) /\ Len(s) = Len(q) + Len(r)
      /\ Len(q) \in Nat /\ Len(r) \in Nat
      /\ \A i \in 1 .. Len(q) : s[i] = q[i]
      /\ \A i \in 1 .. Len(r) : s[i + Len(q)] = r[i]
  BY DEF Careful
<1> HIDE DEF s
<1>2. ASSUME NEW i \in 1 .. Len(s)
      PROVE  /\ s[i].op = "subsidiary" =>
                   \/ HasControl(s[i].parent, s[i].child)
                   \/ \E j \in 1 .. (i - 1) : /\ s[j].op = "control"
                                              /\ s[j].parent = s[i].parent
                                              /\ s[j].child = s[i].child
             /\ s[i].op = "control" => /\ s[i].parent # s[i].child
                                       /\ s[i].keep \/ s[i].basis \in Gleif
             /\ s[i].op \notin {"lei", "sector"}
  <2>1. CASE i <= Len(q)
    <3>1. i \in 1 .. Len(q) /\ s[i] = q[i] /\ \A j \in 1 .. (i - 1) : s[j] = q[j]
      BY <1>1, <1>2, <2>1
    <3> QED
      BY <3>1 DEF Careful, Ordered, Proper, Edges
  <2>2. CASE i > Len(q)
    <3> DEFINE k == i - Len(q)
    <3>1. k \in 1 .. Len(r) /\ s[i] = r[k] /\ k + Len(q) = i
      BY <1>1, <1>2, <2>2
    <3>2. ASSUME NEW j \in 1 .. (k - 1)
          PROVE  j + Len(q) \in 1 .. (i - 1) /\ s[j + Len(q)] = r[j]
      <4>1. j \in 1 .. Len(r)
        BY <1>1, <3>1
      <4> QED
        BY <1>1, <3>1, <4>1
    <3> HIDE DEF k
    <3>3. /\ s[i].op = "control" => /\ s[i].parent # s[i].child
                                    /\ s[i].keep \/ s[i].basis \in Gleif
          /\ s[i].op \notin {"lei", "sector"}
      BY <3>1 DEF Careful, Proper, Edges
    <3>4. ASSUME s[i].op = "subsidiary", ~HasControl(s[i].parent, s[i].child)
          PROVE  \E j \in 1 .. (i - 1) : /\ s[j].op = "control"
                                         /\ s[j].parent = s[i].parent
                                         /\ s[j].child = s[i].child
      <4>1. PICK j \in 1 .. (k - 1) : /\ r[j].op = "control"
                                      /\ r[j].parent = r[k].parent
                                      /\ r[j].child = r[k].child
        BY <3>1, <3>4 DEF Careful, Ordered
      <4> QED
        BY <3>1, <3>2, <4>1
    <3>5. s[i].op = "subsidiary" =>
            \/ HasControl(s[i].parent, s[i].child)
            \/ \E j \in 1 .. (i - 1) : /\ s[j].op = "control"
                                       /\ s[j].parent = s[i].parent
                                       /\ s[j].child = s[i].child
      BY <3>4
    <3> QED
      BY <3>3, <3>5
  <2> QED
    BY <1>1, <1>2, <2>1, <2>2
<1> QED
  BY <1>1, <1>2 DEF Careful, Ordered, Proper, Edges, s

\* One statement that writes no edge and no sector.
LEMMA CarefulNode ==
    ASSUME NEW x \in Statements, x.op \in {"seed", "external", "status", "stake"}
    PROVE  Careful(<<x>>)
<1>1. <<x>> \in Seq(Statements) /\ Len(<<x>>) = 1 /\ \A i \in 1 .. 1 : <<x>>[i] = x
  BY ShortSeqs
<1> QED
  BY <1>1 DEF Careful, Ordered, Proper, Edges

\* A control edge between two companies.
LEMMA CarefulControl ==
    ASSUME NEW p \in Company, NEW c \in Company, p # c, NEW b \in Bases,
           NEW k \in BOOLEAN, k \/ b \in Gleif
    PROVE  /\ Careful(<<Control(p, c, b, k)>>)
           /\ Careful(<<Control(p, c, b, k), Subsidiary(p, c)>>)
<1> DEFINE x == Control(p, c, b, k)
           y == Subsidiary(p, c)
<1>1. /\ x \in Statements /\ x.op = "control" /\ x.parent = p /\ x.child = c
      /\ x.keep = k /\ x.basis = b
  BY EdgeTypes DEF Control
<1>2. y \in Statements /\ y.op = "subsidiary" /\ y.parent = p /\ y.child = c
  BY EdgeTypes DEF Subsidiary
<1> HIDE DEF x, y
<1>3. Careful(<<x>>)
  <2>1. <<x>> \in Seq(Statements) /\ Len(<<x>>) = 1 /\ \A i \in 1 .. 1 : <<x>>[i] = x
    BY <1>1, ShortSeqs
  <2> QED
    BY <1>1, <2>1 DEF Careful, Ordered, Proper, Edges
<1>4. Careful(<<x, y>>)
  <2> DEFINE q == <<x, y>>
  <2>1. q \in Seq(Statements) /\ Len(q) = 2 /\ q[1] = x /\ q[2] = y
    BY <1>1, <1>2, ShortSeqs
  <2>2. \A i \in 1 .. 2 : i = 1 \/ i = 2
    OBVIOUS
  <2> HIDE DEF q
  <2>3. Ordered(q)
    <3>1. \A i \in 1 .. 2 : q[i].op = "subsidiary" => i = 2 /\ 1 \in 1 .. (i - 1)
      BY <1>1, <2>1, <2>2
    <3> QED
      BY <1>1, <1>2, <2>1, <3>1 DEF Ordered
  <2>4. Proper(q) /\ Edges(q)
    BY <1>1, <1>2, <2>1, <2>2 DEF Proper, Edges
  <2> QED
    BY <2>1, <2>3, <2>4 DEF Careful, q
<1> QED
  BY <1>3, <1>4 DEF x, y

\* The node of an external parent the stage may mint.
LEMMA CarefulMint ==
    ASSUME TypeOK, NEW l \in Leis
    PROVE  Careful(Mint(l))
<1>1. External(l) \in Statements /\ External(l).op = "external"
  BY SingleTypes DEF External
<1>2. Careful(<<External(l)>>)
  BY <1>1, CarefulNode
<1> QED
  BY <1>2, CarefulEmpty DEF Mint

\* A parent reported under another LEI is another company.
LEMMA ParentIsOther ==
    ASSUME GraphInv, InStage("l2"), opened, NEW c \in Company, NEW l \in Leis,
           lei[c] \in Leis, lei[c] # l, Parent(l) # None
    PROVE  Parent(l) # c
<1>1. CASE uuidOf[l] # None
  <2>1. lei[uuidOf[l]] = l
    BY <1>1 DEF GraphInv, UuidsHold
  <2> QED
    BY <1>1, <2>1 DEF Parent
<1>2. CASE uuidOf[l] = None
  <2>1. Parent(l) = l
    BY <1>2 DEF Parent
  <2>2. None \notin Leis
    BY NamesAssumption DEF Company
  <2> QED
    BY <2>1, <2>2 DEF GraphInv, ExternalLei
<1> QED
  BY <1>1, <1>2

\* GLEIF's answer for a company writes no edge of it to itself.
LEMMA CarefulParents ==
    ASSUME GraphInv, InStage("l2"), opened, NEW c \in Company, NEW a \in Answers,
           a.lei = lei[c]
    PROVE  Careful(DirectParent(c, a) \o UltimateParent(c, a))
<1>0. TypeOK /\ lei[c] \in Leis
  BY WorldAssumption DEF GraphInv
<1>1. Careful(DirectParent(c, a))
  <2>1. CASE a.direct = None \/ a.direct = a.lei
    BY <2>1, CarefulEmpty DEF DirectParent
  <2>2. CASE ~(a.direct = None \/ a.direct = a.lei)
    <3> DEFINE p == Parent(a.direct)
               edges == IF p = None THEN <<>>
                        ELSE <<Control(p, c, "direct", FALSE), Subsidiary(p, c)>>
    <3>1. a.direct \in Leis /\ a.direct # lei[c]
      BY <2>2, WorldAssumption
    <3>2. Careful(edges)
      <4>1. CASE p = None
        BY <4>1, CarefulEmpty
      <4>2. CASE p # None
        <5>1. p \in Company /\ p # c
          BY <1>0, <3>1, <4>2, ParentType, ParentIsOther
        <5>2. Careful(<<Control(p, c, "direct", FALSE), Subsidiary(p, c)>>)
          BY <5>1, CarefulControl DEF Bases, Gleif
        <5> QED
          BY <4>2, <5>2
      <4> QED
        BY <4>1, <4>2
    <3>3. Careful(Mint(a.direct))
      BY <1>0, <3>1, CarefulMint
    <3>4. DirectParent(c, a) = Mint(a.direct) \o edges
      BY <2>2 DEF DirectParent
    <3> HIDE DEF edges
    <3> QED
      BY <3>2, <3>3, <3>4, CarefulConcat
  <2> QED
    BY <2>1, <2>2
<1>2. Careful(UltimateParent(c, a))
  <2>1. CASE a.ultimate \in {None, a.lei, a.direct}
    BY <2>1, CarefulEmpty DEF UltimateParent
  <2>2. CASE a.ultimate \notin {None, a.lei, a.direct}
    <3> DEFINE p == Parent(a.ultimate)
               edges == IF p = None THEN <<>>
                        ELSE <<Control(p, c, "ultimate", FALSE)>>
    <3>1. a.ultimate \in Leis /\ a.ultimate # lei[c]
      BY <2>2, WorldAssumption
    <3>2. Careful(edges)
      <4>1. CASE p = None
        BY <4>1, CarefulEmpty
      <4>2. CASE p # None
        <5>1. p \in Company /\ p # c
          BY <1>0, <3>1, <4>2, ParentType, ParentIsOther
        <5>2. Careful(<<Control(p, c, "ultimate", FALSE)>>)
          BY <5>1, CarefulControl DEF Bases, Gleif
        <5> QED
          BY <4>2, <5>2
      <4> QED
        BY <4>1, <4>2
    <3>3. Careful(Mint(a.ultimate))
      BY <1>0, <3>1, CarefulMint
    <3>4. UltimateParent(c, a) = Mint(a.ultimate) \o edges
      BY <2>2 DEF UltimateParent
    <3> HIDE DEF edges
    <3> QED
      BY <3>2, <3>3, <3>4, CarefulConcat
  <2> QED
    BY <2>1, <2>2
<1> QED
  BY <1>1, <1>2, CarefulConcat

\* A resolved relation writes no edge of a company to itself.
LEMMA CarefulDeclared ==
    ASSUME NEW r \in Relations, Resolved(r)
    PROVE  Careful(Declared(r))
<1>1. r.parent \in Company /\ r.child \in Company /\ r.parent # r.child
  BY WorldAssumption DEF Company, Resolved
<1> DEFINE edges == IF r.kind = "subsidiary"
                    THEN <<Control(r.parent, r.child, "kap", TRUE),
                           Subsidiary(r.parent, r.child)>>
                    ELSE <<>>
           stake == IF r.pct THEN <<Stake(r.parent, r.child)>> ELSE <<>>
<1>2. Careful(edges)
  <2>1. Careful(<<Control(r.parent, r.child, "kap", TRUE), Subsidiary(r.parent, r.child)>>)
    BY <1>1, CarefulControl DEF Bases
  <2> QED
    BY <2>1, CarefulEmpty
<1>3. Careful(stake)
  <2>1. Stake(r.parent, r.child) \in Statements /\ Stake(r.parent, r.child).op = "stake"
    BY <1>1, EdgeTypes DEF Stake
  <2>2. Careful(<<Stake(r.parent, r.child)>>)
    BY <2>1, CarefulNode
  <2> QED
    BY <2>2, CarefulEmpty
<1>4. Declared(r) = edges \o stake
  BY DEF Declared
<1> HIDE DEF edges, stake
<1> QED
  BY <1>2, <1>3, <1>4, CarefulConcat

-----------------------------------------------------------------------------
(***************************************************************************)
(* The strengthening is inductive.                                         *)
(***************************************************************************)

\* What the invariant asks apart from the queue holds after an item is taken.
LEMMA TakeKeeps ==
    ASSUME GraphInv, NEW s, NEW item, NEW st, Take(s, item, st), todo' \subseteq todo,
           TypeOK', Ordered(st), Proper(st), Staged(queue)'
    PROVE  GraphInv'
<1>1. /\ UNCHANGED <<controls, subsidiaryOf, lei, inSector, stages, opened, uuidOf>>
      /\ queue' = st
  BY DEF Take, graph
<1>2. SubsidiaryControlled' /\ NoSelfControl'
  BY <1>1 DEF GraphInv, SubsidiaryControlled, NoSelfControl, HasControl
<1>3. Ordered(queue)'
  BY <1>1 DEF Ordered, HasControl
<1>4. Proper(queue)'
  BY <1>1 DEF Proper
<1>5. ExternalLei' /\ UuidsHold'
  BY <1>1 DEF GraphInv, ExternalLei, UuidsHold, InStage
<1>6. TargetsUnsectored'
  BY <1>1 DEF GraphInv, TargetsUnsectored, InStage, HasSector
<1>7. QueuedByOpen'
  BY DEF Take, QueuedByOpen
<1> QED
  BY <1>2, <1>3, <1>4, <1>5, <1>6, <1>7 DEF GraphInv

LEMMA CarefulKeeps ==
    ASSUME GraphInv, NEW s, NEW item, NEW st, Take(s, item, st), todo' \subseteq todo,
           TypeOK', Careful(st)
    PROVE  GraphInv'
<1>1. Ordered(st) /\ Proper(st) /\ queue' = st
  BY DEF Careful, Take
<1>2. Staged(queue)'
  BY <1>1 DEF Staged, Careful, Edges
<1> QED
  BY <1>1, <1>2, TakeKeeps

\* One statement that writes an LEI or a sector.
LEMMA SingleQueue ==
    ASSUME NEW x \in Statements, x.op \in {"lei", "sector"}
    PROVE  /\ Ordered(<<x>>) /\ Proper(<<x>>)
           /\ Len(<<x>>) = 1 /\ \A i \in 1 .. 1 : <<x>>[i] = x
<1>1. Len(<<x>>) = 1 /\ \A i \in 1 .. 1 : <<x>>[i] = x
  OBVIOUS
<1> QED
  BY <1>1 DEF Ordered, Proper

\* Taking an item keeps the invariant.
LEMMA TakeItemKeeps ==
    ASSUME GraphInv, TakeItem
    PROVE  GraphInv'
<1>p. PICK item : item = NextItem
  OBVIOUS
<1>0. TypeOK /\ TypeOK'
  BY TakeItemType DEF GraphInv
<1>t. item \in todo
  BY <1>p DEF TakeItem, NextItem
<1>1. ASSUME NEW s, NEW st, TakeOne(s, item, st), Careful(st)
      PROVE  GraphInv'
  BY <1>0, <1>1, CarefulKeeps DEF TakeOne
<1>2. CASE TakeMember(item)
  <2>1. Seed(item) \in Statements /\ Seed(item).op = "seed"
    BY <1>2, SingleTypes DEF TakeMember, Seed
  <2> QED
    BY <1>1, <1>2, <2>1, CarefulNode DEF TakeMember
<1>3. CASE TakeUnidentified(item)
  <2>1. CASE TakeOne("lei", item, <<>>)
    BY <1>1, <2>1, CarefulEmpty
  <2>2. ASSUME NEW l \in Matches[item], TakeOne("lei", item, <<SetLei(item, l)>>)
        PROVE  GraphInv'
    <3> DEFINE x == SetLei(item, l)
    <3>1. item \in Issuers /\ l \in Leis
      BY <1>3, <2>2, WorldAssumption DEF TakeUnidentified
    <3>2. x \in Statements /\ x.op = "lei"
      BY <3>1, SingleTypes DEF SetLei
    <3>3. /\ Take("lei", item, <<x>>) /\ todo' \subseteq todo
          /\ queue' = <<x>> /\ InStage("lei")'
      BY <2>2 DEF TakeOne, Take, InStage
    <3> HIDE DEF x
    <3>4. Staged(queue)'
      BY <3>2, <3>3, SingleQueue DEF Staged
    <3> QED
      BY <1>0, <3>2, <3>3, <3>4, SingleQueue, TakeKeeps
  <2> QED
    BY <1>3, <2>1, <2>2 DEF TakeUnidentified
<1>4. CASE TakeUnclassified(item)
  <2>1. SetStatus(item) \in Statements /\ SetStatus(item).op = "status"
    BY <1>4, SingleTypes DEF TakeUnclassified, SetStatus
  <2> QED
    BY <1>1, <1>4, <2>1, CarefulNode DEF TakeUnclassified
<1>5. CASE TakeChild(item)
  <2>1. CASE TakeOne("l2", item, <<>>)
    BY <1>1, <2>1, CarefulEmpty
  <2>2. ASSUME NEW a \in Answers, item \in Company, a.lei = lei[item],
               TakeOne("l2", item, DirectParent(item, a) \o UltimateParent(item, a))
        PROVE  GraphInv'
    <3>1. InStage("l2") /\ opened
      BY <2>2 DEF TakeOne, Take
    <3> QED
      BY <1>1, <2>2, <3>1, CarefulParents
  <2> QED
    BY <1>5, <2>1, <2>2 DEF TakeChild
<1>6. CASE TakeRelation(item)
  <2>1. CASE Resolved(item)
    <3>1. Take("subsidiary", item, Declared(item)) /\ todo' \subseteq todo
      BY <1>6, <2>1 DEF TakeRelation
    <3>2. Careful(Declared(item))
      BY <1>6, <2>1, CarefulDeclared DEF TakeRelation
    <3> QED
      BY <1>0, <3>1, <3>2, CarefulKeeps
  <2>2. CASE ~Resolved(item)
    BY <1>1, <1>6, <2>2, CarefulEmpty DEF TakeRelation
  <2> QED
    BY <2>1, <2>2
<1>7. CASE TakeTicker(item)
  <2>1. CASE reference[item] = None
    BY <1>1, <1>7, <2>1, CarefulEmpty DEF TakeTicker
  <2>2. CASE reference[item] # None
    <3> DEFINE x == Sector(item, reference[item], "kap-direct")
    <3>1. item \in Company /\ reference[item] \in Sectors
      BY <1>0, <1>7, <2>2, WorldAssumption DEF TakeTicker, TypeOK, Company
    <3>2. /\ x \in Statements /\ x.op = "sector" /\ x.of = item
          /\ x.basis = "kap-direct"
      BY <3>1, SingleTypes DEF Sector, SectorBases
    <3>3. /\ Take("sectors", item, <<x>>) /\ todo' \subseteq todo
          /\ queue' = <<x>> /\ item \notin todo'
      BY <1>7, <2>2 DEF TakeTicker, TakeOne, Take
    <3> HIDE DEF x
    <3>4. Staged(queue)'
      BY <3>2, <3>3, SingleQueue DEF Staged
    <3> QED
      BY <1>0, <3>2, <3>3, <3>4, SingleQueue, TakeKeeps
  <2> QED
    BY <2>1, <2>2
<1>8. CASE TakeUnsectored(item)
  <2>1. CASE TakeOne("inherit", item, <<>>)
    BY <1>1, <2>1, CarefulEmpty
  <2>2. ASSUME NEW p \in Nearest(item), item \in Company,
               TakeOne("inherit", item, <<Sector(item, leafOf[p], "inherited")>>)
        PROVE  GraphInv'
    <3> DEFINE x == Sector(item, leafOf[p], "inherited")
    <3>1. p \in Company /\ leafOf[p] # None
      BY <2>2, NearestIsSectored
    <3>2. leafOf[p] \in Sectors
      BY <1>0, <3>1 DEF TypeOK
    <3>3. /\ x \in Statements /\ x.op = "sector" /\ x.of = item
          /\ x.basis = "inherited"
      BY <2>2, <3>2, SingleTypes DEF Sector, SectorBases
    <3>4. /\ Take("inherit", item, <<x>>) /\ todo' \subseteq todo
          /\ queue' = <<x>> /\ item \notin todo' /\ InStage("inherit") /\ opened
          /\ UNCHANGED inSector /\ InStage("inherit")'
      BY <2>2 DEF TakeOne, Take, InStage, graph
    <3>5. ~HasSector(item)
      BY <1>t, <3>4 DEF GraphInv, TargetsUnsectored
    <3>6. ~HasSector(item)'
      BY <3>4, <3>5 DEF HasSector
    <3> HIDE DEF x
    <3>7. Staged(queue)'
      BY <3>3, <3>4, <3>6, SingleQueue DEF Staged
    <3> QED
      BY <1>0, <3>3, <3>4, <3>7, SingleQueue, TakeKeeps
  <2> QED
    BY <1>8, <2>1, <2>2 DEF TakeUnsectored
<1> QED
  BY <1>p, <1>2, <1>3, <1>4, <1>5, <1>6, <1>7, <1>8 DEF TakeItem

\* The statements left are still right after the head is written.
LEMMA TailKeeps ==
    ASSUME GraphInv, queue # <<>>, queue' = Tail(queue),
           \A p, c \in Company : HasControl(p, c) => HasControl(p, c)',
           Head(queue).op = "control" =>
               controls'[<<Head(queue).parent, Head(queue).child>>] # "absent",
           UNCHANGED <<stages, todo>>
    PROVE  Ordered(queue)' /\ Proper(queue)' /\ Staged(queue)'
<1>p. PICK q, r : q = queue /\ r = Tail(queue)
  OBVIOUS
<1>1. /\ q \in Seq(Statements) /\ Len(q) \in Nat \ {0} /\ Len(r) = Len(q) - 1
      /\ \A i \in 1 .. Len(r) : r[i] = q[i + 1]
      /\ Head(queue) = q[1]
  BY <1>p, HeadAndTail DEF GraphInv, TypeOK
<1>2. /\ Ordered(q) /\ Proper(q) /\ Staged(q) /\ queue' = r
      /\ \A i \in 1 .. Len(q) : q[i] \in Statements
  BY <1>p, <1>1 DEF GraphInv
<1>h. q[1].op = "control" => controls'[<<q[1].parent, q[1].child>>] # "absent"
  BY <1>p, <1>1
<1>3. ASSUME NEW i \in 1 .. Len(r)
      PROVE  i + 1 \in 1 .. Len(q) /\ r[i] = q[i + 1]
  BY <1>1, <1>3
<1>4. ASSUME NEW i \in 1 .. Len(r), r[i].op = "subsidiary",
             controls'[<<r[i].parent, r[i].child>>] = "absent"
      PROVE  \E j \in 1 .. (i - 1) : /\ r[j].op = "control"
                                    /\ r[j].parent = r[i].parent
                                    /\ r[j].child = r[i].child
  <2>1. r[i] = q[i + 1] /\ i + 1 \in 1 .. Len(q)
    BY <1>3
  <2>2. r[i].parent \in Company /\ r[i].child \in Company
    BY <1>2, <1>4, <2>1, StatementFields
  <2>3. ~HasControl(r[i].parent, r[i].child)
    BY <1>4, <2>2 DEF HasControl
  <2>4. PICK j \in 1 .. i : /\ q[j].op = "control"
                            /\ q[j].parent = r[i].parent
                            /\ q[j].child = r[i].child
    <3>1. (i + 1) - 1 = i
      OBVIOUS
    <3> QED
      BY <1>2, <1>4, <2>1, <2>3, <3>1 DEF Ordered
  <2>5. j # 1
    BY <1>h, <1>4, <2>4 DEF HasControl
  <2>6. j - 1 \in 1 .. (i - 1) /\ r[j - 1] = q[j]
    <3>1. j - 1 \in 1 .. Len(r) /\ (j - 1) + 1 = j
      BY <1>1, <2>5
    <3> QED
      BY <1>1, <2>5, <3>1
  <2> QED
    BY <2>4, <2>6
<1>5. ASSUME NEW i \in 1 .. Len(r)
      PROVE  /\ r[i].op # "sector"
             /\ r[i].op = "lei" => InStage("lei")
             /\ r[i].op = "control" => /\ r[i].parent # r[i].child
                                       /\ r[i].keep \/ r[i].basis \in Gleif
  <2>1. Len(q) # 1
    BY <1>1, <1>5
  <2>2. i + 1 \in 1 .. Len(q) /\ r[i] = q[i + 1]
    BY <1>3
  <2> QED
    BY <1>2, <2>1, <2>2 DEF Staged, Proper
<1>6. Ordered(queue)'
  <2>1. ASSUME NEW i \in 1 .. Len(r), r[i].op = "subsidiary"
        PROVE  \/ controls'[<<r[i].parent, r[i].child>>] # "absent"
               \/ \E j \in 1 .. (i - 1) : /\ r[j].op = "control"
                                          /\ r[j].parent = r[i].parent
                                          /\ r[j].child = r[i].child
    BY <1>4, <2>1
  <2>2. queue' = r
    BY <1>2
  <2>3. Ordered(queue)' <=>
          \A i \in 1 .. Len(queue') :
            queue'[i].op = "subsidiary" =>
              \/ controls'[<<queue'[i].parent, queue'[i].child>>] # "absent"
              \/ \E j \in 1 .. (i - 1) : /\ queue'[j].op = "control"
                                         /\ queue'[j].parent = queue'[i].parent
                                         /\ queue'[j].child = queue'[i].child
    BY Zenon DEF Ordered, HasControl
  <2>4. \A i \in 1 .. Len(r) :
          r[i].op = "subsidiary" =>
            \/ controls'[<<r[i].parent, r[i].child>>] # "absent"
            \/ \E j \in 1 .. (i - 1) : /\ r[j].op = "control"
                                       /\ r[j].parent = r[i].parent
                                       /\ r[j].child = r[i].child
    BY <2>1
  <2> QED
    <3>1. SUFFICES
          \A i \in 1 .. Len(queue') :
            queue'[i].op = "subsidiary" =>
              \/ controls'[<<queue'[i].parent, queue'[i].child>>] # "absent"
              \/ \E j \in 1 .. (i - 1) : /\ queue'[j].op = "control"
                                         /\ queue'[j].parent = queue'[i].parent
                                         /\ queue'[j].child = queue'[i].child
      BY <2>3, Zenon
    <3>2. Len(queue') = Len(r) /\ \A i \in 1 .. Len(r) : queue'[i] = r[i]
      BY <2>2
    <3> TAKE i \in 1 .. Len(queue')
    <3> HAVE queue'[i].op = "subsidiary"
    <3>3. i \in 1 .. Len(r) /\ queue'[i] = r[i]
      BY <3>2
    <3>4. CASE controls'[<<r[i].parent, r[i].child>>] # "absent"
      BY <3>3, <3>4
    <3>5. CASE \E j \in 1 .. (i - 1) : /\ r[j].op = "control"
                                     /\ r[j].parent = r[i].parent
                                     /\ r[j].child = r[i].child
      BY <2>2, <3>3, <3>5
    <3> QED
      BY <2>4, <3>3, <3>4, <3>5
<1>7. Proper(queue)'
  BY <1>2, <1>5 DEF Proper
<1>8. Staged(queue)'
  BY <1>2, <1>5 DEF Staged, InStage
<1> QED
  BY <1>6, <1>7, <1>8

\* Every statement writes only what its constructor says, to the graph.
LEMMA WriteKeeps ==
    ASSUME GraphInv, Write
    PROVE  GraphInv'
<1> DEFINE s == Head(queue)
<1>1. /\ queue # <<>> /\ queue' = Tail(queue)
      /\ UNCHANGED <<stages, opened, uuidOf, todo>>
  BY DEF Write, WriteSeed, WriteLei, WriteExternal, WriteStatus, WriteControl,
         WriteSubsidiary, WriteStake, WriteSector, Next1
<1>2. TypeOK /\ TypeOK'
  BY WriteType DEF GraphInv
<1>3. s \in Statements /\ s = queue[1] /\ 1 \in 1 .. Len(queue)
  BY <1>1, <1>2, HeadAndTail
<1> HIDE DEF s
<1>4. s.op = "control" => s.parent \in Company /\ s.child \in Company /\ s.basis \in Bases
  BY <1>3, StatementFields
<1>5. \/ UNCHANGED controls /\ s.op # "control"
      \/ WriteControl /\ s.op = "control"
  BY DEF Write, WriteSeed, WriteLei, WriteExternal, WriteStatus, WriteControl,
         WriteSubsidiary, WriteStake, WriteSector, Next1, s
<1>6. /\ \A p, c \in Company : HasControl(p, c) => HasControl(p, c)'
      /\ s.op = "control" => controls'[<<s.parent, s.child>>] # "absent"
  <2>1. CASE UNCHANGED controls /\ s.op # "control"
    BY <2>1 DEF HasControl
  <2>2. CASE WriteControl /\ s.op = "control"
    <3>1. s.basis # "absent"
      BY <1>4, <2>2 DEF Bases, Gleif
    <3>2. controls' = IF s.keep /\ HasControl(s.parent, s.child) THEN controls
                      ELSE [controls EXCEPT ![<<s.parent, s.child>>] = s.basis]
      BY <2>2 DEF WriteControl, s
    <3>3. controls \in [Company \X Company -> Bases \cup {"absent"}]
      BY <1>2 DEF TypeOK
    <3> QED
      BY <1>4, <2>2, <3>1, <3>2, <3>3 DEF HasControl
  <2> QED
    BY <1>5, <2>1, <2>2
<1>7. Ordered(queue)' /\ Proper(queue)' /\ Staged(queue)'
  BY <1>1, <1>6, TailKeeps DEF s
<1>8. SubsidiaryControlled'
  <2>1. CASE WriteSubsidiary
    <3>1. s.op = "subsidiary"
      BY <2>1 DEF WriteSubsidiary, Next1, s
    <3>2. HasControl(s.parent, s.child) /\ s.parent \in Company /\ s.child \in Company
      BY <1>3, <3>1, StatementFields DEF GraphInv, Ordered
    <3>3. subsidiaryOf' = subsidiaryOf \cup {<<s.child, s.parent>>}
      BY <2>1 DEF WriteSubsidiary, s
    <3> QED
      BY <1>6, <3>2, <3>3 DEF GraphInv, SubsidiaryControlled
  <2>2. CASE UNCHANGED subsidiaryOf
    BY <1>6, <2>2 DEF GraphInv, SubsidiaryControlled
  <2> QED
    BY <2>1, <2>2 DEF Write, WriteSeed, WriteLei, WriteExternal, WriteStatus,
       WriteControl, WriteStake, WriteSector
<1>9. NoSelfControl'
  <2>1. CASE UNCHANGED controls
    BY <2>1 DEF GraphInv, NoSelfControl, HasControl
  <2>2. CASE WriteControl /\ s.op = "control"
    <3>1. s.parent # s.child
      BY <1>3, <2>2 DEF GraphInv, Proper
    <3>2. \A c \in Company : controls'[<<c, c>>] = controls[<<c, c>>]
      BY <1>2, <1>4, <2>2, <3>1 DEF WriteControl, TypeOK, s
    <3> QED
      BY <3>2 DEF GraphInv, NoSelfControl, HasControl
  <2> QED
    BY <1>5, <2>1, <2>2
<1>10. ExternalLei' /\ UuidsHold'
  <2>0. None \notin Leis /\ Issuers \cap Leis = {} /\ lei \in [Company -> Leis \cup {None}]
        /\ uuidOf \in [Leis -> Company \cup {None}]
    BY <1>2, NamesAssumption DEF Company, TypeOK
  <2>1. CASE WriteLei
    <3>1. s.op = "lei" /\ lei' = [lei EXCEPT ![s.of] = s.lei]
      BY <2>1 DEF WriteLei, Next1, s
    <3>2. InStage("lei") /\ s.of \in Issuers
      BY <1>3, <3>1, StatementFields DEF GraphInv, Staged
    <3>3. ~InStage("l2")'
      BY <1>1, <3>2 DEF InStage
    <3>4. \A l \in Leis : lei'[l] = lei[l]
      BY <2>0, <3>1, <3>2 DEF Company
    <3> QED
      BY <3>3, <3>4 DEF GraphInv, ExternalLei, UuidsHold
  <2>2. CASE WriteExternal
    <3>1. s.of \in Leis /\ lei' = [lei EXCEPT ![s.of] = s.of]
      BY <1>3, <2>2, StatementFields DEF WriteExternal, Next1, s
    <3>2. lei'[s.of] = s.of /\ \A c \in Company : c # s.of => lei'[c] = lei[c]
      BY <2>0, <3>1 DEF Company
    <3>3. ExternalLei'
      BY <3>1, <3>2 DEF GraphInv, ExternalLei, Company
    <3>4. ASSUME InStage("l2")', opened', NEW l \in Leis, uuidOf'[l] # None
          PROVE  lei'[uuidOf'[l]] = l
      <4>1. uuidOf[l] \in Company /\ lei[uuidOf[l]] = l /\ uuidOf' = uuidOf
        BY <1>1, <2>0, <3>4 DEF GraphInv, UuidsHold, InStage
      <4>2. CASE uuidOf[l] = s.of
        <5>1. lei[s.of] \in {None, s.of}
          BY <3>1 DEF GraphInv, ExternalLei
        <5> QED
          BY <2>0, <3>2, <4>1, <4>2, <5>1
      <4>3. CASE uuidOf[l] # s.of
        BY <3>2, <4>1, <4>3
      <4> QED
        BY <4>2, <4>3
    <3> QED
      BY <3>3, <3>4 DEF UuidsHold
  <2>3. CASE UNCHANGED lei
    BY <1>1, <2>3 DEF GraphInv, ExternalLei, UuidsHold, InStage
  <2> QED
    BY <2>1, <2>2, <2>3 DEF Write, WriteSeed, WriteStatus, WriteControl,
       WriteSubsidiary, WriteStake, WriteSector
<1>11. TargetsUnsectored'
  <2>1. CASE WriteSector
    <3>1. s.op = "sector" /\ inSector' = [inSector EXCEPT ![s.of][s.leaf] = s.basis]
      BY <2>1 DEF WriteSector, Next1, s
    <3>2. s.of \notin todo
      BY <1>3, <3>1 DEF GraphInv, Staged
    <3>3. \A c \in todo : inSector'[c] = inSector[c]
      <4>1. inSector' = [c \in DOMAIN inSector |->
                           IF c = s.of THEN [inSector[c] EXCEPT ![s.leaf] = s.basis]
                           ELSE inSector[c]]
        BY <3>1
      <4> QED
        BY <1>2, <3>1, <3>2 DEF TypeOK
    <3> QED
      BY <1>1, <3>3 DEF GraphInv, TargetsUnsectored, HasSector, InStage
  <2>2. CASE UNCHANGED inSector
    BY <1>1, <2>2 DEF GraphInv, TargetsUnsectored, HasSector, InStage
  <2> QED
    BY <2>1, <2>2 DEF Write, WriteSeed, WriteLei, WriteExternal, WriteStatus,
       WriteControl, WriteSubsidiary, WriteStake
<1>12. QueuedByOpen'
  BY <1>1 DEF GraphInv, QueuedByOpen
<1> QED
  BY <1>2, <1>7, <1>8, <1>9, <1>10, <1>11, <1>12 DEF GraphInv

\* With nothing queued the graph's own part of the invariant carries over.
LEMMA IdleKeeps ==
    ASSUME GraphInv, TypeOK', UNCHANGED <<controls, subsidiaryOf, lei, inSector>>,
           queue' = <<>>, UuidsHold', TargetsUnsectored'
    PROVE  GraphInv'
<1>1. SubsidiaryControlled' /\ NoSelfControl' /\ ExternalLei'
  BY DEF GraphInv, SubsidiaryControlled, NoSelfControl, ExternalLei, HasControl
<1>2. Ordered(queue)' /\ Proper(queue)' /\ Staged(queue)'
  BY DEF Ordered, Proper, Staged
<1>3. QueuedByOpen'
  BY DEF QueuedByOpen
<1> QED
  BY <1>1, <1>2, <1>3 DEF GraphInv

\* A stage that is not open has no obligations.
LEMMA UnopenedKeeps ==
    ASSUME GraphInv, TypeOK', UNCHANGED <<controls, subsidiaryOf, lei, inSector>>,
           queue' = <<>>, opened' = FALSE
    PROVE  GraphInv'
<1>1. UuidsHold' /\ TargetsUnsectored'
  BY DEF UuidsHold, TargetsUnsectored
<1> QED
  BY <1>1, IdleKeeps

\* Starting, opening, closing, the gate, death and an import keep the invariant.
LEMMA ScriptKeeps ==
    ASSUME GraphInv, RunScript \/ Die \/ ImportSectors
    PROVE  GraphInv'
<1>0. TypeOK /\ TypeOK'
  BY ScriptType DEF GraphInv
<1>1. ASSUME NEW s \in Scripts, NEW missing \in BOOLEAN, NEW mint \in BOOLEAN,
             Start(s, missing, mint)
      PROVE  GraphInv'
  <2>1. UNCHANGED graph /\ queue' = queue /\ stages = <<>> /\ opened' = FALSE
    BY <1>1 DEF Start
  <2>2. queue = <<>>
    BY <1>0, <2>1 DEF TypeOK
  <2> QED
    BY <1>0, <2>1, <2>2, UnopenedKeeps DEF graph
<1>2. CASE Open
  <2>1. UNCHANGED <<controls, subsidiaryOf, lei, inSector, stages, queue>>
    BY <1>2 DEF Open, graph
  <2>2. UuidsHold'
    <3>1. ASSUME InStage("l2")
          PROVE  \A l \in Leis : uuidOf'[l] # None => lei[uuidOf'[l]] = l
      BY <1>2, <3>1 DEF Open, UuidMaps
    <3>2. \A l \in Leis : InStage("l2") /\ uuidOf'[l] # None => lei'[uuidOf'[l]] = l
      BY <2>1, <3>1
    <3> QED
      BY <2>1, <3>2 DEF UuidsHold, InStage
  <2>3. TargetsUnsectored'
    <3>1. ASSUME InStage("inherit")
          PROVE  \A c \in todo' : ~HasSector(c)
      BY <1>2, <3>1 DEF Open, InStage, Targets, Unsectored
    <3> QED
      BY <2>1, <3>1 DEF TargetsUnsectored, InStage, HasSector
  <2>4. queue = <<>>
    BY <1>2 DEF Open, GraphInv, QueuedByOpen
  <2> QED
    BY <1>0, <2>1, <2>2, <2>3, <2>4, IdleKeeps
<1>3. CASE Close
  <2>1. UNCHANGED graph /\ queue' = <<>> /\ opened' = FALSE
    BY <1>3 DEF Close, Idle, Exit, Forget
  <2> QED
    BY <1>0, <2>1, UnopenedKeeps DEF graph
<1>4. CASE Gate
  <2>1. UNCHANGED graph /\ queue' = <<>> /\ opened' = FALSE
    BY <1>4 DEF Gate, Idle, Exit, Forget
  <2> QED
    BY <1>0, <2>1, UnopenedKeeps DEF graph
<1>5. CASE Die
  <2>1. UNCHANGED graph /\ queue' = <<>> /\ opened' = FALSE
    BY <1>5 DEF Die, Exit, Forget
  <2> QED
    BY <1>0, <2>1, UnopenedKeeps DEF graph
<1>6. CASE ImportSectors
  <2>1. UNCHANGED graph /\ UNCHANGED script /\ stages = <<>>
    BY <1>6 DEF ImportSectors
  <2>2. queue' = <<>> /\ stages' = <<>>
    BY <1>0, <2>1 DEF TypeOK, script
  <2>3. UuidsHold' /\ TargetsUnsectored'
    BY <2>2 DEF UuidsHold, TargetsUnsectored, InStage
  <2> QED
    BY <1>0, <2>1, <2>2, <2>3, IdleKeeps DEF graph
<1> QED
  BY <1>1, <1>2, <1>3, <1>4, <1>5, <1>6 DEF RunScript

LEMMA GraphStep ==
    ASSUME GraphInv, [Next]_vars
    PROVE  GraphInv'
<1>1. CASE UNCHANGED vars
  <2>1. /\ UNCHANGED <<controls, subsidiaryOf, lei, inSector>>
        /\ UNCHANGED <<stages, opened, uuidOf, todo, queue>>
    BY <1>1 DEF vars, graph, script
  <2>2. TypeOK'
    BY TypeStep DEF GraphInv
  <2>3. SubsidiaryControlled' /\ NoSelfControl' /\ ExternalLei' /\ QueuedByOpen'
    BY <2>1 DEF GraphInv, SubsidiaryControlled, NoSelfControl, ExternalLei, HasControl,
       QueuedByOpen
  <2>4. Ordered(queue)' /\ Proper(queue)'
    BY <2>1 DEF GraphInv, Ordered, Proper, HasControl
  <2>5. Staged(queue)' /\ UuidsHold' /\ TargetsUnsectored'
    BY <2>1 DEF GraphInv, Staged, UuidsHold, TargetsUnsectored, InStage, HasSector
  <2> QED
    BY <2>2, <2>3, <2>4, <2>5 DEF GraphInv
<1> QED
  BY <1>1, TakeItemKeeps, WriteKeeps, ScriptKeeps DEF Next

LEMMA GraphInit ==
    ASSUME Init
    PROVE  GraphInv
<1>1. TypeOK
  BY TypeInit
<1>2. SubsidiaryControlled /\ QueuedByOpen
  BY DEF Init, SubsidiaryControlled, QueuedByOpen
<1>3. NoSelfControl
  BY DEF Init, NoSelfControl, HasControl
<1>4. Ordered(queue) /\ Proper(queue) /\ Staged(queue)
  BY DEF Init, Ordered, Proper, Staged
<1>5. ExternalLei /\ UuidsHold /\ TargetsUnsectored
  BY DEF Init, ExternalLei, UuidsHold, TargetsUnsectored, Company
<1> QED
  BY <1>1, <1>2, <1>3, <1>4, <1>5 DEF GraphInv

\* The strengthening holds throughout, for the graph and the statements still
\* queued (backfill_gleif.py and the other loader scripts).
THEOREM GraphAlways == Spec => []GraphInv
<1>1. Init => GraphInv
  BY GraphInit
<1>2. GraphInv /\ [Next]_vars => GraphInv'
  BY GraphStep
<1> QED
  BY <1>1, <1>2, PTL DEF Spec

-----------------------------------------------------------------------------
(***************************************************************************)
(* Inherited sectors.  Control edges and KAP's sectors only grow, so what  *)
(* an inherited sector was traced to when it was queued stays there.       *)
(***************************************************************************)

\* A step keeps KAP's sectors ...
LEMMA KapSectorStays ==
    ASSUME GraphInv, [Next]_vars
    PROVE  \A c \in Company : \A s \in Sectors :
              inSector[c][s] = "kap-direct" => inSector'[c][s] = "kap-direct"
<1>1. CASE UNCHANGED inSector
  BY <1>1
<1>2. CASE WriteSector
  <2> DEFINE w == Head(queue)
  <2>1. queue # <<>> /\ w.op = "sector"
    BY <1>2 DEF WriteSector, Next1
  <2>2. TypeOK /\ w \in Statements /\ w = queue[1] /\ 1 \in 1 .. Len(queue)
    BY <2>1, HeadAndTail DEF GraphInv
  <2> HIDE DEF w
  <2>3. /\ w.of \in Company /\ w.leaf \in Sectors /\ w.basis \in SectorBases
        /\ w.basis = "inherited" => ~HasSector(w.of)
    BY <2>1, <2>2, StatementFields DEF GraphInv, Staged
  <2>4. inSector \in [Company -> [Sectors -> SectorBases \cup {"absent"}]]
    BY <2>2 DEF TypeOK
  <2>5. inSector' = [inSector EXCEPT ![w.of][w.leaf] = w.basis]
    BY <1>2 DEF WriteSector, w
  <2>6. CASE w.basis = "kap-direct"
    BY <2>3, <2>4, <2>5, <2>6
  <2>7. CASE w.basis = "inherited"
    <3>1. \A l \in Sectors : inSector[w.of][l] = "absent"
      BY <2>3, <2>7 DEF HasSector
    <3> QED
      BY <2>3, <2>4, <2>5, <3>1
  <2> QED
    BY <2>3, <2>6, <2>7 DEF SectorBases
<1> QED
  <2>1. CASE UNCHANGED vars
    BY <1>1, <2>1 DEF vars, graph
  <2>2. CASE RunScript
    BY <1>1, <2>2 DEF RunScript, Start, Open, Close, Gate, graph
  <2>3. CASE TakeItem
    BY <1>1, <2>3 DEF TakeItem, TakeMember, TakeUnidentified, TakeUnclassified,
       TakeChild, TakeRelation, TakeTicker, TakeUnsectored, TakeOne, Take, graph
  <2>4. CASE Write
    BY <1>1, <1>2, <2>4 DEF Write, WriteSeed, WriteLei, WriteExternal, WriteStatus,
       WriteControl, WriteSubsidiary, WriteStake
  <2>5. CASE Die \/ ImportSectors
    BY <1>1, <2>5 DEF Die, ImportSectors, graph
  <2> QED
    BY <2>1, <2>2, <2>3, <2>4, <2>5 DEF Next

\* ... and the control edges.
LEMMA ControlStays ==
    ASSUME GraphInv, [Next]_vars
    PROVE  \A p, c \in Company : HasControl(p, c) => HasControl(p, c)'
<1>1. CASE UNCHANGED controls
  BY <1>1 DEF HasControl
<1>2. CASE WriteControl
  <2> DEFINE w == Head(queue)
  <2>1. queue # <<>> /\ w.op = "control"
    BY <1>2 DEF WriteControl, Next1
  <2>2. TypeOK /\ w \in Statements
    BY <2>1, HeadAndTail DEF GraphInv
  <2> HIDE DEF w
  <2>3. w.parent \in Company /\ w.child \in Company /\ w.basis # "absent"
    BY <2>1, <2>2, StatementFields DEF Bases, Gleif
  <2>4. \/ controls' = controls
        \/ controls' = [controls EXCEPT ![<<w.parent, w.child>>] = w.basis]
    BY <1>2 DEF WriteControl, w
  <2>5. controls \in [Company \X Company -> Bases \cup {"absent"}]
    BY <2>2 DEF TypeOK
  <2> QED
    BY <2>3, <2>4, <2>5 DEF HasControl
<1> QED
  <2>1. CASE UNCHANGED vars
    BY <1>1, <2>1 DEF vars, graph
  <2>2. CASE RunScript
    BY <1>1, <2>2 DEF RunScript, Start, Open, Close, Gate, graph
  <2>3. CASE TakeItem
    BY <1>1, <2>3 DEF TakeItem, TakeMember, TakeUnidentified, TakeUnclassified,
       TakeChild, TakeRelation, TakeTicker, TakeUnsectored, TakeOne, Take, graph
  <2>4. CASE Write
    BY <1>1, <1>2, <2>4 DEF Write, WriteSeed, WriteLei, WriteExternal, WriteStatus,
       WriteSubsidiary, WriteStake, WriteSector
  <2>5. CASE Die \/ ImportSectors
    BY <1>1, <2>5 DEF Die, ImportSectors, graph
  <2> QED
    BY <2>1, <2>2, <2>3, <2>4, <2>5 DEF Next

\* A company keeps the sectors it has, and gets one by a statement.
LEMMA SectorStep ==
    ASSUME GraphInv, [Next]_vars, NEW c \in Company, NEW s \in Sectors
    PROVE  \/ inSector'[c][s] = inSector[c][s]
           \/ /\ inSector'[c][s] \in SectorBases /\ queue # <<>>
              /\ queue[1].op = "sector" /\ queue[1].of = c /\ queue[1].leaf = s
              /\ queue[1].basis = inSector'[c][s]
<1>1. CASE UNCHANGED inSector
  BY <1>1
<1>2. CASE WriteSector
  <2> DEFINE w == Head(queue)
  <2>1. queue # <<>> /\ w.op = "sector"
    BY <1>2 DEF WriteSector, Next1
  <2>2. TypeOK /\ w \in Statements /\ w = queue[1]
    BY <2>1, HeadAndTail DEF GraphInv
  <2>3. inSector' = [inSector EXCEPT ![w.of][w.leaf] = w.basis]
    BY <1>2 DEF WriteSector
  <2> HIDE DEF w
  <2>4. w.of \in Company /\ w.leaf \in Sectors /\ w.basis \in SectorBases
    BY <2>1, <2>2, StatementFields
  <2>5. inSector \in [Company -> [Sectors -> SectorBases \cup {"absent"}]]
    BY <2>2 DEF TypeOK
  <2>6. CASE w.of = c /\ w.leaf = s
    <3>1. inSector'[c][s] = w.basis
      BY <2>3, <2>4, <2>5, <2>6
    <3> QED
      BY <2>1, <2>2, <2>4, <2>6, <3>1
  <2>7. CASE ~(w.of = c /\ w.leaf = s)
    <3>1. inSector'[c][s] = inSector[c][s]
      BY <2>3, <2>4, <2>5, <2>7
    <3> QED
      BY <3>1
  <2> QED
    BY <2>6, <2>7
<1> QED
  <2>1. CASE UNCHANGED vars
    BY <1>1, <2>1 DEF vars, graph
  <2>2. CASE RunScript
    BY <1>1, <2>2 DEF RunScript, Start, Open, Close, Gate, graph
  <2>3. CASE TakeItem
    BY <1>1, <2>3 DEF TakeItem, TakeMember, TakeUnidentified, TakeUnclassified,
       TakeChild, TakeRelation, TakeTicker, TakeUnsectored, TakeOne, Take, graph
  <2>4. CASE Write
    BY <1>1, <1>2, <2>4 DEF Write, WriteSeed, WriteLei, WriteExternal, WriteStatus,
       WriteControl, WriteSubsidiary, WriteStake
  <2>5. CASE Die \/ ImportSectors
    BY <1>1, <2>5 DEF Die, ImportSectors, graph
  <2> QED
    BY <2>1, <2>2, <2>3, <2>4, <2>5 DEF Next

\* Whom a company controls is below it, and whom those below it have below.
LEMMA BelowOne ==
    ASSUME NEW p \in Company, NEW c \in Company, HasControl(p, c)
    PROVE  c \in Below(p)
BY DEF Below, Closed

LEMMA BelowTransitive ==
    ASSUME NEW q \in Company, NEW p \in Below(q), NEW c \in Below(p)
    PROVE  c \in Below(q)
<1>1. ASSUME NEW S \in SUBSET Company, Closed(q, S)
      PROVE  c \in S
  <2>1. p \in S
    BY <1>1 DEF Below
  <2>2. Closed(p, S)
    BY <1>1, <2>1 DEF Closed
  <2> QED
    BY <2>2 DEF Below
<1> QED
  BY <1>1 DEF Below

LEMMA BelowGrows ==
    ASSUME NEW p \in Company, NEW c \in Below(p),
           \A q, d \in Company : HasControl(q, d) => HasControl(q, d)'
    PROVE  c \in Below(p)'
<1>1. ASSUME NEW S \in SUBSET Company, Closed(p, S)'
      PROVE  c \in S
  <2>1. Closed(p, S)
    BY <1>1 DEF Closed
  <2> QED
    BY <2>1 DEF Below
<1> QED
  BY <1>1 DEF Below

\* A nonempty set of natural numbers has a least element.
LEMMA LeastNumber ==
    ASSUME NEW T \in SUBSET Nat, T # {}
    PROVE  \E m \in T : \A k \in T : m <= k
<1> DEFINE R == OpToRel(<, Nat)
<1>1. IsWellFoundedOn(R, Nat)
  BY NatLessThanWellFounded
<1>2. PICK m \in T : \A k \in T : <<k, m>> \notin R
  <2> HIDE DEF R
  <2> QED
    BY <1>1, WFMin
<1>3. \A k \in T : ~ (k < m)
  BY <1>2 DEF OpToRel
<1> QED
  BY <1>3

\* The levels above a company, as far as m, and all of them.
IsLevels(A, c, m) ==
    A = [n \in 0 .. m |-> IF n = 0 THEN {c} ELSE Up(A[n - 1])]

LEMMA LevelsExist ==
    ASSUME NEW c, NEW m \in Nat
    PROVE  \E A : IsLevels(A, c, m)
<1> DEFINE Without == {k \in Nat : ~ \E A : IsLevels(A, c, k)}
<1>1. SUFFICES ASSUME Without # {} PROVE FALSE
  OBVIOUS
<1>2. PICK k \in Without : \A j \in Without : k <= j
  <2> HIDE DEF Without
  <2>1. Without \in SUBSET Nat
    BY DEF Without
  <2> QED
    BY <1>1, <2>1, LeastNumber
<1>3. CASE k = 0
  <2> DEFINE A == [n \in 0 .. 0 |-> {c}]
  <2>1. A = [n \in 0 .. 0 |-> IF n = 0 THEN {c} ELSE Up(A[n - 1])]
    OBVIOUS
  <2> QED
    BY <1>3, <2>1 DEF IsLevels
<1>4. CASE k # 0
  <2>1. k - 1 \in Nat /\ k - 1 \notin Without
    BY <1>2, <1>4
  <2>2. PICK A : IsLevels(A, c, k - 1)
    BY <2>1
  <2> DEFINE B == [n \in 0 .. k |-> IF n = k THEN Up(A[k - 1]) ELSE A[n]]
  <2>3. ASSUME NEW n \in 0 .. k
        PROVE  B[n] = IF n = 0 THEN {c} ELSE Up(B[n - 1])
    <3>1. CASE n = k
      <4>1. B[n] = Up(A[k - 1]) /\ B[n - 1] = A[k - 1] /\ n # 0
        BY <1>2, <1>4, <3>1
      <4> QED
        BY <3>1, <4>1
    <3>2. CASE n # k
      <4>1. n \in 0 .. k - 1 /\ B[n] = A[n]
        BY <1>2, <3>2
      <4>2. n # 0 => n - 1 \in 0 .. k /\ n - 1 # k /\ B[n - 1] = A[n - 1]
        BY <1>2, <3>2
      <4>3. A[n] = IF n = 0 THEN {c} ELSE Up(A[n - 1])
        BY <2>2, <4>1 DEF IsLevels
      <4> QED
        BY <4>1, <4>2, <4>3
    <3> QED
      BY <3>1, <3>2
  <2>4. B = [n \in 0 .. k |-> IF n = 0 THEN {c} ELSE Up(B[n - 1])]
    BY <2>3
  <2> QED
    BY <1>2, <2>4 DEF IsLevels
<1> QED
  BY <1>3, <1>4

LEMMA AboveLevels ==
    ASSUME NEW c
    PROVE  /\ Cardinality(Company) \in Nat
           /\ IsLevels(Above(c), c, Cardinality(Company))
<1>1. Cardinality(Company) \in Nat
  BY FS_CardinalityType, NamesAssumption
<1>2. \E A : IsLevels(A, c, Cardinality(Company))
  BY <1>1, LevelsExist
<1>3. Above(c) = CHOOSE A : IsLevels(A, c, Cardinality(Company))
  BY DEF Above, IsLevels
<1> QED
  BY <1>1, <1>2, <1>3

\* A company found above c by a level's walk has c below it.
LEMMA AboveIsAbove ==
    ASSUME SubsidiaryControlled, NEW c \in Company, NEW n \in 1 .. Cardinality(Company),
           NEW p \in Above(c)[n]
    PROVE  p \in Company /\ c \in Below(p)
<1> DEFINE A == Above(c)
           Wrong == {k \in 1 .. Cardinality(Company) :
                       \E q \in A[k] : ~ (q \in Company /\ c \in Below(q))}
<1>1. SUFFICES ASSUME Wrong # {} PROVE FALSE
  OBVIOUS
<1>0. Cardinality(Company) \in Nat
  BY AboveLevels
<1>2. PICK k \in Wrong : \A j \in Wrong : k <= j
  <2>1. Wrong \in SUBSET Nat
    BY <1>0
  <2> HIDE DEF Wrong
  <2> QED
    BY <1>1, <2>1, LeastNumber
<1>3. PICK q \in A[k] : ~ (q \in Company /\ c \in Below(q))
  BY <1>2
<1>4. A[0] = {c} /\ A[k] = Up(A[k - 1])
  <2>1. A = [j \in 0 .. Cardinality(Company) |-> IF j = 0 THEN {c} ELSE Up(A[j - 1])]
    BY AboveLevels DEF IsLevels
  <2>2. k \in 0 .. Cardinality(Company) /\ k # 0 /\ 0 \in 0 .. Cardinality(Company)
    BY <1>0, <1>2
  <2> HIDE DEF A
  <2> QED
    BY <2>1, <2>2
<1>5. PICK d \in A[k - 1] : q \in ParentsOf(d)
  BY <1>3, <1>4 DEF Up
<1>6. d \in Company /\ (d = c \/ c \in Below(d))
  <2>1. CASE k = 1
    BY <1>4, <1>5, <2>1
  <2>2. CASE k # 1
    <3>1. k - 1 \in 1 .. Cardinality(Company) /\ k - 1 \notin Wrong
      BY <1>0, <1>2, <2>2
    <3> QED
      BY <1>5, <3>1
  <2> QED
    BY <2>1, <2>2
<1>7. q \in Company /\ HasControl(q, d)
  BY <1>5, <1>6 DEF ParentsOf, SubsidiaryControlled
<1>8. d \in Below(q)
  BY <1>6, <1>7, BelowOne
<1> QED
  BY <1>3, <1>6, <1>7, <1>8, BelowTransitive

\* A company that inherits does so from one above it.
LEMMA NearestIsAbove ==
    ASSUME SubsidiaryControlled, NEW c \in Company, leafOf[c] = None, NEW p \in Nearest(c)
    PROVE  c \in Below(p)
<1> DEFINE A == Above(c)
           At(n) == {q \in Company : q \in A[n] /\ leafOf[q] # None}
           levels == {n \in DOMAIN A : At(n) # {}}
           least == CHOOSE n \in levels : \A m \in levels : n <= m
<1>1. Cardinality(Company) \in Nat /\ DOMAIN A = 0 .. Cardinality(Company) /\ A[0] = {c}
  <2>1. A = [j \in 0 .. Cardinality(Company) |-> IF j = 0 THEN {c} ELSE Up(A[j - 1])]
        /\ Cardinality(Company) \in Nat
    BY AboveLevels DEF IsLevels
  <2> HIDE DEF A
  <2> QED
    BY <2>1
<1>2. levels # {} /\ p \in At(least)
  BY DEF Nearest
<1>3. least \in levels
  <2>1. levels \in SUBSET Nat
    BY <1>1
  <2>2. \E n \in levels : \A m \in levels : n <= m
    <3> HIDE DEF levels
    <3> QED
      BY <1>2, <2>1, LeastNumber
  <2> HIDE DEF levels
  <2> QED
    BY <2>2
<1> HIDE DEF least
<1>4. p \in A[least] /\ leafOf[p] # None /\ least \in 0 .. Cardinality(Company)
  BY <1>1, <1>2, <1>3
<1>5. least # 0
  BY <1>1, <1>4
<1> QED
  BY <1>1, <1>4, <1>5, AboveIsAbove

\* A sector of c that stems from KAP's of a company above c.
Source(c, s) == \E p \in Company : inSector[p][s] = "kap-direct" /\ c \in Below(p)

\* The inheritances queued have one, and the leaf map is of sectors held.
Traced(q) ==
    \A i \in 1 .. Len(q), c \in Company, s \in Sectors :
        /\ q[i].op = "sector" /\ q[i].basis = "inherited"
        /\ q[i].of = c /\ q[i].leaf = s
        => Source(c, s)

LeafsHeld ==
    InStage("inherit") /\ opened =>
        \A p \in Company : leafOf[p] # None => inSector[p][leafOf[p]] # "absent"

TraceInv == GraphInv /\ InheritedFromAbove /\ Traced(queue) /\ LeafsHeld

LEMMA SourceStays ==
    ASSUME GraphInv, [Next]_vars, NEW c \in Company, NEW s \in Sectors, Source(c, s)
    PROVE  Source(c, s)'
<1>1. PICK p \in Company : inSector[p][s] = "kap-direct" /\ c \in Below(p)
  BY DEF Source
<1>2. inSector'[p][s] = "kap-direct"
  BY <1>1, KapSectorStays
<1>3. c \in Below(p)'
  BY <1>1, BelowGrows, ControlStays
<1> QED
  BY <1>2, <1>3 DEF Source

\* What is inherited was, or is written from a traced statement.
LEMMA InheritedStays ==
    ASSUME TraceInv, [Next]_vars
    PROVE  InheritedFromAbove'
<1>1. ASSUME NEW c \in Company, NEW s \in Sectors, inSector'[c][s] = "inherited"
      PROVE  Source(c, s)'
  <2>1. CASE inSector[c][s] = "inherited"
    BY <2>1, SourceStays DEF TraceInv, InheritedFromAbove, Source
  <2>2. CASE inSector[c][s] # "inherited"
    <3>1. /\ queue # <<>> /\ queue[1].op = "sector" /\ queue[1].of = c
          /\ queue[1].leaf = s /\ queue[1].basis = "inherited"
      BY <1>1, <2>2, SectorStep DEF TraceInv
    <3>2. 1 \in 1 .. Len(queue)
      BY <3>1, HeadAndTail DEF TraceInv, GraphInv
    <3>3. Source(c, s)
      BY <3>1, <3>2 DEF TraceInv, Traced
    <3> QED
      BY <3>3, SourceStays DEF TraceInv
  <2> QED
    BY <2>1, <2>2
<1> QED
  BY <1>1 DEF InheritedFromAbove, Source

\* The inheritance stage queues a traced statement.
LEMMA TakeTraces ==
    ASSUME TraceInv, [Next]_vars, TakeItem
    PROVE  Traced(queue)'
<1> SUFFICES ASSUME NEW i \in 1 .. Len(queue'), queue'[i].op = "sector",
                    queue'[i].basis = "inherited", NEW c \in Company, NEW s \in Sectors,
                    queue'[i].of = c, queue'[i].leaf = s
             PROVE  Source(c, s)'
  BY DEF Traced
<1>1. GraphInv' /\ UNCHANGED stages
  BY GraphStep DEF TraceInv, TakeItem, TakeMember, TakeUnidentified, TakeUnclassified,
     TakeChild, TakeRelation, TakeTicker, TakeUnsectored, TakeOne, Take
<1>2. InStage("inherit")
  BY <1>1 DEF GraphInv, Staged, InStage
<1>3. PICK item \in todo : TakeUnsectored(item)
  <2>1. \A stage \in {"seed", "lei", "classify", "l2", "subsidiary", "sectors"} : ~InStage(stage)
    BY <1>2 DEF InStage
  <2> QED
    BY <2>1 DEF TakeItem, NextItem, TakeMember, TakeUnidentified, TakeUnclassified,
       TakeChild, TakeRelation, TakeTicker, TakeOne, Take
<1>4. CASE TakeOne("inherit", item, <<>>)
  BY <1>4 DEF TakeOne, Take
<1>5. ASSUME NEW p \in Nearest(item),
             TakeOne("inherit", item, <<Sector(item, leafOf[p], "inherited")>>)
      PROVE  Source(c, s)'
  <2>1. item \in Company /\ opened
    BY <1>3, <1>5 DEF TakeUnsectored, TakeOne, Take
  <2>2. c = item /\ s = leafOf[p]
    BY <1>5 DEF TakeOne, Take, Sector
  <2>3. TypeOK /\ SubsidiaryControlled /\ ~HasSector(item)
    BY <1>2, <1>3, <2>1 DEF TraceInv, GraphInv, TargetsUnsectored
  <2>4. leafOf[item] = None
    BY <1>2, <2>1, <2>3 DEF TraceInv, LeafsHeld, HasSector, TypeOK
  <2>5. p \in Company /\ leafOf[p] \in Sectors
    BY <2>3, NearestIsSectored DEF TypeOK
  <2>6. item \in Below(p)
    BY <2>1, <2>3, <2>4, NearestIsAbove
  <2>7. inSector[p][leafOf[p]] \in SectorBases
    <3>1. leafOf[p] # None
      BY NearestIsSectored
    <3> QED
      BY <1>2, <2>1, <2>3, <2>5, <3>1 DEF TraceInv, LeafsHeld, TypeOK
  <2>8. Source(item, leafOf[p])
    <3>1. CASE inSector[p][leafOf[p]] = "kap-direct"
      BY <2>5, <2>6, <3>1 DEF Source
    <3>2. CASE inSector[p][leafOf[p]] = "inherited"
      <4>1. PICK q \in Company : inSector[q][leafOf[p]] = "kap-direct" /\ p \in Below(q)
        BY <2>5, <3>2 DEF TraceInv, InheritedFromAbove
      <4> QED
        BY <2>6, <4>1, BelowTransitive DEF Source
    <3> QED
      BY <2>7, <3>1, <3>2 DEF SectorBases
  <2> QED
    BY <2>1, <2>2, <2>5, <2>8, SourceStays DEF TraceInv
<1> QED
  BY <1>3, <1>4, <1>5 DEF TakeUnsectored

LEMMA QueueTraced ==
    ASSUME TraceInv, [Next]_vars
    PROVE  Traced(queue)'
<1>1. ASSUME NEW i \in 1 .. Len(queue), NEW c \in Company, NEW s \in Sectors,
             queue[i].op = "sector", queue[i].basis = "inherited",
             queue[i].of = c, queue[i].leaf = s
      PROVE  Source(c, s)'
  BY <1>1, SourceStays DEF TraceInv, Traced
<1>2. CASE queue' = queue
  BY <1>1, <1>2 DEF Traced
<1>3. CASE queue' = <<>>
  BY <1>3 DEF Traced
<1>4. CASE Write
  <2>1. queue # <<>> /\ queue' = Tail(queue)
    BY <1>4 DEF Write, WriteSeed, WriteLei, WriteExternal, WriteStatus, WriteControl,
       WriteSubsidiary, WriteStake, WriteSector, Next1
  <2>2. ASSUME NEW i \in 1 .. Len(queue')
        PROVE  i + 1 \in 1 .. Len(queue) /\ queue'[i] = queue[i + 1]
    BY <2>1, HeadAndTail DEF TraceInv, GraphInv
  <2> QED
    BY <1>1, <2>2 DEF Traced
<1> QED
  <2>1. CASE UNCHANGED vars
    BY <1>2, <2>1 DEF vars, script
  <2>2. CASE RunScript
    BY <1>2, <2>2 DEF RunScript, Start, Open, Close, Gate
  <2>3. CASE Die \/ ImportSectors
    BY <1>2, <1>3, <2>3 DEF Die, ImportSectors, script
  <2> QED
    BY <1>4, <2>1, <2>2, <2>3, TakeTraces DEF Next

LEMMA LeafsStayHeld ==
    ASSUME TraceInv, [Next]_vars
    PROVE  LeafsHeld'
<1> USE DEF TraceInv, GraphInv
<1>1. CASE UNCHANGED <<stages, opened, leafOf>>
  <2> SUFFICES ASSUME InStage("inherit"), opened, NEW p \in Company, leafOf[p] # None
               PROVE  inSector'[p][leafOf[p]] # "absent"
    BY <1>1 DEF LeafsHeld, InStage
  <2>1. inSector[p][leafOf[p]] # "absent" /\ leafOf[p] \in Sectors
    BY DEF LeafsHeld, TypeOK
  <2> QED
    BY <2>1, SectorStep DEF SectorBases
<1>2. CASE opened' = FALSE
  BY <1>2 DEF LeafsHeld
<1>3. CASE Open
  <2>1. UNCHANGED <<inSector, stages>>
    BY <1>3 DEF Open, graph
  <2>2. ASSUME InStage("inherit"), NEW p \in Company, leafOf'[p] # None
        PROVE  inSector[p][leafOf'[p]] # "absent"
    BY <1>3, <2>2 DEF Open, LeafMaps
  <2> QED
    BY <2>1, <2>2 DEF LeafsHeld, InStage
<1> QED
  <2>1. CASE UNCHANGED vars
    BY <1>1, <2>1 DEF vars, script
  <2>2. CASE RunScript
    BY <1>2, <1>3, <2>2 DEF RunScript, Start, Close, Gate, Exit, Forget
  <2>3. CASE Die \/ ImportSectors
    BY <1>1, <1>2, <2>3 DEF Die, Exit, Forget, ImportSectors, script
  <2>4. CASE TakeItem
    BY <1>1, <2>4 DEF TakeItem, TakeMember, TakeUnidentified, TakeUnclassified,
       TakeChild, TakeRelation, TakeTicker, TakeUnsectored, TakeOne, Take
  <2>5. CASE Write
    BY <1>1, <2>5 DEF Write, WriteSeed, WriteLei, WriteExternal, WriteStatus,
       WriteControl, WriteSubsidiary, WriteStake, WriteSector, Next1
  <2> QED
    BY <2>1, <2>2, <2>3, <2>4, <2>5 DEF Next

-----------------------------------------------------------------------------
(***************************************************************************)
(* The gate's search.  A state of Tarjan's algorithm keeps SearchInv: the  *)
(* path lies on the stack in the order of the visits, what lies above a    *)
(* node of the path is below it in the graph, a low link names a node of   *)
(* the stack that is reached, and nobody popped controls a company that    *)
(* is not.                                                                 *)
(***************************************************************************)

\* Nothing of the search has happened.
Unsearched == [index |-> [c \in nodes |-> 0], low |-> [c \in nodes |-> 0], counter |-> 1,
               stack |-> <<>>, work |-> <<>>, out |-> {}]

Frames == [node : nodes, rest : SUBSET nodes]

SearchType(t) ==
    t \in [index : [nodes -> Nat], low : [nodes -> Nat], counter : Nat \ {0},
           stack : Seq(nodes), work : Seq(Frames), out : SUBSET SUBSET nodes]

\* Node i of the path from the root to the node being explored.
On(t, i) == t.work[i].node

\* An edge of a node on the path that its iterator has still to give.
Waiting(t, v, d) == \E i \in DOMAIN t.work : On(t, i) = v /\ d \in t.work[i].rest

Popped(t, v) == t.index[v] # 0 /\ ~OnStack(t, v)

\* The stack and the path are ordered by the time of the visit.
StackOrdered(t) ==
    /\ \A v \in nodes : t.index[v] < t.counter
    /\ \A i \in DOMAIN t.stack : t.index[t.stack[i]] # 0
    /\ \A i, j \in DOMAIN t.stack : i < j => t.index[t.stack[i]] < t.index[t.stack[j]]

\* The path lies on the stack and begins at its bottom.
PathOnStack(t) ==
    /\ \A i \in DOMAIN t.work : OnStack(t, On(t, i)) /\ t.work[i].rest \subseteq Controlled(On(t, i))
    /\ \A i, j \in DOMAIN t.work : i < j => t.index[On(t, i)] < t.index[On(t, j)]
    /\ \A v \in nodes : OnStack(t, v) =>
           t.work # <<>> /\ t.index[On(t, 1)] <= t.index[v]

\* What lies on the stack above a node of the path is below it in the graph.
StackBelow(t) ==
    \A i \in DOMAIN t.work : \A v \in nodes :
        OnStack(t, v) /\ t.index[On(t, i)] < t.index[v] => v \in Below(On(t, i))

\* A low link names a node of the stack that is reached, and an earlier one
\* once the node is left.
LowReached(t) ==
    \A v \in nodes : OnStack(t, v) =>
        /\ t.low[v] <= t.index[v]
        /\ \E u \in nodes : /\ OnStack(t, u) /\ t.index[u] = t.low[v]
                            /\ u = v \/ u \in Below(v)
        /\ t.low[v] < t.index[v] \/ \E i \in DOMAIN t.work : On(t, i) = v

\* A node of the path has the least low link of those left since its visit.
LowLeast(t) ==
    \A i \in DOMAIN t.work : \A v \in nodes :
        /\ OnStack(t, v) /\ t.index[On(t, i)] < t.index[v]
        /\ \A j \in DOMAIN t.work : i < j => t.index[v] < t.index[On(t, j)]
        => t.low[On(t, i)] <= t.low[v]

\* The edges of a node on the stack are waiting or counted, all but those to skip.
EdgesCounted(t, skip) ==
    \A v \in nodes : OnStack(t, v) =>
        \A d \in Controlled(v) :
            \/ <<v, d>> \in skip \/ Waiting(t, v, d)
            \/ Popped(t, d)
            \/ OnStack(t, d) /\ t.low[v] <= t.index[d]

\* Nobody popped controls a company that is not.
PoppedClosed(t) ==
    \A v \in nodes : Popped(t, v) => \A d \in Controlled(v) : Popped(t, d)

\* A component of several nodes is a cycle, and a popped node below itself is
\* in one, or controls itself.
OutRight(t) ==
    /\ \A comp \in t.out : Cardinality(comp) > 1 => \E c \in nodes : c \in Below(c)
    /\ \A v \in nodes : Popped(t, v) /\ v \in Below(v) =>
           HasControl(v, v) \/ \E comp \in t.out : Cardinality(comp) > 1

SearchRest(t) ==
    /\ SearchType(t) /\ StackOrdered(t) /\ PathOnStack(t) /\ StackBelow(t)
    /\ LowReached(t) /\ LowLeast(t) /\ PoppedClosed(t) /\ OutRight(t)

SearchInv(t) == SearchRest(t) /\ EdgesCounted(t, {})

-----------------------------------------------------------------------------
(***************************************************************************)
(* What a step of the search writes.                                       *)
(***************************************************************************)
LEMMA SequenceTypes ==
    ASSUME NEW t, SearchType(t)
    PROVE  /\ DOMAIN t.stack = 1 .. Len(t.stack) /\ Len(t.stack) \in Nat
           /\ DOMAIN t.work = 1 .. Len(t.work) /\ Len(t.work) \in Nat
           /\ \A i \in 1 .. Len(t.stack) : t.stack[i] \in nodes
           /\ \A i \in 1 .. Len(t.work) : On(t, i) \in nodes /\ t.work[i].rest \subseteq nodes
<1>1. t.stack \in Seq(nodes) /\ t.work \in Seq(Frames)
  BY DEF SearchType
<1>2. \A i \in 1 .. Len(t.work) : t.work[i] \in Frames
  BY <1>1
<1> QED
  BY <1>1, <1>2 DEF Frames, On

LEMMA FieldTypes ==
    ASSUME NEW t, SearchType(t)
    PROVE  /\ t.index \in [nodes -> Nat] /\ t.low \in [nodes -> Nat]
           /\ t.counter \in Nat /\ t.counter > 0
           /\ t.stack \in Seq(nodes) /\ t.work \in Seq(Frames)
           /\ t.out \in SUBSET SUBSET nodes
BY DEF SearchType

LEMMA VisitWrites ==
    ASSUME NEW t, SearchType(t), NEW c \in nodes
    PROVE  LET u == Visit(t, c)
           IN  /\ SearchType(u)
               /\ u.index = [t.index EXCEPT ![c] = t.counter]
               /\ u.low = [t.low EXCEPT ![c] = t.counter]
               /\ u.counter = t.counter + 1
               /\ u.stack = Append(t.stack, c)
               /\ u.work = Append(t.work, [node |-> c, rest |-> Controlled(c)])
               /\ u.out = t.out
<1> DEFINE u == Visit(t, c)
<1>1. /\ u.index = [t.index EXCEPT ![c] = t.counter]
      /\ u.low = [t.low EXCEPT ![c] = t.counter]
      /\ u.counter = t.counter + 1
      /\ u.stack = Append(t.stack, c)
      /\ u.work = Append(t.work, [node |-> c, rest |-> Controlled(c)])
      /\ u.out = t.out
  BY DEF Visit, SearchType
<1>2. [node |-> c, rest |-> Controlled(c)] \in Frames
  BY DEF Frames, Controlled
<1>3. /\ t.counter \in Nat /\ t.counter + 1 \in Nat \ {0} /\ Append(t.stack, c) \in Seq(nodes)
      /\ Append(t.work, [node |-> c, rest |-> Controlled(c)]) \in Seq(Frames)
  BY <1>2, FieldTypes
<1> DEFINE t1 == [t EXCEPT !.index[c] = t.counter]
           t2 == [t1 EXCEPT !.low[c] = t.counter]
           t3 == [t2 EXCEPT !.counter = t.counter + 1]
           t4 == [t3 EXCEPT !.stack = Append(t.stack, c)]
<1>4. SearchType(t1)
  BY <1>3 DEF SearchType
<1>6. SearchType(t2)
  <2> HIDE DEF t1
  <2> QED
    BY <1>3, <1>4 DEF SearchType
<1>7. SearchType(t4)
  <2>1. SearchType(t3)
    <3> HIDE DEF t2
    <3> QED
      BY <1>3, <1>6 DEF SearchType
  <2> HIDE DEF t3
  <2> QED
    BY <1>3, <2>1 DEF SearchType
<1>5. SearchType(u)
  <2>1. u = [t4 EXCEPT !.work = Append(t.work, [node |-> c, rest |-> Controlled(c)])]
    BY DEF Visit
  <2> HIDE DEF t4, u
  <2> QED
    BY <1>3, <1>7, <2>1 DEF SearchType
<1> QED
  BY <1>1, <1>5 DEF u

LEMMA VisitMoves ==
    ASSUME NEW t, SearchType(t), NEW c \in nodes, NEW u, u = Visit(t, c)
    PROVE  /\ SearchType(u)
           /\ \A v \in nodes : u.index[v] = IF v = c THEN t.counter ELSE t.index[v]
           /\ \A v \in nodes : u.low[v] = IF v = c THEN t.counter ELSE t.low[v]
           /\ u.counter = t.counter + 1 /\ u.out = t.out
           /\ Len(u.stack) = Len(t.stack) + 1 /\ Len(u.work) = Len(t.work) + 1
           /\ \A i \in 1 .. Len(t.stack) : u.stack[i] = t.stack[i]
           /\ u.stack[Len(t.stack) + 1] = c
           /\ \A i \in 1 .. Len(t.work) : u.work[i] = t.work[i]
           /\ On(u, Len(t.work) + 1) = c
           /\ u.work[Len(t.work) + 1].rest = Controlled(c)
           /\ \A v \in nodes : OnStack(u, v) <=> OnStack(t, v) \/ v = c
<1>1. /\ SearchType(u)
      /\ u.index = [t.index EXCEPT ![c] = t.counter]
      /\ u.low = [t.low EXCEPT ![c] = t.counter]
      /\ u.counter = t.counter + 1
      /\ u.stack = Append(t.stack, c)
      /\ u.work = Append(t.work, [node |-> c, rest |-> Controlled(c)])
      /\ u.out = t.out
  BY VisitWrites
<1>2. /\ Len(u.stack) = Len(t.stack) + 1
      /\ \A i \in 1 .. Len(t.stack) : u.stack[i] = t.stack[i]
      /\ u.stack[Len(t.stack) + 1] = c
  BY <1>1, FieldTypes, AppendProperties
<1>3. [node |-> c, rest |-> Controlled(c)] \in Frames
  BY DEF Frames, Controlled
<1>4. /\ Len(u.work) = Len(t.work) + 1
      /\ \A i \in 1 .. Len(t.work) : u.work[i] = t.work[i]
      /\ u.work[Len(t.work) + 1] = [node |-> c, rest |-> Controlled(c)]
  BY <1>1, <1>3, FieldTypes, AppendProperties
<1>5. \A v \in nodes : OnStack(u, v) <=> OnStack(t, v) \/ v = c
  <2>1. DOMAIN u.stack = 1 .. Len(t.stack) + 1 /\ DOMAIN t.stack = 1 .. Len(t.stack)
        /\ Len(t.stack) \in Nat
    BY <1>1, <1>2, SequenceTypes
  <2> QED
    BY <1>2, <2>1 DEF OnStack
<1>6. \A v \in nodes : /\ u.index[v] = IF v = c THEN t.counter ELSE t.index[v]
                       /\ u.low[v] = IF v = c THEN t.counter ELSE t.low[v]
  BY <1>1, FieldTypes
<1> QED
  BY <1>1, <1>2, <1>4, <1>5, <1>6 DEF On

\* What is on the stack was visited, and each place of it at a time of its own.
LEMMA StackVisited ==
    ASSUME NEW t, SearchType(t), StackOrdered(t)
    PROVE  /\ \A v : OnStack(t, v) => v \in nodes /\ 0 < t.index[v] /\ t.index[v] < t.counter
           /\ \A u, v : OnStack(t, u) /\ OnStack(t, v) /\ t.index[u] = t.index[v] => u = v
<1>1. ASSUME NEW v, OnStack(t, v)
      PROVE  v \in nodes /\ 0 < t.index[v] /\ t.index[v] < t.counter
  <2>1. PICK i \in DOMAIN t.stack : t.stack[i] = v
    BY <1>1 DEF OnStack
  <2>2. v \in nodes /\ t.index[v] # 0
    BY <2>1, SequenceTypes DEF StackOrdered
  <2> QED
    BY <2>2, FieldTypes DEF StackOrdered
<1>2. ASSUME NEW u, NEW v, OnStack(t, u), OnStack(t, v), t.index[u] = t.index[v]
      PROVE  u = v
  <2>1. PICK i \in DOMAIN t.stack : t.stack[i] = u
    BY <1>2 DEF OnStack
  <2>2. PICK j \in DOMAIN t.stack : t.stack[j] = v
    BY <1>2 DEF OnStack
  <2>3. i \in Nat /\ j \in Nat
    BY SequenceTypes
  <2>4. ~ (i < j) /\ ~ (j < i)
    <3>1. t.index[u] \in Nat
      BY <1>1, <1>2, FieldTypes
    <3> QED
      BY <1>2, <2>1, <2>2, <3>1 DEF StackOrdered
  <2> QED
    BY <2>1, <2>2, <2>3, <2>4
<1> QED
  BY <1>1, <1>2

\* A node is visited: at the start of a tree, or along an edge of the node on
\* top of the path.
LEMMA VisitKeeps ==
    ASSUME nodes \subseteq Company, NEW t, SearchRest(t),
           NEW c \in nodes, t.index[c] = 0, EdgesCounted(t, nodes \X {c}),
           t.work # <<>> => HasControl(On(t, Len(t.work)), c),
           NEW u, u = Visit(t, c)
    PROVE  SearchInv(u)
<1> DEFINE n == Len(t.work)
           k == Len(t.stack)
<1>1. /\ SearchType(t) /\ SearchType(u) /\ u.out = t.out /\ u.counter = t.counter + 1
      /\ \A v \in nodes : u.index[v] = IF v = c THEN t.counter ELSE t.index[v]
      /\ \A v \in nodes : u.low[v] = IF v = c THEN t.counter ELSE t.low[v]
  BY VisitMoves DEF SearchRest
<1>2. /\ n \in Nat /\ k \in Nat
      /\ DOMAIN t.stack = 1 .. k /\ DOMAIN u.stack = 1 .. k + 1
      /\ DOMAIN t.work = 1 .. n /\ DOMAIN u.work = 1 .. n + 1
      /\ \A i \in 1 .. k : t.stack[i] \in nodes
      /\ \A i \in 1 .. n : On(t, i) \in nodes
  BY <1>1, SequenceTypes, VisitMoves
<1>3. /\ \A i \in 1 .. k : u.stack[i] = t.stack[i]
      /\ u.stack[k + 1] = c
      /\ \A i \in 1 .. n : On(u, i) = On(t, i) /\ u.work[i].rest = t.work[i].rest
      /\ On(u, n + 1) = c /\ u.work[n + 1].rest = Controlled(c)
      /\ \A v \in nodes : OnStack(u, v) <=> OnStack(t, v) \/ v = c
  <2>1. /\ \A i \in 1 .. k : u.stack[i] = t.stack[i]
        /\ u.stack[k + 1] = c
        /\ \A i \in 1 .. n : u.work[i] = t.work[i]
        /\ On(u, n + 1) = c /\ u.work[n + 1].rest = Controlled(c)
        /\ \A v \in nodes : OnStack(u, v) <=> OnStack(t, v) \/ v = c
    BY <1>1, VisitMoves
  <2> QED
    BY <2>1 DEF On
<1>4. /\ t.counter \in Nat /\ t.counter > 0
      /\ \A v \in nodes : t.index[v] \in Nat /\ t.low[v] \in Nat /\ t.index[v] < t.counter
  BY <1>1, FieldTypes DEF SearchRest, StackOrdered
<1>5. /\ ~ OnStack(t, c)
      /\ \A v : OnStack(t, v) => v \in nodes /\ v # c
  BY <1>1, StackVisited DEF SearchRest
<1>6. \A v \in nodes : u.index[v] \in Nat /\ u.low[v] \in Nat
  BY <1>1, FieldTypes
<1> HIDE DEF n, k
<1>7. \A i \in 1 .. n : OnStack(t, On(t, i)) /\ On(t, i) \in nodes /\ On(t, i) # c
  BY <1>2, <1>5 DEF SearchRest, PathOnStack
<1>8. \A i \in 1 .. n : /\ u.index[On(u, i)] = t.index[On(t, i)]
                       /\ u.low[On(u, i)] = t.low[On(t, i)]
  BY <1>1, <1>3, <1>7
<1>s. StackOrdered(u)
  <2>1. StackOrdered(t)
    BY DEF SearchRest
  <2>2. \A v \in nodes : u.index[v] < u.counter
    BY <1>1, <1>4
  <2>3. \A i \in 1 .. k : t.stack[i] # c /\ t.index[t.stack[i]] # 0
    BY <1>2, <2>1 DEF StackOrdered
  <2>4. ASSUME NEW i \in 1 .. k
        PROVE  u.index[u.stack[i]] = t.index[t.stack[i]]
    <3>1. t.stack[i] \in nodes /\ t.stack[i] # c /\ u.stack[i] = t.stack[i]
      BY <1>2, <1>3, <2>3
    <3> QED
      BY <1>1, <3>1
  <2>5. u.index[u.stack[k + 1]] = t.counter
    BY <1>1, <1>3
  <2>6. ASSUME NEW i \in 1 .. k + 1
        PROVE  u.index[u.stack[i]] # 0
    <3>1. CASE i = k + 1
      BY <1>4, <2>5, <3>1
    <3>2. CASE i \in 1 .. k
      BY <2>3, <2>4, <3>2
    <3> QED
      BY <1>2, <3>1, <3>2
  <2>7. ASSUME NEW i \in 1 .. k + 1, NEW j \in 1 .. k + 1, i < j
        PROVE  u.index[u.stack[i]] < u.index[u.stack[j]]
    <3>1. i \in 1 .. k
      BY <1>2, <2>7
    <3>2. CASE j = k + 1
      BY <1>2, <1>4, <2>4, <2>5, <3>1, <3>2
    <3>3. CASE j \in 1 .. k
      BY <1>2, <2>1, <2>4, <2>7, <3>1, <3>3 DEF StackOrdered
    <3> QED
      BY <1>2, <3>2, <3>3
  <2> QED
    BY <1>2, <2>2, <2>6, <2>7 DEF StackOrdered
<1>p. PathOnStack(u)
  <2>1. PathOnStack(t)
    BY DEF SearchRest
  <2>2. ASSUME NEW i \in 1 .. n + 1
        PROVE  OnStack(u, On(u, i)) /\ u.work[i].rest \subseteq Controlled(On(u, i))
    <3>1. CASE i = n + 1
      BY <1>3, <3>1
    <3>2. CASE i \in 1 .. n
      BY <1>2, <1>3, <2>1, <3>2 DEF PathOnStack
    <3> QED
      BY <1>2, <3>1, <3>2
  <2>3. \A i \in 1 .. n : u.index[On(u, i)] = t.index[On(t, i)] /\ u.index[On(u, i)] < t.counter
    BY <1>4, <1>7, <1>8
  <2>4. u.index[On(u, n + 1)] = t.counter
    BY <1>1, <1>3
  <2>5. ASSUME NEW i \in 1 .. n + 1, NEW j \in 1 .. n + 1, i < j
        PROVE  u.index[On(u, i)] < u.index[On(u, j)]
    <3>1. i \in 1 .. n
      BY <1>2, <2>5
    <3>2. CASE j = n + 1
      BY <2>3, <2>4, <3>1, <3>2
    <3>3. CASE j \in 1 .. n
      BY <1>2, <2>1, <2>3, <2>5, <3>1, <3>3 DEF PathOnStack
    <3> QED
      BY <1>2, <3>2, <3>3
  <2>6. ASSUME NEW v \in nodes, OnStack(u, v)
        PROVE  u.work # <<>> /\ u.index[On(u, 1)] <= u.index[v]
    <3>1. u.work # <<>>
      BY <1>2
    <3>2. CASE n = 0
      <4>1. \A w \in nodes : ~OnStack(t, w)
        <5>1. t.work = <<>>
          BY <1>1, <3>2, FieldTypes DEF n
        <5> QED
          BY <2>1, <5>1 DEF PathOnStack
      <4> QED
        BY <1>1, <1>3, <1>4, <2>4, <2>6, <3>1, <3>2, <4>1
    <3>3. CASE n # 0
      <4>1. 1 \in 1 .. n /\ t.index[On(t, 1)] \in Nat
        BY <1>2, <1>4, <3>3
      <4>2. CASE v = c
        BY <1>1, <2>3, <4>1, <4>2, <1>4, <3>1
      <4>3. CASE v # c
        BY <1>1, <1>3, <2>1, <2>3, <2>6, <4>1, <4>3, <3>1 DEF PathOnStack
      <4> QED
        BY <4>2, <4>3
    <3> QED
      BY <3>2, <3>3
  <2> QED
    BY <1>2, <2>2, <2>5, <2>6 DEF PathOnStack
<1>b. StackBelow(u)
  <2>1. ASSUME NEW i \in 1 .. n + 1, NEW v \in nodes, OnStack(u, v),
               u.index[On(u, i)] < u.index[v]
        PROVE  v \in Below(On(u, i))
    <3>1. i \in 1 .. n
      <4>1. u.index[On(u, n + 1)] = t.counter /\ u.index[v] <= t.counter
        BY <1>1, <1>3, <1>4
      <4>2. i # n + 1
        BY <1>4, <1>6, <2>1, <4>1
      <4> QED
        BY <1>2, <4>2
    <3>2. On(u, i) = On(t, i) /\ OnStack(t, On(t, i)) /\ On(t, i) # c
      BY <1>2, <1>3, <1>5, <3>1 DEF SearchRest, PathOnStack
    <3>3. CASE v # c
      BY <1>1, <1>2, <1>3, <2>1, <3>1, <3>2, <3>3 DEF SearchRest, StackBelow
    <3>4. CASE v = c
      <4>1. n \in 1 .. n /\ t.work # <<>>
        BY <1>1, <1>2, <3>1, FieldTypes DEF n
      <4>2. On(t, n) \in Company /\ c \in Below(On(t, n))
        BY <1>2, <4>1, BelowOne DEF n
      <4>3. CASE i = n
        BY <3>2, <3>4, <4>2, <4>3
      <4>4. CASE i # n
        <5>1. t.index[On(t, i)] < t.index[On(t, n)] /\ OnStack(t, On(t, n))
          BY <1>2, <3>1, <4>1, <4>4 DEF SearchRest, PathOnStack
        <5>2. On(t, n) \in Below(On(t, i))
          BY <1>2, <3>1, <4>1, <5>1 DEF SearchRest, StackBelow
        <5> QED
          BY <1>2, <3>1, <3>2, <3>4, <4>2, <5>2, BelowTransitive
      <4> QED
        BY <4>3, <4>4
    <3> QED
      BY <3>3, <3>4
  <2> QED
    BY <1>2, <2>1 DEF StackBelow
<1>l. LowReached(u)
  <2>1. ASSUME NEW v \in nodes, OnStack(u, v), v # c
        PROVE  /\ u.low[v] <= u.index[v]
               /\ \E w \in nodes : /\ OnStack(u, w) /\ u.index[w] = u.low[v]
                                   /\ w = v \/ w \in Below(v)
               /\ u.low[v] < u.index[v] \/ \E i \in DOMAIN u.work : On(u, i) = v
    <3>1. OnStack(t, v) /\ u.low[v] = t.low[v] /\ u.index[v] = t.index[v]
      BY <1>1, <1>3, <2>1
    <3>2. PICK w \in nodes : OnStack(t, w) /\ t.index[w] = t.low[v] /\ (w = v \/ w \in Below(v))
      BY <3>1 DEF SearchRest, LowReached
    <3>3. OnStack(u, w) /\ u.index[w] = t.index[w]
      BY <1>1, <1>3, <1>5, <3>2
    <3>4. t.low[v] < t.index[v] \/ \E i \in 1 .. n : On(t, i) = v
      BY <1>2, <3>1 DEF SearchRest, LowReached
    <3>5. t.low[v] < t.index[v] \/ \E i \in 1 .. n + 1 : On(u, i) = v
      BY <1>2, <1>3, <3>4
    <3> QED
      BY <1>2, <3>1, <3>2, <3>3, <3>5 DEF SearchRest, LowReached
  <2>2. /\ u.low[c] <= u.index[c] /\ u.index[c] = u.low[c] /\ OnStack(u, c)
        /\ n + 1 \in DOMAIN u.work /\ On(u, n + 1) = c
    BY <1>1, <1>2, <1>3, <1>4
  <2> QED
    BY <2>1, <2>2 DEF LowReached
<1>m. LowLeast(u)
  <2>1. ASSUME NEW i \in 1 .. n + 1, NEW v \in nodes, OnStack(u, v),
               u.index[On(u, i)] < u.index[v],
               \A j \in 1 .. n + 1 : i < j => u.index[v] < u.index[On(u, j)]
        PROVE  u.low[On(u, i)] <= u.low[v]
    <3>1. u.index[On(u, n + 1)] = t.counter /\ u.index[v] <= t.counter
      BY <1>1, <1>3, <1>4
    <3>2. i \in 1 .. n
      <4>1. i # n + 1
        BY <1>4, <1>6, <2>1, <3>1
      <4> QED
        BY <1>2, <4>1
    <3>3. v # c
      BY <1>1, <1>2, <1>3, <1>4, <2>1, <3>1, <3>2
    <3>4. \A j \in 1 .. n : /\ On(u, j) = On(t, j) /\ On(t, j) \in nodes /\ On(t, j) # c
                            /\ u.index[On(u, j)] = t.index[On(t, j)]
                            /\ u.low[On(u, j)] = t.low[On(t, j)]
      BY <1>3, <1>7, <1>8
    <3>5. OnStack(t, v) /\ u.index[v] = t.index[v] /\ u.low[v] = t.low[v]
      BY <1>1, <1>3, <2>1, <3>3
    <3>6. \A j \in 1 .. n : i < j => t.index[v] < t.index[On(t, j)]
      BY <1>2, <2>1, <3>4, <3>5
    <3> QED
      BY <1>2, <2>1, <3>2, <3>4, <3>5, <3>6 DEF SearchRest, LowLeast
  <2> QED
    BY <1>2, <2>1 DEF LowLeast
<1>q. \A v \in nodes : v # c => (Popped(u, v) <=> Popped(t, v))
  BY <1>1, <1>3 DEF Popped
<1>r. ~Popped(u, c) /\ ~Popped(t, c)
  BY <1>3 DEF Popped
<1>e. EdgesCounted(u, {})
  <2>1. ASSUME NEW v \in nodes, OnStack(u, v), NEW d \in Controlled(v)
        PROVE  \/ Waiting(u, v, d) \/ Popped(u, d)
               \/ OnStack(u, d) /\ u.low[v] <= u.index[d]
    <3>1. CASE v = c
      <4>1. n + 1 \in DOMAIN u.work
        BY <1>2
      <4> QED
        BY <1>3, <2>1, <3>1, <4>1 DEF Waiting
    <3>2. CASE v # c
      <4>0. OnStack(t, v) /\ u.low[v] = t.low[v] /\ d \in nodes
        BY <1>1, <1>3, <2>1, <3>2 DEF Controlled
      <4>1. CASE d = c
        <5>1. t.low[v] <= t.index[v]
          BY <4>0 DEF SearchRest, LowReached
        <5> QED
          BY <1>1, <1>3, <1>4, <4>0, <4>1, <5>1
      <4>2. CASE d # c
        <5>1. Waiting(t, v, d) \/ Popped(t, d) \/ (OnStack(t, d) /\ t.low[v] <= t.index[d])
          BY <2>1, <4>0, <4>2 DEF EdgesCounted
        <5>2. CASE Waiting(t, v, d)
          <6>1. PICK i \in 1 .. n : On(t, i) = v /\ d \in t.work[i].rest
            BY <1>2, <5>2 DEF Waiting
          <6>2. i \in DOMAIN u.work /\ On(u, i) = v /\ d \in u.work[i].rest
            BY <1>2, <1>3, <6>1
          <6> QED
            BY <6>2 DEF Waiting
        <5>3. CASE Popped(t, d)
          BY <1>q, <4>0, <4>2, <5>3
        <5>4. CASE OnStack(t, d) /\ t.low[v] <= t.index[d]
          BY <1>1, <1>3, <4>0, <4>2, <5>4
        <5> QED
          BY <5>1, <5>2, <5>3, <5>4
      <4> QED
        BY <4>1, <4>2
    <3> QED
      BY <3>1, <3>2
  <2> QED
    BY <2>1 DEF EdgesCounted
<1>c. PoppedClosed(u)
  BY <1>q, <1>r DEF SearchRest, PoppedClosed, Controlled
<1>o. OutRight(u)
  BY <1>1, <1>q, <1>r DEF SearchRest, OutRight
<1> QED
  BY <1>1, <1>s, <1>p, <1>b, <1>l, <1>m, <1>e, <1>c, <1>o DEF SearchInv, SearchRest

\* The search after its top frame has given d, and with the link of c lowered.
Given(t, d) == [t EXCEPT !.work[Len(t.work)].rest = @ \ {d}]

Lowered(t, c, d) == [t EXCEPT !.low[c] = Smaller(t.low[c], t.index[d])]

LEMMA GivenMoves ==
    ASSUME NEW t, SearchType(t), t.work # <<>>, NEW d, NEW u, u = Given(t, d)
    PROVE  /\ SearchType(u)
           /\ u.index = t.index /\ u.low = t.low /\ u.counter = t.counter
           /\ u.stack = t.stack /\ u.out = t.out
           /\ Len(u.work) = Len(t.work) /\ Len(t.work) \in 1 .. Len(t.work)
           /\ \A i \in 1 .. Len(t.work) : On(u, i) = On(t, i)
           /\ u.work[Len(t.work)].rest = t.work[Len(t.work)].rest \ {d}
           /\ \A i \in 1 .. Len(t.work) :
                  i # Len(t.work) => u.work[i].rest = t.work[i].rest
<1> DEFINE n == Len(t.work)
           f == [t.work[n] EXCEPT !.rest = @ \ {d}]
           w == [t.work EXCEPT ![n] = f]
<1>1. t.work \in Seq(Frames) /\ n \in 1 .. n
  BY FieldTypes
<1>2. t.work[n] \in Frames
  BY <1>1
<1>3. f \in Frames /\ f.node = t.work[n].node /\ f.rest = t.work[n].rest \ {d}
  BY <1>2 DEF Frames
<1>4. /\ w \in Seq(Frames) /\ Len(w) = n
      /\ \A i \in 1 .. n : w[i] = IF i = n THEN f ELSE t.work[i]
  <2> HIDE DEF f, n
  <2>1. n \in 1 .. Len(t.work)
    BY <1>1 DEF n
  <2>2. /\ w \in Seq(Frames) /\ Len(w) = Len(t.work)
        /\ \A j \in 1 .. Len(t.work) : w[j] = IF j = n THEN f ELSE t.work[j]
    BY <1>1, <1>3, <2>1, ExceptSeq
  <2> QED
    BY <2>2 DEF n
<1>5. u = [t EXCEPT !.work = w]
  BY DEF Given
<1> HIDE DEF w
<1>6. /\ SearchType(u) /\ u.work = w
      /\ u.index = t.index /\ u.low = t.low /\ u.counter = t.counter
      /\ u.stack = t.stack /\ u.out = t.out
  BY <1>4, <1>5 DEF SearchType
<1> HIDE DEF f
<1>7. ASSUME NEW i \in 1 .. n
      PROVE  /\ On(u, i) = On(t, i)
             /\ i = n => u.work[i].rest = t.work[i].rest \ {d}
             /\ i # n => u.work[i].rest = t.work[i].rest
  <2>1. CASE i = n
    BY <1>3, <1>4, <1>6, <2>1 DEF On
  <2>2. CASE i # n
    BY <1>4, <1>6, <2>2 DEF On
  <2> QED
    BY <2>1, <2>2
<1> QED
  BY <1>1, <1>4, <1>6, <1>7

\* The iterator of the node on top of the path gives a successor.
LEMMA GivenKeeps ==
    ASSUME NEW t, SearchInv(t), t.work # <<>>, NEW d \in t.work[Len(t.work)].rest,
           NEW u, u = Given(t, d)
    PROVE  SearchRest(u) /\ EdgesCounted(u, {<<On(t, Len(t.work)), d>>})
<1> DEFINE n == Len(t.work)
<1>1. SearchType(t) /\ SearchRest(t) /\ EdgesCounted(t, {})
  BY DEF SearchInv, SearchRest
<1>2. /\ SearchType(u)
      /\ u.index = t.index /\ u.low = t.low /\ u.counter = t.counter
      /\ u.stack = t.stack /\ u.out = t.out
      /\ Len(u.work) = n /\ n \in 1 .. n
      /\ \A i \in 1 .. n : On(u, i) = On(t, i)
      /\ u.work[n].rest = t.work[n].rest \ {d}
      /\ \A i \in 1 .. n : i # n => u.work[i].rest = t.work[i].rest
  BY <1>1, GivenMoves
<1>3. DOMAIN t.work = 1 .. n /\ DOMAIN u.work = 1 .. n /\ u.work # <<>> /\ n \in Nat
  BY <1>1, <1>2, SequenceTypes
<1>4. \A v : (OnStack(u, v) <=> OnStack(t, v)) /\ (Popped(u, v) <=> Popped(t, v))
  BY <1>2 DEF OnStack, Popped
<1> HIDE DEF n
<1>5. StackOrdered(u)
  BY <1>1, <1>2 DEF SearchRest, StackOrdered
<1>6. PathOnStack(u)
  <2>1. PathOnStack(t)
    BY <1>1 DEF SearchRest
  <2>2. \A i \in 1 .. n : u.work[i].rest \subseteq t.work[i].rest
    BY <1>2
  <2> QED
    BY <1>2, <1>3, <1>4, <2>1, <2>2 DEF PathOnStack
<1>7. StackBelow(u)
  BY <1>1, <1>2, <1>3, <1>4 DEF SearchRest, StackBelow
<1>8. LowReached(u)
  BY <1>1, <1>2, <1>3, <1>4 DEF SearchRest, LowReached
<1>9. LowLeast(u)
  BY <1>1, <1>2, <1>3, <1>4 DEF SearchRest, LowLeast
<1>10. PoppedClosed(u) /\ OutRight(u)
  BY <1>1, <1>2, <1>4 DEF SearchRest, PoppedClosed, OutRight
<1>11. EdgesCounted(u, {<<On(t, n), d>>})
  <2>1. ASSUME NEW v \in nodes, OnStack(u, v), NEW e \in Controlled(v), <<v, e>> # <<On(t, n), d>>
        PROVE  \/ Waiting(u, v, e) \/ Popped(u, e)
               \/ OnStack(u, e) /\ u.low[v] <= u.index[e]
    <3>1. Waiting(t, v, e) \/ Popped(t, e) \/ (OnStack(t, e) /\ t.low[v] <= t.index[e])
      BY <1>1, <1>4, <2>1 DEF EdgesCounted
    <3>2. ASSUME Waiting(t, v, e)
          PROVE  Waiting(u, v, e)
      <4>1. PICK i \in 1 .. n : On(t, i) = v /\ e \in t.work[i].rest
        BY <1>3, <3>2 DEF Waiting
      <4>2. e \in u.work[i].rest
        BY <1>2, <2>1, <4>1
      <4> QED
        BY <1>2, <1>3, <4>1, <4>2 DEF Waiting
    <3> QED
      BY <1>2, <1>4, <3>1, <3>2
  <2> QED
    BY <2>1 DEF EdgesCounted
<1> QED
  BY <1>2, <1>5, <1>6, <1>7, <1>8, <1>9, <1>10, <1>11 DEF SearchRest, n

\* A successor on the stack lowers the node's link.
LEMMA LowerKeeps ==
    ASSUME nodes \subseteq Company, NEW t, SearchRest(t), t.work # <<>>,
           NEW c, c = On(t, Len(t.work)), NEW d \in Controlled(c), OnStack(t, d),
           EdgesCounted(t, {<<c, d>>}),
           NEW u, u = Lowered(t, c, d)
    PROVE  SearchInv(u)
<1> DEFINE n == Len(t.work)
           m == Smaller(t.low[c], t.index[d])
<1>1. /\ SearchType(t) /\ StackOrdered(t) /\ PathOnStack(t) /\ StackBelow(t)
      /\ LowReached(t) /\ LowLeast(t) /\ PoppedClosed(t) /\ OutRight(t)
  BY DEF SearchRest
<1>2. DOMAIN t.work = 1 .. n /\ n \in 1 .. n /\ n \in Nat /\ \A i \in 1 .. n : On(t, i) \in nodes
  BY <1>1, SequenceTypes, FieldTypes
<1>3. c \in nodes /\ d \in nodes /\ t.low[c] \in Nat /\ t.index[d] \in Nat /\ c = On(t, n)
  BY <1>1, <1>2, FieldTypes DEF Controlled
<1>4. m \in Nat /\ m <= t.low[c] /\ m <= t.index[d] /\ (m = t.low[c] \/ m = t.index[d])
  BY <1>3 DEF Smaller
<1> HIDE DEF m, n
<1>5. [t.low EXCEPT ![c] = m] \in [nodes -> Nat]
  BY <1>1, <1>4, FieldTypes
<1>6. /\ SearchType(u) /\ u.low = [t.low EXCEPT ![c] = m]
      /\ u.index = t.index /\ u.counter = t.counter
      /\ u.stack = t.stack /\ u.work = t.work /\ u.out = t.out
  <2>1. u = [t EXCEPT !.low = [t.low EXCEPT ![c] = m]]
    BY DEF m, Lowered
  <2> QED
    BY <1>1, <1>5, <2>1 DEF SearchType
<1>7. /\ \A v \in nodes : u.low[v] = IF v = c THEN m ELSE t.low[v]
      /\ \A v \in nodes : t.low[v] \in Nat /\ t.index[v] \in Nat /\ u.low[v] <= t.low[v]
  BY <1>1, <1>4, <1>6, FieldTypes
<1>8. /\ \A v : (OnStack(u, v) <=> OnStack(t, v)) /\ (Popped(u, v) <=> Popped(t, v))
      /\ \A v, e : Waiting(u, v, e) <=> Waiting(t, v, e)
      /\ \A i : On(u, i) = On(t, i)
  BY <1>6 DEF OnStack, Popped, Waiting, On
<1>9. StackOrdered(u)
  BY <1>1, <1>6 DEF StackOrdered
<1>10. PathOnStack(u)
  BY <1>1, <1>6, <1>8 DEF PathOnStack
<1>11. StackBelow(u)
  BY <1>1, <1>6, <1>8 DEF StackBelow
<1>12. LowReached(u)
  <2>1. ASSUME NEW v \in nodes, OnStack(t, v), v # c
        PROVE  /\ u.low[v] <= u.index[v]
               /\ \E w \in nodes : /\ OnStack(u, w) /\ u.index[w] = u.low[v]
                                   /\ w = v \/ w \in Below(v)
               /\ u.low[v] < u.index[v] \/ \E i \in DOMAIN u.work : On(u, i) = v
    BY <1>1, <1>6, <1>7, <1>8, <2>1 DEF LowReached
  <2>2. /\ OnStack(t, c) /\ \E i \in DOMAIN u.work : On(u, i) = c
    BY <1>1, <1>2, <1>3, <1>6, <1>8 DEF PathOnStack
  <2>3. u.low[c] = m /\ m <= t.index[c]
    BY <1>1, <1>3, <1>4, <1>7, <2>2 DEF LowReached
  <2>4. \E w \in nodes : OnStack(t, w) /\ t.index[w] = m /\ (w = c \/ w \in Below(c))
    <3>1. CASE m = t.low[c]
      BY <1>1, <1>3, <2>2, <3>1 DEF LowReached
    <3>2. CASE m = t.index[d]
      <4>1. d \in Below(c)
        BY <1>3, BelowOne DEF Controlled
      <4> QED
        BY <1>3, <3>2, <4>1
    <3> QED
      BY <1>4, <3>1, <3>2
  <2> QED
    BY <1>6, <1>8, <2>1, <2>2, <2>3, <2>4 DEF LowReached
<1>13. LowLeast(u)
  <2>1. ASSUME NEW i \in 1 .. n, NEW v \in nodes, OnStack(t, v), t.index[On(t, i)] < t.index[v],
               \A j \in 1 .. n : i < j => t.index[v] < t.index[On(t, j)]
        PROVE  u.low[On(t, i)] <= u.low[v]
    <3>1. v # c
      BY <1>2, <1>3, <1>7, <2>1
    <3>2. t.low[On(t, i)] <= t.low[v] /\ u.low[v] = t.low[v]
      BY <1>1, <1>2, <1>7, <2>1, <3>1 DEF LowLeast
    <3>3. u.low[v] \in Nat /\ u.low[On(t, i)] \in Nat /\ On(t, i) \in nodes
      BY <1>2, <1>6, FieldTypes
    <3> QED
      BY <1>2, <1>7, <3>2, <3>3
  <2>2. \A i \in 1 .. n : \A v \in nodes :
          /\ OnStack(u, v) /\ u.index[On(u, i)] < u.index[v]
          /\ \A j \in 1 .. n : i < j => u.index[v] < u.index[On(u, j)]
          => u.low[On(u, i)] <= u.low[v]
    BY <1>6, <1>8, <2>1
  <2> QED
    BY <1>2, <1>6, <2>2 DEF LowLeast
<1>14. PoppedClosed(u) /\ OutRight(u)
  BY <1>1, <1>6, <1>8 DEF PoppedClosed, OutRight
<1>15. EdgesCounted(u, {})
  <2>1. ASSUME NEW v \in nodes, OnStack(t, v), NEW e \in Controlled(v)
        PROVE  \/ Waiting(t, v, e) \/ Popped(t, e)
               \/ OnStack(t, e) /\ u.low[v] <= t.index[e]
    <3>1. CASE v = c /\ e = d
      BY <1>3, <1>4, <1>7, <3>1
    <3>2. CASE v # c \/ e # d
      <4>1. Waiting(t, v, e) \/ Popped(t, e) \/ (OnStack(t, e) /\ t.low[v] <= t.index[e])
        BY <2>1, <3>2 DEF EdgesCounted
      <4>2. e \in nodes /\ u.low[v] \in Nat /\ t.index[e] \in Nat /\ u.low[v] <= t.low[v]
            /\ t.low[v] \in Nat
        BY <1>6, <1>7, <2>1, FieldTypes DEF Controlled
      <4> QED
        BY <4>1, <4>2
    <3> QED
      BY <3>1, <3>2
  <2> QED
    BY <1>6, <1>8, <2>1 DEF EdgesCounted
<1> QED
  BY <1>6, <1>9, <1>10, <1>11, <1>12, <1>13, <1>14, <1>15 DEF SearchInv, SearchRest

\* One successor of the node on top of the path.
LEMMA SuccessorKeeps ==
    ASSUME nodes \subseteq Company, NEW t, SearchInv(t), t.work # <<>>,
           t.work[Len(t.work)].rest # {}
    PROVE  SearchInv(Successor(t, On(t, Len(t.work))))
<1> DEFINE n == Len(t.work)
           c == On(t, n)
           d == CHOOSE d \in t.work[n].rest : TRUE
           u == Given(t, d)
<1>1. SearchType(t) /\ PathOnStack(t) /\ d \in t.work[n].rest
  BY DEF SearchInv, SearchRest
<1>2. n \in DOMAIN t.work /\ n \in 1 .. n /\ c \in nodes
  BY <1>1, SequenceTypes, FieldTypes
<1>3. d \in Controlled(c) /\ d \in nodes
  BY <1>1, <1>2 DEF PathOnStack, Controlled
<1>4. SearchRest(u) /\ EdgesCounted(u, {<<c, d>>})
  <2> HIDE DEF d
  <2> QED
    BY <1>1, GivenKeeps
<1>5. /\ u.index = t.index /\ u.low = t.low /\ u.stack = t.stack /\ Len(u.work) = n
      /\ On(u, n) = c /\ u.work # <<>>
  <2>1. /\ u.index = t.index /\ u.low = t.low /\ u.stack = t.stack /\ Len(u.work) = n
        /\ On(u, n) = c /\ SearchType(u)
    <3> HIDE DEF d
    <3> QED
      BY <1>1, <1>2, GivenMoves
  <2> QED
    BY <1>2, <2>1
<1> HIDE DEF d, u, c, n
<1>6. CASE t.index[d] = 0
  <2>1. Successor(t, c) = Visit(u, d)
    BY <1>6 DEF Successor, Given, u, d, n
  <2>2. EdgesCounted(u, nodes \X {d})
    BY <1>2, <1>4 DEF EdgesCounted
  <2>3. HasControl(On(u, Len(u.work)), d)
    BY <1>3, <1>5 DEF Controlled
  <2>4. SearchInv(Visit(u, d))
    BY <1>3, <1>4, <1>5, <1>6, <2>2, <2>3, VisitKeeps
  <2> QED
    BY <2>1, <2>4 DEF c, n
<1>7. CASE t.index[d] # 0 /\ OnStack(t, d)
  <2>1. Successor(t, c) = Lowered(u, c, d)
    BY <1>5, <1>7 DEF Successor, Given, Lowered, u, d, n
  <2>2. OnStack(u, d)
    BY <1>5, <1>7 DEF OnStack
  <2>3. SearchInv(Lowered(u, c, d))
    BY <1>3, <1>4, <1>5, <2>2, LowerKeeps
  <2> QED
    BY <2>1, <2>3 DEF c, n
<1>8. CASE t.index[d] # 0 /\ ~OnStack(t, d)
  <2>1. Successor(t, c) = u
    BY <1>8 DEF Successor, Given, u, d, n
  <2>2. Popped(u, d)
    BY <1>5, <1>8 DEF Popped, OnStack
  <2>3. EdgesCounted(u, {})
    BY <1>4, <2>2 DEF EdgesCounted
  <2> QED
    BY <1>4, <2>1, <2>3 DEF SearchInv, c, n
<1> QED
  BY <1>6, <1>7, <1>8

\* The node on top of the path is left for the one before it.
LEMMA AscendMoves ==
    ASSUME NEW t, SearchType(t), t.work # <<>>, NEW c \in nodes
    PROVE  LET u == Ascend(t, c)
           IN  /\ SearchType(u)
               /\ u.index = t.index /\ u.counter = t.counter
               /\ u.stack = t.stack /\ u.out = t.out
               /\ Len(t.work) \in Nat \ {0} /\ Len(u.work) = Len(t.work) - 1
               /\ \A i \in 1 .. Len(t.work) - 1 : u.work[i] = t.work[i]
               /\ Len(t.work) = 1 => u.low = t.low
               /\ Len(t.work) # 1 =>
                    /\ On(t, Len(t.work) - 1) \in nodes
                    /\ u.low = [t.low EXCEPT ![On(t, Len(t.work) - 1)] =
                                    Smaller(t.low[On(t, Len(t.work) - 1)], t.low[c])]
<1> DEFINE u == Ascend(t, c)
           n == Len(t.work)
           front == SubSeq(t.work, 1, n - 1)
           up == On(t, n - 1)
           low == [t.low EXCEPT ![up] = Smaller(t.low[up], t.low[c])]
<1>1. t.work \in Seq(Frames) /\ n \in Nat \ {0}
  BY FieldTypes
<1>2. /\ front \in Seq(Frames) /\ Len(front) = n - 1
      /\ \A i \in 1 .. n - 1 : front[i] = t.work[i]
  <2>1. \A i \in 1 .. n - 1 : t.work[i] \in Frames
    BY <1>1
  <2>2. 1 \in Int /\ n - 1 \in Int
    BY <1>1
  <2>3. /\ front \in Seq(Frames)
        /\ Len(front) = IF 1 <= n - 1 THEN n - 1 - 1 + 1 ELSE 0
        /\ \A i \in 1 .. n - 1 - 1 + 1 : front[i] = t.work[1 + i - 1]
    <3> HIDE DEF n
    <3> QED
      BY <2>1, <2>2, SubSeqProperties
  <2> HIDE DEF front
  <2> QED
    BY <1>1, <2>3
<1>3. CASE n = 1
  <2>1. front = <<>>
    BY <1>2, <1>3
  <2>2. u = [t EXCEPT !.work = front]
    BY <2>1 DEF Ascend
  <2> HIDE DEF front
  <2>3. SearchType(u) /\ u.work = front /\ u.low = t.low
        /\ u.index = t.index /\ u.counter = t.counter /\ u.stack = t.stack /\ u.out = t.out
    BY <1>2, <2>2 DEF SearchType
  <2> QED
    BY <1>1, <1>2, <1>3, <2>3
<1>4. CASE n # 1
  <2>1. front # <<>> /\ front[Len(front)] = t.work[n - 1] /\ up \in nodes
    <3>1. n - 1 \in 1 .. n /\ n - 1 \in 1 .. n - 1
      <4> HIDE DEF n
      <4> QED
        BY <1>1, <1>4
    <3>2. up \in nodes
      BY <3>1, SequenceTypes
    <3> HIDE DEF front, up, n
    <3>3. front[n - 1] = t.work[n - 1] /\ Len(front) = n - 1
      BY <1>2, <3>1
    <3>4. front # <<>>
      BY <1>1, <1>4, <3>3
    <3> QED
      BY <3>2, <3>3, <3>4
  <2>2. low \in [nodes -> Nat]
    <3>1. t.low \in [nodes -> Nat]
      BY FieldTypes
    <3>2. Smaller(t.low[up], t.low[c]) \in Nat
      BY <2>1, <3>1 DEF Smaller
    <3> HIDE DEF up
    <3> QED
      BY <3>1, <3>2
  <2>3. u = [[t EXCEPT !.work = front] EXCEPT !.low = low]
    <3>1. front[Len(front)].node = up
      BY <2>1 DEF On
    <3>2. u = [t EXCEPT !.work = front, !.low[front[Len(front)].node] =
                 Smaller(t.low[front[Len(front)].node], t.low[c])]
      BY <2>1 DEF Ascend
    <3> HIDE DEF front, up
    <3> QED
      BY <3>1, <3>2 DEF SearchType
  <2>4. SearchType([t EXCEPT !.work = front])
    <3> HIDE DEF front
    <3> QED
      BY <1>2 DEF SearchType
  <2> HIDE DEF front, low
  <2>5. SearchType(u) /\ u.work = front /\ u.low = low
        /\ u.index = t.index /\ u.counter = t.counter /\ u.stack = t.stack /\ u.out = t.out
    BY <2>2, <2>3, <2>4 DEF SearchType
  <2> QED
    BY <1>1, <1>2, <1>4, <2>1, <2>5 DEF low
<1> QED
  BY <1>3, <1>4

\* The component of c and the stack without it.
Cut(t, c) == CHOOSE i \in DOMAIN t.stack : t.stack[i] = c

LeftOver(t, c) == SubSeq(t.stack, 1, Cut(t, c) - 1)

Closing(t, c) == {t.stack[i] : i \in Cut(t, c) .. Len(t.stack)}

LEMMA CutMoves ==
    ASSUME NEW t, SearchType(t), StackOrdered(t), NEW c, OnStack(t, c)
    PROVE  /\ LeftOver(t, c) \in Seq(nodes)
           /\ \A i \in DOMAIN LeftOver(t, c) :
                 i \in DOMAIN t.stack /\ LeftOver(t, c)[i] = t.stack[i]
           /\ \A v : (\E i \in DOMAIN LeftOver(t, c) : LeftOver(t, c)[i] = v)
                       <=> OnStack(t, v) /\ t.index[v] < t.index[c]
           /\ \A v : v \in Closing(t, c) <=> OnStack(t, v) /\ t.index[c] <= t.index[v]
           /\ Closing(t, c) \in SUBSET nodes
           /\ Cut(t, c) + 1 \in DOMAIN t.stack \/ Closing(t, c) = {c}
           /\ Cut(t, c) \in DOMAIN t.stack /\ t.stack[Cut(t, c)] = c
<1> DEFINE at == Cut(t, c)
           k == Len(t.stack)
           s == LeftOver(t, c)
<1>1. /\ at \in 1 .. k /\ t.stack[at] = c /\ DOMAIN t.stack = 1 .. k /\ k \in Nat
      /\ \A i \in 1 .. k : t.stack[i] \in nodes
  BY SequenceTypes DEF OnStack, Cut
<1>2. /\ s \in Seq(nodes) /\ Len(s) = at - 1
      /\ \A i \in 1 .. at - 1 : s[i] = t.stack[i]
  <2>1. \A i \in 1 .. at - 1 : t.stack[i] \in nodes
    BY <1>1
  <2>2. 1 \in Int /\ at - 1 \in Int
    BY <1>1
  <2>3. /\ s \in Seq(nodes)
        /\ Len(s) = IF 1 <= at - 1 THEN at - 1 - 1 + 1 ELSE 0
        /\ \A i \in 1 .. at - 1 - 1 + 1 : s[i] = t.stack[1 + i - 1]
    <3> HIDE DEF at
    <3> QED
      BY <2>1, <2>2, SubSeqProperties DEF LeftOver, at
  <2> HIDE DEF at, s
  <2> QED
    BY <1>1, <2>3
<1>3. DOMAIN s = 1 .. at - 1
  BY <1>2
<1> HIDE DEF at, s, k
<1>4. ASSUME NEW i \in 1 .. k
      PROVE  /\ i < at <=> t.index[t.stack[i]] < t.index[c]
             /\ at <= i <=> t.index[c] <= t.index[t.stack[i]]
  <2>1. t.index[t.stack[i]] \in Nat /\ t.index[c] \in Nat
    BY <1>1, FieldTypes
  <2>2. i < at => t.index[t.stack[i]] < t.index[c]
    BY <1>1 DEF StackOrdered
  <2>3. at < i => t.index[c] < t.index[t.stack[i]]
    BY <1>1 DEF StackOrdered
  <2> QED
    BY <1>1, <2>1, <2>2, <2>3
<1>5. \A v : (\E i \in DOMAIN s : s[i] = v) <=> OnStack(t, v) /\ t.index[v] < t.index[c]
  <2>1. ASSUME NEW v, NEW i \in 1 .. at - 1, s[i] = v
        PROVE  OnStack(t, v) /\ t.index[v] < t.index[c]
    <3>1. i \in 1 .. k /\ i < at /\ t.stack[i] = v
      BY <1>1, <1>2, <2>1
    <3> QED
      BY <1>1, <1>4, <3>1 DEF OnStack
  <2>2. ASSUME NEW v, OnStack(t, v), t.index[v] < t.index[c]
        PROVE  \E i \in 1 .. at - 1 : s[i] = v
    <3>1. PICK i \in 1 .. k : t.stack[i] = v
      BY <1>1, <2>2 DEF OnStack
    <3>2. i \in 1 .. at - 1
      BY <1>1, <1>4, <2>2, <3>1
    <3> QED
      BY <1>2, <3>1, <3>2
  <2> QED
    BY <1>3, <2>1, <2>2
<1>6. \A v : v \in Closing(t, c) <=> OnStack(t, v) /\ t.index[c] <= t.index[v]
  <2>1. Closing(t, c) = {t.stack[i] : i \in at .. k}
    BY DEF Closing, at, k
  <2>2. ASSUME NEW i \in at .. k
        PROVE  OnStack(t, t.stack[i]) /\ t.index[c] <= t.index[t.stack[i]]
    <3>1. i \in 1 .. k /\ at <= i
      BY <1>1
    <3> QED
      BY <1>1, <1>4, <3>1 DEF OnStack
  <2>3. ASSUME NEW v, OnStack(t, v), t.index[c] <= t.index[v]
        PROVE  \E i \in at .. k : t.stack[i] = v
    <3>1. PICK i \in 1 .. k : t.stack[i] = v
      BY <1>1, <2>3 DEF OnStack
    <3>2. i \in at .. k
      BY <1>1, <1>4, <2>3, <3>1
    <3> QED
      BY <3>1, <3>2
  <2> QED
    BY <2>1, <2>2, <2>3
<1>7. Closing(t, c) \in SUBSET nodes
  BY <1>6, StackVisited
<1>8. at + 1 \in 1 .. k \/ Closing(t, c) = {c}
  <2>1. SUFFICES ASSUME at + 1 \notin 1 .. k PROVE Closing(t, c) = {c}
    OBVIOUS
  <2>2. at .. k = {at}
    BY <1>1, <2>1
  <2>3. Closing(t, c) = {t.stack[i] : i \in at .. k}
    BY DEF Closing, at, k
  <2> QED
    BY <1>1, <2>2, <2>3
<1>9. \A i \in DOMAIN s : i \in 1 .. k /\ s[i] = t.stack[i]
  BY <1>1, <1>2, <1>3
<1> QED
  BY <1>1, <1>2, <1>5, <1>6, <1>7, <1>8, <1>9 DEF at, s, k

\* A node that reaches an earlier one of the stack is left, and its link is
\* passed on.
LEMMA AscendKeeps ==
    ASSUME nodes \subseteq Company, NEW t, SearchInv(t), t.work # <<>>,
           t.work[Len(t.work)].rest = {},
           NEW c, c = On(t, Len(t.work)), t.low[c] # t.index[c],
           NEW u, u = Ascend(t, c)
    PROVE  SearchInv(u)
<1> DEFINE n == Len(t.work)
           up == On(t, n - 1)
<1>1. /\ SearchType(t) /\ StackOrdered(t) /\ PathOnStack(t) /\ StackBelow(t)
      /\ LowReached(t) /\ LowLeast(t) /\ PoppedClosed(t) /\ OutRight(t) /\ EdgesCounted(t, {})
  BY DEF SearchInv, SearchRest
<1>2. DOMAIN t.work = 1 .. n /\ n \in 1 .. n /\ n \in Nat /\ \A i \in 1 .. n : On(t, i) \in nodes
  BY <1>1, SequenceTypes, FieldTypes
<1>3. c \in nodes /\ c = On(t, n) /\ OnStack(t, c)
  BY <1>1, <1>2 DEF PathOnStack
<1>4. /\ SearchType(u) /\ u.index = t.index /\ u.counter = t.counter
      /\ u.stack = t.stack /\ u.out = t.out
      /\ Len(u.work) = n - 1
      /\ \A i \in 1 .. n - 1 : u.work[i] = t.work[i]
      /\ n # 1 => /\ up \in nodes
                  /\ u.low = [t.low EXCEPT ![up] = Smaller(t.low[up], t.low[c])]
  BY <1>1, <1>3, AscendMoves
<1>5. DOMAIN u.work = 1 .. n - 1
  BY <1>4, SequenceTypes
<1>6. \A v \in nodes : /\ t.index[v] \in Nat /\ t.low[v] \in Nat
                       /\ u.index[v] = t.index[v] /\ u.low[v] \in Nat
  BY <1>1, <1>4, FieldTypes
<1> HIDE DEF n
<1>7. \A i \in 1 .. n - 1 : On(u, i) = On(t, i) /\ u.work[i].rest = t.work[i].rest /\ i \in 1 .. n
  BY <1>2, <1>4 DEF On
<1>8. \A v : (OnStack(u, v) <=> OnStack(t, v)) /\ (Popped(u, v) <=> Popped(t, v))
  BY <1>4 DEF OnStack, Popped
<1>9. n # 1
  <2>1. SUFFICES ASSUME n = 1 PROVE FALSE
    OBVIOUS
  <2>2. PICK w \in nodes : OnStack(t, w) /\ t.index[w] = t.low[c]
    BY <1>1, <1>3 DEF LowReached
  <2>3. t.index[c] <= t.index[w]
    BY <1>1, <1>3, <2>1, <2>2 DEF PathOnStack
  <2>4. t.low[c] <= t.index[c]
    BY <1>1, <1>3 DEF LowReached
  <2> QED
    BY <1>3, <1>6, <2>2, <2>3, <2>4
<1>10. n - 1 \in 1 .. n - 1 /\ n - 1 \in 1 .. n /\ n - 1 < n
  BY <1>2, <1>9
<1>11. up \in nodes /\ OnStack(t, up) /\ t.index[up] < t.index[c]
  BY <1>1, <1>2, <1>3, <1>10 DEF PathOnStack
<1> HIDE DEF up
<1>12. /\ \A v \in nodes : v # up => u.low[v] = t.low[v]
       /\ u.low[up] <= t.low[up] /\ u.low[up] <= t.low[c]
       /\ u.low[up] = t.low[up] \/ u.low[up] = t.low[c]
  <2>1. u.low = [t.low EXCEPT ![up] = Smaller(t.low[up], t.low[c])] /\ t.low \in [nodes -> Nat]
    BY <1>1, <1>4, <1>9, FieldTypes DEF up
  <2>2. u.low[up] = Smaller(t.low[up], t.low[c]) /\ \A v \in nodes : v # up => u.low[v] = t.low[v]
    BY <1>11, <2>1
  <2> QED
    BY <1>3, <1>6, <1>11, <2>2 DEF Smaller
<1>13. StackOrdered(u)
  BY <1>1, <1>4 DEF StackOrdered
<1>14. PathOnStack(u)
  <2>1. ASSUME NEW i \in 1 .. n - 1
        PROVE  OnStack(u, On(u, i)) /\ u.work[i].rest \subseteq Controlled(On(u, i))
    BY <1>1, <1>2, <1>7, <1>8 DEF PathOnStack
  <2>2. ASSUME NEW i \in 1 .. n - 1, NEW j \in 1 .. n - 1, i < j
        PROVE  u.index[On(u, i)] < u.index[On(u, j)]
    BY <1>1, <1>2, <1>4, <1>7, <2>2 DEF PathOnStack
  <2>3. ASSUME NEW v \in nodes, OnStack(u, v)
        PROVE  u.work # <<>> /\ u.index[On(u, 1)] <= u.index[v]
    <3>1. u.work # <<>> /\ 1 \in 1 .. n - 1
      BY <1>4, <1>10
    <3> QED
      BY <1>1, <1>4, <1>7, <1>8, <2>3, <3>1 DEF PathOnStack
  <2> QED
    BY <1>5, <2>1, <2>2, <2>3 DEF PathOnStack
<1>15. StackBelow(u)
  <2>1. ASSUME NEW i \in 1 .. n - 1, NEW v \in nodes, OnStack(u, v),
               u.index[On(u, i)] < u.index[v]
        PROVE  v \in Below(On(u, i))
    BY <1>1, <1>2, <1>4, <1>7, <1>8, <2>1 DEF StackBelow
  <2> QED
    BY <1>5, <2>1 DEF StackBelow
<1>16. LowReached(u)
  <2>1. ASSUME NEW v \in nodes, OnStack(t, v)
        PROVE  u.low[v] <= t.index[v]
    <3>1. u.low[v] <= t.low[v]
      BY <1>6, <1>12
    <3>2. t.low[v] <= t.index[v]
      BY <1>1, <2>1 DEF LowReached
    <3> QED
      BY <1>6, <3>1, <3>2
  <2>2. ASSUME NEW v \in nodes, OnStack(t, v)
        PROVE  \E w \in nodes : OnStack(t, w) /\ t.index[w] = u.low[v] /\ (w = v \/ w \in Below(v))
    <3>1. CASE u.low[v] = t.low[v]
      BY <1>1, <2>2, <3>1 DEF LowReached
    <3>2. CASE u.low[v] # t.low[v]
      <4>1. v = up /\ u.low[v] = t.low[c]
        BY <1>12, <3>2
      <4>2. PICK w \in nodes : OnStack(t, w) /\ t.index[w] = t.low[c] /\ (w = c \/ w \in Below(c))
        BY <1>1, <1>3 DEF LowReached
      <4>3. c \in Below(up)
        BY <1>1, <1>2, <1>3, <1>10, <1>11 DEF StackBelow, up
      <4>4. w \in Below(up)
        BY <1>11, <4>2, <4>3, BelowTransitive
      <4> QED
        BY <4>1, <4>2, <4>4
    <3> QED
      BY <3>1, <3>2
  <2>3. ASSUME NEW v \in nodes, OnStack(t, v)
        PROVE  u.low[v] < t.index[v] \/ \E i \in 1 .. n - 1 : On(u, i) = v
    <3>1. t.low[v] < t.index[v] \/ \E i \in 1 .. n : On(t, i) = v
      BY <1>1, <1>2, <2>3 DEF LowReached
    <3>2. u.low[v] <= t.low[v]
      BY <1>6, <1>12
    <3>3. CASE t.low[v] < t.index[v]
      BY <1>6, <3>2, <3>3
    <3>4. ASSUME NEW i \in 1 .. n, On(t, i) = v
          PROVE  u.low[v] < t.index[v] \/ \E j \in 1 .. n - 1 : On(u, j) = v
      <4>1. CASE i = n
        <5>1. v = c /\ t.low[c] <= t.index[c]
          BY <1>1, <1>3, <3>4, <4>1 DEF LowReached
        <5> QED
          BY <1>6, <3>2, <5>1
      <4>2. CASE i # n
        <5>1. i \in 1 .. n - 1
          BY <1>2, <4>2
        <5> QED
          BY <1>7, <3>4, <5>1
      <4> QED
        BY <4>1, <4>2
    <3> QED
      BY <3>1, <3>3, <3>4
  <2> QED
    BY <1>4, <1>5, <1>8, <2>1, <2>2, <2>3 DEF LowReached
<1>17. LowLeast(u)
  <2>1. ASSUME NEW i \in 1 .. n - 1, NEW v \in nodes, OnStack(t, v),
               t.index[On(t, i)] < t.index[v],
               \A j \in 1 .. n - 1 : i < j => t.index[v] < t.index[On(t, j)]
        PROVE  u.low[On(t, i)] <= u.low[v]
    <3>1. i \in 1 .. n /\ On(t, i) \in nodes
      BY <1>2, <1>7
    <3>2. CASE i # n - 1
      <4>1. i < n - 1
        BY <1>2, <3>2
      <4>2. t.index[v] < t.index[up]
        BY <1>10, <2>1, <4>1 DEF up
      <4>3. \A j \in 1 .. n : i < j => t.index[v] < t.index[On(t, j)]
        <5>1. ASSUME NEW j \in 1 .. n, i < j
              PROVE  t.index[v] < t.index[On(t, j)]
          <6>1. CASE j = n
            BY <1>3, <1>6, <1>11, <4>2, <6>1
          <6>2. CASE j # n
            BY <1>2, <2>1, <5>1, <6>2
          <6> QED
            BY <6>1, <6>2
        <5> QED
          BY <5>1
      <4>4. t.low[On(t, i)] <= t.low[v]
        BY <1>1, <1>2, <2>1, <3>1, <4>3 DEF LowLeast
      <4>5. v # up /\ On(t, i) # up
        <5>1. t.index[On(t, i)] < t.index[up]
          BY <1>6, <1>11, <2>1, <3>1, <4>2
        <5> QED
          BY <1>6, <1>11, <4>2, <5>1
      <4> QED
        BY <1>12, <3>1, <4>4, <4>5
    <3>3. CASE i = n - 1
      <4>0. On(t, i) = up /\ v # up
        BY <1>6, <1>11, <2>1, <3>3 DEF up
      <4>1. CASE v = c
        BY <1>12, <4>0, <4>1, <1>3
      <4>2. CASE t.index[c] < t.index[v]
        <5>1. \A j \in 1 .. n : n < j => t.index[v] < t.index[On(t, j)]
          BY <1>2
        <5>2. t.low[c] <= t.low[v]
          BY <1>1, <1>2, <1>3, <2>1, <4>2, <5>1 DEF LowLeast
        <5> QED
          BY <1>3, <1>6, <1>11, <1>12, <4>0, <5>2
      <4>3. CASE t.index[v] < t.index[c]
        <5>1. \A j \in 1 .. n : i < j => t.index[v] < t.index[On(t, j)]
          BY <1>2, <1>3, <3>3, <4>3
        <5>2. t.low[up] <= t.low[v]
          BY <1>1, <1>2, <2>1, <3>1, <4>0, <5>1 DEF LowLeast
        <5> QED
          BY <1>6, <1>11, <1>12, <4>0, <5>2
      <4>4. t.index[v] = t.index[c] => v = c
        BY <1>1, <1>3, <2>1, StackVisited
      <4> QED
        BY <1>3, <1>6, <4>1, <4>2, <4>3, <4>4
    <3> QED
      BY <3>2, <3>3
  <2>2. \A i \in 1 .. n - 1 : \A v \in nodes :
          /\ OnStack(u, v) /\ u.index[On(u, i)] < u.index[v]
          /\ \A j \in 1 .. n - 1 : i < j => u.index[v] < u.index[On(u, j)]
          => u.low[On(u, i)] <= u.low[v]
    BY <1>4, <1>7, <1>8, <2>1
  <2> QED
    BY <1>5, <2>2 DEF LowLeast
<1>18. PoppedClosed(u) /\ OutRight(u)
  BY <1>1, <1>4, <1>8 DEF PoppedClosed, OutRight
<1>19. EdgesCounted(u, {})
  <2>1. ASSUME NEW v \in nodes, OnStack(t, v), NEW e \in Controlled(v)
        PROVE  Waiting(u, v, e) \/ Popped(t, e) \/ (OnStack(t, e) /\ u.low[v] <= t.index[e])
    <3>1. Waiting(t, v, e) \/ Popped(t, e) \/ (OnStack(t, e) /\ t.low[v] <= t.index[e])
      BY <1>1, <2>1 DEF EdgesCounted
    <3>2. ASSUME Waiting(t, v, e)
          PROVE  Waiting(u, v, e)
      <4>1. PICK i \in 1 .. n : On(t, i) = v /\ e \in t.work[i].rest
        BY <1>2, <3>2 DEF Waiting
      <4>2. i # n
        BY <4>1 DEF n
      <4>3. i \in 1 .. n - 1
        BY <1>2, <4>2
      <4> QED
        BY <1>5, <1>7, <4>1, <4>3 DEF Waiting
    <3>3. e \in nodes /\ u.low[v] <= t.low[v]
      BY <1>6, <1>12 DEF Controlled
    <3> QED
      BY <1>6, <3>1, <3>2, <3>3
  <2> QED
    BY <1>4, <1>8, <2>1 DEF EdgesCounted
<1> QED
  BY <1>4, <1>13, <1>14, <1>15, <1>16, <1>17, <1>18, <1>19 DEF SearchInv, SearchRest

LEMMA ComponentMoves ==
    ASSUME NEW t, SearchType(t), StackOrdered(t), NEW c, OnStack(t, c), t.low[c] = t.index[c],
           NEW w, w = Component(t, c)
    PROVE  /\ SearchType(w)
           /\ w.index = t.index /\ w.low = t.low /\ w.counter = t.counter /\ w.work = t.work
           /\ w.stack = LeftOver(t, c) /\ w.out = t.out \cup {Closing(t, c)}
<1> DEFINE s == LeftOver(t, c)
           C == Closing(t, c)
<1>1. w = [t EXCEPT !.out = t.out \cup {C}, !.stack = s]
  BY DEF Component, LeftOver, Closing, Cut
<1>2. s \in Seq(nodes) /\ C \in SUBSET nodes
  BY CutMoves
<1> HIDE DEF s, C
<1>3. t.out \cup {C} \in SUBSET SUBSET nodes
  BY <1>2, FieldTypes
<1>4. SearchType([t EXCEPT !.out = t.out \cup {C}])
  BY <1>3 DEF SearchType
<1>5. /\ SearchType(w)
      /\ w.index = t.index /\ w.low = t.low /\ w.counter = t.counter /\ w.work = t.work
      /\ w.stack = s /\ w.out = t.out \cup {C}
  BY <1>1, <1>2, <1>4 DEF SearchType
<1> QED
  BY <1>5 DEF s, C

\* The first node of a component with several has the next one below it and is
\* below that one.
LEMMA ClosingIsCycle ==
    ASSUME nodes \subseteq Company, NEW t, SearchInv(t), t.work # <<>>,
           NEW c, c = On(t, Len(t.work)), t.low[c] = t.index[c], Closing(t, c) # {c}
    PROVE  c \in nodes /\ c \in Below(c)
<1> DEFINE n == Len(t.work)
<1>1. /\ SearchType(t) /\ StackOrdered(t) /\ PathOnStack(t) /\ StackBelow(t)
      /\ LowReached(t) /\ LowLeast(t)
  BY DEF SearchInv, SearchRest
<1>2. DOMAIN t.work = 1 .. n /\ n \in 1 .. n /\ n \in Nat /\ \A i \in 1 .. n : On(t, i) \in nodes
  BY <1>1, SequenceTypes, FieldTypes
<1>3. c \in nodes /\ c = On(t, n) /\ OnStack(t, c)
  BY <1>1, <1>2 DEF PathOnStack
<1> HIDE DEF n
<1> DEFINE at == Cut(t, c)
           v == t.stack[at + 1]
<1>4. /\ at \in DOMAIN t.stack /\ at + 1 \in DOMAIN t.stack /\ t.stack[at] = c
      /\ DOMAIN t.stack = 1 .. Len(t.stack) /\ Len(t.stack) \in Nat
  BY <1>1, <1>3, CutMoves, SequenceTypes
<1>5. OnStack(t, v) /\ v \in nodes
  BY <1>1, <1>4, SequenceTypes DEF OnStack
<1>6. \A w \in nodes : t.index[w] \in Nat /\ t.low[w] \in Nat
  BY <1>1, FieldTypes
<1> HIDE DEF at
<1>7. t.index[c] < t.index[v]
  BY <1>1, <1>4 DEF StackOrdered
<1> HIDE DEF v
<1>8. v \in Below(c)
  BY <1>1, <1>2, <1>3, <1>5, <1>7 DEF StackBelow
<1>9. t.low[c] <= t.low[v]
  <2>1. \A j \in 1 .. n : n < j => t.index[v] < t.index[On(t, j)]
    BY <1>2
  <2> QED
    BY <1>1, <1>2, <1>3, <1>5, <1>7, <2>1 DEF LowLeast
<1>10. t.low[v] < t.index[v]
  <2>1. ASSUME NEW i \in 1 .. n
        PROVE  On(t, i) # v
    <3>1. i = n \/ t.index[On(t, i)] < t.index[c]
      BY <1>1, <1>2, <1>3, <2>1 DEF PathOnStack
    <3> QED
      BY <1>2, <1>3, <1>5, <1>6, <1>7, <3>1
  <2> QED
    BY <1>1, <1>2, <1>5, <2>1 DEF LowReached
<1>11. PICK w \in nodes : OnStack(t, w) /\ t.index[w] = t.low[v] /\ (w = v \/ w \in Below(v))
  BY <1>1, <1>5 DEF LowReached
<1>12. w = c
  <2>1. PICK i \in DOMAIN t.stack : t.stack[i] = w
    BY <1>11 DEF OnStack
  <2>2. i \in Nat /\ at \in Nat
    BY <1>4, <2>1
  <2>3. ~ (at + 1 < i) /\ i # at + 1
    BY <1>1, <1>4, <1>5, <1>6, <1>10, <1>11, <2>1 DEF StackOrdered, v
  <2>4. ~ (i < at)
    BY <1>1, <1>3, <1>4, <1>6, <1>9, <1>11, <2>1 DEF StackOrdered
  <2>5. i = at
    BY <2>2, <2>3, <2>4
  <2> QED
    BY <1>4, <2>1, <2>5
<1>13. c \in Below(v)
  BY <1>7, <1>11, <1>12, <1>6
<1> QED
  BY <1>3, <1>8, <1>13, BelowTransitive

\* Who is below itself but controls only itself among those not popped, is
\* below itself by one edge.
LEMMA PoppedIsNot ==
    ASSUME nodes \subseteq Company, NEW c \in Company, c \in Below(c),
           NEW S \in SUBSET Company, c \notin S,
           \A b \in S, d \in Company : HasControl(b, d) => d \in S,
           \A d \in Company : HasControl(c, d) => d \in S \cup {c}
    PROVE  HasControl(c, c)
<1>1. SUFFICES ASSUME ~HasControl(c, c) PROVE FALSE
  OBVIOUS
<1>2. Closed(c, S)
  BY <1>1 DEF Closed
<1> QED
  BY <1>2 DEF Below

\* Edges lie between nodes.
EdgesOfNodes == \A p, c \in Company : HasControl(p, c) => p \in nodes /\ c \in nodes

\* A node that reaches no earlier one of the stack closes its component.
LEMMA CloseKeeps ==
    ASSUME nodes \subseteq Company, EdgesOfNodes, NEW t, SearchInv(t), t.work # <<>>,
           t.work[Len(t.work)].rest = {},
           NEW c, c = On(t, Len(t.work)), t.low[c] = t.index[c],
           NEW u, u = Ascend(Component(t, c), c)
    PROVE  SearchInv(u)
<1> DEFINE n == Len(t.work)
           w == Component(t, c)
           C == Closing(t, c)
<1>1. /\ SearchType(t) /\ StackOrdered(t) /\ PathOnStack(t) /\ StackBelow(t)
      /\ LowReached(t) /\ LowLeast(t) /\ PoppedClosed(t) /\ OutRight(t) /\ EdgesCounted(t, {})
  BY DEF SearchInv, SearchRest
<1>2. DOMAIN t.work = 1 .. n /\ n \in 1 .. n /\ n \in Nat /\ \A i \in 1 .. n : On(t, i) \in nodes
  BY <1>1, SequenceTypes, FieldTypes
<1>3. c \in nodes /\ c = On(t, n) /\ OnStack(t, c)
  BY <1>1, <1>2 DEF PathOnStack
<1>4. /\ SearchType(w)
      /\ w.index = t.index /\ w.low = t.low /\ w.counter = t.counter /\ w.work = t.work
      /\ w.stack = LeftOver(t, c) /\ w.out = t.out \cup {C}
  BY <1>1, <1>3, ComponentMoves
<1> HIDE DEF w, C
<1>5. /\ SearchType(u) /\ u.index = w.index /\ u.counter = w.counter
      /\ u.stack = w.stack /\ u.out = w.out
      /\ Len(u.work) = Len(w.work) - 1
      /\ \A i \in 1 .. Len(w.work) - 1 : u.work[i] = w.work[i]
      /\ Len(w.work) = 1 => u.low = w.low
      /\ Len(w.work) # 1 =>
           /\ On(w, Len(w.work) - 1) \in nodes
           /\ u.low = [w.low EXCEPT ![On(w, Len(w.work) - 1)] =
                           Smaller(w.low[On(w, Len(w.work) - 1)], w.low[c])]
  BY <1>3, <1>4, AscendMoves DEF w
<1>6. /\ u.index = t.index /\ u.counter = t.counter
      /\ u.stack = LeftOver(t, c) /\ u.out = t.out \cup {C}
      /\ Len(u.work) = n - 1
      /\ \A i \in 1 .. n - 1 : u.work[i] = t.work[i]
  BY <1>4, <1>5
<1>7. DOMAIN u.work = 1 .. n - 1
  BY <1>5, <1>6, SequenceTypes
<1>8. \A v \in nodes : t.index[v] \in Nat /\ t.low[v] \in Nat
  BY <1>1, FieldTypes
<1> HIDE DEF n
<1>9. \A i \in 1 .. n - 1 : On(u, i) = On(t, i) /\ u.work[i].rest = t.work[i].rest /\ i \in 1 .. n
                            /\ t.index[On(t, i)] < t.index[c]
  BY <1>1, <1>2, <1>3, <1>6 DEF On, PathOnStack
<1>10. u.low = t.low
  <2>1. CASE n = 1
    BY <1>4, <1>5, <2>1 DEF n
  <2>2. CASE n # 1
    <3> DEFINE up == On(t, n - 1)
    <3>1. n - 1 \in 1 .. n /\ n - 1 \in 1 .. n - 1
      BY <1>2, <2>2
    <3>2. up \in nodes /\ OnStack(t, up) /\ t.index[up] < t.index[c]
      BY <1>1, <1>2, <1>9, <3>1 DEF PathOnStack
    <3>3. t.low[up] <= t.index[up]
      BY <1>1, <3>2 DEF LowReached
    <3>4. u.low = [t.low EXCEPT ![up] = Smaller(t.low[up], t.low[c])]
      BY <1>4, <1>5, <2>2 DEF n, On
    <3> HIDE DEF up
    <3>5. Smaller(t.low[up], t.low[c]) = t.low[up]
      BY <1>3, <1>8, <3>2, <3>3 DEF Smaller
    <3>6. t.low \in [nodes -> Nat]
      BY <1>1, FieldTypes
    <3> QED
      BY <3>2, <3>4, <3>5, <3>6
  <2> QED
    BY <2>1, <2>2
<1>11. /\ \A v : OnStack(u, v) <=> OnStack(t, v) /\ t.index[v] < t.index[c]
       /\ \A v : v \in C <=> OnStack(t, v) /\ t.index[c] <= t.index[v]
       /\ \A i \in DOMAIN u.stack : i \in DOMAIN t.stack /\ u.stack[i] = t.stack[i]
  BY <1>1, <1>3, <1>6, CutMoves DEF OnStack, C
<1>12. ASSUME NEW v \in nodes
       PROVE  Popped(u, v) <=> Popped(t, v) \/ v \in C
  <2>1. OnStack(t, v) => t.index[v] # 0
    BY <1>1, <1>8, StackVisited
  <2>2. t.index[v] < t.index[c] \/ t.index[c] <= t.index[v]
    BY <1>3, <1>8
  <2>3. ~ (t.index[v] < t.index[c] /\ t.index[c] <= t.index[v])
    BY <1>3, <1>8
  <2> QED
    BY <1>6, <1>11, <2>1, <2>2, <2>3 DEF Popped
<1>13. StackOrdered(u)
  BY <1>1, <1>6, <1>11 DEF StackOrdered
<1>14. PathOnStack(u)
  <2>1. ASSUME NEW i \in 1 .. n - 1
        PROVE  OnStack(u, On(u, i)) /\ u.work[i].rest \subseteq Controlled(On(u, i))
    BY <1>1, <1>2, <1>9, <1>11 DEF PathOnStack
  <2>2. ASSUME NEW i \in 1 .. n - 1, NEW j \in 1 .. n - 1, i < j
        PROVE  u.index[On(u, i)] < u.index[On(u, j)]
    BY <1>1, <1>2, <1>6, <1>9, <2>2 DEF PathOnStack
  <2>3. ASSUME NEW v \in nodes, OnStack(u, v)
        PROVE  u.work # <<>> /\ u.index[On(u, 1)] <= u.index[v]
    <3>1. OnStack(t, v) /\ t.index[v] < t.index[c] /\ t.index[On(t, 1)] <= t.index[v]
      BY <1>1, <1>11, <2>3 DEF PathOnStack
    <3>2. n # 1
      BY <1>3, <1>8, <3>1
    <3>3. u.work # <<>> /\ 1 \in 1 .. n - 1
      BY <1>2, <1>7, <3>2
    <3> QED
      BY <1>6, <1>9, <3>1, <3>3
  <2> QED
    BY <1>7, <2>1, <2>2, <2>3 DEF PathOnStack
<1>15. StackBelow(u)
  <2>1. ASSUME NEW i \in 1 .. n - 1, NEW v \in nodes, OnStack(u, v),
               u.index[On(u, i)] < u.index[v]
        PROVE  v \in Below(On(u, i))
    BY <1>1, <1>2, <1>6, <1>9, <1>11, <2>1 DEF StackBelow
  <2> QED
    BY <1>7, <2>1 DEF StackBelow
<1>16. LowReached(u)
  <2>1. ASSUME NEW v \in nodes, OnStack(u, v)
        PROVE  /\ t.low[v] <= t.index[v]
               /\ \E x \in nodes : /\ OnStack(u, x) /\ t.index[x] = t.low[v]
                                   /\ x = v \/ x \in Below(v)
               /\ t.low[v] < t.index[v] \/ \E i \in 1 .. n - 1 : On(u, i) = v
    <3>1. OnStack(t, v) /\ t.index[v] < t.index[c] /\ t.low[v] <= t.index[v]
      BY <1>1, <1>11, <2>1 DEF LowReached
    <3>2. PICK x \in nodes : OnStack(t, x) /\ t.index[x] = t.low[v] /\ (x = v \/ x \in Below(v))
      BY <1>1, <3>1 DEF LowReached
    <3>3. OnStack(u, x)
      <4>1. t.index[x] < t.index[c]
        BY <1>3, <1>8, <3>1, <3>2
      <4> QED
        BY <1>11, <3>2, <4>1
    <3>4. t.low[v] < t.index[v] \/ \E i \in 1 .. n : On(t, i) = v
      BY <1>1, <1>2, <3>1 DEF LowReached
    <3>5. ASSUME NEW i \in 1 .. n, On(t, i) = v
          PROVE  i \in 1 .. n - 1 /\ On(u, i) = v
      <4>1. i # n
        BY <1>3, <1>8, <3>1, <3>5
      <4>2. i \in 1 .. n - 1
        BY <1>2, <4>1
      <4> QED
        BY <1>9, <3>5, <4>2
    <3> QED
      BY <3>1, <3>2, <3>3, <3>4, <3>5
  <2> QED
    BY <1>6, <1>7, <1>10, <2>1 DEF LowReached
<1>17. LowLeast(u)
  <2>1. ASSUME NEW i \in 1 .. n - 1, NEW v \in nodes, OnStack(u, v),
               t.index[On(t, i)] < t.index[v],
               \A j \in 1 .. n - 1 : i < j => t.index[v] < t.index[On(t, j)]
        PROVE  t.low[On(t, i)] <= t.low[v]
    <3>1. OnStack(t, v) /\ t.index[v] < t.index[c] /\ i \in 1 .. n
      BY <1>9, <1>11, <2>1
    <3>2. ASSUME NEW j \in 1 .. n, i < j
          PROVE  t.index[v] < t.index[On(t, j)]
      <4>1. CASE j = n
        BY <1>3, <3>1, <4>1
      <4>2. CASE j # n
        BY <1>2, <2>1, <3>2, <4>2
      <4> QED
        BY <4>1, <4>2
    <3> QED
      BY <1>1, <1>2, <2>1, <3>1, <3>2 DEF LowLeast
  <2>2. \A i \in 1 .. n - 1 : \A v \in nodes :
          /\ OnStack(u, v) /\ u.index[On(u, i)] < u.index[v]
          /\ \A j \in 1 .. n - 1 : i < j => u.index[v] < u.index[On(u, j)]
          => u.low[On(u, i)] <= u.low[v]
    BY <1>6, <1>9, <1>10, <2>1
  <2> QED
    BY <1>7, <2>2 DEF LowLeast
<1>18. EdgesCounted(u, {})
  <2>1. ASSUME NEW v \in nodes, OnStack(u, v), NEW e \in Controlled(v)
        PROVE  Waiting(u, v, e) \/ Popped(u, e) \/ (OnStack(u, e) /\ t.low[v] <= t.index[e])
    <3>0. OnStack(t, v) /\ t.index[v] < t.index[c] /\ e \in nodes
      BY <1>11, <2>1 DEF Controlled
    <3>1. Waiting(t, v, e) \/ Popped(t, e) \/ (OnStack(t, e) /\ t.low[v] <= t.index[e])
      BY <1>1, <2>1, <3>0 DEF EdgesCounted
    <3>2. ASSUME Waiting(t, v, e)
          PROVE  Waiting(u, v, e)
      <4>1. PICK i \in 1 .. n : On(t, i) = v /\ e \in t.work[i].rest
        BY <1>2, <3>2 DEF Waiting
      <4>2. i # n
        BY <4>1 DEF n
      <4>3. i \in 1 .. n - 1
        BY <1>2, <4>2
      <4> QED
        BY <1>7, <1>9, <4>1, <4>3 DEF Waiting
    <3>3. t.index[e] < t.index[c] \/ t.index[c] <= t.index[e]
      BY <1>3, <1>8, <3>0
    <3> QED
      BY <1>11, <1>12, <3>0, <3>1, <3>2, <3>3
  <2> QED
    BY <1>6, <1>10, <2>1 DEF EdgesCounted
\* Who a node of the component controls is popped or in it.
<1>19. ASSUME NEW v \in C, NEW e \in Controlled(v)
       PROVE  Popped(t, e) \/ e \in C
  <2>1. OnStack(t, v) /\ t.index[c] <= t.index[v] /\ v \in nodes /\ e \in nodes
    BY <1>1, <1>11, <1>19, StackVisited DEF Controlled
  <2>2. ~Waiting(t, v, e)
    <3>1. SUFFICES ASSUME NEW i \in 1 .. n, On(t, i) = v, e \in t.work[i].rest PROVE FALSE
      BY <1>2 DEF Waiting
    <3>2. i # n
      BY <3>1 DEF n
    <3>3. i \in 1 .. n - 1
      BY <1>2, <3>2
    <3> QED
      BY <1>3, <1>8, <1>9, <2>1, <3>1, <3>3
  <2>3. t.low[c] <= t.low[v]
    <3>1. CASE v = c
      BY <1>3, <1>8, <3>1
    <3>2. CASE v # c
      <4>1. t.index[c] < t.index[v]
        BY <1>1, <1>3, <1>8, <2>1, <3>2, StackVisited
      <4>2. \A j \in 1 .. n : n < j => t.index[v] < t.index[On(t, j)]
        BY <1>2
      <4> QED
        BY <1>1, <1>2, <1>3, <2>1, <4>1, <4>2 DEF LowLeast
    <3> QED
      BY <3>1, <3>2
  <2>4. Popped(t, e) \/ (OnStack(t, e) /\ t.low[v] <= t.index[e])
    BY <1>1, <2>1, <2>2 DEF EdgesCounted
  <2> QED
    BY <1>3, <1>8, <1>11, <2>1, <2>3, <2>4
<1>20. PoppedClosed(u)
  <2>1. ASSUME NEW v \in nodes, Popped(u, v), NEW e \in Controlled(v)
        PROVE  Popped(u, e)
    <3>1. e \in nodes
      BY <2>1 DEF Controlled
    <3>2. CASE Popped(t, v)
      BY <1>1, <1>12, <2>1, <3>1, <3>2 DEF PoppedClosed
    <3>3. CASE v \in C
      BY <1>12, <1>19, <2>1, <3>1, <3>3
    <3> QED
      BY <1>12, <2>1, <3>2, <3>3
  <2> QED
    BY <2>1 DEF PoppedClosed
<1>21. C # {c} => c \in nodes /\ c \in Below(c)
  BY ClosingIsCycle DEF C
<1>22. IsFiniteSet(C) /\ c \in C /\ Cardinality({c}) = 1
  <2>1. C \subseteq Company
    BY <1>1, <1>11, StackVisited
  <2>2. IsFiniteSet(C)
    BY <2>1, NamesAssumption, FS_Subset
  <2>3. c \in C
    BY <1>3, <1>8, <1>11
  <2>4. Cardinality({c}) = 1
    BY FS_Singleton
  <2> QED
    BY <2>2, <2>3, <2>4
<1>23. C # {c} => Cardinality(C) > 1
  <2>1. SUFFICES ASSUME C # {c} PROVE Cardinality(C) > 1
    OBVIOUS
  <2>2. {c} \in SUBSET C
    BY <1>22
  <2>3. Cardinality({c}) <= Cardinality(C) /\ Cardinality(C) # Cardinality({c})
        /\ Cardinality(C) \in Nat
    BY <1>22, <2>1, <2>2, FS_Subset, FS_CardinalityType
  <2> QED
    BY <1>22, <2>3
<1>24. OutRight(u)
  <2>1. ASSUME NEW comp \in u.out, Cardinality(comp) > 1
        PROVE  \E b \in nodes : b \in Below(b)
    <3>1. CASE comp \in t.out
      BY <1>1, <2>1, <3>1 DEF OutRight
    <3>2. CASE comp = C
      <4>1. Cardinality(C) > 1
        BY <2>1, <3>2
      <4>2. CASE C = {c}
        <5>1. Cardinality(C) = 1
          BY <1>22, <4>2
        <5> QED
          BY <4>1, <5>1
      <4>3. CASE C # {c}
        BY <1>21, <4>3
      <4> QED
        BY <4>2, <4>3
    <3> QED
      BY <1>6, <2>1, <3>1, <3>2
  <2>2. ASSUME NEW v \in nodes, Popped(u, v), v \in Below(v)
        PROVE  HasControl(v, v) \/ \E comp \in u.out : Cardinality(comp) > 1
    <3>1. CASE Popped(t, v)
      BY <1>1, <1>6, <2>2, <3>1 DEF OutRight
    <3>2. CASE C # {c}
      BY <1>6, <1>23, <3>2
    <3>3. CASE v \in C /\ C = {c}
      <4> DEFINE S == {b \in nodes : Popped(t, b)}
      <4>1. v = c /\ c \notin S /\ S \in SUBSET Company
        BY <1>3, <3>3 DEF Popped
      <4>2. \A b \in S, d \in Company : HasControl(b, d) => d \in S
        <5>1. ASSUME NEW b \in S, NEW d \in Company, HasControl(b, d)
              PROVE  d \in S
          <6>1. d \in Controlled(b)
            BY <5>1 DEF Controlled, EdgesOfNodes
          <6> QED
            BY <1>1, <6>1 DEF PoppedClosed, Controlled
        <5> QED
          BY <5>1
      <4>3. ASSUME NEW d \in Company, HasControl(c, d)
            PROVE  d \in S \cup {c}
        <5>1. d \in Controlled(c)
          BY <1>3, <4>3 DEF Controlled, EdgesOfNodes
        <5> QED
          BY <1>19, <1>22, <3>3, <5>1 DEF Controlled
      <4> HIDE DEF S
      <4>4. HasControl(c, c)
        BY <1>3, <2>2, <4>1, <4>2, <4>3, PoppedIsNot
      <4> QED
        BY <4>1, <4>4
    <3> QED
      BY <1>12, <2>2, <3>1, <3>2, <3>3
  <2> QED
    BY <2>1, <2>2 DEF OutRight
<1> QED
  BY <1>5, <1>13, <1>14, <1>15, <1>16, <1>17, <1>18, <1>20, <1>24 DEF SearchInv, SearchRest

\* Any step of the search.
LEMMA SearchKeeps ==
    ASSUME nodes \subseteq Company, EdgesOfNodes, NEW t, SearchInv(t)
    PROVE  SearchInv(SearchStep(t))
<1> DEFINE n == Len(t.work)
           c == On(t, n)
<1>1. SearchType(t) /\ SearchRest(t) /\ EdgesCounted(t, {}) /\ PathOnStack(t) /\ StackOrdered(t)
  BY DEF SearchInv, SearchRest
<1>2. CASE t.work = <<>>
  <2> DEFINE roots == {v \in nodes : t.index[v] = 0}
             r == CHOOSE v \in roots : TRUE
  <2>1. CASE roots = {}
    BY <1>2, <2>1 DEF SearchStep
  <2>2. CASE roots # {}
    <3>1. r \in nodes /\ t.index[r] = 0 /\ SearchStep(t) = Visit(t, r)
      BY <1>2, <2>2 DEF SearchStep
    <3>2. EdgesCounted(t, nodes \X {r})
      BY <1>1 DEF EdgesCounted
    <3> HIDE DEF r
    <3> QED
      BY <1>1, <1>2, <3>1, <3>2, VisitKeeps
  <2> QED
    BY <2>1, <2>2
<1>3. CASE t.work # <<>> /\ t.work[n].rest # {}
  <2>1. SearchStep(t) = Successor(t, c)
    BY <1>3 DEF SearchStep, On
  <2> QED
    BY <1>3, <2>1, SuccessorKeeps
<1>4. CASE t.work # <<>> /\ t.work[n].rest = {}
  <2>1. SearchStep(t) = Ascend(Component(t, c), c)
    BY <1>4 DEF SearchStep, On
  <2>2. CASE t.low[c] = t.index[c]
    BY <1>4, <2>1, <2>2, CloseKeeps
  <2>3. CASE t.low[c] # t.index[c]
    <3>1. Component(t, c) = t
      BY <2>3 DEF Component
    <3> QED
      BY <1>4, <2>1, <2>3, <3>1, AscendKeeps
  <2> QED
    BY <2>2, <2>3
<1> QED
  BY <1>2, <1>3, <1>4

LEMMA SearchBegins == SearchInv(Unsearched)
<1> DEFINE t == Unsearched
<1>1. /\ t.index = [c \in nodes |-> 0] /\ t.low = [c \in nodes |-> 0] /\ t.counter = 1
      /\ t.stack = <<>> /\ t.work = <<>> /\ t.out = {}
  BY DEF Unsearched
<1>2. SearchType(t)
  <2>1. <<>> \in Seq(nodes) /\ <<>> \in Seq(Frames)
    BY ShortSeqs
  <2> QED
    BY <2>1 DEF SearchType, Unsearched
<1> HIDE DEF t
<1>3. DOMAIN t.stack = {} /\ DOMAIN t.work = {} /\ \A v \in nodes : t.index[v] = 0
  BY <1>1
<1>4. \A v : ~OnStack(t, v)
  BY <1>3 DEF OnStack
<1>5. \A v \in nodes : ~Popped(t, v)
  BY <1>3 DEF Popped
<1>6. StackOrdered(t) /\ PathOnStack(t)
  BY <1>1, <1>3, <1>4 DEF StackOrdered, PathOnStack
<1>7. StackBelow(t) /\ LowReached(t) /\ LowLeast(t) /\ EdgesCounted(t, {})
  BY <1>3, <1>4 DEF StackBelow, LowReached, LowLeast, EdgesCounted
<1>8. PoppedClosed(t) /\ OutRight(t)
  BY <1>1, <1>5 DEF PoppedClosed, OutRight
<1> QED
  BY <1>2, <1>6, <1>7, <1>8 DEF SearchInv, SearchRest, t

-----------------------------------------------------------------------------
(***************************************************************************)
(* The search ends within the steps it is given: every one of them visits  *)
(* a node, takes an edge or leaves a node, each once.                      *)
(***************************************************************************)
Unvisited(t) == {v \in nodes : t.index[v] = 0}

Unfinished(t) == {v \in nodes : t.index[v] = 0 \/ \E i \in DOMAIN t.work : On(t, i) = v}

EdgeSet == {e \in nodes \X nodes : HasControl(e[1], e[2])}

Ungiven(t) == {e \in EdgeSet : t.index[e[1]] = 0 \/ Waiting(t, e[1], e[2])}

StepsLeft(t) == Cardinality(Unvisited(t)) + Cardinality(Unfinished(t)) + Cardinality(Ungiven(t))

Searched(t) == t.work = <<>> /\ Unvisited(t) = {}

LEMMA FiniteGraph ==
    ASSUME nodes \subseteq Company
    PROVE  IsFiniteSet(nodes) /\ IsFiniteSet(EdgeSet)
<1>1. IsFiniteSet(nodes)
  BY NamesAssumption, FS_Subset
<1>2. IsFiniteSet(nodes \X nodes)
  BY <1>1, FS_Product
<1>3. EdgeSet \in SUBSET (nodes \X nodes)
  BY DEF EdgeSet
<1> QED
  BY <1>1, <1>2, <1>3, FS_Subset

LEMMA FiniteLeft ==
    ASSUME nodes \subseteq Company, NEW t
    PROVE  /\ IsFiniteSet(Unvisited(t)) /\ Cardinality(Unvisited(t)) \in Nat
           /\ IsFiniteSet(Unfinished(t)) /\ Cardinality(Unfinished(t)) \in Nat
           /\ IsFiniteSet(Ungiven(t)) /\ Cardinality(Ungiven(t)) \in Nat
           /\ StepsLeft(t) \in Nat
<1>1. Unvisited(t) \in SUBSET nodes /\ Unfinished(t) \in SUBSET nodes /\ Ungiven(t) \in SUBSET EdgeSet
  BY DEF Unvisited, Unfinished, Ungiven
<1>2. IsFiniteSet(Unvisited(t)) /\ IsFiniteSet(Unfinished(t)) /\ IsFiniteSet(Ungiven(t))
  BY <1>1, FiniteGraph, FS_Subset
<1>3. /\ Cardinality(Unvisited(t)) \in Nat /\ Cardinality(Unfinished(t)) \in Nat
      /\ Cardinality(Ungiven(t)) \in Nat
  BY <1>2, FS_CardinalityType
<1> QED
  BY <1>2, <1>3 DEF StepsLeft

\* Less is left when none of the three sets gains and one loses.
LEMMA LessLeft ==
    ASSUME nodes \subseteq Company, NEW t, NEW u,
           Unvisited(u) \subseteq Unvisited(t), Unfinished(u) \subseteq Unfinished(t),
           Ungiven(u) \subseteq Ungiven(t),
           Unvisited(u) # Unvisited(t) \/ Unfinished(u) # Unfinished(t) \/ Ungiven(u) # Ungiven(t)
    PROVE  StepsLeft(u) < StepsLeft(t)
<1>1. /\ Cardinality(Unvisited(u)) <= Cardinality(Unvisited(t))
      /\ Cardinality(Unvisited(t)) = Cardinality(Unvisited(u)) => Unvisited(t) = Unvisited(u)
  BY FiniteLeft, FS_Subset
<1>2. /\ Cardinality(Unfinished(u)) <= Cardinality(Unfinished(t))
      /\ Cardinality(Unfinished(t)) = Cardinality(Unfinished(u)) => Unfinished(t) = Unfinished(u)
  BY FiniteLeft, FS_Subset
<1>3. /\ Cardinality(Ungiven(u)) <= Cardinality(Ungiven(t))
      /\ Cardinality(Ungiven(t)) = Cardinality(Ungiven(u)) => Ungiven(t) = Ungiven(u)
  BY FiniteLeft, FS_Subset
<1>4. /\ Cardinality(Unvisited(t)) \in Nat /\ Cardinality(Unvisited(u)) \in Nat
      /\ Cardinality(Unfinished(t)) \in Nat /\ Cardinality(Unfinished(u)) \in Nat
      /\ Cardinality(Ungiven(t)) \in Nat /\ Cardinality(Ungiven(u)) \in Nat
  BY FiniteLeft
<1> QED
  BY <1>1, <1>2, <1>3, <1>4 DEF StepsLeft

LEMMA VisitLeaves ==
    ASSUME NEW t, SearchType(t), NEW c \in nodes, t.index[c] = 0, NEW u, u = Visit(t, c)
    PROVE  /\ Unvisited(u) \subseteq Unvisited(t) /\ c \in Unvisited(t) /\ c \notin Unvisited(u)
           /\ Unfinished(u) \subseteq Unfinished(t)
           /\ Ungiven(u) \subseteq Ungiven(t)
<1> DEFINE n == Len(t.work)
<1>1. /\ \A v \in nodes : u.index[v] = IF v = c THEN t.counter ELSE t.index[v]
      /\ t.counter > 0 /\ t.counter \in Nat
  BY VisitMoves, FieldTypes
<1>2. /\ n \in Nat /\ DOMAIN t.work = 1 .. n
      /\ \A i \in 1 .. n : u.work[i] = t.work[i]
      /\ On(u, n + 1) = c
  BY VisitMoves, SequenceTypes
<1>3. DOMAIN u.work = 1 .. n + 1
  BY VisitMoves, SequenceTypes
<1> HIDE DEF n
<1>4. Unvisited(u) \subseteq Unvisited(t) /\ c \in Unvisited(t) /\ c \notin Unvisited(u)
  BY <1>1 DEF Unvisited
<1>5. ASSUME NEW i \in DOMAIN u.work
      PROVE  On(u, i) = c \/ (i \in DOMAIN t.work /\ u.work[i] = t.work[i] /\ On(u, i) = On(t, i))
  <2>1. i = n + 1 \/ i \in 1 .. n
    BY <1>2, <1>3
  <2> QED
    BY <1>2, <2>1 DEF On
<1>6. Unfinished(u) \subseteq Unfinished(t)
  BY <1>1, <1>5 DEF Unfinished
<1>7. ASSUME NEW e \in EdgeSet, u.index[e[1]] = 0 \/ Waiting(u, e[1], e[2])
      PROVE  t.index[e[1]] = 0 \/ Waiting(t, e[1], e[2])
  <2>1. e[1] \in nodes
    BY DEF EdgeSet
  <2>2. CASE u.index[e[1]] = 0
    BY <1>1, <2>1, <2>2
  <2>3. CASE Waiting(u, e[1], e[2])
    <3>1. PICK i \in DOMAIN u.work : On(u, i) = e[1] /\ e[2] \in u.work[i].rest
      BY <2>3 DEF Waiting
    <3> QED
      BY <1>5, <3>1 DEF Waiting
  <2> QED
    BY <1>7, <2>2, <2>3
<1> QED
  BY <1>4, <1>6, <1>7 DEF Ungiven

LEMMA GivenLeaves ==
    ASSUME NEW t, SearchInv(t), t.work # <<>>, NEW d \in t.work[Len(t.work)].rest,
           NEW u, u = Given(t, d)
    PROVE  /\ Unvisited(u) = Unvisited(t) /\ Unfinished(u) = Unfinished(t)
           /\ Ungiven(u) \subseteq Ungiven(t) /\ Ungiven(u) # Ungiven(t)
<1> DEFINE n == Len(t.work)
           c == On(t, n)
<1>1. SearchType(t) /\ PathOnStack(t) /\ StackOrdered(t)
  BY DEF SearchInv, SearchRest
<1>2. /\ u.index = t.index /\ Len(u.work) = n /\ n \in 1 .. n
      /\ \A i \in 1 .. n : On(u, i) = On(t, i)
      /\ u.work[n].rest = t.work[n].rest \ {d}
      /\ \A i \in 1 .. n : i # n => u.work[i].rest = t.work[i].rest
      /\ SearchType(u)
  BY <1>1, GivenMoves
<1>3. DOMAIN t.work = 1 .. n /\ DOMAIN u.work = 1 .. n /\ n \in Nat
      /\ \A i \in 1 .. n : On(t, i) \in nodes
  BY <1>1, <1>2, SequenceTypes
<1>d. d \in t.work[n].rest /\ c = On(t, n)
  OBVIOUS
<1> HIDE DEF n, c
<1>4. Unvisited(u) = Unvisited(t) /\ Unfinished(u) = Unfinished(t)
  BY <1>2, <1>3 DEF Unvisited, Unfinished
<1>5. \A v, e : Waiting(u, v, e) => Waiting(t, v, e)
  BY <1>2, <1>3 DEF Waiting
<1>6. Ungiven(u) \subseteq Ungiven(t)
  BY <1>2, <1>5 DEF Ungiven
<1>7. <<c, d>> \in Ungiven(t)
  <2>1. Waiting(t, c, d)
    BY <1>2, <1>3, <1>d DEF Waiting
  <2>2. d \in Controlled(c) /\ c \in nodes
    BY <1>1, <1>2, <1>3, <1>d DEF PathOnStack
  <2> QED
    BY <2>1, <2>2 DEF Ungiven, EdgeSet, Controlled
<1>8. <<c, d>> \notin Ungiven(u)
  <2>1. u.index[c] # 0
    <3>1. OnStack(t, c)
      BY <1>1, <1>2, <1>3, <1>d DEF PathOnStack
    <3>2. c \in nodes /\ 0 < t.index[c]
      BY <1>1, <3>1, StackVisited
    <3> QED
      BY <1>2, <3>2
  <2>2. ~Waiting(u, c, d)
    <3>1. SUFFICES ASSUME NEW i \in 1 .. n, On(t, i) = c, d \in u.work[i].rest PROVE FALSE
      BY <1>2, <1>3 DEF Waiting
    <3>2. i # n
      BY <1>2, <3>1
    <3>3. t.index[On(t, i)] < t.index[c] /\ t.index[c] \in Nat
      <4>1. i < n
        BY <1>3, <3>2
      <4>2. t.index[c] \in Nat
        BY <1>1, <1>2, <1>3, <1>d, FieldTypes
      <4> QED
        BY <1>1, <1>2, <1>3, <1>d, <4>1, <4>2 DEF PathOnStack
    <3> QED
      BY <3>1, <3>3
  <2> QED
    BY <2>1, <2>2 DEF Ungiven
<1> QED
  BY <1>4, <1>6, <1>7, <1>8

\* Leaving a node, whether its component closes or not.
LEMMA AscendLeaves ==
    ASSUME NEW t, SearchInv(t), t.work # <<>>, NEW c, c = On(t, Len(t.work)),
           NEW w, SearchType(w), w.index = t.index, w.work = t.work,
           NEW u, u = Ascend(w, c)
    PROVE  /\ Unvisited(u) = Unvisited(t) /\ Ungiven(u) \subseteq Ungiven(t)
           /\ Unfinished(u) \subseteq Unfinished(t) /\ Unfinished(u) # Unfinished(t)
<1> DEFINE n == Len(t.work)
<1>1. SearchType(t) /\ PathOnStack(t) /\ StackOrdered(t)
  BY DEF SearchInv, SearchRest
<1>2. DOMAIN t.work = 1 .. n /\ n \in 1 .. n /\ n \in Nat /\ \A i \in 1 .. n : On(t, i) \in nodes
  BY <1>1, SequenceTypes, FieldTypes
<1>3. c \in nodes /\ c = On(t, n) /\ OnStack(t, c)
  BY <1>1, <1>2 DEF PathOnStack
<1>4. /\ SearchType(u) /\ u.index = t.index /\ Len(u.work) = n - 1
      /\ \A i \in 1 .. n - 1 : u.work[i] = t.work[i]
  <2>0. w.work # <<>> /\ c \in nodes
    BY <1>3
  <2>1. /\ SearchType(u) /\ u.index = w.index /\ u.counter = w.counter
        /\ u.stack = w.stack /\ u.out = w.out
        /\ Len(u.work) = Len(w.work) - 1
        /\ \A i \in 1 .. Len(w.work) - 1 : u.work[i] = w.work[i]
        /\ Len(w.work) = 1 => u.low = w.low
        /\ Len(w.work) # 1 =>
             /\ On(w, Len(w.work) - 1) \in nodes
             /\ u.low = [w.low EXCEPT ![On(w, Len(w.work) - 1)] =
                             Smaller(w.low[On(w, Len(w.work) - 1)], w.low[c])]
    BY <2>0, AscendMoves
  <2> QED
    BY <2>1
<1>5. DOMAIN u.work = 1 .. n - 1
  BY <1>4, SequenceTypes
<1> HIDE DEF n
<1>6. \A i \in 1 .. n - 1 : /\ i \in 1 .. n /\ On(u, i) = On(t, i)
                            /\ u.work[i].rest = t.work[i].rest
                            /\ t.index[On(t, i)] < t.index[c]
  BY <1>1, <1>2, <1>3, <1>4 DEF On, PathOnStack
<1>7. 0 < t.index[c] /\ t.index[c] \in Nat
  BY <1>1, <1>3, StackVisited, FieldTypes
<1>8. Unvisited(u) = Unvisited(t)
  BY <1>4 DEF Unvisited
<1>9. Ungiven(u) \subseteq Ungiven(t)
  <2>1. \A v, e : Waiting(u, v, e) => Waiting(t, v, e)
    BY <1>2, <1>5, <1>6 DEF Waiting
  <2> QED
    BY <1>4, <2>1 DEF Ungiven
<1>10. Unfinished(u) \subseteq Unfinished(t)
  BY <1>2, <1>4, <1>5, <1>6 DEF Unfinished
<1>11. c \in Unfinished(t) /\ c \notin Unfinished(u)
  <2>1. c \in Unfinished(t)
    BY <1>2, <1>3 DEF Unfinished
  <2>2. \A i \in 1 .. n - 1 : On(u, i) # c
    BY <1>6, <1>7
  <2> QED
    BY <1>4, <1>5, <1>7, <2>1, <2>2 DEF Unfinished
<1> QED
  BY <1>8, <1>9, <1>10, <1>11

\* A step that is not the last leaves less to do.
LEMMA StepLeavesLess ==
    ASSUME nodes \subseteq Company, NEW t, SearchInv(t), ~Searched(t)
    PROVE  StepsLeft(SearchStep(t)) < StepsLeft(t)
<1> DEFINE n == Len(t.work)
           c == On(t, n)
<1>1. SearchType(t) /\ PathOnStack(t) /\ StackOrdered(t)
  BY DEF SearchInv, SearchRest
<1>2. CASE t.work = <<>>
  <2> DEFINE r == CHOOSE v \in Unvisited(t) : TRUE
  <2>1. r \in Unvisited(t)
    BY <1>2 DEF Searched
  <2>2. r \in nodes /\ t.index[r] = 0
    BY <2>1 DEF Unvisited
  <2>3. SearchStep(t) = Visit(t, r)
    BY <1>2, <2>1 DEF SearchStep, Unvisited
  <2> HIDE DEF r
  <2>4. /\ Unvisited(Visit(t, r)) \subseteq Unvisited(t) /\ r \notin Unvisited(Visit(t, r))
        /\ Unfinished(Visit(t, r)) \subseteq Unfinished(t)
        /\ Ungiven(Visit(t, r)) \subseteq Ungiven(t)
    BY <1>1, <2>2, VisitLeaves
  <2>5. Unvisited(Visit(t, r)) # Unvisited(t)
    BY <2>1, <2>4
  <2> QED
    BY <2>3, <2>4, <2>5, LessLeft
<1>3. CASE t.work # <<>> /\ t.work[n].rest # {}
  <2> DEFINE d == CHOOSE d \in t.work[n].rest : TRUE
             g == Given(t, d)
             u == SearchStep(t)
  <2>1. d \in t.work[n].rest /\ u = Successor(t, c)
    BY <1>3 DEF SearchStep, On
  <2>2. n \in DOMAIN t.work /\ n \in 1 .. n /\ c \in nodes
    BY <1>1, <1>3, SequenceTypes, FieldTypes
  <2>3. d \in nodes
    BY <1>1, <2>1, <2>2 DEF PathOnStack, Controlled
  <2>4. /\ u = Visit(g, d) /\ t.index[d] = 0
        \/ u = Lowered(g, c, d)
        \/ u = g
    <3>1. g.low = t.low /\ g.index = t.index
      <4> HIDE DEF d
      <4> QED
        BY <1>1, <1>3, GivenMoves
    <3>2. t.index[d] = 0 => Successor(t, c) = Visit(g, d)
      BY DEF Successor, Given
    <3>3. t.index[d] # 0 => Successor(t, c) \in {Lowered(g, c, d), g}
      BY <3>1 DEF Successor, Given, Lowered
    <3> QED
      BY <2>1, <3>2, <3>3
  <2> HIDE DEF d, u
  <2>5. /\ Unvisited(g) = Unvisited(t) /\ Unfinished(g) = Unfinished(t)
        /\ Ungiven(g) \subseteq Ungiven(t) /\ Ungiven(g) # Ungiven(t)
    BY <1>3, <2>1, GivenLeaves
  <2>6. SearchType(g) /\ g.index = t.index
    BY <1>1, <1>3, GivenMoves
  <2> HIDE DEF g
  <2>7. /\ Unvisited(u) \subseteq Unvisited(g) /\ Unfinished(u) \subseteq Unfinished(g)
        /\ Ungiven(u) \subseteq Ungiven(g)
    <3>1. CASE u = Visit(g, d) /\ t.index[d] = 0
      BY <2>3, <2>6, <3>1, VisitLeaves
    <3>2. CASE u = Lowered(g, c, d)
      <4>1. u.index = g.index /\ u.work = g.work
        BY <2>6, <3>2 DEF Lowered, SearchType
      <4> QED
        BY <4>1 DEF Unvisited, Unfinished, Ungiven, Waiting, On
    <3>3. CASE u = g
      BY <3>3
    <3> QED
      BY <2>4, <3>1, <3>2, <3>3
  <2>8. Unvisited(u) \subseteq Unvisited(t) /\ Unfinished(u) \subseteq Unfinished(t)
        /\ Ungiven(u) \subseteq Ungiven(t) /\ Ungiven(u) # Ungiven(t)
    BY <2>5, <2>7
  <2> QED
    BY <2>8, LessLeft DEF u
<1>4. CASE t.work # <<>> /\ t.work[n].rest = {}
  <2> DEFINE w == Component(t, c)
  <2>1. SearchStep(t) = Ascend(w, c)
    BY <1>4 DEF SearchStep, On
  <2>2. n \in DOMAIN t.work /\ n \in 1 .. n
    BY <1>1, <1>4, SequenceTypes, FieldTypes
  <2>3. OnStack(t, c)
    BY <1>1, <2>2 DEF PathOnStack
  <2>4. SearchType(w) /\ w.index = t.index /\ w.work = t.work
    <3>1. CASE t.low[c] = t.index[c]
      BY <1>1, <2>3, <3>1, ComponentMoves
    <3>2. CASE t.low[c] # t.index[c]
      BY <1>1, <3>2 DEF Component
    <3> QED
      BY <3>1, <3>2
  <2> HIDE DEF w
  <2>5. /\ Unvisited(Ascend(w, c)) = Unvisited(t) /\ Ungiven(Ascend(w, c)) \subseteq Ungiven(t)
        /\ Unfinished(Ascend(w, c)) \subseteq Unfinished(t)
        /\ Unfinished(Ascend(w, c)) # Unfinished(t)
    BY <1>4, <2>4, AscendLeaves
  <2> QED
    BY <2>1, <2>5, LessLeft
<1> QED
  BY <1>2, <1>3, <1>4

-----------------------------------------------------------------------------
(***************************************************************************)
(* The whole search.                                                       *)
(***************************************************************************)
IsSearch(T, m) ==
    T = [n \in 0 .. m |-> IF n = 0 THEN Unsearched ELSE SearchStep(T[n - 1])]

Steps == 2 * Cardinality(nodes) + Cardinality(EdgeSet)

LEMMA SearchExists ==
    ASSUME NEW m \in Nat
    PROVE  \E T : IsSearch(T, m)
<1> DEFINE Without == {k \in Nat : ~ \E T : IsSearch(T, k)}
<1>1. SUFFICES ASSUME Without # {} PROVE FALSE
  OBVIOUS
<1>2. PICK k \in Without : \A j \in Without : k <= j
  <2> HIDE DEF Without
  <2>1. Without \in SUBSET Nat
    BY DEF Without
  <2> QED
    BY <1>1, <2>1, LeastNumber
<1>3. CASE k = 0
  <2> DEFINE T == [n \in 0 .. 0 |-> Unsearched]
  <2>1. T = [n \in 0 .. 0 |-> IF n = 0 THEN Unsearched ELSE SearchStep(T[n - 1])]
    OBVIOUS
  <2> QED
    BY <1>3, <2>1 DEF IsSearch
<1>4. CASE k # 0
  <2>1. k - 1 \in Nat /\ k - 1 \notin Without
    BY <1>2, <1>4
  <2>2. PICK T : IsSearch(T, k - 1)
    BY <2>1
  <2> DEFINE B == [n \in 0 .. k |-> IF n = k THEN SearchStep(T[k - 1]) ELSE T[n]]
  <2>3. ASSUME NEW n \in 0 .. k
        PROVE  B[n] = IF n = 0 THEN Unsearched ELSE SearchStep(B[n - 1])
    <3>1. CASE n = k
      <4>1. B[n] = SearchStep(T[k - 1]) /\ B[n - 1] = T[k - 1] /\ n # 0
        BY <1>2, <1>4, <3>1
      <4> QED
        BY <3>1, <4>1
    <3>2. CASE n # k
      <4>1. n \in 0 .. k - 1 /\ B[n] = T[n]
        BY <1>2, <3>2
      <4>2. n # 0 => n - 1 \in 0 .. k /\ n - 1 # k /\ B[n - 1] = T[n - 1]
        BY <1>2, <3>2
      <4>3. T[n] = IF n = 0 THEN Unsearched ELSE SearchStep(T[n - 1])
        BY <2>2, <4>1 DEF IsSearch
      <4> QED
        BY <4>1, <4>2, <4>3
    <3> QED
      BY <3>1, <3>2
  <2>4. B = [n \in 0 .. k |-> IF n = 0 THEN Unsearched ELSE SearchStep(B[n - 1])]
    BY <2>3
  <2> QED
    BY <1>2, <2>4 DEF IsSearch
<1> QED
  BY <1>3, <1>4

\* Every state of the search keeps the invariant and the bound on what is left.
LEMMA SearchProgress ==
    ASSUME nodes \subseteq Company, EdgesOfNodes, NEW m \in Nat, NEW T, IsSearch(T, m),
           StepsLeft(Unsearched) = m, NEW k \in 0 .. m
    PROVE  SearchInv(T[k]) /\ (Searched(T[k]) \/ StepsLeft(T[k]) + k <= m)
<1> DEFINE Fine(j) == SearchInv(T[j]) /\ (Searched(T[j]) \/ StepsLeft(T[j]) + j <= m)
           Wrong == {j \in 0 .. m : ~Fine(j)}
<1>1. SUFFICES ASSUME Wrong # {} PROVE FALSE
  OBVIOUS
<1>2. PICK j \in Wrong : \A i \in Wrong : j <= i
  <2>1. Wrong \in SUBSET Nat
    OBVIOUS
  <2> HIDE DEF Wrong
  <2> QED
    BY <1>1, <2>1, LeastNumber
<1>3. j \in 0 .. m /\ ~Fine(j)
  BY <1>2
<1>4. T[j] = IF j = 0 THEN Unsearched ELSE SearchStep(T[j - 1])
  BY <1>3 DEF IsSearch
<1>5. CASE j = 0
  <2>1. T[j] = Unsearched
    BY <1>4, <1>5
  <2>2. StepsLeft(T[j]) + j <= m
    BY <1>5, <2>1
  <2> QED
    BY <1>3, <2>1, <2>2, SearchBegins
<1>6. CASE j # 0
  <2> DEFINE t == T[j - 1]
  <2>1. j - 1 \in 0 .. m /\ j - 1 \notin Wrong
    BY <1>2, <1>3, <1>6
  <2>2. SearchInv(t) /\ (Searched(t) \/ StepsLeft(t) + (j - 1) <= m)
    BY <2>1
  <2>3. T[j] = SearchStep(t)
    BY <1>4, <1>6
  <2> HIDE DEF t
  <2>4. SearchInv(T[j])
    BY <2>2, <2>3, SearchKeeps
  <2>5. CASE Searched(t)
    <3>1. SearchStep(t) = t
      BY <2>5 DEF SearchStep, Searched, Unvisited
    <3> QED
      BY <1>3, <2>3, <2>4, <2>5, <3>1
  <2>6. CASE ~Searched(t)
    <3>1. StepsLeft(SearchStep(t)) < StepsLeft(t)
      BY <2>2, <2>6, StepLeavesLess
    <3>2. StepsLeft(SearchStep(t)) \in Nat /\ StepsLeft(t) \in Nat
      BY FiniteLeft
    <3>3. StepsLeft(T[j]) + j <= m
      BY <1>3, <2>2, <2>3, <2>6, <3>1, <3>2
    <3> QED
      BY <1>3, <2>4, <3>3
  <2> QED
    BY <2>5, <2>6
<1> QED
  BY <1>5, <1>6

LEMMA StepsAtFirst ==
    ASSUME nodes \subseteq Company
    PROVE  StepsLeft(Unsearched) = Steps /\ Steps \in Nat
<1>1. \A v \in nodes : Unsearched.index[v] = 0
  BY DEF Unsearched
<1>2. Unvisited(Unsearched) = nodes /\ Unfinished(Unsearched) = nodes
  BY <1>1 DEF Unvisited, Unfinished
<1>3. Ungiven(Unsearched) = EdgeSet
  BY <1>1 DEF Ungiven, EdgeSet
<1>4. Cardinality(nodes) \in Nat /\ Cardinality(EdgeSet) \in Nat
  BY FiniteGraph, FS_CardinalityType
<1> QED
  BY <1>2, <1>3, <1>4 DEF StepsLeft, Steps

\* The components are those of a search that has ended.
LEMMA ComponentsSearched ==
    ASSUME nodes \subseteq Company, EdgesOfNodes
    PROVE  \E t : SearchInv(t) /\ Searched(t) /\ Components = t.out
<1>1. Steps \in Nat /\ StepsLeft(Unsearched) = Steps
  BY StepsAtFirst
<1> DEFINE T == CHOOSE T : IsSearch(T, Steps)
<1>2. IsSearch(T, Steps)
  BY <1>1, SearchExists
<1>3. Components = T[Steps].out
  BY DEF Components, IsSearch, Unsearched, Steps, EdgeSet
<1> HIDE DEF T
<1>4. Steps \in 0 .. Steps
  BY <1>1
<1>5. SearchInv(T[Steps]) /\ (Searched(T[Steps]) \/ StepsLeft(T[Steps]) + Steps <= Steps)
  BY <1>1, <1>2, <1>4, SearchProgress
<1>6. Searched(T[Steps])
  <2>1. SUFFICES ASSUME StepsLeft(T[Steps]) + Steps <= Steps PROVE Searched(T[Steps])
    BY <1>5
  <2> DEFINE t == T[Steps]
  <2> HIDE DEF t
  <2>2. /\ IsFiniteSet(Unvisited(t)) /\ Cardinality(Unvisited(t)) \in Nat
        /\ IsFiniteSet(Unfinished(t)) /\ Cardinality(Unfinished(t)) \in Nat
        /\ Cardinality(Ungiven(t)) \in Nat
    BY FiniteLeft
  <2>3. StepsLeft(t) \in Nat /\ StepsLeft(t) + Steps <= Steps
    BY <2>1, FiniteLeft DEF t
  <2>4. Cardinality(Unvisited(t)) = 0 /\ Cardinality(Unfinished(t)) = 0
    BY <1>1, <2>2, <2>3 DEF StepsLeft
  <2>5. Unvisited(t) = {} /\ Unfinished(t) = {}
    BY <2>2, <2>4, FS_EmptySet
  <2>6. SearchType(t)
    BY <1>5 DEF SearchInv, SearchRest, t
  <2>7. t.work = <<>>
    <3>1. SUFFICES ASSUME t.work # <<>> PROVE FALSE
      OBVIOUS
    <3>2. 1 \in DOMAIN t.work /\ On(t, 1) \in nodes
      BY <2>6, <3>1, SequenceTypes, FieldTypes
    <3> QED
      BY <2>5, <3>2 DEF Unfinished
  <2> QED
    BY <2>5, <2>7 DEF Searched, t
<1> QED
  BY <1>3, <1>5, <1>6

\* The gate's test finds a cycle exactly when a company is below itself.
LEMMA CycleFoundIsCycle ==
    ASSUME nodes \subseteq Company, EdgesOfNodes
    PROVE  CycleFound <=> \E c \in Company : c \in Below(c)
<1>1. PICK t : SearchInv(t) /\ Searched(t) /\ Components = t.out
  BY ComponentsSearched
<1>2. PathOnStack(t) /\ OutRight(t) /\ t.work = <<>> /\ Unvisited(t) = {}
  BY <1>1 DEF SearchInv, SearchRest, Searched
<1>3. \A v \in nodes : Popped(t, v)
  BY <1>2 DEF PathOnStack, Popped, Unvisited
<1>4. ASSUME CycleFound
      PROVE  \E c \in Company : c \in Below(c)
  <2>1. CASE \E comp \in Components : Cardinality(comp) > 1
    BY <1>1, <1>2, <2>1 DEF OutRight
  <2>2. ASSUME NEW c \in nodes, HasControl(c, c)
        PROVE  \E b \in Company : b \in Below(b)
    BY <2>2, BelowOne
  <2> QED
    BY <1>4, <2>1, <2>2 DEF CycleFound
<1>5. ASSUME NEW c \in Company, c \in Below(c)
      PROVE  CycleFound
  <2>1. c \in nodes
    <3>1. SUFFICES ASSUME c \notin nodes PROVE FALSE
      OBVIOUS
    <3>2. Closed(c, {})
      BY <3>1 DEF Closed, EdgesOfNodes
    <3> QED
      BY <1>5, <3>2 DEF Below
  <2> QED
    BY <1>1, <1>2, <1>3, <1>5, <2>1 DEF OutRight, CycleFound
<1> QED
  BY <1>4, <1>5

-----------------------------------------------------------------------------
(***************************************************************************)
(* The verdict still tells of the graph: its edges lie between nodes, as   *)
(* the statements queued do.                                               *)
(***************************************************************************)

\* A CONTROLS statement finds its two nodes, or its parent queued before it.
Grounded(q) ==
    \A i \in 1 .. Len(q) :
        q[i].op = "control" =>
            /\ q[i].child \in nodes
            /\ \/ q[i].parent \in nodes
               \/ \E j \in 1 .. (i - 1) : q[j].op = "external" /\ q[j].of = q[i].parent

\* What the Level-2 stage read are nodes, those it maps and those it iterates over.
NodesRead ==
    InStage("l2") /\ opened =>
        /\ \A l \in Leis : uuidOf[l] # None => uuidOf[l] \in nodes
        /\ todo \subseteq nodes

\* A verdict is of a script that ended, and of the graph as it is.
VerdictHolds ==
    verdict # "none" =>
        stages = <<>> /\ (verdict = "cycle" <=> \E c \in Company : c \in Below(c))

GateInv == GraphInv /\ EdgesOfNodes /\ Grounded(queue) /\ NodesRead /\ VerdictHolds

\* Without a CONTROLS statement nothing is asked.
LEMMA GroundedOther ==
    ASSUME NEW q, \A i \in 1 .. Len(q) : q[i].op # "control"
    PROVE  Grounded(q)
BY DEF Grounded

LEMMA GroundedEmpty == Grounded(<<>>)
BY DEF Grounded

LEMMA GroundedOne ==
    ASSUME NEW x, x.op # "control"
    PROVE  Grounded(<<x>>)
<1>1. Len(<<x>>) = 1 /\ \A i \in 1 .. 1 : <<x>>[i] = x
  OBVIOUS
<1> QED
  BY <1>1, GroundedOther

\* Grounded parts make a grounded queue.
LEMMA GroundedConcat ==
    ASSUME NEW q \in Seq(Statements), NEW r \in Seq(Statements), Grounded(q), Grounded(r)
    PROVE  Grounded(q \o r)
<1> DEFINE s == q \o r
<1>1. /\ Len(s) = Len(q) + Len(r) /\ Len(q) \in Nat /\ Len(r) \in Nat
      /\ \A i \in 1 .. Len(q) : s[i] = q[i]
      /\ \A i \in 1 .. Len(r) : s[i + Len(q)] = r[i]
  OBVIOUS
<1> HIDE DEF s
<1>2. ASSUME NEW i \in 1 .. Len(s), s[i].op = "control"
      PROVE  /\ s[i].child \in nodes
             /\ \/ s[i].parent \in nodes
                \/ \E j \in 1 .. (i - 1) : s[j].op = "external" /\ s[j].of = s[i].parent
  <2>1. CASE i <= Len(q)
    <3>1. i \in 1 .. Len(q) /\ s[i] = q[i] /\ \A j \in 1 .. (i - 1) : s[j] = q[j]
      BY <1>1, <1>2, <2>1
    <3> QED
      BY <1>2, <3>1 DEF Grounded
  <2>2. CASE i > Len(q)
    <3> DEFINE k == i - Len(q)
    <3>1. k \in 1 .. Len(r) /\ s[i] = r[k] /\ k + Len(q) = i
      BY <1>1, <1>2, <2>2
    <3>2. ASSUME NEW j \in 1 .. (k - 1)
          PROVE  j + Len(q) \in 1 .. (i - 1) /\ s[j + Len(q)] = r[j]
      <4>1. j \in 1 .. Len(r)
        BY <1>1, <3>1
      <4> QED
        BY <1>1, <3>1, <4>1
    <3> HIDE DEF k
    <3>3. /\ r[k].child \in nodes
          /\ \/ r[k].parent \in nodes
             \/ \E j \in 1 .. (k - 1) : r[j].op = "external" /\ r[j].of = r[k].parent
      BY <1>2, <3>1 DEF Grounded
    <3>4. ASSUME NEW j \in 1 .. (k - 1), r[j].op = "external", r[j].of = r[k].parent
          PROVE  \E m \in 1 .. (i - 1) : s[m].op = "external" /\ s[m].of = s[i].parent
      BY <3>1, <3>2, <3>4
    <3> QED
      BY <3>1, <3>3, <3>4
  <2> QED
    BY <1>1, <1>2, <2>1, <2>2
<1> QED
  BY <1>2 DEF Grounded, s

\* The edges to a reported parent come after the node minted for it.
LEMMA GroundedReported ==
    ASSUME TypeOK, NodesRead, InStage("l2"), opened, NEW l \in Leis, NEW c \in nodes,
           NEW e \in Seq(Statements), Parent(l) = None => e = <<>>,
           \A i \in 1 .. Len(e) :
               e[i].op = "control" => e[i].parent = Parent(l) /\ e[i].child = c
    PROVE  Grounded(Mint(l) \o e)
<1>1. CASE Parent(l) = None
  <2>1. Mint(l) = <<>> /\ e = <<>>
    <3>1. None \notin Leis
      BY NamesAssumption DEF Company
    <3> QED
      BY <1>1, <3>1 DEF Parent, Mint
  <2>2. Mint(l) \o e = <<>>
    BY <2>1
  <2> QED
    BY <2>2, GroundedEmpty
<1>2. CASE uuidOf[l] # None
  <2>1. Mint(l) = <<>> /\ Parent(l) \in nodes
    BY <1>2 DEF Mint, Parent, NodesRead
  <2>2. Mint(l) \o e = e
    BY <2>1
  <2> QED
    BY <2>1, <2>2 DEF Grounded
<1>3. CASE uuidOf[l] = None /\ Parent(l) # None
  <2> DEFINE x == External(l)
             s == <<x>> \o e
  <2>1. Mint(l) = <<x>> /\ Parent(l) = l
    BY <1>3 DEF Mint, Parent
  <2>2. x.op = "external" /\ x.of = l /\ x \in Statements
    BY SingleTypes DEF External
  <2> HIDE DEF x
  <2>3. /\ Len(s) = Len(e) + 1 /\ Len(e) \in Nat /\ s[1] = x
        /\ \A i \in 2 .. Len(s) : s[i] = e[i - 1] /\ i - 1 \in 1 .. Len(e)
    BY <2>2
  <2> HIDE DEF s
  <2>4. ASSUME NEW i \in 1 .. Len(s), s[i].op = "control"
        PROVE  s[i].child \in nodes /\ 1 \in 1 .. (i - 1) /\ s[1].of = s[i].parent
    <3>1. i # 1
      BY <2>2, <2>3, <2>4
    <3>2. i \in 2 .. Len(s)
      BY <2>3, <3>1
    <3>3. s[i] = e[i - 1] /\ i - 1 \in 1 .. Len(e)
      BY <2>3, <3>2
    <3> QED
      BY <2>1, <2>2, <2>3, <2>4, <3>2, <3>3
  <2>5. Grounded(s)
    BY <2>2, <2>3, <2>4 DEF Grounded
  <2> QED
    BY <2>1, <2>5 DEF s
<1> QED
  BY <1>1, <1>2, <1>3

LEMMA GroundedParents ==
    ASSUME TypeOK, NodesRead, InStage("l2"), opened, NEW c \in nodes, NEW a \in Answers
    PROVE  Grounded(DirectParent(c, a) \o UltimateParent(c, a))
<1>0. c \in Company
  BY DEF TypeOK
<1>1. Grounded(DirectParent(c, a))
  <2>1. CASE a.direct = None \/ a.direct = a.lei
    BY <2>1, GroundedEmpty DEF DirectParent
  <2>2. CASE ~(a.direct = None \/ a.direct = a.lei)
    <3> DEFINE p == Parent(a.direct)
               x == Control(p, c, "direct", FALSE)
               y == Subsidiary(p, c)
               e == IF p = None THEN <<>> ELSE <<x, y>>
    <3>1. a.direct \in Leis /\ p \in Company \cup {None}
      BY <2>2, WorldAssumption, ParentType
    <3>2. x.parent = p /\ x.child = c /\ y.op = "subsidiary"
      BY DEF Control, Subsidiary
    <3>3. p # None => x \in Statements /\ y \in Statements
      BY <1>0, <3>1, EdgeTypes DEF Bases, Gleif
    <3>4. DirectParent(c, a) = Mint(a.direct) \o e
      BY <2>2 DEF DirectParent
    <3> HIDE DEF x, y, p
    <3>5. e \in Seq(Statements) /\ (p = None => e = <<>>)
      BY <3>3, ShortSeqs
    <3>6. \A i \in 1 .. Len(e) : e[i].op = "control" => e[i].parent = p /\ e[i].child = c
      <4>1. CASE p = None
        BY <4>1
      <4>2. CASE p # None
        <5>1. e = <<x, y>>
          BY <4>2
        <5> HIDE DEF e
        <5>2. Len(e) = 2 /\ e[1] = x /\ e[2] = y
          BY <5>1
        <5>3. \A i \in 1 .. 2 : i = 1 \/ i = 2
          OBVIOUS
        <5> QED
          BY <3>2, <5>2, <5>3
      <4> QED
        BY <4>1, <4>2
    <3> HIDE DEF e
    <3> QED
      BY <3>1, <3>4, <3>5, <3>6, GroundedReported DEF p
  <2> QED
    BY <2>1, <2>2
<1>2. Grounded(UltimateParent(c, a))
  <2>1. CASE a.ultimate \in {None, a.lei, a.direct}
    BY <2>1, GroundedEmpty DEF UltimateParent
  <2>2. CASE a.ultimate \notin {None, a.lei, a.direct}
    <3> DEFINE p == Parent(a.ultimate)
               x == Control(p, c, "ultimate", FALSE)
               e == IF p = None THEN <<>> ELSE <<x>>
    <3>1. a.ultimate \in Leis /\ p \in Company \cup {None}
      BY <2>2, WorldAssumption, ParentType
    <3>2. x.parent = p /\ x.child = c
      BY DEF Control
    <3>3. p # None => x \in Statements
      BY <1>0, <3>1, EdgeTypes DEF Bases, Gleif
    <3>4. UltimateParent(c, a) = Mint(a.ultimate) \o e
      BY <2>2 DEF UltimateParent
    <3> HIDE DEF x, p
    <3>5. e \in Seq(Statements) /\ (p = None => e = <<>>)
      BY <3>3, ShortSeqs
    <3>6. \A i \in 1 .. Len(e) : e[i].op = "control" => e[i].parent = p /\ e[i].child = c
      BY <3>2
    <3> HIDE DEF e
    <3> QED
      BY <3>1, <3>4, <3>5, <3>6, GroundedReported DEF p
  <2> QED
    BY <2>1, <2>2
<1>3. DirectParent(c, a) \in Seq(Statements) /\ UltimateParent(c, a) \in Seq(Statements)
  BY <1>0, DirectType, UltimateType
<1> QED
  BY <1>1, <1>2, <1>3, GroundedConcat

\* A declared relation is written between nodes.
LEMMA GroundedDeclared ==
    ASSUME NEW r \in Relations, Resolved(r)
    PROVE  Grounded(Declared(r))
<1> DEFINE x == Control(r.parent, r.child, "kap", TRUE)
           y == Subsidiary(r.parent, r.child)
           z == Stake(r.parent, r.child)
           edges == IF r.kind = "subsidiary" THEN <<x, y>> ELSE <<>>
           stake == IF r.pct THEN <<z>> ELSE <<>>
<1>1. /\ r.parent \in nodes /\ r.child \in nodes
      /\ r.parent \in Company /\ r.child \in Company
  BY WorldAssumption DEF Resolved, Company
<1>2. /\ x \in Statements /\ x.parent = r.parent /\ x.child = r.child
      /\ y \in Statements /\ y.op = "subsidiary"
      /\ z \in Statements /\ z.op = "stake"
  BY <1>1, EdgeTypes DEF Control, Subsidiary, Stake, Bases
<1>3. Declared(r) = edges \o stake
  BY DEF Declared
<1> HIDE DEF x, y, z
<1>4. Grounded(<<x, y>>)
  <2>1. Len(<<x, y>>) = 2 /\ \A i \in 1 .. 2 : <<x, y>>[i] \in {x, y}
    OBVIOUS
  <2> QED
    BY <1>1, <1>2, <2>1 DEF Grounded
<1>5. Grounded(<<z>>)
  BY <1>2, GroundedOne
<1>6. /\ Grounded(edges) /\ edges \in Seq(Statements)
      /\ Grounded(stake) /\ stake \in Seq(Statements)
  BY <1>2, <1>4, <1>5, GroundedEmpty, ShortSeqs
<1> HIDE DEF edges, stake
<1> QED
  BY <1>3, <1>6, GroundedConcat

\* What an item queues is grounded.
LEMMA TakeGrounds ==
    ASSUME GateInv, TakeItem
    PROVE  Grounded(queue)'
<1>p. PICK item : item = NextItem
  OBVIOUS
<1>0. TypeOK /\ item \in todo
  BY <1>p DEF GateInv, GraphInv, TakeItem, NextItem
<1>1. ASSUME NEW s, NEW st, Take(s, item, st), Grounded(st)
      PROVE  Grounded(queue)'
  BY <1>1 DEF Take, Grounded, graph
<1>2. CASE TakeMember(item)
  <2>1. Seed(item).op # "control"
    BY DEF Seed
  <2> QED
    BY <1>1, <1>2, <2>1, GroundedOne DEF TakeMember, TakeOne
<1>3. CASE TakeUnidentified(item)
  <2>1. \A l : SetLei(item, l).op # "control"
    BY DEF SetLei
  <2>2. \A l : Grounded(<<SetLei(item, l)>>)
    BY <2>1, GroundedOne
  <2> QED
    BY <1>1, <1>3, <2>2, GroundedEmpty DEF TakeUnidentified, TakeOne
<1>4. CASE TakeUnclassified(item)
  <2>1. SetStatus(item).op # "control"
    BY DEF SetStatus
  <2> QED
    BY <1>1, <1>4, <2>1, GroundedOne DEF TakeUnclassified, TakeOne
<1>5. CASE TakeChild(item)
  <2>1. CASE TakeOne("l2", item, <<>>)
    BY <1>1, <2>1, GroundedEmpty DEF TakeOne
  <2>2. ASSUME NEW a \in Answers,
               TakeOne("l2", item, DirectParent(item, a) \o UltimateParent(item, a))
        PROVE  Grounded(queue)'
    <3>1. InStage("l2") /\ opened
      BY <2>2 DEF TakeOne, Take
    <3>2. NodesRead /\ item \in nodes
      BY <1>0, <3>1 DEF GateInv, NodesRead
    <3> QED
      BY <1>0, <1>1, <2>2, <3>1, <3>2, GroundedParents DEF TakeOne
  <2> QED
    BY <1>5, <2>1, <2>2 DEF TakeChild
<1>6. CASE TakeRelation(item)
  <2>1. CASE Resolved(item)
    BY <1>1, <1>6, <2>1, GroundedDeclared DEF TakeRelation
  <2>2. CASE ~Resolved(item)
    BY <1>1, <1>6, <2>2, GroundedEmpty DEF TakeRelation, TakeOne
  <2> QED
    BY <2>1, <2>2
<1>7. CASE TakeTicker(item)
  <2>1. CASE reference[item] = None
    BY <1>1, <1>7, <2>1, GroundedEmpty DEF TakeTicker, TakeOne
  <2>2. CASE reference[item] # None
    <3>1. Sector(item, reference[item], "kap-direct").op # "control"
      BY DEF Sector
    <3> QED
      BY <1>1, <1>7, <2>2, <3>1, GroundedOne DEF TakeTicker, TakeOne
  <2> QED
    BY <2>1, <2>2
<1>8. CASE TakeUnsectored(item)
  <2>1. \A p : Sector(item, leafOf[p], "inherited").op # "control"
    BY DEF Sector
  <2>2. \A p : Grounded(<<Sector(item, leafOf[p], "inherited")>>)
    BY <2>1, GroundedOne
  <2> QED
    BY <1>1, <1>8, <2>2, GroundedEmpty DEF TakeUnsectored, TakeOne
<1> QED
  BY <1>p, <1>2, <1>3, <1>4, <1>5, <1>6, <1>7, <1>8 DEF TakeItem

\* A statement written leaves the rest grounded, and an edge between nodes.
LEMMA WriteGrounds ==
    ASSUME GateInv, Write
    PROVE  nodes \subseteq nodes' /\ EdgesOfNodes' /\ Grounded(queue)'
<1>p. PICK q, r : q = queue /\ r = Tail(queue)
  OBVIOUS
<1>0. queue # <<>> /\ queue' = Tail(queue)
  BY DEF Write, WriteSeed, WriteLei, WriteExternal, WriteStatus, WriteControl,
         WriteSubsidiary, WriteStake, WriteSector, Next1
<1>1. /\ TypeOK /\ q[1] \in Statements /\ Head(queue) = q[1] /\ queue' = r
      /\ Len(q) \in Nat \ {0} /\ Len(r) = Len(q) - 1 /\ 1 \in 1 .. Len(q)
      /\ \A i \in 1 .. Len(r) : r[i] = q[i + 1]
      /\ Grounded(q) /\ EdgesOfNodes
  BY <1>p, <1>0, HeadAndTail DEF GateInv, GraphInv
<1>2. /\ nodes \subseteq nodes'
      /\ q[1].op = "external" => q[1].of \in nodes'
      /\ UNCHANGED controls \/ (WriteControl /\ q[1].op = "control")
  BY <1>1 DEF Write, WriteSeed, WriteLei, WriteExternal, WriteStatus, WriteControl,
         WriteSubsidiary, WriteStake, WriteSector, Next1
<1>3. EdgesOfNodes'
  <2>1. CASE UNCHANGED controls
    BY <1>1, <1>2, <2>1 DEF EdgesOfNodes, HasControl
  <2>2. CASE WriteControl /\ q[1].op = "control"
    <3>1. q[1].parent \in nodes /\ q[1].child \in nodes
      BY <1>1, <2>2 DEF Grounded
    <3>2. q[1].parent \in Company /\ q[1].child \in Company
      BY <1>1, <2>2, StatementFields
    <3>3. \A p, c \in Company :
            <<p, c>> # <<q[1].parent, q[1].child>> => controls'[<<p, c>>] = controls[<<p, c>>]
      BY <1>1, <2>2, <3>2 DEF WriteControl, TypeOK
    <3> QED
      BY <1>1, <1>2, <3>1, <3>3 DEF EdgesOfNodes, HasControl
  <2> QED
    BY <1>2, <2>1, <2>2
<1>4. ASSUME NEW i \in 1 .. Len(r), r[i].op = "control"
      PROVE  /\ r[i].child \in nodes'
             /\ \/ r[i].parent \in nodes'
                \/ \E j \in 1 .. (i - 1) : r[j].op = "external" /\ r[j].of = r[i].parent
  <2>1. r[i] = q[i + 1] /\ i + 1 \in 1 .. Len(q) /\ (i + 1) - 1 = i
    BY <1>1, <1>4
  <2>2. /\ r[i].child \in nodes
        /\ \/ r[i].parent \in nodes
           \/ \E j \in 1 .. i : q[j].op = "external" /\ q[j].of = r[i].parent
    BY <1>1, <1>4, <2>1 DEF Grounded
  <2>3. ASSUME NEW j \in 1 .. i, q[j].op = "external", q[j].of = r[i].parent, j # 1
        PROVE  \E m \in 1 .. (i - 1) : r[m].op = "external" /\ r[m].of = r[i].parent
    <3>1. j - 1 \in 1 .. (i - 1) /\ j - 1 \in 1 .. Len(r) /\ (j - 1) + 1 = j
      BY <1>1, <1>4, <2>3
    <3>2. r[j - 1] = q[j]
      BY <1>1, <3>1
    <3> QED
      BY <2>3, <3>1, <3>2
  <2> QED
    BY <1>2, <2>2, <2>3
<1>5. Grounded(queue)'
  BY <1>1, <1>4 DEF Grounded
<1> QED
  BY <1>2, <1>3, <1>5

\* Who is below whom depends on the edges alone.
LEMMA BelowStays ==
    ASSUME UNCHANGED controls
    PROVE  (\E c \in Company : c \in Below(c))' <=> \E c \in Company : c \in Below(c)
BY DEF Below, Closed, HasControl

\* The strengthening is inductive.
LEMMA GateStep ==
    ASSUME GateInv, [Next]_vars
    PROVE  GateInv'
<1>0. GraphInv /\ GraphInv'
  BY GraphStep DEF GateInv
<1>1. ASSUME UNCHANGED graph, Grounded(queue)', NodesRead', VerdictHolds'
      PROVE  GateInv'
  BY <1>0, <1>1 DEF GateInv, EdgesOfNodes, HasControl, graph
<1>2. ASSUME UNCHANGED graph, queue' = queue
      PROVE  Grounded(queue)'
  BY <1>2 DEF GateInv, Grounded, graph
<1>3. ASSUME UNCHANGED <<controls, verdict, stages>>
      PROVE  VerdictHolds'
  BY <1>3, BelowStays DEF GateInv, VerdictHolds
<1>4. ASSUME UNCHANGED <<stages, opened, uuidOf>>, todo' \subseteq todo, nodes \subseteq nodes'
      PROVE  NodesRead'
  BY <1>4 DEF GateInv, NodesRead, InStage
<1>5. CASE UNCHANGED vars
  <2>1. UNCHANGED graph /\ UNCHANGED <<controls, nodes, verdict, stages, opened, uuidOf, todo, queue>>
    BY <1>5 DEF vars, graph, script
  <2> QED
    BY <1>1, <1>2, <1>3, <1>4, <2>1
<1>6. ASSUME NEW s \in Scripts, NEW missing \in BOOLEAN, NEW mint \in BOOLEAN,
             Start(s, missing, mint)
      PROVE  GateInv'
  <2>1. UNCHANGED graph /\ queue' = queue /\ verdict' = "none" /\ opened' = FALSE
    BY <1>6 DEF Start
  <2>2. NodesRead' /\ VerdictHolds'
    BY <2>1 DEF NodesRead, VerdictHolds
  <2> QED
    BY <1>1, <1>2, <2>1, <2>2
<1>7. CASE Open
  <2>1. UNCHANGED graph /\ UNCHANGED <<nodes, controls, verdict, stages, queue>>
    BY <1>7 DEF Open, graph
  <2>2. NodesRead'
    <3>1. ASSUME InStage("l2")
          PROVE  /\ \A l \in Leis : uuidOf'[l] # None => uuidOf'[l] \in nodes
                 /\ todo' \subseteq nodes
      <4>1. uuidOf' \in UuidMaps /\ todo' = Targets("l2")
        BY <1>7, <3>1 DEF Open, InStage
      <4> QED
        BY <4>1 DEF UuidMaps, Targets
    <3> QED
      BY <2>1, <3>1 DEF NodesRead, InStage
  <2> QED
    BY <1>1, <1>2, <1>3, <2>1, <2>2
<1>8. ASSUME UNCHANGED graph, queue' = <<>>, opened' = FALSE, VerdictHolds'
      PROVE  GateInv'
  <2>1. Grounded(queue)' /\ NodesRead'
    BY <1>8 DEF Grounded, NodesRead
  <2> QED
    BY <1>1, <1>8, <2>1
<1>9. CASE Close
  <2>1. UNCHANGED graph /\ queue' = <<>> /\ opened' = FALSE /\ verdict' = verdict /\ stages # <<>>
    BY <1>9 DEF Close, Idle, Exit, Forget
  <2>2. VerdictHolds'
    BY <2>1 DEF GateInv, VerdictHolds
  <2> QED
    BY <1>8, <2>1, <2>2
<1>10. CASE Die
  <2>1. UNCHANGED graph /\ queue' = <<>> /\ opened' = FALSE /\ verdict' = verdict /\ stages # <<>>
    BY <1>10 DEF Die, Exit, Forget
  <2>2. VerdictHolds'
    BY <2>1 DEF GateInv, VerdictHolds
  <2> QED
    BY <1>8, <2>1, <2>2
<1>11. CASE Gate
  <2>1. /\ UNCHANGED graph /\ queue' = <<>> /\ opened' = FALSE /\ stages' = <<>>
        /\ verdict' = IF CycleFound THEN "cycle" ELSE "dag"
        /\ UNCHANGED controls
    BY <1>11 DEF Gate, Idle, Exit, Forget, graph
  <2>2. CycleFound <=> \E c \in Company : c \in Below(c)
    BY <1>0, CycleFoundIsCycle DEF GateInv, GraphInv, TypeOK
  <2>3. VerdictHolds'
    BY <2>1, <2>2, BelowStays DEF VerdictHolds
  <2> QED
    BY <1>8, <2>1, <2>3
<1>12. CASE ImportSectors
  <2>1. UNCHANGED graph /\ UNCHANGED <<controls, nodes, verdict, stages, opened, uuidOf, todo, queue>>
    BY <1>12 DEF ImportSectors, graph, script
  <2> QED
    BY <1>1, <1>2, <1>3, <1>4, <2>1
<1>13. CASE TakeItem
  <2>1. UNCHANGED graph /\ UNCHANGED <<nodes, controls, verdict, stages, opened, uuidOf>>
        /\ todo' \subseteq todo
    BY <1>13 DEF TakeItem, TakeMember, TakeUnidentified, TakeUnclassified,
       TakeChild, TakeRelation, TakeTicker, TakeUnsectored, TakeOne, Take, graph
  <2> QED
    BY <1>1, <1>3, <1>4, <1>13, <2>1, TakeGrounds
<1>14. CASE Write
  <2>1. UNCHANGED <<verdict, stages, opened, uuidOf, todo>> /\ queue # <<>>
    BY <1>14 DEF Write, WriteSeed, WriteLei, WriteExternal, WriteStatus, WriteControl,
       WriteSubsidiary, WriteStake, WriteSector, Next1
  <2>2. VerdictHolds'
    <3>1. stages # <<>>
      BY <1>0, <2>1 DEF GraphInv, TypeOK
    <3> QED
      BY <2>1, <3>1 DEF GateInv, VerdictHolds
  <2> QED
    BY <1>0, <1>4, <1>14, <2>1, <2>2, WriteGrounds DEF GateInv
<1> QED
  BY <1>5, <1>6, <1>7, <1>9, <1>10, <1>11, <1>12, <1>13, <1>14 DEF Next, RunScript

LEMMA GateInit ==
    ASSUME Init
    PROVE  GateInv
<1>1. EdgesOfNodes
  BY DEF Init, EdgesOfNodes, HasControl
<1>2. Grounded(queue) /\ NodesRead /\ VerdictHolds
  BY DEF Init, Grounded, NodesRead, VerdictHolds
<1> QED
  BY <1>1, <1>2, GraphInit DEF GateInv

-----------------------------------------------------------------------------
(***************************************************************************)
(* The results.                                                            *)
(***************************************************************************)

\* Every variable keeps its type, through any runs and deaths of the loaders.
THEOREM GraphTyped == Spec => []TypeOK
<1>1. Init => TypeOK
  BY TypeInit
<1>2. TypeOK /\ [Next]_vars => TypeOK'
  BY TypeStep
<1> QED
  BY <1>1, <1>2, PTL DEF Spec

\* No SUBSIDIARY_OF edge without its CONTROLS edge, for any answers, relations,
\* runs and deaths between the two writes.
THEOREM SubsidiaryIsControlled == Spec => []SubsidiaryControlled
<1>1. GraphInv => SubsidiaryControlled
  BY DEF GraphInv
<1> QED
  BY <1>1, GraphAlways, PTL

\* No loader writes a control edge of a company to itself, whatever LEIs the
\* name matcher gave and GLEIF reports.
THEOREM NobodyControlsItself == Spec => []NoSelfControl
<1>1. GraphInv => NoSelfControl
  BY DEF GraphInv
<1> QED
  BY <1>1, GraphAlways, PTL

\* The KAP stage never rewrites an edge GLEIF reported.
THEOREM GleifIsKept == Spec => GleifKept
<1>1. ASSUME GraphInv, [Next]_vars
      PROVE  \A p, c \in Company :
               controls[<<p, c>>] \in Gleif => controls'[<<p, c>>] \in Gleif
  <2>1. CASE UNCHANGED controls
    BY <2>1
  <2>2. CASE WriteControl
    <3> DEFINE s == Head(queue)
    <3>1. queue # <<>> /\ s.op = "control"
      BY <2>2 DEF WriteControl, Next1
    <3>2. TypeOK /\ s \in Statements /\ s = queue[1] /\ 1 \in 1 .. Len(queue)
      BY <1>1, <3>1, HeadAndTail DEF GraphInv
    <3> HIDE DEF s
    <3>3. /\ s.parent \in Company /\ s.child \in Company
          /\ s.keep \/ s.basis \in Gleif
      BY <1>1, <3>1, <3>2, StatementFields DEF GraphInv, Proper
    <3>4. controls \in [Company \X Company -> Bases \cup {"absent"}] /\ "absent" \notin Gleif
      BY <3>2 DEF TypeOK, Gleif
    <3>5. controls' = IF s.keep /\ HasControl(s.parent, s.child) THEN controls
                      ELSE [controls EXCEPT ![<<s.parent, s.child>>] = s.basis]
      BY <2>2 DEF WriteControl, s
    <3>6. CASE s.basis \in Gleif
      BY <3>3, <3>4, <3>5, <3>6
    <3>7. CASE s.keep /\ HasControl(s.parent, s.child)
      BY <3>5, <3>7
    <3>8. CASE ~HasControl(s.parent, s.child)
      BY <3>3, <3>4, <3>5, <3>8 DEF HasControl
    <3> QED
      BY <3>3, <3>6, <3>7, <3>8
  <2> QED
    <3>1. CASE UNCHANGED vars
      BY <2>1, <3>1 DEF vars, graph
    <3>2. CASE RunScript
      BY <2>1, <3>2 DEF RunScript, Start, Open, Close, Gate, graph
    <3>3. CASE TakeItem
      BY <2>1, <3>3 DEF TakeItem, TakeMember, TakeUnidentified, TakeUnclassified,
         TakeChild, TakeRelation, TakeTicker, TakeUnsectored, TakeOne, Take, graph
    <3>4. CASE Write
      BY <2>1, <2>2, <3>4 DEF Write, WriteSeed, WriteLei, WriteExternal, WriteStatus,
         WriteSubsidiary, WriteStake, WriteSector
    <3>5. CASE Die \/ ImportSectors
      BY <2>1, <3>5 DEF Die, ImportSectors, graph
    <3> QED
      BY <1>1, <3>1, <3>2, <3>3, <3>4, <3>5 DEF Next
<1>2. GraphInv /\ [Next]_vars =>
        [\A p, c \in Company :
           controls[<<p, c>>] \in Gleif => controls'[<<p, c>>] \in Gleif]_vars
  BY <1>1
<1> QED
  BY <1>2, GraphAlways, PTL DEF Spec, GleifKept

\* No sector KAP assigned is removed or marked as inherited.
THEOREM KapSectorIsKept == Spec => KapSectorKept
<1>1. GraphInv /\ [Next]_vars =>
        [\A c \in Company : \A s \in Sectors :
           inSector[c][s] = "kap-direct" => inSector'[c][s] = "kap-direct"]_vars
  BY KapSectorStays
<1> QED
  BY <1>1, GraphAlways, PTL DEF Spec, KapSectorKept

\* Every inherited sector is KAP's of a company above, for any companies and
\* any order, repetition and deaths of the loaders that write the two.
THEOREM SectorsInheritedFromAbove == Spec => []InheritedFromAbove
<1>1. Init => TraceInv
  <2>1. SUFFICES ASSUME Init PROVE TraceInv
    OBVIOUS
  <2>2. GraphInv /\ Traced(queue) /\ LeafsHeld
    <3>1. GraphInv
      BY <2>1, GraphInit
    <3>2. Traced(queue)
      BY <2>1 DEF Init, Traced
    <3>3. LeafsHeld
      BY <2>1 DEF Init, LeafsHeld
    <3> QED
      BY <3>1, <3>2, <3>3
  <2>3. InheritedFromAbove
    BY <2>1 DEF Init, InheritedFromAbove
  <2> QED
    BY <2>2, <2>3 DEF TraceInv
<1>2. TraceInv /\ [Next]_vars => TraceInv'
  <2>1. SUFFICES ASSUME TraceInv, [Next]_vars PROVE TraceInv'
    OBVIOUS
  <2>2. GraphInv'
    BY <2>1, GraphStep DEF TraceInv
  <2> QED
    BY <2>1, <2>2, InheritedStays, QueueTraced, LeafsStayHeld DEF TraceInv
<1>3. TraceInv => InheritedFromAbove
  BY DEF TraceInv
<1> QED
  BY <1>1, <1>2, <1>3, PTL DEF Spec

\* The gate reports a cycle exactly when some company is below itself, for any
\* companies and any control graph the loaders and their deaths can leave:
\* Tarjan's components, with the explicit stack of the code, are right.
THEOREM GateIsExact == Spec => []GateExact
<1>1. GateInv => GateExact
  BY DEF GateInv, VerdictHolds, GateExact
<1>2. GateInv /\ [Next]_vars => GateInv'
  BY GateStep
<1>3. Init => GateInv
  BY GateInit
<1> QED
  BY <1>1, <1>2, <1>3, PTL DEF Spec
=============================================================================
