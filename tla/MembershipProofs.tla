-------------------------- MODULE MembershipProofs --------------------------
(***************************************************************************)
(* Proofs about universe_membership, for any symbols, classes, windows and *)
(* number of days.  The inductive invariant is Sourced; the properties of  *)
(* the as-of read follow from it and from the fact that a non-empty set of *)
(* vintages has a latest one.                                              *)
(***************************************************************************)
EXTENDS Membership, WellFoundedInduction, TLAPS

(* A non-empty set of naturals has a least element.                        *)
LEMMA LeastExists ==
  ASSUME NEW T \in SUBSET Nat, T # {}
  PROVE  \E m \in T : \A k \in T : m <= k
<1> DEFINE R == OpToRel(<, Nat)
<1>1. IsWellFoundedOn(R, Nat)
  BY NatLessThanWellFounded
<1>2. PICK m \in T : \A k \in T : <<k, m>> \notin R
  <2> HIDE DEF R
  <2> QED
    BY <1>1, WFMin
<1>3. \A k \in T : <<k, m>> \notin R => ~ (k < m)
  BY DEF OpToRel
<1> HIDE DEF R
<1>4. \A k \in T : ~ (k < m)
  BY <1>2, <1>3
<1> QED
  BY <1>4

(* Among vintages known by LastDay there is a latest one.                  *)
LEMMA LatestExists ==
  ASSUME NEW T \in SUBSET Days, T # {}
  PROVE  \E m \in T : \A k \in T : k <= m
<1> DEFINE Back == {LastDay - k : k \in T}
<1>1. Back \in SUBSET Nat /\ Back # {}
  <2>1. \A k \in T : LastDay - k \in Nat
    BY LastDayAssumption DEF Days
  <2>2. QED
    BY <2>1
<1>2. PICK b \in Back : \A k \in Back : b <= k
  <2> HIDE DEF Back
  <2> QED
    BY <1>1, LeastExists
<1>3. PICK m \in T : b = LastDay - m
  BY <1>2
<1>4. \A k \in T : LastDay - m <= LastDay - k
  BY <1>2, <1>3
<1> QED
  BY <1>4, LastDayAssumption DEF Days

(***************************************************************************)
(* The writers.                                                            *)
(***************************************************************************)

(* Every span a job derives from the graph is a well-typed open span.      *)
LEMMA DerivedSpansOpen ==
  ASSUME TypeOK, NEW names \in SUBSET Symbols, NEW u \in Universes,
         NEW start \in Days, NEW k \in Days,
         NEW new \in DerivedSpans(names, u, start, k)
  PROVE  /\ new \subseteq Row
         /\ \A r \in new : r.to = Open /\ r.source = "graph"
         /\ \A r, q \in new : Key(r) = Key(q) => r = q
<1>1. PICK class \in {f \in [{s \in names : sectors[s] # {}} -> Classes] :
                        \A s \in DOMAIN f : f[s] \in sectors[s]} :
        new = {[symbol |-> s, universe |-> u, class |-> class[s], from |-> start,
                to |-> Open, kd |-> k, source |-> "graph"] : s \in DOMAIN class}
  BY DEF DerivedSpans
<1>2. DOMAIN class \subseteq Symbols /\ \A s \in DOMAIN class : class[s] \in Classes
  OBVIOUS
<1>3. QED
  BY <1>1, <1>2 DEF Row, Key, Open

(* The two rows of a golden.                                               *)
LEMMA SourcedSpansShape ==
  ASSUME TypeOK, AnnouncedWhileListed, NEW s \in Symbols, announced[s] # Never,
         NEW c \in Classes \cup {NoClass}
  PROVE  /\ SourcedSpans(s, c) \subseteq Row
         /\ \A r \in SourcedSpans(s, c) :
              /\ r.symbol = s /\ r.universe = "listed" /\ r.from = Listing[s]
              /\ r.source = "golden"
              /\ (r.to = Open /\ r.kd = Listing[s])
                   \/ (r.to = last[s] /\ r.kd = announced[s])
         /\ \A r, q \in SourcedSpans(s, c) : Key(r) = Key(q) => r = q
         /\ \E r \in SourcedSpans(s, c) : OpenVersion(s, r)
<1> DEFINE open == GoldenRow(s, c, Open, Listing[s])
           closed == GoldenRow(s, c, last[s], announced[s])
<1>1. SourcedSpans(s, c) = {open, closed}
  BY DEF SourcedSpans
<1>2. Listing[s] \in Days /\ last[s] \in Days \cup {Open} /\ announced[s] \in Days
  BY ListingAssumption DEF TypeOK, Never, Open
<1>3. Listing[s] # announced[s]
  BY <1>2, LastDayAssumption DEF AnnouncedWhileListed, Days
<1>4. open \in Row /\ closed \in Row
  BY <1>2 DEF Row, Universes, GoldenRow
<1>5. \A r, q \in {open, closed} : Key(r) = Key(q) => r = q
  BY <1>3 DEF Key, GoldenRow
<1>6. OpenVersion(s, open)
  BY DEF OpenVersion, GoldenRow
<1>7. QED
  BY <1>1, <1>4, <1>5, <1>6 DEF GoldenRow

(* Landing a frame of typed rows with distinct keys keeps the key and the  *)
(* type; a key is filled afterwards, by this frame or by an earlier row.   *)
LEMMA LandKeepsKeys ==
  ASSUME TypeOK, OneVersionPerVintage, NEW new \in SUBSET Row,
         \A r, q \in new : Key(r) = Key(q) => r = q, Land(new)
  PROVE  /\ rows \subseteq rows' /\ rows' \subseteq rows \cup new
         /\ rows' \subseteq Row
         /\ OneVersionPerVintage'
         /\ \A r \in new : \E q \in rows' : Key(q) = Key(r)
<1>1. rows' = rows \cup {r \in new : \A q \in rows : Key(q) # Key(r)}
  BY DEF Land
<1>2. \A r, q \in rows' : Key(r) = Key(q) => r = q
  BY <1>1 DEF OneVersionPerVintage
<1>3. QED
  BY <1>1, <1>2 DEF OneVersionPerVintage, TypeOK, Key

(***************************************************************************)
(* The inductive invariant.                                                *)
(***************************************************************************)
LEMMA InitSourced == Init => Sourced
<1> SUFFICES ASSUME Init PROVE Sourced
  OBVIOUS
<1>1. 1 \in Days
  BY LastDayAssumption DEF Days
<1>2. TypeOK
  BY <1>1 DEF Init, TypeOK, Never
<1>3. QED
  BY <1>2 DEF Init, Sourced, OneVersionPerVintage, ClosedIsSourced,
              GoldenIsOpenOrClosed, AnnouncedWhileListed, OpenBesideClosed,
              DelistingLanded, Never

(* An open span of the graph jobs disturbs no sourced span.                *)
LEMMA DerivedSourced ==
  ASSUME Sourced, NEW names \in SUBSET Symbols, NEW u \in Universes,
         NEW start \in Days, NEW k \in Days,
         NEW new \in DerivedSpans(names, u, start, k), Land(new),
         UNCHANGED <<today, sectors, last, announced>>
  PROVE  Sourced'
<1>1. /\ new \subseteq Row
      /\ \A r \in new : r.to = Open /\ r.source = "graph"
      /\ \A r, q \in new : Key(r) = Key(q) => r = q
  BY DerivedSpansOpen DEF Sourced
<1>2. /\ rows \subseteq rows' /\ rows' \subseteq rows \cup new
      /\ rows' \subseteq Row
      /\ OneVersionPerVintage'
  BY <1>1, LandKeepsKeys DEF Sourced
<1>3. TypeOK'
  BY <1>2 DEF Sourced, TypeOK
<1>4. ClosedIsSourced' /\ GoldenIsOpenOrClosed' /\ AnnouncedWhileListed'
  BY <1>1, <1>2 DEF Sourced, ClosedIsSourced, GoldenIsOpenOrClosed, AnnouncedWhileListed
<1>5. \A s \in Symbols : DelistingLanded(s)' => DelistingLanded(s)
  BY <1>1, <1>2 DEF DelistingLanded
<1>6. OpenBesideClosed'
  BY <1>2, <1>5 DEF Sourced, OpenBesideClosed, OpenVersion
<1>7. QED
  BY <1>2, <1>3, <1>4, <1>6 DEF Sourced

(* Both rows of a golden land, or a row under the same key is there.       *)
LEMMA DelistingSourced ==
  ASSUME Sourced, NEW s \in Symbols, IngestDelisting(s)
  PROVE  Sourced'
<1>1. PICK c \in Classes \cup {NoClass} : Land(SourcedSpans(s, c))
  BY DEF IngestDelisting
<1>2. announced[s] # Never /\ UNCHANGED <<today, sectors, last, announced>>
  BY DEF IngestDelisting
<1> DEFINE new == SourcedSpans(s, c)
<1>3. /\ new \subseteq Row
      /\ \A r \in new :
              /\ r.symbol = s /\ r.universe = "listed" /\ r.from = Listing[s]
              /\ r.source = "golden"
              /\ (r.to = Open /\ r.kd = Listing[s])
                   \/ (r.to = last[s] /\ r.kd = announced[s])
      /\ \A r, q \in new : Key(r) = Key(q) => r = q
      /\ \E r \in new : OpenVersion(s, r)
  BY <1>2, SourcedSpansShape DEF Sourced
<1> HIDE DEF new
<1>4. /\ rows \subseteq rows' /\ rows' \subseteq rows \cup new
      /\ rows' \subseteq Row
      /\ OneVersionPerVintage'
      /\ \A r \in new : \E q \in rows' : Key(q) = Key(r)
  BY <1>1, <1>3, LandKeepsKeys DEF Sourced, new
<1>5. TypeOK'
  BY <1>2, <1>4 DEF Sourced, TypeOK
<1>6. AnnouncedWhileListed'
  BY <1>2 DEF Sourced, AnnouncedWhileListed
<1>7. last[s] # Open
  <2>1. Listing[s] \in Nat /\ announced[s] \in Nat /\ last[s] \in Nat
    BY LastDayAssumption, ListingAssumption DEF Sourced, TypeOK, Days, Never
  <2>2. QED
    BY <1>2, <2>1 DEF Sourced, AnnouncedWhileListed, Open
<1>8. ClosedIsSourced' /\ GoldenIsOpenOrClosed'
  BY <1>2, <1>3, <1>4, <1>7 DEF Sourced, ClosedIsSourced, GoldenIsOpenOrClosed
<1>9. OpenBesideClosed'
  <2>1. ASSUME NEW t \in Symbols, DelistingLanded(t)', t # s
        PROVE  \E r \in rows' : OpenVersion(t, r)'
    <3>1. DelistingLanded(t)
      BY <1>3, <1>4, <2>1 DEF DelistingLanded
    <3>2. QED
      BY <1>4, <3>1 DEF Sourced, OpenBesideClosed, OpenVersion
  <2>2. \E r \in rows' : OpenVersion(s, r)'
    <3>1. PICK q \in rows' : /\ q.symbol = s /\ q.universe = "listed"
                             /\ q.from = Listing[s] /\ q.kd = Listing[s]
      BY <1>3, <1>4 DEF OpenVersion, Key
    <3>2. Listing[s] # announced[s]
      BY <1>2, LastDayAssumption, ListingAssumption
         DEF Sourced, AnnouncedWhileListed, TypeOK, Days, Never
    <3>3. q.to = Open
      BY <1>2, <1>8, <3>1, <3>2 DEF ClosedIsSourced
    <3>4. QED
      BY <3>1, <3>3 DEF OpenVersion
  <2>3. QED
    BY <2>1, <2>2 DEF OpenBesideClosed
<1>10. QED
  BY <1>4, <1>5, <1>6, <1>8, <1>9 DEF Sourced

(* An announcement concerns a name that has no closed span yet.            *)
LEMMA AnnounceSourced ==
  ASSUME Sourced, NEW s \in Symbols, NEW day \in Days, Announce(s, day)
  PROVE  Sourced'
<1>1. TypeOK'
  BY DEF Announce, Sourced, TypeOK
<1>2. \A t \in Symbols : t # s => last'[t] = last[t] /\ announced'[t] = announced[t]
  BY DEF Announce, Sourced, TypeOK
<1>3. announced'[s] = today /\ last'[s] = day /\ Listing[s] < today /\ today <= day
  BY DEF Announce, Sourced, TypeOK
<1>4. \A r \in rows : r.symbol \in Symbols
  BY DEF Sourced, TypeOK, Row
<1>5. \A r \in rows : r.to # Open => r.symbol # s
  BY DEF Announce, Sourced, ClosedIsSourced
<1>6. rows' = rows
  BY DEF Announce
<1>7. ClosedIsSourced' /\ GoldenIsOpenOrClosed'
  BY <1>2, <1>4, <1>5, <1>6 DEF Sourced, ClosedIsSourced, GoldenIsOpenOrClosed
<1>8. AnnouncedWhileListed'
  BY <1>2, <1>3 DEF Sourced, AnnouncedWhileListed
<1>9. QED
  BY <1>1, <1>6, <1>7, <1>8 DEF Sourced, OneVersionPerVintage, OpenBesideClosed,
                                 DelistingLanded, OpenVersion

(* Sectors and time are not part of a row.                                 *)
LEMMA OtherSourced ==
  ASSUME Sourced,
         \/ Tick
         \/ \E s \in Symbols, c \in Classes : LinkSector(s, c)
         \/ UNCHANGED vars
  PROVE  Sourced'
<1>1. UNCHANGED <<rows, last, announced>>
  BY DEF Tick, LinkSector, vars
<1>2. TypeOK'
  <2>1. CASE Tick
    BY <2>1, LastDayAssumption DEF Tick, Sourced, TypeOK, Days
  <2>2. CASE \E s \in Symbols, c \in Classes : LinkSector(s, c)
    BY <2>2 DEF LinkSector, Sourced, TypeOK
  <2>3. CASE UNCHANGED vars
    BY <2>3 DEF vars, Sourced, TypeOK
  <2>4. QED
    BY <2>1, <2>2, <2>3
<1>3. QED
  BY <1>1, <1>2 DEF Sourced, OneVersionPerVintage, ClosedIsSourced,
        GoldenIsOpenOrClosed, AnnouncedWhileListed, OpenBesideClosed,
        DelistingLanded, OpenVersion

(* Every reachable table is Sourced.                                       *)
THEOREM AlwaysSourced == Spec => []Sourced
<1>1. Init => Sourced
  BY InitSourced
<1>2. Sourced /\ [Next]_vars => Sourced'
  <2> SUFFICES ASSUME Sourced, [Next]_vars PROVE Sourced'
    OBVIOUS
  <2>0. today \in Days /\ Starts \subseteq Days
    BY StartsAssumption DEF Sourced, TypeOK
  <2>1. ASSUME NEW s \in Symbols, IngestDelisting(s) PROVE Sourced'
    BY <2>1, DelistingSourced
  <2>2. ASSUME NEW s \in Symbols, NEW start \in Starts, OnboardSymbol(s, start)
        PROVE  Sourced'
    <3>1. PICK new \in DerivedSpans({s}, "listed", start, today) : Land(new)
      BY <2>2 DEF OnboardSymbol
    <3>2. UNCHANGED <<today, sectors, last, announced>>
      BY <2>2 DEF OnboardSymbol
    <3>3. {s} \in SUBSET Symbols /\ "listed" \in Universes /\ start \in Days
      BY <2>0 DEF Universes
    <3>4. QED
      BY <2>0, <3>1, <3>2, <3>3, DerivedSourced
  <2>3. ASSUME NEW start \in Starts, IngestUniverse(start) PROVE Sourced'
    <3>1. PICK landed \in SUBSET Symbols :
            \E new \in DerivedSpans(landed, "bist_all", start, start) : Land(new)
      BY <2>3 DEF IngestUniverse
    <3>2. UNCHANGED <<today, sectors, last, announced>>
      BY <2>3 DEF IngestUniverse
    <3>3. "bist_all" \in Universes /\ start \in Days
      BY <2>0 DEF Universes
    <3>4. QED
      BY <3>1, <3>2, <3>3, DerivedSourced
  <2>4. ASSUME NEW s \in Symbols, NEW day \in Days, Announce(s, day) PROVE Sourced'
    BY <2>4, AnnounceSourced
  <2>5. CASE Tick \/ (\E s \in Symbols, c \in Classes : LinkSector(s, c)) \/ UNCHANGED vars
    BY <2>5, OtherSourced
  <2>6. QED
    BY <2>1, <2>2, <2>3, <2>4, <2>5 DEF Next
<1>3. QED
  BY <1>1, <1>2, PTL DEF Spec

(***************************************************************************)
(* What follows from it.                                                   *)
(***************************************************************************)

(* The table always has its type.                                          *)
COROLLARY MembershipTypeOK == Spec => []TypeOK
<1>1. Sourced => TypeOK
  BY DEF Sourced
<1>2. QED
  BY <1>1, AlwaysSourced, PTL

(* A read as of a day is a function of the day: no two versions of a span  *)
(* share a knowledge date.                                                 *)
COROLLARY MembershipOneVersion == Spec => []OneVersionPerVintage
<1>1. Sourced => OneVersionPerVintage
  BY DEF Sourced
<1>2. QED
  BY <1>1, AlwaysSourced, PTL

(* No read uses a closed window before the delisting was announced.        *)
THEOREM MembershipNoForesight == Spec => []NoDelistingForesight
<1>1. Sourced => NoDelistingForesight
  BY DEF Sourced, ClosedIsSourced, NoDelistingForesight, Current, Visible
<1>2. QED
  BY <1>1, AlwaysSourced, PTL

(* Once its delisting is landed, a name is in every read dated inside its  *)
(* listed life.  The open version known at listing is visible by then, so  *)
(* the span has a latest visible version, and each version of it covers    *)
(* the day: it is open or ends on the last trading day.                    *)
THEOREM MembershipDeadNamesRetained == Spec => []DeadNamesRetained
<1>1. Sourced => DeadNamesRetained
  <2> SUFFICES ASSUME Sourced, NEW s \in Symbols, DelistingLanded(s),
                      NEW a \in Listing[s] .. last[s]
               PROVE  s \in Members("listed", a)
    BY DEF DeadNamesRetained
  <2>1. Listing[s] \in Nat /\ a \in Nat
    BY ListingAssumption, LastDayAssumption DEF Days
  <2>2. PICK o \in rows : OpenVersion(s, o)
    BY DEF Sourced, OpenBesideClosed
  <2> DEFINE versions == {r \in Visible("listed", a) : SameSpan(r, o)}
             kds == {r.kd : r \in versions}
  <2>3. o \in versions
    BY <2>1, <2>2 DEF Visible, OpenVersion, SameSpan
  <2>4. kds \in SUBSET Days /\ kds # {}
    BY <2>3 DEF Visible, Sourced, TypeOK, Row
  <2>5. PICK k \in kds : \A j \in kds : j <= k
    <3> HIDE DEF kds
    <3> QED
      BY <2>4, LatestExists
  <2>6. PICK m \in versions : m.kd = k
    OBVIOUS
  <2>7. m \in Current("listed", a)
    BY <2>5, <2>6 DEF Current, SameSpan
  <2>8. m.symbol = s /\ m.from = Listing[s]
    BY <2>2, <2>6 DEF SameSpan, OpenVersion
  <2>9. m.to # Open => m.to = last[s]
    BY <2>6, <2>8 DEF Visible, Sourced, ClosedIsSourced
  <2>10. Covers(m, a)
    BY <2>1, <2>8, <2>9 DEF Covers
  <2>11. QED
    BY <2>7, <2>8, <2>10 DEF Members
<1>2. QED
  BY <1>1, AlwaysSourced, PTL

(* A name known only from its delisting golden is out of every read dated  *)
(* outside its listed life: the closed version is the latest one of its    *)
(* only span from the announcement on.                                     *)
THEOREM MembershipDelistedLeaves == Spec => []DelistedNameLeaves
<1>1. Sourced => DelistedNameLeaves
  <2> SUFFICES ASSUME Sourced, NEW s \in Symbols, DelistingLanded(s), OnlySourced(s),
                      NEW a \in Days, a < Listing[s] \/ a > last[s],
                      NEW r \in Current("listed", a), r.symbol = s, Covers(r, a)
               PROVE  FALSE
    BY DEF DelistedNameLeaves, Members
  <2>1. PICK q \in rows : q.symbol = s /\ q.to # Open
    BY DEF DelistingLanded
  <2>2. /\ announced[s] # Never /\ q.universe = "listed"
        /\ q.from = Listing[s] /\ q.kd = announced[s]
    BY <2>1 DEF Sourced, ClosedIsSourced
  <2>3. /\ Listing[s] \in Nat /\ a \in Nat
        /\ announced[s] \in Nat /\ last[s] \in Nat
    BY ListingAssumption, LastDayAssumption DEF Days, Sourced, TypeOK, Never
  <2>4. Listing[s] < announced[s] /\ announced[s] <= last[s]
    BY <2>2 DEF Sourced, AnnouncedWhileListed
  <2>5. r \in rows /\ r.universe = "listed"
    BY DEF Current, Visible
  <2>6. r.source = "golden"
    BY <2>5 DEF OnlySourced
  <2>7. r.from = Listing[s] /\ (r.to = Open => r.kd = Listing[s])
    BY <2>5, <2>6 DEF Sourced, GoldenIsOpenOrClosed
  <2>8. CASE a < Listing[s]
    BY <2>3, <2>7, <2>8 DEF Covers
  <2>9. CASE a > last[s] /\ r.to # Open
    <3>1. r.to = last[s]
      BY <2>5, <2>9 DEF Sourced, ClosedIsSourced
    <3>2. QED
      BY <2>3, <2>9, <3>1 DEF Covers
  <2>10. CASE a > last[s] /\ r.to = Open
    <3>1. q \in Visible("listed", a)
      BY <2>1, <2>2, <2>3, <2>4, <2>10 DEF Visible
    <3>2. q.kd <= r.kd
      BY <2>1, <2>2, <2>5, <2>7, <3>1 DEF Current, SameSpan
    <3>3. QED
      BY <2>2, <2>3, <2>4, <2>7, <2>10, <3>2
  <2>11. QED
    BY <2>8, <2>9, <2>10
<1>2. QED
  BY <1>1, AlwaysSourced, PTL

(* Every step only adds rows.                                              *)
LEMMA RowsGrow ==
  ASSUME [Next]_vars
  PROVE  rows \subseteq rows'
<1>1. \A new : Land(new) => rows \subseteq rows'
  BY DEF Land
<1>2. QED
  BY <1>1 DEF Next, IngestDelisting, OnboardSymbol, IngestUniverse, Tick,
              LinkSector, Announce, vars

(* A row known only after day a is invisible to every read dated a.        *)
THEOREM MembershipNoLookAhead == Spec => NoLookAhead
<1>1. Sourced /\ Sourced' /\ [Next]_vars =>
        [LET landed == rows' \ rows
         IN  landed # {} =>
               \A a \in Days : (\A r \in landed : r.kd > a) =>
                 /\ \A u \in Universes : Members(u, a)' = Members(u, a)
                 /\ \A s \in Symbols : FitClasses(s, a)' = FitClasses(s, a)]_rows
  <2> SUFFICES ASSUME Sourced, Sourced', [Next]_vars, NEW a \in Days,
                      \A r \in rows' \ rows : r.kd > a
               PROVE  /\ \A u \in Universes : Members(u, a)' = Members(u, a)
                      /\ \A s \in Symbols : FitClasses(s, a)' = FitClasses(s, a)
    OBVIOUS
  <2>1. rows \subseteq rows'
    BY RowsGrow
  <2>2. \A r \in rows' : r.kd \in Nat /\ a \in Nat
    BY LastDayAssumption DEF Sourced, TypeOK, Row, Days
  <2>3. \A r \in rows' : r.kd <= a => r \in rows
    BY <2>2
  <2>4. ASSUME NEW u \in Universes PROVE Members(u, a)' = Members(u, a)
    <3>1. Visible(u, a)' = Visible(u, a)
      BY <2>1, <2>3 DEF Visible
    <3>2. Current(u, a)' = Current(u, a)
      BY <3>1 DEF Current
    <3>3. QED
      BY <3>2 DEF Members
  <2>5. ASSUME NEW s \in Symbols PROVE FitClasses(s, a)' = FitClasses(s, a)
    <3>1. {r \in rows' : r.symbol = s /\ r.kd <= a} = {r \in rows : r.symbol = s /\ r.kd <= a}
      BY <2>1, <2>3
    <3>2. LatestSpanRows(s, a)' = LatestSpanRows(s, a)
      BY <3>1 DEF LatestSpanRows
    <3>3. QED
      BY <3>2 DEF FitClasses
  <2>6. QED
    BY <2>4, <2>5
<1>2. QED
  BY <1>1, AlwaysSourced, PTL DEF Spec, NoLookAhead
=============================================================================
